---------------------------- MODULE DashboardProofs ----------------------------
(***************************************************************************)
(* Proofs about Subscription, for any requests and bounds, and about       *)
(* Attribution, for any signals, periods and runs.                         *)
(*                                                                         *)
(* As long as the reports of a subscription come as they should, it has    *)
(* one handler at most, which has loaded the status there is and brings    *)
(* the next report, or the last one again.                                 *)
(*                                                                         *)
(* What a run of the attribution knew when it began, and what it saw when  *)
(* it computed, are sets of signals that only grow; so the order in which  *)
(* the runs began is the order of what they knew, whatever the order they  *)
(* end in.                                                                 *)
(***************************************************************************)
EXTENDS Dashboard, FiniteSetTheorems, TLAPS

(* A report is a change that happened, and a handler has found a row. *)
Reported ==
  \A q \in Request :
    /\ Len(log[q]) <= MaxReports
    /\ unanswered[q] \subseteq 1..Len(log[q])
    /\ handled[q] <= Len(log[q])
    /\ row[q] = "absent" => handled[q] = 0
    /\ request[q] = "idle" => log[q] = <<>>
    /\ \A h \in HandlersOf(q) : h.report <= Len(log[q]) /\ row[q] # "absent"

OneByOne ==
  \A q \in Request : row[q] # "absent" /\ q \notin disordered =>
    /\ Leaves(q, handled[q], row[q])
    /\ \A h \in HandlersOf(q) : /\ h.loaded = row[q]
                                /\ h.report \in {handled[q], handled[q] + 1}
                                /\ HandlersOf(q) = {h}

ReportInv == SubscriptionTypeOK /\ Reported /\ OneByOne

LEMMA InitReports == SubscriptionInit => ReportInv
<1>. SUFFICES ASSUME SubscriptionInit PROVE ReportInv
  OBVIOUS
<1>. USE SubscriptionAssumption DEF SubscriptionInit
<1>1. SubscriptionTypeOK
  BY DEF SubscriptionTypeOK
<1>2. Reported
  BY DEF Reported, HandlersOf
<1>3. OneByOne
  BY DEF OneByOne
<1>. QED
  BY <1>1, <1>2, <1>3 DEF ReportInv

-----------------------------------------------------------------------------
(* What the webhook makes of a report. *)
LEMMA StatusForType ==
  ASSUME NEW e \in Event, NEW now \in Status
  PROVE  /\ StatusFor(e, now) \in Status
         /\ e = "other" => StatusFor(e, now) = now
         /\ e # "other" => StatusFor(e, now) = Told[e]
  BY DEF Event, Status, StatusFor, Told

(* A change that is not handled yet does not matter. *)
LEMMA LeavesKept ==
  ASSUME NEW q \in Request, handled[q] \in Nat,
         handled'[q] = handled[q], row'[q] = row[q],
         \A i \in 1..handled[q] : log'[q][i] = log[q][i],
         Leaves(q, handled[q], row[q])
  PROVE  Leaves(q, handled[q], row[q])'
<1>. DEFINE n == handled[q]
<1>1. CASE row[q] = "created" /\ \A i \in 1..n : log[q][i] = "other"
  BY <1>1 DEF Leaves
<1>2. ASSUME NEW i \in 1..n, log[q][i] # "other", row[q] = Told[log[q][i]],
             \A j \in (i + 1)..n : log[q][j] = "other"
      PROVE  Leaves(q, handled[q], row[q])'
  <2>1. \A j \in (i + 1)..n : j \in 1..n
    OBVIOUS
  <2>2. log'[q][i] # "other" /\ row[q] = Told[log'[q][i]]
        /\ \A j \in (i + 1)..n : log'[q][j] = "other"
    BY <1>2, <2>1
  <2>. QED
    BY <2>2 DEF Leaves
<1>. QED
  BY <1>1, <1>2 DEF Leaves

(* The next change leaves what the webhook makes of it. *)
LEMMA LeavesNext ==
  ASSUME NEW q \in Request, NEW n \in Nat, NEW now \in Status,
         log[q][n + 1] \in Event, Leaves(q, n, now)
  PROVE  Leaves(q, n + 1, StatusFor(log[q][n + 1], now))
<1>. DEFINE e == log[q][n + 1]
<1>1. CASE e = "other"
  <2>1. StatusFor(e, now) = now
    BY <1>1, StatusForType
  <2>2. CASE now = "created" /\ \A i \in 1..n : log[q][i] = "other"
    <3>1. \A i \in 1..(n + 1) : i \in 1..n \/ i = n + 1
      OBVIOUS
    <3>. QED
      BY <1>1, <2>1, <2>2, <3>1 DEF Leaves
  <2>3. ASSUME NEW i \in 1..n, log[q][i] # "other", now = Told[log[q][i]],
               \A j \in (i + 1)..n : log[q][j] = "other"
        PROVE  Leaves(q, n + 1, now)
    <3>1. i \in 1..(n + 1) /\ \A j \in (i + 1)..(n + 1) : j \in (i + 1)..n \/ j = n + 1
      OBVIOUS
    <3>. QED
      BY <1>1, <2>3, <3>1 DEF Leaves
  <2>. QED
    BY <2>1, <2>2, <2>3 DEF Leaves
<1>2. CASE e # "other"
  <2>1. StatusFor(e, now) = Told[e]
    BY <1>2, StatusForType
  <2>2. n + 1 \in 1..(n + 1) /\ \A j \in ((n + 1) + 1)..(n + 1) : FALSE
    OBVIOUS
  <2>. HIDE DEF e
  <2>3. \E i \in 1..(n + 1) : /\ log[q][i] # "other"
                              /\ StatusFor(e, now) = Told[log[q][i]]
                              /\ \A j \in (i + 1)..(n + 1) : log[q][j] = "other"
    BY <1>2, <2>1, <2>2 DEF e
  <2>. QED
    BY <2>3 DEF Leaves, e
<1>. QED
  BY <1>1, <1>2

(* The last change again leaves what it left. *)
LEMMA LeavesAgain ==
  ASSUME NEW q \in Request, NEW n \in Nat \ {0}, NEW now \in Status,
         log[q][n] \in Event, Leaves(q, n, now)
  PROVE  StatusFor(log[q][n], now) = now
<1>1. CASE log[q][n] = "other"
  BY <1>1, StatusForType
<1>2. CASE log[q][n] # "other"
  <2>1. PICK i \in 1..n : /\ log[q][i] # "other" /\ now = Told[log[q][i]]
                          /\ \A j \in (i + 1)..n : log[q][j] = "other"
    BY <1>2 DEF Leaves
  <2>2. i = n
    BY <1>2, <2>1
  <2>. QED
    BY <1>2, <2>1, <2>2, StatusForType
<1>. QED
  BY <1>1, <1>2

-----------------------------------------------------------------------------
(* Razorpay and the requests change nothing that a handler goes by. *)
LEMMA RequestReports ==
  ASSUME ReportInv, NEW q \in Request,
         CreateAtRazorpay(q) \/ CommitSubscription(q) \/ LoseRequest(q)
  PROVE  ReportInv'
<1>0. /\ request \in [Request -> {"idle", "created", "done", "lost"}]
      /\ row \in [Request -> Status \cup {"absent"}]
      /\ \A x \in Request : row[x] # "absent" <=> request[x] = "done"
      /\ log' = log /\ handled' = handled /\ handlers' = handlers
      /\ unanswered' = unanswered /\ disordered' = disordered
  BY DEF ReportInv, SubscriptionTypeOK, CreateAtRazorpay, CommitSubscription, LoseRequest
<1>a. \A x \in Request : HandlersOf(x)' = HandlersOf(x)
  BY <1>0 DEF HandlersOf
<1>b. ASSUME NEW x \in Request, NEW n, NEW s PROVE Leaves(x, n, s)' = Leaves(x, n, s)
  BY <1>0 DEF Leaves
<1>1. CASE row' = row /\ \A x \in Request : /\ request'[x] = "idle" => request[x] = "idle"
                                            /\ request'[x] = "done" <=> request[x] = "done"
                  /\ request' \in [Request -> {"idle", "created", "done", "lost"}]
  <2>1. SubscriptionTypeOK'
    BY <1>0, <1>1 DEF ReportInv, SubscriptionTypeOK
  <2>2. Reported'
    BY <1>0, <1>1, <1>a DEF ReportInv, Reported
  <2>3. OneByOne'
    BY <1>0, <1>1, <1>a, <1>b DEF ReportInv, OneByOne
  <2>. QED
    BY <2>1, <2>2, <2>3 DEF ReportInv
<1>2. CASE CreateAtRazorpay(q) \/ LoseRequest(q)
  BY <1>0, <1>1, <1>2 DEF CreateAtRazorpay, LoseRequest
<1>3. CASE CommitSubscription(q)
  <2>1. /\ request[q] = "created" /\ request' = [request EXCEPT ![q] = "done"]
        /\ row' = [row EXCEPT ![q] = "created"] /\ row[q] = "absent"
    BY <1>0, <1>3 DEF CommitSubscription
  <2>2. SubscriptionTypeOK'
    BY <1>0, <2>1 DEF ReportInv, SubscriptionTypeOK, Status
  <2>3. Reported'
    BY <1>0, <1>a, <2>1 DEF ReportInv, Reported
  <2>4. Leaves(q, 0, "created")
    BY DEF Leaves
  <2>5. HandlersOf(q) = {} /\ handled[q] = 0
    BY <2>1 DEF ReportInv, Reported
  <2>6. OneByOne'
    BY <1>0, <1>a, <1>b, <2>1, <2>4, <2>5 DEF ReportInv, OneByOne
  <2>. QED
    BY <2>2, <2>3, <2>6 DEF ReportInv
<1>. QED
  BY <1>2, <1>3

LEMMA ChangeReports ==
  ASSUME ReportInv, NEW q \in Request, NEW e \in Event, Change(q, e)
  PROVE  ReportInv'
<1>0. /\ log \in [Request -> Seq(Event)] /\ log' = [log EXCEPT ![q] = Append(log[q], e)]
      /\ unanswered \in [Request -> SUBSET (1..MaxReports)]
      /\ unanswered' = [unanswered EXCEPT ![q] = unanswered[q] \cup {Len(log[q]) + 1}]
      /\ request' = request /\ row' = row /\ handled' = handled /\ handlers' = handlers
      /\ disordered' = disordered
      /\ request[q] # "idle" /\ Len(log[q]) < MaxReports
      /\ handled \in [Request -> 0..MaxReports] /\ MaxReports \in Nat
  BY SubscriptionAssumption DEF ReportInv, SubscriptionTypeOK, Change
<1>1. /\ log'[q] = Append(log[q], e) /\ Len(log'[q]) = Len(log[q]) + 1 /\ Len(log[q]) \in Nat
      /\ \A x \in Request \ {q} : log'[x] = log[x] /\ unanswered'[x] = unanswered[x]
      /\ \A i \in 1..Len(log[q]) : log'[q][i] = log[q][i]
      /\ unanswered'[q] = unanswered[q] \cup {Len(log[q]) + 1}
      /\ log' \in [Request -> Seq(Event)]
  BY <1>0
<1>2. Len(log[q]) + 1 \in 1..MaxReports
  BY <1>0, <1>1
<1>3. SubscriptionTypeOK'
  <2>1. unanswered' \in [Request -> SUBSET (1..MaxReports)]
    BY <1>0, <1>2
  <2>. QED
    BY <1>0, <1>1, <2>1 DEF ReportInv, SubscriptionTypeOK
<1>4. \A x \in Request : HandlersOf(x)' = HandlersOf(x)
  BY <1>0 DEF HandlersOf
<1>5. Reported'
  <2>1. \A h \in handlers : h.report \in 1..MaxReports
    BY DEF ReportInv, SubscriptionTypeOK
  <2>2. ASSUME NEW x \in Request \ {q}
        PROVE  /\ Len(log'[x]) <= MaxReports /\ unanswered'[x] \subseteq 1..Len(log'[x])
               /\ handled'[x] <= Len(log'[x]) /\ (row'[x] = "absent" => handled'[x] = 0)
               /\ (request'[x] = "idle" => log'[x] = <<>>)
               /\ \A h \in HandlersOf(x)' : h.report <= Len(log'[x]) /\ row'[x] # "absent"
    BY <1>0, <1>1, <1>4 DEF ReportInv, Reported
  <2>3. /\ Len(log'[q]) <= MaxReports /\ unanswered'[q] \subseteq 1..Len(log'[q])
        /\ handled'[q] <= Len(log'[q]) /\ (row'[q] = "absent" => handled'[q] = 0)
        /\ request'[q] # "idle"
    BY <1>0, <1>1, <1>2 DEF ReportInv, Reported
  <2>4. \A h \in HandlersOf(q)' : h.report <= Len(log'[q]) /\ row'[q] # "absent"
    BY <1>0, <1>1, <1>4, <2>1 DEF ReportInv, Reported, HandlersOf
  <2>. QED
    BY <2>2, <2>3, <2>4 DEF Reported
<1>6. OneByOne'
  <2>1. ASSUME NEW x \in Request, Leaves(x, handled[x], row[x])
        PROVE  Leaves(x, handled[x], row[x])'
    <3>1. \A i \in 1..handled[x] : log'[x][i] = log[x][i]
      BY <1>0, <1>1 DEF ReportInv, Reported
    <3>2. handled[x] \in Nat
      BY <1>0
    <3>. QED
      BY <1>0, <2>1, <3>1, <3>2, LeavesKept
  <2>. QED
    BY <1>0, <1>4, <2>1 DEF ReportInv, OneByOne
<1>. QED
  BY <1>3, <1>5, <1>6 DEF ReportInv

(* A report that comes as it should gets the only handler there is. *)
LEMMA ReceiveReports ==
  ASSUME ReportInv, NEW q \in Request, NEW n \in 1..MaxReports, ReceiveReport(q, n)
  PROVE  ReportInv'
<1>. DEFINE new == [of |-> q, report |-> n, loaded |-> row[q]]
<1>0. /\ request' = request /\ log' = log /\ row' = row /\ handled' = handled
      /\ row \in [Request -> Status \cup {"absent"}] /\ log \in [Request -> Seq(Event)]
      /\ n \in unanswered[q] /\ n \in 1..Len(log[q])
      /\ unanswered' \in [Request -> SUBSET (1..MaxReports)]
      /\ \A x \in Request : unanswered'[x] \subseteq unanswered[x]
      /\ disordered' \subseteq Request /\ disordered \subseteq disordered'
      /\ (row[q] = "absent" /\ handlers' = handlers)
         \/ (row[q] # "absent" /\ handlers' = handlers \cup {new})
      /\ q \notin disordered' => InOrder(q, n)
  BY DEF ReportInv, SubscriptionTypeOK, Reported, ReceiveReport
<1>1. row[q] # "absent" => new \in [of : Request, report : 1..MaxReports, loaded : Status]
  BY <1>0
<1>2. SubscriptionTypeOK'
  BY <1>0, <1>1 DEF ReportInv, SubscriptionTypeOK
<1>3. /\ \A x \in Request \ {q} : HandlersOf(x)' = HandlersOf(x)
      /\ HandlersOf(q)' = IF row[q] = "absent" THEN HandlersOf(q) ELSE HandlersOf(q) \cup {new}
  BY <1>0 DEF HandlersOf
<1>4. Reported'
  <2>1. ASSUME NEW x \in Request, NEW h \in HandlersOf(x)'
        PROVE  h.report <= Len(log[x]) /\ row[x] # "absent"
    <3>1. CASE h \in HandlersOf(x)
      BY <3>1 DEF ReportInv, Reported
    <3>2. CASE h \notin HandlersOf(x)
      <4>1. x = q /\ row[q] # "absent" /\ h = new
        BY <1>3, <3>2
      <4>. QED
        BY <1>0, <4>1
    <3>. QED
      BY <3>1, <3>2
  <2>2. \A x \in Request : /\ Len(log'[x]) <= MaxReports /\ unanswered'[x] \subseteq 1..Len(log'[x])
                           /\ handled'[x] <= Len(log'[x]) /\ (row'[x] = "absent" => handled'[x] = 0)
                           /\ (request'[x] = "idle" => log'[x] = <<>>)
    BY <1>0 DEF ReportInv, Reported
  <2>. QED
    BY <1>0, <2>1, <2>2 DEF Reported
<1>5. \A x \in Request : Leaves(x, handled[x], row[x])' = Leaves(x, handled[x], row[x])
  BY <1>0 DEF Leaves
<1>6. ASSUME row'[q] # "absent", q \notin disordered'
      PROVE  HandlersOf(q)' = {new} /\ n \in {handled[q], handled[q] + 1}
  BY <1>0, <1>3, <1>6 DEF InOrder
<1>7. OneByOne'
  BY <1>0, <1>3, <1>5, <1>6 DEF ReportInv, OneByOne
<1>. QED
  BY <1>2, <1>4, <1>7 DEF ReportInv

(* A handler that fails leaves its report to be delivered again. *)
LEMMA LoseReports ==
  ASSUME ReportInv, NEW h \in handlers, LoseReport(h)
  PROVE  ReportInv'
<1>0. /\ request' = request /\ log' = log /\ row' = row /\ handled' = handled
      /\ disordered' = disordered /\ handlers' = handlers \ {h}
      /\ h \in [of : Request, report : 1..MaxReports, loaded : Status]
      /\ h.report \in 1..Len(log[h.of]) /\ log \in [Request -> Seq(Event)]
      /\ unanswered \in [Request -> SUBSET (1..MaxReports)]
      /\ unanswered' = [unanswered EXCEPT ![h.of] = unanswered[h.of] \cup {h.report}]
  BY DEF LoseReport, ReportInv, SubscriptionTypeOK, Reported, HandlersOf
<1>1. SubscriptionTypeOK'
  BY <1>0 DEF ReportInv, SubscriptionTypeOK
<1>2. \A x \in Request : HandlersOf(x)' \subseteq HandlersOf(x)
  BY <1>0 DEF HandlersOf
<1>3. Reported'
  BY <1>0, <1>2 DEF ReportInv, Reported
<1>4. \A x \in Request : Leaves(x, handled[x], row[x])' = Leaves(x, handled[x], row[x])
  BY <1>0 DEF Leaves
<1>5. ASSUME NEW x \in Request, NEW g \in HandlersOf(x)', HandlersOf(x) = {g}
      PROVE  HandlersOf(x)' = {g}
  BY <1>2, <1>5
<1>6. OneByOne'
  BY <1>0, <1>2, <1>4, <1>5 DEF ReportInv, OneByOne
<1>. QED
  BY <1>1, <1>3, <1>6 DEF ReportInv

(* The only handler there is brings the row to what its report says. *)
LEMMA CommitReports ==
  ASSUME ReportInv, NEW h \in handlers, CommitReport(h)
  PROVE  ReportInv'
<1>. DEFINE q == h.of
            n == h.report
            new == StatusFor(log[q][n], h.loaded)
<1>0. /\ request' = request /\ log' = log /\ unanswered' = unanswered
      /\ disordered' = disordered /\ handlers' = handlers \ {h}
      /\ row' = IF new = h.loaded THEN row ELSE [row EXCEPT ![q] = new]
      /\ handled' = [handled EXCEPT ![q] = IF n > handled[q] THEN n ELSE handled[q]]
  BY DEF CommitReport
<1>1. /\ h \in [of : Request, report : 1..MaxReports, loaded : Status]
      /\ q \in Request /\ n \in 1..Len(log[q]) /\ n \in 1..MaxReports /\ h.loaded \in Status
      /\ log \in [Request -> Seq(Event)] /\ h \in HandlersOf(q)
      /\ row \in [Request -> Status \cup {"absent"}] /\ row[q] # "absent"
      /\ handled \in [Request -> 0..MaxReports] /\ handled[q] \in Nat
  BY SubscriptionAssumption DEF ReportInv, SubscriptionTypeOK, Reported, HandlersOf
<1>2. log[q][n] \in Event
  BY <1>1
<1>3. new \in Status
  BY <1>1, <1>2, StatusForType
<1>. HIDE DEF new
<1>4. /\ row' \in [Request -> Status \cup {"absent"}]
      /\ \A x \in Request : row'[x] = "absent" <=> row[x] = "absent"
      /\ \A x \in Request \ {q} : row'[x] = row[x] /\ handled'[x] = handled[x]
      /\ handled' \in [Request -> 0..MaxReports]
  BY <1>0, <1>1, <1>3 DEF Status
<1>5. SubscriptionTypeOK'
  BY <1>0, <1>4 DEF ReportInv, SubscriptionTypeOK
<1>6. \A x \in Request : HandlersOf(x)' = HandlersOf(x) \ {h}
  BY <1>0 DEF HandlersOf
<1>7. Reported'
  BY <1>0, <1>1, <1>4, <1>6 DEF ReportInv, Reported
<1>8. \A x \in Request \ {q} : Leaves(x, handled[x], row[x])' = Leaves(x, handled[x], row[x])
                              /\ HandlersOf(x)' = HandlersOf(x)
  BY <1>0, <1>4, <1>6 DEF Leaves, HandlersOf
<1>a. ASSUME NEW s, Leaves(q, n, s), row'[q] = s, handled'[q] = n
      PROVE  Leaves(q, handled[q], row[q])'
  <2>1. log' = log
    BY <1>0
  <2>. QED
    BY <1>a, <2>1 DEF Leaves
<1>9. ASSUME q \notin disordered
      PROVE  Leaves(q, handled[q], row[q])' /\ HandlersOf(q)' = {}
  <2>1. /\ Leaves(q, handled[q], row[q]) /\ h.loaded = row[q]
        /\ n \in {handled[q], handled[q] + 1} /\ HandlersOf(q) = {h}
    BY <1>1, <1>9 DEF ReportInv, OneByOne
  <2>2. row'[q] = new
    BY <1>0, <1>1, <2>1
  <2>3. CASE n = handled[q] + 1
    <3>1. Leaves(q, n, new)
      BY <1>1, <1>2, <2>1, <2>3, LeavesNext DEF new
    <3>2. handled'[q] = n
      BY <1>0, <1>1, <2>3
    <3>. QED
      BY <1>1, <1>6, <1>a, <2>1, <2>2, <3>1, <3>2
  <2>4. CASE n = handled[q]
    <3>1. new = row[q]
      BY <1>1, <1>2, <2>1, <2>4, LeavesAgain DEF new
    <3>2. handled'[q] = handled[q]
      BY <1>0, <1>1, <2>4
    <3>. QED
      BY <1>1, <1>6, <1>a, <2>1, <2>2, <2>4, <3>1, <3>2
  <2>. QED
    BY <2>1, <2>3, <2>4
<1>10. OneByOne'
  BY <1>0, <1>1, <1>4, <1>8, <1>9 DEF ReportInv, OneByOne
<1>. QED
  BY <1>5, <1>7, <1>10 DEF ReportInv

LEMMA StepReports == ReportInv /\ [SubscriptionNext]_subscriptionVars => ReportInv'
<1>. SUFFICES ASSUME ReportInv, [SubscriptionNext]_subscriptionVars PROVE ReportInv'
  OBVIOUS
<1>1. CASE UNCHANGED subscriptionVars
  BY <1>1 DEF subscriptionVars, ReportInv, SubscriptionTypeOK, Reported, OneByOne, HandlersOf,
              Leaves
<1>. QED
  BY <1>1, RequestReports, ChangeReports, ReceiveReports, LoseReports, CommitReports
     DEF SubscriptionNext

(* The state has its type, however many reports and handlers there are. *)
THEOREM SubscriptionTypeCorrect == SubscriptionSpec => []SubscriptionTypeOK
<1>1. ReportInv => SubscriptionTypeOK
  BY DEF ReportInv
<1>. QED
  BY <1>1, InitReports, StepReports, PTL DEF SubscriptionSpec

(* Reports that come in order, whatever fails and is repeated, leave the    *)
(* row with the status that Razorpay reported last.                         *)
THEOREM StatusIsReported == SubscriptionSpec => []StatusFollowsReports
<1>1. ReportInv => StatusFollowsReports
  BY DEF ReportInv, OneByOne, StatusFollowsReports
<1>. QED
  BY <1>1, InitReports, StepReports, PTL DEF SubscriptionSpec

-----------------------------------------------------------------------------
(* Attribution. *)

LEMMA SignalTimes ==
  \A s \in Signal : s.at \in Int
  BY AttributionAssumption

LEMMA PeriodType ==
  \A p \in Period : p.start \in Int /\ p.end \in Int
  BY AttributionAssumption

(* A percentage of something: the bound a caller may rely on. *)
LEMMA CompletenessType ==
  ASSUME NEW p \in Period, NEW S \in SUBSET Signal
  PROVE  Completeness(p, S) \in 0..100
<1>. DEFINE n == DaysWithSignal(S)
            pct == (100 * n) \div DaysIn(p)
<1>1. n \in Nat
  <2>1. IsFiniteSet(S)
    BY AttributionAssumption, FS_Subset
  <2>. DEFINE T == {s.at \div Day : s \in S}
              day == [s \in S |-> s.at \div Day]
  <2>a. day \in Surjection(S, T)
    BY DEF Surjection
  <2>2. IsFiniteSet(T)
    BY <2>1, <2>a, FS_Surjection
  <2>. QED
    BY <2>2, FS_CardinalityType DEF DaysWithSignal
<1>2. DaysIn(p) \in Int /\ DaysIn(p) > 0
  BY AttributionAssumption, PeriodType DEF DaysIn
<1>. HIDE DEF n
<1>3. pct \in Nat
  <2>. DEFINE d == DaysIn(p)
              m == 100 * n
  <2>1. m \in Nat /\ d \in Int /\ d > 0
    BY <1>1, <1>2
  <2>. HIDE DEF m, d
  <2>2. m \div d \in Nat
    BY <2>1
  <2>. QED
    BY <2>2 DEF m, d
<1>. QED
  BY <1>3 DEF Completeness, n

(* No outcome is attributed that there is not. *)
LEMMA CorrelationType ==
  ASSUME NEW p \in Period, NEW all \in SUBSET Signal
  PROVE  /\ Correlation(p, all) \in [attributed : Nat, outcomes : Nat, completeness : 0..100]
         /\ Correlation(p, all).attributed <= Correlation(p, all).outcomes
<1>. DEFINE S == {s \in all : In(p, s)}
<1>1. S \in SUBSET Signal
  OBVIOUS
<1>. HIDE DEF S
<1>2. IsFiniteSet(Outcomes(S))
  BY <1>1, AttributionAssumption, FS_Subset DEF Outcomes
<1>3. Attributed(S) \subseteq Outcomes(S)
  BY DEF Attributed
<1>4. /\ Cardinality(Attributed(S)) \in Nat /\ Cardinality(Outcomes(S)) \in Nat
      /\ Cardinality(Attributed(S)) <= Cardinality(Outcomes(S))
  BY <1>2, <1>3, FS_Subset, FS_CardinalityType
<1>5. Completeness(p, S) \in 0..100
  BY <1>1, CompletenessType
<1>. QED
  BY <1>4, <1>5 DEF Correlation, S

-----------------------------------------------------------------------------
RunLocals ==
  [step : {"idle", "queued", "begun", "flushed", "done", "lost"},
   period : Period, computed_at : 0..Cardinality(Run),
   knew : SUBSET Signal, saw : SUBSET Signal,
   result : [attributed : Nat, outcomes : Nat, completeness : 0..100]]

Started == {x \in Run : run[x].computed_at # 0}

(* computed_at counts the runs that have begun. *)
Counted ==
  /\ begun = Cardinality(Started)
  /\ \A x \in Run : /\ run[x].computed_at <= begun
                    /\ run[x].step \in {"idle", "queued"} => run[x].computed_at = 0

(* A run that began later knew more, and a run saw all that it knew. *)
Fresh ==
  \A x \in Run :
    /\ run[x].knew \subseteq signals /\ run[x].saw \subseteq signals
    /\ run[x].step \in {"flushed", "done"} =>
         /\ run[x].knew \subseteq run[x].saw
         /\ run[x].result = Correlation(run[x].period, run[x].saw)
    /\ run[x].step \in {"begun", "flushed", "done"} =>
         \A y \in Run : run[y].computed_at <= run[x].computed_at => run[y].knew \subseteq run[x].knew

RunInv == AttributionTypeOK /\ Counted /\ Fresh

LEMMA InitRuns == AttributionInit => RunInv
<1>. SUFFICES ASSUME AttributionInit PROVE RunInv
  OBVIOUS
<1>1. AnyPeriod \in Period
  BY AttributionAssumption DEF AnyPeriod
<1>2. Cardinality(Run) \in Nat
  BY AttributionAssumption, FS_CardinalityType
<1>3. AttributionTypeOK
  BY <1>1, <1>2 DEF AttributionInit, AttributionTypeOK, NoCorrelation
<1>4. Started = {}
  BY DEF AttributionInit, Started
<1>5. Counted
  BY <1>4, FS_EmptySet DEF AttributionInit, Counted
<1>6. Fresh
  BY DEF AttributionInit, Fresh
<1>. QED
  BY <1>3, <1>5, <1>6 DEF RunInv

(* Two steps that leave computed_at alone leave the count alone. *)
LEMMA Uncounted ==
  ASSUME Counted, begun' = begun,
         \A x \in Run : run'[x].computed_at = run[x].computed_at,
         \A x \in Run : run'[x].step \in {"idle", "queued"} => run[x].step \in {"idle", "queued"}
  PROVE  Counted'
<1>1. Started' = Started
  BY DEF Started
<1>. QED
  BY <1>1 DEF Counted

LEMMA StepRuns == RunInv /\ [AttributionNext]_attributionVars => RunInv'
<1>. SUFFICES ASSUME RunInv, [AttributionNext]_attributionVars PROVE RunInv'
  OBVIOUS
<1>0. /\ run \in [Run -> RunLocals] /\ signals \subseteq Signal
      /\ begun \in 0..Cardinality(Run) /\ Cardinality(Run) \in Nat
      /\ \A x \in Run : run[x].result.attributed <= run[x].result.outcomes
  BY AttributionAssumption, FS_CardinalityType DEF RunInv, AttributionTypeOK, RunLocals
<1>1. CASE UNCHANGED attributionVars
  BY <1>1 DEF attributionVars, RunInv, AttributionTypeOK, Counted, Started, Fresh
<1>2. ASSUME NEW s \in Signal, Arrive(s) PROVE RunInv'
  <2>1. AttributionTypeOK'
    BY <1>2 DEF Arrive, RunInv, AttributionTypeOK
  <2>2. Counted'
    BY <1>2 DEF Arrive, RunInv, Counted, Started
  <2>3. Fresh'
    BY <1>2 DEF Arrive, RunInv, Fresh
  <2>. QED
    BY <2>1, <2>2, <2>3 DEF RunInv
<1>3. ASSUME NEW x \in Run, NEW p \in Period, Trigger(x, p) PROVE RunInv'
  <2>. DEFINE new == [run[x] EXCEPT !.step = "queued", !.period = p]
  <2>1. run[x] \in RunLocals /\ run[x].step = "idle"
        /\ run' = [run EXCEPT ![x] = new] /\ signals' = signals /\ begun' = begun
    BY <1>0, <1>3 DEF Trigger
  <2>2. new \in RunLocals /\ new.step = "queued" /\ new.computed_at = run[x].computed_at
        /\ new.knew = run[x].knew /\ new.saw = run[x].saw /\ new.result = run[x].result
    BY <2>1 DEF RunLocals
  <2>. HIDE DEF new
  <2>3. run'[x] = new /\ \A y \in Run \ {x} : run'[y] = run[y]
    BY <1>0, <2>1
  <2>4. AttributionTypeOK'
    BY <1>0, <2>1, <2>2, <2>3 DEF AttributionTypeOK, RunLocals
  <2>5. Counted'
    BY <2>1, <2>2, <2>3, Uncounted DEF RunInv
  <2>6. Fresh'
    BY <2>1, <2>2, <2>3 DEF RunInv, Fresh
  <2>. QED
    BY <2>4, <2>5, <2>6 DEF RunInv
<1>4. ASSUME NEW x \in Run, Begin(x) PROVE RunInv'
  <2>. DEFINE new == [run[x] EXCEPT !.step = "begun", !.computed_at = begun + 1,
                                    !.knew = signals]
  <2>1. run[x] \in RunLocals /\ run[x].step = "queued" /\ run[x].computed_at = 0
        /\ run' = [run EXCEPT ![x] = new] /\ signals' = signals /\ begun' = begun + 1
    BY <1>0, <1>4 DEF Begin, RunInv, Counted
  <2>2. IsFiniteSet(Started) /\ x \notin Started /\ Started \cup {x} \subseteq Run
    BY <2>1, AttributionAssumption, FS_Subset DEF Started
  <2>3. Cardinality(Started \cup {x}) = begun + 1 /\ begun + 1 <= Cardinality(Run)
    <3>1. IsFiniteSet(Run) /\ begun = Cardinality(Started) /\ begun \in Nat
      BY <1>0, AttributionAssumption DEF RunInv, Counted, AttributionTypeOK
    <3>2. Cardinality(Started \cup {x}) = begun + 1
      BY <2>2, <3>1, FS_AddElement
    <3>3. Cardinality(Started \cup {x}) <= Cardinality(Run)
      BY <2>2, <3>1, FS_Subset
    <3>. QED
      BY <3>2, <3>3
  <2>a. begun + 1 \in 0..Cardinality(Run)
    BY <1>0, <2>3
  <2>4. new \in RunLocals /\ new.step = "begun" /\ new.computed_at = begun + 1
        /\ new.knew = signals /\ new.saw = run[x].saw /\ new.result = run[x].result
    BY <1>0, <2>1, <2>a DEF RunLocals
  <2>. HIDE DEF new
  <2>5. run'[x] = new /\ \A y \in Run \ {x} : run'[y] = run[y]
    BY <1>0, <2>1
  <2>6. AttributionTypeOK'
    BY <1>0, <2>1, <2>3, <2>4, <2>5 DEF AttributionTypeOK, RunLocals
  <2>7. Started' = Started \cup {x}
    BY <1>0, <2>4, <2>5 DEF Started
  <2>8. Counted'
    <3>1. \A y \in Run : run[y].computed_at \in Int /\ run[y].computed_at <= begun
      BY <1>0 DEF RunInv, Counted, RunLocals
    <3>. QED
      BY <1>0, <2>1, <2>3, <2>4, <2>5, <2>7, <3>1 DEF RunInv, Counted
  <2>9. Fresh'
    <3>1. \A y \in Run : /\ run[y].knew \subseteq signals
                         /\ run[y].computed_at \in Int /\ run[y].computed_at < begun + 1
      BY <1>0 DEF RunInv, Counted, RunLocals, Fresh
    <3>2. \A y \in Run : run'[y].knew \subseteq signals
      BY <2>4, <2>5, <3>1
    <3>3. ASSUME NEW y \in Run \ {x}, NEW z \in Run, run'[z].computed_at <= run'[y].computed_at
          PROVE  z # x
      BY <1>0, <2>4, <2>5, <3>1, <3>3
    <3>. QED
      BY <2>1, <2>4, <2>5, <3>2, <3>3 DEF RunInv, Fresh
  <2>. QED
    BY <2>6, <2>8, <2>9 DEF RunInv
<1>5. ASSUME NEW x \in Run, Compute(x) PROVE RunInv'
  <2>. DEFINE result == Correlation(run[x].period, signals)
              new == [run[x] EXCEPT !.step = "flushed", !.saw = signals, !.result = result]
  <2>1. run[x] \in RunLocals /\ run[x].step = "begun"
        /\ run' = [run EXCEPT ![x] = new] /\ signals' = signals /\ begun' = begun
    BY <1>0, <1>5 DEF Compute
  <2>2. /\ result \in [attributed : Nat, outcomes : Nat, completeness : 0..100]
        /\ result.attributed <= result.outcomes
    BY <1>0, <2>1, CorrelationType DEF RunLocals
  <2>3. new \in RunLocals /\ new.step = "flushed" /\ new.computed_at = run[x].computed_at
        /\ new.knew = run[x].knew /\ new.saw = signals /\ new.result = result
        /\ new.period = run[x].period
    BY <1>0, <2>1, <2>2 DEF RunLocals
  <2>. HIDE DEF new
  <2>4. run'[x] = new /\ \A y \in Run \ {x} : run'[y] = run[y]
    BY <1>0, <2>1
  <2>5. AttributionTypeOK'
    BY <1>0, <2>1, <2>2, <2>3, <2>4 DEF AttributionTypeOK, RunLocals
  <2>6. Counted'
    BY <2>1, <2>3, <2>4, Uncounted DEF RunInv
  <2>7. Fresh'
    BY <2>1, <2>3, <2>4 DEF RunInv, Fresh
  <2>. QED
    BY <2>5, <2>6, <2>7 DEF RunInv
<1>6. ASSUME NEW x \in Run, CommitRun(x) PROVE RunInv'
  <2>. DEFINE new == [run[x] EXCEPT !.step = "done"]
  <2>1. run[x] \in RunLocals /\ run[x].step = "flushed"
        /\ run' = [run EXCEPT ![x] = new] /\ signals' = signals /\ begun' = begun
    BY <1>0, <1>6 DEF CommitRun
  <2>2. new \in RunLocals /\ new.step = "done" /\ new.computed_at = run[x].computed_at
        /\ new.knew = run[x].knew /\ new.saw = run[x].saw /\ new.result = run[x].result
        /\ new.period = run[x].period
    BY <2>1 DEF RunLocals
  <2>. HIDE DEF new
  <2>3. run'[x] = new /\ \A y \in Run \ {x} : run'[y] = run[y]
    BY <1>0, <2>1
  <2>4. AttributionTypeOK'
    BY <1>0, <2>1, <2>2, <2>3 DEF AttributionTypeOK, RunLocals
  <2>5. Counted'
    BY <2>1, <2>2, <2>3, Uncounted DEF RunInv
  <2>6. Fresh'
    BY <2>1, <2>2, <2>3 DEF RunInv, Fresh
  <2>. QED
    BY <2>4, <2>5, <2>6 DEF RunInv
<1>7. ASSUME NEW x \in Run, LoseRun(x) PROVE RunInv'
  <2>. DEFINE new == [run[x] EXCEPT !.step = "lost", !.knew = {}, !.saw = {},
                                    !.result = NoCorrelation]
  <2>1. run[x] \in RunLocals /\ run' = [run EXCEPT ![x] = new] /\ signals' = signals
        /\ begun' = begun
    BY <1>0, <1>7 DEF LoseRun
  <2>a. NoCorrelation \in [attributed : Nat, outcomes : Nat, completeness : 0..100]
        /\ NoCorrelation.attributed <= NoCorrelation.outcomes
    BY DEF NoCorrelation
  <2>2. new \in RunLocals /\ new.step = "lost" /\ new.computed_at = run[x].computed_at
        /\ new.knew = {} /\ new.saw = {} /\ new.result.attributed <= new.result.outcomes
    BY <2>1, <2>a DEF RunLocals
  <2>. HIDE DEF new
  <2>3. run'[x] = new /\ \A y \in Run \ {x} : run'[y] = run[y]
    BY <1>0, <2>1
  <2>4. AttributionTypeOK'
    BY <1>0, <2>1, <2>2, <2>3 DEF AttributionTypeOK, RunLocals
  <2>5. Counted'
    BY <2>1, <2>2, <2>3, Uncounted DEF RunInv
  <2>6. Fresh'
    BY <2>1, <2>2, <2>3 DEF RunInv, Fresh
  <2>. QED
    BY <2>4, <2>5, <2>6 DEF RunInv
<1>. QED
  BY <1>1, <1>2, <1>3, <1>4, <1>5, <1>6, <1>7 DEF AttributionNext

(* The numbers of a correlation stay in their bounds, for any period. *)
THEOREM AttributionTypeCorrect == AttributionSpec => []AttributionTypeOK
<1>1. RunInv => AttributionTypeOK
  BY DEF RunInv
<1>. QED
  BY <1>1, InitRuns, StepRuns, PTL DEF AttributionSpec

-----------------------------------------------------------------------------
(* The windowed computation finds the outcomes that followed a campaign,    *)
(* and all of them unless the campaign was before the period.               *)
LEMMA AttributedIsFollowed ==
  ASSUME NEW p \in Period, NEW all \in SUBSET Signal
  PROVE  LET attributed == Attributed({s \in all : In(p, s)})
         IN /\ attributed \subseteq Followed(p, all)
            /\ ~Early(p, all) => attributed = Followed(p, all)
<1>. DEFINE S == {s \in all : In(p, s)}
<1>1. Lag \in Int /\ p.start \in Int /\ p.end \in Int /\ \A s \in all : s.at \in Int
  BY AttributionAssumption, SignalTimes, PeriodType
<1>2. Attributed(S) \subseteq Followed(p, all)
  BY <1>1 DEF Attributed, Outcomes, Followed, Drives
<1>3. ASSUME ~Early(p, all), NEW o \in Followed(p, all) PROVE o \in Attributed(S)
  <2>1. o \in all /\ In(p, o) /\ IsOutcome(o)
    BY DEF Followed
  <2>2. PICK c \in all : IsCampaign(c) /\ 0 <= o.at - c.at /\ o.at - c.at <= Lag
    BY DEF Followed
  <2>3. ~(p.start - Lag <= c.at /\ c.at < p.start)
    BY <1>3, <2>2 DEF Early
  <2>4. In(p, c) /\ Drives(c, o)
    BY <1>1, <2>1, <2>2, <2>3 DEF In, Drives
  <2>. QED
    BY <2>1, <2>2, <2>4 DEF Attributed, Outcomes
<1>. QED
  BY <1>2, <1>3

(* The summary shows the proxy it says, and one as fresh as any. *)
THEOREM SummaryShowsProxy == AttributionSpec => []SummaryIsProxy
<1>1. ASSUME RunInv PROVE SummaryIsProxy
  <2>. SUFFICES ASSUME NEW x \in Run, Shown(x)
       PROVE  LET p == run[x].period
                  followed == Cardinality(Followed(p, run[x].saw))
              IN /\ run[x].result.attributed <= followed
                 /\ ~Early(p, run[x].saw) => run[x].result.attributed = followed
                 /\ \A y \in Done : run[y].knew \subseteq run[x].saw
    BY DEF SummaryIsProxy
  <2>. DEFINE p == run[x].period
              all == run[x].saw
              attributed == Attributed({s \in all : In(p, s)})
  <2>1. run[x].step = "done" /\ p \in Period /\ all \in SUBSET Signal
    BY <1>1 DEF RunInv, AttributionTypeOK, Shown, Done
  <2>a. run[x].result = Correlation(p, all)
    BY <1>1, <2>1 DEF RunInv, Fresh
  <2>2. run[x].result.attributed = Cardinality(attributed)
    BY <2>a DEF Correlation
  <2>3. IsFiniteSet(Followed(p, all))
    BY <2>1, AttributionAssumption, FS_Subset DEF Followed
  <2>4. attributed \subseteq Followed(p, all) /\ (~Early(p, all) => attributed = Followed(p, all))
    BY <2>1, AttributedIsFollowed
  <2>5. Cardinality(attributed) <= Cardinality(Followed(p, all))
    BY <2>3, <2>4, FS_Subset
  <2>6. \A y \in Done : run[y].knew \subseteq run[x].saw
    BY <1>1, <2>1 DEF RunInv, AttributionTypeOK, Fresh, Shown, Done, LatestFirst
  <2>. QED
    BY <2>2, <2>4, <2>5, <2>6
<1>. QED
  BY <1>1, InitRuns, StepRuns, PTL DEF AttributionSpec

-----------------------------------------------------------------------------
(* The dashboard has its type, whatever the order in which the steps of its *)
(* two components come, at once or one by one.                              *)
THEOREM DashboardTypeCorrect == DashboardSpec => []DashboardTypeOK
  BY SubscriptionTypeCorrect, AttributionTypeCorrect, PTL DEF DashboardSpec, DashboardTypeOK

(* So it shows the last status reported and the proxy it claims.            *)
THEOREM DashboardShowsTruth == DashboardSpec => [](StatusFollowsReports /\ SummaryIsProxy)
  BY StatusIsReported, SummaryShowsProxy, PTL DEF DashboardSpec
=============================================================================
