-------------------------- MODULE CampaignSendProofs --------------------------
(***************************************************************************)
(* Proofs about CampaignSend, for any campaigns, costs, bounds and order   *)
(* of reports: messages are transactions of the credit ledger, charged if  *)
(* and only if they are recorded, a campaign that counts as sent is        *)
(* complete, and outcomes are notified.                                    *)
(***************************************************************************)
EXTENDS CampaignSend, CreditLedgerProofs, WellFoundedInduction

(* What the type invariant does not say of the reports and their handlers.  *)
Webhooks ==
  /\ reports \in [Message -> SUBSET Reportable]
  /\ \A h \in hooks : h.status \in reported[h.msg]

(* How far the worker is with a message tells what its transaction is in    *)
(* and what it has written.  A message that costs nothing has none.         *)
ChargeOf(m) ==
  /\ Free(m) => status[m] = "idle" /\ step[m] \notin {"debiting", "refunding"}
  /\ ~Free(m) =>
       /\ status[m] = "committed" <=> step[m] = "over"
       /\ step[m] = "debiting" => call[m] = Debit(m)
       /\ step[m] = "refunding" => call[m] = Refund(m)
       /\ step[m] # "lost" =>
            Booked(m) = IF m \in known \/ step[m] \in {"sending", "raised", "refunding", "answered"}
                        THEN -CostOf[m] ELSE 0

Charges == \A m \in Message : ChargeOf(m)

(* And what its row says and Gallabox has got.                              *)
RecordOf(m) ==
  /\ message[m] # "absent" <=> step[m] = "over"
  /\ m \in known => step[m] = "over" /\ posted[m] = "accepted"
  /\ step[m] = "answered" => posted[m] = "accepted"
  /\ step[m] \in {"waiting", "debiting", "skipping"} => posted[m] = "no"
  /\ message[m] = "skipped_insufficient_credit" => posted[m] = "no"

Records == \A m \in Message : RecordOf(m)

(* The entries that refer to a message are those of its transaction. *)
Referenced ==
  /\ \A r \in rows, m \in Message : r.reference = m <=> r.txn = m
  /\ \A t \in Txn, m \in Message : pc[t] # "ready" => (call[t].reference = m <=> t = m)

SentIsOver == \A c \in Campaign : campaign[c] = "sent" => LoopOver(c)

CInv ==
  /\ SumInv
  /\ CampaignTypeOK /\ Webhooks
  /\ Charges /\ Records /\ Referenced
  /\ SentIsOver
  /\ OutcomeNotified

LEMMA MessageIsTxn ==
  ASSUME NEW m \in Message
  PROVE  /\ m \in Txn /\ CostOf[m] \in Nat
         /\ ~Free(m) => Debit(m) \in Call /\ Refund(m) \in Call
<1>1. PICK c \in Campaign : \E i \in DOMAIN Sends[c] : Sends[c][i] = m
  BY DEF Message
<1>2. m \in Txn
  BY <1>1, CampaignAssumption
<1>3. CampaignOf[m] \in Campaign
  BY <1>1 DEF CampaignOf
<1>4. CostOf[m] \in Nat /\ (CostOf[m] > 0 => CostOf[m] \in Amount)
  BY <1>3, CampaignAssumption DEF CostOf
<1>5. m \in Reference
  BY CampaignAssumption
<1>. QED
  BY <1>2, <1>4, <1>5 DEF Free, Debit, Refund, Call

LEMMA InitCampaign == CampaignInit => CInv
<1>. SUFFICES ASSUME CampaignInit PROVE CInv
  OBVIOUS
<1>1. SumInv
  BY InitSums DEF CampaignInit
<1>2. TypeOK
  BY <1>1 DEF SumInv, IInv
<1>3. \A m \in Message : Booked(m) = 0
  <2>1. \A m \in Message : {r \in rows : r.txn = m} = {}
    BY DEF CampaignInit, Init
  <2>. QED
    BY <2>1, TotalOfNone DEF Booked
<1>4. CampaignTypeOK /\ Webhooks
  BY <1>2 DEF CampaignInit, CampaignTypeOK, Webhooks, MessageStatus
<1>5. Charges
  BY <1>3, MessageIsTxn DEF CampaignInit, Init, Charges, ChargeOf
<1>6. Records /\ Referenced /\ SentIsOver /\ OutcomeNotified
  BY DEF CampaignInit, Init, Records, RecordOf, Referenced, SentIsOver, OutcomeNotified
<1>. QED
  BY <1>1, <1>4, <1>5, <1>6 DEF CInv

(* A worker that dies was busy with one message at most. *)
LEMMA OneLost ==
  ASSUME NEW c \in Campaign, NEW m \in Lost(c), NEW x \in Lost(c)
  PROVE  m = x
<1>1. PICK i \in DOMAIN Sends[c] : Sends[c][i] = m /\ \A j \in 1..(i - 1) : step[Sends[c][j]] = "over"
  BY DEF Lost, Current
<1>2. PICK k \in DOMAIN Sends[c] : Sends[c][k] = x /\ \A j \in 1..(k - 1) : step[Sends[c][j]] = "over"
  BY DEF Lost, Current
<1>3. i \in Nat \ {0} /\ k \in Nat \ {0}
  BY CampaignAssumption
<1>4. ~(i < k) /\ ~(k < i)
  BY <1>1, <1>2, <1>3 DEF Lost
<1>. QED
  BY <1>1, <1>2, <1>3, <1>4

(* What a statement of t's session does to the ledger. *)
Statement(t) == Lock(t) \/ ReadBalance(t) \/ AppendEntry(t) \/ Commit(t) \/ Rollback(t)

OwnCall(t, c) == c \in Call /\ Enter(t, c) /\ \A m \in Message : c.reference = m <=> t = m

LedgerStep(t) == Statement(t) \/ \E c \in Call : OwnCall(t, c)

LEMMA LedgerStepIsStep == ASSUME NEW t \in Txn, LedgerStep(t) PROVE Step(t)
BY DEF LedgerStep, Statement, OwnCall, Step

LEMMA ReferencedKept ==
  ASSUME CInv, NEW t \in Txn, LedgerStep(t)
  PROVE  Referenced'
<1>0. TypeOK /\ Referenced
  BY DEF CInv, SumInv, IInv
<1>1. CASE \E c \in Call : OwnCall(t, c)
  <2>1. PICK c \in Call : OwnCall(t, c)
    BY <1>1
  <2>2. call' = [call EXCEPT ![t] = c] /\ pc' = [pc EXCEPT ![t] = "lock"] /\ rows' = rows
    BY <2>1 DEF OwnCall, Enter
  <2>. QED
    BY <1>0, <2>1, <2>2 DEF OwnCall, Referenced, TypeOK
<1>2. CASE Lock(t)
  <2>1. call' = call /\ pc' = [pc EXCEPT ![t] = "read"] /\ pc[t] = "lock" /\ rows' = rows
    BY <1>2 DEF Lock
  <2>. QED
    BY <1>0, <2>1 DEF Referenced, TypeOK
<1>3. CASE ReadBalance(t)
  <2>1. /\ rows' = rows /\ pc[t] = "read"
        /\ \/ pc' = [pc EXCEPT ![t] = "ready"] /\ call' = [call EXCEPT ![t] = NoCall]
           \/ pc' = [pc EXCEPT ![t] = "append"] /\ call' = call
    BY <1>3 DEF ReadBalance, Return
  <2>. QED
    BY <1>0, <2>1 DEF Referenced, TypeOK
<1>4. CASE AppendEntry(t)
  <2>1. PICK n : n = NewRow(t)
    OBVIOUS
  <2>2. n.reference = call[t].reference /\ n.txn = t /\ rows' = rows \cup {n} /\ pc[t] = "append"
    BY <1>4, <2>1 DEF AppendEntry, Inserted, NewRow
  <2>3. call' = [call EXCEPT ![t] = NoCall] /\ pc' = [pc EXCEPT ![t] = "ready"]
    BY <1>4 DEF AppendEntry, Return
  <2>. QED
    BY <1>0, <2>2, <2>3 DEF Referenced, TypeOK
<1>5. CASE Commit(t)
  BY <1>0, <1>5 DEF Commit, Referenced
<1>6. CASE Rollback(t)
  <2>1. rows' \subseteq rows /\ call' = [call EXCEPT ![t] = NoCall] /\ pc' = [pc EXCEPT ![t] = "ready"]
    BY <1>6 DEF Rollback, Return
  <2>. QED
    BY <1>0, <2>1 DEF Referenced, TypeOK
<1>. QED
  BY <1>1, <1>2, <1>3, <1>4, <1>5, <1>6 DEF LedgerStep, Statement

(* A step of another transaction leaves a message's charge alone. *)
LEMMA ChargeKept ==
  ASSUME CInv, SumInv', NEW m \in Message,
         UNCHANGED vars \/ \E t \in Txn \ {m} : Step(t),
         step'[m] = step[m], m \in known' <=> m \in known
  PROVE  ChargeOf(m)'
<1>1. m \in Txn /\ ChargeOf(m) /\ TypeOK /\ IInv'
  BY MessageIsTxn DEF CInv, Charges, SumInv, IInv
<1>2. CASE UNCHANGED vars
  <2>1. status' = status /\ call' = call /\ rows' = rows
    BY <1>2 DEF vars
  <2>. QED
    BY <1>1, <2>1 DEF ChargeOf, Booked, Free, Debit, Refund
<1>3. ASSUME NEW t \in Txn \ {m}, Step(t) PROVE ChargeOf(m)'
  <2>1. status'[m] = status[m] /\ call'[m] = call[m] /\ Booked(m)' = Booked(m)
    BY <1>1, <1>3, OthersUntouched, BookedMoves DEF CInv
  <2>. QED
    BY <1>1, <2>1 DEF ChargeOf, Free, Debit, Refund
<1>. QED
  BY <1>2, <1>3

LEMMA MessageLedger ==
  ASSUME CInv, NEW c \in Campaign, NEW m \in Message, MessageStep(c, m)
  PROVE  UNCHANGED vars \/ LedgerStep(m)
<1>1. m \in Txn /\ (~Free(m) => OwnCall(m, Debit(m)) \/ ~Enter(m, Debit(m)))
              /\ (~Free(m) => OwnCall(m, Refund(m)) \/ ~Enter(m, Refund(m)))
  BY MessageIsTxn DEF OwnCall, Debit, Refund
<1>2. ~Free(m) => Debit(m) \in Call /\ Refund(m) \in Call
  BY MessageIsTxn
<1>. QED
  BY <1>1, <1>2 DEF MessageStep, StartMessage, DebitStep, Post, RefundStart, RefundStep, CommitMessage,
                    LedgerStep, Statement

(* A message's step moves no other message. *)
LEMMA OthersWait ==
  ASSUME CInv, NEW c \in Campaign, NEW m \in Message, MessageStep(c, m), NEW x \in Message \ {m}
  PROVE  /\ step'[x] = step[x] /\ message'[x] = message[x] /\ posted'[x] = posted[x]
         /\ x \in known' <=> x \in known
<1>1. DOMAIN step = Message /\ DOMAIN message = Message /\ DOMAIN posted = Message
  BY DEF CInv, CampaignTypeOK, MessageStatus
<1>2. \A w : Goes(m, w) => step'[x] = step[x]
  BY <1>1 DEF Goes
<1>3. step'[x] = step[x]
  BY <1>2 DEF MessageStep, StartMessage, DebitStep, Post, RefundStart, RefundStep, CommitMessage
<1>4. message' = message \/ \E o : message' = [message EXCEPT ![m] = o]
  BY DEF MessageStep, StartMessage, DebitStep, Post, RefundStart, RefundStep, CommitMessage
<1>5. posted' = posted \/ posted' = [posted EXCEPT ![m] = "flying"]
  BY DEF MessageStep, StartMessage, DebitStep, Post, RefundStart, RefundStep, CommitMessage
<1>6. known' = known \/ known' = known \cup {m}
  BY DEF MessageStep, StartMessage, DebitStep, Post, RefundStart, RefundStep, CommitMessage
<1>. QED
  BY <1>1, <1>3, <1>4, <1>5, <1>6

LEMMA MessageCharge ==
  ASSUME CInv, SumInv', NEW c \in Campaign, NEW m \in Message, MessageStep(c, m)
  PROVE  Charges'
<1>0. /\ m \in Txn /\ CostOf[m] \in Nat /\ TypeOK /\ IInv' /\ SumInv /\ ChargeOf(m) /\ RecordOf(m)
      /\ \A w : Goes(m, w) => step'[m] = w
      /\ status \in [Txn -> {"idle", "active", "committed", "aborted"}]
      /\ pc \in [Txn -> {"ready", "lock", "read", "append"}] /\ call \in [Txn -> Call]
      /\ Delta(Debit(m)) = -CostOf[m] /\ Delta(Refund(m)) = CostOf[m]
  BY MessageIsTxn DEF CInv, CampaignTypeOK, SumInv, IInv, TypeOK, Charges, Records, Goes, Delta,
                      Debit, Refund
<1>1. ASSUME NEW x \in Message \ {m} PROVE ChargeOf(x)'
  <2>1. UNCHANGED vars \/ \E t \in Txn \ {x} : Step(t)
    BY <1>0, <1>1, MessageLedger, LedgerStepIsStep
  <2>. QED
    BY <1>0, <1>1, <2>1, OthersWait, ChargeKept
<1>2. /\ AppendEntry(m) => Booked(m)' = Booked(m) + Delta(call[m])
      /\ rows' = rows => Booked(m)' = Booked(m)
  BY <1>0, BookedMoves DEF Booked, Step
<1>3. UNCHANGED vars => status' = status /\ rows' = rows /\ call' = call
  BY DEF vars
<1>4. /\ AppendEntry(m) => status'[m] = status[m] /\ status[m] = "active"
      /\ Lock(m) => status'[m] = status[m] /\ call'[m] = call[m] /\ rows' = rows
      /\ ReadBalance(m) => /\ status'[m] = status[m] /\ rows' = rows
                           /\ \/ pc'[m] = "ready" /\ call[m].kind = "debit"
                              \/ pc'[m] = "append" /\ call'[m] = call[m]
      /\ Commit(m) => status'[m] = "committed" /\ rows' = rows /\ status[m] = "active"
  BY <1>0 DEF AppendEntry, Lock, ReadBalance, Return, Refused, Commit
<1>5. \A e \in Call : Enter(m, e) => status'[m] = "active" /\ call'[m] = e /\ rows' = rows
  BY <1>0 DEF Enter
<1>6. Free(m)' <=> Free(m)
  BY DEF Free
<1>7. Debit(m)' = Debit(m) /\ Refund(m)' = Refund(m) /\ CostOf' = CostOf
  BY DEF Debit, Refund
<1>a. ASSUME StartMessage(c, m) PROVE ChargeOf(m)'
  <2>1. CASE Free(m)
    <3>1. UNCHANGED vars /\ step'[m] = "sending"
      BY <1>0, <1>a, <2>1 DEF StartMessage
    <3>. QED
      BY <1>0, <1>3, <1>6, <2>1, <3>1 DEF ChargeOf
  <2>2. CASE ~Free(m)
    <3>1. Enter(m, Debit(m)) /\ step'[m] = "debiting" /\ step[m] = "waiting" /\ known' = known
      BY <1>0, <1>a, <2>2 DEF StartMessage
    <3>2. status'[m] = "active" /\ call'[m] = Debit(m) /\ rows' = rows
      BY <1>5, <2>2, <3>1, MessageIsTxn
    <3>. QED
      BY <1>0, <1>2, <1>6, <1>7, <2>2, <3>1, <3>2 DEF ChargeOf, RecordOf
  <2>. QED
    BY <2>1, <2>2
<1>b. ASSUME DebitStep(c, m) PROVE ChargeOf(m)'
  <2>1. step[m] = "debiting" /\ ~Free(m) /\ known' = known /\ m \notin known
        /\ call[m] = Debit(m) /\ Booked(m) = 0 /\ status[m] # "committed"
    BY <1>0, <1>b DEF DebitStep, ChargeOf, RecordOf
  <2>2. CASE Lock(m) /\ UNCHANGED step
    BY <1>2, <1>4, <1>6, <1>7, <2>1, <2>2 DEF ChargeOf
  <2>3. CASE ReadBalance(m) /\ pc'[m] = "ready" /\ Goes(m, "skipping")
    BY <1>0, <1>2, <1>4, <1>6, <1>7, <2>1, <2>3 DEF ChargeOf
  <2>4. CASE ReadBalance(m) /\ pc'[m] # "ready" /\ UNCHANGED step
    BY <1>2, <1>4, <1>6, <1>7, <2>1, <2>4 DEF ChargeOf
  <2>5. CASE AppendEntry(m) /\ Goes(m, "sending")
    BY <1>0, <1>2, <1>4, <1>6, <1>7, <2>1, <2>5 DEF ChargeOf
  <2>. QED
    BY <1>b, <2>2, <2>3, <2>4, <2>5 DEF DebitStep
<1>c. ASSUME Post(c, m) PROVE ChargeOf(m)'
  <2>1. /\ UNCHANGED vars /\ known' = known /\ step[m] = "sending"
        /\ step'[m] \in {"sending", "answered", "raised"}
    BY <1>0, <1>c DEF Post
  <2>. QED
    BY <1>0, <1>2, <1>3, <1>6, <1>7, <2>1 DEF ChargeOf
<1>d. ASSUME RefundStart(c, m) PROVE ChargeOf(m)'
  <2>1. CASE Free(m)
    <3>1. UNCHANGED vars /\ step'[m] = "failing"
      BY <1>0, <1>d, <2>1 DEF RefundStart
    <3>. QED
      BY <1>0, <1>3, <1>6, <2>1, <3>1 DEF ChargeOf
  <2>2. CASE ~Free(m)
    <3>1. Enter(m, Refund(m)) /\ step'[m] = "refunding" /\ step[m] = "raised" /\ known' = known
      BY <1>0, <1>d, <2>2 DEF RefundStart
    <3>2. status'[m] = "active" /\ call'[m] = Refund(m) /\ rows' = rows
      BY <1>5, <2>2, <3>1, MessageIsTxn
    <3>. QED
      BY <1>0, <1>2, <1>6, <1>7, <2>2, <3>1, <3>2 DEF ChargeOf
  <2>. QED
    BY <2>1, <2>2
<1>e. ASSUME RefundStep(c, m) PROVE ChargeOf(m)'
  <2>1. step[m] = "refunding" /\ ~Free(m) /\ known' = known /\ m \notin known
        /\ call[m] = Refund(m) /\ Booked(m) = -CostOf[m] /\ status[m] # "committed"
        /\ call[m].kind = "credit"
    BY <1>0, <1>e DEF RefundStep, ChargeOf, RecordOf, Refund
  <2>2. CASE Lock(m) /\ UNCHANGED step
    BY <1>2, <1>4, <1>6, <1>7, <2>1, <2>2 DEF ChargeOf
  <2>3. CASE ReadBalance(m) /\ UNCHANGED step
    BY <1>2, <1>4, <1>6, <1>7, <2>1, <2>3 DEF ChargeOf
  <2>4. CASE AppendEntry(m) /\ Goes(m, "failing")
    BY <1>0, <1>2, <1>4, <1>6, <1>7, <2>1, <2>4 DEF ChargeOf
  <2>. QED
    BY <1>e, <2>2, <2>3, <2>4 DEF RefundStep
<1>f. ASSUME CommitMessage(c, m) PROVE ChargeOf(m)'
  <2>1. /\ step[m] \in {"skipping", "failing", "answered"} /\ step'[m] = "over"
        /\ m \in known' <=> (m \in known \/ step[m] = "answered")
    BY <1>0, <1>f DEF CommitMessage
  <2>2. CASE Free(m)
    <3>1. UNCHANGED vars
      BY <1>f, <2>2 DEF CommitMessage
    <3>. QED
      BY <1>0, <1>3, <1>6, <2>1, <2>2, <3>1 DEF ChargeOf
  <2>3. CASE ~Free(m)
    <3>1. Commit(m)
      BY <1>f, <2>3 DEF CommitMessage
    <3>. QED
      BY <1>0, <1>2, <1>4, <1>6, <1>7, <2>1, <2>3, <3>1 DEF ChargeOf
  <2>. QED
    BY <2>2, <2>3
<1>8. ChargeOf(m)'
  BY <1>a, <1>b, <1>c, <1>d, <1>e, <1>f DEF MessageStep
<1>. QED
  BY <1>1, <1>8 DEF Charges

LEMMA MessageRecord ==
  ASSUME CInv, NEW c \in Campaign, NEW m \in Message, MessageStep(c, m)
  PROVE  Records' /\ SentIsOver' /\ OutcomeNotified'
<1>0. /\ RecordOf(m) /\ \A w : Goes(m, w) => step'[m] = w
      /\ DOMAIN message = Message /\ DOMAIN posted = Message /\ DOMAIN campaign = Campaign
      /\ known \subseteq Message
      /\ SentIsOver /\ OutcomeNotified /\ worker \in [Campaign -> {"idle", "running", "done", "dead"}]
  BY DEF CInv, CampaignTypeOK, Records, Goes
<1>1. ASSUME NEW x \in Message \ {m} PROVE RecordOf(x)'
  <2>1. RecordOf(x)
    BY DEF CInv, Records
  <2>. QED
    BY <2>1, OthersWait DEF RecordOf
<1>2. CASE ~CommitMessage(c, m)
  <2>1. /\ message' = message /\ known' = known /\ campaign' = campaign /\ notified' = notified
        /\ step[m] # "over" /\ step'[m] # "over"
    BY <1>0, <1>2 DEF MessageStep, StartMessage, DebitStep, Post, RefundStart, RefundStep, hvars
  <2>2. RecordOf(m)'
    <3>1. CASE StartMessage(c, m)
      <4>1. step'[m] \in {"sending", "debiting"} /\ posted' = posted /\ step[m] = "waiting"
        BY <1>0, <3>1 DEF StartMessage
      <4>. QED
        BY <1>0, <2>1, <4>1 DEF RecordOf
    <3>2. CASE DebitStep(c, m)
      <4>1. step'[m] \in {"debiting", "skipping", "sending"} /\ posted' = posted /\ step[m] = "debiting"
        BY <1>0, <3>2 DEF DebitStep
      <4>. QED
        BY <1>0, <2>1, <4>1 DEF RecordOf
    <3>3. CASE Post(c, m)
      <4>1. CASE posted[m] = "no" /\ posted' = [posted EXCEPT ![m] = "flying"] /\ UNCHANGED step
        BY <1>0, <2>1, <3>3, <4>1 DEF RecordOf, Post
      <4>2. CASE Answered(m) /\ Goes(m, "answered") /\ UNCHANGED posted
        BY <1>0, <2>1, <3>3, <4>2 DEF RecordOf, Post, Answered
      <4>3. CASE Raises(m) /\ Goes(m, "raised") /\ UNCHANGED posted
        BY <1>0, <2>1, <3>3, <4>3 DEF RecordOf, Post
      <4>. QED
        BY <3>3, <4>1, <4>2, <4>3 DEF Post
    <3>4. CASE RefundStart(c, m) \/ RefundStep(c, m)
      <4>1. /\ step[m] \in {"raised", "refunding"} /\ posted' = posted
            /\ step'[m] \in {"refunding", "failing"}
        BY <1>0, <3>4 DEF RefundStart, RefundStep
      <4>. QED
        BY <1>0, <2>1, <4>1 DEF RecordOf
    <3>. QED
      BY <1>2, <3>1, <3>2, <3>3, <3>4 DEF MessageStep
  <2>3. SentIsOver'
    <3>1. \A x \in Message : step[x] = "over" => step'[x] = "over"
      BY <2>1, OthersWait
    <3>. QED
      BY <1>0, <2>1, <3>1 DEF SentIsOver, LoopOver, Message
  <2>4. OutcomeNotified'
    BY <1>0, <2>1 DEF OutcomeNotified
  <2>. QED
    BY <1>1, <2>2, <2>3, <2>4 DEF Records
<1>3. CASE CommitMessage(c, m)
  <2>1. /\ step[m] \in {"skipping", "failing", "answered"} /\ step'[m] = "over"
        /\ posted' = posted /\ notified' = notified
        /\ message'[m] = OutcomeOf(step[m])
        /\ known' = IF step[m] = "answered" THEN known \cup {m} ELSE known
        /\ campaign' = [campaign EXCEPT ![c] = "sending"]
        /\ \A x \in Message \ {m} : message'[x] = message[x] /\ step'[x] = step[x]
    BY <1>0, <1>3, OthersWait DEF CommitMessage, hvars
  <2>2. /\ step[m] = "skipping" => message'[m] = "skipped_insufficient_credit"
        /\ step[m] = "failing" => message'[m] = "failed"
        /\ step[m] = "answered" => message'[m] = "sent"
    BY <2>1 DEF OutcomeOf
  <2>3. RecordOf(m)'
    BY <1>0, <2>1, <2>2 DEF RecordOf
  <2>4. SentIsOver'
    BY <1>0, <2>1 DEF SentIsOver, LoopOver, Message
  <2>5. OutcomeNotified'
    BY <1>0, <2>1, <2>2 DEF OutcomeNotified, RecordOf
  <2>. QED
    BY <1>1, <2>3, <2>4, <2>5 DEF Records
<1>. QED
  BY <1>2, <1>3

LEMMA MessageTypes ==
  ASSUME CInv, TypeOK', NEW c \in Campaign, NEW m \in Message, MessageStep(c, m)
  PROVE  CampaignTypeOK' /\ Webhooks'
<1>0. CampaignTypeOK /\ Webhooks
  BY DEF CInv
<1>1. /\ worker' = worker /\ reports' = reports /\ reported' = reported /\ hooks' = hooks
      /\ notified' = notified
  BY DEF MessageStep, StartMessage, DebitStep, Post, RefundStart, RefundStep, CommitMessage, hvars
<1>2. step' \in [Message -> {"waiting", "debiting", "skipping", "sending", "raised", "refunding",
                            "failing", "answered", "over", "lost"}]
  BY <1>0 DEF MessageStep, StartMessage, DebitStep, Post, RefundStart, RefundStep, CommitMessage, Goes,
              CampaignTypeOK
<1>3. campaign' = campaign \/ campaign' = [campaign EXCEPT ![c] = "sending"]
  BY DEF MessageStep, StartMessage, DebitStep, Post, RefundStart, RefundStep, CommitMessage
<1>4. \/ message' = message
      \/ \E o \in {"sent", "failed", "skipped_insufficient_credit"} : message' = [message EXCEPT ![m] = o]
  BY DEF MessageStep, StartMessage, DebitStep, Post, RefundStart, RefundStep, CommitMessage, OutcomeOf
<1>5. posted' = posted \/ posted' = [posted EXCEPT ![m] = "flying"]
  BY DEF MessageStep, StartMessage, DebitStep, Post, RefundStart, RefundStep, CommitMessage
<1>6. known' = known \/ known' = known \cup {m}
  BY DEF MessageStep, StartMessage, DebitStep, Post, RefundStart, RefundStep, CommitMessage
<1>7. message' \in [Message -> MessageStatus]
  BY <1>0, <1>4 DEF CampaignTypeOK, MessageStatus
<1>8. /\ hooks \subseteq [msg : known', status : Reportable, loaded : MessageStatus]
      /\ notified \subseteq known' \X {"delivered", "failed"} /\ known' \subseteq Message
  BY <1>0, <1>6 DEF CampaignTypeOK
<1>9. campaign' \in [Campaign -> {"absent", "sending", "sent"}]
      /\ posted' \in [Message -> {"no", "flying", "accepted", "rejected"}]
  BY <1>0, <1>3, <1>5 DEF CampaignTypeOK
<1>. QED
  BY <1>0, <1>1, <1>2, <1>7, <1>8, <1>9 DEF CampaignTypeOK, Webhooks, MessageStatus

LEMMA MessageInv ==
  ASSUME CInv, SumInv', NEW c \in Campaign, NEW m \in Message, MessageStep(c, m)
  PROVE  CInv'
<1>1. Referenced'
  <2>1. CASE UNCHANGED vars
    BY <2>1 DEF vars, CInv, Referenced
  <2>2. CASE LedgerStep(m)
    BY <2>2, ReferencedKept, MessageIsTxn
  <2>. QED
    BY <2>1, <2>2, MessageLedger
<1>2. TypeOK'
  BY DEF SumInv, IInv
<1>. QED
  BY <1>1, <1>2, MessageCharge, MessageRecord, MessageTypes DEF CInv

LEMMA DieInv ==
  ASSUME CInv, SumInv', NEW c \in Campaign, Die(c)
  PROVE  CInv'
<1>0. /\ CampaignTypeOK /\ Webhooks /\ TypeOK /\ TypeOK' /\ SentIsOver /\ OutcomeNotified /\ Records
      /\ status \in [Txn -> {"idle", "active", "committed", "aborted"}]
  BY DEF CInv, SumInv, IInv, TypeOK
<1>1. /\ UNCHANGED <<campaign, message, known, posted, reports, reported, hooks, notified>>
      /\ worker' = [worker EXCEPT ![c] = "dead"]
      /\ step' = [m \in Message |-> IF m \in Lost(c) THEN "lost" ELSE step[m]]
  BY DEF Die, hvars
<1>2. \A m \in Message : step[m] = "over" <=> step'[m] = "over"
  BY <1>1 DEF Lost
<1>3. UNCHANGED vars \/ \E m \in Lost(c) : Rollback(m)
  BY DEF Die
<1>4. Referenced'
  <2>1. CASE UNCHANGED vars
    BY <2>1 DEF vars, CInv, Referenced
  <2>2. CASE \E m \in Lost(c) : Rollback(m)
    BY <2>2, ReferencedKept, MessageIsTxn DEF LedgerStep, Statement, Lost
  <2>. QED
    BY <1>3, <2>1, <2>2
<1>5. ASSUME NEW x \in Message PROVE ChargeOf(x)'
  <2>0. ChargeOf(x) /\ x \in Txn
    BY MessageIsTxn DEF CInv, Charges
  <2>1. CASE x \notin Lost(c)
    <3>1. UNCHANGED vars \/ \E t \in Txn \ {x} : Step(t)
      <4>1. \A m \in Lost(c) : m \in Txn \ {x} /\ (Rollback(m) => Step(m))
        BY <2>1, MessageIsTxn DEF Lost, Step
      <4>. QED
        BY <1>3, <4>1
    <3>2. step'[x] = step[x]
      BY <1>1, <2>1
    <3>. QED
      BY <1>1, <3>1, <3>2, ChargeKept
  <2>2. CASE x \in Lost(c)
    <3>1. step'[x] = "lost" /\ step[x] # "over"
      BY <1>1, <2>2 DEF Lost
    <3>2. CASE UNCHANGED vars
      <4>1. status' = status
        BY <3>2 DEF vars
      <4>. QED
        BY <2>0, <3>1, <4>1 DEF ChargeOf, Free
    <3>3. CASE \E m \in Lost(c) : Rollback(m)
      <4>1. Rollback(x)
        BY <2>2, <3>3, OneLost
      <4>2. status[x] = "active" /\ status'[x] = "aborted"
        BY <1>0, <2>0, <4>1 DEF Rollback
      <4>. QED
        BY <2>0, <3>1, <4>2 DEF ChargeOf, Free
    <3>. QED
      BY <1>3, <3>2, <3>3
  <2>. QED
    BY <2>1, <2>2
<1>6. Records'
  <2>1. \A m \in Message : step'[m] = step[m] \/ (step'[m] = "lost" /\ step[m] # "over")
    BY <1>1 DEF Lost
  <2>. QED
    BY <1>0, <1>1, <2>1 DEF Records, RecordOf
<1>7. SentIsOver' /\ OutcomeNotified'
  <2>1. \A x \in Campaign : \A i \in DOMAIN Sends[x] : Sends[x][i] \in Message
    BY DEF Message
  <2>2. SentIsOver'
    BY <1>0, <1>1, <1>2, <2>1 DEF SentIsOver, LoopOver
  <2>. QED
    BY <1>0, <1>1, <2>2 DEF OutcomeNotified
<1>8. CampaignTypeOK' /\ Webhooks'
  <2>1. /\ worker' \in [Campaign -> {"idle", "running", "done", "dead"}]
        /\ step' \in [Message -> {"waiting", "debiting", "skipping", "sending", "raised",
                                  "refunding", "failing", "answered", "over", "lost"}]
    BY <1>0, <1>1 DEF CampaignTypeOK
  <2>. QED
    BY <1>0, <1>1, <2>1 DEF CampaignTypeOK, Webhooks, MessageStatus
<1>. QED
  BY <1>4, <1>5, <1>6, <1>7, <1>8 DEF CInv, Charges

LEMMA CampaignRechargeInv ==
  ASSUME CInv, SumInv', NEW t \in Txn \ Message, Recharge(t)
  PROVE  CInv'
<1>1. LedgerStep(t)
  <2>1. \A r \in Reference \ Message :
          Enter(t, [kind |-> "credit", amount |-> Recharged, reference |-> r])
            => OwnCall(t, [kind |-> "credit", amount |-> Recharged, reference |-> r])
    BY CampaignAssumption DEF OwnCall, Call
  <2>. QED
    BY <2>1 DEF Recharge, LedgerStep, Statement, OwnCall
<1>2. UNCHANGED <<worker, step, campaign, message, known, posted, reports, reported, hooks, notified>>
  BY DEF Recharge, cvars, hvars
<1>3. Referenced' /\ Step(t)
  BY <1>1, ReferencedKept, LedgerStepIsStep
<1>4. Charges'
  BY <1>2, <1>3, ChargeKept DEF Charges
<1>. QED
  BY <1>2, <1>3, <1>4
     DEF CInv, CampaignTypeOK, Webhooks, Records, RecordOf, SentIsOver, LoopOver, OutcomeNotified,
         SumInv, IInv, MessageStatus

(* Creation, the end, and the webhooks do not touch the ledger. *)
LEMMA LedgerKept ==
  ASSUME CInv, UNCHANGED <<vars, step, known>>
  PROVE  SumInv' /\ TypeOK' /\ Charges' /\ Referenced'
<1>1. SumInv'
  BY NextSums DEF CInv
<1>2. UNCHANGED <<rows, nextSeq, holder, status, pc, call, balance, calls>>
  BY DEF vars
<1>3. Charges' /\ Referenced'
  BY <1>2 DEF CInv, Charges, ChargeOf, Booked, Free, Debit, Refund, Referenced
<1>. QED
  BY <1>1, <1>3 DEF SumInv, IInv

LEMMA WorkerInv ==
  ASSUME CInv, NEW c \in Campaign, Create(c) \/ Finish(c)
  PROVE  CInv'
<1>1. UNCHANGED <<vars, step, message, known, posted, reports, reported, hooks, notified>>
  BY DEF Create, Finish, hvars
<1>2. /\ worker' \in [Campaign -> {"idle", "running", "done", "dead"}]
      /\ campaign' = campaign \/ (campaign' = [campaign EXCEPT ![c] = "sent"] /\ LoopOver(c))
  BY DEF Create, Finish, CInv, CampaignTypeOK
<1>3. campaign' \in [Campaign -> {"absent", "sending", "sent"}] /\ SentIsOver'
  BY <1>1, <1>2 DEF CInv, CampaignTypeOK, SentIsOver, LoopOver
<1>4. SumInv' /\ TypeOK' /\ Charges' /\ Referenced'
  BY <1>1, LedgerKept
<1>. QED
  BY <1>1, <1>2, <1>3, <1>4
     DEF CInv, CampaignTypeOK, Webhooks, Records, RecordOf, OutcomeNotified, MessageStatus

LEMMA GallaboxInv ==
  ASSUME CInv,
         \/ \E m \in Message : Decide(m)
         \/ \E m \in Message, s \in Reportable : Report(m, s) \/ Receive(m, s)
         \/ \E h \in hooks : Apply(h) \/ Redeliver(h)
  PROVE  CInv'
<1>0. /\ CampaignTypeOK /\ Webhooks /\ Records /\ SentIsOver /\ OutcomeNotified
      /\ DOMAIN message = Message /\ DOMAIN posted = Message /\ DOMAIN reports = Message
      /\ DOMAIN reported = Message
  BY DEF CInv, CampaignTypeOK, Webhooks
<1>1. UNCHANGED <<vars, worker, step, campaign, known>>
  BY DEF Decide, Report, Receive, Apply, Redeliver, cvars
<1>2. SumInv' /\ TypeOK' /\ Charges' /\ Referenced' /\ SentIsOver'
  BY <1>0, <1>1, LedgerKept DEF SentIsOver, LoopOver
<1>3. ASSUME NEW m \in Message, Decide(m) PROVE CInv'
  <2>1. PICK d \in {"accepted", "rejected"} : posted' = [posted EXCEPT ![m] = d]
    BY <1>3 DEF Decide
  <2>2. posted[m] = "flying" /\ UNCHANGED <<message, reports, reported, hooks, notified>>
    BY <1>3 DEF Decide, hvars
  <2>3. Records'
    BY <1>0, <1>1, <2>1, <2>2 DEF Records, RecordOf
  <2>. QED
    BY <1>0, <1>1, <1>2, <2>1, <2>2, <2>3 DEF CInv, CampaignTypeOK, Webhooks, OutcomeNotified, MessageStatus
<1>4. ASSUME UNCHANGED <<message, posted>> PROVE Records'
  BY <1>0, <1>1, <1>4 DEF Records, RecordOf
<1>5. ASSUME NEW m \in Message, NEW s \in Reportable, Report(m, s) PROVE CInv'
  <2>1. /\ reports' = [reports EXCEPT ![m] = reports[m] \cup {s}]
        /\ reported' = [reported EXCEPT ![m] = reported[m] \cup {s}]
        /\ UNCHANGED <<message, posted, hooks, notified>>
    BY <1>5 DEF Report, cvars
  <2>2. /\ reports' \in [Message -> SUBSET Reportable] /\ reported' \in [Message -> SUBSET Reportable]
        /\ \A x \in Message : reports'[x] \subseteq reported'[x] /\ reported[x] \subseteq reported'[x]
    BY <1>0, <2>1 DEF CampaignTypeOK, Webhooks
  <2>3. Webhooks'
    BY <1>0, <2>1, <2>2 DEF CampaignTypeOK, Webhooks
  <2>. QED
    BY <1>0, <1>1, <1>2, <1>4, <2>1, <2>2, <2>3 DEF CInv, CampaignTypeOK, OutcomeNotified, MessageStatus
<1>6. ASSUME NEW m \in Message, NEW s \in Reportable, Receive(m, s) PROVE CInv'
  <2>1. /\ reports' = [reports EXCEPT ![m] = reports[m] \ {s}] \/ reports' = reports
        /\ \/ hooks' = hooks
           \/ m \in known /\ hooks' = hooks \cup {[msg |-> m, status |-> s, loaded |-> message[m]]}
        /\ s \in reports[m]
        /\ UNCHANGED <<message, posted, reported, notified>>
    BY <1>6 DEF Receive, cvars
  <2>2. /\ reports' \in [Message -> SUBSET Reportable]
        /\ \A x \in Message : reports'[x] \subseteq reported[x]
    BY <1>0, <2>1 DEF CampaignTypeOK, Webhooks
  <2>3. /\ hooks' \subseteq [msg : known, status : Reportable, loaded : MessageStatus]
        /\ \A h \in hooks' : h.status \in reported[h.msg]
    BY <1>0, <2>1 DEF CampaignTypeOK, Webhooks
  <2>. QED
    BY <1>0, <1>1, <1>2, <1>4, <2>1, <2>2, <2>3
       DEF CInv, CampaignTypeOK, Webhooks, OutcomeNotified, MessageStatus
<1>7. ASSUME NEW h \in hooks, Apply(h) PROVE CInv'
  <2>0. h.msg \in known /\ h.msg \in Message /\ h.status \in Reportable
    BY <1>0 DEF CampaignTypeOK
  <2>1. /\ message' = [message EXCEPT ![h.msg] =
                         IF StatusMap(h.status) = h.loaded THEN message[h.msg] ELSE StatusMap(h.status)]
        /\ notified' = IF h.status \in Notified THEN notified \cup {<<h.msg, h.status>>} ELSE notified
        /\ hooks' = hooks \ {h} /\ UNCHANGED <<posted, reports, reported>>
    BY <1>7 DEF Apply
  <2>2. StatusMap(h.status) \in {"sent", "delivered", "read", "failed", "queued"}
        /\ (StatusMap(h.status) \in {"delivered", "failed"} =>
              h.status = StatusMap(h.status) /\ h.status \in Notified)
    BY <2>0 DEF StatusMap, Reportable, Notified
  <2>3. message' \in [Message -> MessageStatus]
    BY <1>0, <2>1, <2>2 DEF CampaignTypeOK, MessageStatus
  <2>4. notified' \subseteq known \X {"delivered", "failed"} /\ notified \subseteq notified'
    BY <1>0, <2>0, <2>1 DEF CampaignTypeOK, Notified
  <2>5. Records'
    <3>1. \A x \in Message : message'[x] = message[x]
            \/ (x = h.msg /\ message'[x] \in {"sent", "delivered", "read", "failed", "queued"})
      BY <1>0, <2>1, <2>2
    <3>. QED
      BY <1>0, <1>1, <2>0, <2>1, <3>1 DEF Records, RecordOf
  <2>6. OutcomeNotified'
    <3>1. ASSUME NEW x \in known, message'[x] \in {"delivered", "failed"}
          PROVE  <<x, message'[x]>> \in notified'
      <4>1. x \in Message
        BY <1>0 DEF CampaignTypeOK
      <4>2. CASE message'[x] = message[x]
        BY <1>0, <2>4, <3>1, <4>2 DEF OutcomeNotified
      <4>3. CASE message'[x] # message[x]
        <5>1. x = h.msg /\ message'[x] = StatusMap(h.status)
          BY <1>0, <2>1, <4>1, <4>3
        <5>. QED
          BY <2>1, <2>2, <3>1, <5>1
      <4>. QED
        BY <4>2, <4>3
    <3>. QED
      BY <1>1, <3>1 DEF OutcomeNotified
  <2>. QED
    BY <1>0, <1>1, <1>2, <2>1, <2>3, <2>4, <2>5, <2>6 DEF CInv, CampaignTypeOK, Webhooks, MessageStatus
<1>8. ASSUME NEW h \in hooks, Redeliver(h) PROVE CInv'
  <2>0. h.msg \in Message /\ h.status \in reported[h.msg]
    BY <1>0 DEF CampaignTypeOK, Webhooks
  <2>1. /\ reports' = [reports EXCEPT ![h.msg] = reports[h.msg] \cup {h.status}]
        /\ hooks' = hooks \ {h} /\ UNCHANGED <<message, posted, reported, notified>>
    BY <1>8 DEF Redeliver, cvars
  <2>2. /\ reports' \in [Message -> SUBSET Reportable]
        /\ \A x \in Message : reports'[x] \subseteq reported[x]
    BY <1>0, <2>0, <2>1 DEF CampaignTypeOK, Webhooks
  <2>. QED
    BY <1>0, <1>1, <1>2, <1>4, <2>1, <2>2
       DEF CInv, CampaignTypeOK, Webhooks, OutcomeNotified, MessageStatus
<1>. QED
  BY <1>3, <1>5, <1>6, <1>7, <1>8

LEMMA CampaignLedgerSteps == CInv /\ [CampaignNext]_campaignVars => [Next]_vars
<1>. SUFFICES ASSUME CInv, CampaignNext, vars' # vars PROVE Next
  BY DEF campaignVars
<1>1. ASSUME NEW c \in Campaign, NEW m \in Message, MessageStep(c, m) PROVE Next
  BY <1>1, MessageLedger, LedgerStepIsStep, MessageIsTxn DEF Next, vars
<1>2. ASSUME NEW c \in Campaign, Create(c) \/ Finish(c) \/ Die(c) PROVE Next
  <2>1. \E m \in Lost(c) : Rollback(m)
    BY <1>2 DEF Create, Finish, Die, vars
  <2>. QED
    BY <2>1, MessageIsTxn DEF Lost, Next, Step
<1>3. ASSUME NEW t \in Txn \ Message, Recharge(t) PROVE Next
  <2>1. \A r \in Reference : [kind |-> "credit", amount |-> Recharged, reference |-> r] \in Call
    BY CampaignAssumption DEF Call
  <2>2. Step(t)
    BY <1>3, <2>1 DEF Recharge, Step
  <2>. QED
    BY <2>2 DEF Next
<1>. QED
  BY <1>1, <1>2, <1>3 DEF CampaignNext, Decide, Report, Receive, Apply, Redeliver, vars

LEMMA NextCampaign == CInv /\ [CampaignNext]_campaignVars => CInv'
<1>. SUFFICES ASSUME CInv, [CampaignNext]_campaignVars PROVE CInv'
  OBVIOUS
<1>1. SumInv'
  BY CampaignLedgerSteps, NextSums DEF CInv
<1>2. CASE UNCHANGED campaignVars
  <2>1. UNCHANGED <<vars, worker, step, campaign, message, known, posted, reports, reported, hooks,
                    notified>>
    BY <1>2 DEF campaignVars, cvars, hvars
  <2>2. TypeOK' /\ Charges' /\ Referenced'
    BY <2>1, LedgerKept
  <2>. QED
    BY <1>1, <2>1, <2>2 DEF CInv, CampaignTypeOK, Webhooks, Records, RecordOf, SentIsOver, LoopOver,
                            OutcomeNotified, MessageStatus
<1>. QED
  BY <1>1, <1>2, MessageInv, DieInv, CampaignRechargeInv, WorkerInv, GallaboxInv DEF CampaignNext

LEMMA CampaignInvariant == CampaignSpec => []CInv
BY InitCampaign, NextCampaign, PTL DEF CampaignSpec

LEMMA NetOfMessage ==
  ASSUME CInv, NEW m \in Message
  PROVE  Net(m) = IF m \in known THEN -CostOf[m] ELSE 0
<1>1. ChargeOf(m) /\ RecordOf(m) /\ m \in Txn
  BY MessageIsTxn DEF CInv, Charges, Records
<1>2. {r \in rows : r.reference = m /\ status[r.txn] = "committed"}
        = {r \in rows : r.txn = m /\ status[m] = "committed"}
  BY DEF CInv, Referenced
<1>3. CASE status[m] = "committed"
  <2>1. {r \in rows : r.txn = m /\ status[m] = "committed"} = {r \in rows : r.txn = m}
    BY <1>3
  <2>2. Net(m) = Booked(m)
    BY <1>2, <2>1 DEF Net, Booked
  <2>3. ~Free(m) /\ step[m] = "over"
    BY <1>1, <1>3 DEF ChargeOf
  <2>. QED
    BY <1>1, <2>2, <2>3 DEF ChargeOf
<1>4. CASE status[m] # "committed"
  <2>1. {r \in rows : r.txn = m /\ status[m] = "committed"} = {}
    BY <1>4
  <2>2. Net(m) = 0
    BY <1>2, <2>1, TotalOfNone DEF Net
  <2>3. m \in known => Free(m)
    BY <1>1, <1>4 DEF ChargeOf, RecordOf
  <2>. QED
    BY <2>2, <2>3 DEF Free
<1>. QED
  BY <1>3, <1>4

-----------------------------------------------------------------------------
(* Messages and recharges are transactions of the ledger, across the calls  *)
(* to Gallabox and the refunds: whatever the ledger promises holds here.    *)
THEOREM CampaignsUseLedger == CampaignSpec => Spec
<1>1. CampaignInit => Init
  BY DEF CampaignInit
<1>. QED
  BY <1>1, CampaignInvariant, CampaignLedgerSteps, PTL DEF CampaignSpec, Spec

(* The state has its type, for any campaigns and any reports. *)
THEOREM CampaignTypeCorrect == CampaignSpec => []CampaignTypeOK
<1>1. CInv => CampaignTypeOK
  BY DEF CInv
<1>. QED
  BY <1>1, CampaignInvariant, PTL

(* "Never charges for a failed send", wherever the worker dies and whatever *)
(* Gallabox makes of the request; and what is recorded is charged, once.    *)
THEOREM ChargedForRecordedOnly == CampaignSpec => []ChargedIffRecorded
<1>1. CInv => ChargedIffRecorded
  BY NetOfMessage DEF ChargedIffRecorded
<1>. QED
  BY <1>1, CampaignInvariant, PTL

(* What is charged was accepted by Gallabox; what was skipped, it never saw. *)
THEOREM ChargesWereAccepted == CampaignSpec => []ChargedWasAccepted
<1>1. ASSUME CInv PROVE ChargedWasAccepted
  BY <1>1, NetOfMessage DEF ChargedWasAccepted, CInv, Records, RecordOf
<1>. QED
  BY <1>1, CampaignInvariant, PTL

(* A campaign that counts as sent has a committed row for every contact. *)
THEOREM SentCampaignIsComplete == CampaignSpec => []SentIsComplete
<1>1. ASSUME CInv PROVE SentIsComplete
  <2>1. \A c \in Campaign : \A i \in DOMAIN Sends[c] : Sends[c][i] \in Message
    BY DEF Message
  <2>. QED
    BY <1>1, <2>1 DEF CInv, SentIsOver, LoopOver, Records, RecordOf, SentIsComplete
<1>. QED
  BY <1>1, CampaignInvariant, PTL

(* A message shown as delivered, or failed after it was sent, has been      *)
(* notified, for any number of reports and handlers, in any order.          *)
THEOREM OutcomesAreNotified == CampaignSpec => []OutcomeNotified
<1>1. CInv => OutcomeNotified
  BY DEF CInv
<1>. QED
  BY <1>1, CampaignInvariant, PTL
-----------------------------------------------------------------------------
(* The refinement of PaidWork. *)

(* What has been charged follows from what is recorded. *)
ChargedShown == Charged = [m \in Message |-> IF m \in known THEN CostOf[m] ELSE 0]

LEMMA ChargesAreShown == CInv => ChargedShown
<1>. SUFFICES ASSUME CInv PROVE ChargedShown
  OBVIOUS
<1>1. \A m \in Message : CostOf[m] \in Nat /\ Net(m) = IF m \in known THEN -CostOf[m] ELSE 0
  BY NetOfMessage, MessageIsTxn
<1>. QED
  BY <1>1 DEF ChargedShown, Charged

LEMMA OpenUntilRecorded ==
  ASSUME CInv, NEW m \in Message
  PROVE  /\ m \in known => message[m] # "absent"
         /\ message[m] = "absent" <=> step[m] # "over"
         /\ ResultOf(m) = IF m \in known THEN "done" ELSE IF message[m] # "absent" THEN "refused"
                         ELSE IF step[m] = "lost" THEN "lost" ELSE "open"
  BY DEF CInv, Records, RecordOf, ResultOf

LEMMA CampaignWork ==
  ASSUME CInv, ChargedShown, ChargedShown', [CampaignNext]_campaignVars
  PROVE  [Work!Next]_<<Results, Charged, Closed>>
<1>0. /\ DOMAIN message = Message /\ DOMAIN step = Message /\ DOMAIN campaign = Campaign
      /\ known \subseteq Message /\ Records /\ SentIsOver
  BY DEF CInv, CampaignTypeOK, MessageStatus
(* What is recorded as before is charged as before. *)
<1>a. ASSUME known' = known, campaign' = campaign,
             \A m \in Message : ResultOf(m)' = ResultOf(m)
      PROVE  UNCHANGED <<Results, Charged, Closed>>
  BY <1>a DEF ChargedShown, Results, Closed
<1>b. ASSUME UNCHANGED <<message, known, step>>, NEW m \in Message PROVE ResultOf(m)' = ResultOf(m)
  BY <1>b DEF ResultOf
<1>1. ASSUME NEW c \in Campaign, NEW m \in Message, CommitMessage(c, m) PROVE Work!Settle(m)
  <2>1. /\ step[m] \in {"skipping", "failing", "answered"}
        /\ step' = [step EXCEPT ![m] = "over"]
        /\ message' = [message EXCEPT ![m] = OutcomeOf(step[m])]
        /\ known' = IF step[m] = "answered" THEN known \cup {m} ELSE known
        /\ campaign' = [campaign EXCEPT ![c] = "sending"]
    BY <1>1 DEF CommitMessage, Goes
  <2>2. OutcomeOf(step[m]) \in {"skipped_insufficient_credit", "failed", "sent"}
    BY <2>1 DEF OutcomeOf
  <2>3. ResultOf(m) = "open" /\ m \notin known
    BY <2>1, OpenUntilRecorded
  <2>. DEFINE r == IF step[m] = "answered" THEN "done" ELSE "refused"
  <2>4. ResultOf(m)' = r
    BY <1>0, <2>1, <2>2, <2>3 DEF ResultOf
  <2>5. ASSUME NEW x \in Message \ {m} PROVE ResultOf(x)' = ResultOf(x)
    BY <1>0, <2>1 DEF ResultOf
  <2>6. Results' = [Results EXCEPT ![m] = r]
    BY <2>4, <2>5 DEF Results
  <2>7. Charged' = [Charged EXCEPT ![m] = IF r = "done" THEN CostOf[m] ELSE 0]
    BY <1>0, <2>1, <2>3 DEF ChargedShown
  <2>8. campaign[c] # "sent"
    <3>1. PICK i \in DOMAIN Sends[c] : Sends[c][i] = m
      BY <1>1 DEF CommitMessage, Current
    <3>. QED
      BY <1>0, <2>1, <3>1 DEF SentIsOver, LoopOver
  <2>9. Closed' = Closed
    BY <1>0, <2>1, <2>8 DEF Closed
  <2>10. Results[m] = "open" /\ r \in Work!Recorded
    BY <2>3 DEF Results, Work!Recorded
  <2>. HIDE DEF r
  <2>. QED
    BY <2>6, <2>7, <2>9, <2>10 DEF Work!Settle
<1>2. ASSUME NEW c \in Campaign, NEW m \in Message, MessageStep(c, m), ~CommitMessage(c, m)
      PROVE  UNCHANGED <<Results, Charged, Closed>>
  <2>1. /\ message' = message /\ known' = known /\ campaign' = campaign
        /\ step[m] \in {"waiting", "debiting", "sending", "raised", "refunding"}
        /\ \/ step' = step
           \/ \E w \in {"sending", "debiting", "skipping", "answered", "raised", "failing",
                        "refunding"} : step' = [step EXCEPT ![m] = w]
    BY <1>2 DEF MessageStep, StartMessage, DebitStep, Post, RefundStart, RefundStep, Goes
  <2>2. \A x \in Message : step'[x] = "lost" <=> step[x] = "lost"
    BY <1>0, <2>1
  <2>3. ASSUME NEW x \in Message PROVE ResultOf(x)' = ResultOf(x)
    BY <2>1, <2>2 DEF ResultOf
  <2>. QED
    BY <1>a, <2>1, <2>3
<1>3. ASSUME NEW c \in Campaign, Die(c)
      PROVE  (\E m \in Message : Work!Settle(m)) \/ UNCHANGED <<Results, Charged, Closed>>
  <2>1. /\ step' = [m \in Message |-> IF m \in Lost(c) THEN "lost" ELSE step[m]]
        /\ UNCHANGED <<campaign, message, known>>
    BY <1>3 DEF Die
  <2>2. CASE \A x \in Lost(c) : step[x] = "lost"
    <3>1. ASSUME NEW x \in Message PROVE ResultOf(x)' = ResultOf(x)
      BY <2>1, <2>2 DEF ResultOf
    <3>. QED
      BY <1>a, <2>1, <3>1
  <2>3. ASSUME NEW m \in Lost(c), step[m] # "lost" PROVE Work!Settle(m)
    <3>1. m \in Message /\ step[m] # "over" /\ \A x \in Message : x \in Lost(c) <=> x = m
      BY <2>3, OneLost DEF Lost
    <3>2. message[m] = "absent" /\ m \notin known /\ ResultOf(m) = "open"
      BY <2>3, <3>1, OpenUntilRecorded
    <3>3. ResultOf(m)' = "lost"
      BY <2>1, <3>1, <3>2 DEF ResultOf
    <3>4. ASSUME NEW x \in Message \ {m} PROVE ResultOf(x)' = ResultOf(x)
      BY <2>1, <3>1 DEF ResultOf
    <3>5. Results' = [Results EXCEPT ![m] = "lost"] /\ Results[m] = "open"
      BY <3>1, <3>2, <3>3, <3>4 DEF Results
    <3>6. Charged' = [Charged EXCEPT ![m] = 0] /\ Closed' = Closed
      BY <2>1, <3>1, <3>2 DEF ChargedShown, Closed
    <3>7. Charged' = [Charged EXCEPT ![m] = IF "lost" = "done" THEN CostOf[m] ELSE 0]
      BY <3>6
    <3>. QED
      BY <3>5, <3>6, <3>7 DEF Work!Settle
  <2>. QED
    BY <2>2, <2>3 DEF Lost
<1>4. ASSUME NEW c \in Campaign, Finish(c) PROVE Work!Close(c)
  <2>1. LoopOver(c) /\ campaign' = [campaign EXCEPT ![c] = "sent"] /\ UNCHANGED <<message, known, step>>
    BY <1>4 DEF Finish
  <2>2. ASSUME NEW m \in MessagesOf[c] PROVE Results[m] \in Work!Recorded
    <3>1. m \in Message /\ step[m] = "over"
      BY <2>1, <2>2 DEF MessagesOf, LoopOver, Message
    <3>. QED
      BY <3>1, OpenUntilRecorded DEF Results, Work!Recorded
  <2>3. Closed' = Closed \cup {c}
    BY <1>0, <2>1 DEF Closed
  <2>4. UNCHANGED <<Results, Charged>>
    BY <1>b, <2>1 DEF Results, ChargedShown
  <2>. QED
    BY <2>2, <2>3, <2>4 DEF Work!Close
<1>5. ASSUME UNCHANGED <<message, known, step, campaign>>
      PROVE  UNCHANGED <<Results, Charged, Closed>>
  BY <1>a, <1>b, <1>5
<1>6. ASSUME NEW h \in hooks, Apply(h) PROVE UNCHANGED <<Results, Charged, Closed>>
  <2>1. h.msg \in known /\ UNCHANGED <<known, step, campaign>>
        /\ \E o : message' = [message EXCEPT ![h.msg] = o]
    BY <1>6 DEF Apply, CInv, CampaignTypeOK
  <2>2. ASSUME NEW x \in Message PROVE ResultOf(x)' = ResultOf(x)
    BY <1>0, <2>1 DEF ResultOf
  <2>. QED
    BY <1>a, <2>1, <2>2
<1>7. ASSUME NEW c \in Campaign, Create(c) PROVE UNCHANGED <<message, known, step, campaign>>
  BY <1>7 DEF Create
<1>8. ASSUME NEW t \in Txn, Recharge(t) PROVE UNCHANGED <<message, known, step, campaign>>
  BY <1>8 DEF Recharge, cvars
<1>9. ASSUME \/ \E m \in Message : Decide(m)
             \/ \E m \in Message, s \in Reportable : Report(m, s) \/ Receive(m, s)
             \/ \E h \in hooks : Redeliver(h)
      PROVE  UNCHANGED <<message, known, step, campaign>>
  BY <1>9 DEF Decide, Report, Receive, Redeliver, cvars
<1>10. CASE UNCHANGED campaignVars
  BY <1>5, <1>10 DEF campaignVars, cvars
<1>. QED
  BY <1>1, <1>2, <1>3, <1>4, <1>5, <1>6, <1>7, <1>8, <1>9, <1>10 DEF CampaignNext, Work!Next

(* A message is settled and charged in one step, and never again; and a     *)
(* campaign closes when every message is on record: for any campaigns,      *)
(* costs, refunds, deaths of workers and orders of webhooks.                *)
THEOREM CampaignsArePaidWork == CampaignSpec => ImplementsPaidWork
<1>1. ASSUME CampaignInit, ChargedShown PROVE Work!Init
  <2>1. Results = [m \in Message |-> "open"]
    BY <1>1 DEF CampaignInit, Results, ResultOf
  <2>2. Charged = [m \in Message |-> 0] /\ Closed = {}
    BY <1>1 DEF CampaignInit, ChargedShown, Closed
  <2>. QED
    BY <2>1, <2>2 DEF Work!Init
<1>2. CInv /\ ChargedShown /\ ChargedShown' /\ [CampaignNext]_campaignVars
        => [Work!Next]_<<Results, Charged, Closed>>
  BY CampaignWork
<1>. QED
  BY <1>1, <1>2, CampaignInvariant, ChargesAreShown, PTL DEF CampaignSpec, ImplementsPaidWork, Work!Spec
-----------------------------------------------------------------------------
(* The balance, explained. *)

Recharges(a) == {r \in Committed(a) : r.txn \notin Message}
RecordedOf(a) == {m \in known : AccountOf[m] = a}
Charge == [m \in Message |-> -CostOf[m]]

(* Messages are recorded one at a time: there are finitely many. *)
LEMMA KnownIsFounded == CInv /\ Founded(known) /\ [CampaignNext]_campaignVars => Founded(known)'
<1>1. CInv /\ [CampaignNext]_campaignVars =>
        known' = known \/ \E m \in Message : known' = known \cup {m}
  BY DEF CampaignNext, Create, Finish, Die, MessageStep, StartMessage, DebitStep, Post, RefundStart,
         RefundStep, CommitMessage, Recharge, Decide, Report, Receive, Apply, Redeliver, campaignVars,
         cvars
<1>. QED
  BY <1>1, FoundedGrows

(* What an account shows is what was recharged less the price of each       *)
(* message on record, and nothing else: no trace of the debits that were    *)
(* refunded, skipped, raised or lost with their worker.                     *)
BalanceExplained ==
  \A a \in Account :
    Abstract!ShowsBalance(Committed(a), Total(Recharges(a)) + Total(Bill(RecordedOf(a), Charge)))

(* The balance an account shows is what it was recharged with, less the     *)
(* price of every message that was recorded.                                *)
THEOREM BalanceIsExplained == CampaignSpec => []BalanceExplained
<1>1. ASSUME CInv, Founded(known), NEW a \in Account
      PROVE  Abstract!ShowsBalance(Committed(a),
               Total(Recharges(a)) + Total(Bill(RecordedOf(a), Charge)))
  <2>1. known \in SUBSET Message /\ Message \in SUBSET Txn /\ SumInv
    BY <1>1, MessageIsTxn DEF CInv, CampaignTypeOK
  <2>2. \A m \in known : Charge[m] = -CostOf[m] /\ Charge[m] \in Int
    BY <2>1, MessageIsTxn DEF Charge
  <2>3. ASSUME NEW m \in Message PROVE NetOf(m) = IF m \in known THEN Charge[m] ELSE 0
    <3>1. {r \in rows : r.txn = m /\ status[m] = "committed"}
            = {r \in rows : r.reference = m /\ status[r.txn] = "committed"}
      BY <1>1 DEF CInv, Referenced
    <3>2. NetOf(m) = Net(m)
      BY <3>1 DEF NetOf, Net
    <3>. QED
      BY <1>1, <2>2, <3>2, NetOfMessage
  <2>. QED
    BY <1>1, <2>1, <2>2, <2>3, BalanceIsBill DEF Recharges, RecordedOf
<1>2. CInv /\ Founded(known) => BalanceExplained
  BY <1>1 DEF BalanceExplained
<1>3. CampaignInit => Founded(known)
  BY FoundedEmpty DEF CampaignInit
<1>. QED
  BY <1>1, <1>2, <1>3, KnownIsFounded, CampaignInvariant, PTL DEF CampaignSpec

-----------------------------------------------------------------------------
(* Nobody waits forever: what can be said of CampaignEnds without fairness. *)

Of(c, m) == \E i \in DOMAIN Sends[c] : Sends[c][i] = m

Waiting == {"waiting", "over", "lost"}

(* Where a message's transaction is, in each step of the worker. *)
StageOf(m) ==
  /\ step[m] = "waiting" => status[m] = "idle" /\ pc[m] = "ready" /\ calls[m] = 0
  /\ step[m] \in {"debiting", "refunding"} => status[m] = "active" /\ pc[m] # "ready"
  /\ step[m] \in {"skipping", "sending", "raised", "failing", "answered"} =>
       status[m] = "active" /\ pc[m] = "ready"
  /\ step[m] \in {"debiting", "skipping", "sending", "raised"} => calls[m] = 1
  /\ status[m] = "active" => step[m] \notin Waiting

(* A message that is being handled is its running worker's current one. *)
WorkedOn(m) ==
  /\ step[m] = "lost" => \E c \in Campaign : Of(c, m) /\ worker[c] = "dead"
  /\ step[m] \notin Waiting => \E c \in Campaign : Current(c, m)
  /\ ~Free(m) => StageOf(m)

Working == \A m \in Message : WorkedOn(m)

LEMMA FirstUnfinished ==
  ASSUME NEW c \in Campaign, worker[c] = "running", ~LoopOver(c)
  PROVE  \E m \in Message : Current(c, m) /\ step[m] # "over"
<1>. DEFINE Left == {i \in DOMAIN Sends[c] : step[Sends[c][i]] # "over"}
            Less == OpToRel(<, Nat)
<1>1. Left \subseteq Nat /\ Left # {} /\ DOMAIN Sends[c] \subseteq Nat \ {0}
  BY CampaignAssumption DEF LoopOver
<1>2. PICK i \in Left : \A j \in Left : ~(<<j, i>> \in Less)
  <2>1. IsWellFoundedOn(Less, Nat)
    BY NatLessThanWellFounded
  <2>. HIDE DEF Left, Less
  <2>. QED
    BY <1>1, <2>1, WFMin
<1>3. \A j \in Left : ~(j < i)
  BY <1>1, <1>2 DEF OpToRel
<1>4. Sends[c] \in Seq(Txn)
  BY CampaignAssumption
<1>5. \A j \in 1..(i - 1) : step[Sends[c][j]] = "over"
  BY <1>1, <1>3, <1>4
<1>6. Sends[c][i] \in Message
  BY DEF Message
<1>. QED
  BY <1>5, <1>6 DEF Current

LEMMA StageKept ==
  ASSUME TypeOK, NEW m \in Message, WorkedOn(m), step'[m] = step[m],
         UNCHANGED vars \/ \E t \in Txn \ {m} : Step(t)
  PROVE  (~Free(m) => StageOf(m))'
<1>1. m \in Txn /\ (Free(m)' <=> Free(m))
  BY MessageIsTxn DEF Free
<1>2. CASE UNCHANGED vars
  BY <1>1, <1>2 DEF vars, WorkedOn, StageOf
<1>3. ASSUME NEW t \in Txn \ {m}, Step(t) PROVE (~Free(m) => StageOf(m))'
  <2>1. status'[m] = status[m] /\ pc'[m] = pc[m] /\ calls'[m] = calls[m]
    BY <1>1, <1>3, OthersStay
  <2>. QED
    BY <1>1, <2>1 DEF WorkedOn, StageOf
<1>. QED
  BY <1>2, <1>3

(* The worker takes the message's transaction from stage to stage. *)
LEMMA MessageStage ==
  ASSUME CInv, NEW c \in Campaign, NEW m \in Message, WorkedOn(m), MessageStep(c, m)
  PROVE  /\ (~Free(m) => StageOf(m))'
         /\ step[m] \notin {"over", "lost"} /\ step'[m] \notin {"waiting", "lost"}
<1>0. /\ m \in Txn /\ ChargeOf(m) /\ \A w : Goes(m, w) => step'[m] = w
      /\ status \in [Txn -> {"idle", "active", "committed", "aborted"}]
      /\ pc \in [Txn -> {"ready", "lock", "read", "append"}] /\ calls \in [Txn -> 0..MaxCalls]
      /\ MaxCalls = 2 /\ (Free(m)' <=> Free(m)) /\ (~Free(m) => StageOf(m))
  BY MessageIsTxn, CampaignAssumption
     DEF CInv, CampaignTypeOK, SumInv, IInv, TypeOK, Charges, Goes, Free, WorkedOn
<1>1. UNCHANGED vars => status'[m] = status[m] /\ pc'[m] = pc[m] /\ calls'[m] = calls[m]
  BY DEF vars
<1>2. \A e \in Call : Enter(m, e) =>
        status'[m] = "active" /\ pc'[m] = "lock" /\ calls'[m] = calls[m] + 1
  BY <1>0 DEF Enter
<1>3. /\ Lock(m) => status'[m] = "active" /\ pc'[m] = "read" /\ calls'[m] = calls[m]
      /\ ReadBalance(m) => /\ status'[m] = "active" /\ calls'[m] = calls[m]
                           /\ \/ pc'[m] = "ready" /\ call[m].kind = "debit"
                              \/ pc'[m] = "append"
      /\ AppendEntry(m) => status'[m] = "active" /\ pc'[m] = "ready" /\ calls'[m] = calls[m]
      /\ Commit(m) => status'[m] = "committed"
  BY <1>0 DEF Lock, ReadBalance, AppendEntry, Return, Refused, Commit
<1>a. CASE StartMessage(c, m)
  <2>1. step[m] = "waiting" /\ step'[m] \in {"sending", "debiting"}
    BY <1>0, <1>a DEF StartMessage
  <2>2. ~Free(m) => step'[m] = "debiting" /\ Enter(m, Debit(m))
    BY <1>0, <1>a DEF StartMessage
  <2>. QED
    BY <1>0, <1>2, <2>1, <2>2, MessageIsTxn DEF StageOf, Waiting
<1>b. CASE DebitStep(c, m)
  <2>1. /\ step[m] = "debiting" /\ step'[m] \in {"debiting", "skipping", "sending"}
        /\ \/ Lock(m) /\ step'[m] = "debiting"
           \/ ReadBalance(m) /\ pc'[m] = "ready" /\ step'[m] = "skipping"
           \/ ReadBalance(m) /\ pc'[m] # "ready" /\ step'[m] = "debiting"
           \/ AppendEntry(m) /\ step'[m] = "sending"
    BY <1>0, <1>b DEF DebitStep
  <2>. QED
    BY <1>0, <1>3, <2>1 DEF StageOf, Waiting
<1>c. CASE Post(c, m)
  <2>1. UNCHANGED vars /\ step[m] = "sending" /\ step'[m] \in {"sending", "answered", "raised"}
    BY <1>0, <1>c DEF Post
  <2>. QED
    BY <1>0, <1>1, <2>1 DEF StageOf, Waiting
<1>d. CASE RefundStart(c, m)
  <2>1. step[m] = "raised" /\ step'[m] \in {"failing", "refunding"}
    BY <1>0, <1>d DEF RefundStart
  <2>2. ~Free(m) => step'[m] = "refunding" /\ Enter(m, Refund(m))
    BY <1>0, <1>d DEF RefundStart
  <2>. QED
    BY <1>0, <1>2, <2>1, <2>2, MessageIsTxn DEF StageOf, Waiting
<1>e. CASE RefundStep(c, m)
  <2>1. /\ step[m] = "refunding" /\ step'[m] \in {"refunding", "failing"}
        /\ \/ (Lock(m) \/ ReadBalance(m)) /\ step'[m] = "refunding"
           \/ AppendEntry(m) /\ step'[m] = "failing"
        /\ call[m].kind = "credit"
    BY <1>0, <1>e DEF RefundStep, ChargeOf, Refund
  <2>. QED
    BY <1>0, <1>3, <2>1 DEF StageOf, Waiting
<1>f. CASE CommitMessage(c, m)
  <2>1. step[m] \in {"skipping", "failing", "answered"} /\ step'[m] = "over"
        /\ (~Free(m) => Commit(m))
    BY <1>0, <1>f DEF CommitMessage
  <2>. QED
    BY <1>0, <1>3, <2>1 DEF StageOf
<1>. QED
  BY <1>a, <1>b, <1>c, <1>d, <1>e, <1>f DEF MessageStep

LEMMA SentMessages ==
  ASSUME NEW d \in Campaign
  PROVE  /\ Sends[d] \in Seq(Txn)
         /\ \A i \in DOMAIN Sends[d] : Sends[d][i] \in Message
<1>1. Sends[d] \in Seq(Txn)
  BY CampaignAssumption
<1>. QED
  BY <1>1 DEF Message

LEMMA MessageWorking ==
  ASSUME CInv, Working, NEW c \in Campaign, NEW m \in Message, MessageStep(c, m)
  PROVE  Working'
<1>0. /\ Current(c, m) /\ worker' = worker /\ TypeOK
      /\ \A x \in Message \ {m} : step'[x] = step[x]
      /\ \A x \in Message : WorkedOn(x)
      /\ \A d \in Campaign : \A i \in DOMAIN Sends[d] : Sends[d][i] \in Message
      /\ \A d \in Campaign : Sends[d] \in Seq(Txn)
  <2>1. Current(c, m) /\ worker' = worker
    BY DEF MessageStep, StartMessage, DebitStep, Post, RefundStart, RefundStep, CommitMessage
  <2>2. \A x \in Message \ {m} : step'[x] = step[x]
    BY OthersWait
  <2>. QED
    BY <2>1, <2>2, SentMessages DEF CInv, SumInv, IInv, Working
<1>1. /\ (~Free(m) => StageOf(m))'
      /\ step[m] \notin {"over", "lost"} /\ step'[m] \notin {"waiting", "lost"}
  BY <1>0, MessageStage
<1>2. ASSUME NEW d \in Campaign, NEW x \in Message, Current(d, x) PROVE Current(d, x)'
  <2>1. PICK i \in DOMAIN Sends[d] :
          Sends[d][i] = x /\ \A j \in 1..(i - 1) : step[Sends[d][j]] = "over"
    BY <1>2 DEF Current
  <2>2. ASSUME NEW j \in 1..(i - 1) PROVE step'[Sends[d][j]] = "over"
    <3>1. j \in DOMAIN Sends[d] /\ step[Sends[d][j]] = "over"
      BY <1>0, <2>1
    <3>. QED
      BY <1>0, <1>1, <3>1
  <2>. QED
    BY <1>0, <1>2, <2>1, <2>2 DEF Current
<1>3. ASSUME NEW x \in Message \ {m} PROVE WorkedOn(x)'
  <2>1. UNCHANGED vars \/ \E t \in Txn \ {x} : Step(t)
    BY <1>3, MessageLedger, LedgerStepIsStep, MessageIsTxn
  <2>2. (~Free(x) => StageOf(x))'
    BY <1>0, <2>1, StageKept
  <2>3. /\ step[x] = "lost" => \E d \in Campaign : Of(d, x) /\ worker[d] = "dead"
        /\ step[x] \notin Waiting => \E d \in Campaign : Current(d, x)'
    BY <1>0, <1>2 DEF WorkedOn
  <2>. QED
    BY <1>0, <2>2, <2>3 DEF WorkedOn, Of
<1>4. WorkedOn(m)'
  BY <1>0, <1>1, <1>2 DEF WorkedOn
<1>. QED
  BY <1>3, <1>4 DEF Working

LEMMA DieWorking ==
  ASSUME CInv, Working, NEW c \in Campaign, Die(c)
  PROVE  Working'
<1>0. /\ worker' = [worker EXCEPT ![c] = "dead"] /\ worker[c] = "running" /\ TypeOK
      /\ step' = [m \in Message |-> IF m \in Lost(c) THEN "lost" ELSE step[m]]
      /\ IF \E m \in Lost(c) : status[m] = "active"
         THEN \E m \in Lost(c) : Rollback(m) ELSE UNCHANGED vars
      /\ DOMAIN worker = Campaign
      /\ \A d \in Campaign : Sends[d] \in Seq(Txn)
      /\ \A d \in Campaign : \A i \in DOMAIN Sends[d] : Sends[d][i] \in Message
  BY SentMessages DEF Die, CInv, CampaignTypeOK, SumInv, IInv
<1>1. ASSUME NEW x \in Message, x \notin Lost(c) PROVE WorkedOn(x)'
  <2>1. step'[x] = step[x] /\ WorkedOn(x)
    BY <1>0, <1>1 DEF Working
  <2>2. UNCHANGED vars \/ \E t \in Txn \ {x} : Step(t)
    <3>1. \A m \in Lost(c) : m \in Txn \ {x} /\ (Rollback(m) => Step(m))
      BY <1>1, MessageIsTxn DEF Lost, Step
    <3>. QED
      BY <1>0, <3>1
  <2>3. (~Free(x) => StageOf(x))'
    BY <1>0, <2>1, <2>2, StageKept
  <2>4. ASSUME step[x] \notin Waiting PROVE \E d \in Campaign : Current(d, x)'
    <3>1. PICK d \in Campaign : Current(d, x)
      BY <2>1, <2>4 DEF WorkedOn
    <3>2. d # c
      BY <1>1, <2>4, <3>1 DEF Lost, Waiting
    <3>3. \A y \in Message : step[y] = "over" => step'[y] = "over"
      BY <1>0 DEF Lost
    <3>4. PICK i \in DOMAIN Sends[d] :
            Sends[d][i] = x /\ \A j \in 1..(i - 1) : step[Sends[d][j]] = "over"
      BY <3>1 DEF Current
    <3>5. \A j \in 1..(i - 1) : Sends[d][j] \in Message
      BY <1>0, <3>4
    <3>6. worker'[d] = "running"
      BY <1>0, <3>1, <3>2 DEF Current
    <3>. QED
      BY <3>3, <3>4, <3>5, <3>6 DEF Current
  <2>5. step[x] = "lost" => \E d \in Campaign : Of(d, x) /\ worker'[d] = "dead"
    BY <1>0, <2>1 DEF WorkedOn
  <2>. QED
    BY <2>1, <2>3, <2>4, <2>5 DEF WorkedOn, Of
<1>2. ASSUME NEW x \in Lost(c) PROVE WorkedOn(x)'
  <2>1. x \in Message /\ step'[x] = "lost" /\ Current(c, x) /\ worker'[c] = "dead" /\ x \in Txn
    BY <1>0, <1>2, MessageIsTxn DEF Lost
  <2>2. Of(c, x)
    BY <2>1 DEF Current, Of
  <2>3. status'[x] # "active"
    <3>1. CASE \E m \in Lost(c) : status[m] = "active"
      <4>1. Rollback(x)
        BY <1>0, <1>2, <3>1, OneLost
      <4>. QED
        BY <1>0, <2>1, <4>1 DEF Rollback, TypeOK
    <3>2. CASE ~ \E m \in Lost(c) : status[m] = "active"
      BY <1>0, <1>2, <3>2 DEF vars
    <3>. QED
      BY <3>1, <3>2
  <2>. QED
    BY <2>1, <2>2, <2>3 DEF WorkedOn, StageOf, Of, Waiting
<1>. QED
  BY <1>1, <1>2 DEF Working

LEMMA StepWorking ==
  ASSUME CInv, Working, [CampaignNext]_campaignVars
  PROVE  Working'
<1>0. TypeOK /\ DOMAIN worker = Campaign
  BY DEF CInv, SumInv, IInv, CampaignTypeOK
<1>1. ASSUME NEW c \in Campaign, Create(c) \/ Finish(c) PROVE Working'
  <2>1. /\ UNCHANGED <<vars, step>>
        /\ \A d \in Campaign \ {c} : worker'[d] = worker[d]
        /\ worker[c] = "idle" \/ (worker[c] = "running" /\ LoopOver(c))
    BY <1>0, <1>1 DEF Create, Finish
  <2>2. ASSUME NEW x \in Message PROVE WorkedOn(x)'
    <3>1. WorkedOn(x) /\ step' = step /\ (~Free(x) => StageOf(x))'
      BY <1>0, <2>1, StageKept DEF Working
    <3>2. ASSUME NEW d \in Campaign, Current(d, x), step[x] \notin Waiting PROVE Current(d, x)'
      <4>1. d # c
        BY <2>1, <3>2 DEF Current, LoopOver, Waiting
      <4>. QED
        BY <2>1, <3>1, <3>2, <4>1 DEF Current
    <3>3. \A d \in Campaign : worker[d] = "dead" => worker'[d] = "dead"
      BY <2>1
    <3>. QED
      BY <3>1, <3>2, <3>3 DEF WorkedOn, Of
  <2>. QED
    BY <2>2 DEF Working
<1>2. ASSUME NEW t \in Txn \ Message, Recharge(t) PROVE Working'
  <2>1. UNCHANGED <<worker, step>> /\ Step(t)
    <3>1. \A r \in Reference : [kind |-> "credit", amount |-> Recharged, reference |-> r] \in Call
      BY CampaignAssumption DEF Call
    <3>. QED
      BY <1>2, <3>1 DEF Recharge, Step, cvars
  <2>2. ASSUME NEW x \in Message PROVE WorkedOn(x)'
    <3>1. WorkedOn(x) /\ (~Free(x) => StageOf(x))'
      BY <1>0, <2>1, StageKept DEF Working
    <3>. QED
      BY <2>1, <3>1 DEF WorkedOn, Current, Of
  <2>. QED
    BY <2>2 DEF Working
<1>3. ASSUME UNCHANGED <<vars, worker, step>> PROVE Working'
  <2>1. ASSUME NEW x \in Message PROVE WorkedOn(x)'
    <3>1. WorkedOn(x) /\ (~Free(x) => StageOf(x))'
      BY <1>0, <1>3, StageKept DEF Working
    <3>. QED
      BY <1>3, <3>1 DEF WorkedOn, Current, Of
  <2>. QED
    BY <2>1 DEF Working
<1>4. ASSUME \/ UNCHANGED campaignVars \/ \E m \in Message : Decide(m)
             \/ \E m \in Message, s \in Reportable : Report(m, s) \/ Receive(m, s)
             \/ \E h \in hooks : Apply(h) \/ Redeliver(h)
      PROVE  UNCHANGED <<vars, worker, step>>
  BY <1>4 DEF campaignVars, cvars, hvars, Decide, Report, Receive, Apply, Redeliver
<1>. QED
  BY <1>1, <1>2, <1>3, <1>4, MessageWorking, DieWorking DEF CampaignNext

LEMMA WorkingInvariant == CampaignSpec => []Working
<1>1. CampaignInit => Working
  BY MessageIsTxn DEF CampaignInit, Init, Working, WorkedOn, StageOf, Waiting
<1>. QED
  BY <1>1, StepWorking, CampaignInvariant, PTL DEF CampaignSpec

(* The worker can take its next step with the message: a call is entered,   *)
(* the statement is answered, the request goes out or its timeout is over.  *)
CanEnter(t, e) ==
  /\ e \in Call
  /\ status[t] \in {"idle", "active"} /\ pc[t] = "ready"
  /\ calls[t] < MaxCalls
  /\ Accepted(e)

MessageGoesOn(m) ==
  \/ step[m] = "waiting" /\ (Free(m) \/ CanEnter(m, Debit(m)))
  \/ step[m] \in {"debiting", "refunding"} /\ status[m] = "active" /\ pc[m] # "ready" /\ GoesOn(m)
  \/ step[m] = "sending"
  \/ step[m] = "raised" /\ (Free(m) \/ CanEnter(m, Refund(m)))
  \/ /\ step[m] \in {"skipping", "failing", "answered"}
     /\ Free(m) \/ (status[m] = "active" /\ pc[m] = "ready")

WorkerGoesOn(c) == LoopOver(c) \/ \E m \in Message : Current(c, m) /\ MessageGoesOn(m)

(* A session that holds a lock: a recharge, or a running worker's message. *)
SessionGoesOn(t) ==
  \/ t \in Txn \ Message /\ status[t] = "active" /\ GoesOn(t)
  \/ t \in Message /\ MessageGoesOn(t) /\ \E c \in Campaign : Current(c, t)

NoCampaignIsStuck ==
  \A c \in Campaign : worker[c] = "running" =>
    \/ WorkerGoesOn(c)
    \/ \E m \in Message : Current(c, m) /\ SessionGoesOn(holder[LockKey[AccountOf[m]]])

LEMMA StepIsPossible ==
  ASSUME CInv, NEW m \in Message, WorkedOn(m), step[m] \notin {"over", "lost"},
         step[m] \in {"debiting", "refunding"} => GoesOn(m)
  PROVE  MessageGoesOn(m)
<1>1. /\ step[m] \in {"waiting", "debiting", "skipping", "sending", "raised", "refunding", "failing",
                      "answered", "over", "lost"}
      /\ ChargeOf(m) /\ MaxCalls = 2
  BY CampaignAssumption DEF CInv, CampaignTypeOK, Charges
<1>2. ~Free(m) => /\ Debit(m) \in Call /\ Refund(m) \in Call
                  /\ Accepted(Debit(m)) /\ Accepted(Refund(m))
  BY MessageIsTxn DEF Free, Accepted, Debit, Refund
<1>3. ~Free(m) => /\ step[m] = "waiting" => CanEnter(m, Debit(m))
                  /\ step[m] = "raised" => CanEnter(m, Refund(m))
  BY <1>1, <1>2 DEF WorkedOn, StageOf, CanEnter
<1>4. step[m] \in {"debiting", "refunding"} => ~Free(m)
  BY <1>1 DEF ChargeOf
<1>. QED
  BY <1>1, <1>3, <1>4 DEF WorkedOn, StageOf, MessageGoesOn

(* Workers hold an account's lock across the call to Gallabox, and still    *)
(* block nobody for ever: a worker that cannot go on waits for a session,   *)
(* of another worker or of a recharge, that can.                            *)
THEOREM WorkersWaitForWorkers == CampaignSpec => []NoCampaignIsStuck
<1>1. ASSUME CInv, Working, NobodyIsStuck PROVE NoCampaignIsStuck
  <2>0. \A m \in Message : WorkedOn(m) /\ ChargeOf(m) /\ m \in Txn
    BY <1>1, MessageIsTxn DEF Working, CInv, Charges
  <2>1. ASSUME NEW c \in Campaign, worker[c] = "running", ~LoopOver(c)
        PROVE  \E m \in Message : Current(c, m)
                 /\ (MessageGoesOn(m) \/ SessionGoesOn(holder[LockKey[AccountOf[m]]]))
    <3>1. PICK m \in Message : Current(c, m) /\ step[m] # "over"
      BY <2>1, FirstUnfinished
    <3>2. step[m] # "lost"
      <4>1. \A d \in Campaign : Of(d, m) => d = c
        BY <3>1, MessagesAreDistinct DEF Current, Of
      <4>. QED
        BY <2>0, <2>1, <4>1 DEF WorkedOn
    <3>3. CASE step[m] \in {"debiting", "refunding"} => GoesOn(m)
      BY <1>1, <2>0, <3>1, <3>2, <3>3, StepIsPossible
    <3>4. CASE step[m] \in {"debiting", "refunding"} /\ ~GoesOn(m)
      <4>1. status[m] = "active"
        BY <2>0, <3>4 DEF ChargeOf, WorkedOn, StageOf
      <4>2. PICK u \in Txn \ {m} :
              u = holder[LockKey[AccountOf[m]]] /\ status[u] = "active" /\ GoesOn(u)
        BY <1>1, <2>0, <3>4, <4>1 DEF NobodyIsStuck
      <4>3. CASE u \notin Message
        BY <3>1, <4>2, <4>3 DEF SessionGoesOn
      <4>4. CASE u \in Message
        <5>1. step[u] \notin Waiting /\ \E d \in Campaign : Current(d, u)
          BY <2>0, <4>2, <4>4 DEF ChargeOf, WorkedOn, StageOf
        <5>2. MessageGoesOn(u)
          BY <1>1, <2>0, <4>2, <4>4, <5>1, StepIsPossible DEF Waiting
        <5>. QED
          BY <3>1, <4>2, <4>4, <5>1, <5>2 DEF SessionGoesOn
      <4>. QED
        BY <4>3, <4>4
    <3>. QED
      BY <3>3, <3>4
  <2>. QED
    BY <2>1 DEF NoCampaignIsStuck, WorkerGoesOn
<1>. QED
  BY <1>1, CampaignInvariant, WorkingInvariant, CampaignsUseLedger, WaitersWaitForWorkers, PTL

-----------------------------------------------------------------------------
(* The steps the worker can still take with a message. *)
MessageLeft(m) ==
  CASE step[m] = "waiting" -> 14
    [] step[m] = "debiting" -> 10 + CallLeft(m)
    [] step[m] = "sending" -> IF posted[m] = "no" THEN 9 ELSE 8
    [] step[m] = "raised" -> 7
    [] step[m] = "refunding" -> 3 + CallLeft(m)
    [] step[m] \in {"skipping", "failing", "answered"} -> 1
    [] step[m] \in {"over", "lost"} -> 0

MessagesRunOut ==
  \A m \in Message :
    /\ MessageLeft(m) \in Nat /\ MessageLeft(m)' \in Nat
    /\ MessageLeft(m)' <= MessageLeft(m)
    /\ (\E c \in Campaign : MessageStep(c, m)) => MessageLeft(m)' < MessageLeft(m)

(* The same, in cases the provers see through. *)
LeftIs(m) ==
  /\ CallLeft(m) \in 0..3 /\ MessageLeft(m) \in Nat
  /\ step[m] = "waiting" => MessageLeft(m) = 14
  /\ step[m] = "debiting" => MessageLeft(m) = 10 + CallLeft(m)
  /\ step[m] = "sending" => MessageLeft(m) = IF posted[m] = "no" THEN 9 ELSE 8
  /\ step[m] = "raised" => MessageLeft(m) = 7
  /\ step[m] = "refunding" => MessageLeft(m) = 3 + CallLeft(m)
  /\ step[m] \in {"skipping", "failing", "answered"} => MessageLeft(m) = 1
  /\ step[m] \in {"over", "lost"} => MessageLeft(m) = 0

Lefts == \A m \in Message : LeftIs(m)

LEMMA LeftAt == CInv => Lefts
<1>. SUFFICES ASSUME CInv, NEW m \in Message PROVE LeftIs(m)
  BY DEF Lefts
<1>1. CallLeft(m) \in 0..3
  BY DEF CallLeft
<1>2. step[m] \in {"waiting", "debiting", "skipping", "sending", "raised", "refunding", "failing",
                   "answered", "over", "lost"}
  BY DEF CInv, CampaignTypeOK
<1>. QED
  BY <1>1, <1>2 DEF MessageLeft, LeftIs

LEMMA LeftNext == CInv' => Lefts'
BY LeftAt, PTL

(* A step that does not concern the message leaves it where it is. *)
LEMMA LeftKept ==
  ASSUME TypeOK, NEW m \in Message, step'[m] = step[m],
         posted'[m] = "no" <=> posted[m] = "no",
         UNCHANGED vars \/ \E t \in Txn \ {m} : Step(t)
  PROVE  MessageLeft(m)' = MessageLeft(m)
<1>1. pc'[m] = pc[m]
  <2>1. UNCHANGED vars => pc'[m] = pc[m]
    BY DEF vars
  <2>. QED
    BY <2>1, OthersStay, MessageIsTxn
<1>. QED
  BY <1>1 DEF MessageLeft, CallLeft

LEMMA MessageRunsOut ==
  ASSUME CInv, CInv', NEW c \in Campaign, NEW m \in Message, MessageStep(c, m)
  PROVE  MessageLeft(m)' < MessageLeft(m)
<1>. DEFINE k == CallLeft(m)
            n == MessageLeft(m)
<1>0. /\ m \in Txn /\ \A w : Goes(m, w) => step'[m] = w
      /\ pc \in [Txn -> {"ready", "lock", "read", "append"}]
      /\ DOMAIN posted = Message
  BY MessageIsTxn DEF CInv, CampaignTypeOK, SumInv, IInv, TypeOK, Goes
<1>1. /\ Lock(m) => k = 3 /\ k' = 2
      /\ ReadBalance(m) => k = 2 /\ k' \in {0, 1}
      /\ AppendEntry(m) => k = 1
      /\ \A e \in Call : Enter(m, e) => k' = 3
  BY <1>0 DEF Lock, ReadBalance, AppendEntry, Return, Enter, CallLeft
<1>. HIDE DEF k, n
<1>2. /\ k' \in 0..3 /\ n' \in Nat
      /\ step'[m] = "debiting" => n' = 10 + k'
      /\ step'[m] = "sending" => n' = IF posted'[m] = "no" THEN 9 ELSE 8
      /\ step'[m] = "raised" => n' = 7
      /\ step'[m] = "refunding" => n' = 3 + k'
      /\ step'[m] \in {"skipping", "failing", "answered"} => n' = 1
      /\ step'[m] = "over" => n' = 0
  BY LeftNext DEF Lefts, LeftIs, k, n
<1>3. /\ k \in 0..3 /\ n \in Nat
      /\ step[m] = "waiting" => n = 14
      /\ step[m] = "debiting" => n = 10 + k
      /\ step[m] = "sending" => n = IF posted[m] = "no" THEN 9 ELSE 8
      /\ step[m] = "raised" => n = 7
      /\ step[m] = "refunding" => n = 3 + k
      /\ step[m] \in {"skipping", "failing", "answered"} => n = 1
  BY LeftAt DEF Lefts, LeftIs, k, n
<1>4. SUFFICES n' < n
  BY DEF n
<1>5. \A i \in 0..3 : 10 + i \in 10..13
  OBVIOUS
<1>6. \A i, j \in 0..3 : j < i => 10 + j < 10 + i /\ 3 + j < 3 + i
  OBVIOUS
<1>a. CASE StartMessage(c, m)
  <2>1. step[m] = "waiting" /\ step'[m] \in {"sending", "debiting"}
    BY <1>0, <1>a DEF StartMessage
  <2>2. n = 14
    BY <1>3, <2>1
  <2>3. step'[m] = "debiting" => n' \in 10..13
    BY <1>2, <1>5, Zenon
  <2>4. step'[m] = "sending" => n' \in 8..9
    BY <1>2
  <2>. QED
    BY <2>1, <2>2, <2>3, <2>4
<1>b. CASE DebitStep(c, m)
  <2>1. /\ step[m] = "debiting"
        /\ \/ k' < k /\ step'[m] = "debiting"
           \/ step'[m] \in {"skipping", "sending"}
    BY <1>0, <1>1, <1>b DEF DebitStep
  <2>2. n = 10 + k /\ n \in 10..13
    BY <1>3, <2>1, <1>5
  <2>3. CASE k' < k /\ step'[m] = "debiting"
    <3>1. n' = 10 + k'
      BY <1>2, <2>3
    <3>. QED
      BY <1>2, <1>3, <2>2, <2>3, <3>1, <1>6
  <2>4. CASE step'[m] = "skipping"
    BY <1>2, <2>2, <2>4
  <2>5. CASE step'[m] = "sending"
    <3>1. n' \in 8..9
      BY <1>2, <2>5
    <3>. QED
      BY <2>2, <3>1
  <2>. QED
    BY <2>1, <2>3, <2>4, <2>5
<1>c. CASE Post(c, m)
  <2>1. /\ step[m] = "sending"
        /\ \/ posted[m] = "no" /\ posted'[m] = "flying" /\ step'[m] = "sending"
           \/ step'[m] \in {"answered", "raised"}
    BY <1>0, <1>c DEF Post
  <2>. QED
    BY <1>2, <1>3, <2>1
<1>d. CASE RefundStart(c, m)
  <2>1. step[m] = "raised" /\ step'[m] \in {"failing", "refunding"}
    BY <1>0, <1>d DEF RefundStart
  <2>. QED
    BY <1>2, <1>3, <2>1
<1>e. CASE RefundStep(c, m)
  <2>1. /\ step[m] = "refunding"
        /\ \/ k' < k /\ step'[m] = "refunding"
           \/ step'[m] = "failing"
    BY <1>0, <1>1, <1>e DEF RefundStep
  <2>2. n = 3 + k
    BY <1>3, <2>1
  <2>3. CASE k' < k /\ step'[m] = "refunding"
    <3>1. n' = 3 + k'
      BY <1>2, <2>3
    <3>. QED
      BY <1>2, <1>3, <2>2, <2>3, <3>1, <1>6
  <2>4. CASE step'[m] = "failing"
    <3>1. n' = 1
      BY <1>2, <2>4
    <3>. QED
      BY <1>3, <2>2, <3>1
  <2>. QED
    BY <2>1, <2>3, <2>4
<1>f. CASE CommitMessage(c, m)
  <2>1. step[m] \in {"skipping", "failing", "answered"} /\ step'[m] = "over"
    BY <1>0, <1>f DEF CommitMessage
  <2>. QED
    BY <1>2, <1>3, <2>1
<1>. QED
  BY <1>a, <1>b, <1>c, <1>d, <1>e, <1>f DEF MessageStep

(* Every step of a worker brings the message it handles nearer to its end,  *)
(* and nothing anybody does takes one back: with WorkersWaitForWorkers, a   *)
(* campaign can only end or die.                                            *)
THEOREM CampaignsRunOut == CampaignSpec => [][MessagesRunOut]_campaignVars
<1>1. ASSUME CInv, CInv', CampaignNext, NEW m \in Message
      PROVE  /\ MessageLeft(m) \in Nat /\ MessageLeft(m)' \in Nat
             /\ MessageLeft(m)' <= MessageLeft(m)
             /\ (\E c \in Campaign : MessageStep(c, m)) => MessageLeft(m)' < MessageLeft(m)
  <2>0. /\ MessageLeft(m) \in Nat /\ MessageLeft(m)' \in Nat /\ TypeOK
        /\ DOMAIN step = Message /\ DOMAIN posted = Message /\ m \in Txn
    BY <1>1, LeftAt, LeftNext, MessageIsTxn
       DEF Lefts, LeftIs, CInv, SumInv, IInv, CampaignTypeOK
  <2>1. CASE \E c \in Campaign : MessageStep(c, m)
    <3>1. MessageLeft(m)' < MessageLeft(m)
      BY <1>1, <2>1, MessageRunsOut
    <3>. QED
      BY <2>0, <3>1
  <2>. SUFFICES ASSUME ~ \E c \in Campaign : MessageStep(c, m)
                PROVE  MessageLeft(m)' <= MessageLeft(m)
    BY <2>0, <2>1
  <2>2. ASSUME NEW c \in Campaign, NEW x \in Message, MessageStep(c, x)
        PROVE  MessageLeft(m)' <= MessageLeft(m)
    <3>1. step'[m] = step[m] /\ posted'[m] = posted[m] /\ x # m
      BY <1>1, <2>2, OthersWait
    <3>2. UNCHANGED vars \/ \E t \in Txn \ {m} : Step(t)
      BY <1>1, <2>2, <3>1, MessageLedger, LedgerStepIsStep, MessageIsTxn
    <3>. QED
      BY <2>0, <3>1, <3>2, LeftKept
  <2>3. ASSUME NEW c \in Campaign, Die(c) PROVE MessageLeft(m)' <= MessageLeft(m)
    <3>1. /\ step' = [x \in Message |-> IF x \in Lost(c) THEN "lost" ELSE step[x]]
          /\ posted' = posted /\ (UNCHANGED vars \/ \E x \in Lost(c) : Rollback(x))
      BY <2>3 DEF Die
    <3>2. CASE m \in Lost(c)
      <4>1. MessageLeft(m)' = 0
        BY <1>1, <3>1, <3>2, LeftNext DEF Lefts, LeftIs
      <4>. QED
        BY <2>0, <4>1
    <3>3. CASE m \notin Lost(c)
      <4>1. UNCHANGED vars \/ \E t \in Txn \ {m} : Step(t)
        BY <3>1, <3>3, MessageIsTxn DEF Lost, Step
      <4>. QED
        BY <2>0, <3>1, <3>3, <4>1, LeftKept
    <3>. QED
      BY <3>2, <3>3
  <2>4. ASSUME NEW t \in Txn \ Message, Recharge(t) PROVE MessageLeft(m)' <= MessageLeft(m)
    <3>1. step' = step /\ posted' = posted
      BY <2>4 DEF Recharge, cvars
    <3>2. Step(t)
      <4>1. \A r \in Reference : [kind |-> "credit", amount |-> Recharged, reference |-> r] \in Call
        BY CampaignAssumption DEF Call
      <4>. QED
        BY <2>4, <4>1 DEF Recharge, Step
    <3>. QED
      BY <2>0, <3>1, <3>2, LeftKept
  <2>5. ASSUME UNCHANGED <<vars, step>>, posted'[m] = "no" <=> posted[m] = "no"
        PROVE  MessageLeft(m)' <= MessageLeft(m)
    BY <2>0, <2>5, LeftKept
  <2>6. CASE \E x \in Message : Decide(x)
    BY <2>0, <2>5, <2>6 DEF Decide
  <2>7. CASE \/ \E c \in Campaign : Create(c) \/ Finish(c)
             \/ \E x \in Message, s \in Reportable : Report(x, s) \/ Receive(x, s)
             \/ \E h \in hooks : Apply(h) \/ Redeliver(h)
    BY <2>5, <2>7 DEF Create, Finish, Report, Receive, Apply, Redeliver, cvars
  <2>. QED
    BY <1>1, <2>2, <2>3, <2>4, <2>6, <2>7 DEF CampaignNext
<1>2. CInv /\ CInv' /\ CampaignNext => MessagesRunOut
  BY <1>1 DEF MessagesRunOut
<1>. QED
  BY <1>2, CampaignInvariant, PTL DEF CampaignSpec
=============================================================================
