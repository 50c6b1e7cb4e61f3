---------------------------- MODULE RechargeProofs ----------------------------
(***************************************************************************)
(* Proofs about Recharge, for any accounts, payments and requests: every   *)
(* step is one of the credit ledger, so all that is proved of the ledger   *)
(* holds here, and a retry never credits a payment twice.                  *)
(***************************************************************************)
EXTENDS Recharge, CreditLedgerProofs, FiniteSetTheorems

CreditOf(t) ==
  [kind |-> "credit", amount |-> Paise[PaymentOf[t]], reference |-> PaymentOf[t]]

LEMMA CreditOfType ==
  ASSUME NEW t \in Txn
  PROVE  CreditOf(t) \in Call /\ Delta(CreditOf(t)) = Paise[PaymentOf[t]]
         /\ Paise[PaymentOf[t]] > 0 /\ Paise[PaymentOf[t]] \in Int
  BY RechargeAssumption, AmountAssumption DEF CreditOf, Call, Delta

(* A request runs one transaction of the ledger, statement by statement. *)
LEMMA RechargeSteps == [RechargeNext]_rvars => [Next]_vars
<1>. SUFFICES ASSUME RechargeNext, vars' # vars PROVE Next
  BY DEF rvars
<1>1. ASSUME NEW t \in Txn, CheckReplay(t) PROVE Next
  BY <1>1, CreditOfType DEF CheckReplay, CreditOf, Next, Step
<1>2. ASSUME NEW t \in Txn, Credit(t) \/ Answer(t) \/ Fail(t) PROVE Next
  BY <1>2 DEF Credit, Answer, Fail, Next, Step
<1>3. ASSUME NEW t \in Txn PROVE ~Fetch(t)
  BY DEF Fetch
<1>4. \A p \in Payment : ~Capture(p)
  BY DEF Capture
<1>. QED
  BY <1>1, <1>2, <1>3, <1>4 DEF RechargeNext

(* Recharges are the ledger's transactions: whatever the ledger promises,   *)
(* it promises while requests are repeated, fail and overlap.               *)
THEOREM RechargeUsesLedger == RechargeSpec => Spec
<1>1. RechargeInit => Init
  BY DEF RechargeInit
<1>. QED
  BY <1>1, RechargeSteps, PTL DEF RechargeSpec, Spec

-----------------------------------------------------------------------------
(* What a request has behind it at each of its steps. *)
Phase(t) ==
  /\ request[t] \in {"start", "fetched", "replayed", "refused"} => status[t] = "idle"
  /\ request[t] = "credited" <=> status[t] = "committed"
  /\ request[t] \in {"fetched", "crediting"} => Creditable(PaymentOf[t])
  /\ request[t] = "crediting" /\ pc[t] # "ready" =>
       call[t] = CreditOf(t) /\ \A r \in rows : r.txn # t
  /\ request[t] = "credited" \/ (request[t] = "crediting" /\ pc[t] = "ready") =>
       \E r \in rows : r.txn = t

Phases == \A t \in Txn : Phase(t)

(* A request makes one entry at most. *)
OneRow == \A r, s \in rows : r.txn = s.txn => r = s

(* A replay was answered because of a committed entry. *)
Replays == \A t \in Txn : request[t] = "replayed" => Found(t) # {}

(* Along a chain of retries, a request is sent when those before it have    *)
(* ended, and credits when none of them has an entry in the business.       *)
InTurn ==
  \A p \in Payment : \A place \in [Sent(p) -> 1..Cardinality(Sent(p))] :
    InPlace(p, place) =>
      \A t, u \in Sent(p) : place[t] < place[u] =>
        /\ request[u] # "start" => request[t] \in Ended
        /\ request[u] \in {"crediting", "credited"} =>
             \A r \in rows : r.txn = t /\ status[t] = "committed" =>
               BusinessOf[r.account] # BusinessOf[AccountOf[u]]

RInv ==
  IInv /\ RechargeTypeOK /\ Phases /\ OneRow /\ CreditsWhatWasCaptured /\ Replays /\ InTurn

LEMMA InitRecharge == RechargeInit => RInv
<1>. SUFFICES ASSUME RechargeInit PROVE RInv
  OBVIOUS
<1>1. IInv /\ rows = {} /\ \A t \in Txn : request[t] = "start" /\ status[t] = "idle"
  BY InitInv DEF RechargeInit, Init
<1>2. RechargeTypeOK
  BY <1>1 DEF RechargeInit, RechargeTypeOK, IInv
<1>3. Phases
  BY <1>1 DEF Phases, Phase
<1>4. OneRow /\ CreditsWhatWasCaptured /\ Replays
  BY <1>1 DEF OneRow, CreditsWhatWasCaptured, Replays
<1>5. InTurn
  BY <1>1 DEF InTurn, Sent
<1>. QED
  BY <1>1, <1>2, <1>3, <1>4, <1>5 DEF RInv

-----------------------------------------------------------------------------
(* What a step of request x leaves alone, and when it may go on. *)
Acts(x) ==
  /\ captured' = captured
  /\ \A y \in Txn \ {x} : /\ request'[y] = request[y] /\ status'[y] = status[y]
                          /\ pc'[y] = pc[y] /\ call'[y] = call[y]
  /\ \A r \in rows : r.txn # x => r \in rows'
  /\ \A r \in rows' : r.txn # x => r \in rows
  /\ request[x] \notin Ended
  /\ request[x] = "start" => Sendable(x)
  /\ request'[x] # "start"
  /\ request'[x] \in {"crediting", "credited"} => request[x] = "crediting" \/ Found(x) = {}

(* Rows and statuses of the other requests are not touched by a step. *)
LEMMA LedgerActs ==
  ASSUME IInv, NEW x \in Txn, Step(x)
  PROVE  /\ \A y \in Txn \ {x} : status'[y] = status[y] /\ pc'[y] = pc[y] /\ call'[y] = call[y]
         /\ \A r \in rows : r.txn # x => r \in rows'
         /\ \A r \in rows' : r.txn # x => r \in rows
<1>. USE DEF Return
<1>1. status \in [Txn -> {"idle", "active", "committed", "aborted"}]
      /\ pc \in [Txn -> {"ready", "lock", "read", "append"}] /\ call \in [Txn -> Call]
  BY DEF IInv, TypeOK
<1>2. CASE \E c \in Call : Enter(x, c)
  BY <1>1, <1>2 DEF Enter
<1>3. CASE Lock(x)
  BY <1>1, <1>3 DEF Lock
<1>4. CASE ReadBalance(x)
  BY <1>1, <1>4 DEF ReadBalance
<1>5. CASE AppendEntry(x)
  BY <1>1, <1>5 DEF AppendEntry, Inserted, NewRow
<1>6. CASE Commit(x)
  BY <1>1, <1>6 DEF Commit
<1>7. CASE Rollback(x)
  BY <1>1, <1>7 DEF Rollback
<1>. QED
  BY <1>2, <1>3, <1>4, <1>5, <1>6, <1>7 DEF Step

LEMMA RequestActs ==
  ASSUME RInv, NEW x \in Txn,
         Fetch(x) \/ CheckReplay(x) \/ Credit(x) \/ Answer(x) \/ Fail(x)
  PROVE  Acts(x)
<1>1. request \in [Txn -> {"start", "fetched", "crediting"} \cup Ended]
  BY DEF RInv, RechargeTypeOK
<1>2. UNCHANGED vars \/ Step(x)
  BY CreditOfType DEF Fetch, CheckReplay, Credit, Answer, Fail, CreditOf, Step
<1>3. /\ \A y \in Txn \ {x} : status'[y] = status[y] /\ pc'[y] = pc[y] /\ call'[y] = call[y]
      /\ \A r \in rows : r.txn # x => r \in rows'
      /\ \A r \in rows' : r.txn # x => r \in rows
  BY <1>2, LedgerActs DEF RInv, vars
<1>4. /\ captured' = captured /\ request[x] \notin Ended
      /\ \A y \in Txn \ {x} : request'[y] = request[y]
      /\ request[x] = "start" => Sendable(x)
      /\ request'[x] # "start"
      /\ request'[x] \in {"crediting", "credited"} => request[x] = "crediting" \/ Found(x) = {}
  BY <1>1 DEF Fetch, CheckReplay, Credit, Answer, Fail, Moves, Ended
<1>. QED
  BY <1>3, <1>4 DEF Acts

(* Whoever is not first in a chain has somebody in the place before.        *)
LEMMA Predecessor ==
  ASSUME NEW p \in Payment, NEW place \in [Sent(p) -> 1..Cardinality(Sent(p))],
         InPlace(p, place), NEW u \in Sent(p), place[u] # 1
  PROVE  \E w \in Sent(p) : place[u] = place[w] + 1 /\ RetryOf[u] = w
<1>. DEFINE n == Cardinality(Sent(p))
            R == {place[t] : t \in Sent(p)}
<1>1. IsFiniteSet(Sent(p)) /\ n \in Nat
  BY RechargeAssumption, FS_Subset, FS_CardinalityType DEF Sent
<1>2. place \in Surjection(Sent(p), R) /\ place \in Injection(Sent(p), R)
  BY DEF Surjection, Injection, IsInjective, InPlace
<1>3. IsFiniteSet(R) /\ Cardinality(R) = n
  BY <1>1, <1>2, FS_Surjection
<1>4. R \subseteq 1..n
  OBVIOUS
<1>5. IsFiniteSet(1..n) /\ Cardinality(1..n) = n
  BY <1>1, FS_Interval
<1>6. R = 1..n
  BY <1>3, <1>4, <1>5, FS_Subset
<1>7. place[u] - 1 \in R
  BY <1>1, <1>6
<1>8. PICK w \in Sent(p) : place[w] = place[u] - 1
  BY <1>7
<1>9. place[u] = place[w] + 1
  BY <1>1, <1>8
<1>. QED
  BY <1>9 DEF InPlace

(* Requests end in their turn, and entries of ended ones do not change. *)
LEMMA ActsInTurn ==
  ASSUME RInv, NEW x \in Txn, Acts(x), Phases'
  PROVE  InTurn'
<1>. SUFFICES ASSUME NEW p \in Payment, NEW place \in [Sent(p) -> 1..Cardinality(Sent(p))],
                     InPlace(p, place), NEW t \in Sent(p), NEW u \in Sent(p),
                     place[t] < place[u]
              PROVE  /\ request'[u] # "start" => request'[t] \in Ended
                     /\ request'[u] \in {"crediting", "credited"} =>
                          \A r \in rows' : r.txn = t /\ status'[t] = "committed" =>
                            BusinessOf[r.account] # BusinessOf[AccountOf[u]]
  BY DEF InTurn
<1>1. t \in Txn /\ u \in Txn /\ t # u
  BY DEF Sent
<1>2. \A v \in Sent(p) : place[v] \in Nat /\ place[v] >= 1
  OBVIOUS
<1>3. request[t] \in Ended => request'[t] = request[t] /\ t # x
  BY <1>1 DEF Acts
<1>4. ASSUME request'[u] # "start" PROVE request[t] \in Ended
  <2>1. CASE request[u] # "start"
    BY <2>1 DEF RInv, InTurn
  <2>2. CASE request[u] = "start"
    <3>1. u = x /\ Sendable(u)
      BY <1>1, <1>4, <2>2 DEF Acts
    <3>2. PICK w \in Sent(p) : place[u] = place[w] + 1 /\ RetryOf[u] = w
      BY <1>2, Predecessor
    <3>3. request[w] \in Ended /\ request[w] # "start"
      BY <3>1, <3>2, NoneAssumption DEF Sendable, Sent, Ended
    <3>4. t = w \/ place[t] < place[w]
      BY <1>2, <3>2 DEF InPlace
    <3>. QED
      BY <3>3, <3>4 DEF RInv, InTurn
  <2>. QED
    BY <2>1, <2>2
<1>5. ASSUME request'[u] \in {"crediting", "credited"}, NEW r \in rows', r.txn = t,
             status'[t] = "committed"
      PROVE  BusinessOf[r.account] # BusinessOf[AccountOf[u]]
  <2>1. t # x /\ r \in rows /\ status[t] = "committed"
    BY <1>1, <1>3, <1>4, <1>5 DEF Acts
  <2>2. CASE request[u] \in {"crediting", "credited"}
    BY <1>5, <2>1, <2>2 DEF RInv, InTurn
  <2>3. CASE Found(u) = {}
    <3>1. r.reference = p
      BY <1>5, <2>1 DEF RInv, CreditsWhatWasCaptured, Sent
    <3>. QED
      BY <1>5, <2>1, <2>3, <3>1 DEF Found, Sent
  <2>. QED
    BY <1>1, <1>5, <2>2, <2>3 DEF Acts
<1>. QED
  BY <1>3, <1>4, <1>5

(* A request goes from one of its phases to the next. *)
LEMMA RequestPhases ==
  ASSUME RInv, NEW x \in Txn,
         Fetch(x) \/ CheckReplay(x) \/ Credit(x) \/ Answer(x) \/ Fail(x)
  PROVE  Phases'
<1>0. /\ request \in [Txn -> {"start", "fetched", "crediting"} \cup Ended]
      /\ status \in [Txn -> {"idle", "active", "committed", "aborted"}]
      /\ pc \in [Txn -> {"ready", "lock", "read", "append"}] /\ call \in [Txn -> Call]
      /\ Phase(x) /\ (request[x] = "crediting" <=> status[x] = "active")
  BY DEF RInv, RechargeTypeOK, IInv, TypeOK, Phases
<1>1. Acts(x)
  BY RequestActs
<1>2. ASSUME NEW y \in Txn \ {x} PROVE Phase(y)'
  <2>1. /\ (\E r \in rows : r.txn = y) => \E r \in rows' : r.txn = y
        /\ (\A r \in rows : r.txn # y) => \A r \in rows' : r.txn # y
    BY <1>1, <1>2 DEF Acts
  <2>. QED
    BY <1>1, <1>2, <2>1 DEF Acts, RInv, Phases, Phase, Creditable
<1>3. CASE Fetch(x)
  <2>1. Phase(x)'
    BY <1>0, <1>3 DEF Fetch, Moves, Phase, Creditable, vars
  <2>. QED
    BY <1>2, <2>1 DEF Phases
<1>4. CASE CheckReplay(x)
  <2>1. ASSUME UNCHANGED vars, request'[x] \in {"failed", "replayed"} PROVE Phase(x)'
    <3>1. status'[x] = "idle"
      BY <1>0, <1>4, <2>1 DEF CheckReplay, Phase, vars
    <3>. QED
      BY <2>1, <3>1 DEF Phase
  <2>2. ASSUME Enter(x, CreditOf(x)), Moves(x, "crediting") PROVE Phase(x)'
    <3>1. /\ request'[x] = "crediting" /\ status'[x] = "active" /\ pc'[x] = "lock"
          /\ call'[x] = CreditOf(x) /\ rows' = rows /\ captured' = captured
      BY <1>0, <1>4, <2>2 DEF Enter, Moves, CheckReplay
    <3>2. request[x] = "fetched" /\ status[x] = "idle"
      BY <1>0, <1>4 DEF CheckReplay, Phase
    <3>3. \A r \in rows : r.txn # x
      BY <3>2 DEF RInv, IInv, RowsOwned
    <3>. QED
      BY <1>0, <3>1, <3>2, <3>3 DEF Phase, Creditable
  <2>. QED
    BY <1>0, <1>2, <1>4, <2>1, <2>2 DEF Phases, CheckReplay, Moves, CreditOf
<1>5. CASE Credit(x)
  <2>1. /\ request[x] = "crediting" /\ request' = request /\ captured' = captured
        /\ status[x] = "active" /\ pc[x] # "ready" /\ call[x] = CreditOf(x)
        /\ (\A r \in rows : r.txn # x) /\ Creditable(PaymentOf[x])
    BY <1>0, <1>5 DEF Credit, Lock, ReadBalance, AppendEntry, Phase
  <2>a. ASSUME pc'[x] # "ready", call' = call, rows' = rows, status' = status
        PROVE  Phase(x)'
    <3>1. Creditable(PaymentOf[x])'
      BY <2>1 DEF Creditable
    <3>2. request'[x] = "crediting" /\ status'[x] = "active" /\ call'[x] = CreditOf(x)
      BY <2>1, <2>a
    <3>. QED
      BY <2>1, <2>a, <3>1, <3>2 DEF Phase
  <2>2. ASSUME Lock(x) PROVE Phase(x)'
    <3>1. pc'[x] = "read" /\ call' = call /\ rows' = rows /\ status' = status
      BY <1>0, <2>2 DEF Lock
    <3>. QED
      BY <2>a, <3>1
  <2>3. ASSUME ReadBalance(x) PROVE Phase(x)'
    <3>1. ~\E b \in Balances : Refused(call[x], b)
      BY <2>1 DEF Refused, CreditOf
    <3>2. pc'[x] = "append" /\ call' = call /\ rows' = rows /\ status' = status
      BY <1>0, <2>3, <3>1 DEF ReadBalance
    <3>. QED
      BY <2>a, <3>2
  <2>4. ASSUME AppendEntry(x) PROVE Phase(x)'
    <3>1. NewRow(x) \in rows' /\ NewRow(x).txn = x /\ pc'[x] = "ready" /\ status' = status
      BY <1>0, <2>4 DEF AppendEntry, Inserted, NewRow, Return
    <3>2. Creditable(PaymentOf[x])'
      BY <2>1 DEF Creditable
    <3>3. request'[x] = "crediting" /\ status'[x] = "active"
      BY <2>1, <3>1
    <3>. QED
      BY <3>1, <3>2, <3>3 DEF Phase
  <2>. QED
    BY <1>2, <1>5, <2>2, <2>3, <2>4 DEF Credit, Phases
<1>6. CASE Answer(x)
  <2>1. /\ request[x] = "crediting" /\ request'[x] = "credited" /\ status'[x] = "committed"
        /\ pc[x] = "ready" /\ rows' = rows
    BY <1>0, <1>6 DEF Answer, Commit, Moves
  <2>2. Phase(x)'
    BY <1>0, <2>1 DEF Phase
  <2>. QED
    BY <1>2, <2>2 DEF Phases
<1>7. CASE Fail(x)
  <2>1. request'[x] = "failed" /\ status'[x] # "committed"
    BY <1>0, <1>7 DEF Fail, Rollback, Moves, Phase, vars
  <2>2. Phase(x)'
    BY <2>1 DEF Phase
  <2>. QED
    BY <1>2, <2>2 DEF Phases
<1>. QED
  BY <1>3, <1>4, <1>5, <1>6, <1>7

(* The only row a request adds is the entry of its captured payment, when   *)
(* it has none.                                                             *)
LEMMA RequestRows ==
  ASSUME RInv, NEW x \in Txn,
         Fetch(x) \/ CheckReplay(x) \/ Credit(x) \/ Answer(x) \/ Fail(x)
  PROVE  OneRow' /\ CreditsWhatWasCaptured'
<1>1. CASE rows' \subseteq rows
  BY <1>1, RequestActs DEF RInv, OneRow, CreditsWhatWasCaptured, Acts
<1>2. CASE AppendEntry(x) /\ request[x] = "crediting"
  <2>1. rows' = rows \cup {NewRow(x)} /\ captured' = captured
    BY <1>2, RequestActs DEF AppendEntry, Inserted, Acts
  <2>2. /\ call[x] = CreditOf(x) /\ \A r \in rows : r.txn # x
        /\ Creditable(PaymentOf[x])
    BY <1>2 DEF RInv, Phases, Phase, AppendEntry
  <2>3. /\ NewRow(x).txn = x /\ NewRow(x).reference = PaymentOf[x]
        /\ NewRow(x).delta = Paise[PaymentOf[x]]
    BY <2>2, CreditOfType DEF NewRow, CreditOf
  <2>4. OneRow'
    BY <2>1, <2>2, <2>3 DEF RInv, OneRow
  <2>5. CreditsWhatWasCaptured'
    BY <2>1, <2>2, <2>3 DEF RInv, CreditsWhatWasCaptured, Creditable
  <2>. QED
    BY <2>4, <2>5
<1>. QED
  BY <1>1, <1>2 DEF Fetch, CheckReplay, Credit, Answer, Fail, vars, Enter, Lock, ReadBalance,
                    Commit, Rollback

(* Found entries are committed, so they stay. *)
LEMMA RequestReplays ==
  ASSUME RInv, NEW x \in Txn,
         Fetch(x) \/ CheckReplay(x) \/ Credit(x) \/ Answer(x) \/ Fail(x)
  PROVE  Replays'
<1>1. Acts(x)
  BY RequestActs
<1>2. ASSUME NEW r \in rows, status[r.txn] = "committed"
      PROVE  r \in rows' /\ status'[r.txn] = "committed"
  <2>1. r.txn \in Txn /\ request[r.txn] = "credited"
    BY <1>2 DEF RInv, Phases, Phase, IInv, TypeOK, Row
  <2>2. r.txn # x
    BY <1>1, <2>1 DEF Acts, Ended
  <2>. QED
    BY <1>1, <1>2, <2>1, <2>2 DEF Acts
<1>3. \A t \in Txn : Found(t) \subseteq Found(t)'
  BY <1>2 DEF Found
<1>4. request'[x] = "replayed" => Found(x) # {}
  <2>1. ASSUME Cardinality(Found(x)) = 1 PROVE Found(x) # {}
    BY <2>1, FS_EmptySet
  <2>2. request'[x] = "replayed" => Cardinality(Found(x)) = 1
    BY DEF RInv, RechargeTypeOK, Fetch, CheckReplay, Credit, Answer, Fail, Moves
  <2>. QED
    BY <2>1, <2>2
<1>5. ASSUME NEW t \in Txn, request'[t] = "replayed" PROVE Found(t) # {}
  BY <1>1, <1>4, <1>5 DEF Acts, RInv, Replays
<1>. QED
  BY <1>3, <1>5 DEF Replays

LEMMA RequestTypes ==
  ASSUME RInv, NEW x \in Txn,
         Fetch(x) \/ CheckReplay(x) \/ Credit(x) \/ Answer(x) \/ Fail(x)
  PROVE  captured' \subseteq Payment
         /\ request' \in [Txn -> {"start", "fetched", "crediting"} \cup Ended]
         /\ \A t \in Txn : request'[t] = "crediting" <=> status'[t] = "active"
<1>0. /\ captured \subseteq Payment
      /\ request \in [Txn -> {"start", "fetched", "crediting"} \cup Ended]
      /\ status \in [Txn -> {"idle", "active", "committed", "aborted"}]
      /\ \A t \in Txn : request[t] = "crediting" <=> status[t] = "active"
  BY DEF RInv, RechargeTypeOK, IInv, TypeOK
<1>1. Acts(x)
  BY RequestActs
<1>2. request' \in [Txn -> {"start", "fetched", "crediting"} \cup Ended]
  BY <1>0 DEF Fetch, CheckReplay, Credit, Answer, Fail, Moves, Ended
<1>3. request'[x] = "crediting" <=> status'[x] = "active"
  BY <1>0 DEF Fetch, CheckReplay, Credit, Answer, Fail, Moves, vars, Enter, Lock, ReadBalance,
              AppendEntry, Commit, Rollback
<1>. QED
  BY <1>0, <1>1, <1>2, <1>3 DEF Acts

LEMMA StepRecharge == RInv /\ [RechargeNext]_rvars => RInv'
<1>. SUFFICES ASSUME RInv, [RechargeNext]_rvars PROVE RInv'
  OBVIOUS
<1>1. IInv' /\ TypeOK'
  BY RechargeSteps, NextInv DEF RInv, IInv
<1>2. CASE UNCHANGED rvars
  BY <1>1, <1>2 DEF rvars, vars, RInv, RechargeTypeOK, Phases, Phase, Creditable, OneRow,
                    CreditsWhatWasCaptured, Replays, Found, InTurn
<1>3. ASSUME NEW p \in Payment, Capture(p) PROVE RInv'
  BY <1>1, <1>3 DEF Capture, vars, RInv, RechargeTypeOK, Phases, Phase, Creditable, OneRow,
                    CreditsWhatWasCaptured, Replays, Found, InTurn
<1>4. ASSUME NEW x \in Txn,
             Fetch(x) \/ CheckReplay(x) \/ Credit(x) \/ Answer(x) \/ Fail(x)
      PROVE  RInv'
  <2>1. Phases' /\ OneRow' /\ CreditsWhatWasCaptured' /\ Replays'
    BY <1>4, RequestPhases, RequestRows, RequestReplays
  <2>2. InTurn'
    BY <1>4, <2>1, RequestActs, ActsInTurn
  <2>3. RechargeTypeOK'
    BY <1>1, <1>4, RequestTypes DEF RechargeTypeOK
  <2>. QED
    BY <1>1, <2>1, <2>2, <2>3 DEF RInv
<1>. QED
  BY <1>2, <1>3, <1>4 DEF RechargeNext

-----------------------------------------------------------------------------
(* The state has its type, and a request is open in the database exactly    *)
(* while it credits.                                                        *)
THEOREM RechargeTypeCorrect == RechargeSpec => []RechargeTypeOK
<1>1. RInv => RechargeTypeOK
  BY DEF RInv
<1>. QED
  BY <1>1, InitRecharge, StepRecharge, PTL DEF RechargeSpec

(* An entry is for a captured payment in INR, and of its amount. *)
THEOREM OnlyCapturedIsCredited == RechargeSpec => []CreditsWhatWasCaptured
<1>1. RInv => CreditsWhatWasCaptured
  BY DEF RInv
<1>. QED
  BY <1>1, InitRecharge, StepRecharge, PTL DEF RechargeSpec

(* Whoever was answered with a balance has a committed entry behind it. *)
THEOREM AnswersAreDurable == RechargeSpec => []AnswerIsDurable
<1>1. ASSUME RInv PROVE AnswerIsDurable
  <2>1. ASSUME NEW t \in Txn, request[t] = "credited" PROVE Found(t) # {}
    <3>1. PICK r \in rows : r.txn = t
      BY <1>1, <2>1 DEF RInv, Phases, Phase
    <3>2. r.account = AccountOf[t] /\ r.reference = PaymentOf[t] /\ status[r.txn] = "committed"
      BY <1>1, <2>1, <3>1
         DEF RInv, Phases, Phase, IInv, RowsOwned, CreditsWhatWasCaptured
    <3>. QED
      BY <3>1, <3>2 DEF Found
  <2>. QED
    BY <1>1, <2>1 DEF RInv, Replays, AnswerIsDurable
<1>. QED
  BY <1>1, InitRecharge, StepRecharge, PTL DEF RechargeSpec

(* A client that retries only what has ended is charged with one entry,     *)
(* however many retries it takes and whatever account each of them names.   *)
THEOREM RetriesCreditOnce == RechargeSpec => []RetryCreditsOnce
<1>1. ASSUME RInv PROVE RetryCreditsOnce
  <2>. SUFFICES ASSUME NEW p \in Payment,
                       NEW place \in [Sent(p) -> 1..Cardinality(Sent(p))], InPlace(p, place),
                       NEW r \in rows, NEW s \in rows,
                       r.reference = p, status[r.txn] = "committed",
                       s.reference = p, status[s.txn] = "committed",
                       BusinessOf[r.account] = BusinessOf[s.account]
                PROVE  r = s
    BY DEF RetryCreditsOnce, SentInTurn, OneEntry
  <2>1. /\ r.txn \in Sent(p) /\ request[r.txn] = "credited" /\ r.account = AccountOf[r.txn]
        /\ s.txn \in Sent(p) /\ request[s.txn] = "credited" /\ s.account = AccountOf[s.txn]
    BY <1>1 DEF RInv, Phases, Phase, IInv, TypeOK, Row, RowsOwned, CreditsWhatWasCaptured, Sent
  <2>2. ~(place[r.txn] < place[s.txn]) /\ ~(place[s.txn] < place[r.txn])
    BY <1>1, <2>1 DEF RInv, InTurn
  <2>3. place[r.txn] = place[s.txn]
    BY <2>1, <2>2
  <2>4. r.txn = s.txn
    BY <2>1, <2>3 DEF InPlace
  <2>. QED
    BY <1>1, <2>4 DEF RInv, OneRow
<1>. QED
  BY <1>1, InitRecharge, StepRecharge, PTL DEF RechargeSpec

=============================================================================
