-------------------------- MODULE CreditLedgerProofs --------------------------
(***************************************************************************)
(* CreditLedger, for every set of accounts, transactions, amounts and      *)
(* every key function: the inductive invariant, the safety properties the  *)
(* run checks on a small instance, and the refinement of CreditAccount.    *)
(***************************************************************************)
EXTENDS CreditLedger, TLAPS

(* A transaction that is not running is not inside a call. *)
OutsideCalls == \A t \in Txn : status[t] # "active" => pc[t] = "ready"

(* The arguments of a running call have passed its first check. *)
CallAccepted == \A t \in Txn : pc[t] # "ready" => call[t].amount > 0

(* Between get_balance and the INSERT, a debit is known to be covered. *)
Covered == \A t \in Txn : pc[t] = "append" => ~Refused(call[t], balance[t])

(* A call past its lock statement holds the lock of its account. *)
Holding ==
  \A t \in Txn :
    pc[t] \in {"read", "append"} => holder[LockKey[AccountOf[t]]] = t

(* Rows are of their transaction's account; uncommitted ones are under the  *)
(* account's lock, held by the transaction that wrote them.                 *)
RowsOwned ==
  \A r \in rows :
    /\ r.account = AccountOf[r.txn]
    /\ r.seq < nextSeq
    /\ \/ status[r.txn] = "committed"
       \/ status[r.txn] = "active" /\ holder[LockKey[r.account]] = r.txn

SeqUnique == \A r, s \in rows : r.seq = s.seq => r = s

(* An account's uncommitted rows come after its committed ones. *)
PendingLast ==
  \A r, s \in rows :
    r.account = s.account /\ status[r.txn] = "committed" /\ status[s.txn] = "active"
      => r.seq < s.seq

ChainedRows == \A a \in Account : Abstract!Chained(RowsOf(a))

IInv ==
  /\ TypeOK
  /\ OutsideCalls
  /\ CallAccepted
  /\ Covered
  /\ Holding
  /\ RowsOwned
  /\ SeqUnique
  /\ PendingLast
  /\ ChainedRows
  /\ ReadIsCurrent
  /\ NeverNegative

-----------------------------------------------------------------------------
(* Facts about books of entries, of CreditAccount's operators only.         *)

(* An entry above a chained book, with the balance the book shows plus its  *)
(* own delta, extends the chain.                                            *)
LEMMA ChainGrows ==
  ASSUME NEW S, NEW n, NEW b \in Int,
         \A x \in S : x.seq \in Nat /\ x.seq < n.seq,
         n.seq \in Nat, n.delta \in Int,
         \A x, y \in S : x.seq = y.seq => x = y,
         Abstract!Chained(S),
         Abstract!ShowsBalance(S, b),
         n.balance_after = b + n.delta
  PROVE  Abstract!Chained(S \cup {n})
<1> DEFINE T == S \cup {n}
<1>1. ASSUME NEW f \in T, \A x \in T : f.seq <= x.seq
      PROVE  f.balance_after = f.delta
  <2>1. CASE f \in S
    BY <1>1, <2>1 DEF Abstract!Chained
  <2>2. CASE f = n
    <3>1. S = {}
      BY <1>1, <2>2
    <3>2. b = 0
      BY <3>1 DEF Abstract!ShowsBalance
    <3>. QED
      BY <2>2, <3>2
  <2>. QED
    BY <2>1, <2>2
<1>2. ASSUME NEW e \in T, NEW f \in T, Abstract!Precedes(T, e, f)
      PROVE  f.balance_after = e.balance_after + f.delta
  <2>1. e \in S
    BY <1>2 DEF Abstract!Precedes
  <2>2. CASE f \in S
    <3>1. Abstract!Precedes(S, e, f)
      BY <1>2 DEF Abstract!Precedes
    <3>. QED
      BY <2>1, <2>2, <3>1 DEF Abstract!Chained
  <2>3. CASE f = n
    <3>1. \A x \in S : x.seq <= e.seq
      BY <1>2, <2>3 DEF Abstract!Precedes
    <3>2. PICK r \in S : r.balance_after = b /\ \A x \in S : x.seq <= r.seq
      BY <2>1 DEF Abstract!ShowsBalance
    <3>3. r.seq = e.seq
      BY <2>1, <3>1, <3>2
    <3>4. r = e
      BY <2>1, <3>2, <3>3
    <3>. QED
      BY <2>3, <3>2, <3>4
  <2>. QED
    BY <2>2, <2>3
<1>. QED
  BY <1>1, <1>2 DEF Abstract!Chained

(* A chained book stays chained when its last entries are taken away. *)
LEMMA ChainPrefix ==
  ASSUME NEW T, NEW S \in SUBSET T,
         \A x \in T : x.seq \in Nat,
         \A x \in S, y \in T \ S : x.seq < y.seq,
         Abstract!Chained(T)
  PROVE  Abstract!Chained(S)
<1>1. ASSUME NEW f \in S, \A x \in S : f.seq <= x.seq
      PROVE  f.balance_after = f.delta
  <2>1. \A x \in T : f.seq <= x.seq
    BY <1>1
  <2>. QED
    BY <2>1 DEF Abstract!Chained
<1>2. ASSUME NEW e \in S, NEW f \in S, Abstract!Precedes(S, e, f)
      PROVE  f.balance_after = e.balance_after + f.delta
  <2>1. Abstract!Precedes(T, e, f)
    BY <1>2 DEF Abstract!Precedes
  <2>. QED
    BY <2>1 DEF Abstract!Chained
<1>. QED
  BY <1>1, <1>2 DEF Abstract!Chained

-----------------------------------------------------------------------------
LEMMA NoCallType == NoCall \in Call
<1>1. PICK m \in Amount : TRUE
  BY AmountAssumption DEF AmountAssumption
<1>2. PICK r \in Reference : TRUE
  BY ReferenceAssumption DEF ReferenceAssumption
<1>3. [kind |-> "credit", amount |-> m, reference |-> r] \in Call
  BY DEF Call
<1>. QED
  BY <1>3 DEF NoCall

LEMMA InitInv == Init => IInv
<1> SUFFICES ASSUME Init PROVE IInv
  OBVIOUS
<1>1. TypeOK
  BY NoCallType, MaxCallsAssumption DEF Init, TypeOK, MaxCallsAssumption
<1>2. \A a \in Account : RowsOf(a) = {}
  BY DEF Init, RowsOf
<1>3. ChainedRows
  BY <1>2 DEF ChainedRows, Abstract!Chained
<1>. QED
  BY <1>1, <1>3, NoneAssumption
  DEF Init, IInv, OutsideCalls, CallAccepted, Covered, Holding, RowsOwned,
      SeqUnique, PendingLast, ReadIsCurrent, NeverNegative

LEMMA EnterInv ==
  ASSUME IInv, NEW t \in Txn, NEW c \in Call, Enter(t, c)
  PROVE  IInv'
<1> USE DEF IInv, Enter
<1>1. TypeOK'
  BY MaxCallsAssumption DEF TypeOK, MaxCallsAssumption
<1>2. OutsideCalls'
  BY DEF TypeOK, OutsideCalls
<1>3. CallAccepted' /\ Covered' /\ Holding'
  BY DEF TypeOK, CallAccepted, Covered, Holding, Accepted
<1>4. RowsOwned'
  BY DEF TypeOK, RowsOwned, Row
<1>5. SeqUnique'
  BY DEF SeqUnique
<1>6. PendingLast'
  BY DEF TypeOK, PendingLast, RowsOwned, Row
<1>7. ChainedRows' /\ NeverNegative'
  BY DEF ChainedRows, NeverNegative, RowsOf
<1>8. ReadIsCurrent'
  BY DEF TypeOK, ReadIsCurrent, RowsOf
<1>. QED
  BY <1>1, <1>2, <1>3, <1>4, <1>5, <1>6, <1>7, <1>8

LEMMA LockInv ==
  ASSUME IInv, NEW t \in Txn, Lock(t)
  PROVE  IInv'
<1> USE DEF IInv, Lock
<1>1. LockKey[AccountOf[t]] \in Key
  BY LockKeyAssumption, AccountOfAssumption
  DEF LockKeyAssumption, AccountOfAssumption
<1>2. TypeOK'
  BY <1>1 DEF TypeOK
<1>3. OutsideCalls' /\ CallAccepted' /\ Covered'
  BY DEF TypeOK, OutsideCalls, CallAccepted, Covered
<1>4. Holding'
  BY <1>1, NoneAssumption 
  DEF TypeOK, Holding, Grantable, NoneAssumption
<1>5. RowsOwned'
  BY <1>1, NoneAssumption 
  DEF TypeOK, RowsOwned, Row, Grantable, NoneAssumption
<1>6. SeqUnique' /\ PendingLast'
  BY DEF SeqUnique, PendingLast
<1>7. ChainedRows' /\ NeverNegative'
  BY DEF ChainedRows, NeverNegative, RowsOf
<1>8. ReadIsCurrent'
  BY DEF TypeOK, ReadIsCurrent, RowsOf
<1>. QED
  BY <1>2, <1>3, <1>4, <1>5, <1>6, <1>7, <1>8

(* What a transaction that holds the lock of its account reads is all there *)
(* is: every uncommitted row of that account is its own.                    *)
LEMMA HolderSeesAll ==
  ASSUME IInv, NEW t \in Txn, holder[LockKey[AccountOf[t]]] = t
  PROVE  Visible(t, AccountOf[t]) = RowsOf(AccountOf[t])
BY DEF IInv, RowsOwned, RowsOf, Visible

LEMMA ReadBalanceInv ==
  ASSUME IInv, NEW t \in Txn, ReadBalance(t)
  PROVE  IInv'
<1> USE DEF IInv
<1>1. PICK b \in Balances :
        /\ Latest(Visible(t, AccountOf[t]), b)
        /\ \/ Refused(call[t], b) /\ Return(t)
           \/ /\ ~Refused(call[t], b)
              /\ pc' = [pc EXCEPT ![t] = "append"]
              /\ balance' = [balance EXCEPT ![t] = b]
              /\ UNCHANGED call
  BY DEF ReadBalance
<1>2. UNCHANGED <<rows, nextSeq, holder, status, calls>> /\ pc[t] = "read"
  BY DEF ReadBalance
<1>3. b \in Int
  BY DEF Balances, TypeOK, Row
<1>4. Abstract!ShowsBalance(RowsOf(AccountOf[t]), b)
  BY <1>1, <1>2, HolderSeesAll DEF Holding, Latest, Abstract!ShowsBalance
<1>5. CASE Refused(call[t], b) /\ Return(t)
  <2> USE <1>2, <1>5 DEF Return
  <2>1. TypeOK'
    BY NoCallType DEF TypeOK
  <2>2. OutsideCalls' /\ CallAccepted' /\ Covered' /\ Holding'
    BY DEF TypeOK, OutsideCalls, CallAccepted, Covered, Holding
  <2>3. RowsOwned' /\ SeqUnique' /\ PendingLast'
    BY DEF RowsOwned, SeqUnique, PendingLast
  <2>4. ChainedRows' /\ NeverNegative'
    BY DEF ChainedRows, NeverNegative, RowsOf
  <2>5. ReadIsCurrent'
    BY DEF TypeOK, ReadIsCurrent, RowsOf
  <2>. QED
    BY <2>1, <2>2, <2>3, <2>4, <2>5
<1>6. CASE /\ ~Refused(call[t], b)
           /\ pc' = [pc EXCEPT ![t] = "append"]
           /\ balance' = [balance EXCEPT ![t] = b]
           /\ UNCHANGED call
  <2> USE <1>2, <1>6
  <2>1. TypeOK'
    BY <1>3 DEF TypeOK
  <2>2. OutsideCalls' /\ CallAccepted' /\ Holding'
    BY DEF TypeOK, OutsideCalls, CallAccepted, Holding
  <2>3. Covered'
    BY DEF TypeOK, Covered
  <2>4. RowsOwned' /\ SeqUnique' /\ PendingLast'
    BY DEF RowsOwned, SeqUnique, PendingLast
  <2>5. ChainedRows' /\ NeverNegative'
    BY DEF ChainedRows, NeverNegative, RowsOf
  <2>6. ReadIsCurrent'
    BY <1>4 DEF TypeOK, ReadIsCurrent, RowsOf
  <2>. QED
    BY <2>1, <2>2, <2>3, <2>4, <2>5, <2>6
<1>. QED
  BY <1>1, <1>5, <1>6

LEMMA AppendInv ==
  ASSUME IInv, NEW t \in Txn, AppendEntry(t)
  PROVE  IInv'
<1> USE DEF IInv
<1> DEFINE a == AccountOf[t]
           n == NewRow(t)
<1>1. /\ status[t] = "active" /\ pc[t] = "append"
      /\ rows' = rows \cup {n}
      /\ nextSeq' = nextSeq + 1
      /\ UNCHANGED <<holder, status, calls>>
      /\ Return(t)
  BY DEF AppendEntry, Inserted
<1>2. a \in Account /\ holder[LockKey[a]] = t /\ a = AccountOf[t]
  BY <1>1, AccountOfAssumption DEF Holding, AccountOfAssumption
<1>3. call[t] \in Call /\ call[t].amount \in Int /\ call[t].amount > 0
  BY <1>1, AmountAssumption DEF CallAccepted, TypeOK, Call, AmountAssumption
<1>4. Delta(call[t]) \in Int \ {0} /\ balance[t] \in Int
  BY <1>3 DEF TypeOK, Delta
<1>5. /\ n \in Row /\ n.seq = nextSeq /\ n.account = a /\ n.txn = t
      /\ n.delta = Delta(call[t])
      /\ n.balance_after = balance[t] + Delta(call[t])
  <2> HIDE DEF a
  <2>. QED
    BY <1>2, <1>3, <1>4 DEF NewRow, Row, TypeOK, Call
<1> HIDE DEF n, a
<1>6. \A r \in rows : r \in Row /\ r.seq \in Nat /\ r.seq < nextSeq
  BY DEF TypeOK, Row, RowsOwned
<1>7. TypeOK'
  BY <1>1, <1>5, NoCallType DEF TypeOK, Return
<1>8. OutsideCalls' /\ CallAccepted' /\ Covered' /\ Holding'
  BY <1>1 DEF TypeOK, OutsideCalls, CallAccepted, Covered, Holding, Return
<1>9. RowsOwned'
  BY <1>1, <1>2, <1>5, <1>6 DEF TypeOK, RowsOwned
<1>10. SeqUnique'
  BY <1>1, <1>5, <1>6 DEF SeqUnique
<1>11. PendingLast'
  BY <1>1, <1>5, <1>6 DEF PendingLast
<1>12. Abstract!ShowsBalance(RowsOf(a), balance[t])
  BY <1>1, <1>2 DEF ReadIsCurrent
<1>13. ChainedRows'
  <2>1. RowsOf(a)' = RowsOf(a) \cup {n}
    BY <1>1, <1>5 DEF RowsOf
  <2>2. Abstract!Chained(RowsOf(a))
    BY <1>2 DEF ChainedRows
  <2>3. \A x \in RowsOf(a) : x.seq \in Nat /\ x.seq < n.seq
    BY <1>5, <1>6 DEF RowsOf
  <2>4. \A x, y \in RowsOf(a) : x.seq = y.seq => x = y
    BY DEF RowsOf, SeqUnique
  <2>5. n.seq \in Nat /\ n.delta \in Int
    BY <1>4, <1>5 DEF TypeOK
  <2>6. Abstract!Chained(RowsOf(a) \cup {n})
    <3> HIDE DEF IInv
    <3>. QED
      BY <1>4, <1>5, <1>12, <2>2, <2>3, <2>4, <2>5, ChainGrows
  <2>7. \A c \in Account : c # a => RowsOf(c)' = RowsOf(c)
    BY <1>1, <1>5 DEF RowsOf
  <2>. QED
    BY <2>1, <2>6, <2>7 DEF ChainedRows
<1>14. ReadIsCurrent'
  <2> SUFFICES ASSUME NEW u \in Txn, status[u] = "active", pc'[u] = "append"
               PROVE  Abstract!ShowsBalance(RowsOf(AccountOf[u]), balance[u])'
    BY <1>1 DEF ReadIsCurrent
  <2>1. u # t /\ pc[u] = "append" /\ balance'[u] = balance[u]
    BY <1>1 DEF TypeOK, Return
  <2>2. AccountOf[u] # a
    BY <1>2, <2>1 DEF Holding
  <2>3. RowsOf(AccountOf[u])' = RowsOf(AccountOf[u])
    BY <1>1, <1>5, <2>2 DEF RowsOf
  <2>. QED
    BY <2>1, <2>3 DEF ReadIsCurrent
<1>15. NeverNegative'
  <2>1. balance[t] >= 0
    BY <1>12 DEF Abstract!ShowsBalance, NeverNegative, RowsOf
  <2>2. call[t].kind = "debit" => balance[t] >= call[t].amount
    BY <1>1, <1>3, <1>4 DEF Covered, Refused
  <2>3. call[t].kind \in {"credit", "debit"}
    BY <1>3 DEF Call
  <2>4. balance[t] + Delta(call[t]) >= 0
    BY <1>3, <1>4, <2>1, <2>2, <2>3 DEF Delta
  <2>. QED
    BY <1>1, <1>5, <2>4 DEF NeverNegative
<1>. QED
  BY <1>7, <1>8, <1>9, <1>10, <1>11, <1>13, <1>14, <1>15

LEMMA CommitInv ==
  ASSUME IInv, NEW t \in Txn, Commit(t)
  PROVE  IInv'
<1> USE DEF IInv, Commit
<1>1. \A k \in Key : holder'[k] = IF holder[k] = t THEN None ELSE holder[k]
  BY DEF Release
<1>2. TypeOK'
  BY DEF TypeOK, Release
<1>3. OutsideCalls' /\ CallAccepted' /\ Covered'
  BY DEF TypeOK, OutsideCalls, CallAccepted, Covered
<1>4. \A u \in Txn : LockKey[AccountOf[u]] \in Key
  BY LockKeyAssumption, AccountOfAssumption
  DEF LockKeyAssumption, AccountOfAssumption
<1>5. Holding'
  BY <1>1, <1>4 DEF TypeOK, Holding
<1>6. RowsOwned'
  BY <1>1, <1>4 DEF TypeOK, RowsOwned, Row
<1>7. SeqUnique'
  BY DEF SeqUnique
<1>8. PendingLast'
  <2> SUFFICES ASSUME NEW r \in rows, NEW s \in rows, r.account = s.account,
                      status'[r.txn] = "committed", status'[s.txn] = "active"
               PROVE  r.seq < s.seq
    BY DEF PendingLast
  <2>1. r.txn \in Txn /\ s.txn \in Txn
    BY DEF TypeOK, Row
  <2>2. s.txn # t /\ status[s.txn] = "active"
    BY <2>1 DEF TypeOK
  <2>3. r.txn # t
    BY <2>2 DEF RowsOwned
  <2>4. status[r.txn] = "committed"
    BY <2>1, <2>3 DEF TypeOK
  <2>. QED
    BY <2>2, <2>4 DEF PendingLast
<1>9. ChainedRows' /\ NeverNegative'
  BY DEF ChainedRows, NeverNegative, RowsOf
<1>10. ReadIsCurrent'
  BY DEF TypeOK, ReadIsCurrent, RowsOf
<1>. QED
  BY <1>2, <1>3, <1>5, <1>6, <1>7, <1>8, <1>9, <1>10

LEMMA RollbackInv ==
  ASSUME IInv, NEW t \in Txn, Rollback(t)
  PROVE  IInv'
<1> USE DEF IInv, Rollback, Return
<1>1. \A k \in Key : holder'[k] = IF holder[k] = t THEN None ELSE holder[k]
  BY DEF Release
<1>2. TypeOK'
  BY NoCallType DEF TypeOK, Release
<1>3. OutsideCalls' /\ CallAccepted' /\ Covered'
  BY DEF TypeOK, OutsideCalls, CallAccepted, Covered
<1>4. \A u \in Txn : LockKey[AccountOf[u]] \in Key
  BY LockKeyAssumption, AccountOfAssumption
  DEF LockKeyAssumption, AccountOfAssumption
<1>5. Holding'
  BY <1>1, <1>4 DEF TypeOK, Holding
<1>6. RowsOwned'
  BY <1>1, <1>4 DEF TypeOK, RowsOwned, Row
<1>7. SeqUnique' /\ NeverNegative'
  BY DEF SeqUnique, NeverNegative
<1>8. PendingLast'
  BY DEF TypeOK, PendingLast, Row
<1>9. ChainedRows'
  <2> SUFFICES ASSUME NEW a \in Account
               PROVE  Abstract!Chained(RowsOf(a)')
    BY DEF ChainedRows
  <2>1. RowsOf(a)' = {r \in RowsOf(a) : r.txn # t}
    BY DEF RowsOf
  <2>2. \A x \in RowsOf(a) : x.seq \in Nat
    BY DEF RowsOf, TypeOK, Row
  <2>3. \A x \in RowsOf(a)', y \in RowsOf(a) \ RowsOf(a)' : x.seq < y.seq
    <3> SUFFICES ASSUME NEW x \in rows, NEW y \in rows,
                        x.account = a, y.account = a, x.txn # t, y.txn = t
                 PROVE  x.seq < y.seq
      BY <2>1 DEF RowsOf
    <3>1. status[y.txn] = "active" /\ holder[LockKey[a]] = t
      BY DEF RowsOwned
    <3>2. status[x.txn] = "committed"
      BY <3>1 DEF RowsOwned
    <3>. QED
      BY <3>1, <3>2 DEF PendingLast
  <2>4. Abstract!Chained(RowsOf(a))
    BY DEF ChainedRows
  <2>. QED
    <3> HIDE DEF IInv, Rollback, Return
    <3>1. RowsOf(a)' \in SUBSET RowsOf(a)
      BY <2>1
    <3>. QED
      BY <2>2, <2>3, <2>4, <3>1, ChainPrefix
<1>10. ReadIsCurrent'
  <2> SUFFICES ASSUME NEW u \in Txn, status'[u] = "active", pc'[u] = "append"
               PROVE  Abstract!ShowsBalance(RowsOf(AccountOf[u]), balance[u])'
    BY DEF ReadIsCurrent
  <2>1. u # t /\ status[u] = "active" /\ pc[u] = "append" /\ balance'[u] = balance[u]
    BY DEF TypeOK
  <2>2. holder[LockKey[AccountOf[u]]] = u
    BY <2>1 DEF Holding
  <2>3. \A r \in rows : r.account = AccountOf[u] => r.txn # t
    BY <2>1, <2>2 DEF RowsOwned
  <2>4. RowsOf(AccountOf[u])' = RowsOf(AccountOf[u])
    BY <2>3 DEF RowsOf
  <2>. QED
    BY <2>1, <2>4 DEF ReadIsCurrent
<1>. QED
  BY <1>2, <1>3, <1>5, <1>6, <1>7, <1>8, <1>9, <1>10

LEMMA NextInv == IInv /\ [Next]_vars => IInv'
<1> SUFFICES ASSUME IInv, [Next]_vars PROVE IInv'
  OBVIOUS
<1>1. CASE UNCHANGED vars
  BY <1>1 DEF vars, IInv, TypeOK, OutsideCalls, CallAccepted, Covered, Holding,
     RowsOwned, SeqUnique, PendingLast, ChainedRows, ReadIsCurrent,
     NeverNegative, RowsOf
<1>2. ASSUME NEW t \in Txn, Step(t) PROVE IInv'
  BY <1>2, EnterInv, LockInv, ReadBalanceInv, AppendInv, CommitInv, RollbackInv
  DEF Step
<1>. QED
  BY <1>1, <1>2 DEF Next

(* The inductive invariant holds in every reachable state. *)
THEOREM Invariant == Spec => []IInv
BY InitInv, NextInv, PTL DEF Spec

(* The ledger's state always has its types; in particular every row has a   *)
(* non-zero delta and belongs to a known account and transaction.           *)
THEOREM TypeCorrect == Spec => []TypeOK
<1>1. IInv => TypeOK
  BY DEF IInv
<1>. QED
  BY <1>1, Invariant, PTL

(* credit() and debit() never work on a stale balance, for any number of    *)
(* sessions and whatever the lock keys are.                                 *)
THEOREM NoStaleRead == Spec => []ReadIsCurrent
<1>1. IInv => ReadIsCurrent
  BY DEF IInv
<1>. QED
  BY <1>1, Invariant, PTL

(* No sequence of concurrent debits overdraws an account. *)
THEOREM NoOverdraft == Spec => []NeverNegative
<1>1. IInv => NeverNegative
  BY DEF IInv
<1>. QED
  BY <1>1, Invariant, PTL

-----------------------------------------------------------------------------
(* Only a commit changes what is committed, and it adds the rows of one     *)
(* transaction after all the others of their account.                       *)

LEMMA UnseenStep ==
  ASSUME IInv, NEW t \in Txn, Step(t), ~Commit(t)
  PROVE  \A a \in Account : Committed(a)' = Committed(a)
<1>1. ASSUME NEW c \in Call, Enter(t, c)
      PROVE  \A a \in Account : Committed(a)' = Committed(a)
  BY <1>1 DEF IInv, TypeOK, Row, Enter, Committed, RowsOf
<1>2. CASE Lock(t)
  BY <1>2 DEF Lock, Committed, RowsOf
<1>3. CASE ReadBalance(t)
  BY <1>3 DEF ReadBalance, Committed, RowsOf
<1>4. CASE AppendEntry(t)
  BY <1>4 DEF AppendEntry, Inserted, NewRow, Committed, RowsOf
<1>5. CASE Rollback(t)
  BY <1>5 DEF IInv, TypeOK, Row, RowsOwned, Rollback, Committed, RowsOf
<1>. QED
  BY <1>1, <1>2, <1>3, <1>4, <1>5 DEF Step

LEMMA CommitPosts ==
  ASSUME IInv, NEW t \in Txn, Commit(t)
  PROVE  Abstract!Post(AccountOf[t])
<1> DEFINE a == AccountOf[t]
<1> USE DEF IInv
<1>1. a \in Account
  BY AccountOfAssumption DEF AccountOfAssumption
<1>2. \A r \in rows : r.txn \in Txn /\ r.seq \in Nat /\ r.account = AccountOf[r.txn]
  BY DEF TypeOK, Row, RowsOwned
<1>3. \A c \in Account :
        Committed(c)' = Committed(c) \cup {r \in RowsOf(c) : r.txn = t}
  BY <1>2 DEF Commit, TypeOK, Committed, RowsOf
<1>4. \A c \in Account \ {a} : Committed(c)' = Committed(c)
  BY <1>2, <1>3 DEF RowsOf
<1>5. \A r \in rows : r.txn = t => status[r.txn] = "active"
  BY DEF Commit
<1>6. Abstract!Extends(Committed(a), Committed(a)')
  BY <1>1, <1>3, <1>5 DEF PendingLast, Committed, RowsOf, Abstract!Extends
<1>7. Abstract!Chained(Committed(a)')
  <2>1. Committed(a)' \in SUBSET RowsOf(a)
    BY <1>1, <1>3 DEF Committed, RowsOf
  <2>2. \A x \in RowsOf(a) : x.seq \in Nat
    BY <1>2 DEF RowsOf
  <2>3. \A x \in Committed(a)', y \in RowsOf(a) \ Committed(a)' : x.seq < y.seq
    <3> SUFFICES ASSUME NEW x \in Committed(a)', NEW y \in RowsOf(a) \ Committed(a)'
                 PROVE  x.seq < y.seq
      OBVIOUS
    <3>1. y \in rows /\ y.account = a /\ y.txn # t /\ status[y.txn] # "committed"
      BY <1>1, <1>3 DEF Committed, RowsOf
    <3>2. status[y.txn] = "active" /\ holder[LockKey[a]] = y.txn
      BY <3>1 DEF RowsOwned
    <3>3. x \in rows /\ x.account = a
      BY <2>1 DEF RowsOf
    <3>4. x.txn # t
      BY <1>5, <3>1, <3>2, <3>3 DEF RowsOwned
    <3>5. status[x.txn] = "committed"
      BY <1>1, <1>3, <3>4 DEF Committed, RowsOf
    <3>. QED
      BY <3>1, <3>2, <3>3, <3>5 DEF PendingLast
  <2>4. Abstract!Chained(RowsOf(a))
    BY <1>1 DEF ChainedRows
  <2>. QED
    <3> HIDE DEF IInv, a
    <3>. QED
      BY <2>1, <2>2, <2>3, <2>4, ChainPrefix
<1>8. Abstract!NeverOverdrawn(Committed(a)')
  BY <1>1, <1>3 DEF NeverNegative, Committed, RowsOf, Abstract!NeverOverdrawn
<1>9. \A c \in Account :
        CommittedBook[c] = Committed(c) /\ CommittedBook'[c] = Committed(c)'
  BY DEF CommittedBook
<1>. QED
  BY <1>1, <1>4, <1>6, <1>7, <1>8, <1>9 DEF Abstract!Post

LEMMA StepPosts ==
  IInv /\ [Next]_vars =>
    \/ \E a \in Account : Abstract!Post(a)
    \/ \A a \in Account : Committed(a)' = Committed(a)
<1> SUFFICES ASSUME IInv, [Next]_vars
             PROVE  \/ \E a \in Account : Abstract!Post(a)
                    \/ \A a \in Account : Committed(a)' = Committed(a)
  OBVIOUS
<1>1. CASE UNCHANGED vars
  BY <1>1 DEF vars, Committed, RowsOf
<1>2. ASSUME NEW t \in Txn, Step(t), Commit(t)
      PROVE  \E a \in Account : Abstract!Post(a)
  BY <1>2, CommitPosts, AccountOfAssumption DEF AccountOfAssumption
<1>3. ASSUME NEW t \in Txn, Step(t), ~Commit(t)
      PROVE  \A a \in Account : Committed(a)' = Committed(a)
  BY <1>3, UnseenStep
<1>. QED
  BY <1>1, <1>2, <1>3 DEF Next

(* Committed entries are never changed or removed and become visible in seq *)
(* order, for any interleaving of sessions, commits and rollbacks.          *)
THEOREM AppendOnlyLedger == Spec => AppendOnly
<1>1. IInv /\ [Next]_vars => CommittedInSeqOrder
  <2> SUFFICES ASSUME IInv, [Next]_vars, NEW c \in Account
               PROVE  Abstract!Extends(Committed(c), Committed(c)')
    BY DEF CommittedInSeqOrder
  <2>1. CASE Committed(c)' = Committed(c)
    BY <2>1 DEF Abstract!Extends
  <2>2. ASSUME NEW a \in Account, Abstract!Post(a)
        PROVE  Abstract!Extends(Committed(c), Committed(c)')
    <3>1. /\ CommittedBook[c] = Committed(c)
          /\ CommittedBook'[c] = Committed(c)'
      BY DEF CommittedBook
    <3>2. CASE c = a
      BY <2>2, <3>1, <3>2 DEF Abstract!Post
    <3>3. CASE c # a
      BY <2>1, <2>2, <3>1, <3>3 DEF Abstract!Post
    <3>. QED
      BY <3>2, <3>3
  <2>. QED
    BY <2>1, <2>2, StepPosts
<1>. QED
  BY <1>1, Invariant, PTL DEF Spec, AppendOnly

(* The concurrent ledger implements the atomic account. *)
THEOREM LedgerImplementsAccount == Spec => ImplementsAccount
<1>1. Init => Abstract!Init
  BY DEF Init, Abstract!Init, CommittedBook, Committed, RowsOf
<1>2. IInv /\ [Next]_vars => [Abstract!Next]_CommittedBook
  BY StepPosts DEF Abstract!Next, CommittedBook
<1>. QED
  BY <1>1, <1>2, Invariant, PTL DEF Spec, ImplementsAccount, Abstract!Spec

-----------------------------------------------------------------------------
(* Sums of entries. *)

(* Every nonempty family of subsets of T has a least one: T is finite.      *)
Founded(T) ==
  \A F \in SUBSET SUBSET T : F # {} => \E m \in F : \A s \in F : s \subseteq m => s = m

(* Finiteness in these words is kept by every step: it is what the proofs   *)
(* about sums use in place of an induction over sets.                       *)
LEMMA FoundedEmpty == Founded({})
BY DEF Founded

(* So is a part of a finite set. *)
LEMMA FoundedSubset ==
  ASSUME NEW T, Founded(T), NEW S \in SUBSET T
  PROVE  Founded(S)
BY DEF Founded

(* And a finite set with one more element. *)
LEMMA FoundedGrows ==
  ASSUME NEW T, NEW n, Founded(T)
  PROVE  Founded(T \cup {n})
<1>. SUFFICES ASSUME NEW F \in SUBSET SUBSET (T \cup {n}), F # {}
              PROVE  \E m \in F : \A s \in F : s \subseteq m => s = m
  BY DEF Founded
<1>1. CASE \E s \in F : n \notin s
  <2>. DEFINE G == {s \in F : n \notin s}
  <2>1. G \in SUBSET SUBSET T /\ G # {}
    BY <1>1
  <2>2. PICK m \in G : \A s \in G : s \subseteq m => s = m
    BY <2>1 DEF Founded
  <2>. QED
    BY <2>2
<1>2. CASE \A s \in F : n \in s
  <2>. DEFINE G == {s \ {n} : s \in F}
  <2>1. G \in SUBSET SUBSET T /\ G # {}
    <3>1. \A s \in F : s \ {n} \in SUBSET T
      OBVIOUS
    <3>. QED
      BY <3>1
  <2>2. PICK g \in G : \A s \in G : s \subseteq g => s = g
    BY <2>1 DEF Founded
  <2>3. PICK m \in F : g = m \ {n}
    BY <2>2
  <2>4. ASSUME NEW s \in F, s \subseteq m PROVE s = m
    <3>1. s \ {n} \in G /\ s \ {n} \subseteq g
      BY <2>3, <2>4
    <3>2. s \ {n} = g
      BY <2>2, <3>1
    <3>. QED
      BY <1>2, <2>3, <3>2
  <2>. QED
    BY <2>4
<1>. QED
  BY <1>1, <1>2

(* A set of rows has a last one. *)
LEMMA LastOf ==
  ASSUME NEW T, Founded(T), \A x \in T : x.seq \in Nat, T # {}
  PROVE  \E e \in T : \A x \in T : x.seq <= e.seq
<1>. DEFINE HasLast(S) == \E e \in S : \A x \in S : x.seq <= e.seq
            F == {S \in SUBSET T : S # {} /\ ~HasLast(S)}
<1>1. SUFFICES ASSUME F # {} PROVE FALSE
  <2>. QED
    BY <1>1
<1>2. PICK m \in F : \A s \in F : s \subseteq m => s = m
  <2>. HIDE DEF HasLast
  <2>1. F \in SUBSET SUBSET T
    OBVIOUS
  <2>. HIDE DEF F
  <2>. QED
    BY <1>1, <2>1 DEF Founded
<1>3. PICK y \in m : TRUE
  BY <1>2
<1>4. m \ {y} # {}
  BY <1>2, <1>3
<1>5. m \ {y} \notin F
  BY <1>2, <1>3
<1>6. PICK e \in m \ {y} : \A x \in m \ {y} : x.seq <= e.seq
  BY <1>2, <1>4, <1>5
<1>7. CASE y.seq <= e.seq
  BY <1>2, <1>6, <1>7
<1>8. CASE ~(y.seq <= e.seq)
  <2>1. \A x \in m : x.seq <= y.seq
    BY <1>2, <1>3, <1>6, <1>8
  <2>. QED
    BY <1>2, <1>3, <2>1
<1>. QED
  BY <1>7, <1>8

(* f adds up the deltas of the subsets of T, in any order. *)
Adds(T, f) ==
  /\ f \in [SUBSET T -> Int]
  /\ f[{}] = 0
  /\ \A s \in SUBSET T : \A x \in s : f[s] = x.delta + f[s \ {x}]

(* The sums with one more entry n, from those without it. *)
Plus(T, f, n) ==
  [s \in SUBSET (T \cup {n}) |-> IF n \in s THEN n.delta + f[s \ {n}] ELSE f[s]]

(* They add up, too. *)
LEMMA AddsGrows ==
  ASSUME NEW T, NEW n, n.delta \in Int, n \notin T, \A x \in T : x.delta \in Int,
         NEW f, Adds(T, f)
  PROVE  Adds(T \cup {n}, Plus(T, f, n))
<1>. DEFINE U == T \cup {n}
            g == [s \in SUBSET U |-> IF n \in s THEN n.delta + f[s \ {n}] ELSE f[s]]
<1>1. \A s \in SUBSET U : s \ {n} \in SUBSET T /\ (n \notin s => s \in SUBSET T)
  OBVIOUS
<1>2. /\ \A s \in SUBSET T : f[s] \in Int
      /\ \A s \in SUBSET T : \A x \in s : f[s] = x.delta + f[s \ {x}]
      /\ f[{}] = 0
  BY DEF Adds
<1>3. g \in [SUBSET U -> Int]
  BY <1>1, <1>2
<1>4. g[{}] = 0
  BY <1>2
<1>5. ASSUME NEW s \in SUBSET U, NEW x \in s PROVE g[s] = x.delta + g[s \ {x}]
  <2>1. s \ {x} \in SUBSET U
    OBVIOUS
  <2>2. CASE x = n
    BY <2>1, <2>2
  <2>3. CASE x # n /\ n \in s
    <3>1. x \in s \ {n} /\ s \ {n} \in SUBSET T /\ (s \ {n}) \ {x} = (s \ {x}) \ {n}
          /\ (s \ {x}) \ {n} \in SUBSET T /\ x \in T
      BY <2>3
    <3>2. f[s \ {n}] = x.delta + f[(s \ {x}) \ {n}]
      BY <1>2, <3>1
    <3>3. f[(s \ {x}) \ {n}] \in Int /\ x.delta \in Int
      BY <1>2, <3>1
    <3>4. g[s] = n.delta + f[s \ {n}] /\ g[s \ {x}] = n.delta + f[(s \ {x}) \ {n}]
      BY <2>1, <2>3
    <3>. HIDE DEF g
    <3>. QED
      BY <3>2, <3>3, <3>4
  <2>4. CASE n \notin s
    BY <1>2, <2>1, <2>4
  <2>. QED
    BY <2>2, <2>3, <2>4
<1>. QED
  BY <1>3, <1>4, <1>5 DEF Adds, Plus

(* A finite set has sums that do not depend on the order. *)
LEMMA AddsExists ==
  ASSUME NEW T, Founded(T), \A x \in T : x.delta \in Int
  PROVE  \E f : Adds(T, f)
<1>. DEFINE F == {s \in SUBSET T : ~\E f : Adds(s, f)}
<1>1. SUFFICES ASSUME F # {} PROVE FALSE
  BY <1>1
<1>2. PICK m \in F : \A s \in F : s \subseteq m => s = m
  <2>1. F \in SUBSET SUBSET T
    OBVIOUS
  <2>. HIDE DEF F
  <2>. QED
    BY <1>1, <2>1 DEF Founded
<1>3. m # {}
  <2>1. Adds({}, [s \in SUBSET {} |-> 0])
    BY DEF Adds
  <2>. QED
    BY <1>2, <2>1
<1>4. PICK n \in m : TRUE
  BY <1>3
<1>5. PICK f : Adds(m \ {n}, f)
  BY <1>2, <1>4
<1>6. \E g : Adds((m \ {n}) \cup {n}, g)
  BY <1>2, <1>5, AddsGrows
<1>7. (m \ {n}) \cup {n} = m
  BY <1>4
<1>. QED
  BY <1>2, <1>6, <1>7

(* Total takes the elements in the order CHOOSE does: it is that sum. *)
LEMMA TotalAdds ==
  ASSUME NEW T, Founded(T), \A x \in T : x.delta \in Int, NEW f, Adds(T, f)
  PROVE  Total(T) = f[T]
<1>. DEFINE Is(g) == g = [s \in SUBSET T |-> IF s = {} THEN 0
                            ELSE LET x == CHOOSE x \in s : TRUE IN x.delta + g[s \ {x}]]
            iter == CHOOSE g : Is(g)
<1>1. Total(T) = iter[T]
  BY DEF Total, MapThenSumSet, MapThenFoldSet
<1>2. Is(f)
  <2>1. \A s \in SUBSET T : s # {} => (CHOOSE x \in s : TRUE) \in s
    OBVIOUS
  <2>. QED
    BY <2>1 DEF Adds
<1>3. Is(iter)
  <2>. HIDE DEF Is
  <2>. QED
    BY <1>2
<1>. HIDE DEF iter
<1>4. \A s \in SUBSET T : iter[s] = f[s]
  <2>. DEFINE F == {s \in SUBSET T : iter[s] # f[s]}
  <2>1. SUFFICES ASSUME F # {} PROVE FALSE
    BY <2>1
  <2>2. PICK m \in F : \A s \in F : s \subseteq m => s = m
    <3>1. F \in SUBSET SUBSET T
      OBVIOUS
    <3>. HIDE DEF F
    <3>. QED
      BY <2>1, <3>1 DEF Founded
  <2>3. m # {}
    <3>1. iter[{}] = 0 /\ f[{}] = 0
      BY <1>3 DEF Adds
    <3>. QED
      BY <2>2, <3>1
  <2>. DEFINE y == CHOOSE x \in m : TRUE
  <2>4. y \in m /\ m \ {y} \in SUBSET T /\ m \ {y} \notin F
    BY <2>2, <2>3
  <2>5. iter[m] = y.delta + iter[m \ {y}]
    BY <1>3, <2>2, <2>3
  <2>. HIDE DEF y
  <2>6. f[m] = y.delta + f[m \ {y}]
    BY <2>2, <2>4 DEF Adds
  <2>. QED
    BY <2>2, <2>4, <2>5, <2>6
<1>. QED
  BY <1>1, <1>4

(* No entries, no balance. *)
LEMMA TotalOfNone == Total({}) = 0
BY DEF Total, MapThenSumSet, MapThenFoldSet

(* One more entry adds its delta. *)
LEMMA TotalGrows ==
  ASSUME NEW S, NEW n, Founded(S), n \notin S, n.delta \in Int, \A x \in S : x.delta \in Int
  PROVE  Total(S) \in Int /\ Total(S \cup {n}) = Total(S) + n.delta
<1>. DEFINE U == S \cup {n}
<1>1. PICK f : Adds(S, f)
  BY AddsExists
<1>. DEFINE g == Plus(S, f, n)
<1>2. Adds(U, g)
  BY <1>1, AddsGrows
<1>3. Founded(U)
  BY FoundedGrows
<1>4. Total(S) = f[S] /\ f[S] \in Int
  BY <1>1, TotalAdds DEF Adds
<1>5. g[U] = n.delta + f[S]
  <2>1. U \ {n} = S /\ U \in SUBSET U /\ n \in U
    OBVIOUS
  <2>. QED
    BY <2>1 DEF Plus
<1>6. Total(U) = g[U]
  <2>. HIDE DEF g
  <2>. QED
    BY <1>2, <1>3, TotalAdds
<1>. QED
  BY <1>4, <1>5, <1>6

-----------------------------------------------------------------------------
(* The balance is the sum. *)

(* Each entry shows the sum of its account's movements up to it.            *)
UpTo(r) == {x \in rows : x.account = r.account /\ x.seq <= r.seq}

RunningSum == \A r \in rows : r.balance_after = Total(UpTo(r))

SumInv == IInv /\ Founded(rows) /\ RunningSum

(* There are no rows at the beginning. *)
LEMMA InitSums == Init => SumInv
BY InitInv, FoundedEmpty DEF Init, SumInv, RunningSum

(* The entry that is inserted adds its delta to the sum of all before it.   *)
LEMMA AppendSums ==
  ASSUME SumInv, NEW t \in Txn, AppendEntry(t), IInv'
  PROVE  SumInv'
<1>. DEFINE a == AccountOf[t]
<1>0. PICK n : n = NewRow(t)
  OBVIOUS
<1>1. /\ rows' = rows \cup {n} /\ n.seq = nextSeq /\ n.account = a
      /\ n.balance_after = balance[t] + n.delta
      /\ status[t] = "active" /\ pc[t] = "append"
  BY <1>0 DEF AppendEntry, Inserted, NewRow
<1>2. /\ \A x \in rows : x.seq \in Nat /\ x.seq < nextSeq /\ x.delta \in Int /\ x.account \in Account
      /\ nextSeq \in Nat /\ balance[t] \in Int
  BY DEF SumInv, IInv, TypeOK, Row, RowsOwned
<1>3. n.delta \in Int
  BY <1>1 DEF IInv, TypeOK, Row
<1>4. Founded(rows) /\ Founded(rows')
  BY <1>1, FoundedGrows DEF SumInv
<1>5. ASSUME NEW r \in rows PROVE r.balance_after = Total(UpTo(r)')
  <2>1. UpTo(r)' = UpTo(r)
    BY <1>1, <1>2 DEF UpTo
  <2>. QED
    BY <2>1 DEF SumInv, RunningSum
<1>6. n.balance_after = Total(UpTo(n)')
  <2>1. UpTo(n)' = RowsOf(a) \cup {n} /\ n \notin RowsOf(a)
    BY <1>1, <1>2 DEF UpTo, RowsOf
  <2>2. Founded(RowsOf(a)) /\ \A x \in RowsOf(a) : x.delta \in Int
    BY <1>2, <1>4, FoundedSubset DEF RowsOf
  <2>3. Total(RowsOf(a) \cup {n}) = Total(RowsOf(a)) + n.delta
    BY <1>3, <2>1, <2>2, TotalGrows
  <2>4. Abstract!ShowsBalance(RowsOf(a), balance[t])
    BY <1>1 DEF SumInv, IInv, ReadIsCurrent
  <2>5. balance[t] = Total(RowsOf(a))
    <3>1. CASE RowsOf(a) = {}
      BY <2>4, <3>1, TotalOfNone DEF Abstract!ShowsBalance
    <3>2. CASE RowsOf(a) # {}
      <4>1. PICK e \in RowsOf(a) : e.balance_after = balance[t] /\ \A x \in RowsOf(a) : x.seq <= e.seq
        BY <2>4, <3>2 DEF Abstract!ShowsBalance
      <4>2. UpTo(e) = RowsOf(a) /\ e \in rows
        BY <4>1 DEF UpTo, RowsOf
      <4>. QED
        BY <4>1, <4>2 DEF SumInv, RunningSum
    <3>. QED
      BY <3>1, <3>2
  <2>. QED
    BY <1>1, <2>1, <2>3, <2>5
<1>. QED
  BY <1>1, <1>4, <1>5, <1>6 DEF SumInv, RunningSum

(* What a rollback takes away comes after all that stays.                   *)
LEMMA RollbackSums ==
  ASSUME SumInv, NEW t \in Txn, Rollback(t), IInv'
  PROVE  SumInv'
<1>1. rows' = {r \in rows : r.txn # t} /\ status[t] = "active"
  BY DEF Rollback
<1>2. Founded(rows')
  BY <1>1, FoundedSubset DEF SumInv
<1>3. ASSUME NEW r \in rows' PROVE UpTo(r)' = UpTo(r)
  <2>1. ASSUME NEW x \in rows, x.account = r.account, x.seq <= r.seq PROVE x.txn # t
    <3>1. SUFFICES ASSUME x.txn = t PROVE FALSE
      OBVIOUS
    <3>2. status[x.txn] = "active" /\ holder[LockKey[r.account]] = t
      BY <1>1, <2>1, <3>1 DEF SumInv, IInv, RowsOwned
    <3>3. r \in rows /\ r.txn # t /\ status[r.txn] = "committed"
      BY <1>1, <3>2 DEF SumInv, IInv, RowsOwned
    <3>4. r.seq < x.seq /\ r.seq \in Nat /\ x.seq \in Nat
      BY <2>1, <3>2, <3>3 DEF SumInv, IInv, PendingLast, TypeOK, Row
    <3>. QED
      BY <2>1, <3>4
  <2>. QED
    BY <1>1, <2>1 DEF UpTo
<1>. QED
  BY <1>1, <1>2, <1>3 DEF SumInv, RunningSum

(* The other statements leave the rows alone. *)
LEMMA NextSums == SumInv /\ [Next]_vars => SumInv'
<1>. SUFFICES ASSUME SumInv, [Next]_vars PROVE SumInv'
  OBVIOUS
<1>1. IInv'
  BY NextInv DEF SumInv
<1>2. ASSUME rows' = rows PROVE SumInv'
  BY <1>1, <1>2 DEF SumInv, RunningSum, UpTo
<1>3. ASSUME NEW t \in Txn, Step(t) PROVE SumInv'
  BY <1>1, <1>2, <1>3, AppendSums, RollbackSums
     DEF Step, Enter, Lock, ReadBalance, Commit
<1>. QED
  BY <1>2, <1>3 DEF Next, vars

(* The last committed entry shows the sum of them all. *)
LEMMA SumsShown == SumInv => BalanceIsSum
<1>. SUFFICES ASSUME SumInv, NEW a \in Account
              PROVE  Abstract!ShowsBalance(Committed(a), Total(Committed(a)))
  BY DEF BalanceIsSum
<1>1. CASE Committed(a) = {}
  BY <1>1, TotalOfNone DEF Abstract!ShowsBalance
<1>2. CASE Committed(a) # {}
  <2>1. Committed(a) \in SUBSET rows /\ \A x \in rows : x.seq \in Nat
    BY DEF Committed, RowsOf, SumInv, IInv, TypeOK, Row
  <2>2. Founded(Committed(a))
    BY <2>1, FoundedSubset DEF SumInv
  <2>3. PICK e \in Committed(a) : \A x \in Committed(a) : x.seq <= e.seq
    BY <1>2, <2>1, <2>2, LastOf
  <2>4. UpTo(e) = Committed(a)
    <3>1. e \in rows /\ e.account = a /\ status[e.txn] = "committed"
      BY <2>3 DEF Committed, RowsOf
    <3>2. ASSUME NEW x \in rows, x.account = a, x.seq <= e.seq
          PROVE  status[x.txn] = "committed"
      <4>1. status[x.txn] = "active" => e.seq < x.seq
        BY <3>1, <3>2 DEF SumInv, IInv, PendingLast
      <4>. QED
        BY <2>1, <3>1, <3>2, <4>1 DEF SumInv, IInv, RowsOwned
    <3>. QED
      BY <2>3, <3>1, <3>2 DEF UpTo, Committed, RowsOf
  <2>5. e.balance_after = Total(Committed(a))
    BY <2>1, <2>3, <2>4 DEF SumInv, RunningSum
  <2>. QED
    BY <2>3, <2>5 DEF Abstract!ShowsBalance
<1>. QED
  BY <1>1, <1>2

(* The balance an account shows is the sum of its committed movements: for  *)
(* any interleaving, no update of the running balance is lost.              *)
THEOREM NothingIsLost == Spec => []BalanceIsSum
BY InitSums, NextSums, SumsShown, PTL DEF Spec

-----------------------------------------------------------------------------
(* What a transaction has written so far, for the modules over the ledger.  *)
(* The entries of a transaction, committed or not, added up.                *)
Booked(t) == Total({r \in rows : r.txn = t})

(* Only an INSERT and a rollback change it, and only the transaction's own. *)
LEMMA BookedMoves ==
  ASSUME SumInv, NEW t \in Txn, Step(t), IInv'
  PROVE  /\ \A u \in Txn \ {t} : Booked(u)' = Booked(u)
         /\ AppendEntry(t) => Booked(t)' = Booked(t) + Delta(call[t])
         /\ Rollback(t) => Booked(t)' = 0
         /\ ~AppendEntry(t) /\ ~Rollback(t) => rows' = rows
<1>. DEFINE Own(u) == {r \in rows : r.txn = u}
<1>1. CASE AppendEntry(t)
  <2>1. PICK n : n = NewRow(t)
    OBVIOUS
  <2>2. /\ rows' = rows \cup {n} /\ n.seq = nextSeq /\ n.txn = t /\ n.delta = Delta(call[t])
        /\ pc[t] = "append"
    BY <1>1, <2>1 DEF AppendEntry, Inserted, NewRow
  <2>3. n.delta \in Int /\ \A x \in rows : x.delta \in Int /\ x.seq < nextSeq /\ nextSeq \in Nat
    BY <2>2 DEF SumInv, IInv, TypeOK, Row, RowsOwned
  <2>4. Own(t)' = Own(t) \cup {n} /\ n \notin Own(t)
    BY <2>2, <2>3
  <2>5. Founded(Own(t)) /\ \A x \in Own(t) : x.delta \in Int
    BY <2>3, FoundedSubset DEF SumInv
  <2>6. Total(Own(t) \cup {n}) = Total(Own(t)) + n.delta
    BY <2>3, <2>4, <2>5, TotalGrows
  <2>7. \A u \in Txn \ {t} : Own(u)' = Own(u)
    BY <2>2
  <2>8. ~Rollback(t)
    BY <2>2, <2>3 DEF Rollback
  <2>. QED
    BY <1>1, <2>2, <2>4, <2>6, <2>7, <2>8 DEF Booked
<1>2. CASE Rollback(t)
  <2>1. rows' = {r \in rows : r.txn # t}
    BY <1>2 DEF Rollback
  <2>2. Own(t)' = {} /\ \A u \in Txn \ {t} : Own(u)' = Own(u)
    BY <2>1
  <2>3. ~AppendEntry(t)
    <3>1. AppendEntry(t) => NewRow(t) \in rows' /\ NewRow(t).txn = t
      BY DEF AppendEntry, Inserted, NewRow
    <3>. QED
      BY <2>1, <3>1
  <2>. QED
    BY <1>2, <2>2, <2>3, TotalOfNone DEF Booked
<1>3. CASE ~AppendEntry(t) /\ ~Rollback(t)
  <2>1. rows' = rows
    BY <1>3 DEF Step, Enter, Lock, ReadBalance, Commit
  <2>. QED
    BY <1>3, <2>1 DEF Booked
<1>. QED
  BY <1>1, <1>2, <1>3

(* A statement moves its own transaction only. *)
LEMMA OthersUntouched ==
  ASSUME TypeOK, NEW t \in Txn, Step(t), NEW u \in Txn \ {t}
  PROVE  status'[u] = status[u] /\ pc'[u] = pc[u] /\ call'[u] = call[u]
BY DEF TypeOK, Step, Enter, Lock, ReadBalance, AppendEntry, Commit, Rollback, Return
-----------------------------------------------------------------------------
(* A balance taken apart, for the modules over the ledger. *)

(* The entries of a part and of the rest add up to the whole. *)
LEMMA TotalSplits ==
  ASSUME NEW T, Founded(T), \A x \in T : x.delta \in Int, NEW S \in SUBSET T
  PROVE  Total(S) \in Int /\ Total(T) = Total(S) + Total(T \ S)
<1>. DEFINE rest == T \ S
            F == {s \in SUBSET S : ~(Total(s) \in Int /\ Total(rest \cup s) = Total(rest) + Total(s))}
<1>0. \A s \in SUBSET T : Founded(s) /\ Total(s) \in Int
  <2>1. ASSUME NEW s \in SUBSET T PROVE Founded(s) /\ Total(s) \in Int
    <3>1. Founded(s) /\ \A x \in s : x.delta \in Int
      BY FoundedSubset
    <3>2. PICK f : Adds(s, f)
      BY <3>1, AddsExists
    <3>3. Total(s) = f[s] /\ f[s] \in Int
      BY <3>1, <3>2, TotalAdds DEF Adds
    <3>. QED
      BY <3>1, <3>3
  <2>. QED
    BY <2>1
<1>1. ASSUME F # {} PROVE FALSE
  <2>1. PICK m \in F : \A s \in F : s \subseteq m => s = m
    <3>1. F \in SUBSET SUBSET S /\ Founded(S)
      BY <1>0
    <3>. HIDE DEF F
    <3>. QED
      BY <1>1, <3>1 DEF Founded
  <2>2. m # {}
    <3>1. rest \in SUBSET T
      OBVIOUS
    <3>2. rest \cup {} = rest /\ Total(rest) \in Int
      BY <1>0, <3>1
    <3>. HIDE DEF rest
    <3>3. Total({}) \in Int /\ Total(rest \cup {}) = Total(rest) + Total({})
      BY <3>2, TotalOfNone
    <3>. QED
      BY <2>1, <3>3
  <2>3. PICK y \in m : TRUE
    BY <2>2
  <2>. DEFINE less == m \ {y}
  <2>4. less \notin F /\ less \in SUBSET S /\ y \notin less /\ less \cup {y} = m
        /\ y \notin rest \cup less /\ (rest \cup less) \cup {y} = rest \cup m
        /\ y.delta \in Int /\ less \in SUBSET T /\ rest \cup less \in SUBSET T
    BY <2>1, <2>3
  <2>5. Total(rest \cup less) = Total(rest) + Total(less)
    BY <2>4
  <2>. HIDE DEF less, rest
  <2>6. Total(m) = Total(less) + y.delta
    BY <1>0, <2>4, TotalGrows
  <2>7. Total(rest \cup m) = Total(rest \cup less) + y.delta
    BY <1>0, <2>4, TotalGrows
  <2>8. Total(rest) \in Int /\ Total(less) \in Int /\ Total(m) \in Int
    BY <1>0, <2>1, <2>4 DEF rest
  <2>. QED
    BY <2>1, <2>4, <2>5, <2>6, <2>7, <2>8
<1>2. rest \cup S = T /\ S \in SUBSET S
  OBVIOUS
<1>3. Total(T) = Total(rest) + Total(S) /\ Total(S) \in Int /\ Total(rest) \in Int
  BY <1>0, <1>1, <1>2
<1>. QED
  BY <1>3

(* Transactions that cancel out leave no trace in the balance. *)
LEMMA TotalCancels ==
  ASSUME NEW T, Founded(T), \A x \in T : x.delta \in Int,
         \A x \in T : Total({y \in T : y.txn = x.txn}) = 0
  PROVE  Total(T) = 0
<1>. DEFINE Whole(s) == \A x \in s, y \in T : y.txn = x.txn => y \in s
            F == {s \in SUBSET T : Whole(s) /\ Total(s) # 0}
<1>1. ASSUME F # {} PROVE FALSE
  <2>1. PICK m \in F : \A s \in F : s \subseteq m => s = m
    <3>1. F \in SUBSET SUBSET T
      OBVIOUS
    <3>. HIDE DEF F
    <3>. QED
      BY <1>1, <3>1 DEF Founded
  <2>2. PICK x \in m : TRUE
    BY <2>1, TotalOfNone
  <2>. DEFINE own == {y \in T : y.txn = x.txn}
  <2>3. own \in SUBSET m /\ Whole(m \ own) /\ m \ own \in SUBSET T /\ m \ own # m
    BY <2>1, <2>2
  <2>4. Total(m \ own) = 0
    BY <2>1, <2>3
  <2>5. Total(own) = 0
    BY <2>1, <2>2
  <2>6. Founded(m) /\ \A y \in m : y.delta \in Int
    BY <2>1, FoundedSubset
  <2>. HIDE DEF own
  <2>7. Total(m) = Total(own) + Total(m \ own)
    BY <2>3, <2>6, TotalSplits
  <2>. QED
    BY <2>1, <2>4, <2>5, <2>7
<1>2. Whole(T)
  OBVIOUS
<1>. QED
  BY <1>1, <1>2

(* A bill: one line for each of the jobs J, with what it adds to the balance. *)
Bill(J, price) == {[job |-> j, delta |-> price[j]] : j \in J}

LEMMA BillGrows ==
  ASSUME NEW J, NEW j, j \notin J, NEW price
  PROVE  /\ Bill(J \cup {j}, price) = Bill(J, price) \cup {[job |-> j, delta |-> price[j]]}
         /\ [job |-> j, delta |-> price[j]] \notin Bill(J, price)
<1>1. ASSUME NEW x PROVE x \in Bill(J \cup {j}, price)
                         <=> x \in Bill(J, price) \cup {[job |-> j, delta |-> price[j]]}
  BY DEF Bill
<1>2. \A x \in Bill(J, price) : x.job \in J
  BY DEF Bill
<1>3. [job |-> j, delta |-> price[j]].job = j
  OBVIOUS
<1>. QED
  BY <1>1, <1>2, <1>3

(* Transactions that come to a price each add up to the bill. *)
LEMMA TotalIsBill ==
  ASSUME NEW T, Founded(T), \A x \in T : x.delta \in Int,
         NEW J, Founded(J), NEW price, \A j \in J : price[j] \in Int,
         \A j \in J : Total({x \in T : x.txn = j}) = price[j],
         \A x \in T : x.txn \in J
  PROVE  Total(T) = Total(Bill(J, price))
<1>. DEFINE Own(K) == {x \in T : x.txn \in K}
            Good(K) == Founded(Bill(K, price)) /\ Total(Own(K)) = Total(Bill(K, price))
            F == {K \in SUBSET J : ~Good(K)}
<1>1. ASSUME F # {} PROVE FALSE
  <2>1. PICK m \in F : \A s \in F : s \subseteq m => s = m
    <3>1. F \in SUBSET SUBSET J
      OBVIOUS
    <3>. HIDE DEF F
    <3>. QED
      BY <1>1, <3>1 DEF Founded
  <2>2. Good({})
    <3>1. Bill({}, price) = {} /\ Own({}) = {}
      BY DEF Bill
    <3>. QED
      BY <3>1, FoundedEmpty
  <2>3. PICK j \in m : TRUE
    BY <2>1, <2>2
  <2>. DEFINE K == m \ {j}
              line == [job |-> j, delta |-> price[j]]
  <2>. HIDE DEF Good
  <2>4. m \in SUBSET J /\ K \in SUBSET J /\ K # m /\ j \in J /\ ~Good(m) /\ Good(K)
    BY <2>1, <2>3
  <2>5. /\ Bill(m, price) = Bill(K, price) \cup {line} /\ line \notin Bill(K, price)
        /\ line.delta = price[j] /\ \A x \in Bill(K, price) : x.delta \in Int
    <3>1. m = K \cup {j} /\ j \notin K /\ \A x \in K : price[x] \in Int
      BY <2>3, <2>4
    <3>. HIDE DEF K
    <3>2. \A x \in Bill(K, price) : x.delta \in Int
      BY <3>1 DEF Bill
    <3>. QED
      BY <3>1, <3>2, BillGrows
  <2>6. Own(K) \in SUBSET Own(m) /\ Own(m) \ Own(K) = {x \in T : x.txn = j}
        /\ Own(m) \in SUBSET T
    BY <2>3
  <2>. HIDE DEF K, line
  <2>7. Founded(Bill(m, price))
    <3>1. Founded(Bill(K, price))
      BY <2>4 DEF Good
    <3>2. Founded(Bill(K, price) \cup {line})
      BY <3>1, FoundedGrows
    <3>. QED
      BY <2>5, <3>2
  <2>8. Total(Bill(m, price)) = Total(Bill(K, price)) + price[j]
    <3>1. Founded(Bill(K, price))
      BY <2>4 DEF Good
    <3>2. line.delta \in Int
      BY <2>4, <2>5
    <3>. QED
      BY <2>5, <3>1, <3>2, TotalGrows
  <2>9. Founded(Own(m)) /\ \A x \in Own(m) : x.delta \in Int
    BY <2>6, FoundedSubset
  <2>10. Total(Own(m)) = Total(Own(K)) + price[j]
    <3>1. Total(Own(m)) = Total(Own(K)) + Total(Own(m) \ Own(K))
      <4>. HIDE DEF Own
      <4>. QED
        BY <2>6, <2>9, TotalSplits
    <3>2. Total(Own(m) \ Own(K)) = price[j]
      BY <2>4, <2>6
    <3>. QED
      BY <3>1, <3>2
  <2>. QED
    BY <2>4, <2>7, <2>8, <2>10 DEF Good
<1>2. Own(J) = T
  OBVIOUS
<1>. QED
  BY <1>1, <1>2
(* The committed entries of a transaction, added up. *)
NetOf(t) == Total({r \in rows : r.txn = t /\ status[t] = "committed"})

(* An account on which some transactions do jobs, each for its price or for *)
(* nothing, shows the sum of the other transactions and of the bill for     *)
(* what was done.                                                           *)
LEMMA BalanceIsBill ==
  ASSUME SumInv, NEW a \in Account, NEW Jobs \in SUBSET Txn,
         NEW Done \in SUBSET Jobs, Founded(Done),
         NEW price, \A j \in Done : price[j] \in Int,
         \A j \in Jobs : NetOf(j) = IF j \in Done THEN price[j] ELSE 0
  PROVE  Abstract!ShowsBalance(Committed(a),
           Total({r \in Committed(a) : r.txn \notin Jobs})
             + Total(Bill({j \in Done : AccountOf[j] = a}, price)))
<1>. DEFINE others == {r \in Committed(a) : r.txn \notin Jobs}
            jobs == {r \in Committed(a) : r.txn \in Jobs}
            kept == {r \in jobs : r.txn \in Done}
            here == {j \in Done : AccountOf[j] = a}
            Of(t) == {r \in rows : r.txn = t /\ status[t] = "committed"}
<1>1. /\ Committed(a) \in SUBSET rows
      /\ \A r \in rows : r.delta \in Int /\ r.account = AccountOf[r.txn]
  BY DEF SumInv, IInv, TypeOK, Row, RowsOwned, Committed, RowsOf
<1>2. \A T \in SUBSET rows : Founded(T) /\ \A r \in T : r.delta \in Int
  BY <1>1, FoundedSubset DEF SumInv
<1>3. others \in SUBSET Committed(a) /\ jobs \in SUBSET rows /\ kept \in SUBSET jobs
      /\ Committed(a) \ others = jobs
  BY <1>1
<1>4. ASSUME NEW j \in Jobs, AccountOf[j] = a PROVE {r \in jobs : r.txn = j} = Of(j)
  BY <1>1, <1>4 DEF Committed, RowsOf
<1>5. \A j \in Jobs : Total(Of(j)) = IF j \in Done THEN price[j] ELSE 0
  BY DEF NetOf
<1>6. Total(jobs \ kept) = 0
  <2>1. ASSUME NEW x \in jobs \ kept PROVE Total({y \in jobs \ kept : y.txn = x.txn}) = 0
    <3>1. x.txn \in Jobs \ Done /\ AccountOf[x.txn] = a
      BY <1>1 DEF Committed, RowsOf
    <3>2. {y \in jobs \ kept : y.txn = x.txn} = {r \in jobs : r.txn = x.txn}
      BY <3>1
    <3>. QED
      BY <1>4, <1>5, <3>1, <3>2
  <2>2. Founded(jobs \ kept) /\ \A r \in jobs \ kept : r.delta \in Int
    BY <1>2, <1>3
  <2>. HIDE DEF jobs, kept
  <2>. QED
    BY <2>1, <2>2, TotalCancels
<1>7. Total(kept) = Total(Bill(here, price))
  <2>1. ASSUME NEW j \in here
        PROVE  Total({r \in kept : r.txn = j}) = price[j] /\ price[j] \in Int
    <3>1. {r \in kept : r.txn = j} = {r \in jobs : r.txn = j}
      OBVIOUS
    <3>. QED
      BY <1>4, <1>5, <3>1
  <2>2. \A r \in kept : r.txn \in here
    BY <1>1 DEF Committed, RowsOf
  <2>3. Founded(kept) /\ Founded(here) /\ \A r \in kept : r.delta \in Int
    BY <1>2, <1>3, FoundedSubset
  <2>. HIDE DEF kept, here
  <2>4. /\ \A j \in here : price[j] \in Int
        /\ \A j \in here : Total({r \in kept : r.txn = j}) = price[j]
    BY <2>1
  <2>. QED
    BY <2>2, <2>3, <2>4, TotalIsBill
<1>8. Total(jobs) = Total(kept) + Total(jobs \ kept) /\ Total(kept) \in Int
  <2>1. Founded(jobs) /\ \A r \in jobs : r.delta \in Int
    BY <1>2, <1>3
  <2>. HIDE DEF jobs, kept
  <2>. QED
    BY <1>3, <2>1, TotalSplits
<1>9. Total(Committed(a)) = Total(others) + Total(jobs)
  <2>1. Founded(Committed(a)) /\ \A r \in Committed(a) : r.delta \in Int
    BY <1>1, <1>2
  <2>2. Total(Committed(a)) = Total(others) + Total(Committed(a) \ others)
    <3>. HIDE DEF others
    <3>. QED
      BY <1>3, <2>1, TotalSplits
  <2>. HIDE DEF jobs, others
  <2>. QED
    BY <1>3, <2>2
<1>10. Total(Committed(a)) = Total(others) + Total(Bill(here, price))
  <2>. HIDE DEF jobs, kept, others, here
  <2>. QED
    BY <1>6, <1>7, <1>8, <1>9
<1>. QED
  BY <1>10, SumsShown DEF BalanceIsSum

-----------------------------------------------------------------------------
(* Nobody waits forever: what can be said of it without fairness.           *)

(* A lock is its account's, and held by a transaction that is running. *)
LocksHeld ==
  \A k \in Key : holder[k] # None =>
    holder[k] \in Txn /\ status[holder[k]] = "active" /\ LockKey[AccountOf[holder[k]]] = k

LEMMA StepLocksHeld ==
  ASSUME IInv, LocksHeld, [Next]_vars
  PROVE  LocksHeld'
<1>. USE LockKeyAssumption, AccountOfAssumption, NoneAssumption
<1>1. /\ holder \in [Key -> Txn \cup {None}] /\ \A t \in Txn : LockKey[AccountOf[t]] \in Key
      /\ status \in [Txn -> {"idle", "active", "committed", "aborted"}]
  BY DEF IInv, TypeOK
<1>2. ASSUME NEW t \in Txn, NEW c \in Call, Enter(t, c) PROVE LocksHeld'
  BY <1>1, <1>2 DEF Enter, LocksHeld
<1>3. ASSUME NEW t \in Txn, Lock(t) PROVE LocksHeld'
  BY <1>1, <1>3 DEF Lock, LocksHeld
<1>4. ASSUME NEW t \in Txn, ReadBalance(t) \/ AppendEntry(t) PROVE LocksHeld'
  BY <1>1, <1>4 DEF ReadBalance, AppendEntry, LocksHeld
<1>5. ASSUME NEW t \in Txn, Commit(t) \/ Rollback(t) PROVE LocksHeld'
  <2>1. holder' = Release(t) /\ \A u \in Txn \ {t} : status'[u] = status[u]
    BY <1>1, <1>5 DEF Commit, Rollback
  <2>2. ASSUME NEW k \in Key, holder'[k] # None PROVE holder[k] # t /\ holder'[k] = holder[k]
    BY <2>1, <2>2 DEF Release
  <2>. QED
    BY <1>1, <2>1, <2>2 DEF LocksHeld
<1>6. CASE UNCHANGED vars
  BY <1>6 DEF vars, LocksHeld
<1>. QED
  BY <1>2, <1>3, <1>4, <1>5, <1>6 DEF Next, Step

LEMMA LocksHeldInvariant == Spec => []LocksHeld
<1>1. Init => LocksHeld
  BY DEF Init, LocksHeld
<1>. QED
  BY <1>1, StepLocksHeld, Invariant, PTL DEF Spec

LEMMA SumInvariant == Spec => []SumInv
BY InitSums, NextSums, PTL DEF Spec

(* The session's next statement is answered, or it can end the transaction. *)
GoesOn(t) ==
  \/ pc[t] \in {"ready", "append"}
  \/ pc[t] = "lock" /\ Grantable(t)
  \/ pc[t] = "read" /\ \E b \in Balances : Latest(Visible(t, AccountOf[t]), b)

(* A transaction that cannot go on waits for one that can. *)
NobodyIsStuck ==
  \A t \in Txn : status[t] = "active" =>
    \/ GoesOn(t)
    \/ \E u \in Txn \ {t} :
         u = holder[LockKey[AccountOf[t]]] /\ status[u] = "active" /\ GoesOn(u)

(* Advisory locks cannot deadlock here, whatever keys collide: a transaction *)
(* takes one lock, and who holds a lock never waits.                        *)
THEOREM WaitersWaitForWorkers == Spec => []NobodyIsStuck
<1>1. ASSUME SumInv, LocksHeld PROVE NobodyIsStuck
  <2>1. /\ holder \in [Key -> Txn \cup {None}] /\ pc \in [Txn -> {"ready", "lock", "read", "append"}]
        /\ \A t \in Txn : LockKey[AccountOf[t]] \in Key
    BY <1>1, LockKeyAssumption, AccountOfAssumption DEF SumInv, IInv, TypeOK
  <2>2. ASSUME NEW t \in Txn PROVE \E b \in Balances : Latest(Visible(t, AccountOf[t]), b)
    <3>. DEFINE V == Visible(t, AccountOf[t])
    <3>1. V \in SUBSET rows /\ Founded(V) /\ \A x \in V : x.seq \in Nat
      <4>1. V \in SUBSET rows
        BY DEF Visible, RowsOf
      <4>2. \A x \in rows : x.seq \in Nat
        BY <1>1 DEF SumInv, IInv, TypeOK, Row
      <4>. HIDE DEF V
      <4>3. Founded(V)
        BY <1>1, <4>1, FoundedSubset DEF SumInv
      <4>. QED
        BY <4>1, <4>2, <4>3
    <3>. SUFFICES \E b \in Balances : Latest(V, b)
      OBVIOUS
    <3>. HIDE DEF V
    <3>2. CASE V = {}
      BY <3>2 DEF Latest, Balances
    <3>3. CASE V # {}
      <4>1. PICK e \in V : \A x \in V : x.seq <= e.seq
        BY <3>1, <3>3, LastOf
      <4>. QED
        BY <3>1, <4>1 DEF Latest, Balances
    <3>. QED
      BY <3>2, <3>3
  <2>3. ASSUME NEW u \in Txn, pc[u] = "lock" => Grantable(u) PROVE GoesOn(u)
    BY <2>1, <2>2, <2>3 DEF GoesOn
  <2>4. ASSUME NEW t \in Txn, status[t] = "active", ~GoesOn(t)
        PROVE  \E u \in Txn \ {t} :
                 u = holder[LockKey[AccountOf[t]]] /\ status[u] = "active" /\ GoesOn(u)
    <3>. DEFINE u == holder[LockKey[AccountOf[t]]]
    <3>1. u \in Txn \ {t}
      BY <2>1, <2>3, <2>4 DEF Grantable
    <3>2. status[u] = "active" /\ LockKey[AccountOf[u]] = LockKey[AccountOf[t]]
      BY <1>1, <2>1, <3>1, NoneAssumption DEF LocksHeld
    <3>3. Grantable(u)
      BY <3>2 DEF Grantable
    <3>. QED
      BY <2>3, <3>1, <3>2, <3>3
  <2>. QED
    BY <2>4 DEF NobodyIsStuck
<1>. QED
  BY <1>1, SumInvariant, LocksHeldInvariant, PTL

(* A statement moves its own transaction only. *)
LEMMA OthersStay ==
  ASSUME TypeOK, NEW t \in Txn, Step(t), NEW u \in Txn \ {t}
  PROVE  status'[u] = status[u] /\ pc'[u] = pc[u] /\ calls'[u] = calls[u]
BY DEF TypeOK, Step, Enter, Lock, ReadBalance, AppendEntry, Commit, Rollback, Return

(* The steps a transaction can still take: four for each call it may make,  *)
(* what is left of the one it is in, and its end.                           *)
CallLeft(t) ==
  IF pc[t] = "lock" THEN 3 ELSE IF pc[t] = "read" THEN 2 ELSE IF pc[t] = "append" THEN 1 ELSE 0

StepsLeft(t) ==
  IF status[t] \in {"committed", "aborted"} THEN 0
  ELSE 1 + 4 * (MaxCalls - calls[t]) + CallLeft(t)

StepsRunOut ==
  \A t \in Txn : Step(t) =>
    /\ StepsLeft(t) \in Nat /\ StepsLeft(t)' \in Nat /\ StepsLeft(t)' < StepsLeft(t)
    /\ \A u \in Txn \ {t} : StepsLeft(u)' = StepsLeft(u)

(* Every statement brings its transaction nearer to its end, and no other   *)
(* transaction's statement takes it back: with WaitersWaitForWorkers, every *)
(* lock is released after finitely many steps.                              *)
THEOREM TransactionsEnd == Spec => [][StepsRunOut]_vars
<1>1. ASSUME IInv, NEW t \in Txn, Step(t)
      PROVE  /\ StepsLeft(t) \in Nat /\ StepsLeft(t)' \in Nat /\ StepsLeft(t)' < StepsLeft(t)
             /\ \A u \in Txn \ {t} : StepsLeft(u)' = StepsLeft(u)
  <2>. DEFINE k == CallLeft(t)
              m == MaxCalls - calls[t]
  <2>1. /\ status \in [Txn -> {"idle", "active", "committed", "aborted"}]
        /\ pc \in [Txn -> {"ready", "lock", "read", "append"}] /\ calls \in [Txn -> 0..MaxCalls]
        /\ MaxCalls \in Nat /\ calls[t] \in 0..MaxCalls
    BY <1>1, MaxCallsAssumption DEF IInv, TypeOK
  <2>2. /\ status[t] \notin {"committed", "aborted"}
        /\ \A u \in Txn \ {t} : pc'[u] = pc[u] /\ status'[u] = status[u] /\ calls'[u] = calls[u]
    BY <1>1, <2>1 DEF Step, Enter, Lock, ReadBalance, AppendEntry, Commit, Rollback, Return
  <2>3. \A u \in Txn \ {t} : StepsLeft(u)' = StepsLeft(u)
    BY <2>2 DEF StepsLeft, CallLeft
  <2>4. StepsLeft(t) = 1 + 4 * m + k /\ k \in 0..3 /\ m \in Nat
    BY <2>1, <2>2 DEF StepsLeft, CallLeft
  <2>5. CASE status'[t] \in {"committed", "aborted"}
    <3>1. StepsLeft(t)' = 0
      BY <2>5 DEF StepsLeft
    <3>. HIDE DEF k, m
    <3>. QED
      BY <2>3, <2>4, <3>1
  <2>6. CASE status'[t] \notin {"committed", "aborted"}
    <3>1. StepsLeft(t)' = 1 + 4 * (MaxCalls - calls'[t]) + k'
      BY <2>6 DEF StepsLeft
    <3>2. \/ pc[t] = "ready" /\ pc'[t] = "lock" /\ calls'[t] = calls[t] + 1 /\ calls[t] < MaxCalls
          \/ pc[t] = "lock" /\ pc'[t] = "read" /\ calls'[t] = calls[t]
          \/ pc[t] = "read" /\ pc'[t] \in {"ready", "append"} /\ calls'[t] = calls[t]
          \/ pc[t] = "append" /\ pc'[t] = "ready" /\ calls'[t] = calls[t]
      BY <1>1, <2>1, <2>6 DEF Step, Enter, Lock, ReadBalance, AppendEntry, Commit, Rollback, Return
    <3>3. \/ k = 0 /\ k' = 3 /\ calls'[t] = calls[t] + 1 /\ calls[t] < MaxCalls
          \/ k' \in 0..2 /\ k' < k /\ calls'[t] = calls[t]
      BY <3>2 DEF CallLeft
    <3>. HIDE DEF k
    <3>. QED
      BY <2>1, <2>3, <2>4, <3>1, <3>3
  <2>. QED
    BY <2>5, <2>6
<1>2. IInv => StepsRunOut
  BY <1>1 DEF StepsRunOut
<1>. QED
  BY <1>2, Invariant, PTL
=============================================================================
