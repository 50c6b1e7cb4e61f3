---------------------------- MODULE CreditLedger ----------------------------
(***************************************************************************)
(* services/billing/credit_ledger.py under concurrent database sessions.   *)
(*                                                                         *)
(* Every handler runs in one asyncio task with one AsyncSession, and tasks *)
(* (and other processes) interleave at every await, i.e. at every          *)
(* statement sent to Postgres.  A Txn is one transaction of such a         *)
(* session: it works on one account, calls credit() and debit() some       *)
(* number of times and commits or rolls back.  Postgres is external: it    *)
(* runs the statements at READ COMMITTED (a statement sees what had been   *)
(* committed when it started, and its own transaction's rows), assigns the *)
(* IDENTITY column at insert, and releases transaction-level advisory      *)
(* locks when the transaction ends.                                        *)
(*                                                                         *)
(* Bound: MaxCalls, the calls one transaction makes.                       *)
(***************************************************************************)
EXTENDS Integers, FiniteSets, FiniteSetsExt

CONSTANTS
  Account,              \* the (business_id, credit_type) pairs
  Key,                  \* signed 64-bit advisory lock keys
  LockKey,              \* _advisory_lock_key, a digest: it may collide
  Txn,                  \* database transactions
  AccountOf,            \* the account a transaction's caller works on
  None,                 \* no transaction
  Amount,               \* the amounts callers pass, not only positive ones
  Reference,            \* reference_type with reference_id
  MaxCalls

ASSUME LockKeyAssumption == LockKey \in [Account -> Key]
ASSUME AccountOfAssumption == AccountOf \in [Txn -> Account]
ASSUME NoneAssumption == None \notin Txn
ASSUME AmountAssumption == Amount \subseteq Int /\ Amount # {}
ASSUME ReferenceAssumption == Reference # {}
ASSUME MaxCallsAssumption == MaxCalls \in Nat

VARIABLES
  rows,                 \* credit_ledger: committed rows and uncommitted ones
  nextSeq,              \* the next value of the IDENTITY column
  holder,               \* the transaction holding an advisory lock
  status,               \* idle, active, committed or aborted
  pc,                   \* where the transaction is inside credit()/debit()
  call,                 \* the arguments of its call, once it is entered
  balance,              \* the local variable `balance` of that call
  calls                 \* how many calls it has made

vars == <<rows, nextSeq, holder, status, pc, call, balance, calls>>

Row == [seq : Nat, account : Account, delta : Int \ {0}, reference : Reference,
        balance_after : Int, txn : Txn]

Call == [kind : {"credit", "debit"}, amount : Amount, reference : Reference]

NoCall == CHOOSE c \in Call : TRUE     \* the value of call outside a call

TypeOK ==
  /\ rows \subseteq Row
  /\ nextSeq \in Nat
  /\ holder \in [Key -> Txn \cup {None}]
  /\ status \in [Txn -> {"idle", "active", "committed", "aborted"}]
  /\ pc \in [Txn -> {"ready", "lock", "read", "append"}]
  /\ call \in [Txn -> Call]
  /\ balance \in [Txn -> Int]
  /\ calls \in [Txn -> 0..MaxCalls]

RowsOf(a) == {r \in rows : r.account = a}

Committed(a) == {r \in RowsOf(a) : status[r.txn] = "committed"}

VisibleElsewhere(t, a) == Committed(a)  \* variant: read in another session

(* The rows a statement of t sees. *)
Visible(t, a) == {r \in RowsOf(a) : status[r.txn] = "committed" \/ r.txn = t}

(* SELECT balance_after ... ORDER BY seq DESC LIMIT 1, and 0 with no row. *)
LatestCreated(S, b) ==  \* variant: ORDER BY created_at, which ties in a transaction
  \/ S = {} /\ b = 0
  \/ \E r \in S :
       r.balance_after = b /\ \A x \in S : x.seq <= r.seq \/ x.txn = r.txn

Latest(S, b) ==
  \/ S = {} /\ b = 0
  \/ \E r \in S : r.balance_after = b /\ \A x \in S : x.seq <= r.seq

Balances == {0} \cup {r.balance_after : r \in rows}

Init ==
  /\ rows = {}
  /\ nextSeq = 1
  /\ holder = [k \in Key |-> None]
  /\ status = [t \in Txn |-> "idle"]
  /\ pc = [t \in Txn |-> "ready"]
  /\ call = [t \in Txn |-> NoCall]
  /\ balance = [t \in Txn |-> 0]
  /\ calls = [t \in Txn |-> 0]

-----------------------------------------------------------------------------
AcceptedWithZero(c) == c.amount >= 0    \* variant: `amount < 0` is refused

(* `amount <= 0` raises ValueError, before any statement is sent. *)
Accepted(c) == c.amount > 0

(* credit(...) or debit(...) is called, in a new transaction or in the one  *)
(* the session is in.                                                       *)
Enter(t, c) ==
  /\ status[t] \in {"idle", "active"}
  /\ pc[t] = "ready"
  /\ calls[t] < MaxCalls
  /\ Accepted(c)
  /\ status' = [status EXCEPT ![t] = "active"]
  /\ pc' = [pc EXCEPT ![t] = "lock"]
  /\ call' = [call EXCEPT ![t] = c]
  /\ calls' = [calls EXCEPT ![t] = @ + 1]
  /\ UNCHANGED <<rows, nextSeq, holder, balance>>

GrantableShared(t) == TRUE      \* variant: pg_advisory_xact_lock_shared

Grantable(t) == holder[LockKey[AccountOf[t]]] \in {None, t}

(* SELECT pg_advisory_xact_lock(key): blocks while another transaction      *)
(* holds the key, and is granted again to the one that already does.        *)
Lock(t) ==
  /\ status[t] = "active"
  /\ pc[t] = "lock"
  /\ Grantable(t)
  /\ holder' = [holder EXCEPT ![LockKey[AccountOf[t]]] = t]
  /\ pc' = [pc EXCEPT ![t] = "read"]
  /\ UNCHANGED <<rows, nextSeq, status, call, balance, calls>>

(* The call is over, by a return or an exception: its locals are gone. *)
Return(t) ==
  /\ pc' = [pc EXCEPT ![t] = "ready"]
  /\ call' = [call EXCEPT ![t] = NoCall]
  /\ balance' = [balance EXCEPT ![t] = 0]

RefusedWhenEmpty(c, b) == c.kind = "debit" /\ b = 0     \* variant: any balance will do

Refused(c, b) == c.kind = "debit" /\ b < c.amount

(* get_balance.  debit() then raises InsufficientCreditError if the balance *)
(* does not cover the amount: no row is written, and the lock stays taken.  *)
ReadBalance(t) ==
  /\ status[t] = "active"
  /\ pc[t] = "read"
  /\ \E b \in Balances :
       /\ Latest(Visible(t, AccountOf[t]), b)
       /\ \/ Refused(call[t], b) /\ Return(t)
          \/ /\ ~Refused(call[t], b)
             /\ pc' = [pc EXCEPT ![t] = "append"]
             /\ balance' = [balance EXCEPT ![t] = b]
             /\ UNCHANGED call
  /\ UNCHANGED <<rows, nextSeq, holder, status, calls>>

Delta(c) == IF c.kind = "credit" THEN c.amount ELSE -c.amount

NewRow(t) ==
  [seq |-> nextSeq, account |-> AccountOf[t], delta |-> Delta(call[t]),
   reference |-> call[t].reference,
   balance_after |-> balance[t] + Delta(call[t]), txn |-> t]

Updated(t) ==           \* variant: one row per account, kept up to date
  {r \in rows : r.account # AccountOf[t]} \cup {NewRow(t)}

Inserted(t) == rows \cup {NewRow(t)}

(* _append: the INSERT is flushed at once, and takes its seq there. *)
AppendEntry(t) ==
  /\ status[t] = "active"
  /\ pc[t] = "append"
  /\ rows' = Inserted(t)
  /\ nextSeq' = nextSeq + 1
  /\ Return(t)
  /\ UNCHANGED <<holder, status, calls>>

KeptBySession(t) == holder      \* variant: pg_advisory_lock, a session-level lock

Release(t) == [k \in Key |-> IF holder[k] = t THEN None ELSE holder[k]]

(* db.commit(): the rows become visible and the locks are released. *)
Commit(t) ==
  /\ status[t] = "active"
  /\ pc[t] = "ready"
  /\ status' = [status EXCEPT ![t] = "committed"]
  /\ holder' = Release(t)
  /\ UNCHANGED <<rows, nextSeq, pc, call, balance, calls>>

(* An uncaught exception closes the session, or the process or its          *)
(* connection dies, at any await: the rows are gone, their seqs are not     *)
(* used again, the locks are released.                                      *)
Rollback(t) ==
  /\ status[t] = "active"
  /\ status' = [status EXCEPT ![t] = "aborted"]
  /\ rows' = {r \in rows : r.txn # t}
  /\ holder' = Release(t)
  /\ Return(t)
  /\ UNCHANGED <<nextSeq, calls>>

Step(t) ==
  \/ \E c \in Call : Enter(t, c)
  \/ Lock(t)
  \/ ReadBalance(t)
  \/ AppendEntry(t)
  \/ Commit(t)
  \/ Rollback(t)

Next == \E t \in Txn : Step(t)

(* A handler that has begun runs to its end: each statement Postgres        *)
(* answers is followed by the next one, a grantable lock is granted (the    *)
(* lock queue is first come, first served), and the session is committed or *)
(* closed.  Nothing makes a transaction that waits for a lock give up.      *)
Fairness ==
  \A t \in Txn :
    /\ WF_vars(Lock(t))
    /\ WF_vars(ReadBalance(t))
    /\ WF_vars(AppendEntry(t))
    /\ WF_vars(Commit(t) \/ (pc[t] = "ready" /\ Rollback(t)))

Spec == Init /\ [][Next]_vars

FairSpec == Spec /\ Fairness

-----------------------------------------------------------------------------
(* The abstract account's book is what a reader in another session sees. *)
CommittedBook == [a \in Account |-> Committed(a)]

Abstract == INSTANCE CreditAccount WITH book <- CommittedBook

(* A debit or credit works on the balance it read: nothing may be written   *)
(* to the account between get_balance and the INSERT, even by a transaction *)
(* that has not committed yet.                                              *)
ReadIsCurrent ==
  \A t \in Txn :
    status[t] = "active" /\ pc[t] = "append" =>
      Abstract!ShowsBalance(RowsOf(AccountOf[t]), balance[t])

Total(S) == MapThenSumSet(LAMBDA r : r.delta, S)

(* The committed balance is the sum of the committed movements, after any   *)
(* interleaving and with any gaps rollbacks left in seq: no update of the   *)
(* running balance is ever lost.                                            *)
BalanceIsSum ==
  \A a \in Account : Abstract!ShowsBalance(Committed(a), Total(Committed(a)))

(* "Raises InsufficientCreditError ... if the debit would take the balance  *)
(* negative": no entry, committed or about to be, shows a negative balance. *)
NeverNegative == \A r \in rows : r.balance_after >= 0

(* A committed row is never changed or removed (CreditLedgerEntry:          *)
(* APPEND-ONLY), and rows of an account become visible in seq order, so     *)
(* "the highest seq" is "the most recent entry" for every later reader.     *)
CommittedInSeqOrder ==
  \A a \in Account : Abstract!Extends(Committed(a), Committed(a)')

AppendOnly == [][CommittedInSeqOrder]_vars

(* Seen through its committed rows, the ledger is the atomic account of     *)
(* CreditAccount: every commit adds a chained, never negative batch to one  *)
(* account's book, and no other step is seen.                               *)
ImplementsAccount == Abstract!Spec

(* A session waiting for an account's lock gets it or ends: the lock never  *)
(* outlives the transaction that took it.                                   *)
LockWaitEnds ==
  \A t \in Txn :
    (status[t] = "active" /\ pc[t] = "lock") ~> ~(status[t] = "active" /\ pc[t] = "lock")
=============================================================================
