--------------------------- MODULE CreditAccount ---------------------------
(***************************************************************************)
(* What the credit ledger promises to its callers, with no transactions    *)
(* and no locks: every account (one business, one credit type) has a book  *)
(* of entries.  A book only grows, at its end, by whole batches; each      *)
(* entry carries the balance it leaves, computed from the entry before it, *)
(* and no entry leaves a negative balance.                                 *)
(*                                                                         *)
(* This is the contract of services/billing/credit_ledger.py and of the    *)
(* CreditLedgerEntry docstring (shared/models/core.py); CreditLedger.tla   *)
(* implements it with concurrent database transactions.                    *)
(***************************************************************************)
EXTENDS Integers

CONSTANT Account        \* the (business_id, credit_type) pairs

VARIABLE book           \* book[a]: the entries of account a

(* e is the entry of S right before f. *)
Precedes(S, e, f) ==
  /\ e.seq < f.seq
  /\ \A x \in S : x.seq <= e.seq \/ f.seq <= x.seq

(* The balance a book shows: that of its last entry, 0 while it is empty. *)
ShowsBalance(S, b) ==
  \/ S = {} /\ b = 0
  \/ \E e \in S : e.balance_after = b /\ \A x \in S : x.seq <= e.seq

(* Every entry's balance_after is the previous entry's plus its own delta. *)
Chained(S) ==
  /\ \A f \in S : (\A x \in S : f.seq <= x.seq) => f.balance_after = f.delta
  /\ \A e, f \in S :
       Precedes(S, e, f) => f.balance_after = e.balance_after + f.delta

NeverOverdrawn(S) == \A e \in S : e.balance_after >= 0

(* new keeps every entry of old and adds its own after them. *)
Extends(old, new) ==
  /\ old \subseteq new
  /\ \A e \in old, f \in new \ old : e.seq < f.seq

Init == book = [a \in Account |-> {}]

(* One transaction's entries become visible together. *)
Post(a) ==
  /\ \A b \in Account \ {a} : book'[b] = book[b]
  /\ Extends(book[a], book'[a])
  /\ Chained(book'[a])
  /\ NeverOverdrawn(book'[a])

Next == \E a \in Account : Post(a)

Spec == Init /\ [][Next]_book
=============================================================================
