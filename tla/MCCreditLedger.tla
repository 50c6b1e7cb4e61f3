--------------------------- MODULE MCCreditLedger ---------------------------
(***************************************************************************)
(* A small instance of CreditLedger: three transactions that make up to    *)
(* two calls each, two of them on one account.  The keys of the two        *)
(* accounts collide, so that all three wait for one lock and read the rows *)
(* of one account or of the other.  Amount 0 is the one that is refused.   *)
(***************************************************************************)
EXTENDS CreditLedger, TLC

CONSTANTS a1, a2, k1, k2, t1, t2, t3

MCAccount == {a1, a2}
MCKey == {k1, k2}
MCLockKey == a1 :> k1 @@ a2 :> k1
MCTxn == {t1, t2, t3}
MCAccountOf == t1 :> a1 @@ t2 :> a1 @@ t3 :> a2
=============================================================================
