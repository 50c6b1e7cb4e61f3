----------------------------- MODULE MCRecharge -----------------------------
(***************************************************************************)
(* One business with two accounts.  For p1, first is sent and then its     *)
(* retry, for the other credit type; for p2, three requests at any time    *)
(* (next to each other they credit p2 twice, and the last one meets both   *)
(* entries); foreign is for p3, which is not in INR.                       *)
(***************************************************************************)
EXTENDS Recharge, TLC

CONSTANTS first, retry, one, two, three, foreign, b1, p1, p2, p3, ai, wa, k1, k2

MCAccount == {ai, wa}
MCKey == {k1, k2}
MCLockKey == ai :> k1 @@ wa :> k2
MCTxn == {first, retry, one, two, three, foreign}
MCAccountOf == [t \in MCTxn |-> IF t = retry THEN wa ELSE ai]
MCBusinessOf == [a \in MCAccount |-> b1]
MCPaymentOf ==
  [t \in MCTxn |-> CASE t \in {first, retry} -> p1 [] t = foreign -> p3 [] OTHER -> p2]
MCPaise == p1 :> 2 @@ p2 :> 1 @@ p3 :> 1
MCRetryOf == [t \in MCTxn |-> IF t = retry THEN first ELSE None]
=============================================================================
