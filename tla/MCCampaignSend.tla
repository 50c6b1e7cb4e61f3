---------------------------- MODULE MCCampaignSend ----------------------------
(***************************************************************************)
(* Two campaigns of one business: paid sends two messages and is charged   *)
(* for each, free sends one service message.  The account starts empty and *)
(* one recharge, at any time, covers one paid message only.                *)
(***************************************************************************)
EXTENDS CampaignSend, TLC

CONSTANTS b, k, paid, free, m1, m2, m3, top, payment

MCTxn == {m1, m2, m3, top}
MCLockKey == b :> k
MCAccountOf == [t \in MCTxn |-> b]
MCSends == paid :> <<m1, m2>> @@ free :> <<m3>>
MCCost == paid :> 2 @@ free :> 0
===============================================================================
