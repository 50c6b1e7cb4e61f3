----------------------------- MODULE MCDashboard -----------------------------
(***************************************************************************)
(* One subscription with up to four changes; two runs over signals of      *)
(* every sort at the borders of two periods, one of which begins in the    *)
(* middle of a day, and of the lag window; and two calls at one time.      *)
(*                                                                         *)
(* The two components share no state, so a behaviour exercises one of      *)
(* them, while the other one stays as it began.                            *)
(***************************************************************************)
EXTENDS Dashboard, TLC

MCSignal ==
  {[id |-> 1, type |-> "whatsapp_click", at |-> 2],
   [id |-> 2, type |-> "whatsapp_click", at |-> 3],
   [id |-> 3, type |-> "whatsapp_click", at |-> 5],
   [id |-> 4, type |-> "call", at |-> 4],
   [id |-> 5, type |-> "call", at |-> 4],
   [id |-> 6, type |-> "direction_request", at |-> 6]}

MCPeriod == {[start |-> 3, end |-> 7], [start |-> 0, end |-> 5], [start |-> 4, end |-> 4]}

MCInit == SubscriptionInit /\ AttributionInit

MCNext ==
  \/ SubscriptionNext /\ AttributionInit /\ UNCHANGED attributionVars
  \/ AttributionNext /\ SubscriptionInit /\ UNCHANGED subscriptionVars

MCSpec == MCInit /\ [][MCNext]_<<subscriptionVars, attributionVars>>

(* Requests and runs have no identity of their own. *)
DashboardSymmetry == Permutations(Request) \cup Permutations(Run)
=============================================================================
