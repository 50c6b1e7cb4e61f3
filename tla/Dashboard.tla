------------------------------- MODULE Dashboard -------------------------------
(***************************************************************************)
(* What the dashboard shows of a business: its subscription and its        *)
(* attribution summary.  billing.py and attribution.py serve the two pages *)
(* from tables of their own: the components share no state, and the whole  *)
(* is their conjunction.                                                   *)
(***************************************************************************)
EXTENDS Subscription, Attribution

DashboardSpec == SubscriptionSpec /\ AttributionSpec

(* The types of both components, with the bounds a test states of the       *)
(* attribution's numbers (test_attribution_correlation.py:124).             *)
DashboardTypeOK == SubscriptionTypeOK /\ AttributionTypeOK
=============================================================================
