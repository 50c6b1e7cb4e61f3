-------------------------- MODULE MCSocialPublisher --------------------------
(***************************************************************************)
(* Two posts of different businesses and two runs of the task, one after   *)
(* the other or overlapping, each of which may crash.  Two runs that       *)
(* update two posts in opposite orders are enough for a cycle of waits.    *)
(***************************************************************************)
EXTENDS SocialPublisher, TLC

CONSTANTS p1, p2, b1, b2, r1, r2

MCBusinessOf == p1 :> b1 @@ p2 :> b2
=============================================================================
