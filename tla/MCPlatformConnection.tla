------------------------ MODULE MCPlatformConnection ------------------------
(***************************************************************************)
(* One connection to Google: two callbacks with one state (a browser that  *)
(* repeats it), one with another state, and a create_connection.           *)
(***************************************************************************)
EXTENDS PlatformConnection, TLC

CONSTANTS gbp, s1, s2, c1, c2, c3, form

MCStateSlot == s1 :> gbp @@ s2 :> gbp
MCStateOf == c1 :> s1 @@ c2 :> s1 @@ c3 :> s2
MCCreatorSlot == form :> gbp
=============================================================================
