----------------------------- MODULE MCAccounts -----------------------------
(***************************************************************************)
(* Two agencies with a business each.  Two admins of the first agency, one *)
(* of them in its business too, and the owner of that business are         *)
(* registered, and a fourth user may sign up, with one tenant or with two. *)
(* Two updates overlap with each other and with three requests for tokens. *)
(***************************************************************************)
EXTENDS Accounts, TLC

CONSTANTS ann, bob, cy, dee, a1, a2, b1, b2

User4(role, business, agency) ==
  [role |-> role, business |-> business, agency |-> agency, active |-> TRUE]

MCRegistered ==
  ann :> User4("agency_admin", None, a1) @@ bob :> User4("agency_admin", b1, a1)
    @@ cy :> User4("smb_owner", b1, None) @@ dee :> None

MCAgencyOf == b1 :> a1 @@ b2 :> a2

MCSignups == {User4("smb_owner", b2, None), User4("agency_admin", b2, a1)}

NoChange == [role |-> Unset, business |-> Unset, agency |-> Unset, active |-> Unset]

MCBodies ==
  {[NoChange EXCEPT !.active = FALSE], [NoChange EXCEPT !.role = "agency_viewer"],
   [NoChange EXCEPT !.agency = None], [NoChange EXCEPT !.agency = a2],
   [NoChange EXCEPT !.business = b1]}

(* Requests have no identity of their own. *)
RequestSymmetry == Permutations(Session) \cup Permutations(Update)
=============================================================================
