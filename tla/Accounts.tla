------------------------------ MODULE Accounts ------------------------------
(***************************************************************************)
(* Users, their sessions and their administration: signup, login and       *)
(* refresh (gateway/api/v1/auth.py), get_current_user (gateway/            *)
(* security.py), update_user (gateway/api/v1/users.py) and the tenant      *)
(* rules it applies (gateway/tenancy.py).                                  *)
(*                                                                         *)
(* Every endpoint reads rows, decides, and writes in one commit, with no   *)
(* lock in between: a request goes by what it read, and requests           *)
(* interleave at every statement.  The two sorts of requests are Session,  *)
(* which issue tokens, and Update, which change users.  A refresh token is *)
(* named after the request that issued it.                                 *)
(*                                                                         *)
(* A user is identified by its email, which nothing changes.  Agencies and *)
(* businesses are the rows created before; no code changes a business's    *)
(* agency_id.  Passwords, invite codes and the expiry of tokens are not    *)
(* modelled: they only refuse requests, which then change nothing.         *)
(***************************************************************************)
EXTENDS Integers, FiniteSets

CONSTANTS
  User,
  Agency,
  Business,
  AgencyOf,             \* businesses.agency_id
  None,                 \* NULL
  Unset,                \* a field a PATCH body does not set
  Registered,           \* the users rows at the beginning, None where there is none
  Session,              \* signup, login and refresh requests
  Update,               \* update_user requests
  Signups,              \* the role, business and agency that signups ask for
  Bodies                \* the bodies of update_user requests

AgencyRole == {"agency_admin", "agency_viewer"}
Role == AgencyRole \cup {"smb_owner"}

Row == [role : Role, business : Business \cup {None}, agency : Agency \cup {None},
        active : BOOLEAN]

Body == [role : Role \cup {Unset}, business : Business \cup {None, Unset},
         agency : Agency \cup {None, Unset}, active : BOOLEAN \cup {Unset}]

ASSUME AccountsAssumption ==
  /\ None \notin Agency \cup Business \cup User \cup Row
  /\ Unset \notin Agency \cup Business \cup {None}
  /\ Unset \notin Role /\ Unset \notin BOOLEAN
  /\ None \notin Session \cup Update
  /\ IsFiniteSet(Session)
  /\ Agency \cap Business = {}
  /\ AgencyOf \in [Business -> Agency \cup {None}]
  /\ Registered \in [User -> Row \cup {None}]
  /\ Signups \subseteq Row
  /\ Bodies \subseteq Body

VARIABLES
  users,                \* users rows, as committed
  joined,               \* the tenants each user signed up with
  revoked,              \* refresh_tokens rows: issued, and whether revoked_at is set
  session,              \* the locals of each session request
  update                \* the locals of each update_user request

vars == <<users, joined, revoked, session, update>>

(* The tenant of a business is its agency, or itself if it has none. *)
TenantOf(b) == IF AgencyOf[b] = None THEN b ELSE AgencyOf[b]

Tenants(row) ==
  {TenantOf(b) : b \in {row.business} \ {None}} \cup ({row.agency} \ {None})

SessionLocals ==
  [step : {"idle", "token", "checked", "issued", "lost"},
   kind : {"none", "signup", "login", "refresh"},
   user : User \cup {None}, row : Row \cup {None},
   token : Session \cup {None}, root : Session \cup {None}, after : SUBSET Session]

UpdateLocals ==
  [step : {"idle", "caller", "checked", "over"},
   caller : User \cup {None}, as : Row \cup {None},
   target : User \cup {None}, loaded : Row \cup {None}, body : Body \cup {None}]

AccountsTypeOK ==
  /\ users \in [User -> Row \cup {None}]
  /\ joined \in [User -> SUBSET (Agency \cup Business)]
  /\ revoked \in [Session -> {"none", "live", "revoked"}]
  /\ session \in [Session -> SessionLocals]
  /\ update \in [Update -> UpdateLocals]
  /\ \A q \in Session : revoked[q] # "none" <=> session[q].step = "issued"
  /\ \A q \in Session : session[q].user # None /\ session[q].kind # "signup" =>
       users[session[q].user] # None

NoSession == [step |-> "idle", kind |-> "none", user |-> None, row |-> None,
              token |-> None, root |-> None, after |-> {}]

NoUpdate == [step |-> "idle", caller |-> None, as |-> None, target |-> None,
             loaded |-> None, body |-> None]

Init ==
  /\ users = Registered
  /\ joined = [u \in User |-> IF Registered[u] = None THEN {} ELSE Tenants(Registered[u])]
  /\ revoked = [q \in Session |-> "none"]
  /\ session = [q \in Session |-> NoSession]
  /\ update = [p \in Update |-> NoUpdate]

-----------------------------------------------------------------------------
(* auth.py. *)

(* smb_owner requires business_id, agency roles require agency_id. *)
Acceptable(s) ==
  IF s.role = "smb_owner" THEN s.business # None ELSE s.agency # None

CheckSignup(q, u, s) ==
  /\ session[q].step = "idle"
  /\ users[u] = None
  /\ Acceptable(s)
  /\ session' = [session EXCEPT ![q] = [NoSession EXCEPT !.step = "checked", !.kind = "signup",
                                                         !.user = u, !.row = s, !.root = q]]
  /\ UNCHANGED <<users, joined, revoked, update>>

(* The INSERT waits for another one of the same email and then fails on the *)
(* unique constraint; else user and token are committed together.           *)
CommitSignup(q) ==
  /\ session[q].step = "checked" /\ session[q].kind = "signup"
  /\ users[session[q].user] = None
  /\ users' = [users EXCEPT ![session[q].user] = session[q].row]
  /\ joined' = [joined EXCEPT ![session[q].user] = Tenants(session[q].row)]
  /\ revoked' = [revoked EXCEPT ![q] = "live"]
  /\ session' = [session EXCEPT ![q].step = "issued", ![q].row = None]
  /\ UNCHANGED update

CheckLogin(q, u) ==
  /\ session[q].step = "idle"
  /\ users[u] # None /\ users[u].active
  /\ session' = [session EXCEPT ![q] = [NoSession EXCEPT !.step = "checked", !.kind = "login",
                                                         !.user = u, !.root = q]]
  /\ UNCHANGED <<users, joined, revoked, update>>

(* The requests that have rotated token t. *)
Rotated(t) == {q \in Session : session[q].token = t /\ session[q].step = "issued"}

(* refresh, first SELECT: the token is stored and not revoked. *)
CheckToken(q, t) ==
  /\ session[q].step = "idle"
  /\ revoked[t] = "live"
  /\ session' = [session EXCEPT ![q] = [NoSession EXCEPT
                   !.step = "token", !.kind = "refresh", !.user = session[t].user,
                   !.token = t, !.root = session[t].root, !.after = Rotated(t)]]
  /\ UNCHANGED <<users, joined, revoked, update>>

CheckUserRevoking(q) ==         \* variant: the old token is revoked in a commit of its own
  /\ session[q].step = "token"
  /\ users[session[q].user].active
  /\ session' = [session EXCEPT ![q].step = "checked"]
  /\ revoked' = [revoked EXCEPT ![session[q].token] = "revoked"]
  /\ UNCHANGED <<users, joined, update>>

(* refresh, second SELECT: the user is active. *)
CheckUser(q) ==
  /\ session[q].step = "token"
  /\ users[session[q].user].active
  /\ session' = [session EXCEPT ![q].step = "checked"]
  /\ UNCHANGED <<users, joined, revoked, update>>

IssueUnstored(q) ==             \* variant: the new refresh token is not stored
  /\ session[q].step = "checked" /\ session[q].kind # "signup"
  /\ revoked' = [t \in Session |-> IF t = session[q].token THEN "revoked" ELSE revoked[t]]
  /\ session' = [session EXCEPT ![q].step = "issued"]
  /\ UNCHANGED <<users, joined, update>>

(* _issue_tokens: the new token is committed, with the old one's revoked_at. *)
IssueTokens(q) ==
  /\ session[q].step = "checked" /\ session[q].kind # "signup"
  /\ revoked' = [t \in Session |-> IF t = q THEN "live"
                                   ELSE IF t = session[q].token THEN "revoked"
                                   ELSE revoked[t]]
  /\ session' = [session EXCEPT ![q].step = "issued"]
  /\ UNCHANGED <<users, joined, update>>

(* 401, 409, the unique constraint, any other error, or a crash. *)
LoseSession(q) ==
  /\ session[q].step \in {"token", "checked"}
  /\ session' = [session EXCEPT ![q] = [NoSession EXCEPT !.step = "lost"]]
  /\ UNCHANGED <<users, joined, revoked, update>>

-----------------------------------------------------------------------------
(* tenancy.py, and the rules of update_user, about rows as they were read. *)

CanAccessBusiness(row, b) ==
  row.business = b \/ (row.agency # None /\ row.agency = AgencyOf[b])

CanWriteBusiness(row, b) == CanAccessBusiness(row, b) /\ row.role # "agency_viewer"

CanWriteAgency(row, a) == row.agency = a /\ row.role = "agency_admin"

MayEdit(as, row) ==
  \/ row.business # None /\ CanWriteBusiness(as, row.business)
  \/ row.business = None /\ row.agency # None /\ CanWriteAgency(as, row.agency)

MayGrant(as, body) == body.role \in AgencyRole => as.role = "agency_admin"

SelfActiveOnly(caller, target, body) ==         \* variant: one may change one's own role
  caller = target => body.active = Unset

NotOneself(caller, target, body) ==
  caller = target => body.role = Unset /\ body.active = Unset

MovesAnywhere(as, body) == TRUE         \* variant: the new scope is not checked

MayMove(as, body) ==
  /\ body.business \in Business => CanWriteBusiness(as, body.business)
  /\ body.agency \in Agency => CanWriteAgency(as, body.agency)

(* get_current_user. *)
LoadCaller(p, c) ==
  /\ update[p].step = "idle"
  /\ users[c] # None /\ users[c].active
  /\ update' = [update EXCEPT ![p] = [NoUpdate EXCEPT !.step = "caller", !.caller = c,
                                                      !.as = users[c]]]
  /\ UNCHANGED <<users, joined, revoked, session>>

(* The session holds one object for a row: the caller is not read again. *)
Loaded(p, t) == IF t = update[p].caller THEN update[p].as ELSE users[t]

LoadTarget(p, t, body) ==
  /\ update[p].step = "caller"
  /\ users[t] # None
  /\ MayEdit(update[p].as, Loaded(p, t))
  /\ MayGrant(update[p].as, body)
  /\ NotOneself(update[p].caller, t, body)
  /\ MayMove(update[p].as, body)
  /\ update' = [update EXCEPT ![p].step = "checked", ![p].target = t,
                              ![p].loaded = Loaded(p, t), ![p].body = body]
  /\ UNCHANGED <<users, joined, revoked, session>>

(* The ORM writes the columns whose new value differs from the one loaded. *)
Written(new, loaded, now) == IF new \in {Unset, loaded} THEN now ELSE new

Updated(p) ==
  LET body == update[p].body
      loaded == update[p].loaded
      now == users[update[p].target]
  IN [role |-> Written(body.role, loaded.role, now.role),
      business |-> Written(body.business, loaded.business, now.business),
      agency |-> Written(body.agency, loaded.agency, now.agency),
      active |-> Written(body.active, loaded.active, now.active)]

CommitUpdate(p) ==
  /\ update[p].step = "checked"
  /\ users' = [users EXCEPT ![update[p].target] = Updated(p)]
  /\ update' = [update EXCEPT ![p] = [NoUpdate EXCEPT !.step = "over"]]
  /\ UNCHANGED <<joined, revoked, session>>

(* 403, 404, an error or a crash. *)
LoseUpdate(p) ==
  /\ update[p].step \in {"caller", "checked"}
  /\ update' = [update EXCEPT ![p] = [NoUpdate EXCEPT !.step = "over"]]
  /\ UNCHANGED <<users, joined, revoked, session>>

SessionStep(q) ==
  \/ \E u \in User : CheckLogin(q, u) \/ \E s \in Signups : CheckSignup(q, u, s)
  \/ \E t \in Session : CheckToken(q, t)
  \/ CommitSignup(q) \/ CheckUser(q) \/ IssueTokens(q) \/ LoseSession(q)

UpdateStep(p) ==
  \/ \E u \in User : LoadCaller(p, u) \/ \E body \in Bodies : LoadTarget(p, u, body)
  \/ CommitUpdate(p) \/ LoseUpdate(p)

Next == (\E q \in Session : SessionStep(q)) \/ (\E p \in Update : UpdateStep(p))

Spec == Init /\ [][Next]_vars

-----------------------------------------------------------------------------
(* "prevents moving a user into a foreign agency/business" (users.py:116):  *)
(* as long as nobody signed up with two tenants, a user never comes to      *)
(* belong to another tenant than the one it signed up with, whatever        *)
(* updates overlap and however stale the rows are that they go by.          *)
TenantKept ==
  (\A u \in User : \A a, b \in joined[u] : a = b) =>
    \A u \in User : users[u] # None => Tenants(users[u]) \subseteq joined[u]

TokensOf(root) == {q \in Session : session[q].step = "issued" /\ session[q].root = root}

Refreshes(root) == {q \in TokensOf(root) : session[q].kind = "refresh"}

(* "Rotates and revokes the old token" (test_auth.py:74): a token is        *)
(* rotated again only by a request that read it before the first rotation   *)
(* was committed.  So whoever signed up or logged in has one live refresh   *)
(* token, whatever is lost on the way, and one more for each such overlap.  *)
OneLiveToken ==
  /\ \A q \in Session : session[q].after = {}
  /\ \A root \in Session : TokensOf(root) # {} =>
       Cardinality({q \in TokensOf(root) : revoked[q] = "live"})
         = 1 + Cardinality(Refreshes(root))
             - Cardinality({session[q].token : q \in Refreshes(root)})

HasAdmin(a) ==
  \E u \in User : /\ users[u] # None
                  /\ users[u].role = "agency_admin"
                  /\ users[u].agency = a
                  /\ users[u].active

(* p commits in this step. *)
Commits(p) == update[p].step = "checked" /\ update'[p].step = "over" /\ users' # users

(* The rows p goes by are not the ones there are now. *)
Stale(p) ==
  \/ users[update[p].caller] # update[p].as
  \/ users[update[p].target] # update[p].loaded

(* The comment of rule 3 (users.py:108): nobody can lock themselves out.    *)
(* An agency loses its last active admin only if the admin leaves it, by    *)
(* setting their own agency_id to null, or is a business's user as well, or *)
(* if another update has changed the caller or the target meanwhile.        *)
LastAdminStays ==
  \A a \in Agency : HasAdmin(a) /\ ~HasAdmin(a)' =>
    \E p \in Update :
      /\ Commits(p)
      /\ \/ update[p].caller = update[p].target /\ update[p].body.agency = None
         \/ users[update[p].target].business # None
         \/ Stale(p)

AgencyKeepsAdmin == [][LastAdminStays]_vars
=============================================================================
