--------------------------- MODULE AccountsProofs ---------------------------
(***************************************************************************)
(* Proofs about Accounts, for any users, tenants and requests.             *)
(*                                                                         *)
(* The rules of update_user are checked on rows that may be stale by the   *)
(* time of the commit, so the invariant says what they establish that      *)
(* cannot become false: the rows read, old as they may be, belong to       *)
(* tenants their users signed up with, and a user that signed up with one  *)
(* tenant shares it with whoever may edit it.                              *)
(***************************************************************************)
EXTENDS Accounts, FiniteSetTheorems, TLAPS

(* What a request has read stays the row of a user there is. *)
SessionKnown ==
  \A q \in Session :
    /\ session[q].step \notin {"idle", "lost"} => session[q].user # None
    /\ session[q].step = "token" => session[q].kind # "signup"
    /\ session[q].step = "checked" /\ session[q].kind = "signup" => session[q].row # None
    /\ session[q].token # None => revoked[session[q].token] # "none"
    /\ session[q].step = "issued" => users[session[q].user] # None

UpdateKnown ==
  \A p \in Update :
    /\ update[p].step \in {"caller", "checked"} =>
         /\ update[p].caller # None /\ users[update[p].caller] # None
         /\ update[p].as # None /\ update[p].as.active
    /\ update[p].step = "checked" =>
         /\ update[p].target # None /\ users[update[p].target] # None
         /\ update[p].loaded # None /\ update[p].body \in Body
         /\ MayEdit(update[p].as, update[p].loaded)
         /\ NotOneself(update[p].caller, update[p].target, update[p].body)
         /\ MayMove(update[p].as, update[p].body)

Typed == AccountsTypeOK /\ SessionKnown /\ UpdateKnown

(* A row is a record with these fields, and not None. *)
LEMMA RowType ==
  \A row \in Row : /\ row # None
                   /\ row.role \in Role
                   /\ row.business \in Business \cup {None}
                   /\ row.agency \in Agency \cup {None}
                   /\ row.active \in BOOLEAN
  BY AccountsAssumption DEF Row

(* The tenants of a row are agencies and businesses. *)
LEMMA TenantsType ==
  ASSUME NEW row \in Row
  PROVE  Tenants(row) \subseteq Agency \cup Business
  BY AccountsAssumption, RowType DEF Tenants, TenantOf

LEMMA InitTyped == Init => Typed
<1>. SUFFICES ASSUME Init PROVE Typed
  OBVIOUS
<1>. USE DEF Init
<1>1. users \in [User -> Row \cup {None}]
  BY AccountsAssumption
<1>2. joined \in [User -> SUBSET (Agency \cup Business)]
  <2>1. \A u \in User : Registered[u] # None => Registered[u] \in Row
    BY AccountsAssumption
  <2>. QED
    BY <2>1, TenantsType
<1>3. session \in [Session -> SessionLocals]
  BY DEF NoSession, SessionLocals
<1>4. update \in [Update -> UpdateLocals]
  BY DEF NoUpdate, UpdateLocals
<1>5. AccountsTypeOK
  BY <1>1, <1>2, <1>3, <1>4 DEF AccountsTypeOK, NoSession
<1>6. SessionKnown
  BY DEF SessionKnown, NoSession
<1>7. UpdateKnown
  BY DEF UpdateKnown, NoUpdate
<1>. QED
  BY <1>5, <1>6, <1>7 DEF Typed

(* What an UPDATE leaves behind is a row again. *)
LEMMA UpdatedType ==
  ASSUME Typed, NEW p \in Update, update[p].step = "checked"
  PROVE  /\ update[p].target \in User
         /\ users[update[p].target] \in Row
         /\ Updated(p) \in Row
<1>1. /\ update[p].target \in User
      /\ users[update[p].target] \in Row
      /\ update[p].body \in Body
  BY DEF Typed, AccountsTypeOK, UpdateKnown, UpdateLocals
<1>. DEFINE body == update[p].body
            loaded == update[p].loaded
            now == users[update[p].target]
<1>2. Written(body.role, loaded.role, now.role) \in Role
  BY <1>1 DEF Written, Row, Body
<1>3. Written(body.business, loaded.business, now.business) \in Business \cup {None}
  BY <1>1 DEF Written, Row, Body
<1>4. Written(body.agency, loaded.agency, now.agency) \in Agency \cup {None}
  BY <1>1 DEF Written, Row, Body
<1>5. Written(body.active, loaded.active, now.active) \in BOOLEAN
  BY <1>1 DEF Written, Row, Body
<1>. QED
  BY <1>1, <1>2, <1>3, <1>4, <1>5 DEF Updated, Row

(* A session request writes its locals, and its token if it issues one. *)
LEMMA SessionMoves ==
  ASSUME Typed, NEW q \in Session, NEW new \in SessionLocals,
         session' = [session EXCEPT ![q] = new],
         revoked' \in [Session -> {"none", "live", "revoked"}],
         \A x \in Session \ {q} : revoked'[x] = "none" <=> revoked[x] = "none",
         revoked[q] = "none", revoked'[q] = "none" <=> new.step # "issued",
         UNCHANGED <<users, joined, update>>,
         new.step \notin {"idle", "lost"} => new.user # None,
         new.step = "checked" /\ new.kind = "signup" => new.row # None,
         new.step = "token" => new.kind # "signup",
         new.token \in Session => revoked[new.token] # "none",
         new.user # None /\ (new.kind # "signup" \/ new.step = "issued") => users[new.user] # None
  PROVE  Typed'
<1>1. session' \in [Session -> SessionLocals] /\ session'[q] = new
      /\ \A x \in Session \ {q} : session'[x] = session[x]
  BY DEF Typed, AccountsTypeOK
<1>2. AccountsTypeOK'
  BY <1>1 DEF Typed, AccountsTypeOK
<1>3. SessionKnown'
  BY <1>1, AccountsAssumption DEF Typed, AccountsTypeOK, SessionLocals, SessionKnown
<1>4. UpdateKnown'
  BY DEF Typed, UpdateKnown
<1>. QED
  BY <1>2, <1>3, <1>4 DEF Typed

(* Requests for tokens keep the types. *)
LEMMA SessionTyped ==
  ASSUME Typed, NEW q \in Session, SessionStep(q)
  PROVE  Typed'
<1>. DEFINE at(step) == [session[q] EXCEPT !.step = step]
<1>0. /\ session[q] \in SessionLocals
      /\ revoked \in [Session -> {"none", "live", "revoked"}]
      /\ \A x \in Session : revoked[x] # "none" <=> session[x].step = "issued"
      /\ session[q].user # None /\ session[q].kind # "signup" => users[session[q].user] # None
      /\ session[q].step \notin {"idle", "lost"} => session[q].user # None
      /\ session[q].token # None => revoked[session[q].token] # "none"
  BY DEF Typed, AccountsTypeOK, SessionKnown
<1>1. ASSUME NEW u \in User, CheckLogin(q, u) PROVE Typed'
  <2>. DEFINE new == [NoSession EXCEPT !.step = "checked", !.kind = "login", !.user = u, !.root = q]
  <2>1. new \in SessionLocals /\ new.step = "checked" /\ new.kind = "login" /\ new.user = u
        /\ new.token \notin Session
    BY AccountsAssumption DEF NoSession, SessionLocals
  <2>2. u # None /\ users[u] # None
    BY <1>1, AccountsAssumption DEF CheckLogin
  <2>3. session' = [session EXCEPT ![q] = new] /\ UNCHANGED <<users, joined, revoked, update>>
        /\ session[q].step = "idle"
    BY <1>1 DEF CheckLogin
  <2>. HIDE DEF new
  <2>. QED
    BY <1>0, <2>1, <2>2, <2>3, SessionMoves
<1>2. ASSUME NEW u \in User, NEW s \in Signups, CheckSignup(q, u, s) PROVE Typed'
  <2>. DEFINE new == [NoSession EXCEPT !.step = "checked", !.kind = "signup", !.user = u,
                                       !.row = s, !.root = q]
  <2>1. s \in Row /\ s # None /\ u # None
    BY AccountsAssumption
  <2>2. new \in SessionLocals /\ new.step = "checked" /\ new.kind = "signup" /\ new.user = u
        /\ new.row = s /\ new.token \notin Session
    BY <2>1, AccountsAssumption DEF NoSession, SessionLocals
  <2>3. session' = [session EXCEPT ![q] = new] /\ UNCHANGED <<users, joined, revoked, update>>
        /\ session[q].step = "idle"
    BY <1>2 DEF CheckSignup
  <2>. HIDE DEF new
  <2>. QED
    BY <1>0, <2>1, <2>2, <2>3, SessionMoves
<1>3. ASSUME NEW t \in Session, CheckToken(q, t) PROVE Typed'
  <2>. DEFINE new == [NoSession EXCEPT !.step = "token", !.kind = "refresh",
                                       !.user = session[t].user, !.token = t,
                                       !.root = session[t].root, !.after = Rotated(t)]
  <2>1. session[t].step = "issued"
    BY <1>0, <1>3 DEF CheckToken
  <2>2. /\ session[t].user \in User /\ session[t].user # None /\ users[session[t].user] # None
        /\ session[t].root \in Session \cup {None} /\ Rotated(t) \in SUBSET Session
    BY <2>1 DEF Typed, AccountsTypeOK, SessionKnown, SessionLocals, Rotated
  <2>3. new \in SessionLocals /\ new.step = "token" /\ new.kind = "refresh"
        /\ new.user = session[t].user /\ new.token = t
    BY <2>2 DEF NoSession, SessionLocals
  <2>4. session' = [session EXCEPT ![q] = new] /\ UNCHANGED <<users, joined, revoked, update>>
        /\ session[q].step = "idle" /\ revoked[t] = "live"
    BY <1>3 DEF CheckToken
  <2>. HIDE DEF new
  <2>. QED
    BY <1>0, <2>2, <2>3, <2>4, SessionMoves
<1>4. CASE CommitSignup(q)
  <2>. DEFINE u == session[q].user
  <2>1. u \in User /\ session[q].row \in Row /\ session[q].row # None
    BY <1>4 DEF CommitSignup, Typed, AccountsTypeOK, SessionKnown, SessionLocals
  <2>2. Tenants(session[q].row) \subseteq Agency \cup Business
    BY <2>1, TenantsType
  <2>3. users' \in [User -> Row \cup {None}] /\ joined' \in [User -> SUBSET (Agency \cup Business)]
    BY <1>4, <2>1, <2>2 DEF CommitSignup, Typed, AccountsTypeOK
  <2>4. \A x \in User : users[x] # None => users'[x] # None
    BY <1>4, <2>1 DEF CommitSignup, Typed, AccountsTypeOK
  <2>5. users'[u] # None
    BY <1>4, <2>1 DEF CommitSignup, Typed, AccountsTypeOK
  <2>. DEFINE new == [session[q] EXCEPT !.step = "issued", !.row = None]
  <2>a. new \in SessionLocals /\ new.step = "issued" /\ new.kind = session[q].kind
        /\ new.user = u /\ new.token = session[q].token
    BY <1>0 DEF SessionLocals
  <2>b. session' = [session EXCEPT ![q] = new] /\ session[q].kind = "signup"
    BY <1>4 DEF CommitSignup
  <2>. HIDE DEF new
  <2>6. /\ session' \in [Session -> SessionLocals]
        /\ session'[q].step = "issued" /\ session'[q].kind = "signup" /\ session'[q].user = u
        /\ session'[q].token = session[q].token
        /\ \A x \in Session \ {q} : session'[x] = session[x]
    BY <2>a, <2>b DEF Typed, AccountsTypeOK
  <2>7. /\ revoked' \in [Session -> {"none", "live", "revoked"}]
        /\ revoked'[q] = "live" /\ \A x \in Session \ {q} : revoked'[x] = revoked[x]
    BY <1>4 DEF CommitSignup, Typed, AccountsTypeOK
  <2>8. \A x \in Session : session'[x].user = session[x].user /\ session'[x].kind = session[x].kind
        /\ session'[x].token = session[x].token
        /\ session[x].user \in User \cup {None} /\ session[x].token \in Session \cup {None}
    BY <1>4, <2>6, <2>b DEF CommitSignup, Typed, AccountsTypeOK, SessionLocals
  <2>9. AccountsTypeOK'
    BY <1>4, <2>3, <2>4, <2>6, <2>7, <2>8 DEF CommitSignup, Typed, AccountsTypeOK
  <2>10. SessionKnown'
    <3>1. \A x \in Session : session[x].token # None =>
            revoked[session[x].token] # "none" /\ revoked'[session[x].token] # "none"
      BY <2>7, <2>8 DEF Typed, SessionKnown
    <3>2. \A x \in Session \ {q} : session[x].step = "issued" => users'[session[x].user] # None
      BY <2>4, <2>8 DEF Typed, SessionKnown
    <3>3. \A x \in Session \ {q} :
            /\ session[x].step \notin {"idle", "lost"} => session[x].user # None
            /\ session[x].step = "token" => session[x].kind # "signup"
            /\ session[x].step = "checked" /\ session[x].kind = "signup" => session[x].row # None
      BY DEF Typed, SessionKnown
    <3>4. u # None /\ \A x \in Session : session'[x].token = session[x].token
      BY <2>1, <2>8, AccountsAssumption
    <3>. QED
      BY <2>5, <2>6, <3>1, <3>2, <3>3, <3>4 DEF SessionKnown
  <2>11. UpdateKnown'
    BY <1>4, <2>4 DEF CommitSignup, Typed, AccountsTypeOK, UpdateLocals, UpdateKnown
  <2>. QED
    BY <2>9, <2>10, <2>11 DEF Typed
<1>5. CASE CheckUser(q)
  <2>1. at("checked") \in SessionLocals /\ at("checked").step = "checked"
        /\ at("checked").kind = session[q].kind /\ at("checked").user = session[q].user
        /\ at("checked").row = session[q].row /\ at("checked").token = session[q].token
    BY <1>0 DEF SessionLocals
  <2>2. session' = [session EXCEPT ![q] = at("checked")]
        /\ UNCHANGED <<users, joined, revoked, update>> /\ session[q].step = "token"
    BY <1>5 DEF CheckUser
  <2>3. session[q].kind # "signup"
    BY <2>2 DEF Typed, SessionKnown
  <2>4. at("checked").token \in Session => revoked[at("checked").token] # "none"
    BY <1>0, <2>1, AccountsAssumption
  <2>5. revoked[q] = "none"
    BY <1>0, <2>2
  <2>. HIDE DEF at
  <2>. QED
    BY <1>0, <2>1, <2>2, <2>3, <2>4, <2>5, SessionMoves
<1>6. CASE IssueTokens(q)
  <2>1. at("issued") \in SessionLocals /\ at("issued").step = "issued"
        /\ at("issued").kind = session[q].kind /\ at("issued").user = session[q].user
        /\ at("issued").token = session[q].token
    BY <1>0 DEF SessionLocals
  <2>2. session' = [session EXCEPT ![q] = at("issued")] /\ UNCHANGED <<users, joined, update>>
        /\ session[q].step = "checked" /\ session[q].kind # "signup"
    BY <1>6 DEF IssueTokens
  <2>3. /\ revoked' \in [Session -> {"none", "live", "revoked"}] /\ revoked'[q] = "live"
        /\ \A x \in Session \ {q} : x = session[q].token \/ revoked'[x] = revoked[x]
        /\ \A x \in Session \ {q} : x = session[q].token => revoked'[x] = "revoked"
    BY <1>0, <1>6 DEF IssueTokens
  <2>4. \A x \in Session : x = session[q].token => revoked[x] # "none"
    BY <1>0, AccountsAssumption
  <2>. HIDE DEF at
  <2>. QED
    BY <1>0, <2>1, <2>2, <2>3, <2>4, SessionMoves
<1>7. CASE LoseSession(q)
  <2>. DEFINE new == [NoSession EXCEPT !.step = "lost"]
  <2>1. new \in SessionLocals /\ new.step = "lost" /\ new.user = None
        /\ new.token \notin Session
    BY AccountsAssumption DEF NoSession, SessionLocals
  <2>2. session' = [session EXCEPT ![q] = new] /\ UNCHANGED <<users, joined, revoked, update>>
        /\ session[q].step # "issued"
    BY <1>7 DEF LoseSession
  <2>. HIDE DEF new
  <2>. QED
    BY <1>0, <2>1, <2>2, SessionMoves
<1>. QED
  BY <1>1, <1>2, <1>3, <1>4, <1>5, <1>6, <1>7 DEF SessionStep

(* An update writes its locals; only its commit writes anything else. *)
LEMMA UpdateMoves ==
  ASSUME Typed, NEW p \in Update, NEW new \in UpdateLocals,
         update' = [update EXCEPT ![p] = new],
         UNCHANGED <<joined, revoked, session>>,
         users' \in [User -> Row \cup {None}],
         \A u \in User : users[u] # None => users'[u] # None,
         new.step \in {"caller", "checked"} =>
           /\ new.caller # None /\ users[new.caller] # None
           /\ new.as # None /\ new.as.active,
         new.step = "checked" =>
           /\ new.target # None /\ users[new.target] # None
           /\ new.loaded # None /\ new.body \in Body
           /\ MayEdit(new.as, new.loaded)
           /\ NotOneself(new.caller, new.target, new.body)
           /\ MayMove(new.as, new.body)
  PROVE  Typed'
<1>1. update' \in [Update -> UpdateLocals] /\ update'[p] = new
      /\ \A x \in Update \ {p} : update'[x] = update[x]
  BY DEF Typed, AccountsTypeOK
<1>2. \A q \in Session : session[q].user \in User \cup {None}
  BY DEF Typed, AccountsTypeOK, SessionLocals
<1>3. AccountsTypeOK'
  BY <1>1, <1>2 DEF Typed, AccountsTypeOK
<1>4. SessionKnown'
  BY <1>2 DEF Typed, SessionKnown
<1>5. \A x \in Update : /\ update[x].caller \in User \cup {None}
                        /\ update[x].target \in User \cup {None}
                        /\ update'[x].caller \in User \cup {None}
                        /\ update'[x].target \in User \cup {None}
  BY <1>1 DEF Typed, AccountsTypeOK, UpdateLocals
<1>6. UpdateKnown'
  BY <1>1, <1>5 DEF Typed, UpdateKnown
<1>. QED
  BY <1>3, <1>4, <1>6 DEF Typed

(* Updates of users keep the types too. *)
LEMMA UpdateTyped ==
  ASSUME Typed, NEW p \in Update, UpdateStep(p)
  PROVE  Typed'
<1>0. update[p] \in UpdateLocals /\ users \in [User -> Row \cup {None}]
  BY DEF Typed, AccountsTypeOK
<1>. DEFINE over == [NoUpdate EXCEPT !.step = "over"]
<1>a. over \in UpdateLocals /\ over.step = "over"
  BY DEF NoUpdate, UpdateLocals
<1>1. ASSUME NEW c \in User, LoadCaller(p, c) PROVE Typed'
  <2>. DEFINE new == [NoUpdate EXCEPT !.step = "caller", !.caller = c, !.as = users[c]]
  <2>1. c # None /\ users[c] \in Row /\ users[c] # None /\ users[c].active
    BY <1>0, <1>1, AccountsAssumption DEF LoadCaller
  <2>2. new \in UpdateLocals /\ new.step = "caller" /\ new.caller = c /\ new.as = users[c]
    BY <2>1 DEF NoUpdate, UpdateLocals
  <2>3. update' = [update EXCEPT ![p] = new] /\ UNCHANGED <<users, joined, revoked, session>>
    BY <1>1 DEF LoadCaller
  <2>. HIDE DEF new
  <2>. QED
    BY <1>0, <2>1, <2>2, <2>3, UpdateMoves
<1>2. ASSUME NEW t \in User, NEW body \in Bodies, LoadTarget(p, t, body) PROVE Typed'
  <2>. DEFINE new == [update[p] EXCEPT !.step = "checked", !.target = t, !.loaded = Loaded(p, t),
                                       !.body = body]
  <2>1. /\ update[p].step = "caller" /\ users[t] # None /\ t # None /\ body \in Body
        /\ MayEdit(update[p].as, Loaded(p, t))
        /\ NotOneself(update[p].caller, t, body)
        /\ MayMove(update[p].as, body)
    BY <1>2, AccountsAssumption DEF LoadTarget
  <2>2. /\ update[p].caller # None /\ users[update[p].caller] # None
        /\ update[p].as # None /\ update[p].as.active
    BY <2>1 DEF Typed, UpdateKnown
  <2>3. Loaded(p, t) \in Row /\ Loaded(p, t) # None
    BY <1>0, <2>1, <2>2, RowType DEF Loaded, UpdateLocals
  <2>4. /\ new \in UpdateLocals /\ new.step = "checked" /\ new.target = t
        /\ new.loaded = Loaded(p, t) /\ new.body = body
        /\ new.caller = update[p].caller /\ new.as = update[p].as
    BY <1>0, <2>1, <2>3 DEF UpdateLocals
  <2>5. update' = [update EXCEPT ![p] = new] /\ UNCHANGED <<users, joined, revoked, session>>
    BY <1>2 DEF LoadTarget
  <2>. HIDE DEF new
  <2>. QED
    BY <1>0, <2>1, <2>2, <2>3, <2>4, <2>5, UpdateMoves
<1>3. CASE CommitUpdate(p)
  <2>1. Updated(p) \in Row /\ Updated(p) # None /\ update[p].target \in User
    BY <1>3, UpdatedType, RowType DEF CommitUpdate
  <2>2. update' = [update EXCEPT ![p] = over] /\ UNCHANGED <<joined, revoked, session>>
        /\ users' = [users EXCEPT ![update[p].target] = Updated(p)]
    BY <1>3 DEF CommitUpdate
  <2>3. users' \in [User -> Row \cup {None}] /\ \A u \in User : users[u] # None => users'[u] # None
    BY <1>0, <2>1, <2>2
  <2>. HIDE DEF over
  <2>. QED
    BY <1>a, <2>2, <2>3, UpdateMoves
<1>4. CASE LoseUpdate(p)
  <2>1. update' = [update EXCEPT ![p] = over] /\ UNCHANGED <<users, joined, revoked, session>>
    BY <1>4 DEF LoseUpdate
  <2>. HIDE DEF over
  <2>. QED
    BY <1>0, <1>a, <2>1, UpdateMoves
<1>. QED
  BY <1>1, <1>2, <1>3, <1>4 DEF UpdateStep

LEMMA StepTyped == Typed /\ [Next]_vars => Typed'
<1>. SUFFICES ASSUME Typed, [Next]_vars PROVE Typed'
  OBVIOUS
<1>1. CASE UNCHANGED vars
  BY <1>1 DEF vars, Typed, AccountsTypeOK, SessionKnown, UpdateKnown
<1>. QED
  BY <1>1, SessionTyped, UpdateTyped DEF Next

(* The state has its type, whoever is registered and whatever is asked for. *)
THEOREM AccountsTypeCorrect == Spec => []AccountsTypeOK
<1>1. Typed => AccountsTypeOK
  BY DEF Typed
<1>. QED
  BY <1>1, InitTyped, StepTyped, PTL DEF Spec

-----------------------------------------------------------------------------
(* Nobody signed up with two tenants. *)
OneTenant == \A u \in User : \A a, b \in joined[u] : a = b

(* The tenants that a body names are ones its target signed up with. *)
BodyKeeps(p) ==
  /\ update[p].body.business \in Business =>
       TenantOf(update[p].body.business) \in joined[update[p].target]
  /\ update[p].body.agency \in Agency => update[p].body.agency \in joined[update[p].target]

Joined == \A u \in User : users[u] = None => joined[u] = {}

RowsKept == \A u \in User : users[u] # None => Tenants(users[u]) \subseteq joined[u]

ReadKept ==
  \A p \in Update :
    /\ update[p].step \in {"caller", "checked"} =>
         Tenants(update[p].as) \subseteq joined[update[p].caller]
    /\ update[p].step = "checked" => BodyKeeps(p)

TenantInv == Typed /\ Joined /\ (OneTenant => RowsKept /\ ReadKept)

LEMMA TenantsAre ==
  ASSUME NEW row, NEW x
  PROVE  x \in Tenants(row) <=> \/ row.business # None /\ x = TenantOf(row.business)
                                \/ row.agency # None /\ x = row.agency
  BY DEF Tenants

(* Whoever may write a business or an agency belongs to its tenant. *)
LEMMA WritersShare ==
  ASSUME NEW as \in Row
  PROVE  /\ \A b \in Business : CanWriteBusiness(as, b) => TenantOf(b) \in Tenants(as)
         /\ \A a \in Agency : CanWriteAgency(as, a) => a \in Tenants(as)
<1>1. ASSUME NEW b \in Business, CanWriteBusiness(as, b) PROVE TenantOf(b) \in Tenants(as)
  <2>1. b # None
    BY AccountsAssumption
  <2>2. CASE as.business = b
    BY <2>1, <2>2, TenantsAre
  <2>3. CASE as.agency # None /\ as.agency = AgencyOf[b]
    BY <2>3, TenantsAre DEF TenantOf
  <2>. QED
    BY <1>1, <2>2, <2>3 DEF CanWriteBusiness, CanAccessBusiness
<1>2. ASSUME NEW a \in Agency, CanWriteAgency(as, a) PROVE a \in Tenants(as)
  BY <1>2, TenantsAre, AccountsAssumption DEF CanWriteAgency
<1>. QED
  BY <1>1, <1>2

(* Whoever may edit a row belongs to one of its tenants. *)
LEMMA EditorsShare ==
  ASSUME NEW as \in Row, NEW row \in Row, MayEdit(as, row)
  PROVE  \E t \in Tenants(row) : t \in Tenants(as)
<1>1. CASE row.business # None /\ CanWriteBusiness(as, row.business)
  BY <1>1, RowType, WritersShare, TenantsAre
<1>2. CASE row.business = None /\ row.agency # None /\ CanWriteAgency(as, row.agency)
  BY <1>2, RowType, WritersShare, TenantsAre
<1>. QED
  BY <1>1, <1>2 DEF MayEdit

LEMMA InitTenants == Init => TenantInv
<1>. SUFFICES ASSUME Init PROVE TenantInv
  OBVIOUS
<1>1. Typed
  BY InitTyped
<1>2. Joined /\ RowsKept
  BY DEF Init, Joined, RowsKept
<1>3. ReadKept
  BY DEF Init, NoUpdate, ReadKept
<1>. QED
  BY <1>1, <1>2, <1>3 DEF TenantInv

(* A signup gives its user the tenants it asks for, and nobody else any. *)
LEMMA SessionTenants ==
  ASSUME TenantInv, NEW q \in Session, SessionStep(q)
  PROVE  TenantInv'
<1>1. Typed'
  BY SessionTyped DEF TenantInv
<1>2. CASE UNCHANGED <<users, joined, update>>
  BY <1>1, <1>2 DEF TenantInv, Joined, OneTenant, RowsKept, ReadKept, BodyKeeps
<1>3. CASE CommitSignup(q)
  <2>. DEFINE u == session[q].user
              row == session[q].row
  <2>1. /\ users \in [User -> Row \cup {None}]
        /\ joined \in [User -> SUBSET (Agency \cup Business)]
        /\ u \in User /\ users[u] = None /\ row # None
    BY <1>3 DEF CommitSignup, TenantInv, Typed, AccountsTypeOK, SessionKnown, SessionLocals
  <2>2. users' = [users EXCEPT ![u] = row] /\ joined' = [joined EXCEPT ![u] = Tenants(row)]
        /\ update' = update
    BY <1>3 DEF CommitSignup
  <2>3. joined[u] = {} /\ \A x \in User \ {u} : users'[x] = users[x] /\ joined'[x] = joined[x]
    BY <2>1, <2>2 DEF TenantInv, Joined
  <2>4. users'[u] = row /\ joined'[u] = Tenants(row)
    BY <2>1, <2>2
  <2>. HIDE DEF u, row
  <2>5. Joined'
    BY <2>1, <2>3, <2>4 DEF TenantInv, Joined
  <2>6. OneTenant' => OneTenant
    BY <2>3 DEF OneTenant
  <2>7. ASSUME OneTenant' PROVE RowsKept'
    BY <2>3, <2>4, <2>6, <2>7 DEF TenantInv, RowsKept
  <2>8. ASSUME OneTenant' PROVE ReadKept'
    <3>1. \A p \in Update :
            /\ update[p].step \in {"caller", "checked"} =>
                 update[p].caller \in User \ {u}
            /\ update[p].step = "checked" => update[p].target \in User \ {u}
      BY <2>1 DEF TenantInv, Typed, AccountsTypeOK, UpdateKnown, UpdateLocals
    <3>. QED
      BY <2>2, <2>3, <2>6, <2>8, <3>1 DEF TenantInv, ReadKept, BodyKeeps
  <2>. QED
    BY <1>1, <2>5, <2>7, <2>8 DEF TenantInv
<1>. QED
  BY <1>2, <1>3 DEF SessionStep, CheckLogin, CheckSignup, CheckToken, CheckUser, IssueTokens,
                    LoseSession

(* The caller and the target share a tenant, and it is the only one of      *)
(* either: what the caller may write is the target's tenant as well.        *)
LEMMA UpdateTenants ==
  ASSUME TenantInv, NEW p \in Update, UpdateStep(p)
  PROVE  TenantInv'
<1>0. /\ update \in [Update -> UpdateLocals] /\ update[p] \in UpdateLocals
      /\ users \in [User -> Row \cup {None}]
      /\ joined \in [User -> SUBSET (Agency \cup Business)]
  BY DEF TenantInv, Typed, AccountsTypeOK
<1>1. Typed' /\ joined' = joined
  BY UpdateTyped DEF TenantInv, UpdateStep, LoadCaller, LoadTarget, CommitUpdate, LoseUpdate
<1>2. OneTenant' <=> OneTenant
  BY <1>1 DEF OneTenant
<1>3. ASSUME NEW c \in User, LoadCaller(p, c) PROVE TenantInv'
  <2>1. users' = users /\ users[c] # None
        /\ \A x \in Update \ {p} : update'[x] = update[x]
    BY <1>0, <1>3 DEF LoadCaller
  <2>2. update'[p].step = "caller" /\ update'[p].caller = c /\ update'[p].as = users[c]
    BY <1>0, <1>3 DEF LoadCaller, NoUpdate
  <2>3. Joined' /\ (RowsKept => RowsKept')
    BY <1>1, <2>1 DEF TenantInv, Joined, RowsKept
  <2>4. RowsKept /\ ReadKept => ReadKept'
    BY <1>1, <2>1, <2>2 DEF RowsKept, ReadKept, BodyKeeps
  <2>. QED
    BY <1>1, <1>2, <2>3, <2>4 DEF TenantInv
<1>4. ASSUME NEW t \in User, NEW body \in Bodies, LoadTarget(p, t, body) PROVE TenantInv'
  <2>. DEFINE as == update[p].as
              loaded == Loaded(p, t)
  <2>1. /\ users' = users /\ users[t] # None /\ body \in Body /\ update[p].step = "caller"
        /\ \A x \in Update \ {p} : update'[x] = update[x]
        /\ MayEdit(as, loaded) /\ MayMove(as, body)
    BY <1>0, <1>4, AccountsAssumption DEF LoadTarget
  <2>2. /\ update'[p].step = "checked" /\ update'[p].caller = update[p].caller
        /\ update'[p].as = as /\ update'[p].target = t /\ update'[p].body = body
    BY <1>0, <1>4 DEF LoadTarget, UpdateLocals
  <2>3. as \in Row /\ update[p].caller \in User
    BY <1>0, <2>1 DEF TenantInv, Typed, UpdateKnown, UpdateLocals
  <2>4. loaded \in Row
    BY <1>0, <2>1, <2>3 DEF Loaded
  <2>5. Joined' /\ (RowsKept => RowsKept')
    BY <1>1, <2>1 DEF TenantInv, Joined, RowsKept
  <2>6. ASSUME OneTenant, RowsKept, ReadKept PROVE ReadKept'
    <3>1. Tenants(as) \subseteq joined[update[p].caller]
      BY <2>1, <2>6 DEF ReadKept
    <3>2. Tenants(loaded) \subseteq joined[t]
      BY <2>1, <2>6, <3>1 DEF RowsKept, Loaded
    <3>3. PICK common \in Tenants(loaded) : common \in Tenants(as)
      BY <2>1, <2>3, <2>4, EditorsShare
    <3>4. \A x \in Tenants(as) : x \in joined[t]
      BY <2>3, <2>6, <3>1, <3>2, <3>3 DEF OneTenant
    <3>5. /\ body.business \in Business => TenantOf(body.business) \in joined[t]
          /\ body.agency \in Agency => body.agency \in joined[t]
      BY <2>1, <2>3, <3>4, WritersShare DEF MayMove
    <3>6. BodyKeeps(p)'
      BY <1>1, <2>2, <3>5 DEF BodyKeeps
    <3>. QED
      BY <1>1, <2>1, <2>2, <2>6, <3>1, <3>6 DEF ReadKept, BodyKeeps
  <2>. QED
    BY <1>1, <1>2, <2>5, <2>6 DEF TenantInv
<1>5. CASE CommitUpdate(p)
  <2>. DEFINE t == update[p].target
  <2>1. /\ t \in User /\ users[t] \in Row /\ users[t] # None /\ update[p].step = "checked"
        /\ Updated(p) # None
    BY <1>5, UpdatedType, RowType DEF CommitUpdate, TenantInv
  <2>2. /\ users'[t] = Updated(p) /\ \A x \in User \ {t} : users'[x] = users[x]
        /\ \A x \in Update \ {p} : update'[x] = update[x]
        /\ update'[p].step = "over"
    BY <1>0, <1>5, <2>1 DEF CommitUpdate, NoUpdate
  <2>3. Joined'
    BY <1>1, <2>1, <2>2 DEF TenantInv, Joined
  <2>4. ReadKept => ReadKept'
    BY <1>1, <2>2 DEF ReadKept, BodyKeeps
  <2>5. ASSUME RowsKept, ReadKept PROVE RowsKept'
    <3>1. Updated(p).business # None => TenantOf(Updated(p).business) \in joined[t]
      <4>1. CASE Updated(p).business = users[t].business
        BY <2>1, <2>5, <4>1, TenantsAre DEF RowsKept
      <4>2. CASE Updated(p).business = update[p].body.business /\ update[p].body.business # Unset
        BY <1>0, <2>1, <2>5, <4>2 DEF ReadKept, BodyKeeps, TenantInv, Typed, UpdateKnown, Body
      <4>. QED
        BY <4>1, <4>2 DEF Updated, Written
    <3>2. Updated(p).agency # None => Updated(p).agency \in joined[t]
      <4>1. CASE Updated(p).agency = users[t].agency
        BY <2>1, <2>5, <4>1, TenantsAre DEF RowsKept
      <4>2. CASE Updated(p).agency = update[p].body.agency /\ update[p].body.agency # Unset
        BY <1>0, <2>1, <2>5, <4>2 DEF ReadKept, BodyKeeps, TenantInv, Typed, UpdateKnown, Body
      <4>. QED
        BY <4>1, <4>2 DEF Updated, Written
    <3>3. Tenants(Updated(p)) \subseteq joined[t]
      BY <3>1, <3>2, TenantsAre
    <3>. QED
      BY <1>1, <2>2, <2>5, <3>3 DEF RowsKept
  <2>. QED
    BY <1>1, <1>2, <2>3, <2>4, <2>5 DEF TenantInv
<1>6. CASE LoseUpdate(p)
  <2>1. users' = users /\ update'[p].step = "over"
        /\ \A x \in Update \ {p} : update'[x] = update[x]
    BY <1>0, <1>6 DEF LoseUpdate, NoUpdate
  <2>. QED
    BY <1>1, <1>2, <2>1 DEF TenantInv, Joined, RowsKept, ReadKept, BodyKeeps
<1>. QED
  BY <1>3, <1>4, <1>5, <1>6 DEF UpdateStep

LEMMA StepTenants == TenantInv /\ [Next]_vars => TenantInv'
<1>. SUFFICES ASSUME TenantInv, [Next]_vars PROVE TenantInv'
  OBVIOUS
<1>1. CASE UNCHANGED vars
  BY <1>1, StepTyped DEF vars, TenantInv, Joined, OneTenant, RowsKept, ReadKept, BodyKeeps
<1>. QED
  BY <1>1, SessionTenants, UpdateTenants DEF Next

(* Updates move nobody to another tenant, however they overlap. *)
THEOREM NobodyChangesTenant == Spec => []TenantKept
<1>1. TenantInv => TenantKept
  BY DEF TenantInv, OneTenant, RowsKept, TenantKept
<1>. QED
  BY <1>1, InitTenants, StepTenants, PTL DEF Spec

-----------------------------------------------------------------------------
(* A request goes by the token it presents and inherits its root; a signup  *)
(* or a login presents none and is the root of its own.                     *)
Descends ==
  \A q \in Session : session[q].step \in {"token", "checked", "issued"} =>
    IF session[q].kind = "refresh"
    THEN /\ session[q].token \in Session
         /\ session[session[q].token].step = "issued"
         /\ session[session[q].token].root = session[q].root
    ELSE session[q].token = None /\ session[q].root = q

RootsIssued ==
  \A q \in Session : session[q].step = "issued" =>
    /\ session[q].root \in Session
    /\ session[session[q].root].step = "issued"
    /\ session[session[q].root].kind # "refresh"

(* A token is revoked if and only if it was rotated. *)
Rotation ==
  /\ \A q \in Session : session[q].step = "issued" /\ session[q].kind = "refresh" =>
       revoked[session[q].token] = "revoked"
  /\ \A t \in Session : revoked[t] = "revoked" => Rotated(t) # {}

NoneAfter == \A q \in Session : session[q].after = {}

TokenInv == Typed /\ Descends /\ RootsIssued /\ Rotation /\ NoneAfter

LEMMA InitTokens == Init => TokenInv
<1>. SUFFICES ASSUME Init PROVE TokenInv
  OBVIOUS
<1>1. \A q \in Session : session[q].step = "idle" /\ session[q].after = {} /\ revoked[q] = "none"
  BY DEF Init, NoSession
<1>. QED
  BY <1>1, InitTyped DEF TokenInv, Descends, RootsIssued, Rotation, NoneAfter

(* A request that has not issued its token, or does not now, leaves the     *)
(* tokens there are alone.                                                  *)
LEMMA PresentsOnly ==
  ASSUME TokenInv, NEW q \in Session, NEW new \in SessionLocals,
         session' = [session EXCEPT ![q] = new], revoked' = revoked,
         session[q].step # "issued", new.step # "issued",
         new.after = {},
         new.step \in {"token", "checked"} =>
           IF new.kind = "refresh"
           THEN /\ new.token \in Session /\ session[new.token].step = "issued"
                /\ session[new.token].root = new.root
           ELSE new.token = None /\ new.root = q
  PROVE  (Descends /\ RootsIssued /\ Rotation /\ NoneAfter)'
<1>1. session'[q] = new /\ \A x \in Session \ {q} : session'[x] = session[x]
  BY DEF TokenInv, Typed, AccountsTypeOK
<1>2. \A x \in Session : session'[x].step = "issued" <=> session[x].step = "issued"
  BY <1>1
<1>3. \A x \in Session : session[x].step = "issued" => session'[x] = session[x]
  BY <1>1
<1>4. Descends'
  BY <1>1, <1>2, <1>3 DEF TokenInv, Descends
<1>5. RootsIssued'
  BY <1>2, <1>3 DEF TokenInv, RootsIssued
<1>6. \A t \in Session : Rotated(t)' = Rotated(t)
  BY <1>2, <1>3 DEF Rotated
<1>7. Rotation'
  BY <1>2, <1>3, <1>6 DEF TokenInv, Rotation
<1>8. NoneAfter'
  BY <1>1 DEF TokenInv, NoneAfter
<1>. QED
  BY <1>4, <1>5, <1>7, <1>8

(* The request that issues a token revokes the one it presents. *)
LEMMA Issues ==
  ASSUME TokenInv, NEW q \in Session, NEW new \in SessionLocals,
         session' = [session EXCEPT ![q] = new],
         session[q].step = "checked", new.step = "issued",
         new.kind = session[q].kind, new.token = session[q].token,
         new.root = session[q].root, new.after = session[q].after,
         revoked' = [t \in Session |-> IF t = q THEN "live"
                                      ELSE IF t = session[q].token THEN "revoked"
                                      ELSE revoked[t]]
  PROVE  (Descends /\ RootsIssued /\ Rotation /\ NoneAfter)'
<1>1. session'[q] = new /\ \A x \in Session \ {q} : session'[x] = session[x]
  BY DEF TokenInv, Typed, AccountsTypeOK
<1>2. \A x \in Session : session'[x].step = "issued" <=> x = q \/ session[x].step = "issued"
  BY <1>1
<1>3. \A x \in Session : /\ session'[x].kind = session[x].kind /\ session'[x].token = session[x].token
                         /\ session'[x].root = session[x].root /\ session'[x].after = session[x].after
  BY <1>1
<1>4. \A x \in Session : session'[x].step \in {"token", "checked", "issued"} =>
                           session[x].step \in {"token", "checked", "issued"}
  BY <1>1
<1>5. Descends'
  BY <1>2, <1>3, <1>4 DEF TokenInv, Descends
<1>6. RootsIssued'
  <2>1. CASE session[q].kind = "refresh"
    BY <1>2, <1>3, <2>1 DEF TokenInv, Descends, RootsIssued
  <2>2. CASE session[q].kind # "refresh"
    BY <1>2, <1>3, <2>2 DEF TokenInv, Descends, RootsIssued
  <2>. QED
    BY <2>1, <2>2
<1>7. session[q].token # q
  <2>1. session[q].kind = "refresh" => session[session[q].token].step = "issued"
    BY DEF TokenInv, Descends
  <2>2. session[q].kind # "refresh" => session[q].token = None
    BY DEF TokenInv, Descends
  <2>. QED
    BY <2>1, <2>2, AccountsAssumption
<1>8. Rotation'
  <2>1. ASSUME NEW x \in Session, session'[x].step = "issued", session'[x].kind = "refresh"
        PROVE  revoked'[session'[x].token] = "revoked"
    <3>1. session[x].token \in Session /\ session[x].token # q
      BY <1>2, <1>3, <1>7, <2>1 DEF TokenInv, Descends
    <3>2. CASE x = q
      BY <1>3, <3>1, <3>2
    <3>3. CASE x # q
      BY <1>2, <1>3, <2>1, <3>1, <3>3 DEF TokenInv, Rotation
    <3>. QED
      BY <3>2, <3>3
  <2>2. ASSUME NEW t \in Session, revoked'[t] = "revoked"
        PROVE  Rotated(t)' # {}
    <3>1. t # q
      BY <2>2
    <3>2. CASE t = session[q].token
      BY <1>2, <1>3, <3>2 DEF Rotated
    <3>3. CASE t # session[q].token
      BY <1>2, <1>3, <2>2, <3>1, <3>3 DEF TokenInv, Rotation, Rotated
    <3>. QED
      BY <3>2, <3>3
  <2>. QED
    BY <2>1, <2>2 DEF Rotation
<1>9. NoneAfter'
  BY <1>3 DEF TokenInv, NoneAfter
<1>. QED
  BY <1>5, <1>6, <1>8, <1>9

LEMMA SessionTokens ==
  ASSUME TokenInv, NEW q \in Session, SessionStep(q)
  PROVE  TokenInv'
<1>0. Typed' /\ session[q] \in SessionLocals
  BY SessionTyped DEF TokenInv, Typed, AccountsTypeOK
<1>. DEFINE at(step) == [session[q] EXCEPT !.step = step]
<1>1. ASSUME NEW u \in User, CheckLogin(q, u) PROVE TokenInv'
  <2>. DEFINE new == [NoSession EXCEPT !.step = "checked", !.kind = "login", !.user = u, !.root = q]
  <2>1. new \in SessionLocals /\ new.step = "checked" /\ new.kind = "login" /\ new.root = q
        /\ new.token = None /\ new.after = {}
    BY DEF NoSession, SessionLocals
  <2>2. session' = [session EXCEPT ![q] = new] /\ revoked' = revoked /\ session[q].step = "idle"
    BY <1>1 DEF CheckLogin
  <2>. HIDE DEF new
  <2>. QED
    BY <1>0, <2>1, <2>2, PresentsOnly DEF TokenInv
<1>2. ASSUME NEW u \in User, NEW s \in Signups, CheckSignup(q, u, s) PROVE TokenInv'
  <2>. DEFINE new == [NoSession EXCEPT !.step = "checked", !.kind = "signup", !.user = u,
                                       !.row = s, !.root = q]
  <2>1. s \in Row
    BY AccountsAssumption
  <2>2. new \in SessionLocals /\ new.step = "checked" /\ new.kind = "signup" /\ new.root = q
        /\ new.token = None /\ new.after = {}
    BY <2>1 DEF NoSession, SessionLocals
  <2>3. session' = [session EXCEPT ![q] = new] /\ revoked' = revoked /\ session[q].step = "idle"
    BY <1>2 DEF CheckSignup
  <2>. HIDE DEF new
  <2>. QED
    BY <1>0, <2>2, <2>3, PresentsOnly DEF TokenInv
<1>3. ASSUME NEW t \in Session, CheckToken(q, t) PROVE TokenInv'
  <2>. DEFINE new == [NoSession EXCEPT !.step = "token", !.kind = "refresh",
                                       !.user = session[t].user, !.token = t,
                                       !.root = session[t].root, !.after = Rotated(t)]
  <2>1. session[t].step = "issued" /\ revoked[t] = "live" /\ session[t] \in SessionLocals
    BY <1>3 DEF CheckToken, TokenInv, Typed, AccountsTypeOK
  <2>2. Rotated(t) = {}
    <3>1. ASSUME NEW x \in Rotated(t) PROVE FALSE
      <4>1. x \in Session /\ session[x].step = "issued" /\ session[x].token = t
        BY <3>1 DEF Rotated
      <4>2. session[x].kind = "refresh"
        BY <4>1, AccountsAssumption DEF TokenInv, Descends
      <4>. QED
        BY <2>1, <4>1, <4>2 DEF TokenInv, Rotation
    <3>. QED
      BY <3>1
  <2>3. new \in SessionLocals /\ new.step = "token" /\ new.kind = "refresh" /\ new.token = t
        /\ new.root = session[t].root /\ new.after = {}
    BY <2>1, <2>2 DEF NoSession, SessionLocals
  <2>4. session' = [session EXCEPT ![q] = new] /\ revoked' = revoked /\ session[q].step = "idle"
    BY <1>3 DEF CheckToken
  <2>. HIDE DEF new
  <2>. QED
    BY <1>0, <2>1, <2>3, <2>4, PresentsOnly DEF TokenInv
<1>4. CASE CommitSignup(q)
  <2>. DEFINE new == [session[q] EXCEPT !.step = "issued", !.row = None]
  <2>1. /\ new \in SessionLocals /\ new.step = "issued" /\ new.kind = session[q].kind
        /\ new.token = session[q].token /\ new.root = session[q].root
        /\ new.after = session[q].after
    BY <1>0 DEF SessionLocals
  <2>2. session' = [session EXCEPT ![q] = new] /\ session[q].step = "checked"
        /\ session[q].kind = "signup" /\ revoked' = [revoked EXCEPT ![q] = "live"]
    BY <1>4 DEF CommitSignup
  <2>3. session[q].token = None
    BY <2>2 DEF TokenInv, Descends
  <2>4. revoked' = [t \in Session |-> IF t = q THEN "live"
                                     ELSE IF t = session[q].token THEN "revoked"
                                     ELSE revoked[t]]
    BY <2>2, <2>3, AccountsAssumption DEF TokenInv, Typed, AccountsTypeOK
  <2>. HIDE DEF new
  <2>. QED
    BY <1>0, <2>1, <2>2, <2>4, Issues DEF TokenInv
<1>5. CASE CheckUser(q)
  <2>. DEFINE new == at("checked")
  <2>1. /\ new \in SessionLocals /\ new.step = "checked" /\ new.kind = session[q].kind
        /\ new.token = session[q].token /\ new.root = session[q].root
        /\ new.after = session[q].after
    BY <1>0 DEF SessionLocals
  <2>2. session' = [session EXCEPT ![q] = new] /\ revoked' = revoked /\ session[q].step = "token"
    BY <1>5 DEF CheckUser
  <2>. HIDE DEF new
  <2>3. new.after = {}
    BY <2>1 DEF TokenInv, NoneAfter
  <2>4. IF new.kind = "refresh"
        THEN /\ new.token \in Session /\ session[new.token].step = "issued"
             /\ session[new.token].root = new.root
        ELSE new.token = None /\ new.root = q
    BY <2>1, <2>2 DEF TokenInv, Descends
  <2>. QED
    BY <1>0, <2>1, <2>2, <2>3, <2>4, PresentsOnly DEF TokenInv
<1>6. CASE IssueTokens(q)
  <2>. DEFINE new == at("issued")
  <2>1. /\ new \in SessionLocals /\ new.step = "issued" /\ new.kind = session[q].kind
        /\ new.token = session[q].token /\ new.root = session[q].root
        /\ new.after = session[q].after
    BY <1>0 DEF SessionLocals
  <2>2. /\ session' = [session EXCEPT ![q] = new] /\ session[q].step = "checked"
        /\ revoked' = [t \in Session |-> IF t = q THEN "live"
                                         ELSE IF t = session[q].token THEN "revoked"
                                         ELSE revoked[t]]
    BY <1>6 DEF IssueTokens
  <2>. HIDE DEF new
  <2>. QED
    BY <1>0, <2>1, <2>2, Issues DEF TokenInv
<1>7. CASE LoseSession(q)
  <2>. DEFINE new == [NoSession EXCEPT !.step = "lost"]
  <2>1. new \in SessionLocals /\ new.step = "lost" /\ new.after = {}
    BY DEF NoSession, SessionLocals
  <2>2. session' = [session EXCEPT ![q] = new] /\ revoked' = revoked /\ session[q].step # "issued"
    BY <1>7 DEF LoseSession
  <2>. HIDE DEF new
  <2>. QED
    BY <1>0, <2>1, <2>2, PresentsOnly DEF TokenInv
<1>. QED
  BY <1>1, <1>2, <1>3, <1>4, <1>5, <1>6, <1>7 DEF SessionStep

LEMMA StepTokens == TokenInv /\ [Next]_vars => TokenInv'
<1>. SUFFICES ASSUME TokenInv, [Next]_vars PROVE TokenInv'
  OBVIOUS
<1>1. CASE UNCHANGED <<session, revoked>>
  BY <1>1, StepTyped DEF TokenInv, Descends, RootsIssued, Rotation, Rotated, NoneAfter
<1>2. ASSUME NEW p \in Update, UpdateStep(p) PROVE UNCHANGED <<session, revoked>>
  BY <1>2 DEF UpdateStep, LoadCaller, LoadTarget, CommitUpdate, LoseUpdate
<1>. QED
  BY <1>1, <1>2, SessionTokens DEF Next, vars

(* The tokens of a root are the root's own, and those of its refreshes; the *)
(* live ones are those that no refresh presented.                           *)
LEMMA LiveTokens ==
  ASSUME TokenInv, NEW root \in Session, TokensOf(root) # {}
  PROVE  LET tokens == TokensOf(root)
             rotated == {session[q].token : q \in Refreshes(root)}
         IN /\ root \in tokens
            /\ Refreshes(root) = tokens \ {root}
            /\ rotated \subseteq tokens
            /\ {q \in tokens : revoked[q] = "live"} = tokens \ rotated
<1>. DEFINE tokens == TokensOf(root)
            rotated == {session[q].token : q \in Refreshes(root)}
<1>1. session[root].step = "issued" /\ session[root].kind # "refresh"
  BY DEF TokensOf, TokenInv, RootsIssued
<1>2. root \in tokens
  BY <1>1 DEF TokensOf, TokenInv, Descends
<1>3. Refreshes(root) = tokens \ {root}
  <2>1. \A q \in tokens : session[q].kind # "refresh" => q = root
    BY DEF TokensOf, TokenInv, Descends
  <2>. QED
    BY <1>1, <2>1 DEF Refreshes
<1>4. \A q \in Refreshes(root) : session[q].token \in tokens /\ revoked[session[q].token] = "revoked"
  BY DEF Refreshes, TokensOf, TokenInv, Descends, Rotation
<1>5. rotated \subseteq tokens
  BY <1>4
<1>6. ASSUME NEW t \in tokens PROVE revoked[t] = "live" <=> t \notin rotated
  <2>1. t \in Session /\ session[t].step = "issued" /\ session[t].root = root
        /\ revoked[t] \in {"live", "revoked"}
    BY DEF TokensOf, TokenInv, Typed, AccountsTypeOK
  <2>2. ASSUME revoked[t] = "revoked" PROVE t \in rotated
    <3>1. PICK q \in Session : session[q].token = t /\ session[q].step = "issued"
      BY <2>1, <2>2 DEF TokenInv, Rotation, Rotated
    <3>2. session[q].kind = "refresh" /\ session[q].root = root
      BY <2>1, <3>1, AccountsAssumption DEF TokenInv, Descends
    <3>. QED
      BY <3>1, <3>2 DEF Refreshes, TokensOf
  <2>3. t \in rotated => revoked[t] = "revoked"
    BY <1>4
  <2>. QED
    BY <2>1, <2>2, <2>3
<1>7. {q \in tokens : revoked[q] = "live"} = tokens \ rotated
  BY <1>6
<1>. QED
  BY <1>2, <1>3, <1>5, <1>7

(* Tokens fork only where requests overlap. *)
THEOREM TokensForkByOverlap == Spec => []OneLiveToken
<1>1. ASSUME TokenInv PROVE OneLiveToken
  <2>1. ASSUME NEW root \in Session, TokensOf(root) # {}
        PROVE  Cardinality({q \in TokensOf(root) : revoked[q] = "live"})
                 = 1 + Cardinality(Refreshes(root))
                     - Cardinality({session[q].token : q \in Refreshes(root)})
    <3>. DEFINE tokens == TokensOf(root)
                rotated == {session[q].token : q \in Refreshes(root)}
    <3>1. /\ root \in tokens /\ Refreshes(root) = tokens \ {root} /\ rotated \subseteq tokens
          /\ {q \in tokens : revoked[q] = "live"} = tokens \ rotated
      BY <1>1, <2>1, LiveTokens
    <3>2. IsFiniteSet(tokens) /\ Cardinality(tokens) \in Nat
      BY AccountsAssumption, FS_Subset, FS_CardinalityType DEF TokensOf
    <3>3. IsFiniteSet(rotated) /\ Cardinality(rotated) \in Nat
      BY <3>1, <3>2, FS_Subset, FS_CardinalityType
    <3>4. Cardinality(Refreshes(root)) = Cardinality(tokens) - 1
      BY <3>1, <3>2, FS_RemoveElement
    <3>5. tokens \cap rotated = rotated
      BY <3>1
    <3>6. Cardinality(tokens \ rotated) = Cardinality(tokens) - Cardinality(rotated)
      BY <3>2, <3>5, FS_Difference
    <3>. HIDE DEF tokens, rotated
    <3>7. Cardinality(tokens \ rotated) = 1 + (Cardinality(tokens) - 1) - Cardinality(rotated)
      BY <3>2, <3>3, <3>6
    <3>. QED
      BY <3>1, <3>4, <3>7 DEF tokens, rotated
  <2>. QED
    BY <1>1, <2>1 DEF TokenInv, NoneAfter, OneLiveToken
<1>. QED
  BY <1>1, InitTokens, StepTokens, PTL DEF Spec

-----------------------------------------------------------------------------
(* u is an active admin of agency a. *)
IsAdmin(u, a) ==
  /\ users[u] # None
  /\ users[u].role = "agency_admin"
  /\ users[u].agency = a
  /\ users[u].active

(* Rule 3 covers the caller, and rule 1 makes the caller an admin who is    *)
(* left: when the rows are the ones read, one of the two still is one.      *)
LEMMA UpdateLeavesAdmin ==
  ASSUME Typed, NEW p \in Update, CommitUpdate(p), NEW a \in Agency, NEW u \in User,
         IsAdmin(u, a), ~Stale(p), users[update[p].target].business = None,
         ~(update[p].caller = update[p].target /\ update[p].body.agency = None)
  PROVE  HasAdmin(a)'
<1>. DEFINE c == update[p].caller
            t == update[p].target
            body == update[p].body
<1>1. /\ t \in User /\ c \in User /\ users \in [User -> Row \cup {None}]
      /\ users[c] # None /\ users[c].active /\ body \in Body
      /\ MayEdit(users[c], users[t]) /\ NotOneself(c, t, body) /\ MayMove(users[c], body)
  BY DEF CommitUpdate, Stale, Typed, AccountsTypeOK, UpdateKnown, UpdateLocals
<1>2. users'[t] = Updated(p) /\ \A x \in User \ {t} : users'[x] = users[x]
  BY <1>1 DEF CommitUpdate
<1>3. CASE u # t
  BY <1>2, <1>3 DEF IsAdmin, HasAdmin
<1>4. CASE u = t
  <2>1. users[c].agency = a /\ users[c].role = "agency_admin"
    BY <1>1, <1>4 DEF IsAdmin, MayEdit, CanWriteAgency
  <2>2. CASE c # t
    BY <1>1, <1>2, <2>1, <2>2 DEF HasAdmin
  <2>3. CASE c = t
    <3>1. body.role = Unset /\ body.active = Unset /\ body.agency \in Agency \cup {Unset}
      BY <1>1, <2>3 DEF NotOneself, Body
    <3>2. body.agency \in {Unset, a}
      BY <1>1, <2>1, <3>1 DEF MayMove, CanWriteAgency
    <3>3. /\ Updated(p).role = users[t].role /\ Updated(p).active = users[t].active
          /\ Updated(p).agency = users[t].agency
      BY <1>4, <3>1, <3>2 DEF Updated, Written, Stale, IsAdmin
    <3>4. Updated(p) # None
      BY UpdatedType, RowType DEF CommitUpdate
    <3>. QED
      BY <1>1, <1>2, <1>4, <3>3, <3>4 DEF IsAdmin, HasAdmin
  <2>. QED
    BY <2>2, <2>3
<1>. QED
  BY <1>3, <1>4

LEMMA StepAdmin == Typed /\ [Next]_vars => [LastAdminStays]_vars
<1>. SUFFICES ASSUME Typed, [Next]_vars, NEW a \in Agency, HasAdmin(a), ~HasAdmin(a)'
     PROVE  \E p \in Update :
              /\ Commits(p)
              /\ \/ update[p].caller = update[p].target /\ update[p].body.agency = None
                 \/ users[update[p].target].business # None
                 \/ Stale(p)
  BY DEF LastAdminStays
<1>1. users' # users
  BY DEF HasAdmin
<1>2. PICK u \in User : IsAdmin(u, a)
  BY DEF HasAdmin, IsAdmin
<1>3. ASSUME NEW q \in Session, SessionStep(q) PROVE FALSE
  <2>1. CommitSignup(q)
    BY <1>1, <1>3 DEF SessionStep, CheckLogin, CheckSignup, CheckToken, CheckUser, IssueTokens,
                      LoseSession
  <2>2. users'[u] = users[u]
    BY <1>2, <2>1 DEF CommitSignup, IsAdmin, Typed, AccountsTypeOK
  <2>. QED
    BY <1>2, <2>2 DEF IsAdmin, HasAdmin
<1>4. ASSUME NEW p \in Update, UpdateStep(p) PROVE Commits(p) /\ CommitUpdate(p)
  <2>1. CommitUpdate(p)
    BY <1>1, <1>4 DEF UpdateStep, LoadCaller, LoadTarget, LoseUpdate
  <2>. QED
    BY <1>1, <2>1 DEF CommitUpdate, Commits, NoUpdate, Typed, AccountsTypeOK
<1>5. PICK p \in Update : UpdateStep(p)
  BY <1>1, <1>3 DEF Next, vars
<1>. QED
  BY <1>2, <1>4, <1>5, UpdateLeavesAdmin

(* An agency loses its last active admin only in the ways the property      *)
(* names: to the admin's own leaving, to a row with a business as well, or  *)
(* to an update that goes by rows that have changed.                        *)
THEOREM AdminStays == Spec => AgencyKeepsAdmin
<1>. QED
  BY InitTyped, StepTyped, StepAdmin, PTL DEF Spec, AgencyKeepsAdmin

-----------------------------------------------------------------------------
(* Appointments. *)

HoldsAdmin(u, a) == users[u] # None /\ users[u].role = "agency_admin" /\ users[u].agency = a

(* What update_user's rules have established when it is about to commit. *)
Granted ==
  \A p \in Update : update[p].step = "checked" =>
    /\ MayGrant(update[p].as, update[p].body)
    /\ OneTenant => Tenants(update[p].as) \subseteq joined[update[p].target]

LEMMA StepGranted == TenantInv /\ Granted /\ [Next]_vars => Granted'
<1>. SUFFICES ASSUME TenantInv, Granted, [Next]_vars, NEW p \in Update, update'[p].step = "checked"
     PROVE  /\ MayGrant(update'[p].as, update'[p].body)
            /\ OneTenant' => Tenants(update'[p].as) \subseteq joined'[update'[p].target]
  BY DEF Granted, MayGrant
<1>0. /\ update \in [Update -> UpdateLocals] /\ update[p] \in UpdateLocals
      /\ users \in [User -> Row \cup {None}]
      /\ joined \in [User -> SUBSET (Agency \cup Business)]
  BY DEF TenantInv, Typed, AccountsTypeOK
<1>1. CASE update'[p] = update[p]
  <2>1. update[p].target \in User /\ users[update[p].target] # None
    BY <1>0, <1>1 DEF TenantInv, Typed, UpdateKnown, UpdateLocals
  <2>2. /\ joined'[update[p].target] = joined[update[p].target]
        /\ OneTenant' => OneTenant
    <3>1. CASE joined' = joined
      BY <3>1 DEF OneTenant
    <3>2. ASSUME NEW q \in Session, CommitSignup(q)
          PROVE  /\ joined'[update[p].target] = joined[update[p].target]
                 /\ OneTenant' => OneTenant
      <4>1. /\ \A x \in User \ {session[q].user} : joined'[x] = joined[x]
            /\ users[session[q].user] = None
        BY <1>0, <3>2 DEF CommitSignup
      <4>2. session[q].user \in User => joined[session[q].user] = {}
        BY <4>1 DEF TenantInv, Joined
      <4>. QED
        BY <2>1, <4>1, <4>2 DEF OneTenant
    <3>. QED
      BY <3>1, <3>2 DEF Next, SessionStep, UpdateStep, CheckLogin, CheckSignup, CheckToken, CheckUser,
                        IssueTokens, LoseSession, LoadCaller, LoadTarget, CommitUpdate, LoseUpdate,
                        vars
  <2>. QED
    BY <1>1, <2>2 DEF Granted
<1>2. ASSUME NEW t \in User, NEW body \in Bodies, LoadTarget(p, t, body)
      PROVE  /\ MayGrant(update'[p].as, update'[p].body)
             /\ OneTenant' => Tenants(update'[p].as) \subseteq joined'[update'[p].target]
  <2>. DEFINE as == update[p].as
              loaded == Loaded(p, t)
  <2>1. /\ users[t] # None /\ update[p].step = "caller" /\ MayEdit(as, loaded)
        /\ MayGrant(as, body) /\ joined' = joined
    BY <1>2 DEF LoadTarget
  <2>2. update'[p].as = as /\ update'[p].target = t /\ update'[p].body = body
    BY <1>0, <1>2 DEF LoadTarget, UpdateLocals
  <2>3. as \in Row /\ loaded \in Row
    BY <1>0, <2>1 DEF TenantInv, Typed, UpdateKnown, UpdateLocals, Loaded
  <2>4. ASSUME OneTenant PROVE Tenants(as) \subseteq joined[t]
    <3>1. Tenants(as) \subseteq joined[update[p].caller] /\ update[p].caller \in User
      BY <1>0, <2>1, <2>4 DEF TenantInv, ReadKept, Typed, UpdateKnown, UpdateLocals
    <3>2. Tenants(loaded) \subseteq joined[t]
      BY <2>1, <2>4, <3>1 DEF TenantInv, RowsKept, Loaded
    <3>3. PICK common \in Tenants(loaded) : common \in Tenants(as)
      BY <2>1, <2>3, EditorsShare
    <3>. QED
      BY <2>4, <3>1, <3>2, <3>3 DEF OneTenant
  <2>5. OneTenant' => OneTenant
    BY <2>1 DEF OneTenant
  <2>. QED
    BY <2>1, <2>2, <2>4, <2>5
<1>3. ASSUME NEW x \in Update, NEW new, update' = [update EXCEPT ![x] = new],
             x # p \/ new.step # "checked"
      PROVE  update'[p] = update[p]
  BY <1>0, <1>3
<1>4. ASSUME NEW x \in Update, UpdateStep(x)
      PROVE  \/ update'[p] = update[p]
             \/ x = p /\ \E t \in User, body \in Bodies : LoadTarget(p, t, body)
  <2>1. ASSUME x # p PROVE update'[p] = update[p]
    BY <1>0, <1>4, <2>1 DEF UpdateStep, LoadCaller, LoadTarget, CommitUpdate, LoseUpdate
  <2>2. CASE x = p
    <3>1. ASSUME NEW c \in User, LoadCaller(p, c) PROVE update'[p].step = "caller"
      BY <1>0, <3>1 DEF LoadCaller, NoUpdate
    <3>2. CommitUpdate(p) \/ LoseUpdate(p) => update'[p].step = "over"
      BY <1>0 DEF CommitUpdate, LoseUpdate, NoUpdate
    <3>. QED
      BY <1>4, <2>2, <3>1, <3>2 DEF UpdateStep
  <2>. QED
    BY <2>1, <2>2
<1>5. ASSUME NEW q \in Session, SessionStep(q) PROVE update' = update
  BY <1>5 DEF SessionStep, CheckLogin, CheckSignup, CheckToken, CheckUser, CommitSignup,
              IssueTokens, LoseSession
<1>. QED
  BY <1>1, <1>2, <1>4, <1>5 DEF Next, vars

(* Where nobody signed up with two tenants, a user comes to hold the admin  *)
(* role of an agency only by signing up with it, or by an update of someone *)
(* who was an agency admin when the request began, of no other tenant than  *)
(* this agency: never by an owner's, a viewer's or a stranger's, nor by     *)
(* updates that together do what none of them may do alone.                 *)
Appointed ==
  OneTenant' => \A u \in User, a \in Agency : ~HoldsAdmin(u, a) /\ HoldsAdmin(u, a)' =>
    \/ \E q \in Session : /\ CommitSignup(q) /\ session[q].user = u
                           /\ session[q].row.role = "agency_admin" /\ session[q].row.agency = a
    \/ \E p \in Update : /\ Commits(p) /\ update[p].target = u
                          /\ update[p].as.role = "agency_admin" /\ Tenants(update[p].as) = {a}

LEMMA StepAppoints == TenantInv /\ Granted /\ [Next]_vars => [Appointed]_vars
<1>. SUFFICES ASSUME TenantInv, TenantInv', Granted, [Next]_vars, OneTenant',
                     NEW u \in User, NEW a \in Agency, ~HoldsAdmin(u, a), HoldsAdmin(u, a)'
     PROVE  \/ \E q \in Session : /\ CommitSignup(q) /\ session[q].user = u
                                  /\ session[q].row.role = "agency_admin"
                                  /\ session[q].row.agency = a
            \/ \E p \in Update : /\ Commits(p) /\ update[p].target = u
                                 /\ update[p].as.role = "agency_admin"
                                 /\ Tenants(update[p].as) = {a}
  BY StepTenants DEF Appointed
<1>0. /\ users \in [User -> Row \cup {None}] /\ users'[u] # users[u]
      /\ update \in [Update -> UpdateLocals]
  BY DEF TenantInv, Typed, AccountsTypeOK, HoldsAdmin
<1>1. ASSUME NEW q \in Session, SessionStep(q)
      PROVE  /\ CommitSignup(q) /\ session[q].user = u
             /\ session[q].row.role = "agency_admin" /\ session[q].row.agency = a
  <2>1. CommitSignup(q)
    BY <1>0, <1>1 DEF SessionStep, CheckLogin, CheckSignup, CheckToken, CheckUser, IssueTokens,
                      LoseSession
  <2>2. session[q].user = u /\ users'[u] = session[q].row
    BY <1>0, <2>1 DEF CommitSignup
  <2>. QED
    BY <2>1, <2>2 DEF HoldsAdmin
<1>2. ASSUME NEW p \in Update, UpdateStep(p)
      PROVE  /\ Commits(p) /\ update[p].target = u
             /\ update[p].as.role = "agency_admin" /\ Tenants(update[p].as) = {a}
  <2>. DEFINE as == update[p].as
              body == update[p].body
  <2>1. CommitUpdate(p)
    BY <1>0, <1>2 DEF UpdateStep, LoadCaller, LoadTarget, LoseUpdate
  <2>2. Commits(p) /\ update[p].target = u /\ users'[u] = Updated(p) /\ joined' = joined
    BY <1>0, <2>1 DEF CommitUpdate, Commits, NoUpdate
  <2>3. /\ as \in Row /\ body \in Body /\ users[u] \in Row /\ update[p].loaded \in Row
        /\ MayEdit(as, update[p].loaded) /\ MayMove(as, body) /\ MayGrant(as, body)
        /\ Tenants(as) \subseteq joined[u]
    <3>1. OneTenant
      BY <2>2 DEF OneTenant
    <3>. QED
      BY <1>0, <2>1, <2>2, <3>1, UpdatedType
         DEF CommitUpdate, TenantInv, Typed, UpdateKnown, UpdateLocals, Granted
  <2>4. as.role = "agency_admin"
    <3>1. Updated(p).role = "agency_admin" /\ Updated(p).agency = a /\ Updated(p) # None
      BY <2>2 DEF HoldsAdmin
    <3>2. CASE users[u].role = "agency_admin"
      <4>1. users[u].agency # a
        BY <2>3, <3>2, RowType DEF HoldsAdmin
      <4>2. body.agency = a
        BY <2>2, <3>1, <4>1 DEF Updated, Written
      <4>. QED
        BY <2>3, <4>2 DEF MayMove, CanWriteAgency
    <3>3. CASE users[u].role # "agency_admin"
      <4>1. body.role = "agency_admin"
        BY <2>2, <3>1, <3>3 DEF Updated, Written
      <4>. QED
        BY <2>3, <4>1 DEF MayGrant, AgencyRole
    <3>. QED
      BY <3>2, <3>3
  <2>5. a \in joined[u]
    <3>1. users'[u] # None /\ users'[u].agency = a /\ a # None
      BY AccountsAssumption DEF HoldsAdmin
    <3>2. Tenants(users'[u]) \subseteq joined'[u]
      BY <3>1 DEF TenantInv, RowsKept
    <3>. QED
      BY <2>2, <3>1, <3>2, TenantsAre
  <2>6. \E t \in Tenants(as) : TRUE
    BY <2>3, EditorsShare
  <2>7. \A x \in Tenants(as) : x = a
    BY <2>2, <2>3, <2>5 DEF OneTenant
  <2>. QED
    BY <2>2, <2>4, <2>6, <2>7
<1>. QED
  BY <1>0, <1>1, <1>2 DEF Next, vars

(* Nobody becomes an agency's admin but by an admin's word or by signup. *)
THEOREM AdminsAreAppointed == Spec => [][Appointed]_vars
<1>1. Init => Granted
  BY DEF Init, NoUpdate, Granted
<1>. QED
  BY <1>1, InitTenants, StepTenants, StepGranted, StepAppoints, PTL DEF Spec
=============================================================================
