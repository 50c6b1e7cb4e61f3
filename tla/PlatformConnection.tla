------------------------- MODULE PlatformConnection -------------------------
(***************************************************************************)
(* Connections to Google and Meta: start_oauth and oauth_callback          *)
(* (gateway/api/v1/oauth.py), create_connection                            *)
(* (gateway/api/v1/businesses.py) and VaultClient's store and resolve      *)
(* (shared/secrets/vault_client.py).                                       *)
(*                                                                         *)
(* A slot is a (business, platform) pair: one row of platform_connections, *)
(* at most, and one secret in Vault, at a path made of the pair.  Requests *)
(* interleave at every await.  A request writes the secret first, all of   *)
(* it at once, and commits the row afterwards; in between it may die.      *)
(* Nothing deletes a row or a secret.                                      *)
(*                                                                         *)
(* External: the provider, whose answer may carry a refresh token or not;  *)
(* Vault, of which a call may fail, a write also after it took effect; the *)
(* browser, which may send a callback more than once.                      *)
(***************************************************************************)
EXTENDS FiniteSets

CONSTANTS
  Slot,
  Google,               \* the slots whose platform has refresh tokens (gbp)
  State,                \* values of the state parameter
  StateSlot,            \* the slot a state was issued for
  Callback,             \* requests to /oauth/callback/{platform}
  StateOf,              \* the state a callback names
  Creator,              \* requests to create_connection
  CreatorSlot,
  None

Request == Callback \cup Creator

(* by is the request whose answer token_expires_at and scopes come from;    *)
(* where they come from two requests, either of them.                       *)
Row == [ref : BOOLEAN, refreshRef : BOOLEAN, by : Request]

(* The requests its two fields come from. *)
Secret == [access : Request, refresh : Request \cup {None}]

ASSUME ConnectionAssumption ==
  /\ Google \subseteq Slot
  /\ StateSlot \in [State -> Slot]
  /\ StateOf \in [Callback -> State]
  /\ CreatorSlot \in [Creator -> Slot]
  /\ Callback \cap Creator = {}
  /\ None \notin Request

ASSUME NoneIsNoValue == None \notin Row \cup Secret

SlotOf(r) == IF r \in Callback THEN StateSlot[StateOf[r]] ELSE CreatorSlot[r]

VARIABLES
  issued,               \* oauth_states: the states with a row
  used,                 \* ... with used_at
  expired,              \* ... with expires_at in the past
  row,                  \* platform_connections, as committed
  vault,                \* the secrets
  pc,                   \* where each request is
  seen,                 \* `existing` of a callback, as it was loaded
  refresh,              \* the refresh token it is about to store
  unresolved,           \* history: callbacks Vault did not give the old one
  lost,                 \* history: stores that dropped a refresh token
  met                   \* history: pairs of requests that overlapped

vars == <<issued, used, expired, row, vault, pc, seen, refresh, unresolved, lost, met>>

(* The row it loaded referred to a refresh token. *)
SawRefresh(r) == seen[r] # None /\ seen[r].refreshRef

Over == {"done", "refused"}     \* with a row saved, or without

Where == {"start", "checked", "claimed", "loaded", "carrying", "storing", "saving", "bare"}
           \cup Over

TypeOK ==
  /\ issued \subseteq State
  /\ used \subseteq issued
  /\ expired \subseteq issued
  /\ row \in [Slot -> Row \cup {None}]
  /\ vault \in [Slot -> Secret \cup {None}]
  /\ pc \in [Request -> Where]
  /\ seen \in [Request -> Row \cup {None}]
  /\ refresh \in [Request -> Request \cup {None}]
  /\ unresolved \subseteq {c \in Callback : SawRefresh(c)}
  /\ lost \subseteq [slot : Slot, by : Request]
  /\ met \subseteq SUBSET Request

Init ==
  /\ issued = {}
  /\ used = {}
  /\ expired = {}
  /\ row = [s \in Slot |-> None]
  /\ vault = [s \in Slot |-> None]
  /\ pc = [r \in Request |-> "start"]
  /\ seen = [r \in Request |-> None]
  /\ refresh = [r \in Request |-> None]
  /\ unresolved = {}
  /\ lost = {}
  /\ met = {}

Active(r) == pc[r] \notin {"start"} \cup Over

Goes(r, where) == pc' = [pc EXCEPT ![r] = where]

(* r begins to work next to the requests that are at work on its slot. *)
Meets(r) ==
  met' = met \cup {{r, x} : x \in {x \in Request : Active(x) /\ SlotOf(x) = SlotOf(r)}}

-----------------------------------------------------------------------------
(* oauth_states. *)

(* start_oauth: a row for a new state. *)
StartOauth(s) ==
  /\ s \notin issued
  /\ issued' = issued \cup {s}
  /\ UNCHANGED <<used, expired, row, vault, pc, seen, refresh, unresolved, lost, met>>

(* Ten minutes pass; of a used state nobody looks at the expiry. *)
Expire(s) ==
  /\ s \in issued \ (used \cup expired)
  /\ expired' = expired \cup {s}
  /\ UNCHANGED <<issued, used, row, vault, pc, seen, refresh, unresolved, lost, met>>

UsableAgain(c) == StateOf[c] \in issued \ expired   \* variant: used_at is not looked at
Usable(c) == StateOf[c] \in issued \ (used \cup expired)

(* The SELECT of the state, which locks nothing, and the four checks; a     *)
(* callback whose path names another platform than its state is refused.    *)
Check(c) ==
  /\ pc[c] = "start"
  /\ \/ Goes(c, "refused") /\ UNCHANGED met
     \/ /\ Usable(c)
        /\ Goes(c, "checked")
        /\ Meets(c)
  /\ UNCHANGED <<issued, used, expired, row, vault, seen, refresh, unresolved, lost>>

(* used_at is set and committed; a denial, or no code, ends it there. *)
Claim(c) ==
  /\ pc[c] = "checked"
  /\ used' = used \cup {StateOf[c]}
  /\ Goes(c, "claimed") \/ Goes(c, "refused")
  /\ UNCHANGED <<issued, expired, row, vault, seen, refresh, unresolved, lost, met>>

-----------------------------------------------------------------------------
(* oauth_callback, from there on. *)

(* existing, read once and not refreshed. *)
Load(c) ==
  /\ pc[c] = "claimed"
  /\ seen' = [seen EXCEPT ![c] = row[SlotOf(c)]]
  /\ Goes(c, "loaded")
  /\ UNCHANGED <<issued, used, expired, row, vault, refresh, unresolved, lost, met>>

NotCarried(c) == FALSE          \* variant: only the fields of the answer are stored
CarriesAlways(c) == TRUE        \* variant: whatever the row says
MustCarry(c) == SawRefresh(c)

MayHaveRefresh(c) == SlotOf(c) \in Google

(* The code is exchanged: a refusal or an error, or tokens. *)
Exchange(c) ==
  /\ pc[c] = "loaded"
  /\ \/ Goes(c, "refused") /\ UNCHANGED refresh
     \/ /\ MayHaveRefresh(c)
        /\ refresh' = [refresh EXCEPT ![c] = c]
        /\ Goes(c, "storing")
     \/ /\ Goes(c, IF MustCarry(c) THEN "carrying" ELSE "storing")
        /\ UNCHANGED refresh
  /\ UNCHANGED <<issued, used, expired, row, vault, seen, unresolved, lost, met>>

HasRefresh(secret) == secret # None /\ secret.refresh # None

(* vault.resolve(ref, key="refresh_token"), or VaultError, which also says  *)
(* that there is no such field; then the store goes on without it.          *)
Carry(c) ==
  /\ pc[c] = "carrying"
  /\ \/ /\ HasRefresh(vault[SlotOf(c)])
        /\ refresh' = [refresh EXCEPT ![c] = vault[SlotOf(c)].refresh]
        /\ UNCHANGED unresolved
     \/ unresolved' = unresolved \cup {c} /\ UNCHANGED refresh
  /\ Goes(c, "storing")
  /\ UNCHANGED <<issued, used, expired, row, vault, seen, lost, met>>

(* The write replaces the whole secret. *)
Write(r) ==
  LET s == SlotOf(r)
  IN /\ vault' = [vault EXCEPT ![s] = [access |-> r, refresh |-> refresh[r]]]
     /\ lost' = IF HasRefresh(vault[s]) /\ refresh[r] = None
                THEN lost \cup {[slot |-> s, by |-> r]} ELSE lost

SavesAnyway(r) == "saving"              \* variant: VaultError is logged and passed over
AfterVaultError(r) == "refused"

(* vault.store; a VaultError, before or after it took effect, is a 502. *)
Store(r) ==
  /\ pc[r] = "storing"
  /\ \/ Write(r) /\ Goes(r, "saving")
     \/ Write(r) /\ Goes(r, AfterVaultError(r))
     \/ Goes(r, AfterVaultError(r)) /\ UNCHANGED <<vault, lost>>
  /\ UNCHANGED <<issued, used, expired, row, seen, refresh, unresolved, met>>

(* INSERT, which the unique constraint refuses if there is a row by then. *)
Insert(r, new) ==
  LET s == SlotOf(r)
  IN \/ row[s] = None /\ row' = [row EXCEPT ![s] = new] /\ Goes(r, "done")
     \/ row[s] # None /\ Goes(r, "refused") /\ UNCHANGED row

UpdatedBy(c, old, r) ==
  [ref |-> TRUE, refreshRef |-> old.refreshRef \/ refresh[c] = c, by |-> r]

KeepsExpiry(c, old) ==          \* variant: token_expires_at is set at INSERT only
  {UpdatedBy(c, old, old.by)}

(* The ORM sends only values that differ from the ones it loaded: what was  *)
(* committed meanwhile stays, a refresh_token_ref always, and an expiry or  *)
(* scopes if c's are those it loaded.                                       *)
Updated(c, old) ==
  {UpdatedBy(c, old, r) : r \in {c} \cup (IF old.by = seen[c].by THEN {} ELSE {old.by})}

(* The row is updated, or inserted, as it was seen. *)
Save(c) ==
  /\ c \in Callback /\ pc[c] = "saving"
  /\ \/ /\ seen[c] = None
        /\ Insert(c, [ref |-> TRUE, refreshRef |-> refresh[c] = c, by |-> c])
     \/ /\ seen[c] # None
        /\ \E new \in Updated(c, row[SlotOf(c)]) : row' = [row EXCEPT ![SlotOf(c)] = new]
        /\ Goes(c, "done")
  /\ UNCHANGED <<issued, used, expired, vault, seen, refresh, unresolved, lost, met>>

-----------------------------------------------------------------------------
(* create_connection, with an access token to store or without one. *)
Create(r) ==
  /\ pc[r] = "start"
  /\ Goes(r, "storing") \/ Goes(r, "bare")
  /\ Meets(r)
  /\ UNCHANGED <<issued, used, expired, row, vault, seen, refresh, unresolved, lost>>

InsertConnection(r) ==
  /\ r \in Creator
  /\ pc[r] \in {"saving", "bare"}
  /\ Insert(r, [ref |-> pc[r] = "saving", refreshRef |-> FALSE, by |-> r])
  /\ UNCHANGED <<issued, used, expired, vault, seen, refresh, unresolved, lost, met>>

(* The process dies, the client goes away or a statement raises. *)
Die(r) ==
  /\ Active(r)
  /\ Goes(r, "refused")
  /\ UNCHANGED <<issued, used, expired, row, vault, seen, refresh, unresolved, lost, met>>

Next ==
  \/ \E s \in State : StartOauth(s) \/ Expire(s)
  \/ \E c \in Callback : Check(c) \/ Claim(c) \/ Load(c) \/ Exchange(c) \/ Carry(c) \/ Save(c)
  \/ \E r \in Creator : Create(r) \/ InsertConnection(r)
  \/ \E r \in Request : Store(r) \/ Die(r)

Spec == Init /\ [][Next]_vars

-----------------------------------------------------------------------------
(* "Degrade, don't silently persist a connection that looks healthy but has *)
(* no retrievable token": a committed reference leads to a secret, whatever *)
(* failed between Vault and the database; a reference to a refresh token    *)
(* does too, unless a later store dropped the token.                        *)
Kept == {s \in Slot : HasRefresh(vault[s]) \/ \E l \in lost : l.slot = s}

RefResolves ==
  \A s \in Slot : row[s] # None => /\ row[s].ref => vault[s] # None
                                   /\ row[s].refreshRef => s \in Kept

(* A store drops a refresh token only if the request never saw a reference  *)
(* to it (a plain create_connection, or a callback that loaded the row      *)
(* before it had one), or if Vault did not give the token out: the          *)
(* carry-forward works in every other interleaving.                         *)
RefreshTokenKept ==
  \A l \in lost : l.by \in Creator \cup unresolved \/ ~SawRefresh(l.by)

(* "a replayed callback with the same state is rejected on the second       *)
(* attempt" (OAuthState): two callbacks with one state save a connection    *)
(* only if the second one checked before the first one's commit.            *)
ReplayRefused ==
  \A c, d \in Callback :
    c # d /\ StateOf[c] = StateOf[d] /\ pc[c] = "done" /\ pc[d] = "done" => {c, d} \in met

(* The expiry and scopes of a row are those of the token in Vault, unless   *)
(* the request that stored the token has not committed, or never did, or    *)
(* overlapped with the one that committed last.                             *)
RowDescribesSecret ==
  \A s \in Slot : row[s] # None /\ row[s].ref =>
    \/ vault[s].access = row[s].by
    \/ pc[vault[s].access] # "done"
    \/ {vault[s].access, row[s].by} \in met

(* "pull the one already stored forward so this write doesn't silently wipe *)
(* it out from under the existing connection" (gateway/api/v1/oauth.py:215):*)
(* a callback that saw the reference never drops the token.                 *)
CallbackKeepsRefresh == \A l \in lost : l.by \in Callback => ~SawRefresh(l.by)
=============================================================================
