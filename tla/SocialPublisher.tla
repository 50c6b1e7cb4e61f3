--------------------------- MODULE SocialPublisher ---------------------------
(***************************************************************************)
(* Scheduled posts: schedule_post (gateway/api/v1/social.py) and the       *)
(* Celery task _publish_due_posts (gateway/tasks/sync.py), which beat      *)
(* sends every five minutes to a worker with several processes, so that    *)
(* runs of the task may overlap.                                           *)
(*                                                                         *)
(* A run handles all posts that are due in one transaction: the ORM keeps  *)
(* a post's new status in memory until the next statement flushes it (and  *)
(* takes the row's lock until the end), and one commit ends the run.       *)
(* External: Postgres breaks a cycle of lock waits by failing one of its   *)
(* transactions; Meta publishes or refuses; Vault resolves the token or    *)
(* raises VaultError.                                                      *)
(***************************************************************************)
EXTENDS Integers, Sequences, FiniteSets, SequencesExt

CONSTANTS
  Post,
  Business,
  BusinessOf,           \* the business of a post
  Run,                  \* runs of the task
  None                  \* no run, no post

ASSUME PublisherAssumption ==
  /\ IsFiniteSet(Post)
  /\ BusinessOf \in [Post -> Business]
  /\ None \notin Run \cup Post

VARIABLES
  status,               \* scheduled_posts.status, as committed
  due,                  \* the posts whose scheduled_at has passed
  connected,            \* businesses with a Meta connection and its token ref
  rowLock,              \* the run whose uncommitted UPDATE holds a post's row
  pc,                   \* where each run is
  batch,                \* due_posts, in the order it handles them
  at,                   \* its position in them
  dirty,                \* the post whose new status is not flushed yet
  marked,               \* the statuses it has set and not committed
  publishedBy,          \* the runs in which Meta published a post
  vaultFailed,          \* posts whose committed status a VaultError decided
  before                \* history: the runs committed when a run selected

vars == <<status, due, connected, rowLock, pc, batch, at, dirty, marked,
          publishedBy, vaultFailed, before>>

Outcome == {"posted", "failed", "failed_no_connection"}

TypeOK ==
  /\ status \in [Post -> {"unscheduled", "pending"} \cup Outcome]
  /\ due \subseteq Post
  /\ connected \subseteq Business
  /\ rowLock \in [Post -> Run \cup {None}]
  /\ pc \in [Run -> {"idle", "loop", "connected", "resolved", "waiting", "commit",
                     "done", "crashed"}]
  /\ \A r \in Run : Range(batch[r]) \subseteq Post /\ at[r] \in 1..(Len(batch[r]) + 1)
  /\ dirty \in [Run -> Post \cup {None}]
  /\ \A r \in Run : marked[r] \subseteq [post : Post, status : Outcome, vault : BOOLEAN]
  /\ publishedBy \in [Post -> SUBSET Run]
  /\ vaultFailed \subseteq {p \in Post : status[p] = "failed"}
  /\ before \in [Run -> SUBSET Run]

Init ==
  /\ status = [p \in Post |-> "unscheduled"]
  /\ due = {}
  /\ connected = {}
  /\ rowLock = [p \in Post |-> None]
  /\ pc = [r \in Run |-> "idle"]
  /\ batch = [r \in Run |-> <<>>]
  /\ at = [r \in Run |-> 1]
  /\ dirty = [r \in Run |-> None]
  /\ marked = [r \in Run |-> {}]
  /\ publishedBy = [p \in Post |-> {}]
  /\ vaultFailed = {}
  /\ before = [r \in Run |-> {}]

-----------------------------------------------------------------------------
(* POST .../social/posts; scheduled_at may lie in the past. *)
Schedule(p) ==
  /\ status[p] = "unscheduled"
  /\ status' = [status EXCEPT ![p] = "pending"]
  /\ UNCHANGED <<due, connected, rowLock, pc, batch, at, dirty, marked, publishedBy,
                 vaultFailed, before>>

TimePasses(p) ==
  /\ p \notin due
  /\ due' = due \cup {p}
  /\ UNCHANGED <<status, connected, rowLock, pc, batch, at, dirty, marked, publishedBy,
                 vaultFailed, before>>

(* The business connects its Meta page. *)
Connect(b) ==
  /\ b \notin connected
  /\ connected' = connected \cup {b}
  /\ UNCHANGED <<status, due, rowLock, pc, batch, at, dirty, marked, publishedBy,
                 vaultFailed, before>>

-----------------------------------------------------------------------------
(* The task. *)

SelectedAlsoPosted(p) == status[p] \in {"pending", "posted"} /\ p \in due  \* variant

(* WHERE status = 'pending' AND scheduled_at <= now(). *)
Selected(p) == status[p] = "pending" /\ p \in due

(* The SELECT of the due posts, in no particular order. *)
Select(r) ==
  /\ pc[r] = "idle"
  /\ \E order \in SetToSeqs({p \in Post : Selected(p)}) :
       batch' = [batch EXCEPT ![r] = order]
  /\ pc' = [pc EXCEPT ![r] = IF batch'[r] = <<>> THEN "commit" ELSE "loop"]
  /\ before' = [before EXCEPT ![r] = {s \in Run : pc[s] = "done"}]
  /\ UNCHANGED <<status, due, connected, rowLock, at, dirty, marked, publishedBy,
                 vaultFailed>>

Current(r) == batch[r][at[r]]

(* A flush sends the UPDATE of the dirty post, which waits while another    *)
(* run holds the row.                                                       *)
Blocked(r) == dirty[r] # None /\ rowLock[dirty[r]] \notin {None, r}

Flush(r) ==
  /\ ~Blocked(r)
  /\ rowLock' = IF dirty[r] = None THEN rowLock ELSE [rowLock EXCEPT ![dirty[r]] = r]

BreaksLoop(r, s) ==                     \* variant: `break` after a failure
  IF s = "posted" THEN at[r] + 1 ELSE Len(batch[r]) + 1

Continues(r, s) == at[r] + 1

(* post.status = s, in memory, and on to the next post. *)
Mark(r, s, vault) ==
  /\ marked' = [marked EXCEPT ![r] = @ \cup {[post |-> Current(r), status |-> s, vault |-> vault]}]
  /\ dirty' = [dirty EXCEPT ![r] = Current(r)]
  /\ at' = [at EXCEPT ![r] = Continues(r, s)]
  /\ pc' = [pc EXCEPT ![r] = IF at'[r] > Len(batch[r]) THEN "commit" ELSE "loop"]

(* The SELECT of the connection, which first flushes the post before. *)
LoadConnection(r) ==
  /\ pc[r] = "loop"
  /\ Flush(r)
  /\ \/ /\ BusinessOf[Current(r)] \in connected
        /\ pc' = [pc EXCEPT ![r] = "connected"]
        /\ dirty' = [dirty EXCEPT ![r] = None]
        /\ UNCHANGED <<at, marked>>
     \/ /\ BusinessOf[Current(r)] \notin connected
        /\ Mark(r, "failed_no_connection", FALSE)
  /\ UNCHANGED <<status, due, connected, batch, publishedBy, vaultFailed, before>>

VaultOutcomeOwn == "vault_failed"       \* variant: a status nothing else knows
VaultOutcome == "failed"

(* vault.resolve: the token, or VaultError. *)
Resolve(r) ==
  /\ pc[r] = "connected"
  /\ \/ pc' = [pc EXCEPT ![r] = "resolved"] /\ UNCHANGED <<at, dirty, marked>>
     \/ Mark(r, VaultOutcome, TRUE)
  /\ UNCHANGED <<status, due, connected, rowLock, batch, publishedBy, vaultFailed, before>>

(* Meta publishes the post it received. *)
Publish(r) ==
  /\ pc[r] = "resolved"
  /\ publishedBy' = [publishedBy EXCEPT ![Current(r)] = @ \cup {r}]
  /\ pc' = [pc EXCEPT ![r] = "waiting"]
  /\ UNCHANGED <<status, due, connected, rowLock, batch, at, dirty, marked, vaultFailed,
                 before>>

(* create_post returns, or Meta refuses (MetaAdapterError).  A transport    *)
(* error or a timeout is neither: see Crash.                                *)
Published(r) ==
  /\ pc[r] = "waiting"
  /\ Mark(r, "posted", FALSE)
  /\ UNCHANGED <<status, due, connected, rowLock, batch, publishedBy, vaultFailed, before>>

RefusedAsPosted(r) ==                   \* variant: Meta's refusal is not looked at
  /\ pc[r] = "resolved"
  /\ Mark(r, "posted", FALSE)
  /\ UNCHANGED <<status, due, connected, rowLock, batch, publishedBy, vaultFailed, before>>

Refused(r) ==
  /\ pc[r] = "resolved"
  /\ Mark(r, "failed", FALSE)
  /\ UNCHANGED <<status, due, connected, rowLock, batch, publishedBy, vaultFailed, before>>

KeptRows(r) == rowLock                  \* variant: the transaction is left open
Unlocked(r) == [p \in Post |-> IF rowLock[p] = r THEN None ELSE rowLock[p]]

Of(r, p) == {m \in marked[r] : m.post = p}

(* db.commit(): the last UPDATE, then all statuses at once. *)
CommitRun(r) ==
  /\ pc[r] = "commit"
  /\ ~Blocked(r)
  /\ status' = [p \in Post |-> IF Of(r, p) = {} THEN status[p]
                             ELSE (CHOOSE m \in Of(r, p) : TRUE).status]
  /\ vaultFailed' = {p \in Post : IF Of(r, p) = {} THEN p \in vaultFailed
                                  ELSE \E m \in Of(r, p) : m.vault}
  /\ rowLock' = Unlocked(r)
  /\ pc' = [pc EXCEPT ![r] = "done"]
  /\ marked' = [marked EXCEPT ![r] = {}]
  /\ dirty' = [dirty EXCEPT ![r] = None]
  /\ UNCHANGED <<due, connected, batch, at, publishedBy, before>>

Running(r) == pc[r] \notin {"idle", "done", "crashed"}

(* An exception the loop does not catch (a transport error or timeout of    *)
(* Meta or Vault, a database error), or the death of the process: every     *)
(* status of the run is rolled back.                                        *)
Crash(r) ==
  /\ Running(r)
  /\ rowLock' = Unlocked(r)
  /\ pc' = [pc EXCEPT ![r] = "crashed"]
  /\ batch' = [batch EXCEPT ![r] = <<>>]
  /\ at' = [at EXCEPT ![r] = 1]
  /\ marked' = [marked EXCEPT ![r] = {}]
  /\ dirty' = [dirty EXCEPT ![r] = None]
  /\ UNCHANGED <<status, due, connected, publishedBy, vaultFailed, before>>

Waits(r) == pc[r] \in {"loop", "commit"} /\ Blocked(r)

WaitsFor(r, s) == Waits(r) /\ rowLock[dirty[r]] = s

(* r is on a cycle of runs that wait for each other's rows: Postgres fails  *)
(* one of them.                                                             *)
Deadlocked(r) ==
  \E cycle \in SUBSET Run :
    /\ r \in cycle
    /\ \A s \in cycle : /\ \E u \in cycle : WaitsFor(s, u)
                        /\ \E u \in cycle : WaitsFor(u, s)

DetectDeadlock(r) == Deadlocked(r) /\ Crash(r)

(* The steps a run takes by itself: every call it makes has a timeout. *)
RunStep(r) ==
  \/ LoadConnection(r) \/ Resolve(r) \/ Publish(r) \/ Published(r) \/ Refused(r)
  \/ CommitRun(r) \/ DetectDeadlock(r)

Next ==
  \/ \E p \in Post : Schedule(p) \/ TimePasses(p)
  \/ \E b \in Business : Connect(b)
  \/ \E r \in Run : Select(r) \/ RunStep(r) \/ Crash(r)

(* A run that began goes on until its end; nothing makes beat start one, a  *)
(* process die or a business connect.                                       *)
Spec == Init /\ [][Next]_vars /\ \A r \in Run : WF_vars(RunStep(r))

-----------------------------------------------------------------------------
(* A post that shows as posted has been published. *)
PostedWasPublished == \A p \in Post : status[p] = "posted" => publishedBy[p] # {}

(* A post is never published again by a run that started after the run that *)
(* published it had committed: a second publication takes an overlap of two *)
(* runs or the loss of a run's transaction.                                 *)
NoLaterRepublish ==
  \A p \in Post : \A r, s \in publishedBy[p] : r \notin before[s]

(* "a resolution failure must fail that one post, not crash the whole beat  *)
(* task" (tests/test_social_publish_task.py:6): a run that ends has decided *)
(* every post that was due when it started, whatever failed on the way.     *)
DoneDecidesAll ==
  \A r \in Run : pc[r] = "done" => \A p \in Range(batch[r]) : status[p] # "pending"

(* A run that overlaps with others ends, even if they hold each other's     *)
(* rows: one of them is failed by Postgres.                                 *)
RunEnds == \A r \in Run : Running(r) ~> ~Running(r)

(* "this post retries next beat tick" (gateway/tasks/sync.py:67): a post    *)
(* that failed because Vault did not answer is selected again.              *)
VaultFailureRetries == \A p \in vaultFailed : publishedBy[p] = {} => Selected(p)
=============================================================================
