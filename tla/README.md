# PRESENCE: a TLA+ verification project

PRESENCE is a FastAPI gateway with a Postgres database, Celery workers, Redis
and Vault. It helps small businesses to manage their presence on Google, Meta
and WhatsApp. The project models the parts in which money, messages to customers
and posts move while requests, worker processes and outside services interleave,
fail and repeat themselves. Paths in this file are relative to the repository.

## Reading guide

| module | models | checked by | proofs |
|---|---|---|---|
| `CreditAccount` | the contract of the credit ledger: an account whose book only grows, entry by chained entry | target of `ImplementsAccount` | |
| `PaidWork` | what campaigns and drafts promise to the business: work that is done and charged in one step, or free | target of `ImplementsPaidWork`, twice | |
| `CreditLedger` | `services/billing/credit_ledger.py` under concurrent database transactions | `MCCreditLedger` | `CreditLedgerProofs` |
| `Recharge` | `recharge_credit` of `gateway/api/v1/billing.py`, over `CreditLedger` | `MCRecharge` | `RechargeProofs` |
| `CampaignSend` | campaigns, the Gallabox adapter and its webhook, over `CreditLedger` | `MCCampaignSend` | `CampaignSendProofs` |
| `ReviewIntake` | `create_review`, `notify` with its event and mail, the inbox | `MCReviewDrafting` | `ReviewDraftingProofs` |
| `ReviewDrafting` | drafts by the AI orchestrator and `send_response`, over `CreditLedger` and `ReviewIntake` | `MCReviewDrafting` | `ReviewDraftingProofs` |
| `SocialPublisher` | scheduled posts and the Celery task that publishes them | `MCSocialPublisher` | `SocialPublisherProofs` |
| `PlatformConnection` | OAuth states, platform connections and their secrets in Vault | `MCPlatformConnection` | `PlatformConnectionProofs` |
| `Accounts` | signup, login, refresh and `update_user` with the tenancy rules | `MCAccounts` | `AccountsProofs` |
| `Subscription` | `create_subscription` and the Razorpay webhook | `MCDashboard` | `DashboardProofs` |
| `Attribution` | the correlation, the task that computes it, the summary | `MCDashboard` | `DashboardProofs` |
| `Dashboard` | the two above together, as the dashboard's pages show them | `MCDashboard` | `DashboardProofs` |

To check a run: `tlc -config MCRecharge.cfg MCRecharge.tla`; to check proofs:
`tlapm RechargeProofs.tla`. `RechargeProofs`, `CampaignSendProofs` and
`ReviewDraftingProofs` extend `CreditLedgerProofs` and cite its theorems.
`PROJECT.json` lists the runs, the source lines of every definition, the
hazards, the theorems, and for each property a mutant of the code that breaks
it. The mutated forms stand before the definitions they replace, marked
"variant"; the specifications do not use them.

## Inventory

### How the system runs

Every HTTP handler is one asyncio task with one SQLAlchemy `AsyncSession`
(`gateway/db.py`): it interleaves with the others at each `await`, that is at
each statement, and several gateway processes may serve one database. The
session is closed without a commit when the handler raises, is cancelled or
dies. Postgres runs at its default, READ COMMITTED. Celery beat sends one task,
that of publishing, every five minutes to workers with four processes
(`gateway/celery_app.py`, `docker-compose.yml`), without a guard against
overlapping runs; the attribution task is sent by its endpoint. Razorpay,
Gallabox, Meta, Google, Vault, SMTP and the AI providers are called over the
network with timeouts, Redis without one (`services/ai-orchestrator/cache.py`,
`shared/events.py`); Razorpay and Gallabox call back by webhooks.

### Components

| component | state | operations | depends on | what makes it correct |
|---|---|---|---|---|
| Credit ledger, `services/billing/credit_ledger.py` | table `credit_ledger` (append-only, ordered by `seq`), advisory locks | `credit`, `debit`, `get_balance` | Postgres | no lost update, no overdraft, append-only, atomic for outsiders, the lock never sticks |
| Recharge, `gateway/api/v1/billing.py` | ledger rows of type `razorpay_payment` | `recharge_credit`, `get_balances` | ledger, Razorpay | credits what was captured, one payment once |
| Subscriptions, `gateway/api/v1/billing.py` | `subscriptions` | `create_subscription`, `razorpay_webhook` | Razorpay | the status follows what Razorpay reports |
| Campaigns, `gateway/api/v1/whatsapp.py`, `services/sync-engine/campaigns.py` | `campaigns`, `campaign_messages`, `whatsapp_contacts` | `create_campaign`, `send_campaign`, contacts | ledger, Gallabox | a send is charged if and only if it is recorded; a finished campaign is complete |
| Gallabox webhook, `gallabox_webhook`, `adapters/whatsapp/gallabox.py` | `campaign_messages.status`, `notifications`, `last_inbound_at` | `parse_webhook` and the handler | notifications | what is shown was notified |
| Social publisher, `gateway/tasks/sync.py`, `gateway/api/v1/social.py` | `scheduled_posts` | `schedule_post`, `publish_due_posts` every five minutes | connections, Vault, Meta | no post lost, none shown as posted unpublished, republished only within known limits |
| Connections and OAuth, `gateway/api/v1/oauth.py`, `businesses.py`, `shared/secrets/vault_client.py` | `oauth_states`, `platform_connections`, secrets in Vault | `start_oauth`, `oauth_callback`, `create_connection`, `resolve`, `store` | Vault, Google, Meta | a state is used once, one connection per platform, every ref resolves |
| Reviews and AI, `gateway/api/v1/reviews.py`, `services/ai-orchestrator` | `reviews`, response cache in Redis | `create_review`, `draft_response`, `send_response` | ledger, AI providers, Redis | a draft is charged if and only if it is kept; the approved text is the one sent |
| Authentication, `gateway/api/v1/auth.py`, `gateway/security.py`, `gateway/tenancy.py` | `users`, `refresh_tokens` | signup, login, refresh, access checks | - | a refresh token is used once; roles bound what a caller writes |
| Users and agencies, `gateway/api/v1/users.py`, `agencies.py` | `users`, `agencies`, `businesses` | `update_user`, agency and business updates | tenancy | nobody gains a scope the caller does not control |
| Notifications, `services/notifications` | `notifications`, Redis channel, mails | `notify`, mark as read | Redis, SMTP | an event and a mail have a row behind them |
| Attribution, `services/attribution-engine`, `gateway/tasks/attribution.py` | `attribution_signals`, `attribution_correlations` | `compute_correlation` in a task the endpoint triggers | - | the score is the share of outcomes with a campaign signal in the lag window |
| Wiring: settings, app, health, metrics, migrations | none at run time | - | - | - |
| Frontend | view state | calls the API | gateway | retries requests |

### How the components interact

The ledger is shared by recharges, campaigns and drafts: each calls `credit` or
`debit` in its own transaction, and the account's advisory lock orders them
until that transaction ends. The campaign worker keeps it across an HTTP call.
The Gallabox webhook meets the campaign worker in the rows of
`campaign_messages`, and finds a row only after the worker's commit. The
publisher meets the connection handlers in `platform_connections` and Vault, and
another run of itself in the rows of `scheduled_posts`. Notifications are
written in the transaction of whoever raises them, while the Redis event and the
mail leave at once.

### What is hard here

- **Read, wait, write**: a balance, a replay check, a used-flag or a status is
  read in one statement and acted upon in a later one. Only the ledger takes a
  lock.
- **One transaction, several outside effects**: a send, a publication or a
  secret in Vault cannot be rolled back with the row that records it.
- **Late, repeated and overtaking webhooks**, and the answer 200 to what was not
  applied.
- **Overlapping task runs**, and exceptions the loop does not catch.
- **Order at commit versus order at insert**: `seq` is taken at the INSERT.

The list with source lines and covering properties is under "hazards" in
`PROJECT.json`.

## The modules

### CreditAccount and CreditLedger

`CreditAccount` is the promise: `book[a]`, the entries of an account, changes
only by `Post`, which adds a batch after all earlier entries so that each
`balance_after` is the one before plus its own delta, and none is negative.

`CreditLedger` is the code. A `Txn` is one database transaction of one handler:
`Enter` (the call, and the `ValueError` for an amount that is not positive),
`Lock` (`_lock`), `ReadBalance` (`get_balance`, and `InsufficientCreditError`),
`AppendEntry` (`_append`, the flushed INSERT), `Commit`, `Rollback`. A
transaction may make several calls before its commit, as a send with its refund
does. `rows` holds committed and uncommitted rows; `Visible` is what READ
COMMITTED shows a statement; `nextSeq` is the IDENTITY column, which rollbacks
leave gaps in; `LockKey` is a digest, so two accounts may share a key.

Properties: `ReadIsCurrent` (nothing is appended to an account between the read
and the INSERT), `BalanceIsSum`, `NeverNegative`, `AppendOnly` (as an action
property, including that rows become visible in `seq` order),
`ImplementsAccount` (the refinement: `book <- ` the committed rows) and, under
fairness, `LockWaitEnds`.

### PaidWork

The second contract, for what is bought with credits: a job is `open` until one
step, `Settle`, makes it `done` and charges its price, or `refused` or `lost`
and charges nothing, and never changes again. `Close` ends a batch when each of
its jobs is on record. There are no transactions, locks, refunds or providers in
it. `CampaignSend` maps messages and campaigns to jobs and batches,
`ReviewDrafting` its drafts; the charge is what the committed entries of the
job's transaction sum to. The refinement says more than `ChargedIffRecorded`
and `ChargedIffDrafted` do in single states: a result is final, it appears in
the step in which the charge does, and a campaign that is shown as sent was
complete in the step that made it so.

### Recharge

A request is a ledger transaction. `Fetch` is the call to Razorpay with the
checks on what it says, `CheckReplay` the unlocked SELECT and what follows from
none, one or two entries, `Credit` a statement of `credit()`, `Answer` the
commit and the answer, `Fail` an exception or the process's death. `RetryOf`
says which request a client sends only after which other one ended.
`RetryCreditsOnce` says that a payment named only by such a chain of requests is
credited once, for any credit types and any failures in between. Without the
chain it is false (`NoDoubleCredit`, a finding).

### CampaignSend

A message is a ledger transaction: `StartMessage` (row and debit), `DebitStep`,
`Post` (the HTTP call, sent and then answered, refused or given up),
`RefundStart`, `RefundStep`, `CommitMessage`. `Create`, `Finish` and `Die` are
the worker's beginning, end and loss. Gallabox decides about a request even
after the adapter gave up on it (`Decide`), and reports at any time afterwards
(`Report`). `Receive` is the webhook up to its SELECT, `Apply` its end; between
them other handlers run. `Redeliver` is a handler that fails.

No message belongs to two campaigns, or to one twice (`MessagesAreDistinct`):
the worker makes a new row for each contact (`campaigns.py:48`).

`ChargedIffRecorded` is the heart: the committed entries of a message sum up to
its cost if its row is committed with a provider id, and to nothing in every
other case, the worker's death included. `ChargedWasAccepted` ties the charge to
what Gallabox accepted. The converse does not hold and is not claimed: a send
that timed out after it was accepted is refunded, and one whose worker died is
free.

### ReviewIntake and ReviewDrafting

`ReviewIntake` is one request per review: `CreateReview` (the review and its
in-app row, flushed), `Publish` (the Redis event), `ResolveRecipient` (is there
a user to write to?), `SendEmail`, `CommitReview`, and `LoseReview` for whatever
raises on the way. Event and mail are outside of the transaction: `LoseReview`
rolls the rows back and leaves them gone out. `MarkRead` is the endpoint of the
inbox, which takes the id of any row.

In `ReviewDrafting` a draft is one request and one ledger transaction:
`LoadReview`, `DebitStep` (or `Refuse`, the 402), `LookUp` in the cache, then
per provider `Answers` or `FallsThrough`, and `StoreInCache`, `CommitDraft`; or,
when all providers refused, `StartRefund`, `RefundStep`, `CommitRefund` (the
502). `LoseDraft` is any other exception, at any step, and the process's death;
`Expire` is the TTL. The lock of the account is held from the debit to the
commit, across all calls. Senders go through `LoadForSend` and `CommitSend`
without a lock. A text is named after the draft that got it from a provider, so
that a text that comes through the cache still says whose it was.

`ChargedIffDrafted` is "never charge for a draft that didn't happen" for every
way a draft can end. `DraftFitsReview` says that the cache never gives a review
a text written for another rating or wording, and that a draft of this very
review paid. `SentOnce` says how much of "not repeatable" the unlocked check
keeps: an overlap is the only way to send twice. `NoticeWithReview` ties
committed reviews to what left before the commit. `DraftEnds` is liveness:
holding a lock across calls to providers and to the cache blocks nobody for
ever, as long as Redis answers.

### SocialPublisher

A run of the task selects the due posts, and for each loads the connection,
resolves the token and publishes. SQLAlchemy keeps the new status in memory
(`dirty`) until the next SELECT or the commit flushes it, and from there on
holds the row's lock (`rowLock`). All statuses are committed at the end
(`CommitRun`), or lost (`Crash`). `DetectDeadlock` is Postgres failing a run on
a cycle of waits.

`NoLaterRepublish` states how often a post may be published at all: never by a
run that began after a run that published it had committed. `DoneDecidesAll`
says that a run that ends left none of its posts pending. `RunEnds` needs the
deadlock detector, and fairness of the run's own steps only.

### PlatformConnection

A slot is a (business, platform) pair: at most one row of `platform_connections`
and one secret in Vault. A row and a secret name the requests their values come
from. `StartOauth` inserts a state and `Expire` is its ten minutes. A callback
goes through `Check` (the SELECT, which locks nothing), `Claim` (`used_at`,
committed), `Load` (`existing`, read once), `Exchange` (the provider's answer,
with a refresh token or not), `Carry` (the resolve of the old one), `Store` (the
write, which replaces the secret and may fail before or after it took effect)
and `Save` (UPDATE or INSERT, and the commit). `create_connection` is `Create`,
perhaps `Store`, and `InsertConnection`. `Die` ends a request anywhere.

Three history variables let the properties speak about the past: `met` (the
requests that overlapped), `lost` (the stores that dropped a refresh token) and
`unresolved` (the callbacks Vault did not give the old token).

`RefResolves` ties the database to Vault in every crash: a reference leads to a
secret, and one to a refresh token leads to one until a store that is in `lost`
dropped it. `RefreshTokenKept`
gives the only ways in which the carry-forward can lose a token: a request that
never saw the reference, or Vault not answering. `ReplayRefused` says how much
of "used once" the unlocked check keeps, and `RowDescribesSecret` how much of
the agreement between a row's expiry and the token in Vault. The ORM sends only
values that differ from those it loaded, so an update may leave an expiry or
scopes that another request has committed since (`Updated`); where one row gets
the two from two requests, `by` may be either, and the property must hold of
both.

### Accounts

A `Session` is a signup (`CheckSignup`, `CommitSignup`), a login (`CheckLogin`,
`IssueTokens`) or a refresh (`CheckToken`, `CheckUser`, `IssueTokens`); its
refresh token is named after it. An `Update` is an `update_user` request:
`LoadCaller` is `get_current_user`, `LoadTarget` reads the target and applies
the four rules to the rows as they were read, `CommitUpdate` writes the columns
that differ from the ones loaded, as the ORM does. Between any two of these the
other requests run.

`TenantKept`: nobody comes to belong to a tenant other than the one they signed
up with, although every rule may have looked at rows that are stale when the
update commits. The premise (nobody signed up with two tenants) is needed, as
signup accepts a business and an agency that have nothing to do with each other.
`OneLiveToken` counts: a login or signup has one live refresh token and one more
for every further refresh with the same token, which only requests that overlap
can make; none is lost by a request that dies. `AgencyKeepsAdmin` gives the only
ways in which an agency can lose its last active admin.

### Subscription and Attribution

`Subscription`: `CreateAtRazorpay` comes before `CommitSubscription`; a request
lost between them leaves a subscription without a row. `Change` is Razorpay
changing the status by itself, in any order of changes, `ReceiveReport` the
webhook's SELECT, `CommitReport` its end; a report may be repeated, overtaken,
or find no row, which is answered with 200. `StatusFollowsReports` says that the
row shows the newest change reported as long as reports come in order and one at
a time, for any failures and repetitions. What happens out of order is a listed
hazard (a late report takes the status back), and the code has nothing against
it.

`Attribution`: `Correlation` is `compute_correlation` as an operator; `Followed`
is the definition its docstring gives. Runs of the task go through `Trigger`,
`Begin`, `Compute`, `CommitRun` while signals `Arrive`. `SummaryIsProxy`
compares the two definitions on whatever a run saw, with the exception the code
makes (a campaign signal just before the period is not read), and says that the
row shown, the last by `computed_at`, is as fresh as any: it has seen all that a
completed run knew when it began.

`Dashboard` is their conjunction: they share no state. Both are in one run,
`dashboard`, in which `MCDashboard` explores one while the other rests.

## Runs and their bounds

| run | instance | distinct states | result |
|---|---|---|---|
| `ledger` | 3 transactions with up to 2 calls, 2 accounts that share a lock key, amounts 0, 1, 2 | 166,616 | holds |
| `recharge` | 1 business, 2 accounts, 6 requests for 3 payments: a retry chain, three overlapping ones, a foreign currency | 345,576 | holds |
| `recharge_concurrent` | the same | - | `NoDoubleCredit` violated |
| `campaign` | 2 campaigns (two paid messages, one free), a recharge that covers one message; reports on one message, 2 of the 5 kinds, 2 handlers at a time | 257,897 | holds |
| `campaign_failed` | the same | - | `FailedIsNotCharged` violated |
| `publisher` | 2 posts of 2 businesses, 2 runs | 26,841 | holds |
| `publisher_vault` | the same | - | `VaultFailureRetries` violated |
| `connection` | 1 Google slot, 2 states, 3 callbacks (two with one state), 1 `create_connection` | 4,065,128 | holds |
| `connection_refresh` | the same | - | `CallbackKeepsRefresh` violated |
| `reviews` | 2 reviews of one rating and different wording, 2 drafts, 2 senders, a recharge that pays for both drafts, 2 providers with keys, SMTP configured | 642,348 | holds |
| `accounts` | 2 agencies with a business each, 3 users and a fourth who may sign up, 3 session requests, 2 updates with 5 bodies; symmetric requests | 642,110 | holds |
| `dashboard` | 1 subscription with up to 4 changes, 2 handlers; 2 runs, 6 signals, two of them alike, around the borders of 3 periods and of the lag; symmetric runs | 3,607,757 | holds |

Why these are enough to meet the cases that matter: two transactions on one
account race for the lock and the third, on the other account, shares the key.
Two calls give the refund after a debit, and a credit that makes a later debit
possible. Amounts 1 and 2 make a debit fail at a balance that is neither 0 nor
enough. Three overlapping requests let one meet the two entries of the others.
The recharge pays for one message of two, so that one is skipped or not by the
order of events. Two posts are the least for a cycle of row locks and for a
failure before another post. Two reports and two handlers at a time are the
least for overtaking. Two callbacks with one state are the least for a replay;
the third, with another state, may come between them, before or after, and so
does the request that inserts without having looked. One slot is enough, as
requests of different slots share nothing. Two drafts meet each other's cache
entry, with one key when they draft the same review and with two when they do
not; two senders are the least for a double send. Three sessions are a login
with two refreshes that overlap, or follow each other. Two updates are the least
for one to go by a row that the other one changes; ann and bob can take each
other's role away. Four changes leave room for one the webhook does not know
between two that it does. Two runs are the least for ending in another order
than they began. The signals lie before, at and after the borders of a period
and at and past the lag, one period is empty and one begins in the middle of a
day.

`MaxCalls`, `MaxReports`, `MaxHooks`, `Watched` and `MaxHandlers` are the only
bounds in guards; everything else is bounded by its constants.

`CHECK_DEADLOCK FALSE` is set everywhere, because the instances have finitely
many requests, messages, posts and runs and rightly come to rest.

## Fairness

- `CreditLedger`: each statement that Postgres can answer is answered and a
  transaction at rest is ended, by the handler's commit or the closing session
  (`gateway/db.py`). Weak fairness is enough for `Lock`, as a granted key stays
  granted: no re-grant is disabled by others for ever, since each transaction
  makes finitely many calls, and Postgres serves lock waiters in order. No
  fairness of `Enter`.
- `CampaignSend`: the worker goes on while its process lives; the call to
  Gallabox has a 10 s timeout (`gallabox.py:90`), so `Post` always has a way on.
  Nothing is assumed of Gallabox, webhooks, `Create` or `Die`.
- `ReviewDrafting`: the steps of a draft that has begun, and of a recharge that
  is active. The providers' calls have a 20 s timeout (`router.py`), and a
  session that raises is closed. Of the calls to Redis the same is assumed under
  a name of its own, `RedisAnswers`: the code sets no timeout there
  (`cache.py:20,30`), so a Redis that hangs keeps the account locked. Nothing is
  assumed of what is returned, of clients or of the cache's TTL.
- `SocialPublisher`: the steps of a begun run, each of which has a timeout or an
  answer, and the deadlock detector. Nothing makes a run begin or crash.

## What is proved

All theorems are for every value of the constants, under the assumptions the
modules name (`...Assumption`): the functions have their types, `None` is none
of the other values, amounts are integers, the sets of requests, posts, signals
and runs that are counted are finite, no message is in two campaigns. Every
safety property, action property and refinement of every passing run is proved;
the list is under "theorems" in `PROJECT.json`. None of them is inductive as it
stands, so each proof module has an inductive invariant; its conjuncts are named
there one by one.

`CreditLedgerProofs`. `IInv` says what the code relies on without saying so: who
is past the lock holds the key of its account (`Covered`, `Holding`);
uncommitted rows belong to active transactions that hold the key (`RowsOwned`);
`seq` is unique and below `nextSeq` (`SeqUnique`); the uncommitted rows of an
account are after its committed ones (`PendingLast`); the account's rows,
committed or not, are chained (`ChainedRows`). Hence at most one transaction has
pending rows of an account, so the latest row it sees is the latest there is, so
the INSERT keeps the chain and a commit appends a chained batch at the end: the
step `Post` of `CreditAccount`. A rollback removes the tail of the chain and
every other step changes no committed row: stutters (`LedgerImplementsAccount`).
`BalanceIsSum` is about a sum over a set, which the community modules define by
a fold. A second invariant, `SumInv`, gives the prover what an induction would:
every nonempty family of subsets of the rows has a minimal member (`Founded`),
which an INSERT keeps; from that, the fold satisfies its recursion equation, and
the sum of the rows up to each entry is its balance (`RunningSum`).
`TotalIsBill` extends this to bills: where the rows of each job sum to its
price, the rows of all jobs sum to the sum of the prices.

`RechargeProofs`, `CampaignSendProofs`, `ReviewDraftingProofs` each prove first
that their specification is one of the ledger (`RechargeUsesLedger`,
`CampaignsUseLedger`, `DraftingUsesLedger`): every step is a ledger step or a
stutter. So all of the ledger's theorems hold of them, and by
`LedgerImplementsAccount` each of them implements the atomic accounts. On top of
that:

- `RInv`: which step of a request goes with which state of its transaction
  (`Phases`) and which row (`OneRow`); along a chain of retries a request begins
  when those before it have ended, so its check sees what they committed, and it
  credits only if none of them has an entry in its business (`InTurn`).
- `CInv`: how far the worker is with a message determines what its transaction
  has booked, down to the refund (`ChargeOf`), and which of its reports and
  handlers there can be (`Webhooks`).
- `DInv` for sending and notices, where no money is; `PInv` adds `SumInv`, what
  each step of a draft has booked (`Charges`), and that every text in a cache
  entry, a local or a row was written for the rating and wording of its key
  (`Genuine`).

Campaigns and drafts are then shown to be paid work (`CampaignsArePaidWork`,
`DraftsArePaidWork`), step by step: of all steps of the worker, of Gallabox, of
the webhook and of other sessions only those that commit, refuse or lose a job
change `result`, and they change `charged` with it; all others are stutters.
`BalanceIsExplained`, once for campaigns and once for drafts, joins this to the
ledger: the balance that an account shows is what it was recharged with, less
the sum of the prices of the jobs done, so that no debit that was refused,
refunded or lost leaves a trace in it.

`PlatformConnectionProofs`. `IInv`: a request that is about to save has stored
its secret (`Stored`), and no secret is ever removed, so the reference it
commits resolves; a callback past its claim has used its state up (`Claimed`),
so a later check fails, and two that both passed it have met (`Overlapped`); a
row that a callback has seen is still there (`SeenExists`). `JInv` is about the
past: requests at work on a slot at the same time have met (`Acquainted`), a
secret's author has stored it (`Authored`), a request that is about to save
finds its own secret or one of a request it has met (`Witnessed`), what a row
describes is what a callback loaded or what a request it has met has committed
since (`Renewed`), a callback that saw the reference stores a refresh token
unless Vault did not give it out (`Carried`), and one that dropped a token had
not seen it (`Dropped`).

`SocialPublisherProofs`. `PublisherInv`: the batch of a run has no post twice,
the run marked exactly the posts before its position, and what it marked is what
happened; so a commit decides the whole batch (`Decided`), and a run that begins
afterwards does not select any of it (`Fresh`).
`RunPublishesOnce` adds that a run has published nothing past its position
(`Behind`): it gives no post to Meta twice, whatever fails.

`AccountsProofs`. `TenantInv`: what a request has read, however old, belongs to
the tenants its user signed up with, and whoever may edit a user of one tenant
shares it. `TokenInv`: a token is revoked if and only if a request rotated it,
and its chain is a tree with the login at its root, in which the live tokens are
counted against the refreshes. `AdminsAreAppointed` is the converse of
`AgencyKeepsAdmin`: as long as nobody has signed up with two tenants, a user
becomes an agency's admin only by signing up as one, or by an update whose
caller was one, and of no other tenant, when the request was checked. `Granted`
carries what the four rules established to the commit, past all other requests.

`DashboardProofs`. `ReportInv`: a subscription whose reports are in order has at
most one handler, with the status there is and the next report or the last one
again. `RunInv`: what runs knew and saw only grows in the order they began.

### Nobody waits forever

The liveness properties cannot be proved here, but the two facts from which they
follow under the stated fairness can, and are:

| | somebody can always go on | nobody goes on for ever |
|---|---|---|
| `LockWaitEnds` | `WaitersWaitForWorkers`: a transaction that cannot go on waits for a lock, and its holder can | `TransactionsEnd` |
| `CampaignEnds` | `WorkersWaitForWorkers`: the same of workers, messages and recharges | `CampaignsRunOut` |
| `DraftEnds` | `DraftsWaitForWorkers`: the same of drafts and recharges | `DraftsAreFinite` |
| `RunEnds` | `RunsNeverAllWait`: if a run is running, some run can go on, or Postgres sees a deadlock it is in | `RunsRunOut` |

The left column needs to know who holds what (`LocksHeld`, `RowsHeld`) and in
which state a transaction is at each step of its handler (`Working`,
`CallsMade`). For the ledger it comes from a transaction taking one lock only.
For the publisher it does not: runs do wait in cycles for each other's rows, and
the proof takes a smallest set of runs that wait within the set, to show that it
is a cycle (`WaitsMakeACycle`) and so one that `DetectDeadlock` breaks. The
right column is a measure per transaction, message, draft or run (`StepsLeft`,
`MessageLeft`, `DraftLeft`): each of its own steps lowers it, and no other
actor's step raises it. Since the prover knows nothing of ENABLED, "can go on"
is written out (`GoesOn`, `CanEnter`, `MessageGoesOn`, `DraftGoesOn`); on the
instances of the runs TLC finds it equal to ENABLED of the step.

### What is only model-checked

The four liveness properties themselves: no installed prover handles fairness.
In particular, that a lock which is released again and again is in the end
granted to the one who waits (a matter of weak fairness, and of there being
finitely many sessions in an instance) is checked by TLC alone.

## Findings

1. `recharge_concurrent`: two overlapping requests for one payment credit it
   twice (`gateway/api/v1/billing.py:186-204`), against the comment at line 196.
   Every later request for the payment then fails in `scalar_one_or_none`.
2. `campaign_failed`: a message reported as failed stays charged
   (`gateway/api/v1/whatsapp.py:220`), against `EVENT_ARCHITECTURE.md:14`.
3. `publisher_vault`: a post that failed because of Vault is not retried
   (`gateway/tasks/sync.py:70`), against the comment at line 68.
4. `connection_refresh`: when Vault fails to answer the read and then takes the
   write, a reconnect without a new refresh token drops the stored one
   (`gateway/api/v1/oauth.py:219`), against the comment at lines 212-216. The
   row goes on referring to it.

Differences between what the repository says and what it does that need no run
to be seen:

- "Fall through to the next provider" (`services/ai-orchestrator/router.py`)
  holds for an `AIProviderError` only: a timeout or a transport error leaves
  `complete`, the 502 branch and the refund, and ends the draft by the rollback
  of its transaction (`LoseDraft`).
- `services/notifications/email.py` calls mails non-critical; an SMTP error
  leaves `notify` and rolls back the review that was to be announced
  (`LoseReview`).
- "email" rows are written without an SMTP host too, where
  `gateway/api/v1/notifications.py:5-7` calls them a delivery audit
  (`NoticeWithReview` says for which configuration they are one).
- `shared/models/core.py:260` says that a user has exactly one of `business_id`
  and `agency_id`; signup accepts both (the premise of `TenantKept`).
- `gateway/api/v1/users.py:108` says that nobody can lock themselves out; an
  admin can set their own `agency_id` to null (`AgencyKeepsAdmin` lists it).
- `services/attribution-engine/correlation.py:10` calls the score the fraction
  of the outcomes that followed a campaign signal; signals before the period are
  not read (`Early` in `SummaryIsProxy`).
- A draft that commits after the response was sent replaces the text that was
  sent (`CommitDraft` after `CommitSend`).

## Not modelled, and why

- Contacts, inbound WhatsApp messages: plain inserts and a timestamp no other
  code reads.
- Creating and updating agencies and businesses, the consolidated report:
  descriptive columns that no other code decides by, and reads.
- `create_subscription` without Razorpay keys: a row that no webhook can find.
- Passwords, invite codes, signatures and expiry of tokens: they only refuse
  requests, and a refused request changes nothing.
- The pool of 15 database connections (`gateway/db.py:17`): transactions that
  wait for an account's lock keep theirs, so enough of them stall requests that
  need no lock. The models have no limit on connections; every wait in them
  ends, hence so does this stall.
- Rupee decimals: amounts are whole numbers; the ledger's `Numeric` is exact.
- Settings, health, metrics, migrations, the frontend: no state that a property
  could be about.
- `VaultClient`'s AppRole token, kept in memory and renewed when it runs out: a
  login that fails is a `VaultError` like any other.

## Plan

Done, in this order: the ledger with its contract and proofs; recharges,
campaigns, the publisher; connections; reviews with drafts and notices;
accounts; subscriptions and attribution; the proofs of all safety properties;
paid work as the contract of campaigns and drafts; the explained balance; and
what can be proved of the liveness properties.

Left, should the code around it grow:

1. Contacts and inbound messages, once something decides by `last_inbound_at`.
2. One module that composes the connection handlers with the publisher over the
   same rows; today the publisher takes what it reads of a connection as given
   from outside.
3. An order on the webhooks' reports in `Subscription` and `CampaignSend`, once
   the handlers compare times or statuses: then `disordered` and its exception
   can go.
