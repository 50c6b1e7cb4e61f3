---------------------------- MODULE CampaignSend ----------------------------
(***************************************************************************)
(* WhatsApp campaigns: create_campaign and gallabox_webhook                *)
(* (gateway/api/v1/whatsapp.py), send_campaign                             *)
(* (services/sync-engine/campaigns.py) and the Gallabox adapter, over the  *)
(* credit ledger.                                                          *)
(*                                                                         *)
(* A worker is the request that runs a campaign.  It handles its messages  *)
(* one after another, each in a transaction of its own: the message row,   *)
(* the debit, the call to the provider, and on an exception the refund,    *)
(* then the commit.  The account's advisory lock is held from the debit to *)
(* the commit, across the call.  So messages are transactions of the       *)
(* ledger; the other transactions are recharges of the account.            *)
(*                                                                         *)
(* Gallabox is external: it accepts or refuses what it is sent, at any     *)
(* time until it does and even after the adapter gave up waiting, and      *)
(* reports what became of a message by webhooks, which may be repeated and *)
(* overtake each other.  A report answered with 200 need not come again.   *)
(*                                                                         *)
(* Bounds: Watched, the messages Gallabox reports on (no webhook concerns  *)
(* two messages), MaxReports, the different reports on each of them, and   *)
(* MaxHooks, the webhook handlers at work at a time.                       *)
(***************************************************************************)
EXTENDS CreditLedger, Sequences

CONSTANTS
  Campaign,
  Sends,                \* the messages of a campaign, in the order of the contacts
  Cost,                 \* estimate_cost_inr of the campaign's category
  Recharged,            \* the amount of a recharge
  Watched,              \* the messages Gallabox reports on
  MaxReports,
  MaxHooks

Message == UNION {{Sends[c][i] : i \in DOMAIN Sends[c]} : c \in Campaign}
CampaignOf ==
  [m \in Message |-> CHOOSE c \in Campaign : \E i \in DOMAIN Sends[c] : Sends[c][i] = m]
CostOf == [m \in Message |-> Cost[CampaignOf[m]]]
Free(m) == CostOf[m] = 0

ASSUME CampaignAssumption ==
  /\ Sends \in [Campaign -> Seq(Txn)]
  /\ Message \subseteq Reference
  /\ Cost \in [Campaign -> Nat]
  /\ \A c \in Campaign : Cost[c] > 0 => Cost[c] \in Amount
  /\ Recharged \in Amount
  /\ MaxCalls = 2
  /\ Watched \subseteq Message
  /\ MaxReports \in Nat
  /\ MaxHooks \in Nat

(* Each contact of a campaign gets a message row of its own. *)
ASSUME MessagesAreDistinct ==
  \A c, d \in Campaign : \A i \in DOMAIN Sends[c], j \in DOMAIN Sends[d] :
    Sends[c][i] = Sends[d][j] => c = d /\ i = j

VARIABLES
  worker,               \* the request of each campaign
  step,                 \* how far the worker is with each message
  campaign,             \* campaigns.status, as committed
  message,              \* campaign_messages.status, as committed
  known,                \* messages whose provider_message_id is committed
  posted,               \* what became of the request to Gallabox
  reports,              \* the reports of Gallabox on its way to the webhook
  reported,             \* all the reports made
  hooks,                \* webhook handlers between their SELECT and their commit
  notified              \* notifications rows

cvars == <<worker, step, campaign, message, known, posted>>
hvars == <<reports, reported, hooks, notified>>
campaignVars == <<vars, cvars, hvars>>

Reportable == {"sent", "delivered", "read", "failed", "other"}

StatusRaw(s) == s               \* variant: unknown statuses are stored as they are

(* status_map of parse_webhook: a status it does not list becomes QUEUED. *)
StatusMap(s) == IF s = "other" THEN "queued" ELSE s

MessageStatus ==
  {"absent", "sent", "failed", "skipped_insufficient_credit", "queued", "delivered", "read"}

CampaignTypeOK ==
  /\ TypeOK
  /\ worker \in [Campaign -> {"idle", "running", "done", "dead"}]
  /\ step \in [Message -> {"waiting", "debiting", "skipping", "sending", "raised",
                           "refunding", "failing", "answered", "over", "lost"}]
  /\ campaign \in [Campaign -> {"absent", "sending", "sent"}]
  /\ message \in [Message -> MessageStatus]
  /\ known \subseteq Message
  /\ posted \in [Message -> {"no", "flying", "accepted", "rejected"}]
  /\ reported \in [Message -> SUBSET Reportable]
  /\ \A m \in Message : reports[m] \subseteq reported[m]
  /\ hooks \subseteq [msg : known, status : Reportable, loaded : MessageStatus]
  /\ notified \subseteq known \X {"delivered", "failed"}

CampaignInit ==
  /\ Init
  /\ worker = [c \in Campaign |-> "idle"]
  /\ step = [m \in Message |-> "waiting"]
  /\ campaign = [c \in Campaign |-> "absent"]
  /\ message = [m \in Message |-> "absent"]
  /\ known = {}
  /\ posted = [m \in Message |-> "no"]
  /\ reports = [m \in Message |-> {}]
  /\ reported = [m \in Message |-> {}]
  /\ hooks = {}
  /\ notified = {}

-----------------------------------------------------------------------------
(* The worker: create_campaign and send_campaign. *)

(* POST /campaigns: the campaign row is flushed, and not yet committed. *)
Create(c) ==
  /\ worker[c] = "idle"
  /\ worker' = [worker EXCEPT ![c] = "running"]
  /\ UNCHANGED <<vars, step, campaign, message, known, posted, hvars>>

Current(c, m) ==
  /\ worker[c] = "running"
  /\ \E i \in DOMAIN Sends[c] :
       /\ Sends[c][i] = m
       /\ \A j \in 1..(i - 1) : step[Sends[c][j]] = "over"

Goes(m, where) == step' = [step EXCEPT ![m] = where]

Debit(m) == [kind |-> "debit", amount |-> CostOf[m], reference |-> m]
Refund(m) == [kind |-> "credit", amount |-> CostOf[m], reference |-> m]

(* The message row is flushed; a message that costs something is paid for   *)
(* before it is sent.                                                       *)
StartMessage(c, m) ==
  /\ Current(c, m)
  /\ step[m] = "waiting"
  /\ \/ Free(m) /\ Goes(m, "sending") /\ UNCHANGED vars
     \/ ~Free(m) /\ Goes(m, "debiting") /\ Enter(m, Debit(m))
  /\ UNCHANGED <<worker, campaign, message, known, posted, hvars>>

(* A statement of debit(): InsufficientCreditError, or the way to the send. *)
DebitStep(c, m) ==
  /\ Current(c, m)
  /\ step[m] = "debiting"
  /\ \/ Lock(m) /\ UNCHANGED step
     \/ ReadBalance(m) /\ IF pc'[m] = "ready" THEN Goes(m, "skipping") ELSE UNCHANGED step
     \/ AppendEntry(m) /\ Goes(m, "sending")
  /\ UNCHANGED <<worker, campaign, message, known, posted, hvars>>

AnsweredUnchecked(m) ==         \* variant: the answer's HTTP status is not looked at
  posted[m] \in {"accepted", "rejected"}

Answered(m) == posted[m] = "accepted"

RaisesOnRefusal(m) == posted[m] = "rejected"    \* variant: no timeout on the call

(* A refusal, a transport error, the timeout, an answer that is no JSON. *)
Raises(m) == posted[m] # "no"

(* adapter.send_message: the request goes out, and returns or raises. *)
Post(c, m) ==
  /\ Current(c, m)
  /\ step[m] = "sending"
  /\ \/ posted[m] = "no" /\ posted' = [posted EXCEPT ![m] = "flying"] /\ UNCHANGED step
     \/ Answered(m) /\ Goes(m, "answered") /\ UNCHANGED posted
     \/ Raises(m) /\ Goes(m, "raised") /\ UNCHANGED posted
  /\ UNCHANGED <<vars, worker, campaign, message, known, hvars>>

NoRefundStart(c, m) ==          \* variant: the debit stays
  /\ Current(c, m)
  /\ step[m] = "raised"
  /\ Goes(m, "failing")
  /\ UNCHANGED <<vars, worker, campaign, message, known, posted, hvars>>

(* except Exception: the debit is refunded, if there was one. *)
RefundStart(c, m) ==
  /\ Current(c, m)
  /\ step[m] = "raised"
  /\ \/ Free(m) /\ Goes(m, "failing") /\ UNCHANGED vars
     \/ ~Free(m) /\ Goes(m, "refunding") /\ Enter(m, Refund(m))
  /\ UNCHANGED <<worker, campaign, message, known, posted, hvars>>

RefundStep(c, m) ==
  /\ Current(c, m)
  /\ step[m] = "refunding"
  /\ \/ (Lock(m) \/ ReadBalance(m)) /\ UNCHANGED step
     \/ AppendEntry(m) /\ Goes(m, "failing")
  /\ UNCHANGED <<worker, campaign, message, known, posted, hvars>>

OutcomeOf(s) ==
  CASE s = "skipping" -> "skipped_insufficient_credit"
    [] s = "failing" -> "failed"
    [] s = "answered" -> "sent"

(* db.commit() at the end of a message: its row, its provider id, its       *)
(* ledger entries, and with the first one the campaign's row.               *)
CommitMessage(c, m) ==
  /\ Current(c, m)
  /\ step[m] \in {"skipping", "failing", "answered"}
  /\ IF Free(m) THEN UNCHANGED vars ELSE Commit(m)
  /\ Goes(m, "over")
  /\ message' = [message EXCEPT ![m] = OutcomeOf(step[m])]
  /\ known' = IF step[m] = "answered" THEN known \cup {m} ELSE known
  /\ campaign' = [campaign EXCEPT ![c] = "sending"]
  /\ UNCHANGED <<worker, posted, hvars>>

LoopBroken(c) ==                \* variant: `break` where a message is skipped
  \/ \A i \in DOMAIN Sends[c] : step[Sends[c][i]] = "over"
  \/ \E i \in DOMAIN Sends[c] : message[Sends[c][i]] = "skipped_insufficient_credit"

LoopOver(c) == \A i \in DOMAIN Sends[c] : step[Sends[c][i]] = "over"

(* The loop is over: the campaign counts as sent, whatever came of it. *)
Finish(c) ==
  /\ worker[c] = "running"
  /\ LoopOver(c)
  /\ worker' = [worker EXCEPT ![c] = "done"]
  /\ campaign' = [campaign EXCEPT ![c] = "sent"]
  /\ UNCHANGED <<vars, step, message, known, posted, hvars>>

Lost(c) == {m \in Message : Current(c, m) /\ step[m] # "over"}

(* The process dies, the client's request is cancelled, or a statement      *)
(* raises: the transaction in progress is rolled back and the rest of the   *)
(* campaign is not sent.  Its row stays "sending", if a message had been    *)
(* committed, and nothing ever picks it up.                                 *)
Die(c) ==
  /\ worker[c] = "running"
  /\ worker' = [worker EXCEPT ![c] = "dead"]
  /\ step' = [m \in Message |-> IF m \in Lost(c) THEN "lost" ELSE step[m]]
  /\ IF \E m \in Lost(c) : status[m] = "active"
     THEN \E m \in Lost(c) : Rollback(m)
     ELSE UNCHANGED vars
  /\ UNCHANGED <<campaign, message, known, posted, hvars>>

(* Another session recharges the account. *)
Recharge(t) ==
  /\ \/ /\ status[t] = "idle"
        /\ \E r \in Reference \ Message :
             Enter(t, [kind |-> "credit", amount |-> Recharged, reference |-> r])
     \/ Lock(t) \/ ReadBalance(t) \/ AppendEntry(t) \/ Commit(t) \/ Rollback(t)
  /\ UNCHANGED <<cvars, hvars>>

-----------------------------------------------------------------------------
(* Gallabox. *)

(* It decides about a request it received, even if nobody waits any more. *)
Decide(m) ==
  /\ posted[m] = "flying"
  /\ \E d \in {"accepted", "rejected"} : posted' = [posted EXCEPT ![m] = d]
  /\ UNCHANGED <<vars, worker, step, campaign, message, known, hvars>>

(* Sent is reported first if at all, delivered before read, and failed      *)
(* instead of delivered.                                                    *)
MayReport(m, s) ==
  /\ posted[m] = "accepted"
  /\ s \notin reported[m]
  /\ m \in Watched /\ Cardinality(reported[m]) < MaxReports
  /\ s = "sent" => reported[m] = {}
  /\ s = "delivered" => "failed" \notin reported[m]
  /\ s = "read" => "delivered" \in reported[m]
  /\ s = "failed" => "delivered" \notin reported[m]

Report(m, s) ==
  /\ MayReport(m, s)
  /\ reports' = [reports EXCEPT ![m] = @ \cup {s}]
  /\ reported' = [reported EXCEPT ![m] = @ \cup {s}]
  /\ UNCHANGED <<vars, cvars, hooks, notified>>

-----------------------------------------------------------------------------
(* gallabox_webhook. *)

(* parse_webhook and the SELECT by provider_message_id.  A message whose id *)
(* is not committed is not found and the report is dropped with a 200.  The *)
(* report may come again, by a retry of Gallabox.                           *)
Receive(m, s) ==
  /\ s \in reports[m]
  /\ \/ reports' = [reports EXCEPT ![m] = @ \ {s}]
     \/ UNCHANGED reports
  /\ \/ m \notin known /\ UNCHANGED hooks
     \/ /\ m \in known
        /\ Cardinality(hooks) < MaxHooks
        /\ hooks' = hooks \cup {[msg |-> m, status |-> s, loaded |-> message[m]]}
  /\ UNCHANGED <<vars, cvars, reported, notified>>

DeliveredOnly == {"delivered"}          \* variant: failures are not notified
Notified == {"delivered", "failed"}

(* The status is overwritten with the reported one (the ORM sends no UPDATE *)
(* if it is the one it loaded), delivered and failed are notified, and all  *)
(* is committed together.                                                   *)
Apply(h) ==
  /\ message' = [message EXCEPT ![h.msg] =
                   IF StatusMap(h.status) = h.loaded THEN @ ELSE StatusMap(h.status)]
  /\ notified' = IF h.status \in Notified
                 THEN notified \cup {<<h.msg, h.status>>} ELSE notified
  /\ hooks' = hooks \ {h}
  /\ UNCHANGED <<vars, worker, step, campaign, known, posted, reports, reported>>

(* The handler fails before its commit: no 200, so Gallabox sends it again. *)
Redeliver(h) ==
  /\ hooks' = hooks \ {h}
  /\ reports' = [reports EXCEPT ![h.msg] = @ \cup {h.status}]
  /\ UNCHANGED <<vars, cvars, reported, notified>>

-----------------------------------------------------------------------------
MessageStep(c, m) ==
  \/ StartMessage(c, m) \/ DebitStep(c, m) \/ Post(c, m)
  \/ RefundStart(c, m) \/ RefundStep(c, m) \/ CommitMessage(c, m)

CampaignNext ==
  \/ \E c \in Campaign : Create(c) \/ Finish(c) \/ Die(c)
  \/ \E c \in Campaign : \E m \in Message : MessageStep(c, m)
  \/ \E t \in Txn \ Message : Recharge(t)
  \/ \E m \in Message : Decide(m)
  \/ \E m \in Message, s \in Reportable : Report(m, s) \/ Receive(m, s)
  \/ \E h \in hooks : Apply(h) \/ Redeliver(h)

(* A worker goes on as long as its process lives: statements are answered,  *)
(* the lock queue is served in order, and the call to Gallabox has a        *)
(* timeout.  So do the sessions that recharge.  Nothing is assumed of       *)
(* Gallabox, of the webhooks or of the process.                             *)
CampaignFairness ==
  /\ \A c \in Campaign :
       WF_campaignVars(Finish(c) \/ \E m \in Message : MessageStep(c, m))
  /\ \A t \in Txn \ Message : WF_campaignVars(status[t] = "active" /\ Recharge(t))

CampaignSpec ==
  CampaignInit /\ [][CampaignNext]_campaignVars /\ CampaignFairness

-----------------------------------------------------------------------------
(* The committed entries for a message, added up. *)
Net(m) == Total({r \in rows : r.reference = m /\ status[r.txn] = "committed"})

(* "Never charges for a failed send": a message is charged, and exactly     *)
(* once, if and only if its row is committed with the provider's id; one    *)
(* that failed, was skipped or was lost with its worker costs nothing.      *)
ChargedIffRecorded ==
  \A m \in Message : Net(m) = IF m \in known THEN -CostOf[m] ELSE 0

(* What is charged was accepted by Gallabox, and what was skipped for want  *)
(* of credit was never shown to it.                                         *)
ChargedWasAccepted ==
  \A m \in Message :
    /\ Net(m) # 0 => posted[m] = "accepted"
    /\ message[m] = "skipped_insufficient_credit" => posted[m] = "no"

(* A campaign that counts as sent has a committed row for every contact. *)
SentIsComplete ==
  \A c \in Campaign : campaign[c] = "sent" =>
    \A i \in DOMAIN Sends[c] : message[Sends[c][i]] # "absent"

(* To the business a message is a job that is settled and charged in one    *)
(* step, and never again, whatever was debited, refunded, raised or lost on *)
(* the way; and a campaign is closed when each of its messages is on record.*)
ResultOf(m) ==
  CASE m \in known -> "done"
    [] m \notin known /\ message[m] # "absent" -> "refused"
    [] message[m] = "absent" /\ step[m] = "lost" -> "lost"
    [] message[m] = "absent" /\ step[m] # "lost" -> "open"

Results == [m \in Message |-> ResultOf(m)]
Charged == [m \in Message |-> -Net(m)]
Closed == {c \in Campaign : campaign[c] = "sent"}
MessagesOf == [c \in Campaign |-> {Sends[c][i] : i \in DOMAIN Sends[c]}]

Work == INSTANCE PaidWork WITH
  Job <- Message, Price <- CostOf, Batch <- Campaign, JobsOf <- MessagesOf,
  result <- Results, charged <- Charged, closed <- Closed

ImplementsPaidWork == Work!Spec

(* A message shown as delivered, or failed after it was sent, has been      *)
(* notified, whatever the order and repetition of the reports.              *)
OutcomeNotified ==
  \A m \in known : message[m] \in {"delivered", "failed"} => <<m, message[m]>> \in notified

(* A campaign ends unless its process dies: workers that hold the lock      *)
(* across the call to Gallabox do not block each other for ever.            *)
CampaignEnds ==
  \A c \in Campaign : (worker[c] = "running") ~> (worker[c] \in {"done", "dead"})

(* "whatsapp.message.delivered / .failed — updates credit ledger +          *)
(* delivery-status UI" (EVENT_ARCHITECTURE.md:14): a message that is shown  *)
(* as failed has not been charged, or has been refunded.                    *)
FailedIsNotCharged ==
  \A m \in Message : message[m] = "failed" => Net(m) = 0
=============================================================================
