---------------------------- MODULE Subscription ----------------------------
(***************************************************************************)
(* Subscriptions: create_subscription and razorpay_webhook                 *)
(* (gateway/api/v1/billing.py) with RazorpayClient.create_subscription.    *)
(*                                                                         *)
(* A request creates the subscription at Razorpay first and commits its    *)
(* row afterwards, so one request stands for one subscription.  Razorpay   *)
(* is external: it changes a subscription's status by itself and reports   *)
(* every change by a webhook, which it repeats until it is answered, and   *)
(* may repeat then, in any order.  The webhook sets the row's status to    *)
(* what the report says, whatever it is now.  The signature only keeps     *)
(* out what is not Razorpay's.                                             *)
(*                                                                         *)
(* Bounds: MaxReports, the changes of one subscription, and MaxHandlers,   *)
(* the webhook handlers at work at a time.                                 *)
(***************************************************************************)
EXTENDS Integers, Sequences, FiniteSets

CONSTANTS Request, MaxReports, MaxHandlers

ASSUME SubscriptionAssumption == MaxReports \in Nat /\ MaxHandlers \in Nat

VARIABLES
  request,              \* how far each create_subscription request is
  log,                  \* Razorpay's changes of the subscription, in order
  row,                  \* subscriptions.status, as committed
  unanswered,           \* the reports, by their place in the log, to be delivered
  handlers,             \* webhook handlers between their SELECT and their commit
  handled,              \* the newest report a handler has committed
  disordered            \* subscriptions whose reports did not come as they should

subscriptionVars == <<request, log, row, unanswered, handlers, handled, disordered>>

Event == {"charged", "halted", "cancelled", "other"}

Status == {"created", "active", "halted", "cancelled"}

SubscriptionTypeOK ==
  /\ request \in [Request -> {"idle", "created", "done", "lost"}]
  /\ log \in [Request -> Seq(Event)]
  /\ row \in [Request -> Status \cup {"absent"}]
  /\ unanswered \in [Request -> SUBSET (1..MaxReports)]
  /\ handlers \subseteq [of : Request, report : 1..MaxReports, loaded : Status]
  /\ handled \in [Request -> 0..MaxReports]
  /\ disordered \subseteq Request
  /\ \A q \in Request : row[q] # "absent" <=> request[q] = "done"

SubscriptionInit ==
  /\ request = [q \in Request |-> "idle"]
  /\ log = [q \in Request |-> <<>>]
  /\ row = [q \in Request |-> "absent"]
  /\ unanswered = [q \in Request |-> {}]
  /\ handlers = {}
  /\ handled = [q \in Request |-> 0]
  /\ disordered = {}

-----------------------------------------------------------------------------
(* create_subscription. *)

(* The POST to Razorpay is answered, with an id and the status "created". *)
CreateAtRazorpay(q) ==
  /\ request[q] = "idle"
  /\ request' = [request EXCEPT ![q] = "created"]
  /\ UNCHANGED <<log, row, unanswered, handlers, handled, disordered>>

CommitSubscription(q) ==
  /\ request[q] = "created"
  /\ request' = [request EXCEPT ![q] = "done"]
  /\ row' = [row EXCEPT ![q] = "created"]
  /\ UNCHANGED <<log, unanswered, handlers, handled, disordered>>

(* The process dies, or the INSERT fails: Razorpay has a subscription that  *)
(* no row knows.                                                            *)
LoseRequest(q) ==
  /\ request[q] = "created"
  /\ request' = [request EXCEPT ![q] = "lost"]
  /\ UNCHANGED <<log, row, unanswered, handlers, handled, disordered>>

-----------------------------------------------------------------------------
(* Razorpay. *)

(* Once it is created there a subscription may change in any way: nothing   *)
(* is assumed of which changes follow which.                                *)
Change(q, e) ==
  /\ request[q] # "idle"
  /\ Len(log[q]) < MaxReports
  /\ log' = [log EXCEPT ![q] = Append(@, e)]
  /\ unanswered' = [unanswered EXCEPT ![q] = @ \cup {Len(log[q]) + 1}]
  /\ UNCHANGED <<request, row, handlers, handled, disordered>>

-----------------------------------------------------------------------------
(* razorpay_webhook. *)

HandlersOf(q) == {h \in handlers : h.of = q}

(* A report comes as it should if the row is there, no other handler of     *)
(* this subscription is at work, and it is the next one or the last again.  *)
InOrder(q, n) == row[q] # "absent" /\ HandlersOf(q) = {} /\ n \in {handled[q], handled[q] + 1}

(* The SELECT by razorpay_subscription_id.  With no row the report is       *)
(* answered with 200 and nothing else; it may come again all the same.      *)
ReceiveReport(q, n) ==
  /\ n \in unanswered[q]
  /\ \/ row[q] = "absent" /\ UNCHANGED handlers
     \/ /\ row[q] # "absent"
        /\ Cardinality(handlers) < MaxHandlers
        /\ handlers' = handlers \cup {[of |-> q, report |-> n, loaded |-> row[q]]}
  /\ \/ unanswered' = [unanswered EXCEPT ![q] = @ \ {n}]
     \/ UNCHANGED unanswered
  /\ disordered' = IF InOrder(q, n) THEN disordered ELSE disordered \cup {q}
  /\ UNCHANGED <<request, log, row, handled>>

StatusIfKnown(e, now) ==        \* variant: subscription.halted is not looked for
  CASE e = "charged" -> "active"
    [] e = "cancelled" -> "cancelled"
    [] OTHER -> now

StatusFor(e, now) ==
  CASE e = "charged" -> "active"
    [] e = "cancelled" -> "cancelled"
    [] e = "halted" -> "halted"
    [] OTHER -> now

(* The status is set, and committed unless it is the one that was loaded. *)
CommitReport(h) ==
  /\ LET new == StatusFor(log[h.of][h.report], h.loaded)
     IN row' = IF new = h.loaded THEN row ELSE [row EXCEPT ![h.of] = new]
  /\ handled' = [handled EXCEPT ![h.of] = IF h.report > @ THEN h.report ELSE @]
  /\ handlers' = handlers \ {h}
  /\ UNCHANGED <<request, log, unanswered, disordered>>

(* The handler fails before its commit: Razorpay sends the report again. *)
LoseReport(h) ==
  /\ handlers' = handlers \ {h}
  /\ unanswered' = [unanswered EXCEPT ![h.of] = @ \cup {h.report}]
  /\ UNCHANGED <<request, log, row, handled, disordered>>

SubscriptionNext ==
  \/ \E q \in Request :
       \/ CreateAtRazorpay(q) \/ CommitSubscription(q) \/ LoseRequest(q)
       \/ \E e \in Event : Change(q, e)
       \/ \E n \in 1..MaxReports : ReceiveReport(q, n)
  \/ \E h \in handlers : CommitReport(h) \/ LoseReport(h)

SubscriptionSpec == SubscriptionInit /\ [][SubscriptionNext]_subscriptionVars

-----------------------------------------------------------------------------
Told == [charged |-> "active", halted |-> "halted", cancelled |-> "cancelled"]

(* The status that the first n changes of a subscription leave it in: the   *)
(* newest of them that says anything decides.                               *)
Leaves(q, n, status) ==
  \/ status = "created" /\ \A i \in 1..n : log[q][i] = "other"
  \/ \E i \in 1..n : /\ log[q][i] # "other"
                     /\ status = Told[log[q][i]]
                     /\ \A j \in (i + 1)..n : log[q][j] = "other"

(* A subscription's row shows what Razorpay reported last, as long as the   *)
(* reports came one at a time, in their order, and none before the row was  *)
(* committed.  Handlers that fail, reports that are repeated and statuses   *)
(* the webhook does not know make no difference.                            *)
StatusFollowsReports ==
  \A q \in Request :
    (row[q] # "absent" /\ q \notin disordered /\ HandlersOf(q) = {}) =>
      Leaves(q, handled[q], row[q])
=============================================================================
