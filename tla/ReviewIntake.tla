---------------------------- MODULE ReviewIntake ----------------------------
(***************************************************************************)
(* How a review enters the system: create_review (gateway/api/v1/          *)
(* reviews.py) with notify (services/notifications/notifier.py), and the   *)
(* in-app inbox's mark_read (gateway/api/v1/notifications.py).             *)
(*                                                                         *)
(* One request creates one review: it flushes the review and its in-app    *)
(* notification, publishes the event on Redis, mails the business's first  *)
(* user, flushes a record of the mail, and commits.  Redis and SMTP are    *)
(* external and not part of the transaction: what they were given stays    *)
(* given when the transaction is rolled back, and an error of theirs ends  *)
(* the request.  A client that tries again makes another review.           *)
(***************************************************************************)
CONSTANTS
  Review,               \* the reviews requests try to create
  SmtpConfigured        \* settings.smtp_host is not empty

ASSUME SmtpConfiguredAssumption == SmtpConfigured \in BOOLEAN

VARIABLES
  intake,               \* how far the request that creates a review is
  reviews,              \* reviews rows, as committed
  published,            \* reviews whose event went out on Redis
  mailed,               \* reviews about which a mail was accepted by SMTP
  notices,              \* notifications rows, as committed
  read                  \* those of them with a read_at

intakeVars == <<intake, reviews, published, mailed, notices, read>>

Channel == {"in_app", "email"}

InProgress == {"flushed", "published", "mailing", "recorded", "unaddressed"}

IntakeTypeOK ==
  /\ intake \in [Review -> InProgress \cup {"none", "created", "lost"}]
  /\ reviews \subseteq Review
  /\ published \subseteq Review
  /\ mailed \subseteq published
  /\ notices \subseteq reviews \X Channel
  /\ read \subseteq notices

IntakeInit ==
  /\ intake = [r \in Review |-> "none"]
  /\ reviews = {}
  /\ published = {}
  /\ mailed = {}
  /\ notices = {}
  /\ read = {}

Moves(r, from, to) == intake[r] = from /\ intake' = [intake EXCEPT ![r] = to]

(* The review and its in_app row are flushed, one after the other. *)
CreateReview(r) ==
  /\ Moves(r, "none", "flushed")
  /\ UNCHANGED <<reviews, published, mailed, notices, read>>

PublishWithRow(r) ==            \* variant: notify() commits its row in a session of its own
  /\ Moves(r, "flushed", "published")
  /\ published' = published \cup {r}
  /\ notices' = notices \cup {<<r, "in_app">>}
  /\ UNCHANGED <<reviews, mailed, read>>

Publish(r) ==
  /\ Moves(r, "flushed", "published")
  /\ published' = published \cup {r}
  /\ UNCHANGED <<reviews, mailed, notices, read>>

(* Whether some user belongs to the business by now. *)
ResolveRecipient(r) ==
  /\ \E next \in {"mailing", "unaddressed"} : Moves(r, "published", next)
  /\ UNCHANGED <<reviews, published, mailed, notices, read>>

(* send_email, when it returns: without an SMTP host the mail is logged.    *)
Mailed(r) == IF SmtpConfigured THEN mailed \cup {r} ELSE mailed

SendEmailSoftly(r) ==           \* variant: an SMTP error is logged and passed over
  /\ Moves(r, "mailing", "recorded")
  /\ mailed' \in {mailed, Mailed(r)}
  /\ UNCHANGED <<reviews, published, notices, read>>

(* Either way the email row is flushed next. *)
SendEmail(r) ==
  /\ Moves(r, "mailing", "recorded")
  /\ mailed' = Mailed(r)
  /\ UNCHANGED <<reviews, published, notices, read>>

CommitReview(r) ==
  /\ \/ Moves(r, "recorded", "created") /\ notices' = notices \cup ({r} \X Channel)
     \/ Moves(r, "unaddressed", "created") /\ notices' = notices \cup {<<r, "in_app">>}
  /\ reviews' = reviews \cup {r}
  /\ UNCHANGED <<published, mailed, read>>

(* Redis or SMTP raises, even after it took what it was given, a statement  *)
(* does, or the process dies: the rows are rolled back, the event and the   *)
(* mail are not.                                                            *)
LoseReview(r) ==
  /\ \E s \in InProgress : Moves(r, s, "lost")
  /\ published' \in {published} \cup (IF intake[r] = "flushed" THEN {published \cup {r}} ELSE {})
  /\ mailed' \in {mailed} \cup (IF intake[r] = "mailing" THEN {Mailed(r)} ELSE {})
  /\ UNCHANGED <<reviews, notices, read>>

(* POST /notifications/{id}/read takes the id of any row, of an email too,   *)
(* though the inbox lists the in_app rows only.                             *)
MarkRead(n) ==
  /\ n \in notices
  /\ read' = read \cup {n}
  /\ UNCHANGED <<intake, reviews, published, mailed, notices>>

IntakeNext ==
  \/ \E r \in Review :
       \/ CreateReview(r) \/ Publish(r) \/ ResolveRecipient(r) \/ SendEmail(r)
       \/ CommitReview(r) \/ LoseReview(r)
  \/ \E n \in notices : MarkRead(n)

-----------------------------------------------------------------------------
(* Every review there is was announced in its business's inbox and on the   *)
(* event bus, and the "email" rows, "a delivery-audit record"               *)
(* (notifications.py:6), stand for mails SMTP took, if it is configured:    *)
(* although event and mail leave before the commit, and stay when there is  *)
(* none.                                                                    *)
NoticeWithReview ==
  /\ \A r \in reviews : <<r, "in_app">> \in notices /\ r \in published
  /\ \A r \in Review : <<r, "email">> \in notices => r \in mailed \/ ~SmtpConfigured
=============================================================================
