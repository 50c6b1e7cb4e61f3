--------------------------- MODULE ReviewDrafting ---------------------------
(***************************************************************************)
(* AI-drafted answers to reviews: draft_response and send_response         *)
(* (gateway/api/v1/reviews.py) with the AI orchestrator (services/         *)
(* ai-orchestrator/router.py and its Redis cache), over the credit ledger  *)
(* and over the reviews that ReviewIntake creates.                         *)
(*                                                                         *)
(* A draft is one request and one transaction of the ledger: it loads the  *)
(* review, debits the business, asks the cache and then the providers, and *)
(* commits the text together with the debit.  The account's advisory lock  *)
(* is held from the debit to the commit, across all those calls.  The      *)
(* other transactions of the ledger are recharges.  A sender is a          *)
(* send_response request; it takes no lock.                                *)
(*                                                                         *)
(* Providers and Redis are external.  A provider answers, refuses          *)
(* (AIProviderError: no key, or an HTTP status from 300) or makes the call *)
(* raise something else: a timeout, a transport error, an answer that is   *)
(* not the JSON expected.  Every provider's answer is a text of its own,   *)
(* named after the draft that got it.                                      *)
(***************************************************************************)
EXTENDS CreditLedger, Sequences, ReviewIntake

CONSTANTS
  Draft,                \* the transactions that are draft_response requests
  Sender,               \* the send_response requests
  Rating,
  Wording,              \* a review's text, with its business's name and category
  Providers,            \* the order they are tried in, the default one first
  Configured,           \* those with an API key
  DraftCost,            \* _AI_CALL_CREDIT_COST
  Recharged             \* the amount of a recharge

ASSUME DraftingAssumption ==
  /\ Draft \subseteq Txn
  /\ Review \subseteq Reference /\ Review # {}
  /\ DOMAIN Rating = Review /\ DOMAIN Wording = Review
  /\ Providers \in Seq(STRING)
  /\ {DraftCost, Recharged} \subseteq Amount
  /\ DraftCost > 0
  /\ MaxCalls = 2

VARIABLES
  draft,                \* the locals of each draft_response request
  send,                 \* those of each send_response request
  text,                 \* reviews.ai_drafted_response, as committed
  sent,                 \* the reviews with a response_sent_at, as committed
  cache                 \* the Redis entries of the orchestrator

dvars == <<draft, send, text, sent, cache>>
reviewVars == <<vars, intakeVars, dvars>>

KeyByRating(r) == <<Rating[r]>>         \* variant: the review's text is not hashed

(* _cache_key: the template is always the same, so the variables decide. *)
CacheKey(r) == <<Rating[r], Wording[r]>>

Keys == {CacheKey(r) : r \in Review}

Text == Draft \cup {None}

DraftLocals ==
  [step : {"idle", "debiting", "refused", "looking", "calling", "storing", "answering",
           "refunding", "refunded", "drafted", "failed", "lost"},
   review : Review, loaded : Text, result : Text, at : 1..(Len(Providers) + 1)]

SendLocals ==
  [step : {"idle", "loaded", "sent", "lost"}, review : Review, after : SUBSET Sender]

DraftingTypeOK ==
  /\ TypeOK
  /\ IntakeTypeOK
  /\ draft \in [Draft -> DraftLocals]
  /\ send \in [Sender -> SendLocals]
  /\ text \in [Review -> Text]
  /\ sent \subseteq reviews
  /\ cache \in [Keys -> Text]
  /\ \A r \in Review \ reviews : text[r] = None

AnyReview == CHOOSE r \in Review : TRUE

DraftingInit ==
  /\ Init
  /\ IntakeInit
  /\ draft = [d \in Draft |-> [step |-> "idle", review |-> AnyReview, loaded |-> None,
                               result |-> None, at |-> 1]]
  /\ send = [s \in Sender |-> [step |-> "idle", review |-> AnyReview, after |-> {}]]
  /\ text = [r \in Review |-> None]
  /\ sent = {}
  /\ cache = [k \in Keys |-> None]

-----------------------------------------------------------------------------
(* draft_response: the debit. *)

Goes(d, step) == draft' = [draft EXCEPT ![d].step = step]

(* The request is over; its result stays on record. *)
Ends(d, step, result) ==
  draft' = [draft EXCEPT ![d].step = step, ![d].loaded = None, ![d].result = result,
                         ![d].at = 1]

Debit(r) == [kind |-> "debit", amount |-> DraftCost, reference |-> r]
Refund(r) == [kind |-> "credit", amount |-> DraftCost, reference |-> r]

(* The review is read, and the debit begins. *)
LoadReview(d, r) ==
  /\ draft[d].step = "idle"
  /\ r \in reviews
  /\ Enter(d, Debit(r))
  /\ draft' = [draft EXCEPT ![d].step = "debiting", ![d].review = r, ![d].loaded = text[r]]
  /\ UNCHANGED <<send, text, sent, cache>>

(* A statement of debit(): InsufficientCreditError, or the way to the call. *)
DebitStep(d) ==
  /\ draft[d].step = "debiting"
  /\ \/ Lock(d) /\ UNCHANGED draft
     \/ ReadBalance(d) /\ IF pc'[d] = "ready" THEN Goes(d, "refused") ELSE UNCHANGED draft
     \/ AppendEntry(d) /\ Goes(d, "looking")
  /\ UNCHANGED <<send, text, sent, cache>>

(* 402: db.rollback() ends the transaction, and its lock. *)
Refuse(d) ==
  /\ draft[d].step = "refused"
  /\ Rollback(d)
  /\ Ends(d, "failed", None)
  /\ UNCHANGED <<send, text, sent, cache>>

-----------------------------------------------------------------------------
(* AIOrchestrator.complete, and what its caller does about the result. *)

KeyFor(d) == CacheKey(draft[d].review)

LookUp(d) ==
  /\ draft[d].step = "looking"
  /\ \/ /\ cache[KeyFor(d)] # None
        /\ draft' = [draft EXCEPT ![d].step = "answering", ![d].result = cache[KeyFor(d)]]
     \/ cache[KeyFor(d)] = None /\ Goes(d, "calling")
  /\ UNCHANGED <<vars, send, text, sent, cache>>

Calls(d) == draft[d].step = "calling" /\ draft[d].at <= Len(Providers)

Answers(d) ==
  /\ Calls(d)
  /\ Providers[draft[d].at] \in Configured
  /\ draft' = [draft EXCEPT ![d].step = "storing", ![d].result = d, ![d].at = 1]
  /\ UNCHANGED <<vars, send, text, sent, cache>>

(* `continue`: the next provider is tried. *)
FallsThrough(d) ==
  /\ Calls(d)
  /\ draft' = [draft EXCEPT ![d].at = @ + 1]
  /\ UNCHANGED <<vars, send, text, sent, cache>>

AllFailed(d) == draft[d].step = "calling" /\ draft[d].at > Len(Providers)

NoRefund(d) ==                  \* variant: 502 without a refund
  /\ AllFailed(d)
  /\ Goes(d, "refunded")
  /\ UNCHANGED <<vars, send, text, sent, cache>>

(* except AIProviderError: the debit is refunded. *)
StartRefund(d) ==
  /\ AllFailed(d)
  /\ Enter(d, Refund(draft[d].review))
  /\ draft' = [draft EXCEPT ![d].step = "refunding", ![d].at = 1]
  /\ UNCHANGED <<send, text, sent, cache>>

RefundStep(d) ==
  /\ draft[d].step = "refunding"
  /\ \/ (Lock(d) \/ ReadBalance(d)) /\ UNCHANGED draft
     \/ AppendEntry(d) /\ Goes(d, "refunded")
  /\ UNCHANGED <<send, text, sent, cache>>

CommitRefund(d) ==
  /\ draft[d].step = "refunded"
  /\ Commit(d)
  /\ Ends(d, "failed", None)
  /\ UNCHANGED <<send, text, sent, cache>>

StoreInCache(d) ==
  /\ draft[d].step = "storing"
  /\ cache' = [cache EXCEPT ![KeyFor(d)] = d]
  /\ Goes(d, "answering")
  /\ UNCHANGED <<vars, send, text, sent>>

SavedRow(d) ==                  \* variant: all columns are written as they were loaded
  /\ text' = [text EXCEPT ![draft[d].review] = draft[d].result]
  /\ sent' = IF draft[d].loaded = None THEN sent \ {draft[d].review} ELSE sent

(* The ORM writes the column that changed, and none if the text is the one  *)
(* it loaded.                                                               *)
Saved(d) ==
  /\ text' = IF draft[d].result = draft[d].loaded THEN text
             ELSE [text EXCEPT ![draft[d].review] = draft[d].result]
  /\ UNCHANGED sent

(* The text and the debit are committed together. *)
CommitDraft(d) ==
  /\ draft[d].step = "answering"
  /\ Commit(d)
  /\ Saved(d)
  /\ Ends(d, "drafted", draft[d].result)
  /\ UNCHANGED <<send, cache>>

(* Anything else that is raised, by Redis, by a provider's call or by a     *)
(* statement, leaves the handler and closes the session; so does a crash.   *)
LoseDraft(d) ==
  /\ Rollback(d)
  /\ Ends(d, "lost", None)
  /\ UNCHANGED <<send, text, sent, cache>>

(* The TTL of a cache entry runs out. *)
Expire(k) ==
  /\ cache[k] # None
  /\ cache' = [cache EXCEPT ![k] = None]
  /\ UNCHANGED <<vars, draft, send, text, sent>>

-----------------------------------------------------------------------------
(* send_response. *)

SendersOf(r) == {s \in Sender : send[s].step = "sent" /\ send[s].review = r}

(* Without a draft 422, and once sent 409. *)
LoadForSend(s, r) ==
  /\ send[s].step = "idle"
  /\ r \in reviews
  /\ text[r] # None
  /\ r \notin sent
  /\ send' = [send EXCEPT ![s] = [step |-> "loaded", review |-> r, after |-> SendersOf(r)]]
  /\ UNCHANGED <<vars, draft, text, sent, cache>>

CommitSend(s) ==
  /\ send[s].step = "loaded"
  /\ sent' = sent \cup {send[s].review}
  /\ send' = [send EXCEPT ![s].step = "sent"]
  /\ UNCHANGED <<vars, draft, text, cache>>

LoseSend(s) ==
  /\ send[s].step = "loaded"
  /\ send' = [send EXCEPT ![s].step = "lost"]
  /\ UNCHANGED <<vars, draft, text, sent, cache>>

-----------------------------------------------------------------------------
(* Another session recharges the account. *)
Recharge(t) ==
  /\ \/ /\ status[t] = "idle"
        /\ \E r \in Reference \ Review :
             Enter(t, [kind |-> "credit", amount |-> Recharged, reference |-> r])
     \/ Lock(t) \/ ReadBalance(t) \/ AppendEntry(t) \/ Commit(t) \/ Rollback(t)
  /\ UNCHANGED dvars

DraftStep(d) ==
  \/ DebitStep(d) \/ Refuse(d) \/ LookUp(d) \/ Answers(d) \/ FallsThrough(d)
  \/ StartRefund(d) \/ RefundStep(d) \/ CommitRefund(d) \/ StoreInCache(d)
  \/ CommitDraft(d)

DraftingStep ==
  \/ \E d \in Draft : DraftStep(d) \/ LoseDraft(d) \/ \E r \in Review : LoadReview(d, r)
  \/ \E k \in Keys : Expire(k)
  \/ \E s \in Sender : CommitSend(s) \/ LoseSend(s) \/ \E r \in Review : LoadForSend(s, r)
  \/ \E t \in Txn \ Draft : Recharge(t)

DraftingNext ==
  \/ DraftingStep /\ UNCHANGED intakeVars
  \/ IntakeNext /\ UNCHANGED <<vars, dvars>>

CacheStep(d) == LookUp(d) \/ StoreInCache(d)

OwnStep(d) == draft[d].step \notin {"looking", "storing"} /\ DraftStep(d)

(* Redis answers a request, or its call raises.  The code does not see to   *)
(* this: its clients of the cache set no timeout (cache.py:20, 30).         *)
RedisAnswers == \A d \in Draft : WF_reviewVars(CacheStep(d) /\ UNCHANGED intakeVars)

(* Everywhere else a request that has begun goes on: statements are         *)
(* answered, the queue for the lock is served in order, and the calls to    *)
(* the providers have a timeout.  Nothing is assumed of what is answered,   *)
(* of the clients or of the entries of the cache.                           *)
DraftingFairness ==
  /\ RedisAnswers
  /\ \A d \in Draft : WF_reviewVars(OwnStep(d) /\ UNCHANGED intakeVars)
  /\ \A t \in Txn \ Draft :
       WF_reviewVars(status[t] = "active" /\ Recharge(t) /\ UNCHANGED intakeVars)

DraftingSpec == DraftingInit /\ [][DraftingNext]_reviewVars /\ DraftingFairness

-----------------------------------------------------------------------------
(* What the committed entries of a draft's transaction add up to. *)
Net(d) == Total({r \in rows : r.txn = d /\ status[d] = "committed"})

(* "Never charge for a draft that didn't happen" (reviews.py): a draft is   *)
(* charged, and once, if and only if its text is committed; one that was    *)
(* refused, failed at every provider, or was lost anywhere costs nothing.   *)
ChargedIffDrafted ==
  \A d \in Draft : Net(d) = IF draft[d].step = "drafted" THEN -DraftCost ELSE 0

(* To the business a draft is a job that is settled and charged in one      *)
(* step, whatever the cache and the providers did.                          *)
ResultOf(d) ==
  CASE draft[d].step = "drafted" -> "done"
    [] draft[d].step = "failed" -> "refused"
    [] draft[d].step = "lost" -> "lost"
    [] draft[d].step \notin {"drafted", "failed", "lost"} -> "open"

Results == [d \in Draft |-> ResultOf(d)]
Charged == [d \in Draft |-> -Net(d)]

Work == INSTANCE PaidWork WITH
  Job <- Draft, Price <- [d \in Draft |-> DraftCost], Batch <- {}, JobsOf <- <<>>,
  result <- Results, charged <- Charged, closed <- {}

ImplementsPaidWork == Work!Spec

(* A review's response was written by a provider for just this rating and   *)
(* wording, though it may have come through the cache from another review,  *)
(* or from a draft that was never committed; and a draft of this review     *)
(* that paid for it put it there.                                           *)
DraftFitsReview ==
  \A r \in Review : text[r] # None =>
    /\ Rating[draft[text[r]].review] = Rating[r]
    /\ Wording[draft[text[r]].review] = Wording[r]
    /\ \E d \in Draft : draft[d].review = r /\ draft[d].result = text[r] /\ Net(d) < 0

(* "A distinct approval step and not repeatable" (test_reviews.py:108): a   *)
(* response is sent again only by a request that read the review before the *)
(* first one was committed; a draft that ends later does not unsend it, and *)
(* nothing is sent that was not drafted.                                    *)
SentOnce ==
  /\ \A s \in Sender : send[s].step \in {"loaded", "sent"} => send[s].after = {}
  /\ \A r \in sent : text[r] # None

(* A draft ends: requests that hold the account's lock across the calls to  *)
(* two providers and to the cache do not block each other for ever, as long *)
(* as Redis answers (RedisAnswers).                                         *)
DraftEnds ==
  \A d \in Draft :
    (draft[d].step = "debiting") ~> (draft[d].step \in {"drafted", "failed", "lost"})
=============================================================================
