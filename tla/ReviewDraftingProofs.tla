------------------------- MODULE ReviewDraftingProofs -------------------------
(***************************************************************************)
(* Proofs about ReviewDrafting and ReviewIntake, for any reviews, drafts,  *)
(* senders and providers: drafts are transactions of the credit ledger, a  *)
(* response is sent once but for overlaps, and reviews are announced.      *)
(***************************************************************************)
EXTENDS ReviewDrafting, CreditLedgerProofs

(* A draft past its debit works on a review there is, and has a text when   *)
(* it is about to commit one.                                               *)
Drafts ==
  /\ \A d \in Draft : draft[d].step \notin {"idle", "lost"} => draft[d].review \in reviews
  /\ \A d \in Draft : draft[d].step \in {"storing", "answering"} => draft[d].result # None

(* A request that sends has seen a text, and no earlier one had sent it. *)
Sending ==
  /\ \A s \in Sender : /\ send[s].after = {}
                       /\ send[s].step \in {"loaded", "sent"} => text[send[s].review] # None
                       /\ send[s].step = "sent" => send[s].review \in sent
  /\ \A r \in sent : text[r] # None

(* A request has published its event once it goes on, and mailed it once it *)
(* records that.                                                            *)
Announced ==
  /\ \A r \in Review :
       /\ intake[r] \in {"published", "mailing", "recorded", "unaddressed"} => r \in published
       /\ intake[r] = "recorded" => r \in mailed \/ ~SmtpConfigured
  /\ NoticeWithReview

DInv == IInv /\ DraftingTypeOK /\ Drafts /\ Sending /\ Announced

LEMMA EntriesType ==
  ASSUME NEW r \in Review
  PROVE  Debit(r) \in Call /\ Refund(r) \in Call
  BY DraftingAssumption DEF Debit, Refund, Call

LEMMA DraftIsTxn == \A d \in Draft : d \in Txn /\ d # None
  BY DraftingAssumption, NoneAssumption

(* Every statement of a draft or a recharge is one of the ledger. *)
LEMMA DraftingLedgerSteps == DInv /\ [DraftingNext]_reviewVars => [Next]_vars
<1>. SUFFICES ASSUME DInv, DraftingNext, vars' # vars PROVE Next
  BY DEF reviewVars
<1>1. DraftingStep
  BY DEF DraftingNext
<1>2. ASSUME NEW d \in Draft, DraftStep(d) PROVE Next
  <2>1. draft[d].review \in Review /\ d \in Txn
    BY DraftIsTxn DEF DInv, DraftingTypeOK, DraftLocals
  <2>2. Step(d)
    BY <1>2, <2>1, EntriesType DEF DraftStep, DebitStep, Refuse, LookUp, Answers, FallsThrough,
                               StartRefund, RefundStep, CommitRefund, StoreInCache, CommitDraft,
                               Step
  <2>. QED
    BY <2>1, <2>2 DEF Next
<1>3. ASSUME NEW d \in Draft, LoseDraft(d) PROVE Next
  BY <1>3, DraftIsTxn DEF LoseDraft, Step, Next
<1>4. ASSUME NEW d \in Draft, NEW r \in Review, LoadReview(d, r) PROVE Next
  BY <1>4, DraftIsTxn, EntriesType DEF LoadReview, Step, Next
<1>5. ASSUME NEW t \in Txn \ Draft, Recharge(t) PROVE Next
  <2>1. \A r \in Reference : [kind |-> "credit", amount |-> Recharged, reference |-> r] \in Call
    BY DraftingAssumption DEF Call
  <2>2. Step(t)
    BY <1>5, <2>1 DEF Recharge, Step
  <2>. QED
    BY <2>2 DEF Next
<1>6. ASSUME NEW s \in Sender PROVE ~CommitSend(s) /\ ~LoseSend(s)
                                    /\ \A r \in Review : ~LoadForSend(s, r)
  BY DEF CommitSend, LoseSend, LoadForSend
<1>7. \A k \in Keys : ~Expire(k)
  BY DEF Expire
<1>. QED
  BY <1>1, <1>2, <1>3, <1>4, <1>5, <1>6, <1>7 DEF DraftingStep

-----------------------------------------------------------------------------
LEMMA InitDrafting == DraftingInit => DInv
<1>. SUFFICES ASSUME DraftingInit PROVE DInv
  OBVIOUS
<1>1. IInv
  BY InitInv DEF DraftingInit
<1>2. AnyReview \in Review /\ 1 \in 1..(Len(Providers) + 1)
  BY DraftingAssumption DEF AnyReview
<1>3. DraftingTypeOK
  <2>1. IntakeTypeOK
    BY DEF DraftingInit, IntakeInit, IntakeTypeOK
  <2>2. draft \in [Draft -> DraftLocals] /\ send \in [Sender -> SendLocals]
    BY <1>2 DEF DraftingInit, DraftLocals, SendLocals, Text
  <2>. QED
    BY <1>1, <2>1, <2>2 DEF DraftingInit, IntakeInit, DraftingTypeOK, IInv, Text
<1>4. Drafts /\ Sending
  BY DEF DraftingInit, Drafts, Sending
<1>5. Announced
  BY DEF DraftingInit, IntakeInit, Announced, NoticeWithReview
<1>. QED
  BY <1>1, <1>3, <1>4, <1>5 DEF DInv

(* A draft's step writes its locals, and at most a text that it has. *)
LEMMA DraftMoves ==
  ASSUME DInv, IInv', NEW d \in Draft, NEW new \in DraftLocals,
         draft' = [draft EXCEPT ![d] = new], UNCHANGED <<intakeVars, send, sent>>,
         text' \in [Review -> Text], cache' \in [Keys -> Text],
         \A r \in Review : text'[r] = text[r] \/ (text'[r] # None /\ r \in reviews),
         new.step \notin {"idle", "lost"} => new.review \in reviews,
         new.step \in {"storing", "answering"} => new.result # None
  PROVE  DInv'
<1>1. draft' \in [Draft -> DraftLocals] /\ draft'[d] = new
      /\ \A x \in Draft \ {d} : draft'[x] = draft[x]
  BY DEF DInv, DraftingTypeOK
<1>2. /\ intake' = intake /\ reviews' = reviews /\ published' = published /\ mailed' = mailed
      /\ notices' = notices /\ read' = read
  BY DEF intakeVars
<1>3. DraftingTypeOK'
  BY <1>1, <1>2 DEF DInv, DraftingTypeOK, IntakeTypeOK, IInv
<1>4. Drafts'
  BY <1>1, <1>2 DEF DInv, Drafts
<1>5. Sending'
  <2>1. \A s \in Sender : send[s].review \in Review
    BY DEF DInv, DraftingTypeOK, SendLocals
  <2>2. sent \subseteq Review
    BY DEF DInv, DraftingTypeOK, IntakeTypeOK
  <2>. QED
    BY <2>1, <2>2 DEF DInv, Sending
<1>6. Announced'
  BY <1>2 DEF DInv, Announced, NoticeWithReview
<1>. QED
  BY <1>3, <1>4, <1>5, <1>6 DEF DInv

LEMMA DraftInv ==
  ASSUME DInv, IInv', NEW d \in Draft, UNCHANGED intakeVars,
         DraftStep(d) \/ LoseDraft(d) \/ \E r \in Review : LoadReview(d, r)
  PROVE  DInv'
<1>. DEFINE now == draft[d]
            at(step) == [now EXCEPT !.step = step]
            over(step, result) == [now EXCEPT !.step = step, !.loaded = None, !.result = result,
                                              !.at = 1]
<1>0. /\ now \in DraftLocals /\ draft \in [Draft -> DraftLocals] /\ now.review \in Review
      /\ text \in [Review -> Text] /\ cache \in [Keys -> Text] /\ KeyFor(d) \in Keys
      /\ now.step \notin {"idle", "lost"} => now.review \in reviews
      /\ now.step \in {"storing", "answering"} => now.result # None
      /\ Len(Providers) \in Nat /\ d \in Text /\ d # None /\ None \in Text
      /\ reviews \subseteq Review
  BY DraftingAssumption, DraftIsTxn
     DEF DInv, DraftingTypeOK, IntakeTypeOK, DraftLocals, Drafts, KeyFor, Keys, Text
<1>f. 1 \in 1..(Len(Providers) + 1)
  BY <1>0
<1>a. \A step \in {"debiting", "refused", "looking", "calling", "storing", "answering",
                   "refunding", "refunded"} :
        /\ at(step) \in DraftLocals /\ at(step).step = step /\ at(step).review = now.review
        /\ at(step).result = now.result
  BY <1>0 DEF DraftLocals
<1>b. \A step \in {"drafted", "failed", "lost"}, result \in Text :
        /\ over(step, result) \in DraftLocals /\ over(step, result).step = step
        /\ over(step, result).review = now.review
  BY <1>0, <1>f DEF DraftLocals
<1>c. ASSUME NEW step \in {"debiting", "refused", "looking", "calling", "refunding", "refunded"},
             draft' = [draft EXCEPT ![d] = at(step)], now.step \notin {"idle", "lost"},
             UNCHANGED <<send, text, sent, cache>>
      PROVE  DInv'
  BY <1>0, <1>a, <1>c, DraftMoves
<1>d. ASSUME UNCHANGED <<draft, send, text, sent, cache>> PROVE DInv'
  BY <1>d DEF DInv, IInv, DraftingTypeOK, IntakeTypeOK, Drafts, Sending, Announced,
              NoticeWithReview, intakeVars
<1>e. ASSUME NEW step \in {"drafted", "failed", "lost"}, NEW result \in Text,
             Ends(d, step, result), UNCHANGED <<send, sent>>, now.step \notin {"idle", "lost"},
             text' \in [Review -> Text], cache' = cache,
             \A r \in Review : text'[r] = text[r] \/ (text'[r] # None /\ r \in reviews)
      PROVE  DInv'
  <2>1. draft' = [draft EXCEPT ![d] = over(step, result)]
    BY <1>0, <1>e DEF Ends
  <2>. HIDE DEF over, now
  <2>. QED
    BY <1>0, <1>b, <1>e, <2>1, DraftMoves
<1>1. ASSUME NEW r \in Review, LoadReview(d, r) PROVE DInv'
  <2>. DEFINE new == [now EXCEPT !.step = "debiting", !.review = r, !.loaded = text[r]]
  <2>1. new \in DraftLocals /\ new.step = "debiting" /\ new.review = r
    BY <1>0 DEF DraftLocals
  <2>2. draft' = [draft EXCEPT ![d] = new] /\ UNCHANGED <<send, text, sent, cache>> /\ r \in reviews
    BY <1>0, <1>1 DEF LoadReview
  <2>. HIDE DEF new
  <2>. QED
    BY <1>0, <2>1, <2>2, DraftMoves
<1>2. CASE DebitStep(d)
  <2>1. \/ draft' = draft
        \/ Goes(d, "refused")
        \/ Goes(d, "looking")
    BY <1>2 DEF DebitStep
  <2>. QED
    BY <1>0, <1>2, <1>c, <1>d, <2>1 DEF DebitStep, Goes
<1>3. CASE Refuse(d)
  BY <1>0, <1>3, <1>e DEF Refuse
<1>4. CASE LookUp(d)
  <2>1. CASE cache[KeyFor(d)] = None /\ Goes(d, "calling")
    BY <1>0, <1>4, <1>c, <2>1 DEF LookUp, Goes
  <2>2. CASE cache[KeyFor(d)] # None
             /\ draft' = [draft EXCEPT ![d].step = "answering", ![d].result = cache[KeyFor(d)]]
    <3>. DEFINE new == [now EXCEPT !.step = "answering", !.result = cache[KeyFor(d)]]
    <3>1. new \in DraftLocals /\ new.step = "answering" /\ new.review = now.review
          /\ new.result # None
      BY <1>0, <2>2 DEF DraftLocals
    <3>2. draft' = [draft EXCEPT ![d] = new] /\ now.step = "looking"
          /\ UNCHANGED <<send, text, sent, cache>>
      BY <1>0, <1>4, <2>2 DEF LookUp
    <3>. HIDE DEF new
    <3>. QED
      BY <1>0, <3>1, <3>2, DraftMoves
  <2>. QED
    BY <1>4, <2>1, <2>2 DEF LookUp
<1>5. CASE Answers(d)
  <2>. DEFINE new == [now EXCEPT !.step = "storing", !.result = d, !.at = 1]
  <2>1. new \in DraftLocals /\ new.step = "storing" /\ new.review = now.review /\ new.result = d
    BY <1>0, <1>f DEF DraftLocals
  <2>2. draft' = [draft EXCEPT ![d] = new] /\ now.step = "calling"
        /\ UNCHANGED <<send, text, sent, cache>>
    BY <1>0, <1>5 DEF Answers, Calls
  <2>. HIDE DEF new
  <2>. QED
    BY <1>0, <2>1, <2>2, DraftMoves
<1>6. CASE FallsThrough(d)
  <2>. DEFINE new == [now EXCEPT !.at = now.at + 1]
  <2>1. now.at + 1 \in 1..(Len(Providers) + 1)
    BY <1>0, <1>6 DEF FallsThrough, Calls, DraftLocals
  <2>2. new \in DraftLocals /\ new.step = now.step /\ new.review = now.review
    BY <1>0, <2>1 DEF DraftLocals
  <2>3. draft' = [draft EXCEPT ![d] = new] /\ now.step = "calling"
        /\ UNCHANGED <<send, text, sent, cache>>
    BY <1>0, <1>6 DEF FallsThrough, Calls
  <2>. HIDE DEF new
  <2>. QED
    BY <1>0, <2>2, <2>3, DraftMoves
<1>7. CASE StartRefund(d)
  <2>. DEFINE new == [now EXCEPT !.step = "refunding", !.at = 1]
  <2>1. new \in DraftLocals /\ new.step = "refunding" /\ new.review = now.review
    BY <1>0, <1>f DEF DraftLocals
  <2>2. draft' = [draft EXCEPT ![d] = new] /\ now.step = "calling"
        /\ UNCHANGED <<send, text, sent, cache>>
    BY <1>0, <1>7 DEF StartRefund, AllFailed
  <2>. HIDE DEF new
  <2>. QED
    BY <1>0, <2>1, <2>2, DraftMoves
<1>8. CASE RefundStep(d)
  BY <1>0, <1>8, <1>c, <1>d DEF RefundStep, Goes
<1>9. CASE CommitRefund(d)
  BY <1>0, <1>9, <1>e DEF CommitRefund
<1>10. CASE StoreInCache(d)
  <2>1. draft' = [draft EXCEPT ![d] = at("answering")] /\ now.step = "storing"
        /\ UNCHANGED <<send, text, sent>> /\ cache' \in [Keys -> Text]
    BY <1>0, <1>10 DEF StoreInCache, Goes
  <2>2. /\ at("answering") \in DraftLocals /\ at("answering").step = "answering"
        /\ at("answering").review = now.review /\ at("answering").result = now.result
    BY <1>a
  <2>. HIDE DEF at
  <2>. QED
    BY <1>0, <2>1, <2>2, DraftMoves
<1>11. CASE CommitDraft(d)
  <2>1. /\ now.step = "answering" /\ now.result \in Text /\ now.review \in reviews
        /\ now.result # None /\ Ends(d, "drafted", now.result) /\ UNCHANGED <<send, sent>>
        /\ cache' = cache
    BY <1>0, <1>11 DEF CommitDraft, Saved, DraftLocals
  <2>2. text' = text \/ text' = [text EXCEPT ![now.review] = now.result]
    BY <1>11 DEF CommitDraft, Saved
  <2>3. /\ text' \in [Review -> Text]
        /\ \A r \in Review : text'[r] = text[r] \/ (text'[r] # None /\ r \in reviews)
    BY <1>0, <2>1, <2>2
  <2>. QED
    BY <1>0, <1>e, <2>1, <2>3
<1>12. CASE LoseDraft(d)
  <2>1. draft' = [draft EXCEPT ![d] = over("lost", None)] /\ UNCHANGED <<send, text, sent, cache>>
    BY <1>0, <1>12 DEF LoseDraft, Ends
  <2>2. over("lost", None) \in DraftLocals /\ over("lost", None).step = "lost"
    BY <1>0, <1>b
  <2>. HIDE DEF over
  <2>. QED
    BY <1>0, <2>1, <2>2, DraftMoves
<1>. QED
  BY <1>1, <1>2, <1>3, <1>4, <1>5, <1>6, <1>7, <1>8, <1>9, <1>10, <1>11, <1>12 DEF DraftStep

(* A sender's step writes its locals, and sends only a review that has a    *)
(* text.                                                                    *)
LEMMA SendInv ==
  ASSUME DInv, IInv', NEW s \in Sender, UNCHANGED intakeVars,
         CommitSend(s) \/ LoseSend(s) \/ \E r \in Review : LoadForSend(s, r)
  PROVE  DInv'
<1>0. /\ send \in [Sender -> SendLocals] /\ send[s] \in SendLocals
      /\ sent \subseteq reviews /\ send[s].after = {}
      /\ intake' = intake /\ reviews' = reviews /\ published' = published /\ mailed' = mailed
      /\ notices' = notices /\ read' = read /\ draft' = draft /\ text' = text /\ cache' = cache
  BY DEF DInv, DraftingTypeOK, Sending, intakeVars, CommitSend, LoseSend, LoadForSend
<1>1. Drafts' /\ Announced'
  BY <1>0 DEF DInv, Drafts, Announced, NoticeWithReview
<1>2. ASSUME NEW new \in SendLocals, send' = [send EXCEPT ![s] = new],
             sent \subseteq sent', sent' \subseteq sent \cup {send[s].review}, sent' \subseteq reviews,
             \A r \in sent' : text[r] # None,
             new.after = {}, new.step \in {"loaded", "sent"} => text[new.review] # None,
             new.step = "sent" => new.review \in sent'
      PROVE  DInv'
  <2>1. send' \in [Sender -> SendLocals] /\ send'[s] = new
        /\ \A x \in Sender \ {s} : send'[x] = send[x]
    BY <1>0, <1>2
  <2>2. DraftingTypeOK'
    BY <1>0, <1>2, <2>1 DEF DInv, DraftingTypeOK, IntakeTypeOK, IInv
  <2>3. Sending'
    BY <1>0, <1>2, <2>1 DEF DInv, Sending
  <2>. QED
    BY <1>1, <2>2, <2>3 DEF DInv
<1>3. ASSUME NEW r \in Review, LoadForSend(s, r) PROVE DInv'
  <2>. DEFINE new == [step |-> "loaded", review |-> r, after |-> SendersOf(r)]
  <2>1. SendersOf(r) = {}
    BY <1>3 DEF LoadForSend, SendersOf, DInv, Sending
  <2>2. new \in SendLocals /\ new.step = "loaded" /\ new.review = r /\ new.after = {}
    BY <2>1 DEF SendLocals
  <2>3. send' = [send EXCEPT ![s] = new] /\ sent' = sent /\ text[r] # None
        /\ \A x \in sent : text[x] # None
    BY <1>3 DEF LoadForSend, DInv, Sending
  <2>. HIDE DEF new
  <2>. QED
    BY <1>0, <1>2, <2>2, <2>3
<1>4. CASE CommitSend(s)
  <2>. DEFINE new == [send[s] EXCEPT !.step = "sent"]
  <2>1. new \in SendLocals /\ new.step = "sent" /\ new.review = send[s].review /\ new.after = {}
    BY <1>0 DEF SendLocals
  <2>2. /\ send' = [send EXCEPT ![s] = new] /\ sent' = sent \cup {send[s].review}
        /\ text[send[s].review] # None /\ \A x \in sent : text[x] # None
        /\ send[s].review \in Review
    BY <1>0, <1>4 DEF CommitSend, DInv, Sending, SendLocals
  <2>3. send[s].review \in reviews
    BY <2>2 DEF DInv, DraftingTypeOK
  <2>. HIDE DEF new
  <2>. QED
    BY <1>0, <1>2, <2>1, <2>2, <2>3
<1>5. CASE LoseSend(s)
  <2>. DEFINE new == [send[s] EXCEPT !.step = "lost"]
  <2>1. new \in SendLocals /\ new.step = "lost" /\ new.after = {}
    BY <1>0 DEF SendLocals
  <2>2. send' = [send EXCEPT ![s] = new] /\ sent' = sent /\ \A x \in sent : text[x] # None
    BY <1>0, <1>5 DEF LoseSend, DInv, Sending
  <2>. HIDE DEF new
  <2>. QED
    BY <1>0, <1>2, <2>1, <2>2
<1>. QED
  BY <1>3, <1>4, <1>5

(* A review that is created has been announced, and no other one is.        *)
LEMMA IntakeInv ==
  ASSUME DInv, IInv', IntakeNext, UNCHANGED dvars
  PROVE  DInv'
<1>0. /\ IntakeTypeOK /\ Announced
      /\ draft' = draft /\ send' = send /\ text' = text /\ sent' = sent /\ cache' = cache
  BY DEF DInv, DraftingTypeOK, dvars
<1>1. IntakeTypeOK' /\ Announced' /\ reviews \subseteq reviews'
  <2>1. ASSUME NEW r \in Review, CreateReview(r) PROVE IntakeTypeOK' /\ Announced' /\ reviews' = reviews
    BY <1>0, <2>1 DEF CreateReview, Moves, IntakeTypeOK, InProgress, Announced, NoticeWithReview
  <2>2. ASSUME NEW r \in Review, Publish(r) PROVE IntakeTypeOK' /\ Announced' /\ reviews' = reviews
    BY <1>0, <2>2 DEF Publish, Moves, IntakeTypeOK, InProgress, Announced, NoticeWithReview
  <2>3. ASSUME NEW r \in Review, ResolveRecipient(r)
        PROVE  IntakeTypeOK' /\ Announced' /\ reviews' = reviews
    BY <1>0, <2>3 DEF ResolveRecipient, Moves, IntakeTypeOK, InProgress, Announced,
                      NoticeWithReview
  <2>4. ASSUME NEW r \in Review, SendEmail(r) PROVE IntakeTypeOK' /\ Announced' /\ reviews' = reviews
    <3>1. /\ intake[r] = "mailing" /\ r \in published /\ intake' = [intake EXCEPT ![r] = "recorded"]
          /\ mailed \subseteq mailed' /\ mailed' \subseteq mailed \cup {r}
          /\ r \in mailed' \/ ~SmtpConfigured
          /\ reviews' = reviews /\ published' = published /\ notices' = notices /\ read' = read
      BY <1>0, <2>4 DEF SendEmail, Moves, Mailed, Announced
    <3>2. IntakeTypeOK'
      BY <1>0, <3>1 DEF IntakeTypeOK, InProgress
    <3>3. Announced'
      BY <1>0, <3>1 DEF IntakeTypeOK, Announced, NoticeWithReview
    <3>. QED
      BY <3>1, <3>2, <3>3
  <2>5. ASSUME NEW r \in Review, CommitReview(r)
        PROVE  IntakeTypeOK' /\ Announced' /\ reviews \subseteq reviews'
    <3>1. /\ intake[r] \in {"recorded", "unaddressed"} /\ intake' = [intake EXCEPT ![r] = "created"]
          /\ notices \subseteq notices' /\ <<r, "in_app">> \in notices'
          /\ notices' \subseteq notices \cup ({r} \X Channel)
          /\ intake[r] # "recorded" => <<r, "email">> \notin notices' \ notices
          /\ reviews' = reviews \cup {r}
          /\ published' = published /\ mailed' = mailed /\ read' = read
      BY <1>0, <2>5 DEF CommitReview, Moves, Channel
    <3>2. IntakeTypeOK'
      BY <1>0, <3>1 DEF IntakeTypeOK, InProgress
    <3>3. Announced'
      BY <1>0, <3>1 DEF IntakeTypeOK, Announced, NoticeWithReview
    <3>. QED
      BY <3>1, <3>2, <3>3
  <2>6. ASSUME NEW r \in Review, LoseReview(r) PROVE IntakeTypeOK' /\ Announced' /\ reviews' = reviews
    <3>1. /\ intake' = [intake EXCEPT ![r] = "lost"]
          /\ published \subseteq published' /\ published' \subseteq published \cup {r}
          /\ mailed \subseteq mailed' /\ mailed' \subseteq mailed \cup {r}
          /\ mailed' # mailed => r \in published
          /\ reviews' = reviews /\ notices' = notices /\ read' = read
      BY <1>0, <2>6 DEF LoseReview, Moves, Mailed, Announced
    <3>2. IntakeTypeOK'
      BY <1>0, <3>1 DEF IntakeTypeOK
    <3>3. Announced'
      BY <1>0, <3>1 DEF IntakeTypeOK, Announced, NoticeWithReview
    <3>. QED
      BY <3>1, <3>2, <3>3
  <2>7. ASSUME NEW n \in notices, MarkRead(n) PROVE IntakeTypeOK' /\ Announced' /\ reviews' = reviews
    BY <1>0, <2>7 DEF MarkRead, IntakeTypeOK, Announced, NoticeWithReview
  <2>. QED
    BY <2>1, <2>2, <2>3, <2>4, <2>5, <2>6, <2>7 DEF IntakeNext
<1>2. DraftingTypeOK'
  BY <1>0, <1>1 DEF DInv, DraftingTypeOK, IInv
<1>3. Drafts' /\ Sending'
  BY <1>0, <1>1 DEF DInv, Drafts, Sending
<1>. QED
  BY <1>1, <1>2, <1>3 DEF DInv

LEMMA StepDrafting == DInv /\ [DraftingNext]_reviewVars => DInv'
<1>. SUFFICES ASSUME DInv, [DraftingNext]_reviewVars PROVE DInv'
  OBVIOUS
<1>1. IInv'
  BY DraftingLedgerSteps, NextInv DEF DInv
<1>2. ASSUME UNCHANGED <<intakeVars, dvars>> PROVE DInv'
  BY <1>1, <1>2 DEF intakeVars, dvars, DInv, IInv, DraftingTypeOK, IntakeTypeOK, Drafts, Sending,
                    Announced, NoticeWithReview
<1>3. ASSUME NEW k \in Keys, Expire(k), UNCHANGED intakeVars PROVE DInv'
  BY <1>1, <1>3 DEF Expire, intakeVars, DInv, IInv, DraftingTypeOK, IntakeTypeOK, Drafts, Sending,
                    Announced, NoticeWithReview, Text
<1>4. ASSUME NEW t \in Txn \ Draft, Recharge(t), UNCHANGED intakeVars PROVE DInv'
  BY <1>2, <1>4 DEF Recharge
<1>. QED
  BY <1>1, <1>2, <1>3, <1>4, DraftInv, SendInv, IntakeInv
     DEF DraftingNext, DraftingStep, reviewVars

-----------------------------------------------------------------------------
(* Drafts and recharges are transactions of the ledger, across the calls to *)
(* the providers and the refunds: whatever the ledger promises holds here.  *)
THEOREM DraftingUsesLedger == DraftingSpec => Spec
<1>1. DraftingInit => Init
  BY DEF DraftingInit
<1>. QED
  BY <1>1, InitDrafting, StepDrafting, DraftingLedgerSteps, PTL DEF DraftingSpec, Spec

(* The state has its type, for any reviews, providers and requests. *)
THEOREM DraftingTypeCorrect == DraftingSpec => []DraftingTypeOK
<1>1. DInv => DraftingTypeOK
  BY DEF DInv
<1>. QED
  BY <1>1, InitDrafting, StepDrafting, PTL DEF DraftingSpec

(* A response is sent twice only by requests that overlap, whatever drafts  *)
(* end meanwhile, and is never sent without a text.                         *)
THEOREM SentOnceButForOverlap == DraftingSpec => []SentOnce
<1>1. DInv => SentOnce
  BY DEF DInv, Sending, SentOnce
<1>. QED
  BY <1>1, InitDrafting, StepDrafting, PTL DEF DraftingSpec

(* Reviews are announced, and email rows stand for mails, whatever requests *)
(* are lost between the mail and the commit.                                *)
THEOREM ReviewsAreAnnounced == DraftingSpec => []NoticeWithReview
<1>1. DInv => NoticeWithReview
  BY DEF DInv, Announced
<1>. QED
  BY <1>1, InitDrafting, StepDrafting, PTL DEF DraftingSpec

-----------------------------------------------------------------------------
(* Charges and texts. *)

(* Where a draft is tells what call it is in and what it has written.       *)
ChargeOf(d) ==
  /\ draft[d].step = "idle" <=> status[d] = "idle"
  /\ draft[d].step \in {"drafted", "failed", "lost"} <=> status[d] \in {"committed", "aborted"}
  /\ draft[d].step = "drafted" => status[d] = "committed"
  /\ draft[d].step \in {"debiting", "refunding"} <=> pc[d] # "ready"
  /\ draft[d].step = "debiting" => call[d] = Debit(draft[d].review)
  /\ draft[d].step = "refunding" => call[d] = Refund(draft[d].review)
  /\ Booked(d) = IF draft[d].step \in {"looking", "calling", "storing", "answering",
                                       "refunding", "drafted"}
                 THEN -DraftCost ELSE 0

Charges == \A d \in Draft : ChargeOf(d)

(* Text x was written for review r, or one of its key. *)
Fits(x, r) == x \in Draft /\ draft[x].step # "idle" /\ CacheKey(draft[x].review) = CacheKey(r)

(* Every text on its way fits, and a saved one was paid for by a draft of   *)
(* its review.                                                              *)
Genuine ==
  /\ \A k \in Keys : cache[k] # None => \E r \in Review : k = CacheKey(r) /\ Fits(cache[k], r)
  /\ \A d \in Draft : draft[d].result # None =>
       draft[d].step # "idle" /\ Fits(draft[d].result, draft[d].review)
  /\ \A r \in Review : text[r] # None =>
       \E d \in Draft : /\ draft[d].step = "drafted" /\ draft[d].review = r
                        /\ draft[d].result = text[r]

PInv == DInv /\ SumInv /\ Charges /\ Genuine

LEMMA InitPaid == DraftingInit => PInv
<1>. SUFFICES ASSUME DraftingInit PROVE PInv
  OBVIOUS
<1>1. DInv /\ SumInv
  BY InitDrafting, InitSums DEF DraftingInit
<1>2. \A d \in Draft : Booked(d) = 0
  <2>1. \A d \in Draft : {r \in rows : r.txn = d} = {}
    BY DEF DraftingInit, Init
  <2>. QED
    BY <2>1, TotalOfNone DEF Booked
<1>3. Charges
  BY <1>2, DraftIsTxn DEF DraftingInit, Init, Charges, ChargeOf
<1>4. Genuine
  BY DEF DraftingInit, Genuine
<1>. QED
  BY <1>1, <1>3, <1>4 DEF PInv

(* A draft's step is a statement of its transaction, or none. *)
LEMMA DraftIsStep ==
  ASSUME DInv, NEW d \in Draft,
         DraftStep(d) \/ LoseDraft(d) \/ \E r \in Review : LoadReview(d, r)
  PROVE  Step(d) \/ UNCHANGED vars
<1>1. draft[d].review \in Review
  BY DEF DInv, DraftingTypeOK, DraftLocals
<1>. QED
  BY <1>1, EntriesType
     DEF DraftStep, DebitStep, Refuse, LookUp, Answers, FallsThrough, StartRefund, RefundStep,
         CommitRefund, StoreInCache, CommitDraft, LoseDraft, LoadReview, Step

(* And it moves no other draft. *)
LEMMA OthersKept ==
  ASSUME NEW d \in Draft, NEW x \in Draft \ {d}, DInv,
         DraftStep(d) \/ LoseDraft(d) \/ \E r \in Review : LoadReview(d, r)
  PROVE  draft'[x] = draft[x]
BY DEF DInv, DraftingTypeOK, DraftStep, DebitStep, Refuse, LookUp, Answers, FallsThrough,
       StartRefund, RefundStep, CommitRefund, StoreInCache, CommitDraft, LoseDraft, LoadReview,
       Goes, Ends

(* What a step makes of the request's locals. *)
Becomes(d, step, review, result) ==
  draft'[d].step = step /\ draft'[d].review = review /\ draft'[d].result = result

LEMMA DraftBecomes ==
  ASSUME DInv, NEW d \in Draft
  PROVE  /\ \A step : Goes(d, step) => Becomes(d, step, draft[d].review, draft[d].result)
         /\ \A step, result : Ends(d, step, result) => Becomes(d, step, draft[d].review, result)
         /\ \A r : LoadReview(d, r) => Becomes(d, "debiting", r, draft[d].result)
         /\ Answers(d) => Becomes(d, "storing", draft[d].review, d)
         /\ FallsThrough(d) => Becomes(d, draft[d].step, draft[d].review, draft[d].result)
         /\ StartRefund(d) => Becomes(d, "refunding", draft[d].review, draft[d].result)
         /\ LookUp(d) => \/ Goes(d, "calling")
                         \/ /\ cache[KeyFor(d)] # None
                            /\ Becomes(d, "answering", draft[d].review, cache[KeyFor(d)])
<1>. DEFINE now == draft[d]
<1>0. now \in DraftLocals /\ draft \in [Draft -> DraftLocals]
  BY DEF DInv, DraftingTypeOK
<1>1. ASSUME NEW new, draft' = [draft EXCEPT ![d] = new] PROVE draft'[d] = new
  BY <1>0, <1>1
<1>2. ASSUME NEW step, Goes(d, step) PROVE Becomes(d, step, now.review, now.result)
  <2>. DEFINE new == [now EXCEPT !.step = step]
  <2>1. draft' = [draft EXCEPT ![d] = new]
    BY <1>0, <1>2 DEF Goes
  <2>2. new.step = step /\ new.review = now.review /\ new.result = now.result
    BY <1>0 DEF DraftLocals
  <2>. HIDE DEF new
  <2>. QED
    BY <1>1, <2>1, <2>2 DEF Becomes
<1>3. ASSUME NEW step, NEW result, Ends(d, step, result)
      PROVE  Becomes(d, step, now.review, result)
  <2>. DEFINE new == [now EXCEPT !.step = step, !.loaded = None, !.result = result, !.at = 1]
  <2>1. draft' = [draft EXCEPT ![d] = new]
    BY <1>0, <1>3 DEF Ends
  <2>2. new.step = step /\ new.review = now.review /\ new.result = result
    BY <1>0 DEF DraftLocals
  <2>. HIDE DEF new
  <2>. QED
    BY <1>1, <2>1, <2>2 DEF Becomes
<1>4. ASSUME NEW r, LoadReview(d, r) PROVE Becomes(d, "debiting", r, now.result)
  <2>. DEFINE new == [now EXCEPT !.step = "debiting", !.review = r, !.loaded = text[r]]
  <2>1. draft' = [draft EXCEPT ![d] = new]
    BY <1>0, <1>4 DEF LoadReview
  <2>2. new.step = "debiting" /\ new.review = r /\ new.result = now.result
    BY <1>0 DEF DraftLocals
  <2>. HIDE DEF new
  <2>. QED
    BY <1>1, <2>1, <2>2 DEF Becomes
<1>5. ASSUME Answers(d) PROVE Becomes(d, "storing", now.review, d)
  <2>. DEFINE new == [now EXCEPT !.step = "storing", !.result = d, !.at = 1]
  <2>1. draft' = [draft EXCEPT ![d] = new]
    BY <1>0, <1>5 DEF Answers
  <2>2. new.step = "storing" /\ new.review = now.review /\ new.result = d
    BY <1>0 DEF DraftLocals
  <2>. HIDE DEF new
  <2>. QED
    BY <1>1, <2>1, <2>2 DEF Becomes
<1>6. ASSUME FallsThrough(d) PROVE Becomes(d, now.step, now.review, now.result)
  <2>. DEFINE new == [now EXCEPT !.at = now.at + 1]
  <2>1. draft' = [draft EXCEPT ![d] = new]
    BY <1>0, <1>6 DEF FallsThrough
  <2>2. new.step = now.step /\ new.review = now.review /\ new.result = now.result
    BY <1>0 DEF DraftLocals
  <2>. HIDE DEF new
  <2>. QED
    BY <1>1, <2>1, <2>2 DEF Becomes
<1>7. ASSUME StartRefund(d) PROVE Becomes(d, "refunding", now.review, now.result)
  <2>. DEFINE new == [now EXCEPT !.step = "refunding", !.at = 1]
  <2>1. draft' = [draft EXCEPT ![d] = new]
    BY <1>0, <1>7 DEF StartRefund
  <2>2. new.step = "refunding" /\ new.review = now.review /\ new.result = now.result
    BY <1>0 DEF DraftLocals
  <2>. HIDE DEF new
  <2>. QED
    BY <1>1, <2>1, <2>2 DEF Becomes
<1>8. ASSUME cache[KeyFor(d)] # None, LookUp(d)
      PROVE  Becomes(d, "answering", now.review, cache[KeyFor(d)])
  <2>. DEFINE new == [now EXCEPT !.step = "answering", !.result = cache[KeyFor(d)]]
  <2>1. draft' = [draft EXCEPT ![d] = new]
    BY <1>0, <1>8 DEF LookUp
  <2>2. new.step = "answering" /\ new.review = now.review /\ new.result = cache[KeyFor(d)]
    BY <1>0 DEF DraftLocals
  <2>. HIDE DEF new
  <2>. QED
    BY <1>1, <2>1, <2>2 DEF Becomes
<1>9. LookUp(d) => Goes(d, "calling") \/ cache[KeyFor(d)] # None
  BY DEF LookUp
<1>. QED
  BY <1>2, <1>3, <1>4, <1>5, <1>6, <1>7, <1>8, <1>9

LEMMA DraftCharges ==
  ASSUME PInv, SumInv', NEW d \in Draft,
         DraftStep(d) \/ LoseDraft(d) \/ \E r \in Review : LoadReview(d, r)
  PROVE  Charges'
<1>0. /\ d \in Txn /\ draft \in [Draft -> DraftLocals] /\ TypeOK /\ IInv' /\ DraftCost \in Int
      /\ status \in [Txn -> {"idle", "active", "committed", "aborted"}]
      /\ pc \in [Txn -> {"ready", "lock", "read", "append"}] /\ call \in [Txn -> Call]
      /\ \A x \in Draft : draft[x].review \in Review
  BY DraftIsTxn, DraftingAssumption, AmountAssumption
     DEF PInv, DInv, DraftingTypeOK, SumInv, IInv, TypeOK, DraftLocals
<1>1. ASSUME NEW x \in Draft \ {d} PROVE ChargeOf(x)'
  <2>1. draft'[x] = draft[x] /\ x \in Txn /\ ChargeOf(x)
    BY <1>1, OthersKept, DraftIsTxn DEF PInv, Charges
  <2>2. CASE Step(d)
    BY <1>0, <1>1, <2>1, <2>2, OthersUntouched, BookedMoves DEF ChargeOf, PInv
  <2>3. CASE UNCHANGED vars
    BY <2>1, <2>3 DEF ChargeOf, vars, Booked
  <2>. QED
    BY <2>2, <2>3, DraftIsStep DEF PInv
<1>2. ChargeOf(d)
  BY DEF PInv, Charges
<1>3. /\ AppendEntry(d) => Booked(d)' = Booked(d) + Delta(call[d])
      /\ Rollback(d) => Booked(d)' = 0
      /\ rows' = rows => Booked(d)' = Booked(d)
  BY <1>0, BookedMoves DEF PInv, Booked, Step
<1>c. DInv
  BY DEF PInv
<1>a. ASSUME NEW step, Goes(d, step)
      PROVE  draft'[d].step = step /\ draft'[d].review = draft[d].review
  BY <1>a, <1>c, DraftBecomes DEF Becomes
<1>b. /\ AppendEntry(d) => pc'[d] = "ready" /\ status'[d] = status[d]
      /\ Lock(d) => pc'[d] = "read" /\ status'[d] = status[d] /\ call'[d] = call[d] /\ rows' = rows
      /\ ReadBalance(d) =>
           /\ status'[d] = status[d] /\ rows' = rows
           /\ \/ pc'[d] = "ready" /\ call[d].kind = "debit"
              \/ pc'[d] = "append" /\ call'[d] = call[d]
  BY <1>0 DEF AppendEntry, Lock, ReadBalance, Return, Refused
<1>4. UNCHANGED vars => Booked(d)' = Booked(d)
  BY DEF vars, Booked
<1>5. ASSUME NEW r \in Review, LoadReview(d, r) PROVE ChargeOf(d)'
  <2>1. rows' = rows
    BY <1>5 DEF LoadReview, Enter
  <2>2. draft'[d].step = "debiting" /\ draft'[d].review = r /\ draft[d].step = "idle"
    <3>1. Becomes(d, "debiting", r, draft[d].result)
      BY <1>5, <1>c, DraftBecomes
    <3>2. draft[d].step = "idle"
      BY <1>5 DEF LoadReview
    <3>. QED
      BY <3>1, <3>2 DEF Becomes
  <2>3. status'[d] = "active" /\ pc'[d] = "lock" /\ call'[d] = Debit(r)
    BY <1>0, <1>5 DEF LoadReview, Enter, TypeOK
  <2>. QED
    BY <1>2, <1>3, <2>1, <2>2, <2>3 DEF ChargeOf
<1>6. ASSUME DebitStep(d) PROVE ChargeOf(d)'
  <2>1. Delta(call[d]) = -DraftCost /\ draft[d].step = "debiting" /\ Booked(d) = 0
        /\ status[d] = "active"
    BY <1>0, <1>2, <1>6 DEF DebitStep, ChargeOf, Delta, Debit
  <2>2. CASE Lock(d) /\ UNCHANGED draft
    BY <1>2, <1>3, <1>b, <2>1, <2>2 DEF ChargeOf
  <2>3. CASE ReadBalance(d) /\ pc'[d] = "ready" /\ Goes(d, "refused")
    BY <1>3, <1>a, <1>b, <2>1, <2>3 DEF ChargeOf
  <2>4. CASE ReadBalance(d) /\ pc'[d] # "ready" /\ UNCHANGED draft
    BY <1>2, <1>3, <1>b, <2>1, <2>4 DEF ChargeOf
  <2>5. CASE AppendEntry(d) /\ Goes(d, "looking")
    BY <1>0, <1>3, <1>a, <1>b, <2>1, <2>5 DEF ChargeOf
  <2>. QED
    BY <1>6, <2>2, <2>3, <2>4, <2>5 DEF DebitStep
<1>7. ASSUME Refuse(d) \/ LoseDraft(d) PROVE ChargeOf(d)'
  <2>1. draft'[d].step \in {"failed", "lost"} /\ Rollback(d)
    BY <1>7, <1>c, DraftBecomes DEF Refuse, LoseDraft, Becomes
  <2>2. status'[d] = "aborted" /\ pc'[d] = "ready" /\ Booked(d)' = 0
    BY <1>0, <1>3, <2>1 DEF Rollback, Return, TypeOK
  <2>. QED
    BY <2>1, <2>2 DEF ChargeOf
<1>8. ASSUME LookUp(d) \/ Answers(d) \/ FallsThrough(d) \/ StoreInCache(d) PROVE ChargeOf(d)'
  <2>1. /\ draft[d].step \in {"looking", "calling", "storing"}
        /\ draft'[d].step \in {"calling", "storing", "answering"}
    <3>1. CASE LookUp(d)
      <4>1. draft'[d].step \in {"calling", "answering"}
        BY <1>c, <3>1, DraftBecomes DEF Becomes
      <4>. QED
        BY <3>1, <4>1 DEF LookUp
    <3>2. CASE Answers(d)
      <4>1. draft'[d].step = "storing"
        BY <1>c, <3>2, DraftBecomes DEF Becomes
      <4>. QED
        BY <3>2, <4>1 DEF Answers, Calls
    <3>3. CASE FallsThrough(d)
      <4>1. draft'[d].step = draft[d].step
        BY <1>c, <3>3, DraftBecomes DEF Becomes
      <4>. QED
        BY <3>3, <4>1 DEF FallsThrough, Calls
    <3>4. CASE StoreInCache(d)
      BY <1>a, <3>4 DEF StoreInCache
    <3>. QED
      BY <1>8, <3>1, <3>2, <3>3, <3>4
  <2>2. UNCHANGED vars
    BY <1>8 DEF LookUp, Answers, FallsThrough, StoreInCache
  <2>3. status' = status /\ pc' = pc
    BY <2>2 DEF vars
  <2>. QED
    BY <1>2, <1>4, <2>1, <2>2, <2>3 DEF ChargeOf
<1>9. ASSUME StartRefund(d) PROVE ChargeOf(d)'
  <2>1. rows' = rows
    BY <1>9 DEF StartRefund, Enter
  <2>2. draft'[d].step = "refunding" /\ draft'[d].review = draft[d].review /\ draft[d].step = "calling"
    BY <1>9, <1>c, DraftBecomes DEF StartRefund, AllFailed, Becomes
  <2>3. status'[d] = "active" /\ pc'[d] = "lock" /\ call'[d] = Refund(draft[d].review)
    BY <1>0, <1>9 DEF StartRefund, Enter, TypeOK
  <2>. QED
    BY <1>2, <1>3, <2>1, <2>2, <2>3 DEF ChargeOf
<1>10. ASSUME RefundStep(d) PROVE ChargeOf(d)'
  <2>1. Delta(call[d]) = DraftCost /\ draft[d].step = "refunding" /\ Booked(d) = -DraftCost
        /\ status[d] = "active" /\ call[d].kind = "credit"
    BY <1>0, <1>2, <1>10 DEF RefundStep, ChargeOf, Delta, Refund
  <2>2. CASE Lock(d) /\ UNCHANGED draft
    BY <1>2, <1>3, <1>b, <2>1, <2>2 DEF ChargeOf
  <2>3. CASE ReadBalance(d) /\ UNCHANGED draft
    BY <1>2, <1>3, <1>b, <2>1, <2>3 DEF ChargeOf
  <2>4. CASE AppendEntry(d) /\ Goes(d, "refunded")
    BY <1>0, <1>3, <1>a, <1>b, <2>1, <2>4 DEF ChargeOf
  <2>. QED
    BY <1>10, <2>2, <2>3, <2>4 DEF RefundStep
<1>11. ASSUME CommitRefund(d) \/ CommitDraft(d) PROVE ChargeOf(d)'
  <2>1. rows' = rows /\ status'[d] = "committed" /\ pc'[d] = "ready"
    BY <1>0, <1>11 DEF CommitRefund, CommitDraft, Commit
  <2>2. \/ draft[d].step = "refunded" /\ draft'[d].step = "failed"
        \/ draft[d].step = "answering" /\ draft'[d].step = "drafted"
    BY <1>11, <1>c, DraftBecomes DEF CommitRefund, CommitDraft, Becomes
  <2>. QED
    BY <1>2, <1>3, <2>1, <2>2 DEF ChargeOf
<1>12. ChargeOf(d)'
  BY <1>5, <1>6, <1>7, <1>8, <1>9, <1>10, <1>11 DEF DraftStep
<1>. QED
  BY <1>1, <1>12 DEF Charges

LEMMA OthersCharged ==
  ASSUME PInv, SumInv', NEW t \in Txn \ Draft, Recharge(t)
  PROVE  Charges'
<1>1. draft' = draft /\ (Step(t) \/ UNCHANGED vars) /\ TypeOK /\ IInv'
  <2>1. \A r \in Reference : [kind |-> "credit", amount |-> Recharged, reference |-> r] \in Call
    BY DraftingAssumption DEF Call
  <2>. QED
    BY <2>1 DEF Recharge, Step, dvars, PInv, SumInv, IInv
<1>2. ASSUME NEW x \in Draft PROVE ChargeOf(x)'
  <2>1. x \in Txn \ {t} /\ ChargeOf(x)
    BY DraftIsTxn DEF PInv, Charges
  <2>2. CASE Step(t)
    BY <1>1, <2>1, <2>2, OthersUntouched, BookedMoves DEF ChargeOf, PInv
  <2>3. CASE UNCHANGED vars
    BY <1>1, <2>1, <2>3 DEF ChargeOf, vars, Booked
  <2>. QED
    BY <1>1, <2>2, <2>3
<1>. QED
  BY <1>2 DEF Charges

(* A draft's step writes its own locals, at most an answer of its own into  *)
(* the cache, and its result, when it is drafted, into its review.          *)
LEMMA GenuineKept ==
  ASSUME PInv, NEW d \in Draft, NEW step, NEW review \in Review, NEW result,
         Becomes(d, step, review, result), step # "idle", draft[d].step # "drafted",
         \A x \in Draft \ {d} : draft'[x] = draft[x],
         draft[d].step = "idle" \/ review = draft[d].review,
         result # None => result = d \/ Fits(result, review),
         \A k \in Keys : cache'[k] = cache[k] \/ (k = CacheKey(review) /\ cache'[k] = d),
         \A r \in Review : \/ text'[r] = text[r]
                           \/ step = "drafted" /\ r = review /\ text'[r] = result
  PROVE  Genuine'
<1>1. ASSUME NEW x, NEW r, Fits(x, r) PROVE Fits(x, r)'
  <2>1. CASE x = d
    BY <1>1, <2>1 DEF Fits, Becomes, CacheKey
  <2>2. CASE x # d
    BY <1>1, <2>2 DEF Fits, CacheKey
  <2>. QED
    BY <2>1, <2>2
<1>2. Fits(d, review)'
  BY DEF Fits, Becomes, CacheKey
<1>3. ASSUME NEW k \in Keys, cache'[k] # None
      PROVE  (\E r \in Review : k = CacheKey(r) /\ Fits(cache[k], r))'
  <2>1. CASE cache'[k] = cache[k]
    <3>1. PICK r \in Review : k = CacheKey(r) /\ Fits(cache[k], r)
      BY <1>3, <2>1 DEF PInv, Genuine
    <3>2. Fits(cache[k], r)'
      BY <1>1, <2>1, <3>1 DEF Fits
    <3>. QED
      BY <3>1, <3>2 DEF CacheKey
  <2>2. CASE k = CacheKey(review) /\ cache'[k] = d
    BY <1>2, <2>2 DEF Fits, CacheKey
  <2>. QED
    BY <2>1, <2>2
<1>4. ASSUME NEW x \in Draft, draft'[x].result # None
      PROVE  draft'[x].step # "idle" /\ Fits(draft[x].result, draft[x].review)'
  <2>1. CASE x = d
    BY <1>1, <1>2, <1>4, <2>1 DEF Becomes, Fits
  <2>2. CASE x # d
    BY <1>1, <1>4, <2>2 DEF PInv, Genuine, Fits
  <2>. QED
    BY <2>1, <2>2
<1>5. ASSUME NEW r \in Review, text'[r] # None
      PROVE  \E x \in Draft : /\ draft'[x].step = "drafted" /\ draft'[x].review = r
                              /\ draft'[x].result = text'[r]
  <2>1. CASE text'[r] = text[r]
    <3>1. PICK x \in Draft : draft[x].step = "drafted" /\ draft[x].review = r
                             /\ draft[x].result = text[r]
      BY <1>5, <2>1 DEF PInv, Genuine
    <3>2. draft'[x] = draft[x]
      BY <3>1
    <3>. QED
      BY <2>1, <3>1, <3>2
  <2>2. CASE step = "drafted" /\ r = review /\ text'[r] = result
    BY <2>2 DEF Becomes
  <2>. QED
    BY <2>1, <2>2
<1>. QED
  BY <1>3, <1>4, <1>5 DEF Genuine, Keys, CacheKey, Fits

LEMMA DraftGenuine ==
  ASSUME PInv, NEW d \in Draft,
         DraftStep(d) \/ LoseDraft(d) \/ \E r \in Review : LoadReview(d, r)
  PROVE  Genuine'
<1>. DEFINE now == draft[d]
            Others == \A x \in Draft \ {d} : draft'[x] = draft[x]
            SameText == \A r \in Review : text'[r] = text[r]
            SameCache == \A k \in Keys : cache'[k] = cache[k]
<1>0. /\ DInv /\ Others /\ now.review \in Review
      /\ now.result # None => now.step # "idle" /\ Fits(now.result, now.review)
  BY OthersKept DEF PInv, DInv, DraftingTypeOK, DraftLocals, Genuine
<1>a. ASSUME NEW step, Goes(d, step) \/ draft' = draft, SameText, SameCache,
             step # "idle", now.step \notin {"idle", "drafted"}
      PROVE  Genuine'
  <2>1. CASE draft' = draft
    <3>1. Becomes(d, now.step, now.review, now.result)
      BY <2>1 DEF Becomes
    <3>. QED
      BY <1>0, <1>a, <3>1, GenuineKept
  <2>2. CASE Goes(d, step)
    <3>1. Becomes(d, step, now.review, now.result)
      BY <1>0, <2>2, DraftBecomes
    <3>. QED
      BY <1>0, <1>a, <3>1, GenuineKept
  <2>. QED
    BY <1>a, <2>1, <2>2
<1>b. ASSUME NEW step, Ends(d, step, None), SameText, SameCache, step # "idle", now.step # "drafted"
      PROVE  Genuine'
  <2>1. Becomes(d, step, now.review, None)
    BY <1>0, <1>b, DraftBecomes
  <2>. QED
    BY <1>0, <1>b, <2>1, GenuineKept
<1>1. ASSUME NEW r \in Review, LoadReview(d, r) PROVE Genuine'
  <2>1. Becomes(d, "debiting", r, now.result) /\ now.step = "idle" /\ SameText /\ SameCache
    BY <1>0, <1>1, DraftBecomes DEF LoadReview
  <2>. QED
    BY <1>0, <2>1, GenuineKept
<1>2. ASSUME DebitStep(d) \/ RefundStep(d) PROVE Genuine'
  <2>1. /\ SameText /\ SameCache /\ now.step \notin {"idle", "drafted"}
        /\ draft' = draft \/ Goes(d, "refused") \/ Goes(d, "looking") \/ Goes(d, "refunded")
    BY <1>2 DEF DebitStep, RefundStep
  <2>. HIDE DEF SameText, SameCache, now
  <2>. QED
    BY <1>a, <2>1
<1>3. ASSUME Refuse(d) \/ CommitRefund(d) PROVE Genuine'
  <2>1. SameText /\ SameCache /\ now.step # "drafted" /\ Ends(d, "failed", None)
    BY <1>3 DEF Refuse, CommitRefund
  <2>. QED
    BY <1>b, <2>1
<1>4. ASSUME LoseDraft(d) PROVE Genuine'
  <2>1. now.step # "drafted"
    BY <1>4 DEF LoseDraft, Rollback, PInv, Charges, ChargeOf
  <2>2. SameText /\ SameCache /\ Ends(d, "lost", None)
    BY <1>4 DEF LoseDraft
  <2>. QED
    BY <1>b, <2>1, <2>2
<1>5. ASSUME LookUp(d) PROVE Genuine'
  <2>1. SameText /\ SameCache /\ now.step = "looking"
    BY <1>5 DEF LookUp
  <2>2. CASE Goes(d, "calling")
    BY <1>a, <2>1, <2>2
  <2>3. CASE /\ cache[KeyFor(d)] # None
             /\ Becomes(d, "answering", now.review, cache[KeyFor(d)])
    <3>1. PICK r \in Review : KeyFor(d) = CacheKey(r) /\ Fits(cache[KeyFor(d)], r)
      BY <1>0, <2>3 DEF PInv, Genuine, KeyFor, Keys
    <3>2. Fits(cache[KeyFor(d)], now.review)
      BY <3>1 DEF Fits, KeyFor
    <3>. QED
      BY <1>0, <2>1, <2>3, <3>2, GenuineKept
  <2>. QED
    BY <1>0, <1>5, <2>2, <2>3, DraftBecomes
<1>6. ASSUME Answers(d) PROVE Genuine'
  <2>1. SameText /\ SameCache /\ now.step = "calling"
    BY <1>6 DEF Answers, Calls
  <2>2. Becomes(d, "storing", now.review, d)
    BY <1>0, <1>6, DraftBecomes
  <2>. QED
    BY <1>0, <2>1, <2>2, GenuineKept
<1>7. ASSUME FallsThrough(d) PROVE Genuine'
  <2>1. SameText /\ SameCache /\ now.step = "calling"
    BY <1>7 DEF FallsThrough, Calls
  <2>2. Becomes(d, now.step, now.review, now.result)
    BY <1>0, <1>7, DraftBecomes
  <2>. QED
    BY <1>0, <2>1, <2>2, GenuineKept
<1>8. ASSUME StartRefund(d) PROVE Genuine'
  <2>1. SameText /\ SameCache /\ now.step = "calling"
    BY <1>8 DEF StartRefund, AllFailed
  <2>2. Becomes(d, "refunding", now.review, now.result)
    BY <1>0, <1>8, DraftBecomes
  <2>. QED
    BY <1>0, <2>1, <2>2, GenuineKept
<1>9. ASSUME StoreInCache(d) PROVE Genuine'
  <2>1. /\ SameText /\ now.step = "storing"
        /\ \A k \in Keys : cache'[k] = cache[k] \/ (k = CacheKey(now.review) /\ cache'[k] = d)
    <3>1. cache \in [Keys -> Text]
      BY <1>0 DEF DInv, DraftingTypeOK
    <3>. QED
      BY <1>9, <3>1 DEF StoreInCache, KeyFor
  <2>2. Becomes(d, "answering", now.review, now.result)
    BY <1>0, <1>9, DraftBecomes DEF StoreInCache
  <2>. QED
    BY <1>0, <2>1, <2>2, GenuineKept
<1>10. ASSUME CommitDraft(d) PROVE Genuine'
  <2>1. /\ SameCache /\ now.step = "answering"
        /\ \A r \in Review : text'[r] = text[r] \/ (r = now.review /\ text'[r] = now.result)
    <3>1. text \in [Review -> Text]
      BY <1>0 DEF DInv, DraftingTypeOK
    <3>. QED
      BY <1>10, <3>1 DEF CommitDraft, Saved
  <2>2. Becomes(d, "drafted", now.review, now.result)
    BY <1>0, <1>10, DraftBecomes DEF CommitDraft
  <2>. QED
    BY <1>0, <2>1, <2>2, GenuineKept
<1>. QED
  BY <1>1, <1>2, <1>3, <1>4, <1>5, <1>6, <1>7, <1>8, <1>9, <1>10 DEF DraftStep

LEMMA StepPaid == PInv /\ [DraftingNext]_reviewVars => PInv'
<1>. SUFFICES ASSUME PInv, [DraftingNext]_reviewVars PROVE PInv'
  OBVIOUS
<1>1. DInv' /\ SumInv'
  BY DraftingLedgerSteps, StepDrafting, NextSums DEF PInv
<1>2. ASSUME NEW d \in Draft,
             DraftStep(d) \/ LoseDraft(d) \/ \E r \in Review : LoadReview(d, r)
      PROVE  Charges' /\ Genuine'
  BY <1>1, <1>2, DraftCharges, DraftGenuine
<1>3. ASSUME NEW k \in Keys, Expire(k) PROVE Charges' /\ Genuine'
  <2>1. UNCHANGED <<vars, draft, text>> /\ \A x \in Keys : cache'[x] \in {cache[x], None}
    <3>1. cache \in [Keys -> Text]
      BY DEF PInv, DInv, DraftingTypeOK
    <3>. QED
      BY <1>3, <3>1 DEF Expire
  <2>2. Charges'
    BY <2>1 DEF PInv, Charges, ChargeOf, vars, Booked
  <2>3. Genuine'
    BY <2>1 DEF PInv, Genuine, Fits, Keys, CacheKey
  <2>. QED
    BY <2>2, <2>3
<1>4. ASSUME NEW s \in Sender, CommitSend(s) \/ LoseSend(s) \/ \E r \in Review : LoadForSend(s, r)
      PROVE  Charges' /\ Genuine'
  <2>1. UNCHANGED <<vars, draft, text, cache>>
    BY <1>4 DEF CommitSend, LoseSend, LoadForSend
  <2>. QED
    BY <2>1 DEF PInv, Charges, ChargeOf, vars, Booked, Genuine, Fits, Keys, CacheKey
<1>5. ASSUME NEW t \in Txn \ Draft, Recharge(t) PROVE Charges' /\ Genuine'
  <2>1. Charges'
    BY <1>1, <1>5, OthersCharged
  <2>. QED
    BY <1>5, <2>1 DEF Recharge, dvars, PInv, Genuine, Fits, Keys, CacheKey
<1>6. ASSUME UNCHANGED <<vars, dvars>> PROVE Charges' /\ Genuine'
  BY <1>6 DEF PInv, Charges, ChargeOf, vars, Booked, dvars, Genuine, Fits, Keys, CacheKey
<1>. QED
  BY <1>1, <1>2, <1>3, <1>4, <1>5, <1>6 DEF PInv, DraftingNext, DraftingStep, reviewVars

LEMMA PaidInvariant == DraftingSpec => []PInv
BY InitPaid, StepPaid, PTL DEF DraftingSpec

LEMMA NetOfDraft ==
  ASSUME PInv, NEW d \in Draft
  PROVE  Net(d) = IF draft[d].step = "drafted" THEN -DraftCost ELSE 0
<1>1. ChargeOf(d)
  BY DEF PInv, Charges
<1>2. CASE status[d] = "committed"
  <2>1. {r \in rows : r.txn = d /\ status[d] = "committed"} = {r \in rows : r.txn = d}
    BY <1>2
  <2>2. Net(d) = Booked(d)
    BY <2>1 DEF Net, Booked
  <2>3. draft[d].step \in {"drafted", "failed", "lost"}
    BY <1>1, <1>2 DEF ChargeOf
  <2>. QED
    BY <1>1, <2>2, <2>3 DEF ChargeOf
<1>3. CASE status[d] # "committed"
  <2>1. {r \in rows : r.txn = d /\ status[d] = "committed"} = {}
    BY <1>3
  <2>2. Net(d) = 0
    BY <2>1, TotalOfNone DEF Net
  <2>. QED
    BY <1>1, <1>3, <2>2 DEF ChargeOf
<1>. QED
  BY <1>2, <1>3

(* "Never charge for a draft that didn't happen", wherever the request      *)
(* stops, and never more than once for one that did.                        *)
THEOREM ChargedForDraftsOnly == DraftingSpec => []ChargedIffDrafted
<1>1. PInv => ChargedIffDrafted
  BY NetOfDraft DEF ChargedIffDrafted
<1>. QED
  BY <1>1, PaidInvariant, PTL

(* A review never gets a text written for another rating or wording, nor    *)
(* one that no draft of its own paid for, whatever the cache holds.         *)
THEOREM TextsFitAndArePaid == DraftingSpec => []DraftFitsReview
<1>1. ASSUME PInv PROVE DraftFitsReview
  <2>1. ASSUME NEW r \in Review, text[r] # None
        PROVE  /\ Rating[draft[text[r]].review] = Rating[r]
               /\ Wording[draft[text[r]].review] = Wording[r]
               /\ \E d \in Draft : /\ draft[d].review = r /\ draft[d].result = text[r]
                                  /\ Net(d) < 0
    <3>1. PICK d \in Draft : /\ draft[d].step = "drafted" /\ draft[d].review = r
                             /\ draft[d].result = text[r]
      BY <1>1, <2>1 DEF PInv, Genuine
    <3>2. Fits(text[r], r)
      BY <1>1, <2>1, <3>1 DEF PInv, Genuine
    <3>3. Net(d) = -DraftCost /\ DraftCost \in Int /\ DraftCost > 0
      BY <1>1, <3>1, NetOfDraft, DraftingAssumption, AmountAssumption
    <3>4. Net(d) < 0
      BY <3>3
    <3>. QED
      BY <3>1, <3>2, <3>4 DEF Fits, CacheKey
  <2>. QED
    BY <2>1 DEF DraftFitsReview
<1>. QED
  BY <1>1, PaidInvariant, PTL
-----------------------------------------------------------------------------
(* The refinement of paid work. *)

ChargedShown == Charged = [d \in Draft |-> IF draft[d].step = "drafted" THEN DraftCost ELSE 0]

LEMMA ChargesAreShown == PInv => ChargedShown
<1>. SUFFICES ASSUME PInv PROVE ChargedShown
  OBVIOUS
<1>1. ASSUME NEW d \in Draft
      PROVE  -Net(d) = IF draft[d].step = "drafted" THEN DraftCost ELSE 0
  <2>1. Net(d) = IF draft[d].step = "drafted" THEN -DraftCost ELSE 0
    BY NetOfDraft
  <2>2. DraftCost \in Int
    BY DraftingAssumption, AmountAssumption
  <2>. QED
    BY <2>1, <2>2
<1>. QED
  BY <1>1 DEF ChargedShown, Charged

(* A draft's step leaves the result open, or settles it with its charge. *)
LEMMA DraftSettles ==
  ASSUME PInv, ChargedShown, ChargedShown', NEW d \in Draft,
         DraftStep(d) \/ LoseDraft(d) \/ \E r \in Review : LoadReview(d, r)
  PROVE  Work!Settle(d) \/ UNCHANGED <<Results, Charged>>
<1>. DEFINE Over == {"drafted", "failed", "lost"}
<1>0. DInv /\ ChargeOf(d) /\ \A x \in Draft \ {d} : draft'[x] = draft[x]
  BY OthersKept DEF PInv, Charges
<1>1. ASSUME draft[d].step \notin Over, draft'[d].step \in Over PROVE Work!Settle(d)
  <2>1. Results[d] = "open" /\ ResultOf(d)' \in Work!Recorded \cup {"lost"}
    BY <1>1 DEF Results, ResultOf, Work!Recorded
  <2>2. Results' = [Results EXCEPT ![d] = ResultOf(d)']
    <3>1. ASSUME NEW x \in Draft \ {d} PROVE ResultOf(x)' = ResultOf(x)
      BY <1>0, <3>1 DEF ResultOf
    <3>. QED
      BY <3>1 DEF Results
  <2>3. ResultOf(d)' = "done" <=> draft'[d].step = "drafted"
    BY <1>1 DEF ResultOf
  <2>4. Charged' = [Charged EXCEPT ![d] = IF ResultOf(d)' = "done" THEN DraftCost ELSE 0]
    BY <1>0, <2>3 DEF ChargedShown
  <2>. QED
    BY <2>1, <2>2, <2>4 DEF Work!Settle
<1>2. ASSUME draft[d].step \notin Over, draft'[d].step \notin Over
      PROVE  UNCHANGED <<Results, Charged>>
  BY <1>0, <1>2 DEF Results, ResultOf, ChargedShown
<1>3. ASSUME UNCHANGED draft PROVE UNCHANGED <<Results, Charged>>
  BY <1>3 DEF Results, ResultOf, ChargedShown
<1>4. draft[d].step \notin Over
  BY <1>0 DEF ChargeOf, LoseDraft, Rollback, LoadReview, DraftStep, DebitStep, Refuse, LookUp,
              Answers, FallsThrough, Calls, StartRefund, AllFailed, RefundStep, CommitRefund,
              StoreInCache, CommitDraft
<1>. QED
  BY <1>1, <1>2, <1>4

LEMMA DraftWork ==
  ASSUME PInv, ChargedShown, ChargedShown', [DraftingNext]_reviewVars
  PROVE  [Work!Next]_<<Results, Charged, {}>>
<1>1. ASSUME UNCHANGED draft PROVE UNCHANGED <<Results, Charged>>
  BY <1>1 DEF Results, ResultOf, ChargedShown
<1>2. ASSUME NEW d \in Draft,
             DraftStep(d) \/ LoseDraft(d) \/ \E r \in Review : LoadReview(d, r)
      PROVE  Work!Next \/ UNCHANGED <<Results, Charged>>
  BY <1>2, DraftSettles DEF Work!Next
<1>3. \/ UNCHANGED draft
      \/ \E d \in Draft : DraftStep(d) \/ LoseDraft(d) \/ \E r \in Review : LoadReview(d, r)
  BY DEF DraftingNext, DraftingStep, Expire, CommitSend, LoseSend, LoadForSend, Recharge, dvars,
         reviewVars
<1>. QED
  BY <1>1, <1>2, <1>3

(* To the business a draft is done and charged, or refused or lost and      *)
(* free, in one step and for good: whatever the cache, the providers, the   *)
(* refunds, the sends, the recharges and the crashes do in between.         *)
THEOREM DraftsArePaidWork == DraftingSpec => ImplementsPaidWork
<1>1. ASSUME DraftingInit, ChargedShown PROVE Work!Init
  BY <1>1 DEF DraftingInit, ChargedShown, Results, ResultOf, Work!Init
<1>2. PInv /\ ChargedShown /\ ChargedShown' /\ [DraftingNext]_reviewVars
      => [Work!Next]_<<Results, Charged, {}>>
  BY DraftWork
<1>. QED
  BY <1>1, <1>2, PaidInvariant, ChargesAreShown, InitPaid, PTL
     DEF DraftingSpec, ImplementsPaidWork, Work!Spec
-----------------------------------------------------------------------------
(* The balance, explained. *)

Drafted == {d \in Draft : draft[d].step = "drafted"}
DraftedOf(a) == {d \in Drafted : AccountOf[d] = a}
Recharges(a) == {r \in Committed(a) : r.txn \notin Draft}
Charge == [d \in Draft |-> -DraftCost]

(* Drafts are done one at a time: there are finitely many. *)
LEMMA DraftedIsFounded == PInv /\ Founded(Drafted) /\ [DraftingNext]_reviewVars => Founded(Drafted')
<1>. SUFFICES ASSUME PInv, Founded(Drafted), [DraftingNext]_reviewVars PROVE Founded(Drafted')
  OBVIOUS
<1>1. \/ UNCHANGED draft
      \/ \E d \in Draft : DraftStep(d) \/ LoseDraft(d) \/ \E r \in Review : LoadReview(d, r)
  BY DEF DraftingNext, DraftingStep, Expire, CommitSend, LoseSend, LoadForSend, Recharge, dvars,
         reviewVars
<1>2. ASSUME NEW d \in Draft,
             DraftStep(d) \/ LoseDraft(d) \/ \E r \in Review : LoadReview(d, r)
      PROVE  Founded(Drafted')
  <2>1. \A x \in Draft \ {d} : draft'[x] = draft[x]
    BY <1>2, OthersKept DEF PInv
  <2>2. Drafted' = Drafted \/ Drafted' = Drafted \cup {d} \/ Drafted' = Drafted \ {d}
    BY <2>1 DEF Drafted
  <2>3. Founded(Drafted \ {d}) /\ Founded(Drafted \cup {d})
    BY FoundedSubset, FoundedGrows
  <2>. QED
    BY <2>2, <2>3
<1>3. UNCHANGED draft => Drafted' = Drafted
  BY DEF Drafted
<1>. QED
  BY <1>1, <1>2, <1>3

(* What an account shows is what was recharged less the price of each draft *)
(* that was done, and nothing else: no trace of the debits that were        *)
(* refused, refunded or lost.                                               *)
BalanceExplained ==
  \A a \in Account :
    Abstract!ShowsBalance(Committed(a), Total(Recharges(a)) + Total(Bill(DraftedOf(a), Charge)))

(* The balance an account shows is what it was recharged with, less the     *)
(* price of every draft that was done.                                      *)
THEOREM BalanceIsExplained == DraftingSpec => []BalanceExplained
<1>1. ASSUME PInv, Founded(Drafted), NEW a \in Account
      PROVE  Abstract!ShowsBalance(Committed(a),
               Total(Recharges(a)) + Total(Bill(DraftedOf(a), Charge)))
  <2>1. Drafted \in SUBSET Draft /\ Draft \in SUBSET Txn /\ SumInv
    BY <1>1, DraftIsTxn DEF PInv, Drafted
  <2>2. \A d \in Drafted : Charge[d] = -DraftCost /\ Charge[d] \in Int
    <3>1. DraftCost \in Int
      BY DraftingAssumption, AmountAssumption
    <3>. QED
      BY <2>1, <3>1 DEF Charge
  <2>3. ASSUME NEW d \in Draft PROVE NetOf(d) = IF d \in Drafted THEN Charge[d] ELSE 0
    <3>1. {r \in rows : r.txn = d /\ status[d] = "committed"}
            = {r \in rows : r.txn = d /\ status[r.txn] = "committed"}
      OBVIOUS
    <3>2. NetOf(d) = Net(d)
      BY <3>1 DEF NetOf, Net
    <3>. QED
      BY <1>1, <2>2, <3>2, NetOfDraft DEF Drafted
  <2>. QED
    BY <1>1, <2>1, <2>2, <2>3, BalanceIsBill DEF Recharges, DraftedOf
<1>2. PInv /\ Founded(Drafted) => BalanceExplained
  BY <1>1 DEF BalanceExplained
<1>3. DraftingInit => Founded(Drafted)
  <2>1. DraftingInit => Drafted = {}
    BY DEF DraftingInit, Drafted
  <2>. QED
    BY <2>1, FoundedEmpty
<1>4. Founded(Drafted') <=> Founded(Drafted)'
  BY DEF Founded
<1>. QED
  BY <1>2, <1>3, <1>4, DraftedIsFounded, PaidInvariant, PTL DEF DraftingSpec

-----------------------------------------------------------------------------
(* No draft is stuck: what can be said of DraftEnds without fairness.       *)

Paying == {"debiting", "refused", "looking", "calling", "storing", "answering"}

(* Where a step takes the draft, and its call to the ledger. *)
MovesOn(d) ==
  \/ /\ draft[d].step = "idle" /\ draft'[d].step = "debiting"
     /\ calls'[d] = calls[d] + 1 /\ CallLeft(d)' = 3
  \/ /\ calls'[d] = calls[d]
     /\ \/ /\ draft[d].step = "debiting"
           /\ \/ draft'[d].step = "debiting" /\ CallLeft(d)' < CallLeft(d)
              \/ draft'[d].step \in {"refused", "looking"}
        \/ draft[d].step = "looking" /\ draft'[d].step \in {"calling", "answering"}
        \/ draft[d].step = "calling" /\ draft'[d].step = "storing"
        \/ /\ draft[d].step = "calling" /\ draft'[d].step = "calling"
           /\ draft'[d].at = draft[d].at + 1
        \/ draft[d].step = "storing" /\ draft'[d].step = "answering"
  \/ draft[d].step = "calling" /\ draft'[d].step = "refunding" /\ CallLeft(d)' = 3
  \/ /\ draft[d].step = "refunding"
     /\ \/ draft'[d].step = "refunding" /\ CallLeft(d)' < CallLeft(d)
        \/ draft'[d].step = "refunded"
  \/ /\ draft[d].step \in {"refused", "refunded", "answering"}
     /\ draft'[d].step \in {"failed", "drafted"}
  \/ draft[d].step \notin {"idle", "drafted", "failed", "lost"} /\ draft'[d].step = "lost"

LEMMA DraftMovesOn ==
  ASSUME PInv, NEW d \in Draft,
         DraftStep(d) \/ LoseDraft(d) \/ \E r \in Review : LoadReview(d, r)
  PROVE  MovesOn(d)
<1>0. /\ d \in Txn /\ ChargeOf(d) /\ DInv /\ draft \in [Draft -> DraftLocals]
      /\ pc \in [Txn -> {"ready", "lock", "read", "append"}] /\ calls \in [Txn -> 0..MaxCalls]
  BY DraftIsTxn DEF PInv, Charges, DInv, DraftingTypeOK, SumInv, IInv, TypeOK
<1>a. ASSUME NEW step, Goes(d, step) PROVE draft'[d].step = step
  BY <1>0, <1>a, DraftBecomes DEF Becomes
<1>b. ASSUME NEW step, NEW result, Ends(d, step, result) PROVE draft'[d].step = step
  BY <1>0, <1>b, DraftBecomes DEF Becomes
<1>c. /\ Lock(d) => CallLeft(d)' < CallLeft(d) /\ calls'[d] = calls[d]
      /\ ReadBalance(d) => CallLeft(d)' < CallLeft(d) /\ calls'[d] = calls[d]
      /\ AppendEntry(d) => calls'[d] = calls[d]
      /\ \A e : Enter(d, e) => CallLeft(d)' = 3 /\ calls'[d] = calls[d] + 1
      /\ UNCHANGED vars => calls'[d] = calls[d]
  BY <1>0 DEF Lock, ReadBalance, AppendEntry, Return, Enter, CallLeft, vars
<1>1. ASSUME NEW r \in Review, LoadReview(d, r) PROVE MovesOn(d)
  <2>1. draft'[d].step = "debiting"
    BY <1>0, <1>1, DraftBecomes DEF Becomes
  <2>. QED
    BY <1>1, <1>c, <2>1 DEF LoadReview, MovesOn
<1>2. CASE DebitStep(d)
  BY <1>2, <1>a, <1>c DEF DebitStep, MovesOn
<1>3. CASE Refuse(d) \/ CommitRefund(d) \/ CommitDraft(d)
  BY <1>3, <1>b DEF Refuse, CommitRefund, CommitDraft, MovesOn
<1>4. CASE LookUp(d)
  <2>1. draft'[d].step \in {"calling", "answering"}
    BY <1>0, <1>4, DraftBecomes DEF Becomes
  <2>. QED
    BY <1>4, <1>c, <2>1 DEF LookUp, MovesOn
<1>5. CASE Answers(d)
  <2>1. draft'[d].step = "storing"
    BY <1>0, <1>5, DraftBecomes DEF Becomes
  <2>. QED
    BY <1>5, <1>c, <2>1 DEF Answers, Calls, MovesOn
<1>6. CASE FallsThrough(d)
  <2>1. draft'[d].step = draft[d].step
    BY <1>0, <1>6, DraftBecomes DEF Becomes
  <2>2. draft'[d].at = draft[d].at + 1
    BY <1>0, <1>6 DEF FallsThrough, DraftLocals
  <2>. QED
    BY <1>6, <1>c, <2>1, <2>2 DEF FallsThrough, Calls, MovesOn
<1>7. CASE StartRefund(d)
  <2>1. draft'[d].step = "refunding"
    BY <1>0, <1>7, DraftBecomes DEF Becomes
  <2>. QED
    BY <1>7, <1>c, <2>1 DEF StartRefund, AllFailed, MovesOn
<1>8. CASE RefundStep(d)
  BY <1>8, <1>a, <1>c DEF RefundStep, MovesOn
<1>9. CASE StoreInCache(d)
  BY <1>9, <1>a, <1>c DEF StoreInCache, MovesOn
<1>10. CASE LoseDraft(d)
  <2>1. draft[d].step \notin {"idle", "drafted", "failed", "lost"}
    BY <1>0, <1>10 DEF LoseDraft, Rollback, ChargeOf
  <2>. QED
    BY <1>10, <1>b, <2>1 DEF LoseDraft, MovesOn
<1>. QED
  BY <1>1, <1>2, <1>3, <1>4, <1>5, <1>6, <1>7, <1>8, <1>9, <1>10 DEF DraftStep

(* A step that is not the request's leaves it, and its transaction, alone.  *)
LEMMA OthersMove ==
  ASSUME DInv, [DraftingNext]_reviewVars, NEW x \in Draft,
         ~(DraftStep(x) \/ LoseDraft(x) \/ \E r \in Review : LoadReview(x, r))
  PROVE  draft'[x] = draft[x] /\ (UNCHANGED vars \/ \E t \in Txn \ {x} : Step(t))
<1>1. ASSUME NEW d \in Draft,
             DraftStep(d) \/ LoseDraft(d) \/ \E r \in Review : LoadReview(d, r)
      PROVE  draft'[x] = draft[x] /\ (UNCHANGED vars \/ \E t \in Txn \ {x} : Step(t))
  BY <1>1, OthersKept, DraftIsStep, DraftIsTxn
<1>2. ASSUME NEW t \in Txn \ Draft, Recharge(t)
      PROVE  draft'[x] = draft[x] /\ (UNCHANGED vars \/ \E u \in Txn \ {x} : Step(u))
  <2>1. \A r \in Reference : [kind |-> "credit", amount |-> Recharged, reference |-> r] \in Call
    BY DraftingAssumption DEF Call
  <2>. QED
    BY <1>2, <2>1 DEF Recharge, Step, dvars
<1>3. ASSUME NEW k \in Keys, Expire(k) PROVE UNCHANGED <<vars, draft>>
  BY <1>3 DEF Expire
<1>4. ASSUME NEW s \in Sender, CommitSend(s) \/ LoseSend(s) \/ \E r \in Review : LoadForSend(s, r)
      PROVE  UNCHANGED <<vars, draft>>
  BY <1>4 DEF CommitSend, LoseSend, LoadForSend
<1>5. UNCHANGED <<vars, dvars>> => UNCHANGED <<vars, draft>>
  BY DEF dvars
<1>. QED
  BY <1>1, <1>2, <1>3, <1>4, <1>5 DEF DraftingNext, DraftingStep, reviewVars

(* A draft makes one call to the ledger, and a second one to be refunded. *)
CallsMade ==
  \A d \in Draft : /\ draft[d].step = "idle" => calls[d] = 0
                   /\ draft[d].step \in Paying => calls[d] = 1

LEMMA StepCalls == PInv /\ CallsMade /\ [DraftingNext]_reviewVars => CallsMade'
<1>. SUFFICES ASSUME PInv, CallsMade, [DraftingNext]_reviewVars, NEW x \in Draft
              PROVE  /\ draft'[x].step = "idle" => calls'[x] = 0
                     /\ draft'[x].step \in Paying => calls'[x] = 1
  BY DEF CallsMade
<1>0. /\ x \in Txn /\ TypeOK /\ DInv /\ calls \in [Txn -> 0..MaxCalls]
      /\ draft[x].step = "idle" => calls[x] = 0
      /\ draft[x].step \in Paying => calls[x] = 1
  BY DraftIsTxn DEF PInv, DInv, IInv, TypeOK, CallsMade
<1>1. ASSUME draft'[x] = draft[x], UNCHANGED vars \/ \E t \in Txn \ {x} : Step(t)
      PROVE  /\ draft'[x].step = "idle" => calls'[x] = 0
             /\ draft'[x].step \in Paying => calls'[x] = 1
  <2>1. calls'[x] = calls[x]
    <3>1. UNCHANGED vars => calls'[x] = calls[x]
      BY DEF vars
    <3>. QED
      BY <1>0, <1>1, <3>1, OthersStay
  <2>. QED
    BY <1>0, <1>1, <2>1
<1>2. CASE DraftStep(x) \/ LoseDraft(x) \/ \E r \in Review : LoadReview(x, r)
  BY <1>0, <1>2, DraftMovesOn DEF MovesOn, Paying
<1>3. CASE ~(DraftStep(x) \/ LoseDraft(x) \/ \E r \in Review : LoadReview(x, r))
  BY <1>0, <1>1, <1>3, OthersMove
<1>. QED
  BY <1>2, <1>3

LEMMA CallsInvariant == DraftingSpec => []CallsMade
<1>1. DraftingInit => CallsMade
  BY DraftIsTxn DEF DraftingInit, Init, CallsMade, Paying
<1>. QED
  BY <1>1, StepCalls, PaidInvariant, PTL DEF DraftingSpec

(* The request can take its next step: a call is entered, the statement is  *)
(* answered, or the cache or the provider is.                               *)
CanEnter(t, e) ==
  /\ e \in Call
  /\ status[t] \in {"idle", "active"} /\ pc[t] = "ready"
  /\ calls[t] < MaxCalls
  /\ Accepted(e)

DraftGoesOn(d) ==
  \/ /\ draft[d].step \in {"debiting", "refunding"}
     /\ status[d] = "active" /\ pc[d] # "ready" /\ GoesOn(d)
  \/ draft[d].step \in {"looking", "storing"}
  \/ draft[d].step = "calling" /\ (AllFailed(d) => CanEnter(d, Refund(draft[d].review)))
  \/ /\ draft[d].step \in {"refused", "refunded", "answering"}
     /\ status[d] = "active" /\ pc[d] = "ready"

(* A session that holds a lock: a recharge, or a draft. *)
SessionGoesOn(t) ==
  \/ t \in Txn \ Draft /\ status[t] = "active" /\ GoesOn(t)
  \/ t \in Draft /\ DraftGoesOn(t)

NoDraftIsStuck ==
  \A d \in Draft : draft[d].step \notin {"idle", "drafted", "failed", "lost"} =>
    DraftGoesOn(d) \/ SessionGoesOn(holder[LockKey[AccountOf[d]]])

LEMMA DraftStepIsPossible ==
  ASSUME PInv, CallsMade, NEW d \in Draft,
         draft[d].step \notin {"idle", "drafted", "failed", "lost"},
         draft[d].step \in {"debiting", "refunding"} => GoesOn(d)
  PROVE  DraftGoesOn(d)
<1>1. /\ d \in Txn /\ ChargeOf(d) /\ draft[d] \in DraftLocals /\ MaxCalls = 2
      /\ status \in [Txn -> {"idle", "active", "committed", "aborted"}]
      /\ draft[d].step = "calling" => calls[d] = 1
  BY DraftIsTxn, DraftingAssumption
     DEF PInv, Charges, DInv, DraftingTypeOK, SumInv, IInv, TypeOK, CallsMade, Paying
<1>2. /\ draft[d].step \in {"debiting", "refused", "looking", "calling", "storing", "answering",
                            "refunding", "refunded"}
      /\ draft[d].review \in Review
  BY <1>1 DEF DraftLocals
<1>3. status[d] = "active" /\ (draft[d].step \in {"debiting", "refunding"} <=> pc[d] # "ready")
  BY <1>1 DEF ChargeOf
<1>4. draft[d].step = "calling" => CanEnter(d, Refund(draft[d].review))
  <2>1. Refund(draft[d].review) \in Call /\ Accepted(Refund(draft[d].review))
    BY <1>2, EntriesType, DraftingAssumption DEF Accepted, Refund
  <2>. QED
    BY <1>1, <1>3, <2>1 DEF CanEnter
<1>. QED
  BY <1>2, <1>3, <1>4 DEF DraftGoesOn

(* Requests hold an account's lock across the calls to the cache and the    *)
(* providers, and still block nobody for ever: a draft that cannot go on    *)
(* waits for a session, of another draft or of a recharge, that can.        *)
THEOREM DraftsWaitForWorkers == DraftingSpec => []NoDraftIsStuck
<1>1. ASSUME PInv, CallsMade, NobodyIsStuck PROVE NoDraftIsStuck
  <2>0. \A d \in Draft : ChargeOf(d) /\ d \in Txn
    BY <1>1, DraftIsTxn DEF PInv, Charges
  <2>1. ASSUME NEW d \in Draft, draft[d].step \notin {"idle", "drafted", "failed", "lost"}
        PROVE  DraftGoesOn(d) \/ SessionGoesOn(holder[LockKey[AccountOf[d]]])
    <3>1. CASE draft[d].step \in {"debiting", "refunding"} => GoesOn(d)
      BY <1>1, <2>1, <3>1, DraftStepIsPossible
    <3>2. CASE draft[d].step \in {"debiting", "refunding"} /\ ~GoesOn(d)
      <4>1. status \in [Txn -> {"idle", "active", "committed", "aborted"}]
        BY <1>1 DEF PInv, SumInv, IInv, TypeOK
      <4>2. status[d] = "active"
        BY <2>0, <2>1, <4>1 DEF ChargeOf
      <4>3. PICK u \in Txn \ {d} :
              u = holder[LockKey[AccountOf[d]]] /\ status[u] = "active" /\ GoesOn(u)
        BY <1>1, <2>0, <3>2, <4>2 DEF NobodyIsStuck
      <4>4. CASE u \notin Draft
        BY <4>3, <4>4 DEF SessionGoesOn
      <4>5. CASE u \in Draft
        <5>1. draft[u].step \notin {"idle", "drafted", "failed", "lost"}
          BY <2>0, <4>3, <4>5 DEF ChargeOf
        <5>. QED
          BY <1>1, <4>3, <4>5, <5>1, DraftStepIsPossible DEF SessionGoesOn
      <4>. QED
        BY <4>4, <4>5
    <3>. QED
      BY <3>1, <3>2
  <2>. QED
    BY <2>1 DEF NoDraftIsStuck
<1>. QED
  BY <1>1, PaidInvariant, CallsInvariant, DraftingUsesLedger, WaitersWaitForWorkers, PTL

-----------------------------------------------------------------------------
(* The steps a request can still take, with a try of every provider.        *)
Tries == Len(Providers) + 1

DraftLeft(d) ==
  CASE draft[d].step = "idle" -> Tries + 9
    [] draft[d].step = "debiting" -> Tries + 5 + CallLeft(d)
    [] draft[d].step = "looking" -> Tries + 5
    [] draft[d].step = "calling" -> Tries + 5 - draft[d].at
    [] draft[d].step = "storing" -> 2
    [] draft[d].step = "refunding" -> 1 + CallLeft(d)
    [] draft[d].step \in {"refused", "refunded", "answering"} -> 1
    [] draft[d].step \in {"drafted", "failed", "lost"} -> 0

DraftsRunOut ==
  \A d \in Draft :
    /\ DraftLeft(d) \in Nat /\ DraftLeft(d)' \in Nat
    /\ DraftLeft(d)' <= DraftLeft(d)
    /\ DraftStep(d) \/ LoseDraft(d) \/ (\E r \in Review : LoadReview(d, r)) =>
         DraftLeft(d)' < DraftLeft(d)

(* The same, in cases the provers see through. *)
LeftIs(d) ==
  /\ CallLeft(d) \in 0..3 /\ DraftLeft(d) \in Nat /\ draft[d].at \in 1..Tries
  /\ draft[d].step = "idle" => DraftLeft(d) = Tries + 9
  /\ draft[d].step = "debiting" => DraftLeft(d) = Tries + 5 + CallLeft(d) /\ CallLeft(d) > 0
  /\ draft[d].step = "looking" => DraftLeft(d) = Tries + 5
  /\ draft[d].step = "calling" => DraftLeft(d) = Tries + 5 - draft[d].at
  /\ draft[d].step = "storing" => DraftLeft(d) = 2
  /\ draft[d].step = "refunding" => DraftLeft(d) = 1 + CallLeft(d) /\ CallLeft(d) > 0
  /\ draft[d].step \in {"refused", "refunded", "answering"} => DraftLeft(d) = 1
  /\ draft[d].step \in {"drafted", "failed", "lost"} => DraftLeft(d) = 0

Lefts == \A d \in Draft : LeftIs(d)

LEMMA LeftAt == PInv => Lefts
<1>. SUFFICES ASSUME PInv, NEW d \in Draft PROVE LeftIs(d)
  BY DEF Lefts
<1>1. /\ draft[d] \in DraftLocals /\ ChargeOf(d) /\ Len(Providers) \in Nat
      /\ pc[d] \in {"ready", "lock", "read", "append"}
  BY DraftIsTxn, DraftingAssumption
     DEF PInv, Charges, DInv, DraftingTypeOK, SumInv, IInv, TypeOK
<1>2. CallLeft(d) \in 0..3 /\ (pc[d] # "ready" => CallLeft(d) > 0)
  BY <1>1 DEF CallLeft
<1>3. draft[d].at \in 1..Tries /\ Tries \in Nat
  BY <1>1 DEF DraftLocals, Tries
<1>4. draft[d].step \in {"debiting", "refunding"} => CallLeft(d) > 0
  BY <1>1, <1>2 DEF ChargeOf
<1>5. draft[d].step \in {"idle", "debiting", "refused", "looking", "calling", "storing", "answering",
                         "refunding", "refunded", "drafted", "failed", "lost"}
  BY <1>1 DEF DraftLocals
<1>. HIDE DEF Tries
<1>. QED
  BY <1>2, <1>3, <1>4, <1>5 DEF DraftLeft, LeftIs

LEMMA LeftNext == PInv' => Lefts'
BY LeftAt, PTL

LEMMA DraftRunsOut ==
  ASSUME PInv, PInv', NEW d \in Draft,
         DraftStep(d) \/ LoseDraft(d) \/ \E r \in Review : LoadReview(d, r)
  PROVE  DraftLeft(d)' < DraftLeft(d)
<1>. DEFINE k == CallLeft(d)
            n == DraftLeft(d)
            now == draft[d]
<1>1. LeftIs(d) /\ LeftIs(d)' /\ MovesOn(d)
  BY LeftAt, LeftNext, DraftMovesOn DEF Lefts
<1>2. Tries \in Nat /\ Tries' = Tries
  BY DraftingAssumption DEF Tries
<1>3. /\ k \in 0..3 /\ n \in Nat /\ now.at \in 1..Tries
      /\ now.step = "idle" => n = Tries + 9
      /\ now.step = "debiting" => n = Tries + 5 + k /\ k > 0
      /\ now.step = "looking" => n = Tries + 5
      /\ now.step = "calling" => n = Tries + 5 - now.at
      /\ now.step = "storing" => n = 2
      /\ now.step = "refunding" => n = 1 + k /\ k > 0
      /\ now.step \in {"refused", "refunded", "answering"} => n = 1
  BY <1>1 DEF LeftIs
<1>4. /\ k' \in 0..3 /\ n' \in Nat /\ now'.at \in 1..Tries
      /\ now'.step = "debiting" => n' = Tries + 5 + k'
      /\ now'.step = "looking" => n' = Tries + 5
      /\ now'.step = "calling" => n' = Tries + 5 - now'.at
      /\ now'.step = "storing" => n' = 2
      /\ now'.step = "refunding" => n' = 1 + k'
      /\ now'.step \in {"refused", "refunded", "answering"} => n' = 1
      /\ now'.step \in {"drafted", "failed", "lost"} => n' = 0
  BY <1>1, <1>2 DEF LeftIs
<1>5. now.step \in {"idle", "debiting", "refused", "looking", "calling", "storing", "answering",
                    "refunding", "refunded", "drafted", "failed", "lost"}
  BY DEF PInv, DInv, DraftingTypeOK, DraftLocals
<1>6. \A i \in 1..Tries : Tries + 5 - i >= 5 /\ Tries + 5 - i < Tries + 5
  BY <1>2
<1>7. \A j \in 0..3 : 1 + j > 0 /\ 1 + j <= 4 /\ Tries + 5 + j > 0
  BY <1>2
<1>8. now.step = "calling" => n >= 5 /\ n < Tries + 5
  BY <1>3, <1>6
<1>9. now'.step = "refunding" => n' <= 4
  BY <1>4, <1>7
<1>10. /\ now.step \notin {"idle", "drafted", "failed", "lost"} => n > 0
       /\ now'.step = "lost" => n' = 0
  BY <1>2, <1>3, <1>4, <1>5, <1>7, <1>8
<1>. HIDE DEF k, n
<1>. QED
  BY <1>1, <1>2, <1>3, <1>4, <1>8, <1>9, <1>10 DEF MovesOn, k, n

(* Every step of a request brings it nearer to its end, however the cache   *)
(* and the providers answer, and nothing anybody does takes one back: with  *)
(* DraftsWaitForWorkers, a draft that has begun can only end.               *)
THEOREM DraftsAreFinite == DraftingSpec => [][DraftsRunOut]_reviewVars
<1>1. ASSUME PInv, PInv', DraftingNext, NEW d \in Draft
      PROVE  /\ DraftLeft(d) \in Nat /\ DraftLeft(d)' \in Nat
             /\ DraftLeft(d)' <= DraftLeft(d)
             /\ DraftStep(d) \/ LoseDraft(d) \/ (\E r \in Review : LoadReview(d, r)) =>
                  DraftLeft(d)' < DraftLeft(d)
  <2>0. DraftLeft(d) \in Nat /\ DraftLeft(d)' \in Nat /\ d \in Txn /\ TypeOK /\ DInv
    BY <1>1, LeftAt, LeftNext, DraftIsTxn DEF Lefts, LeftIs, PInv, DInv, IInv
  <2>1. CASE DraftStep(d) \/ LoseDraft(d) \/ \E r \in Review : LoadReview(d, r)
    <3>1. DraftLeft(d)' < DraftLeft(d)
      BY <1>1, <2>1, DraftRunsOut
    <3>. QED
      BY <2>0, <3>1
  <2>. SUFFICES ASSUME ~(DraftStep(d) \/ LoseDraft(d) \/ \E r \in Review : LoadReview(d, r))
                PROVE  DraftLeft(d)' <= DraftLeft(d)
    BY <2>0, <2>1
  <2>2. draft'[d] = draft[d] /\ (UNCHANGED vars \/ \E t \in Txn \ {d} : Step(t))
    BY <1>1, <2>0, OthersMove
  <2>3. pc'[d] = pc[d]
    <3>1. UNCHANGED vars => pc'[d] = pc[d]
      BY DEF vars
    <3>. QED
      BY <2>0, <2>2, <3>1, OthersStay
  <2>4. DraftLeft(d)' = DraftLeft(d)
    BY <2>2, <2>3 DEF DraftLeft, CallLeft, Tries
  <2>. QED
    BY <2>0, <2>4
<1>2. PInv /\ PInv' /\ DraftingNext => DraftsRunOut
  BY <1>1 DEF DraftsRunOut
<1>. QED
  BY <1>2, PaidInvariant, PTL DEF DraftingSpec
=============================================================================
