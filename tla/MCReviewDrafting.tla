-------------------------- MODULE MCReviewDrafting --------------------------
(***************************************************************************)
(* One business with two reviews of one rating and different wording, one  *)
(* recharge that pays for two drafts, two draft requests and two send      *)
(* requests, each for either review.                                       *)
(***************************************************************************)
EXTENDS ReviewDrafting, TLC

CONSTANTS b, k, d1, d2, top, r1, r2, good, bad

MCTxn == {d1, d2, top}
MCLockKey == b :> k
MCAccountOf == [t \in MCTxn |-> b]
MCRating == [r \in {r1, r2} |-> 5]
MCWording == r1 :> good @@ r2 :> bad
MCProviders == <<"openrouter", "anthropic_direct">>
=============================================================================
