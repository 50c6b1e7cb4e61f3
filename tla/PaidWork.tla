------------------------------- MODULE PaidWork -------------------------------
(***************************************************************************)
(* What a campaign and an AI draft promise to the business that pays for   *)
(* them, with no transactions, locks, refunds or providers: a job is       *)
(* settled once and for all.  It is done and charged its price, or refused *)
(* or lost and free of charge, and the charge appears together with the    *)
(* result.  A batch of jobs is closed when each of its jobs is on record,  *)
(* as done or as refused.                                                  *)
(*                                                                         *)
(* This is the contract of services/sync-engine/campaigns.py ("never       *)
(* charges for a failed send") and of draft_response in gateway/api/v1/    *)
(* reviews.py ("never charge for a draft that didn't happen").             *)
(* CampaignSend and ReviewDrafting implement it over the credit ledger.    *)
(***************************************************************************)
EXTENDS Integers

CONSTANTS
  Job,
  Price,                \* what a job costs when it is done
  Batch,
  JobsOf                \* the jobs of a batch

VARIABLES
  result,               \* what became of each job
  charged,              \* what has been charged for it
  closed                \* the batches that count as finished

Recorded == {"done", "refused"}

Init ==
  /\ result = [j \in Job |-> "open"]
  /\ charged = [j \in Job |-> 0]
  /\ closed = {}

Settle(j) ==
  /\ result[j] = "open"
  /\ \E r \in Recorded \cup {"lost"} :
       /\ result' = [result EXCEPT ![j] = r]
       /\ charged' = [charged EXCEPT ![j] = IF r = "done" THEN Price[j] ELSE 0]
  /\ UNCHANGED closed

Close(b) ==
  /\ \A j \in JobsOf[b] : result[j] \in Recorded
  /\ closed' = closed \cup {b}
  /\ UNCHANGED <<result, charged>>

Next == (\E j \in Job : Settle(j)) \/ (\E b \in Batch : Close(b))

Spec == Init /\ [][Next]_<<result, charged, closed>>
=============================================================================
