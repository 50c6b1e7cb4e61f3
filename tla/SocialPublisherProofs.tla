------------------------ MODULE SocialPublisherProofs ------------------------
(***************************************************************************)
(* Proofs about SocialPublisher, for any posts, businesses and runs.       *)
(*                                                                         *)
(* A run has marked the posts before its position in its batch, each once, *)
(* and no others; so its commit decides all of the batch.  A post that a   *)
(* run published and committed is therefore decided, and a run that        *)
(* selects later does not select it.                                       *)
(***************************************************************************)
EXTENDS SocialPublisher, FiniteSetTheorems, TLAPS

Stage == {"idle", "loop", "connected", "resolved", "waiting", "commit", "done", "crashed"}

Marking == [post : Post, status : Outcome, vault : BOOLEAN]

(* The batches have no post twice. *)
BatchType ==
  /\ batch \in [Run -> Seq(Post)]
  /\ at \in [Run -> Nat]
  /\ marked \in [Run -> SUBSET Marking]
  /\ \A r \in Run : \A i, j \in 1..Len(batch[r]) : batch[r][i] = batch[r][j] => i = j

(* Where a run is in its batch. *)
Positioned ==
  \A r \in Run :
    /\ at[r] \in 1..(Len(batch[r]) + 1)
    /\ pc[r] \in {"loop", "connected", "resolved", "waiting"} => at[r] <= Len(batch[r])
    /\ pc[r] = "commit" => at[r] = Len(batch[r]) + 1
    /\ pc[r] = "idle" => marked[r] = {} /\ at[r] = 1 /\ batch[r] = <<>>
    /\ pc[r] = "waiting" => r \in publishedBy[Current(r)]

(* What a run has marked: the posts before its position. *)
MarksBatch ==
  \A r \in Run :
    /\ \A m \in marked[r] : \E i \in 1..(at[r] - 1) : batch[r][i] = m.post
    /\ Running(r) => \A i \in 1..(at[r] - 1) : \E m \in marked[r] : m.post = batch[r][i]

(* ... each once, and with what became of it. *)
MarksTruth ==
  \A r \in Run : \A m \in marked[r] :
    /\ \A n \in marked[r] : n.post = m.post => n = m
    /\ m.vault => m.status = "failed"
    /\ m.status = "posted" => r \in publishedBy[m.post]

(* A run that ended has decided its batch, and published nothing else. *)
Decided ==
  \A r \in Run :
    /\ pc[r] = "done" => \A i \in 1..Len(batch[r]) : status[batch[r][i]] \in Outcome
    /\ \A p \in Post : r \in publishedBy[p] =>
         pc[r] = "crashed" \/ \E i \in 1..Len(batch[r]) : batch[r][i] = p

(* A run that selects later does not select what was published. *)
Fresh ==
  \A s \in Run :
    /\ \A r \in before[s] : pc[r] = "done"
    /\ \A i \in 1..Len(batch[s]) : \A r \in before[s] : r \notin publishedBy[batch[s][i]]

PublisherInv ==
  /\ TypeOK
  /\ BatchType
  /\ Positioned
  /\ MarksBatch
  /\ MarksTruth
  /\ Decided
  /\ Fresh
  /\ PostedWasPublished
  /\ NoLaterRepublish

LEMMA InitPublisher == Init => PublisherInv
<1>. SUFFICES ASSUME Init PROVE PublisherInv
  OBVIOUS
<1>. USE PublisherAssumption DEF Init
<1>1. BatchType
  BY DEF BatchType
<1>2. TypeOK
  BY DEF TypeOK, Range
<1>3. Positioned /\ MarksBatch /\ MarksTruth
  BY DEF Positioned, MarksBatch, MarksTruth, Running
<1>4. Decided /\ Fresh /\ PostedWasPublished /\ NoLaterRepublish
  BY DEF Decided, Fresh, PostedWasPublished, NoLaterRepublish, Outcome
<1>. QED
  BY <1>1, <1>2, <1>3, <1>4 DEF PublisherInv

LEMMA PublisherTypes ==
  ASSUME PublisherInv, NEW r \in Run
  PROVE  /\ pc \in [Run -> Stage] /\ status \in [Post -> {"unscheduled", "pending"} \cup Outcome]
         /\ publishedBy \in [Post -> SUBSET Run] /\ before \in [Run -> SUBSET Run]
         /\ rowLock \in [Post -> Run \cup {None}] /\ dirty \in [Run -> Post \cup {None}]
         /\ batch \in [Run -> Seq(Post)] /\ at \in [Run -> Nat]
         /\ marked \in [Run -> SUBSET Marking]
         /\ Len(batch[r]) \in Nat /\ \A i \in 1..Len(batch[r]) : batch[r][i] \in Post
         /\ at[r] \in 1..(Len(batch[r]) + 1)
BY DEF PublisherInv, TypeOK, BatchType, Positioned, Stage

LEMMA BatchElement ==
  ASSUME NEW S, NEW q \in Seq(S)
  PROVE  \A x \in Range(q) : x \in S /\ \E i \in 1..Len(q) : q[i] = x
<1>1. \A i \in DOMAIN q : i \in 1..Len(q) /\ q[i] \in S
  OBVIOUS
<1>2. \A x \in Range(q) : \E i \in DOMAIN q : x = q[i]
  BY DEF Range
<1>. QED
  BY <1>1, <1>2, Zenon

(* The posts come to be due, and to be scheduled. *)
LEMMA StepAround ==
  ASSUME PublisherInv,
         (\E p \in Post : Schedule(p) \/ TimePasses(p)) \/ (\E b \in Business : Connect(b))
  PROVE  PublisherInv'
<1>0. /\ UNCHANGED <<rowLock, pc, batch, at, dirty, marked, publishedBy, vaultFailed, before>>
      /\ status' \in [Post -> {"unscheduled", "pending"} \cup Outcome]
      /\ due' \subseteq Post /\ connected' \subseteq Business
      /\ \A p \in Post : status'[p] = status[p] \/ (status[p] = "unscheduled" /\ status'[p] = "pending")
  BY DEF PublisherInv, TypeOK, Schedule, TimePasses, Connect
<1>1. TypeOK'
  BY <1>0 DEF PublisherInv, TypeOK, Outcome
<1>2. BatchType' /\ Positioned'
  BY <1>0 DEF PublisherInv, BatchType, Positioned, Current
<1>a. MarksBatch' /\ MarksTruth'
  BY <1>0 DEF PublisherInv, MarksBatch, MarksTruth, Running
<1>b. Fresh' /\ NoLaterRepublish'
  BY <1>0 DEF PublisherInv, Fresh, NoLaterRepublish
<1>3. Decided'
  <2>1. ASSUME NEW r \in Run, pc[r] = "done", NEW i \in 1..Len(batch[r])
        PROVE  status'[batch[r][i]] \in Outcome
    <3>1. batch[r][i] \in Post /\ status[batch[r][i]] \in Outcome
      BY <2>1, PublisherTypes DEF PublisherInv, Decided
    <3>. QED
      BY <1>0, <3>1 DEF Outcome
  <2>. QED
    BY <1>0, <2>1 DEF PublisherInv, Decided
<1>4. PostedWasPublished'
  BY <1>0 DEF PublisherInv, PostedWasPublished
<1>. QED
  BY <1>1, <1>2, <1>a, <1>b, <1>3, <1>4 DEF PublisherInv

(* The due posts are pending, so no run that ended published one of them. *)
LEMMA StepSelect ==
  ASSUME PublisherInv, NEW r \in Run, Select(r)
  PROVE  PublisherInv'
<1>. DEFINE S == {p \in Post : Selected(p)}
            n == Cardinality(S)
<1>1. n \in Nat
  BY PublisherAssumption, FS_Subset, FS_CardinalityType
<1>. HIDE DEF n
<1>2. PICK order \in SetToSeqs(S) : batch' = [batch EXCEPT ![r] = order]
  BY DEF Select
<1>3. /\ order \in [1..n -> S]
      /\ \A i, j \in 1..n : i # j => order[i] # order[j]
  BY <1>2 DEF SetToSeqs, n
<1>4. /\ order \in Seq(Post) /\ Len(order) = n
      /\ \A i \in 1..Len(order) : status[order[i]] = "pending"
      /\ \A i, j \in 1..Len(order) : order[i] = order[j] => i = j
  BY <1>1, <1>3 DEF Selected
<1>5. /\ UNCHANGED <<status, due, connected, rowLock, at, dirty, marked, publishedBy, vaultFailed>>
      /\ pc[r] = "idle" /\ at[r] = 1 /\ marked[r] = {} /\ batch[r] = <<>>
      /\ before' = [before EXCEPT ![r] = {s \in Run : pc[s] = "done"}]
  BY DEF Select, PublisherInv, Positioned
<1>6. /\ batch' \in [Run -> Seq(Post)] /\ batch'[r] = order
      /\ \A s \in Run \ {r} : batch'[s] = batch[s] /\ pc'[s] = pc[s] /\ before'[s] = before[s]
      /\ before'[r] = {s \in Run : pc[s] = "done"} /\ before' \in [Run -> SUBSET Run]
      /\ pc' \in [Run -> Stage] /\ pc'[r] = IF order = <<>> THEN "commit" ELSE "loop"
  BY <1>2, <1>4, <1>5, PublisherTypes DEF Select, Stage
<1>. HIDE DEF S
<1>7. BatchType'
  <2>1. ASSUME NEW s \in Run PROVE \A i, j \in 1..Len(batch'[s]) : batch'[s][i] = batch'[s][j] => i = j
    <3>1. CASE s = r
      BY <1>4, <1>6, <3>1
    <3>2. CASE s # r
      BY <1>6, <3>2 DEF PublisherInv, BatchType
    <3>. QED
      BY <3>1, <3>2
  <2>. QED
    BY <1>5, <1>6, <2>1 DEF PublisherInv, BatchType
<1>8. order = <<>> <=> n = 0
  BY <1>3, <1>4
<1>9. Positioned'
  BY <1>1, <1>4, <1>5, <1>6, <1>8 DEF PublisherInv, Positioned, Current
<1>10. TypeOK'
  <2>1. \A s \in Run : Range(batch'[s]) \subseteq Post /\ at'[s] \in 1..(Len(batch'[s]) + 1)
    BY <1>6, <1>9, BatchElement DEF Positioned
  <2>. QED
    BY <1>5, <1>6, <2>1 DEF PublisherInv, TypeOK, Stage
<1>11. MarksBatch'
  <2>1. ASSUME NEW s \in Run \ {r}
        PROVE  /\ \A m \in marked'[s] : \E i \in 1..(at'[s] - 1) : batch'[s][i] = m.post
               /\ Running(s)' => \A i \in 1..(at'[s] - 1) : \E m \in marked'[s] : m.post = batch'[s][i]
    <3>1. /\ marked'[s] = marked[s] /\ at'[s] = at[s] /\ batch'[s] = batch[s]
          /\ Running(s)' <=> Running(s)
      BY <1>5, <1>6 DEF Running
    <3>. QED
      BY <3>1 DEF PublisherInv, MarksBatch
  <2>2. marked'[r] = {} /\ 1..(at'[r] - 1) = {}
    BY <1>5
  <2>. QED
    BY <2>1, <2>2 DEF MarksBatch
<1>12. MarksTruth' /\ PostedWasPublished'
  BY <1>5 DEF PublisherInv, MarksTruth, PostedWasPublished
<1>13. \A p \in Post : r \notin publishedBy[p]
  BY <1>5 DEF PublisherInv, Decided
<1>16. Decided'
  BY <1>5, <1>6, <1>13 DEF PublisherInv, Decided
<1>14. Fresh'
  <2>1. ASSUME NEW i \in 1..Len(order), NEW s \in Run, pc[s] = "done" PROVE s \notin publishedBy[order[i]]
    <3>1. order[i] \in Post /\ status[order[i]] \notin Outcome
      BY <1>4 DEF Outcome
    <3>. QED
      BY <2>1, <3>1 DEF PublisherInv, Decided
  <2>2. ASSUME NEW s \in Run
        PROVE  /\ \A x \in before'[s] : pc'[x] = "done"
               /\ \A i \in 1..Len(batch'[s]) : \A x \in before'[s] : x \notin publishedBy'[batch'[s][i]]
    <3>1. CASE s = r
      BY <1>5, <1>6, <2>1, <3>1
    <3>2. CASE s # r
      <4>1. r \notin before[s]
        BY <1>5 DEF PublisherInv, Fresh
      <4>. QED
        BY <1>5, <1>6, <3>2, <4>1, PublisherTypes DEF PublisherInv, Fresh
    <3>. QED
      BY <3>1, <3>2
  <2>. QED
    BY <2>2 DEF Fresh
<1>15. NoLaterRepublish'
  BY <1>5, <1>6, <1>13 DEF PublisherInv, NoLaterRepublish
<1>. QED
  BY <1>7, <1>9, <1>10, <1>11, <1>12, <1>14, <1>15, <1>16 DEF PublisherInv

(* A run goes on with the same post. *)
LEMMA StepMoves ==
  ASSUME PublisherInv, NEW r \in Run, NEW where \in {"connected", "resolved"},
         pc[r] \in {"loop", "connected"}, pc' = [pc EXCEPT ![r] = where],
         UNCHANGED <<status, due, connected, batch, at, marked, publishedBy, vaultFailed, before>>,
         rowLock' \in [Post -> Run \cup {None}], dirty' \in [Run -> Post \cup {None}]
  PROVE  PublisherInv'
<1>1. /\ pc' \in [Run -> Stage] /\ pc'[r] = where /\ \A s \in Run \ {r} : pc'[s] = pc[s]
      /\ \A s \in Run : Running(s)' <=> Running(s)
  BY PublisherTypes DEF Stage, Running
<1>2. TypeOK' /\ BatchType'
  BY <1>1 DEF PublisherInv, TypeOK, BatchType, Stage
<1>3. Positioned'
  BY <1>1 DEF PublisherInv, Positioned, Current
<1>4. MarksBatch' /\ MarksTruth'
  BY <1>1 DEF PublisherInv, MarksBatch, MarksTruth
<1>5. Decided' /\ Fresh' /\ PostedWasPublished' /\ NoLaterRepublish'
  BY <1>1 DEF PublisherInv, Decided, Fresh, PostedWasPublished, NoLaterRepublish
<1>. QED
  BY <1>2, <1>3, <1>4, <1>5 DEF PublisherInv

(* A run marks the post at its position, which it has not marked before. *)
LEMMA StepMark ==
  ASSUME PublisherInv, NEW r \in Run, NEW s \in Outcome, NEW vault \in BOOLEAN,
         pc[r] \in {"loop", "connected", "resolved", "waiting"}, Mark(r, s, vault),
         vault => s = "failed", s = "posted" => r \in publishedBy[Current(r)],
         UNCHANGED <<status, due, connected, batch, publishedBy, vaultFailed, before>>,
         rowLock' \in [Post -> Run \cup {None}]
  PROVE  PublisherInv'
<1>. DEFINE new == [post |-> Current(r), status |-> s, vault |-> vault]
            k == at[r]
<1>1. /\ k \in 1..Len(batch[r]) /\ Current(r) = batch[r][k] /\ Current(r) \in Post
      /\ new \in Marking /\ Len(batch[r]) \in Nat /\ Running(r)
  BY PublisherTypes DEF PublisherInv, Positioned, Current, Marking, Running
<1>2. /\ marked'[r] = marked[r] \cup {new} /\ at'[r] = k + 1
      /\ pc'[r] = IF k + 1 > Len(batch[r]) THEN "commit" ELSE "loop"
      /\ \A x \in Run \ {r} : marked'[x] = marked[x] /\ at'[x] = at[x] /\ pc'[x] = pc[x]
      /\ marked' \in [Run -> SUBSET Marking] /\ at' \in [Run -> Nat] /\ pc' \in [Run -> Stage]
      /\ dirty' \in [Run -> Post \cup {None}]
  BY <1>1, PublisherTypes DEF Mark, Continues, Stage
<1>. HIDE DEF new
<1>3. BatchType'
  BY <1>2 DEF PublisherInv, BatchType
<1>4. Positioned'
  <2>1. ASSUME NEW x \in Run \ {r}
        PROVE  /\ at'[x] = at[x] /\ pc'[x] = pc[x] /\ marked'[x] = marked[x]
               /\ Current(x)' = Current(x)
    BY <1>2 DEF Current
  <2>2. /\ at'[r] \in 1..(Len(batch[r]) + 1)
        /\ pc'[r] = "loop" => at'[r] <= Len(batch[r])
        /\ pc'[r] = "commit" => at'[r] = Len(batch[r]) + 1
        /\ pc'[r] \in {"loop", "commit"}
    BY <1>1, <1>2
  <2>. QED
    BY <2>1, <2>2 DEF PublisherInv, Positioned
<1>5. TypeOK'
  BY <1>2, <1>4 DEF PublisherInv, TypeOK, Positioned, Marking, Stage
<1>6. new.post = batch[r][k] /\ new.status = s /\ new.vault = vault
  BY <1>1 DEF new
<1>7. MarksBatch'
  <2>1. ASSUME NEW m \in marked'[r] PROVE \E i \in 1..(at'[r] - 1) : batch[r][i] = m.post
    <3>1. CASE m \in marked[r]
      <4>1. PICK i \in 1..(k - 1) : batch[r][i] = m.post
        BY <3>1 DEF PublisherInv, MarksBatch
      <4>2. i \in 1..k /\ at'[r] - 1 = k
        BY <1>1, <1>2, <4>1
      <4>. QED
        BY <4>1, <4>2
    <3>2. CASE m = new
      BY <1>1, <1>2, <1>6, <3>2
    <3>. QED
      BY <1>2, <2>1, <3>1, <3>2
  <2>2. ASSUME NEW i \in 1..(at'[r] - 1) PROVE \E m \in marked'[r] : m.post = batch[r][i]
    <3>1. CASE i = k
      BY <1>2, <1>6, <3>1
    <3>2. CASE i # k
      <4>1. i \in 1..(k - 1)
        BY <1>1, <1>2, <3>2
      <4>2. PICK m \in marked[r] : m.post = batch[r][i]
        BY <1>1, <4>1 DEF PublisherInv, MarksBatch
      <4>. QED
        BY <1>2, <4>2
    <3>. QED
      BY <3>1, <3>2
  <2>3. ASSUME NEW x \in Run \ {r}
        PROVE  /\ \A m \in marked'[x] : \E i \in 1..(at'[x] - 1) : batch[x][i] = m.post
               /\ Running(x)' => \A i \in 1..(at'[x] - 1) : \E m \in marked'[x] : m.post = batch[x][i]
    <3>1. marked'[x] = marked[x] /\ at'[x] = at[x] /\ (Running(x)' <=> Running(x))
      BY <1>2 DEF Running
    <3>. QED
      BY <3>1 DEF PublisherInv, MarksBatch
  <2>. QED
    BY <2>1, <2>2, <2>3 DEF MarksBatch
<1>8. \A m \in marked[r] : m.post # new.post
  <2>1. SUFFICES ASSUME NEW m \in marked[r], m.post = batch[r][k] PROVE FALSE
    BY <1>6
  <2>2. PICK i \in 1..(k - 1) : batch[r][i] = m.post
    BY DEF PublisherInv, MarksBatch
  <2>3. i \in 1..Len(batch[r]) /\ i # k
    BY <1>1
  <2>. QED
    BY <1>1, <2>1, <2>2, <2>3 DEF PublisherInv, BatchType
<1>9. MarksTruth'
  <2>1. ASSUME NEW m \in marked'[r]
        PROVE  /\ \A n \in marked'[r] : n.post = m.post => n = m
               /\ m.vault => m.status = "failed"
               /\ m.status = "posted" => r \in publishedBy[m.post]
    <3>1. CASE m \in marked[r]
      BY <1>2, <1>8, <3>1 DEF PublisherInv, MarksTruth
    <3>2. CASE m = new
      BY <1>1, <1>2, <1>6, <1>8, <3>2
    <3>. QED
      BY <1>2, <2>1, <3>1, <3>2
  <2>. QED
    BY <1>2, <2>1 DEF PublisherInv, MarksTruth
<1>10. Decided' /\ Fresh' /\ PostedWasPublished' /\ NoLaterRepublish'
  <2>1. \A x \in Run : pc'[x] \in {"done", "crashed"} \/ pc[x] \in {"done", "crashed"} =>
          pc'[x] = pc[x]
    BY <1>1, <1>2
  <2>2. \A x \in Run : before[x] \in SUBSET Run
    BY PublisherTypes
  <2>. QED
    BY <2>1, <2>2 DEF PublisherInv, Decided, Fresh, PostedWasPublished, NoLaterRepublish
<1>. QED
  BY <1>3, <1>4, <1>5, <1>7, <1>9, <1>10 DEF PublisherInv

(* No run that ended before this one selected has published the post. *)
LEMMA StepPublish ==
  ASSUME PublisherInv, NEW r \in Run, Publish(r)
  PROVE  PublisherInv'
<1>. DEFINE p == Current(r)
<1>1. /\ at[r] \in 1..Len(batch[r]) /\ p = batch[r][at[r]] /\ p \in Post /\ pc[r] = "resolved"
      /\ UNCHANGED <<status, due, connected, rowLock, batch, at, dirty, marked, vaultFailed, before>>
  BY PublisherTypes DEF PublisherInv, Positioned, Current, Publish
<1>2. /\ publishedBy' \in [Post -> SUBSET Run] /\ publishedBy'[p] = publishedBy[p] \cup {r}
      /\ \A q \in Post \ {p} : publishedBy'[q] = publishedBy[q]
      /\ pc' \in [Run -> Stage] /\ pc'[r] = "waiting" /\ \A x \in Run \ {r} : pc'[x] = pc[x]
  BY <1>1, PublisherTypes DEF Publish, Stage
<1>3. \A q \in Post : publishedBy[q] \subseteq publishedBy'[q]
  BY <1>2
<1>4. TypeOK' /\ BatchType'
  BY <1>1, <1>2 DEF PublisherInv, TypeOK, BatchType, Stage
<1>5. Positioned'
  <2>1. \A x \in Run : pc[x] = "waiting" => Current(x) \in Post
    BY PublisherTypes DEF PublisherInv, Positioned, Current
  <2>. QED
    BY <1>1, <1>2, <1>3, <2>1 DEF PublisherInv, Positioned, Current
<1>6. MarksBatch'
  BY <1>1, <1>2 DEF PublisherInv, MarksBatch, Running
<1>7. MarksTruth' /\ PostedWasPublished'
  <2>1. \A x \in Run : \A m \in marked[x] : m.post \in Post
    BY PublisherTypes DEF Marking
  <2>. QED
    BY <1>1, <1>3, <2>1 DEF PublisherInv, MarksTruth, PostedWasPublished
<1>8. \A x \in Run : r \notin before[x]
  BY <1>1 DEF PublisherInv, Fresh
<1>9. Decided'
  BY <1>1, <1>2 DEF PublisherInv, Decided
<1>10. Fresh'
  <2>1. ASSUME NEW x \in Run, NEW i \in 1..Len(batch[x]), NEW y \in before[x]
        PROVE  y \notin publishedBy'[batch[x][i]]
    <3>1. y # r /\ batch[x][i] \in Post /\ y \notin publishedBy[batch[x][i]]
      BY <1>8, <2>1, PublisherTypes DEF PublisherInv, Fresh
    <3>. QED
      BY <1>2, <3>1
  <2>2. \A x \in Run : \A y \in before[x] : pc'[y] = "done"
    BY <1>2, <1>8, PublisherTypes DEF PublisherInv, Fresh
  <2>. QED
    BY <1>1, <2>1, <2>2 DEF Fresh
<1>11. NoLaterRepublish'
  <2>1. \A x \in before[r] : x \notin publishedBy[p]
    BY <1>1 DEF PublisherInv, Fresh
  <2>. QED
    <3>1. ASSUME NEW q \in Post, NEW x \in publishedBy'[q], NEW y \in publishedBy'[q], x \in before[y]
          PROVE  FALSE
      <4>1. x # r /\ x \in publishedBy[q] /\ x \in Run /\ y \in Run
        BY <1>2, <1>8, <3>1
      <4>2. y \notin publishedBy[q]
        BY <3>1, <4>1 DEF PublisherInv, NoLaterRepublish
      <4>3. y = r /\ q = p
        BY <1>2, <3>1, <4>2
      <4>. QED
        BY <2>1, <3>1, <4>1, <4>3
    <3>. QED
      BY <1>1, <3>1 DEF NoLaterRepublish
<1>. QED
  BY <1>4, <1>5, <1>6, <1>7, <1>9, <1>10, <1>11 DEF PublisherInv

(* A run commits what it has marked: all of its batch. *)
LEMMA StepCommit ==
  ASSUME PublisherInv, NEW r \in Run, CommitRun(r)
  PROVE  PublisherInv'
<1>. DEFINE Chosen(p) == CHOOSE m \in Of(r, p) : TRUE
<1>1. /\ pc[r] = "commit" /\ Running(r) /\ at[r] = Len(batch[r]) + 1
      /\ UNCHANGED <<due, connected, batch, at, publishedBy, before>>
      /\ status' = [p \in Post |-> IF Of(r, p) = {} THEN status[p] ELSE Chosen(p).status]
      /\ vaultFailed' = {p \in Post : IF Of(r, p) = {} THEN p \in vaultFailed
                                      ELSE \E m \in Of(r, p) : m.vault}
      /\ rowLock' = Unlocked(r)
  BY DEF CommitRun, PublisherInv, Positioned, Running
<1>2. /\ pc' \in [Run -> Stage] /\ pc'[r] = "done" /\ \A x \in Run \ {r} : pc'[x] = pc[x]
      /\ marked' \in [Run -> SUBSET Marking] /\ marked'[r] = {}
      /\ \A x \in Run \ {r} : marked'[x] = marked[x]
      /\ dirty' \in [Run -> Post \cup {None}] /\ rowLock' \in [Post -> Run \cup {None}]
  BY <1>1, PublisherTypes DEF CommitRun, Stage, Unlocked
<1>3. ASSUME NEW p \in Post, Of(r, p) # {}
      PROVE  /\ Chosen(p) \in marked[r] /\ Chosen(p).post = p /\ Chosen(p) \in Marking
             /\ \A m \in Of(r, p) : m = Chosen(p)
  <2>1. Chosen(p) \in Of(r, p)
    BY <1>3
  <2>2. Chosen(p) \in marked[r] /\ Chosen(p).post = p
    BY <2>1 DEF Of
  <2>3. \A m \in Of(r, p) : m \in marked[r] /\ m.post = p
    BY DEF Of
  <2>. QED
    BY <2>2, <2>3, PublisherTypes DEF PublisherInv, MarksTruth
<1>. HIDE DEF Chosen
<1>4. \A p \in Post : status'[p] = IF Of(r, p) = {} THEN status[p] ELSE Chosen(p).status
  BY <1>1
<1>5. \A p \in Post : Of(r, p) # {} => Chosen(p).status \in Outcome
  BY <1>3 DEF Marking
<1>6. status' \in [Post -> {"unscheduled", "pending"} \cup Outcome]
  BY <1>1, <1>5, PublisherTypes
<1>7. vaultFailed' \subseteq {p \in Post : status'[p] = "failed"}
  <2>1. ASSUME NEW p \in vaultFailed' PROVE p \in Post /\ status'[p] = "failed"
    <3>1. CASE Of(r, p) = {}
      BY <1>1, <1>4, <2>1, <3>1 DEF PublisherInv, TypeOK
    <3>2. CASE Of(r, p) # {}
      <4>1. p \in Post /\ \E m \in Of(r, p) : m.vault
        BY <1>1, <2>1, <3>2
      <4>2. Chosen(p) \in marked[r] /\ Chosen(p).vault
        BY <1>3, <3>2, <4>1
      <4>. QED
        BY <1>4, <3>2, <4>1, <4>2 DEF PublisherInv, MarksTruth
    <3>. QED
      BY <3>1, <3>2
  <2>. QED
    BY <2>1
<1>8. TypeOK' /\ BatchType'
  BY <1>1, <1>2, <1>6, <1>7 DEF PublisherInv, TypeOK, BatchType, Marking, Stage
<1>9. Positioned'
  BY <1>1, <1>2 DEF PublisherInv, Positioned, Current
<1>10. MarksBatch'
  <2>1. ASSUME NEW x \in Run \ {r} PROVE marked'[x] = marked[x] /\ (Running(x)' <=> Running(x))
    BY <1>2 DEF Running
  <2>2. marked'[r] = {} /\ ~Running(r)'
    BY <1>2 DEF Running
  <2>. QED
    BY <1>1, <2>1, <2>2 DEF PublisherInv, MarksBatch
<1>11. MarksTruth'
  BY <1>1, <1>2 DEF PublisherInv, MarksTruth
<1>12. ASSUME NEW p \in Post, status[p] \in Outcome PROVE status'[p] \in Outcome
  BY <1>4, <1>5, <1>12
<1>13. ASSUME NEW i \in 1..Len(batch[r]) PROVE status'[batch[r][i]] \in Outcome
  <2>1. i \in 1..(at[r] - 1) /\ batch[r][i] \in Post
    BY <1>1, PublisherTypes
  <2>2. PICK m \in marked[r] : m.post = batch[r][i]
    BY <1>1, <2>1 DEF PublisherInv, MarksBatch
  <2>3. Of(r, batch[r][i]) # {}
    BY <2>2 DEF Of
  <2>. QED
    BY <1>4, <1>5, <2>1, <2>3
<1>14. Decided'
  <2>1. ASSUME NEW x \in Run, pc'[x] = "done", NEW i \in 1..Len(batch[x])
        PROVE  status'[batch[x][i]] \in Outcome
    <3>1. CASE x = r
      BY <1>13, <2>1, <3>1
    <3>2. CASE x # r
      <4>1. batch[x][i] \in Post /\ status[batch[x][i]] \in Outcome
        BY <1>2, <2>1, <3>2, PublisherTypes DEF PublisherInv, Decided
      <4>. QED
        BY <1>12, <4>1
    <3>. QED
      BY <3>1, <3>2
  <2>2. \A x \in Run : pc[x] = "crashed" => pc'[x] = "crashed"
    BY <1>1, <1>2
  <2>. QED
    BY <1>1, <2>1, <2>2 DEF PublisherInv, Decided
<1>15. Fresh' /\ NoLaterRepublish'
  <2>1. \A x \in Run : before[x] \in SUBSET Run
    BY PublisherTypes
  <2>. QED
    BY <1>1, <1>2, <2>1 DEF PublisherInv, Fresh, NoLaterRepublish
<1>16. PostedWasPublished'
  <2>1. ASSUME NEW p \in Post, status'[p] = "posted" PROVE publishedBy[p] # {}
    <3>1. CASE Of(r, p) = {}
      BY <1>4, <2>1, <3>1 DEF PublisherInv, PostedWasPublished
    <3>2. CASE Of(r, p) # {}
      BY <1>3, <1>4, <2>1, <3>2 DEF PublisherInv, MarksTruth
    <3>. QED
      BY <3>1, <3>2
  <2>. QED
    BY <1>1, <2>1 DEF PostedWasPublished
<1>. QED
  BY <1>8, <1>9, <1>10, <1>11, <1>14, <1>15, <1>16 DEF PublisherInv

(* A run that fails leaves nothing but what Meta published. *)
LEMMA StepCrash ==
  ASSUME PublisherInv, NEW r \in Run, Crash(r)
  PROVE  PublisherInv'
<1>1. /\ UNCHANGED <<status, due, connected, publishedBy, vaultFailed, before>>
      /\ pc[r] # "done" /\ rowLock' = Unlocked(r)
  BY DEF Crash, Running
<1>2. /\ pc' \in [Run -> Stage] /\ pc'[r] = "crashed" /\ \A x \in Run \ {r} : pc'[x] = pc[x]
  BY PublisherTypes DEF Crash, Stage
<1>a. /\ batch' \in [Run -> Seq(Post)] /\ batch'[r] = <<>> /\ at' \in [Run -> Nat] /\ at'[r] = 1
      /\ \A x \in Run \ {r} : batch'[x] = batch[x] /\ at'[x] = at[x]
  BY PublisherTypes DEF Crash
<1>b. /\ marked' \in [Run -> SUBSET Marking] /\ marked'[r] = {}
      /\ \A x \in Run \ {r} : marked'[x] = marked[x]
      /\ dirty' \in [Run -> Post \cup {None}] /\ rowLock' \in [Post -> Run \cup {None}]
  BY <1>1, PublisherTypes DEF Crash, Unlocked
<1>3. Len(batch'[r]) = 0 /\ 1..(at'[r] - 1) = {} /\ ~Running(r)'
  BY <1>2, <1>a DEF Running
<1>4. ASSUME NEW x \in Run \ {r} PROVE Current(x)' = Current(x) /\ (Running(x)' <=> Running(x))
  BY <1>2, <1>a DEF Current, Running
<1>5. BatchType'
  <2>1. ASSUME NEW x \in Run PROVE \A i, j \in 1..Len(batch'[x]) : batch'[x][i] = batch'[x][j] => i = j
    <3>1. CASE x = r
      BY <1>3, <3>1
    <3>2. CASE x # r
      BY <1>a, <3>2 DEF PublisherInv, BatchType
    <3>. QED
      BY <3>1, <3>2
  <2>. QED
    BY <1>a, <1>b, <2>1 DEF BatchType
<1>6. Positioned'
  <2>1. ASSUME NEW x \in Run \ {r}
        PROVE  /\ at'[x] = at[x] /\ pc'[x] = pc[x] /\ marked'[x] = marked[x] /\ batch'[x] = batch[x]
               /\ Current(x)' = Current(x)
    BY <1>2, <1>4, <1>a, <1>b
  <2>2. at'[r] \in 1..(Len(batch'[r]) + 1) /\ pc'[r] = "crashed"
    BY <1>2, <1>3, <1>a
  <2>. QED
    BY <1>1, <2>1, <2>2 DEF PublisherInv, Positioned
<1>7. TypeOK'
  <2>1. \A x \in Run : Range(batch'[x]) \subseteq Post
    BY <1>a, BatchElement
  <2>. QED
    BY <1>1, <1>2, <1>6, <1>b, <2>1 DEF PublisherInv, TypeOK, Positioned, Marking, Stage
<1>8. MarksBatch'
  <2>1. ASSUME NEW x \in Run \ {r}
        PROVE  /\ marked'[x] = marked[x] /\ at'[x] = at[x] /\ batch'[x] = batch[x]
               /\ Running(x)' <=> Running(x)
    BY <1>4, <1>a, <1>b
  <2>. QED
    BY <1>3, <1>b, <2>1 DEF PublisherInv, MarksBatch
<1>11. MarksTruth'
  BY <1>1, <1>b DEF PublisherInv, MarksTruth
<1>9. Decided'
  <2>1. ASSUME NEW x \in Run \ {r}
        PROVE  pc'[x] = pc[x] /\ batch'[x] = batch[x]
    BY <1>2, <1>a
  <2>. QED
    BY <1>1, <1>2, <2>1 DEF PublisherInv, Decided
<1>12. PostedWasPublished' /\ NoLaterRepublish'
  BY <1>1 DEF PublisherInv, PostedWasPublished, NoLaterRepublish
<1>10. Fresh'
  <2>1. \A x \in Run : before[x] \in SUBSET Run
    BY PublisherTypes
  <2>2. ASSUME NEW x \in Run
        PROVE  /\ \A y \in before[x] : pc'[y] = "done"
               /\ \A i \in 1..Len(batch'[x]) : \A y \in before[x] : y \notin publishedBy[batch'[x][i]]
    <3>1. \A y \in before[x] : pc[y] = "done" /\ y \in Run /\ y # r
      BY <1>1, <2>1 DEF PublisherInv, Fresh
    <3>2. \A y \in before[x] : pc'[y] = "done"
      BY <1>2, <3>1
    <3>3. CASE x = r
      BY <1>3, <3>2, <3>3
    <3>4. CASE x # r
      BY <1>a, <3>2, <3>4 DEF PublisherInv, Fresh
    <3>. QED
      BY <3>3, <3>4
  <2>. QED
    BY <1>1, <2>2 DEF Fresh
<1>. QED
  BY <1>5, <1>6, <1>7, <1>8, <1>9, <1>10, <1>11, <1>12 DEF PublisherInv

LEMMA StepPublisher == PublisherInv /\ [Next]_vars => PublisherInv'
<1>. SUFFICES ASSUME PublisherInv, [Next]_vars PROVE PublisherInv'
  OBVIOUS
<1>1. ASSUME NEW r \in Run, LoadConnection(r) PROVE PublisherInv'
  <2>1. rowLock' \in [Post -> Run \cup {None}]
    BY <1>1, PublisherTypes DEF LoadConnection, Flush
  <2>2. /\ pc[r] = "loop"
        /\ UNCHANGED <<status, due, connected, batch, publishedBy, vaultFailed, before>>
        /\ \/ /\ pc' = [pc EXCEPT ![r] = "connected"]
              /\ dirty' = [dirty EXCEPT ![r] = None]
              /\ UNCHANGED <<at, marked>>
           \/ Mark(r, "failed_no_connection", FALSE)
    BY <1>1 DEF LoadConnection
  <2>3. CASE Mark(r, "failed_no_connection", FALSE)
    BY <2>1, <2>2, <2>3, StepMark DEF Outcome
  <2>4. CASE /\ pc' = [pc EXCEPT ![r] = "connected"]
             /\ dirty' = [dirty EXCEPT ![r] = None]
             /\ UNCHANGED <<at, marked>>
    <3>1. dirty' \in [Run -> Post \cup {None}]
      BY <2>4, PublisherTypes
    <3>. QED
      BY <2>1, <2>2, <2>4, <3>1, StepMoves
  <2>. QED
    BY <2>2, <2>3, <2>4
<1>2. ASSUME NEW r \in Run, Resolve(r) PROVE PublisherInv'
  <2>1. /\ pc[r] = "connected" /\ rowLock' = rowLock
        /\ UNCHANGED <<status, due, connected, batch, publishedBy, vaultFailed, before>>
        /\ \/ pc' = [pc EXCEPT ![r] = "resolved"] /\ UNCHANGED <<at, dirty, marked>>
           \/ Mark(r, "failed", TRUE)
    BY <1>2 DEF Resolve, VaultOutcome
  <2>2. CASE Mark(r, "failed", TRUE)
    BY <2>1, <2>2, PublisherTypes, StepMark DEF Outcome
  <2>3. CASE pc' = [pc EXCEPT ![r] = "resolved"] /\ UNCHANGED <<at, dirty, marked>>
    BY <2>1, <2>3, PublisherTypes, StepMoves
  <2>. QED
    BY <2>1, <2>2, <2>3
<1>3. ASSUME NEW r \in Run, Published(r) \/ Refused(r) PROVE PublisherInv'
  <2>1. /\ pc[r] \in {"resolved", "waiting"} /\ rowLock' = rowLock
        /\ UNCHANGED <<status, due, connected, batch, publishedBy, vaultFailed, before>>
        /\ \E s \in {"posted", "failed"} :
             Mark(r, s, FALSE) /\ (s = "posted" => r \in publishedBy[Current(r)])
    BY <1>3 DEF Published, Refused, PublisherInv, Positioned
  <2>. QED
    BY <2>1, PublisherTypes, StepMark DEF Outcome
<1>4. CASE UNCHANGED vars
  BY <1>4 DEF vars, PublisherInv, TypeOK, BatchType, Positioned, MarksBatch, MarksTruth, Decided,
              Fresh, PostedWasPublished, NoLaterRepublish, Current, Running
<1>. QED
  BY <1>1, <1>2, <1>3, <1>4, StepAround, StepSelect, StepPublish, StepCommit, StepCrash
     DEF Next, RunStep, DetectDeadlock

LEMMA PublisherInvariant == Spec => []PublisherInv
BY InitPublisher, StepPublisher, PTL DEF Spec

(* The state has its type: a post that failed for Vault has failed. *)
THEOREM PublisherTypeCorrect == Spec => []TypeOK
<1>1. PublisherInv => TypeOK
  BY DEF PublisherInv
<1>. QED
  BY <1>1, PublisherInvariant, PTL

(* A post that shows as posted was published by some run. *)
THEOREM PostedIsPublished == Spec => []PostedWasPublished
<1>1. PublisherInv => PostedWasPublished
  BY DEF PublisherInv
<1>. QED
  BY <1>1, PublisherInvariant, PTL

(* A second publication takes an overlap of two runs, or a lost one. *)
THEOREM RepublishedByOverlapOnly == Spec => []NoLaterRepublish
<1>1. PublisherInv => NoLaterRepublish
  BY DEF PublisherInv
<1>. QED
  BY <1>1, PublisherInvariant, PTL

(* A run that ends has decided every post it selected. *)
THEOREM RunsDecideAll == Spec => []DoneDecidesAll
<1>1. ASSUME PublisherInv PROVE DoneDecidesAll
  <2>1. ASSUME NEW r \in Run, pc[r] = "done", NEW p \in Range(batch[r]) PROVE status[p] # "pending"
    <3>1. PICK i \in 1..Len(batch[r]) : batch[r][i] = p
      <4>1. batch[r] \in Seq(Post)
        BY <1>1, PublisherTypes
      <4>. QED
        BY <2>1, <4>1, BatchElement
    <3>. QED
      BY <1>1, <2>1, <3>1 DEF PublisherInv, Decided, Outcome
  <2>. QED
    BY <2>1 DEF DoneDecidesAll
<1>. QED
  BY <1>1, PublisherInvariant, PTL

-----------------------------------------------------------------------------
(* What a run published lies behind its position, or it waits for Meta's    *)
(* answer there.                                                            *)
Behind ==
  \A r \in Run : \A p \in Post : r \in publishedBy[p] =>
    \/ pc[r] = "crashed"
    \/ \E i \in 1..(at[r] - 1) : batch[r][i] = p
    \/ pc[r] = "waiting" /\ batch[r][at[r]] = p

(* Only a run that is running holds rows, and finitely many runs were begun. *)
Begun == {r \in Run : pc[r] # "idle"}

RowsHeld ==
  /\ \A p \in Post : rowLock[p] # None => Running(rowLock[p])
  /\ IsFiniteSet(Begun)

(* Which variables a step of a run changes, and where it takes the run. *)
LEMMA RunMoves ==
  ASSUME PublisherInv, NEW r \in Run,
         \/ LoadConnection(r) \/ Resolve(r) \/ Published(r) \/ Refused(r)
  PROVE  /\ UNCHANGED <<batch, publishedBy>> /\ Running(r)
         /\ \A s \in Run \ {r} : pc'[s] = pc[s] /\ at'[s] = at[s]
         /\ pc'[r] \in Stage /\ Running(r)' /\ at'[r] \in Nat
         /\ \/ /\ pc'[r] \in {"connected", "resolved"} /\ at'[r] = at[r]
               /\ pc[r] = IF pc'[r] = "connected" THEN "loop" ELSE "connected"
            \/ /\ pc'[r] \in {"loop", "commit"} /\ at'[r] = at[r] + 1
               /\ pc[r] \in {"loop", "connected", "resolved", "waiting"}
<1>. DEFINE Marks == \E s \in Outcome : \E v \in BOOLEAN : Mark(r, s, v)
<1>1. pc \in [Run -> Stage] /\ at \in [Run -> Nat] /\ Running(r)
  BY PublisherTypes DEF LoadConnection, Resolve, Published, Refused, Running
<1>2. /\ UNCHANGED <<batch, publishedBy>>
      /\ pc[r] \in {"loop", "connected", "resolved", "waiting"}
      /\ \/ Marks
         \/ pc[r] = "loop" /\ pc' = [pc EXCEPT ![r] = "connected"] /\ at' = at
         \/ pc[r] = "connected" /\ pc' = [pc EXCEPT ![r] = "resolved"] /\ at' = at
  BY DEF LoadConnection, Resolve, Published, Refused, VaultOutcome, Outcome
<1>3. CASE Marks
  <2>1. pc' = [pc EXCEPT ![r] = IF at'[r] > Len(batch[r]) THEN "commit" ELSE "loop"]
        /\ at' = [at EXCEPT ![r] = at[r] + 1]
    BY <1>3 DEF Mark, Continues
  <2>. QED
    BY <1>1, <1>2, <2>1 DEF Running, Stage
<1>4. CASE ~Marks
  BY <1>1, <1>2, <1>4 DEF Running, Stage
<1>. QED
  BY <1>3, <1>4

LEMMA StepBehind ==
  ASSUME PublisherInv, Behind, [Next]_vars
  PROVE  Behind'
<1>1. ASSUME NEW r \in Run, \/ LoadConnection(r) \/ Resolve(r) \/ Published(r) \/ Refused(r)
      PROVE  Behind'
  <2>1. /\ UNCHANGED <<batch, publishedBy>> /\ Running(r) /\ at[r] \in Nat /\ at'[r] \in Nat
        /\ \A s \in Run \ {r} : pc'[s] = pc[s] /\ at'[s] = at[s]
        /\ \/ at'[r] = at[r] + 1
           \/ at'[r] = at[r] /\ pc[r] # "waiting"
    BY <1>1, RunMoves, PublisherTypes
  <2>2. ASSUME NEW p \in Post, r \in publishedBy[p]
        PROVE  \E i \in 1..(at'[r] - 1) : batch[r][i] = p
    <3>1. CASE \E i \in 1..(at[r] - 1) : batch[r][i] = p
      BY <2>1, <3>1
    <3>2. CASE pc[r] = "waiting" /\ batch[r][at[r]] = p
      <4>1. at[r] \in 1..(at'[r] - 1)
        BY <1>1, <2>1, <3>2, PublisherTypes
      <4>. QED
        BY <3>2, <4>1
    <3>. QED
      BY <2>1, <2>2, <3>1, <3>2 DEF Behind, Running
  <2>3. ASSUME NEW s \in Run \ {r}, NEW p \in Post, s \in publishedBy[p]
        PROVE  \/ pc'[s] = "crashed"
               \/ \E i \in 1..(at'[s] - 1) : batch[s][i] = p
               \/ pc'[s] = "waiting" /\ batch[s][at'[s]] = p
    BY <2>1, <2>3 DEF Behind
  <2>. QED
    BY <2>1, <2>2, <2>3 DEF Behind
<1>2. ASSUME NEW r \in Run, Publish(r) PROVE Behind'
  BY <1>2, PublisherTypes DEF Publish, Current, Behind
<1>3. ASSUME NEW r \in Run, CommitRun(r) PROVE Behind'
  BY <1>3, PublisherTypes DEF CommitRun, Behind
<1>4. ASSUME NEW r \in Run, Crash(r) PROVE Behind'
  BY <1>4, PublisherTypes DEF Crash, Behind
<1>5. ASSUME NEW r \in Run, Select(r) PROVE Behind'
  <2>1. UNCHANGED <<at, publishedBy>> /\ pc[r] = "idle" /\ at[r] = 1 /\ batch[r] = <<>>
        /\ \A s \in Run \ {r} : batch'[s] = batch[s] /\ pc'[s] = pc[s]
    BY <1>5, PublisherTypes DEF Select, PublisherInv, Positioned
  <2>2. \A p \in Post : r \notin publishedBy[p]
    BY <2>1 DEF PublisherInv, Decided
  <2>. QED
    BY <2>1, <2>2 DEF Behind
<1>6. ASSUME (\E p \in Post : Schedule(p) \/ TimePasses(p)) \/ (\E b \in Business : Connect(b))
             \/ UNCHANGED vars
      PROVE  Behind'
  BY <1>6 DEF Schedule, TimePasses, Connect, vars, Behind
<1>. QED
  BY <1>1, <1>2, <1>3, <1>4, <1>5, <1>6 DEF Next, RunStep, DetectDeadlock

LEMMA BehindInvariant == Spec => []Behind
<1>1. Init => Behind
  BY DEF Init, Behind
<1>. QED
  BY <1>1, StepBehind, PublisherInvariant, PTL DEF Spec

(* The post Meta gets is not one the run has published before. *)
NewToMeta == \A r \in Run : Publish(r) => r \notin publishedBy[Current(r)]

(* A run publishes each post at most once, whatever fails on its way: what  *)
(* is published twice is published by two runs.                             *)
THEOREM RunPublishesOnce == Spec => [][NewToMeta]_vars
<1>1. ASSUME PublisherInv, Behind, NEW r \in Run, Publish(r) PROVE r \notin publishedBy[Current(r)]
  <2>1. /\ pc[r] = "resolved" /\ at[r] \in 1..Len(batch[r]) /\ Len(batch[r]) \in Nat
        /\ Current(r) = batch[r][at[r]] /\ Current(r) \in Post
    BY <1>1, PublisherTypes DEF Publish, Current, PublisherInv, Positioned
  <2>2. \A i \in 1..(at[r] - 1) : batch[r][i] # batch[r][at[r]]
    BY <1>1, <2>1 DEF PublisherInv, BatchType
  <2>. QED
    BY <1>1, <2>1, <2>2 DEF Behind
<1>2. PublisherInv /\ Behind => NewToMeta
  BY <1>1 DEF NewToMeta
<1>. QED
  BY <1>2, PublisherInvariant, BehindInvariant, PTL

-----------------------------------------------------------------------------
LEMMA StepRowsHeld ==
  ASSUME PublisherInv, RowsHeld, [Next]_vars
  PROVE  RowsHeld'
<1>. DEFINE Free(lock, x) == \A p \in Post : lock[p] # None => lock[p] \in Run /\ lock[p] # x
<1>0. /\ \A r \in Run : r # None
      /\ pc \in [Run -> Stage] /\ rowLock \in [Post -> Run \cup {None}]
      /\ dirty \in [Run -> Post \cup {None}]
  BY PublisherAssumption DEF PublisherInv, TypeOK, Stage
<1>1. ASSUME NEW r \in Run, LoadConnection(r) PROVE RowsHeld'
  <2>1. /\ \A s \in Run : pc'[s] = pc[s] \/ (Running(s) /\ Running(s)')
        /\ \A s \in Run : (pc[s] = "idle" <=> pc'[s] = "idle") /\ (Running(s) <=> Running(s)')
        /\ Running(r)'
    BY <1>0, <1>1, RunMoves DEF Running
  <2>2. \A p \in Post : rowLock'[p] # None => rowLock'[p] = r \/ rowLock'[p] = rowLock[p]
    BY <1>0, <1>1 DEF LoadConnection, Flush
  <2>3. Begun' = Begun
    BY <2>1 DEF Begun
  <2>. QED
    BY <1>0, <2>1, <2>2, <2>3 DEF RowsHeld
<1>2. ASSUME NEW r \in Run, Resolve(r) \/ Published(r) \/ Refused(r) \/ Publish(r) PROVE RowsHeld'
  <2>1. /\ \A s \in Run : (pc[s] = "idle" <=> pc'[s] = "idle") /\ (Running(s) <=> Running(s)')
        /\ rowLock' = rowLock
    <3>1. CASE Publish(r)
      BY <1>0, <3>1 DEF Publish, Running
    <3>2. CASE Resolve(r) \/ Published(r) \/ Refused(r)
      BY <1>0, <3>2, RunMoves DEF Running, Resolve, Published, Refused
    <3>. QED
      BY <1>2, <3>1, <3>2
  <2>2. Begun' = Begun
    BY <2>1 DEF Begun
  <2>. QED
    BY <1>0, <2>1, <2>2 DEF RowsHeld
<1>3. ASSUME NEW r \in Run, CommitRun(r) \/ Crash(r) PROVE RowsHeld'
  <2>1. /\ rowLock' = Unlocked(r) /\ pc[r] # "idle" /\ pc'[r] \in {"done", "crashed"}
        /\ \A s \in Run \ {r} : pc'[s] = pc[s]
    BY <1>0, <1>3 DEF CommitRun, Crash, Running
  <2>2. \A p \in Post : rowLock'[p] # None => rowLock'[p] = rowLock[p] /\ rowLock[p] # r
    BY <1>0, <2>1 DEF Unlocked
  <2>3. Begun' = Begun
    BY <2>1 DEF Begun
  <2>. QED
    BY <1>0, <2>1, <2>2, <2>3 DEF RowsHeld, Running
<1>4. ASSUME NEW r \in Run, Select(r) PROVE RowsHeld'
  <2>1. /\ rowLock' = rowLock /\ pc[r] = "idle" /\ pc'[r] \in {"loop", "commit"}
        /\ \A s \in Run \ {r} : pc'[s] = pc[s]
    BY <1>0, <1>4 DEF Select
  <2>2. Begun' = Begun \cup {r}
    BY <2>1 DEF Begun
  <2>3. IsFiniteSet(Begun')
    BY <2>2, FS_AddElement DEF RowsHeld
  <2>. QED
    BY <1>0, <2>1, <2>3 DEF RowsHeld, Running
<1>5. ASSUME (\E p \in Post : Schedule(p) \/ TimePasses(p)) \/ (\E b \in Business : Connect(b))
             \/ UNCHANGED vars
      PROVE  RowsHeld'
  BY <1>5 DEF Schedule, TimePasses, Connect, vars, RowsHeld, Begun, Running
<1>. QED
  BY <1>1, <1>2, <1>3, <1>4, <1>5 DEF Next, RunStep, DetectDeadlock

LEMMA RowsHeldInvariant == Spec => []RowsHeld
<1>1. Init => RowsHeld
  <2>1. Init => Begun = {}
    BY DEF Init, Begun
  <2>. QED
    BY <2>1, FS_EmptySet DEF Init, RowsHeld
<1>. QED
  BY <1>1, StepRowsHeld, PublisherInvariant, PTL DEF Spec

(* In a finite set of runs each of which waits for another of them, some    *)
(* are on a cycle: a smallest set of such runs is one.                      *)
LEMMA WaitsMakeACycle ==
  ASSUME NEW S \in SUBSET Run, IsFiniteSet(S), S # {},
         \A s \in S : \E u \in S : WaitsFor(s, u)
  PROVE  \E r \in S : Deadlocked(r)
<1>. DEFINE Closed == {C \in SUBSET S : C # {} /\ \A s \in C : \E u \in C : WaitsFor(s, u)}
            Smaller == StrictSubsetOrdering(S)
<1>1. IsWellFoundedOn(Smaller, SUBSET S)
  BY FS_StrictSubsetOrderingWellFounded, FS_FiniteSubsetsOfFinite
<1>2. Closed \subseteq SUBSET S /\ S \in Closed
  OBVIOUS
<1>3. PICK C \in Closed : \A D \in Closed : ~(<<D, C>> \in Smaller)
  <2>. HIDE DEF Smaller, Closed
  <2>. QED
    BY <1>1, <1>2, WFMin
<1>. DEFINE D == {u \in C : \E s \in C : WaitsFor(s, u)}
<1>4. D \in Closed
  BY <1>3
<1>5. D = C
  BY <1>3, <1>4 DEF StrictSubsetOrdering
<1>6. \A s \in C : (\E u \in C : WaitsFor(s, u)) /\ (\E u \in C : WaitsFor(u, s))
  BY <1>3, <1>5
<1>7. PICK r \in S : r \in C
  BY <1>3
<1>8. C \in SUBSET Run
  BY <1>3
<1>. QED
  BY <1>6, <1>7, <1>8 DEF Deadlocked

(* The run can take a step by itself: it waits for nobody, or Postgres      *)
(* fails it.                                                                *)
GoesOn(r) ==
  \/ pc[r] \in {"connected", "resolved", "waiting"}
  \/ pc[r] \in {"loop", "commit"} /\ ~Blocked(r)
  \/ Deadlocked(r)

SomeRunGoesOn == (\E r \in Run : Running(r)) => \E r \in Run : GoesOn(r)

(* Runs that hold each other's rows never stop all of them: while a run is  *)
(* running, some run can go on or is failed by Postgres.                    *)
THEOREM RunsNeverAllWait == Spec => []SomeRunGoesOn
<1>1. ASSUME PublisherInv, RowsHeld PROVE SomeRunGoesOn
  <2>. DEFINE S == {r \in Run : Running(r)}
  <2>1. SUFFICES ASSUME S # {}, \A r \in Run : ~GoesOn(r) PROVE FALSE
    BY DEF SomeRunGoesOn
  <2>2. S \in SUBSET Run /\ IsFiniteSet(S)
    <3>1. S \in SUBSET Begun
      BY DEF Begun, Running
    <3>. QED
      BY <1>1, <3>1, FS_Subset DEF RowsHeld
  <2>3. ASSUME NEW s \in S PROVE \E u \in S : WaitsFor(s, u)
    <3>1. Waits(s) /\ dirty[s] \in Post /\ rowLock[dirty[s]] \in Run
      <4>1. pc[s] \in {"loop", "commit"} /\ Blocked(s)
        BY <1>1, <2>1, PublisherTypes DEF GoesOn, Running, Stage
      <4>. QED
        BY <1>1, <4>1, PublisherTypes DEF Waits, Blocked
    <3>2. Running(rowLock[dirty[s]])
      BY <1>1, <3>1, PublisherAssumption DEF RowsHeld
    <3>. QED
      BY <3>1, <3>2 DEF WaitsFor
  <2>. HIDE DEF S
  <2>4. \E r \in S : Deadlocked(r)
    BY <2>1, <2>2, <2>3, WaitsMakeACycle
  <2>. QED
    BY <2>1, <2>2, <2>4 DEF GoesOn
<1>. QED
  BY <1>1, PublisherInvariant, RowsHeldInvariant, PTL

-----------------------------------------------------------------------------
(* The steps a run can still take: four for each post from its position on, *)
(* and the commit.                                                          *)
StageLeft(r) ==
  IF pc[r] \in {"loop", "commit"} THEN 3
  ELSE IF pc[r] = "connected" THEN 2
  ELSE IF pc[r] = "resolved" THEN 1 ELSE 0

StepsLeft(r) == IF Running(r) THEN 4 * (Len(batch[r]) + 1 - at[r]) + StageLeft(r) ELSE 0

RunsOut ==
  \A r \in Run : RunStep(r) \/ Crash(r) =>
    /\ StepsLeft(r) \in Nat /\ StepsLeft(r)' \in Nat /\ StepsLeft(r)' < StepsLeft(r)
    /\ \A s \in Run \ {r} : StepsLeft(s)' = StepsLeft(s)

(* Every step a run takes brings its end nearer, and no step of another run *)
(* delays it: no run goes on forever.                                       *)
THEOREM RunsRunOut == Spec => [][RunsOut]_vars
<1>1. ASSUME PublisherInv, PublisherInv', NEW r \in Run, RunStep(r) \/ Crash(r)
      PROVE  /\ StepsLeft(r) \in Nat /\ StepsLeft(r)' \in Nat /\ StepsLeft(r)' < StepsLeft(r)
             /\ \A s \in Run \ {r} : StepsLeft(s)' = StepsLeft(s)
  <2>. DEFINE n == Len(batch[r])
  <2>1. /\ pc \in [Run -> Stage] /\ at \in [Run -> Nat] /\ n \in Nat /\ at[r] \in 1..(n + 1)
        /\ batch \in [Run -> Seq(Post)]
        /\ pc[r] \in {"loop", "connected", "resolved", "waiting"} => at[r] <= n
        /\ pc[r] = "commit" => at[r] = n + 1
    BY <1>1, PublisherTypes DEF PublisherInv, Positioned
  <2>2. ASSUME \A s \in Run \ {r} : pc'[s] = pc[s] /\ at'[s] = at[s] /\ batch'[s] = batch[s]
        PROVE  \A s \in Run \ {r} : StepsLeft(s)' = StepsLeft(s)
    BY <2>2 DEF StepsLeft, StageLeft, Running
  <2>3. CASE LoadConnection(r) \/ Resolve(r) \/ Published(r) \/ Refused(r)
    <3>1. /\ batch' = batch /\ Running(r) /\ Running(r)' /\ at'[r] \in Nat /\ at'[r] <= n + 1
          /\ \A s \in Run \ {r} : pc'[s] = pc[s] /\ at'[s] = at[s]
          /\ \/ pc'[r] = "connected" /\ pc[r] = "loop" /\ at'[r] = at[r]
             \/ pc'[r] = "resolved" /\ pc[r] = "connected" /\ at'[r] = at[r]
             \/ /\ pc'[r] \in {"loop", "commit"} /\ at'[r] = at[r] + 1
                /\ pc[r] \in {"loop", "connected", "resolved", "waiting"}
      BY <1>1, <2>1, <2>3, RunMoves
    <3>. DEFINE k == StageLeft(r)
                m == n + 1 - at[r]
    <3>2. /\ StepsLeft(r) = 4 * m + k
          /\ StepsLeft(r)' = 4 * (n + 1 - at'[r]) + k'
      BY <3>1 DEF StepsLeft
    <3>3. k \in 0..3 /\ k' \in 0..3 /\ m \in Nat /\ n + 1 - at'[r] \in Nat
      BY <2>1, <3>1 DEF StageLeft
    <3>4. \/ n + 1 - at'[r] = m /\ k' < k
          \/ n + 1 - at'[r] = m - 1
      <4>1. \/ at'[r] = at[r] /\ k = 3 /\ k' = 2
            \/ at'[r] = at[r] /\ k = 2 /\ k' = 1
            \/ at'[r] = at[r] + 1
        BY <3>1, Zenon DEF StageLeft
      <4>. HIDE DEF k
      <4>. QED
        BY <2>1, <4>1
    <3>5. \A s \in Run \ {r} : StepsLeft(s)' = StepsLeft(s)
      BY <2>2, <3>1
    <3>. HIDE DEF k, m
    <3>6. /\ StepsLeft(r) \in Nat /\ StepsLeft(r)' \in Nat
          /\ StepsLeft(r)' < StepsLeft(r)
      BY <3>2, <3>3, <3>4
    <3>. QED
      BY <3>5, <3>6
  <2>4. CASE Publish(r)
    BY <2>1, <2>2, <2>4 DEF Publish, StepsLeft, StageLeft, Running
  <2>5. CASE CommitRun(r)
    BY <2>1, <2>2, <2>5 DEF CommitRun, StepsLeft, StageLeft, Running
  <2>6. CASE Crash(r)
    <3>1. Running(r) /\ ~Running(r)'
      BY <2>1, <2>6 DEF Crash, Running
    <3>2. \A s \in Run \ {r} : pc'[s] = pc[s] /\ at'[s] = at[s] /\ batch'[s] = batch[s]
      BY <2>1, <2>6 DEF Crash
    <3>3. StepsLeft(r) \in Nat /\ StepsLeft(r) > 0
      BY <2>1, <3>1 DEF StepsLeft, StageLeft, Running, Stage
    <3>. QED
      BY <2>2, <3>1, <3>2, <3>3 DEF StepsLeft
  <2>. QED
    BY <1>1, <2>3, <2>4, <2>5, <2>6 DEF RunStep, DetectDeadlock
<1>2. PublisherInv /\ PublisherInv' => RunsOut
  BY <1>1 DEF RunsOut
<1>. QED
  BY <1>2, PublisherInvariant, PTL
=============================================================================
