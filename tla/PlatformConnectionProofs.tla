---------------------- MODULE PlatformConnectionProofs ----------------------
(***************************************************************************)
(* Proofs about PlatformConnection, for any numbers of slots, states and   *)
(* requests.  RefResolves rests on the order of the code: a request that   *)
(* is about to save its row has stored its secret, and no secret is ever   *)
(* removed.  ReplayRefused rests on used_at: while one callback can still  *)
(* check, no other one with its state has got further than its check.      *)
(***************************************************************************)
EXTENDS PlatformConnection, TLAPS

(* A request that has stored its secret, and not yet saved. *)
Stored ==
  \A r \in Request : pc[r] = "saving" => /\ vault[SlotOf(r)] # None
                                         /\ refresh[r] # None => SlotOf(r) \in Kept

Past == {"claimed", "loaded", "carrying", "storing", "saving", "done"}

(* A state that passed its check has a row, and is used up after that. *)
Claimed ==
  \A c \in Callback : /\ pc[c] = "checked" => StateOf[c] \in issued
                      /\ pc[c] \in Past => StateOf[c] \in used

(* Two callbacks with one state that both passed the check overlapped. *)
Overlapped ==
  \A c, d \in Callback :
    /\ c # d /\ StateOf[c] = StateOf[d]
    /\ pc[c] \in Past \cup {"checked"} /\ pc[d] \in Past \cup {"checked"}
    => {c, d} \in met

(* A row a callback has seen is still there: nothing deletes rows. *)
SeenExists == \A c \in Callback : seen[c] # None => row[SlotOf(c)] # None

(* Only a callback that saw a refresh token's reference asks Vault for it. *)
Asked ==
  /\ \A c \in Callback : pc[c] = "carrying" => SawRefresh(c)
  /\ \A c \in unresolved : pc[c] \in {"storing", "saving"} \cup Over

IInv ==
  /\ TypeOK
  /\ RefResolves
  /\ Stored
  /\ Claimed
  /\ Overlapped
  /\ SeenExists
  /\ Asked

(* The path of a request's secret belongs to a slot. *)
LEMMA SlotType == \A r \in Request : SlotOf(r) \in Slot
  BY ConnectionAssumption DEF SlotOf, Request

(* The invariant holds before anything has happened. *)
LEMMA InitInv == Init => IInv
<1>. SUFFICES ASSUME Init PROVE IInv
  OBVIOUS
<1>. USE DEF Init
<1>1. TypeOK
  BY DEF TypeOK, Where
<1>2. RefResolves /\ Stored /\ SeenExists
  BY SlotType DEF RefResolves, Stored, SeenExists, Request
<1>3. Claimed /\ Overlapped /\ Asked
  BY DEF Claimed, Overlapped, Asked, Past, Request
<1>. QED
  BY <1>1, <1>2, <1>3 DEF IInv

(* Writes keep every secret a secret, and put one at the request's slot. *)
LEMMA WriteStores ==
  ASSUME TypeOK, NEW r \in Request, Write(r)
  PROVE  /\ vault' \in [Slot -> Secret \cup {None}]
         /\ vault'[SlotOf(r)] # None
         /\ \A s \in Slot : vault[s] # None => vault'[s] # None
         /\ Kept \subseteq Kept'
         /\ refresh[r] # None => SlotOf(r) \in Kept'
         /\ lost' \subseteq [slot : Slot, by : Request]
<1>1. SlotOf(r) \in Slot
  BY SlotType
<1>2. [access |-> r, refresh |-> refresh[r]] \in Secret
  BY DEF Secret, TypeOK
<1>3. vault' = [vault EXCEPT ![SlotOf(r)] = [access |-> r, refresh |-> refresh[r]]]
  BY DEF Write
<1>4. [access |-> r, refresh |-> refresh[r]] # None
  BY <1>2, NoneIsNoValue
<1>5. lost' \subseteq [slot : Slot, by : Request]
  BY <1>1 DEF Write, TypeOK
<1>6. vault'[SlotOf(r)].refresh = refresh[r] /\ \A s \in Slot \ {SlotOf(r)} : vault'[s] = vault[s]
  BY <1>1, <1>3 DEF TypeOK
<1>7. vault'[SlotOf(r)] # None
  BY <1>1, <1>3, <1>4 DEF TypeOK
<1>8. refresh[r] # None => SlotOf(r) \in Kept'
  BY <1>1, <1>6, <1>7 DEF Kept, HasRefresh
<1>9. ASSUME NEW s \in Kept PROVE s \in Kept'
  <2>1. lost \subseteq lost'
    BY DEF Write
  <2>2. CASE \E l \in lost : l.slot = s
    BY <2>1, <2>2 DEF Kept
  <2>3. CASE HasRefresh(vault[s]) /\ s # SlotOf(r)
    BY <1>6, <2>3 DEF Kept, HasRefresh
  <2>4. CASE HasRefresh(vault[s]) /\ s = SlotOf(r) /\ refresh[r] = None
    <3>1. [slot |-> s, by |-> r] \in lost'
      BY <2>4 DEF Write
    <3>. QED
      BY <3>1 DEF Kept
  <2>. QED
    BY <1>8, <1>9, <2>2, <2>3, <2>4 DEF Kept
<1>. QED
  BY <1>1, <1>2, <1>3, <1>4, <1>5, <1>8, <1>9 DEF TypeOK

(* A request goes from one place of the code to another. *)
LEMMA GoesType ==
  ASSUME TypeOK, NEW r \in Request, NEW where \in Where, Goes(r, where)
  PROVE  /\ pc' \in [Request -> Where]
         /\ pc'[r] = where
         /\ \A x \in Request : x # r => pc'[x] = pc[x]
  BY DEF TypeOK, Goes

(* Saving a row whose reference, if any, leads to a secret. *)
LEMMA RowStep ==
  ASSUME TypeOK, RefResolves, SeenExists, NEW r \in Request, NEW new \in Row,
         row' = [row EXCEPT ![SlotOf(r)] = new], UNCHANGED <<vault, seen, lost>>,
         new.ref => vault[SlotOf(r)] # None, new.refreshRef => SlotOf(r) \in Kept
  PROVE  row' \in [Slot -> Row \cup {None}] /\ RefResolves' /\ SeenExists'
<1>1. SlotOf(r) \in Slot /\ new # None
  BY SlotType, NoneIsNoValue
<1>2. row' \in [Slot -> Row \cup {None}]
  BY DEF TypeOK
<1>3. \A s \in Slot : row'[s] = IF s = SlotOf(r) THEN new ELSE row[s]
  BY DEF TypeOK
<1>4. RefResolves'
  BY <1>3 DEF RefResolves, Kept
<1>5. SeenExists'
  BY <1>1, <1>3, SlotType DEF SeenExists, Request
<1>. QED
  BY <1>2, <1>4, <1>5

(* INSERT, or the refusal of it. *)
LEMMA InsertStep ==
  ASSUME TypeOK, RefResolves, SeenExists, NEW r \in Request, NEW new \in Row,
         Insert(r, new), UNCHANGED <<vault, seen, lost>>,
         new.ref => vault[SlotOf(r)] # None, new.refreshRef => SlotOf(r) \in Kept
  PROVE  row' \in [Slot -> Row \cup {None}] /\ RefResolves' /\ SeenExists'
<1>1. CASE row' = [row EXCEPT ![SlotOf(r)] = new]
  BY <1>1, RowStep
<1>2. CASE row' = row
  BY <1>2 DEF TypeOK, RefResolves, SeenExists, SlotOf, Kept
<1>. QED
  BY <1>1, <1>2 DEF Insert

(* A store, whatever Vault answers. *)
LEMMA StoreStep == ASSUME IInv, NEW r \in Request, Store(r) PROVE IInv'
<1>. USE DEF IInv
<1>1. /\ vault' \in [Slot -> Secret \cup {None}]
      /\ Goes(r, "saving") => /\ vault'[SlotOf(r)] # None
                              /\ refresh[r] # None => SlotOf(r) \in Kept'
      /\ \A s \in Slot : vault[s] # None => vault'[s] # None
      /\ Kept \subseteq Kept'
      /\ lost' \subseteq [slot : Slot, by : Request]
  <2>1. CASE Write(r)
    BY <2>1, WriteStores
  <2>2. CASE Goes(r, "refused") /\ UNCHANGED <<vault, lost>>
    <3>1. ~Goes(r, "saving")
      BY <2>2, GoesType DEF Where, Over
    <3>. QED
      BY <2>2, <3>1 DEF TypeOK, Kept
  <2>. QED
    BY <2>1, <2>2 DEF Store, AfterVaultError
<1>2. pc[r] = "storing" /\ (Goes(r, "saving") \/ Goes(r, "refused"))
  BY DEF Store, AfterVaultError
<1>3. /\ pc' \in [Request -> Where]
      /\ pc'[r] = "saving" => Goes(r, "saving")
      /\ pc'[r] \in {"saving", "refused"}
      /\ \A x \in Request : x # r => pc'[x] = pc[x]
  BY <1>2, GoesType DEF Where, Over
<1>4. UNCHANGED <<issued, used, expired, row, seen, refresh, unresolved, met>>
  BY DEF Store
<1>5. TypeOK'
  BY <1>1, <1>3, <1>4 DEF TypeOK, SawRefresh
<1>6. RefResolves'
  BY <1>1, <1>4 DEF RefResolves
<1>7. Stored'
  <2>1. ASSUME NEW x \in Request, pc'[x] = "saving"
        PROVE  vault'[SlotOf(x)] # None /\ (refresh'[x] # None => SlotOf(x) \in Kept')
    <3>1. SlotOf(x) \in Slot
      BY SlotType
    <3>2. CASE x = r
      <4>1. Goes(r, "saving")
        BY <1>3, <2>1, <3>2
      <4>. QED
        BY <1>1, <1>4, <3>2, <4>1
    <3>3. CASE x # r
      BY <1>1, <1>3, <1>4, <2>1, <3>1, <3>3 DEF Stored
    <3>. QED
      BY <3>2, <3>3
  <2>. QED
    BY <2>1 DEF Stored, SlotOf
<1>8. Claimed'
  BY <1>2, <1>3, <1>4 DEF Claimed, Past, Request
<1>9. Overlapped'
  BY <1>2, <1>3, <1>4 DEF Overlapped, Past, Request
<1>10. SeenExists'
  BY <1>4 DEF SeenExists, SlotOf
<1>11. Asked'
  BY <1>2, <1>3, <1>4 DEF Asked, SawRefresh, Over, TypeOK, Request
<1>. QED
  BY <1>5, <1>6, <1>7, <1>8, <1>9, <1>10, <1>11

(* What leaves Vault alone takes no secret away from a row or a request. *)
LEMMA NothingTaken ==
  ASSUME RefResolves, Stored, UNCHANGED <<vault, lost>>,
         \A r \in Request : pc'[r] = "saving" => pc[r] = "saving" /\ refresh'[r] = refresh[r]
  PROVE  Stored' /\ (row' = row => RefResolves')
<1>1. Kept' = Kept
  BY DEF Kept
<1>. QED
  BY <1>1 DEF Stored, RefResolves, SlotOf

(* Every step keeps the invariant. *)
LEMMA StepInv == IInv /\ [Next]_vars => IInv'
<1>. SUFFICES ASSUME IInv, [Next]_vars PROVE IInv'
  OBVIOUS
<1>. USE DEF IInv, TypeOK, Claimed, Overlapped, SeenExists, Asked, Past,
             SawRefresh, Over, Where, Goes, Request
<1>1. ASSUME NEW s \in State, StartOauth(s) PROVE IInv'
  BY <1>1, NothingTaken DEF StartOauth
<1>2. ASSUME NEW s \in State, Expire(s) PROVE IInv'
  BY <1>2, NothingTaken DEF Expire
<1>3. ASSUME NEW c \in Callback, Check(c) PROVE IInv'
  <2>1. TypeOK'
    BY <1>3, ConnectionAssumption DEF Check, Meets, Active
  <2>2. RefResolves' /\ Stored'
    BY <1>3, NothingTaken DEF Check
  <2>5. SeenExists' /\ Asked'
    BY <1>3 DEF Check
  <2>3. Claimed'
    BY <1>3 DEF Check, Usable
  <2>4. Overlapped'
    BY <1>3 DEF Check, Usable, Meets, Active, SlotOf
  <2>. QED
    BY <2>1, <2>2, <2>3, <2>4, <2>5
<1>4. ASSUME NEW c \in Callback, Claim(c) PROVE IInv'
  <2>. c \in Request
    OBVIOUS
  <2>1. StateOf[c] \in issued
    BY <1>4 DEF Claim
  <2>2. used' \subseteq issued' /\ issued' \subseteq State /\ expired' \subseteq issued'
    BY <1>4, <2>1 DEF Claim
  <2>3. pc' \in [Request -> Where]
    BY <1>4, GoesType DEF Claim
  <2>4. TypeOK'
    BY <1>4, <2>2, <2>3 DEF Claim
  <2>5. RefResolves' /\ Stored'
    BY <1>4, NothingTaken DEF Claim
  <2>6. SeenExists' /\ Asked'
    BY <1>4 DEF Claim, SlotOf
  <2>7. Claimed'
    BY <1>4 DEF Claim
  <2>8. Overlapped'
    BY <1>4 DEF Claim
  <2>. QED
    BY <2>4, <2>5, <2>6, <2>7, <2>8
<1>5. ASSUME NEW c \in Callback, Load(c) PROVE IInv'
  <2>1. /\ pc[c] = "claimed" /\ seen'[c] = row[SlotOf(c)] /\ Goes(c, "loaded")
        /\ \A x \in Request \ {c} : seen'[x] = seen[x]
        /\ UNCHANGED <<issued, used, expired, row, vault, refresh, unresolved, lost, met>>
    BY <1>5 DEF Load
  <2>2. seen' \in [Request -> Row \cup {None}]
    BY <1>5, SlotType DEF Load
  <2>3. c \notin unresolved
    BY <2>1
  <2>4. TypeOK'
    BY <2>1, <2>2, <2>3
  <2>5. RefResolves' /\ Stored'
    BY <2>1, NothingTaken
  <2>6. Claimed' /\ Overlapped'
    BY <2>1
  <2>7. SeenExists' /\ Asked'
    BY <2>1, <2>3 DEF SlotOf
  <2>. QED
    BY <2>4, <2>5, <2>6, <2>7
<1>6. ASSUME NEW c \in Callback, Exchange(c) PROVE IInv'
  BY <1>6, NothingTaken DEF Exchange, MustCarry
<1>7. ASSUME NEW c \in Callback, Carry(c) PROVE IInv'
  BY <1>7, NothingTaken, SlotType DEF Carry, HasRefresh, Secret
<1>8. ASSUME NEW c \in Callback, Save(c) PROVE IInv'
  <2>. c \in Request
    OBVIOUS
  <2>0. UNCHANGED <<vault, seen, lost, refresh>> /\ pc[c] = "saving"
    BY <1>8 DEF Save
  <2>1. vault[SlotOf(c)] # None /\ (refresh[c] = c => SlotOf(c) \in Kept)
    BY <2>0, ConnectionAssumption DEF Stored
  <2>2. row' \in [Slot -> Row \cup {None}] /\ RefResolves' /\ SeenExists'
    <3>1. CASE seen[c] = None
      <4>1. [ref |-> TRUE, refreshRef |-> refresh[c] = c, by |-> c] \in Row
        BY DEF Row
      <4>2. Insert(c, [ref |-> TRUE, refreshRef |-> refresh[c] = c, by |-> c])
        BY <1>8, <3>1 DEF Save
      <4>. QED
        BY <2>0, <2>1, <4>1, <4>2, InsertStep
    <3>2. CASE seen[c] # None
      <4>1. row[SlotOf(c)] \in Row
        BY <3>2, SlotType
      <4>2. PICK new \in Updated(c, row[SlotOf(c)]) : row' = [row EXCEPT ![SlotOf(c)] = new]
        BY <1>8, <3>2 DEF Save
      <4>3. /\ new \in Row
            /\ new.refreshRef => row[SlotOf(c)].refreshRef \/ refresh[c] = c
        <5>1. PICK by \in {c} \cup (IF row[SlotOf(c)].by = seen[c].by THEN {}
                                    ELSE {row[SlotOf(c)].by}) :
                new = UpdatedBy(c, row[SlotOf(c)], by)
          BY <4>2 DEF Updated
        <5>2. by \in Request
          BY <4>1, <5>1 DEF Row
        <5>. QED
          BY <4>1, <5>1, <5>2 DEF UpdatedBy, Row
      <4>4. new.refreshRef => SlotOf(c) \in Kept
        BY <2>1, <3>2, <4>3, SlotType DEF RefResolves
      <4>. QED
        BY <2>0, <2>1, <4>2, <4>3, <4>4, RowStep
    <3>. QED
      BY <3>1, <3>2
  <2>3. TypeOK'
    BY <1>8, <2>2 DEF Save, Insert
  <2>5. pc[c] = "saving" /\ (Goes(c, "done") \/ Goes(c, "refused"))
    BY <1>8 DEF Save, Insert
  <2>6. UNCHANGED <<issued, used, vault, seen, unresolved, met>>
    BY <1>8 DEF Save
  <2>7. Stored'
    BY <2>0, <2>5, NothingTaken
  <2>8. Claimed'
    BY <2>5, <2>6
  <2>9. Overlapped'
    BY <2>5, <2>6
  <2>10. Asked'
    BY <2>5, <2>6
  <2>. QED
    BY <2>2, <2>3, <2>7, <2>8, <2>9, <2>10
<1>9. ASSUME NEW r \in Creator, Create(r) PROVE IInv'
  BY <1>9, NothingTaken, ConnectionAssumption DEF Create, Meets, Active
<1>10. ASSUME NEW r \in Creator, InsertConnection(r) PROVE IInv'
  <2>. r \in Request
    OBVIOUS
  <2>0. UNCHANGED <<vault, seen, lost, refresh>>
    BY <1>10 DEF InsertConnection
  <2>1. pc[r] = "saving" => vault[SlotOf(r)] # None
    BY DEF Stored
  <2>2. row' \in [Slot -> Row \cup {None}] /\ RefResolves' /\ SeenExists'
    <3>1. [ref |-> pc[r] = "saving", refreshRef |-> FALSE, by |-> r] \in Row
      BY DEF Row
    <3>2. Insert(r, [ref |-> pc[r] = "saving", refreshRef |-> FALSE, by |-> r])
      BY <1>10 DEF InsertConnection
    <3>. QED
      BY <2>0, <2>1, <3>1, <3>2, InsertStep
  <2>3. TypeOK'
    BY <1>10, <2>2 DEF InsertConnection, Insert
  <2>5. Goes(r, "done") \/ Goes(r, "refused")
    BY <1>10 DEF InsertConnection, Insert
  <2>6. UNCHANGED <<issued, used, vault, seen, unresolved, met>> /\ r \notin Callback
    BY <1>10, ConnectionAssumption DEF InsertConnection
  <2>7. Stored'
    BY <2>0, <2>5, NothingTaken
  <2>8. Claimed'
    BY <2>5, <2>6
  <2>9. Overlapped'
    BY <2>5, <2>6
  <2>10. Asked'
    BY <2>5, <2>6
  <2>. QED
    BY <2>2, <2>3, <2>7, <2>8, <2>9, <2>10
<1>11. ASSUME NEW r \in Request, Store(r) PROVE IInv'
  BY <1>11, StoreStep
<1>12. ASSUME NEW r \in Request, Die(r) PROVE IInv'
  BY <1>12, NothingTaken, ConnectionAssumption DEF Die, Active
<1>13. CASE UNCHANGED vars
  BY <1>13, NothingTaken DEF vars
<1>. QED
  BY <1>1, <1>2, <1>3, <1>4, <1>5, <1>6, <1>7, <1>8, <1>9, <1>10, <1>11, <1>12, <1>13 DEF Next

(* The inductive invariant holds of every behaviour. *)
THEOREM Invariant == Spec => []IInv
  BY InitInv, StepInv, PTL DEF Spec

(* Every variable keeps its type. *)
THEOREM ConnectionTypeCorrect == Spec => []TypeOK
<1>1. IInv => TypeOK
  BY DEF IInv
<1>. QED
  BY Invariant, <1>1, PTL

(* A committed reference always leads to a secret in Vault, whichever calls *)
(* failed and wherever a request stopped; and to a refresh token, if it is  *)
(* one to that, until a store drops it.                                     *)
THEOREM EveryRefResolves == Spec => []RefResolves
<1>1. IInv => RefResolves
  BY DEF IInv
<1>. QED
  BY Invariant, <1>1, PTL

(* Two callbacks with one state both save a connection only if they        *)
(* overlapped: after the commit of used_at a replay is refused.            *)
THEOREM NoReplay == Spec => []ReplayRefused
<1>1. IInv => ReplayRefused
  BY DEF IInv, Overlapped, Past, ReplayRefused
<1>. QED
  BY Invariant, <1>1, PTL

-----------------------------------------------------------------------------
(* What is in Vault and in the row, and who put it there. *)

(* Requests that are at work on a slot at the same time have met. *)
Acquainted ==
  \A r, x \in Request :
    r # x /\ Active(r) /\ Active(x) /\ SlotOf(r) = SlotOf(x) => {r, x} \in met

(* A secret's author has stored it, for its own slot. *)
Authored ==
  \A s \in Slot : vault[s] # None =>
    /\ SlotOf(vault[s].access) = s
    /\ pc[vault[s].access] \in {"saving"} \cup Over

(* A request that has stored its secret finds it there when it saves, or    *)
(* one of a request it has met.                                             *)
Witnessed ==
  \A r \in Request : pc[r] = "saving" =>
    LET author == vault[SlotOf(r)].access IN author = r \/ {author, r} \in met

(* A callback that has read the row, and not yet saved it. *)
HasRead(c) == seen[c] # None /\ pc[c] \in {"loaded", "carrying", "storing", "saving"}

(* What the row describes is what the callback read, or has been committed  *)
(* since, by one it has met.                                                *)
Renewed ==
  \A c \in Callback : HasRead(c) =>
    LET now == row[SlotOf(c)]
    IN now.by = seen[c].by \/ (now.ref /\ {now.by, c} \in met)

(* A callback that saw the reference stores a refresh token, unless Vault   *)
(* did not give it out.                                                     *)
Carried ==
  \A c \in Callback :
    SawRefresh(c) /\ pc[c] = "storing" => refresh[c] # None \/ c \in unresolved

(* What a callback had seen when it dropped a token it does not forget. *)
Dropped ==
  \A l \in lost :
    \/ l.by \in Creator \cup unresolved
    \/ ~SawRefresh(l.by) /\ pc[l.by] \in {"saving"} \cup Over

JInv ==
  /\ IInv
  /\ Acquainted
  /\ Authored
  /\ Witnessed
  /\ Renewed
  /\ Carried
  /\ Dropped
  /\ RowDescribesSecret

LEMMA InitAuthors == Init => JInv
<1>. SUFFICES ASSUME Init PROVE JInv
  OBVIOUS
<1>1. IInv
  BY InitInv
<1>2. Acquainted /\ Witnessed /\ Renewed /\ Carried /\ Dropped
  BY DEF Init, Acquainted, Active, Witnessed, Renewed, HasRead, Carried, Dropped, Request
<1>3. Authored /\ RowDescribesSecret
  BY DEF Init, Authored, RowDescribesSecret
<1>. QED
  BY <1>1, <1>2, <1>3 DEF JInv

(* Requests become active only by meeting the ones that are. *)
LEMMA StepAcquainted == JInv /\ [Next]_vars => Acquainted'
<1>. SUFFICES ASSUME JInv, [Next]_vars PROVE Acquainted'
  OBVIOUS
<1>0. pc \in [Request -> Where] /\ Acquainted
  BY DEF JInv, IInv, TypeOK
<1>1. ASSUME met \subseteq met', \A x \in Request : Active(x)' => Active(x) PROVE Acquainted'
  BY <1>0, <1>1 DEF Acquainted, SlotOf
<1>2. ASSUME NEW r \in Request, Meets(r), NEW where, Goes(r, where), ~Active(r) PROVE Acquainted'
  <2>1. \A x \in Request \ {r} : Active(x)' <=> Active(x)
    BY <1>0, <1>2 DEF Goes, Active
  <2>2. met \subseteq met' /\ \A x \in Request :
          Active(x) /\ SlotOf(x) = SlotOf(r) => {r, x} \in met'
    BY <1>2 DEF Meets
  <2>3. ASSUME NEW y \in Request, NEW x \in Request, y # x, Active(y)', Active(x)',
               SlotOf(y) = SlotOf(x)
        PROVE  {y, x} \in met'
    <3>1. CASE y = r
      BY <2>1, <2>2, <2>3, <3>1
    <3>2. CASE x = r
      <4>1. {r, y} \in met' /\ {r, y} = {y, x}
        BY <2>1, <2>2, <2>3, <3>2
      <4>. QED
        BY <4>1
    <3>3. CASE y # r /\ x # r
      BY <1>0, <2>1, <2>2, <2>3, <3>3 DEF Acquainted
    <3>. QED
      BY <3>1, <3>2, <3>3
  <2>. QED
    BY <2>3 DEF Acquainted, SlotOf
<1>3. ASSUME NEW c \in Callback, Check(c) PROVE Acquainted'
  <2>1. CASE Goes(c, "refused") /\ UNCHANGED met
    BY <1>0, <1>1, <2>1 DEF Goes, Active, Over, Request
  <2>2. CASE Goes(c, "checked") /\ Meets(c)
    BY <1>2, <1>3, <2>2 DEF Check, Active, Request
  <2>. QED
    BY <1>3, <2>1, <2>2 DEF Check
<1>4. ASSUME NEW r \in Creator, Create(r) PROVE Acquainted'
  BY <1>2, <1>4 DEF Create, Active, Request
<1>5. ASSUME NEW r \in Request, NEW where, Goes(r, where), Active(r), met' = met PROVE Acquainted'
  BY <1>0, <1>1, <1>5 DEF Goes, Active
<1>6. ASSUME NEW r \in Request, Store(r) \/ Die(r) PROVE Acquainted'
  BY <1>5, <1>6 DEF Store, Die, Active, Over
<1>7. ASSUME NEW c \in Callback, Claim(c) \/ Load(c) \/ Exchange(c) \/ Carry(c) \/ Save(c)
      PROVE  Acquainted'
  BY <1>5, <1>7 DEF Claim, Load, Exchange, Carry, Save, Insert, Active, Over, Request
<1>8. ASSUME NEW r \in Creator, InsertConnection(r) PROVE Acquainted'
  BY <1>5, <1>8 DEF InsertConnection, Insert, Active, Over, Request
<1>9. ASSUME UNCHANGED <<pc, met>> PROVE Acquainted'
  BY <1>0, <1>9 DEF Acquainted, Active, SlotOf
<1>. QED
  BY <1>3, <1>4, <1>6, <1>7, <1>8, <1>9 DEF Next, vars, StartOauth, Expire

(* A row that was read is updated only by requests at work next to the      *)
(* reader: nothing is inserted where there is a row.                        *)
LEMMA StepRenewed == JInv /\ [Next]_vars => Renewed'
<1>. SUFFICES ASSUME JInv, [Next]_vars PROVE Renewed'
  OBVIOUS
<1>0. /\ Acquainted /\ Renewed /\ SeenExists
      /\ pc \in [Request -> Where] /\ seen \in [Request -> Row \cup {None}]
      /\ row \in [Slot -> Row \cup {None}]
      /\ \A c \in Callback : c \in Request
  BY DEF JInv, IInv, TypeOK, Request
<1>1. ASSUME row' = row, seen' = seen, met \subseteq met',
             \A c \in Callback : HasRead(c)' => HasRead(c)
      PROVE  Renewed'
  BY <1>0, <1>1 DEF Renewed, SlotOf
<1>2. ASSUME NEW r \in Request, NEW where, Goes(r, where), UNCHANGED <<row, seen>>, met \subseteq met',
             where \in {"loaded", "carrying", "storing", "saving"} =>
               r \notin Callback \/ pc[r] \in {"loaded", "carrying", "storing"}
      PROVE  Renewed'
  BY <1>0, <1>1, <1>2 DEF Goes, HasRead
<1>3. ASSUME NEW c \in Callback, Load(c) PROVE Renewed'
  <2>1. /\ UNCHANGED <<row, met>> /\ seen'[c] = row[SlotOf(c)]
        /\ \A d \in Callback \ {c} : pc'[d] = pc[d] /\ seen'[d] = seen[d]
    BY <1>0, <1>3 DEF Load, Goes
  <2>. QED
    BY <1>0, <2>1 DEF Renewed, HasRead, SlotOf
<1>4. ASSUME NEW c \in Callback, Save(c) PROVE Renewed'
  <2>1. /\ pc[c] = "saving" /\ UNCHANGED <<seen, met>> /\ pc'[c] \in Over
        /\ \A d \in Callback \ {c} : pc'[d] = pc[d]
    BY <1>0, <1>4 DEF Save, Insert, Goes, Over
  <2>2. ASSUME NEW d \in Callback, HasRead(d)'
        PROVE  LET now == row'[SlotOf(d)]
               IN now.by = seen'[d].by \/ (now.ref /\ {now.by, d} \in met')
    <3>1. d # c /\ HasRead(d) /\ row[SlotOf(d)] # None
      BY <1>0, <2>1, <2>2 DEF HasRead, SeenExists, Over
    <3>2. CASE row'[SlotOf(d)] = row[SlotOf(d)]
      BY <1>0, <2>1, <3>1, <3>2 DEF Renewed
    <3>3. CASE row'[SlotOf(d)] # row[SlotOf(d)]
      <4>1. SlotOf(d) = SlotOf(c) /\ seen[c] # None
        BY <1>0, <1>4, <3>1, <3>3, SlotType DEF Save, Insert
      <4>2. PICK new \in Updated(c, row[SlotOf(c)]) : row' = [row EXCEPT ![SlotOf(c)] = new]
        BY <1>4, <4>1 DEF Save
      <4>3. /\ row'[SlotOf(d)].by \in {c, row[SlotOf(d)].by}
            /\ row'[SlotOf(d)].ref
        BY <1>0, <4>1, <4>2, SlotType DEF Updated, UpdatedBy
      <4>4. Active(c) /\ Active(d)
        BY <2>1, <3>1 DEF Active, HasRead, Over
      <4>5. {c, d} \in met
        BY <1>0, <3>1, <4>1, <4>4 DEF Acquainted
      <4>. QED
        BY <1>0, <2>1, <3>1, <4>3, <4>5 DEF Renewed
    <3>. QED
      BY <3>2, <3>3
  <2>. QED
    BY <2>2 DEF Renewed, SlotOf
<1>5. ASSUME NEW r \in Creator, InsertConnection(r) PROVE Renewed'
  <2>1. /\ UNCHANGED <<seen, met>> /\ \E where \in Over : Goes(r, where)
        /\ \A s \in Slot : row[s] # None => row'[s] = row[s]
    BY <1>0, <1>5 DEF InsertConnection, Insert, Over, Request
  <2>2. \A c \in Callback : HasRead(c)' => HasRead(c)
    BY <1>0, <2>1 DEF HasRead, Goes, Over
  <2>3. \A c \in Callback : HasRead(c) => row'[SlotOf(c)] = row[SlotOf(c)]
    BY <1>0, <2>1, SlotType DEF HasRead, SeenExists
  <2>. QED
    BY <1>0, <2>1, <2>2, <2>3 DEF Renewed, SlotOf
<1>6. ASSUME NEW c \in Callback, Check(c) \/ Claim(c) \/ Exchange(c) \/ Carry(c) PROVE Renewed'
  <2>1. /\ UNCHANGED <<row, seen>> /\ met \subseteq met'
        /\ \/ \E where \in {"refused", "checked", "claimed"} : Goes(c, where)
           \/ pc[c] \in {"loaded", "carrying"}
              /\ \E where \in {"refused", "carrying", "storing"} : Goes(c, where)
    BY <1>6 DEF Check, Claim, Exchange, Carry, Meets
  <2>. QED
    BY <1>0, <1>2, <2>1
<1>7. ASSUME NEW r \in Creator, Create(r) PROVE Renewed'
  <2>1. /\ UNCHANGED <<row, seen>> /\ met \subseteq met' /\ r \in Request /\ r \notin Callback
        /\ Goes(r, "storing") \/ Goes(r, "bare")
    BY <1>7, ConnectionAssumption DEF Create, Meets, Request
  <2>. QED
    BY <1>2, <2>1
<1>8. ASSUME NEW r \in Request, Store(r) \/ Die(r) PROVE Renewed'
  <2>1. /\ UNCHANGED <<row, seen, met>>
        /\ (pc[r] = "storing" /\ Goes(r, "saving")) \/ Goes(r, "refused")
    BY <1>8 DEF Store, Die, AfterVaultError
  <2>. QED
    BY <1>2, <2>1
<1>9. ASSUME UNCHANGED <<row, seen, pc, met>> PROVE Renewed'
  BY <1>1, <1>9 DEF HasRead
<1>. QED
  BY <1>3, <1>4, <1>5, <1>6, <1>7, <1>8, <1>9 DEF Next, vars, StartOauth, Expire

(* Storing and saving keep the authors apart from those they have not met. *)
LEMMA StepAuthors == JInv /\ [Next]_vars => Authored' /\ Witnessed' /\ RowDescribesSecret'
<1>. SUFFICES ASSUME JInv, [Next]_vars PROVE Authored' /\ Witnessed' /\ RowDescribesSecret'
  OBVIOUS
<1>0. /\ TypeOK /\ TypeOK' /\ Stored /\ RefResolves /\ Acquainted /\ Authored /\ Witnessed
      /\ RowDescribesSecret /\ pc \in [Request -> Where]
      /\ vault \in [Slot -> Secret \cup {None}] /\ row \in [Slot -> Row \cup {None}]
  BY StepInv DEF JInv, IInv, TypeOK
<1>a. \A s \in Slot : vault[s] # None => vault[s].access \in Request
  BY <1>0 DEF Secret
(* Neither stored nor saved. *)
<1>1. ASSUME UNCHANGED <<row, vault>>, met \subseteq met',
             NEW r \in Request, NEW where, where \notin {"saving", "done"}, Goes(r, where),
             pc[r] \notin Over, pc[r] = "saving" => where \in Over
      PROVE  Authored' /\ Witnessed' /\ RowDescribesSecret'
  <2>1. pc'[r] = where /\ \A x \in Request \ {r} : pc'[x] = pc[x]
    BY <1>0, <1>1 DEF Goes
  <2>2. Authored'
    BY <1>0, <1>1, <1>a, <2>1 DEF Authored, SlotOf
  <2>3. Witnessed'
    BY <1>0, <1>1, <2>1 DEF Witnessed, SlotOf
  <2>4. RowDescribesSecret'
    BY <1>0, <1>1, <1>a, <2>1 DEF RowDescribesSecret, RefResolves
  <2>. QED
    BY <2>2, <2>3, <2>4
<1>2. ASSUME NEW r \in Request, Store(r), Write(r) PROVE Authored' /\ Witnessed' /\ RowDescribesSecret'
  <2>1. /\ pc[r] = "storing" /\ pc'[r] \in {"saving", "refused"} /\ row' = row /\ met' = met
        /\ \A x \in Request \ {r} : pc'[x] = pc[x]
    BY <1>0, <1>2 DEF Store, Goes, AfterVaultError
  <2>2. PICK new \in Secret : /\ vault' = [vault EXCEPT ![SlotOf(r)] = new] /\ new.access = r
    <3>1. [access |-> r, refresh |-> refresh[r]] \in Secret
      BY <1>0 DEF Secret, TypeOK
    <3>. QED
      BY <1>2, <3>1 DEF Write
  <2>3. /\ vault'[SlotOf(r)].access = r
        /\ \A s \in Slot \ {SlotOf(r)} : vault'[s] = vault[s]
    BY <1>0, <2>2, SlotType
  <2>4. Authored'
    BY <1>0, <1>a, <2>1, <2>3 DEF Authored, SlotOf, Over
  <2>5. Witnessed'
    <3>1. ASSUME NEW x \in Request, pc'[x] = "saving"
          PROVE  vault'[SlotOf(x)].access = x \/ {vault'[SlotOf(x)].access, x} \in met'
      <4>1. CASE SlotOf(x) = SlotOf(r) /\ x # r
        <5>1. Active(x) /\ Active(r)
          BY <2>1, <3>1, <4>1 DEF Active, Over
        <5>. QED
          BY <1>0, <2>1, <2>3, <4>1, <5>1 DEF Acquainted
      <4>2. CASE SlotOf(x) # SlotOf(r)
        BY <1>0, <2>1, <2>3, <3>1, <4>2, SlotType DEF Witnessed
      <4>. QED
        BY <2>3, <4>1, <4>2
    <3>. QED
      BY <3>1 DEF Witnessed, SlotOf
  <2>6. RowDescribesSecret'
    BY <1>0, <1>a, <2>1, <2>3 DEF RowDescribesSecret, RefResolves, Authored
  <2>. QED
    BY <2>4, <2>5, <2>6
<1>3. ASSUME NEW r \in Request, NEW new \in Row, row' = [row EXCEPT ![SlotOf(r)] = new],
             new.ref => pc[r] = "saving", Goes(r, "done"), UNCHANGED <<vault, met>>,
             LET old == row[SlotOf(r)]
             IN new.by = r \/ (old # None /\ old.ref /\ new.by = old.by /\ {old.by, r} \in met),
             pc[r] \in {"saving", "bare"}, ~new.ref => row[SlotOf(r)] = None
      PROVE  Authored' /\ Witnessed' /\ RowDescribesSecret'
  <2>1. pc'[r] = "done" /\ \A x \in Request \ {r} : pc'[x] = pc[x]
    BY <1>0, <1>3 DEF Goes
  <2>2. row'[SlotOf(r)] = new /\ \A s \in Slot \ {SlotOf(r)} : row'[s] = row[s]
    BY <1>0, <1>3, SlotType
  <2>3. Authored'
    BY <1>0, <1>3, <1>a, <2>1 DEF Authored, SlotOf, Over
  <2>4. Witnessed'
    BY <1>0, <1>3, <2>1 DEF Witnessed, SlotOf
  <2>5. ASSUME NEW s \in Slot, row'[s] # None, row'[s].ref
        PROVE  \/ vault'[s].access = row'[s].by
               \/ pc'[vault'[s].access] # "done"
               \/ {vault'[s].access, row'[s].by} \in met'
    <3>0. CASE s = SlotOf(r) /\ new.by = r
      BY <1>0, <1>3, <2>2, <2>5, <3>0 DEF Witnessed
    <3>1. CASE s = SlotOf(r) /\ new.by # r
      <4>1. row[s] # None /\ row[s].ref /\ row'[s].by = row[s].by /\ {row[s].by, r} \in met
        BY <1>3, <2>2, <3>1
      <4>2. \/ vault[s].access = row[s].by
            \/ pc[vault[s].access] # "done"
            \/ {vault[s].access, row[s].by} \in met
        BY <1>0, <4>1 DEF RowDescribesSecret
      <4>3. vault[s].access \in Request
        BY <1>0, <1>a, <4>1 DEF RefResolves
      <4>4. CASE vault[s].access = r
        BY <1>3, <4>1, <4>4
      <4>5. CASE vault[s].access # r
        BY <1>3, <2>1, <4>1, <4>2, <4>3, <4>5
      <4>. QED
        BY <4>4, <4>5
    <3>2. CASE s # SlotOf(r)
      <4>1. vault[s] # None /\ row'[s] = row[s]
        BY <1>0, <2>2, <2>5, <3>2 DEF RefResolves
      <4>2. vault[s].access # r /\ vault[s].access \in Request
        BY <1>0, <1>a, <3>2, <4>1 DEF Authored
      <4>. QED
        BY <1>0, <1>3, <2>1, <2>5, <4>1, <4>2 DEF RowDescribesSecret
    <3>. QED
      BY <3>0, <3>1, <3>2
  <2>6. RowDescribesSecret'
    BY <2>5 DEF RowDescribesSecret
  <2>. QED
    BY <2>3, <2>4, <2>6
<1>4. ASSUME NEW r \in Request, Store(r), ~Write(r)
      PROVE  Authored' /\ Witnessed' /\ RowDescribesSecret'
  <2>1. Goes(r, "refused") /\ UNCHANGED <<row, vault, met>> /\ pc[r] = "storing"
    BY <1>4 DEF Store, AfterVaultError
  <2>. QED
    BY <1>1, <2>1 DEF Over
<1>5. ASSUME NEW c \in Callback, Check(c) PROVE Authored' /\ Witnessed' /\ RowDescribesSecret'
  <2>1. /\ UNCHANGED <<row, vault>> /\ met \subseteq met' /\ pc[c] = "start"
        /\ Goes(c, "refused") \/ Goes(c, "checked")
    BY <1>5 DEF Check, Meets
  <2>. QED
    BY <1>1, <2>1 DEF Over, Request
<1>6. ASSUME NEW c \in Callback, Claim(c) \/ Load(c) \/ Exchange(c) \/ Carry(c)
      PROVE  Authored' /\ Witnessed' /\ RowDescribesSecret'
  <2>1. /\ UNCHANGED <<row, vault, met>> /\ pc[c] \in {"checked", "claimed", "loaded", "carrying"}
        /\ \E where \in {"claimed", "refused", "loaded", "storing", "carrying"} : Goes(c, where)
    BY <1>6 DEF Claim, Load, Exchange, Carry
  <2>. QED
    BY <1>1, <2>1 DEF Over, Request
<1>7. ASSUME NEW c \in Callback, Save(c) PROVE Authored' /\ Witnessed' /\ RowDescribesSecret'
  <2>0. pc[c] = "saving" /\ c \in Request /\ UNCHANGED <<vault, met>> /\ SlotOf(c) \in Slot
    BY <1>7, SlotType DEF Save, Request
  <2>1. CASE Goes(c, "refused") /\ UNCHANGED row
    BY <1>1, <2>0, <2>1 DEF Over
  <2>2. CASE Goes(c, "done")
    <3>1. PICK new \in Row : /\ row' = [row EXCEPT ![SlotOf(c)] = new]
                             /\ new.ref
                             /\ LET old == row[SlotOf(c)]
                                IN \/ new.by = c
                                   \/ /\ old # None /\ old.ref /\ new.by = old.by
                                      /\ {old.by, c} \in met
      <4>1. CASE seen[c] = None
        <5>. DEFINE inserted == [ref |-> TRUE, refreshRef |-> refresh[c] = c, by |-> c]
        <5>1. inserted \in Row /\ inserted.by = c /\ inserted.ref
          BY <2>0 DEF Row
        <5>2. ~Goes(c, "refused")
          BY <1>0, <2>0, <2>2 DEF Goes
        <5>3. Insert(c, inserted)
          BY <1>7, <4>1 DEF Save
        <5>4. row' = [row EXCEPT ![SlotOf(c)] = inserted]
          BY <5>2, <5>3 DEF Insert
        <5>. QED
          BY <5>1, <5>4
      <4>2. CASE seen[c] # None
        <5>1. row[SlotOf(c)] \in Row
          BY <1>0, <2>0, <4>2 DEF JInv, IInv, SeenExists
        <5>2. PICK new \in Updated(c, row[SlotOf(c)]) : row' = [row EXCEPT ![SlotOf(c)] = new]
          BY <1>7, <4>2 DEF Save
        <5>3. /\ new \in Row /\ new.ref
              /\ new.by = c \/ (new.by = row[SlotOf(c)].by /\ row[SlotOf(c)].by # seen[c].by)
          <6>1. PICK by \in {c} \cup (IF row[SlotOf(c)].by = seen[c].by THEN {}
                                      ELSE {row[SlotOf(c)].by}) :
                  new = UpdatedBy(c, row[SlotOf(c)], by)
            BY <5>2 DEF Updated
          <6>2. row[SlotOf(c)].by \in Request /\ by \in Request
            BY <2>0, <5>1, <6>1 DEF Row
          <6>3. /\ new.by = by /\ new.ref
                /\ new.refreshRef = (row[SlotOf(c)].refreshRef \/ refresh[c] = c)
            BY <6>1 DEF UpdatedBy
          <6>4. new \in Row
            BY <5>1, <6>1, <6>2 DEF UpdatedBy, Row
          <6>. QED
            BY <6>1, <6>3, <6>4
        <5>4. new.by = c \/ (row[SlotOf(c)].ref /\ {row[SlotOf(c)].by, c} \in met)
          BY <2>0, <4>2, <5>3 DEF JInv, Renewed, HasRead
        <5>5. row[SlotOf(c)] # None
          BY <4>2 DEF JInv, IInv, SeenExists
        <5>. QED
          BY <5>2, <5>3, <5>4, <5>5
      <4>. QED
        BY <4>1, <4>2
    <3>. QED
      BY <1>3, <2>0, <2>2, <3>1
  <2>. QED
    BY <1>7, <2>1, <2>2 DEF Save, Insert
<1>8. ASSUME NEW r \in Creator, Create(r) PROVE Authored' /\ Witnessed' /\ RowDescribesSecret'
  <2>1. /\ UNCHANGED <<row, vault>> /\ met \subseteq met' /\ pc[r] = "start"
        /\ Goes(r, "storing") \/ Goes(r, "bare")
    BY <1>8 DEF Create, Meets
  <2>. QED
    BY <1>1, <2>1 DEF Over, Request
<1>9. ASSUME NEW r \in Creator, InsertConnection(r)
      PROVE  Authored' /\ Witnessed' /\ RowDescribesSecret'
  <2>0. pc[r] \in {"saving", "bare"} /\ r \in Request /\ UNCHANGED <<vault, met>>
    BY <1>9 DEF InsertConnection, Request
  <2>1. CASE Goes(r, "refused") /\ UNCHANGED row
    BY <1>1, <2>0, <2>1 DEF Over
  <2>2. CASE row[SlotOf(r)] = None /\ Goes(r, "done")
             /\ row' = [row EXCEPT ![SlotOf(r)] =
                          [ref |-> pc[r] = "saving", refreshRef |-> FALSE, by |-> r]]
    <3>1. [ref |-> pc[r] = "saving", refreshRef |-> FALSE, by |-> r] \in Row
      BY <2>0 DEF Row
    <3>. QED
      BY <1>3, <2>0, <2>2, <3>1
  <2>. QED
    BY <1>9, <2>1, <2>2 DEF InsertConnection, Insert
<1>10. ASSUME NEW r \in Request, Die(r) PROVE Authored' /\ Witnessed' /\ RowDescribesSecret'
  <2>1. UNCHANGED <<row, vault, met>> /\ pc[r] \notin Over /\ Goes(r, "refused")
    BY <1>10 DEF Die, Active
  <2>. QED
    BY <1>1, <2>1 DEF Over
<1>11. ASSUME UNCHANGED <<row, vault, pc, met>> PROVE Authored' /\ Witnessed' /\ RowDescribesSecret'
  BY <1>0, <1>11 DEF Authored, Witnessed, RowDescribesSecret, SlotOf
<1>. QED
  BY <1>2, <1>4, <1>5, <1>6, <1>7, <1>8, <1>9, <1>10, <1>11 DEF Next, vars, StartOauth, Expire

(* A callback keeps what it saw, and stores what it carries. *)
LEMMA StepDropped == JInv /\ [Next]_vars => Carried' /\ Dropped'
<1>. SUFFICES ASSUME JInv, [Next]_vars PROVE Carried' /\ Dropped'
  OBVIOUS
<1>. USE DEF SawRefresh
<1>0. /\ TypeOK /\ Asked /\ Carried /\ Dropped /\ pc \in [Request -> Where]
      /\ \A c \in Callback : c \in Request /\ c # None
      /\ \A l \in lost : l.by \in Request
  BY ConnectionAssumption DEF JInv, IInv, TypeOK, Request
(* A request that stores nothing now, and goes where nothing is stored. *)
<1>1. ASSUME UNCHANGED <<seen, refresh, unresolved, lost>>,
             NEW r \in Request, NEW where, where # "storing", Goes(r, where),
             pc[r] \in {"saving"} \cup Over => where \in {"saving"} \cup Over
      PROVE  Carried' /\ Dropped'
  <2>1. pc'[r] = where /\ \A x \in Request \ {r} : pc'[x] = pc[x]
    BY <1>0, <1>1 DEF Goes
  <2>2. Carried'
    BY <1>0, <1>1, <2>1 DEF Carried
  <2>3. Dropped'
    BY <1>0, <1>1, <2>1 DEF Dropped
  <2>. QED
    BY <2>2, <2>3
<1>2. ASSUME NEW c \in Callback, Load(c) PROVE Carried' /\ Dropped'
  <2>1. /\ pc[c] = "claimed" /\ pc'[c] = "loaded" /\ UNCHANGED <<refresh, unresolved, lost>>
        /\ \A x \in Request \ {c} : pc'[x] = pc[x] /\ seen'[x] = seen[x]
    BY <1>0, <1>2 DEF Load, Goes, TypeOK
  <2>2. Carried'
    BY <1>0, <2>1 DEF Carried
  <2>3. Dropped'
    BY <1>0, <2>1 DEF Dropped, Over
  <2>. QED
    BY <2>2, <2>3
<1>3. ASSUME NEW c \in Callback, Exchange(c) PROVE Carried' /\ Dropped'
  <2>1. /\ pc[c] = "loaded" /\ UNCHANGED <<seen, unresolved, lost>>
        /\ \A x \in Request \ {c} : pc'[x] = pc[x] /\ refresh'[x] = refresh[x]
        /\ pc'[c] = "storing" => ~SawRefresh(c) \/ refresh'[c] = c
    BY <1>0, <1>3 DEF Exchange, Goes, TypeOK, MustCarry
  <2>2. Carried'
    BY <1>0, <2>1 DEF Carried
  <2>3. Dropped'
    BY <1>0, <2>1 DEF Dropped, Over
  <2>. QED
    BY <2>2, <2>3
<1>4. ASSUME NEW c \in Callback, Carry(c) PROVE Carried' /\ Dropped'
  <2>1. /\ pc[c] = "carrying" /\ UNCHANGED <<seen, lost>> /\ unresolved \subseteq unresolved'
        /\ \A x \in Request \ {c} : pc'[x] = pc[x] /\ refresh'[x] = refresh[x]
        /\ refresh'[c] # None \/ c \in unresolved'
    BY <1>0, <1>4 DEF Carry, Goes, TypeOK, HasRefresh
  <2>2. Carried'
    BY <1>0, <2>1 DEF Carried
  <2>3. Dropped'
    BY <1>0, <2>1 DEF Dropped, Over
  <2>. QED
    BY <2>2, <2>3
<1>5. ASSUME NEW r \in Request, Store(r) PROVE Carried' /\ Dropped'
  <2>1. /\ pc[r] = "storing" /\ pc'[r] \in {"saving", "refused"}
        /\ UNCHANGED <<seen, refresh, unresolved>>
        /\ \A x \in Request \ {r} : pc'[x] = pc[x]
    BY <1>0, <1>5 DEF Store, Goes, AfterVaultError
  <2>2. \A l \in lost' : l \in lost \/ (l.by = r /\ refresh[r] = None)
    BY <1>5 DEF Store, Write
  <2>3. r \in Creator \cup unresolved \/ ~SawRefresh(r) \/ refresh[r] # None
    BY <1>0, <2>1 DEF Carried, Request
  <2>4. Carried'
    BY <1>0, <2>1 DEF Carried
  <2>5. ASSUME NEW l \in lost'
        PROVE  \/ l.by \in Creator \cup unresolved'
               \/ ~SawRefresh(l.by)' /\ pc'[l.by] \in {"saving"} \cup Over
    <3>1. CASE l \in lost
      BY <1>0, <2>1, <3>1 DEF Dropped, Over
    <3>2. CASE l.by = r /\ refresh[r] = None
      BY <2>1, <2>3, <3>2 DEF Over
    <3>. QED
      BY <2>2, <2>5, <3>1, <3>2
  <2>6. Dropped'
    BY <2>5 DEF Dropped
  <2>. QED
    BY <2>4, <2>6
<1>6. ASSUME NEW c \in Callback, Check(c) \/ Claim(c) \/ Save(c) PROVE Carried' /\ Dropped'
  <2>1. /\ UNCHANGED <<seen, refresh, unresolved, lost>> /\ c \in Request
        /\ \/ pc[c] \in {"start", "checked"} /\ \E where \in {"refused", "checked", "claimed"} : Goes(c, where)
           \/ \E where \in Over : Goes(c, where)
    BY <1>6 DEF Check, Claim, Save, Insert, Request, Over
  <2>. QED
    BY <1>1, <2>1 DEF Over
<1>7. ASSUME NEW r \in Creator, Create(r) PROVE Carried' /\ Dropped'
  <2>1. /\ UNCHANGED <<seen, refresh, unresolved, lost>> /\ r \in Request /\ r \notin Callback
        /\ \A x \in Request \ {r} : pc'[x] = pc[x]
    BY <1>0, <1>7, ConnectionAssumption DEF Create, Goes, Request
  <2>2. Carried'
    BY <1>0, <2>1 DEF Carried
  <2>3. Dropped'
    BY <1>0, <2>1 DEF Dropped
  <2>. QED
    BY <2>2, <2>3
<1>8. ASSUME NEW r \in Creator, InsertConnection(r) PROVE Carried' /\ Dropped'
  <2>1. /\ UNCHANGED <<seen, refresh, unresolved, lost>> /\ r \in Request
        /\ Goes(r, "done") \/ Goes(r, "refused")
    BY <1>8 DEF InsertConnection, Insert, Request
  <2>. QED
    BY <1>1, <2>1 DEF Over
<1>9. ASSUME NEW r \in Request, Die(r) PROVE Carried' /\ Dropped'
  <2>1. Goes(r, "refused") /\ UNCHANGED <<seen, refresh, unresolved, lost>>
    BY <1>9 DEF Die
  <2>. QED
    BY <1>1, <2>1 DEF Over
<1>10. ASSUME UNCHANGED <<pc, seen, refresh, unresolved, lost>> PROVE Carried' /\ Dropped'
  BY <1>0, <1>10 DEF Carried, Dropped
<1>. QED
  BY <1>2, <1>3, <1>4, <1>5, <1>6, <1>7, <1>8, <1>9, <1>10 DEF Next, vars, StartOauth, Expire

LEMMA StepRows == JInv /\ [Next]_vars => JInv'
BY StepInv, StepAcquainted, StepRenewed, StepAuthors, StepDropped DEF JInv

(* A refresh token is dropped only by a request that never saw a reference  *)
(* to it, or to which Vault did not give it.                                *)
THEOREM RefreshTokenIsKept == Spec => []RefreshTokenKept
<1>1. JInv => RefreshTokenKept
  BY DEF JInv, Dropped, RefreshTokenKept
<1>. QED
  BY InitAuthors, StepRows, <1>1, PTL DEF Spec

(* A row describes the token in Vault but for requests that overlap, or     *)
(* stop between the two writes.                                             *)
THEOREM RowsDescribeSecrets == Spec => []RowDescribesSecret
<1>1. JInv => RowDescribesSecret
  BY DEF JInv
<1>. QED
  BY InitAuthors, StepRows, <1>1, PTL DEF Spec
=============================================================================
