--------------------------- MODULE WebhooksProofs ---------------------------
(***************************************************************************)
(* Proofs about Webhooks for any endpoints, coroutines, tries and rows.    *)
(***************************************************************************)
EXTENDS Webhooks, TLAPS

SlotRows == [phase : {"idle", "posting", "settling", "pruning"}, row : HookRows \cup {NoRow},
             try : 0..HookTries, ok : BOOLEAN]

HookTypes ==
  /\ hookEndpoint \in [HookEndpoints -> {"active", "inactive", "gone"}]
  /\ hookRow \in [HookRows -> {"none", "pending", "delivered", "failed", "deleted"}]
  /\ hookEmit \in {"idle", "inserted", "sending"}
  /\ hookUnsent \subseteq HookRows /\ hookQueue \subseteq HookRows
  /\ hookTasks \subseteq HookRows
  /\ hookGot \subseteq HookRows /\ hookCut \subseteq HookRows
  /\ hookSlot \in [HookSlots -> SlotRows]
  /\ hookToggles \in 0..MaxHookToggles /\ hookFaults \in 0..MaxHookFaults
  /\ hookPosts \in [HookRows -> Nat]

(* A slot that is at work has a row. *)
SlotsHaveRows == \A w \in HookSlots : hookSlot[w].phase # "idle" => hookSlot[w].row \in HookRows

(* The type invariant with its slot type named. *)
LEMMA HookTypeIs == HookTypeOK <=> HookTypes
BY DEF HookTypeOK, HookTypes, SlotRows

(* The bounds are numbers. *)
LEMMA HookNumbers ==
  /\ HookTries \in Nat /\ HookTries > 0 /\ MaxHookToggles \in Nat /\ MaxHookFaults \in Nat
BY HookConstants

(* The rows of an idle slot and of one that begins. *)
LEMMA SlotFacts ==
  /\ HookIdle \in SlotRows
  /\ \A d \in HookRows : [phase |-> "posting", row |-> d, try |-> 1, ok |-> FALSE] \in SlotRows
BY HookNumbers DEF HookIdle, SlotRows

(* One slot that gets another row. *)
LEMMA SlotType ==
  ASSUME HookTypes, SlotsHaveRows, NEW w \in HookSlots, NEW r \in SlotRows,
         r.phase # "idle" => r.row \in HookRows, hookSlot' = [hookSlot EXCEPT ![w] = r]
  PROVE  hookSlot' \in [HookSlots -> SlotRows] /\ SlotsHaveRows'
BY DEF HookTypes, SlotsHaveRows

(* The initial state is well typed. *)
LEMMA HookInitType == HookInit => HookTypeOK /\ SlotsHaveRows
<1>. SUFFICES ASSUME HookInit PROVE HookTypes /\ SlotsHaveRows
  BY HookTypeIs
<1>1. hookSlot \in [HookSlots -> SlotRows] /\ SlotsHaveRows
  BY SlotFacts DEF HookInit, HookIdle, SlotsHaveRows
<1>2. hookToggles \in 0..MaxHookToggles /\ hookFaults \in 0..MaxHookFaults
  BY HookNumbers DEF HookInit
<1>. QED
  BY <1>1, <1>2 DEF HookInit, HookTypes

(* Every step keeps the types. *)
LEMMA HookStepType ==
  HookTypeOK /\ SlotsHaveRows /\ [HookNext]_hookVars => HookTypeOK' /\ SlotsHaveRows'
<1>. SUFFICES ASSUME HookTypes, SlotsHaveRows, [HookNext]_hookVars
              PROVE  HookTypes' /\ SlotsHaveRows'
  <2>1. HookTypes' => HookTypeOK'
    BY DEF HookTypeOK, HookTypes, SlotRows
  <2>. QED
    BY <2>1, HookTypeIs
<1>0. /\ \A w \in HookSlots : hookSlot[w] \in SlotRows
      /\ UNCHANGED hookSlot => hookSlot' \in [HookSlots -> SlotRows] /\ SlotsHaveRows'
  BY DEF HookTypes, SlotsHaveRows
<1>. DEFINE Slots == hookSlot' \in [HookSlots -> SlotRows] /\ SlotsHaveRows'
<1>. USE HookNumbers DEF hookHistory, hookBounds
<1>1. CASE HookRefresh
  BY <1>0, <1>1 DEF HookRefresh, HookTypes
<1>2. ASSUME NEW d \in HookRows, NEW redis \in BOOLEAN, HookHandOver(d, redis)
      PROVE  HookTypes' /\ SlotsHaveRows'
  BY <1>0, <1>2 DEF HookHandOver, HookTypes
<1>3. ASSUME NEW w \in HookSlots, NEW d \in HookRows, HookTake(w, d)
      PROVE  HookTypes' /\ SlotsHaveRows'
  <2>1. hookRow' \in [HookRows -> {"none", "pending", "delivered", "failed", "deleted"}]
    BY <1>3 DEF HookTake, HookBegin, HookTypes
  <2>2. Slots
    BY <1>0, <1>3, SlotFacts, SlotType DEF HookTake, HookBegin
  <2>. QED
    BY <1>3, <2>1, <2>2 DEF HookTake, HookTypes
<1>4. ASSUME NEW w \in HookSlots, NEW a \in BOOLEAN, NEW b \in BOOLEAN, HookPost(w, a, b)
      PROVE  HookTypes' /\ SlotsHaveRows'
  <2>1. hookSlot[w].row \in HookRows
    BY <1>4 DEF HookPost, SlotsHaveRows
  <2>2. /\ [hookSlot[w] EXCEPT !.phase = "settling", !.ok = TRUE] \in SlotRows
        /\ [hookSlot[w] EXCEPT !.phase = "settling"] \in SlotRows
        /\ HasTriesLeft(hookSlot[w].try) => [hookSlot[w] EXCEPT !.try = @ + 1] \in SlotRows
    <3>1. HasTriesLeft(hookSlot[w].try) => hookSlot[w].try + 1 \in 0..HookTries
      BY <1>0 DEF SlotRows, HasTriesLeft
    <3>. QED
      BY <1>0, <3>1 DEF SlotRows
  <2>3. \E r \in SlotRows : r.row = hookSlot[w].row /\ hookSlot' = [hookSlot EXCEPT ![w] = r]
    BY <1>0, <1>4, <2>2 DEF HookPost, SlotRows
  <2>4. Slots
    BY <2>1, <2>3, SlotType
  <2>5. hookPosts' \in [HookRows -> Nat] /\ hookGot' \subseteq HookRows
    BY <1>4, <2>1 DEF HookPost, HookTypes
  <2>. QED
    BY <1>4, <2>4, <2>5 DEF HookPost, HookTypes
<1>5. ASSUME NEW w \in HookSlots, HookSettle(w)
      PROVE  HookTypes' /\ SlotsHaveRows'
  <2>1. hookSlot[w].row \in HookRows
    BY <1>5 DEF HookSettle, SlotsHaveRows
  <2>2. [hookSlot[w] EXCEPT !.phase = "pruning"] \in SlotRows
        /\ [hookSlot[w] EXCEPT !.phase = "pruning"].row = hookSlot[w].row
    BY <1>0 DEF SlotRows
  <2>3. Slots
    BY <1>5, <2>1, <2>2, SlotFacts, SlotType DEF HookSettle, HookIdle
  <2>4. hookRow' \in [HookRows -> {"none", "pending", "delivered", "failed", "deleted"}]
    BY <1>5 DEF HookSettle, HookTypes
  <2>. QED
    BY <1>5, <2>3, <2>4 DEF HookSettle, HookTypes
<1>6. ASSUME NEW w \in HookSlots, HookPrune(w)
      PROVE  HookTypes' /\ SlotsHaveRows'
  <2>1. Slots
    BY <1>6, SlotFacts, SlotType DEF HookPrune, HookIdle
  <2>2. hookRow' \in [HookRows -> {"none", "pending", "delivered", "failed", "deleted"}]
    BY <1>6 DEF HookPrune, HookTypes
  <2>. QED
    BY <1>6, <2>1, <2>2 DEF HookPrune, HookTypes
<1>7. ASSUME NEW D \in SUBSET HookRows, HookEmit(D)
      PROVE  HookTypes' /\ SlotsHaveRows'
  BY <1>0, <1>7 DEF HookEmit, HookTypes
<1>8. ASSUME NEW w \in HookSlots, NEW d \in HookRows, HookTest(w, d)
      PROVE  HookTypes' /\ SlotsHaveRows'
  <2>1. Slots
    <3>1. \/ UNCHANGED hookSlot
          \/ hookSlot' = [hookSlot EXCEPT ![w] =
                            [phase |-> "posting", row |-> d, try |-> 1, ok |-> FALSE]]
      BY <1>8 DEF HookTest
    <3>2. CASE UNCHANGED hookSlot
      BY <3>2 DEF HookTypes, SlotsHaveRows
    <3>. QED
      BY <3>1, <3>2, SlotFacts, SlotType
  <2>2. hookRow' \in [HookRows -> {"none", "pending", "delivered", "failed", "deleted"}]
    BY <1>8 DEF HookTest, HookTypes
  <2>. QED
    BY <1>8, <2>1, <2>2 DEF HookTest, HookTypes
<1>9. ASSUME NEW e \in HookEndpoints, HookToggle(e)
      PROVE  HookTypes' /\ SlotsHaveRows'
  BY <1>0, <1>9 DEF HookToggle, HookTypes
<1>10. ASSUME NEW e \in HookEndpoints, HookDelete(e)
      PROVE  HookTypes' /\ SlotsHaveRows'
  BY <1>0, <1>10 DEF HookDelete, HookTypes
<1>11. CASE HookKillWorker
  <2>1. Slots
    BY <1>11, SlotFacts DEF HookKillWorker, HookTypes, SlotsHaveRows, HookIdle
  <2>2. hookQueue' \subseteq HookRows
    BY <1>11 DEF HookKillWorker, HookReruns, HookTypes, SlotsHaveRows, HookSlots
  <2>. QED
    BY <1>11, <2>1, <2>2 DEF HookKillWorker, HookTypes
<1>12. CASE HookKillApi
  <2>1. Slots
    BY <1>12, SlotFacts DEF HookKillApi, HookTypes, SlotsHaveRows, HookIdle
  <2>2. hookCut' \subseteq HookRows
    BY <1>12 DEF HookKillApi, HookTypes, SlotsHaveRows, HookSlots
  <2>. QED
    BY <1>12, <2>1, <2>2 DEF HookKillApi, HookTypes
<1>13. CASE UNCHANGED hookVars
  BY <1>0, <1>13 DEF hookVars, HookTypes
<1>. QED
  BY <1>1, <1>2, <1>3, <1>4, <1>5, <1>6, <1>7, <1>8, <1>9, <1>10, <1>11, <1>12, <1>13
     DEF HookNext, HookRun, HookAsked

(* Rows, endpoints, queues and coroutines stay well typed.                 *)
THEOREM HookTypeCorrect == HookSpec => []HookTypeOK
<1>. QED
  BY HookInitType, HookStepType, PTL DEF HookSpec

-----------------------------------------------------------------------------
(* One carrier for each row.                                               *)

Waits(d)    == d \in hookUnsent \cup hookQueue \cup hookTasks
Holds(w, d) == hookSlot[w].phase # "idle" /\ hookSlot[w].row = d

(* What killed processes may add to the POSTs of a row.                    *)
Paid == HookTries * hookFaults

(* A row that was not written is nobody's; another is in one place.        *)
Alone(d) ==
  /\ hookRow[d] = "none" => hookPosts[d] = 0 /\ ~Waits(d) /\ \A w \in HookSlots : ~Holds(w, d)
  /\ ~(d \in hookUnsent /\ d \in hookQueue) /\ ~(d \in hookUnsent /\ d \in hookTasks)
  /\ ~(d \in hookQueue /\ d \in hookTasks)
  /\ \A w \in HookSlots : Holds(w, d) => ~Waits(d)
  /\ \A w, v \in HookSlots : Holds(w, d) /\ Holds(v, d) => w = v

(* What the row says while a slot has it.                                  *)
InStep(d) ==
  \A w \in HookSlots : Holds(w, d) =>
    /\ hookSlot[w].phase \in {"posting", "settling"} => hookRow[d] \in {"pending", "deleted"}
    /\ hookSlot[w].phase = "pruning" => hookRow[d] \in {"delivered", "failed", "deleted"}
    /\ hookSlot[w].ok => d \in hookGot

(* How often it was posted.                                                *)
Counted(d) ==
  /\ hookPosts[d] <= Paid + HookTries
  /\ Waits(d) => hookPosts[d] <= Paid
  /\ \A w \in HookSlots : Holds(w, d) /\ hookSlot[w].phase = "posting" =>
       hookPosts[d] + 1 <= Paid + hookSlot[w].try

Kept(d) ==
  /\ hookRow[d] = "delivered" => d \in hookGot
  /\ hookRow[d] = "pending" =>
       Waits(d) \/ d \in hookCut \/ \E w \in HookSlots : Holds(w, d)

HookInv ==
  /\ hookEmit = "idle" => hookUnsent = {}
  /\ \A d \in HookRows : Alone(d) /\ InStep(d) /\ Counted(d) /\ Kept(d)

(* What killed processes add is a number, and grows with each of them. *)
LEMMA PaidFacts ==
  ASSUME HookTypes
  PROVE  /\ Paid \in Nat
         /\ UNCHANGED hookFaults => Paid' = Paid
         /\ hookFaults' = hookFaults + 1 => Paid' = Paid + HookTries
         /\ HookTries * (1 + hookFaults) = Paid + HookTries
<1>1. hookFaults \in Nat /\ HookTries \in Nat
  BY HookNumbers DEF HookTypes
<1>2. Paid \in Nat
  BY <1>1 DEF Paid
<1>3. HookTries * (hookFaults + 1) = HookTries * hookFaults + HookTries
  BY <1>1
<1>4. HookTries * (1 + hookFaults) = HookTries * hookFaults + HookTries
  BY <1>1
<1>. QED
  BY <1>1, <1>2, <1>3, <1>4 DEF Paid

(* At the start no row was written. *)
LEMMA HookInvInit == HookInit => HookInv
<1>. SUFFICES ASSUME HookInit PROVE HookInv
  OBVIOUS
<1>1. Paid = 0
  BY HookNumbers DEF HookInit, Paid
<1>. QED
  BY <1>1, HookNumbers
     DEF HookInit, HookInv, Alone, InStep, Counted, Kept, Waits, Holds, HookIdle

(* Every step keeps it. *)
LEMMA HookInvStep ==
  HookTypeOK /\ SlotsHaveRows /\ HookInv /\ [HookNext]_hookVars => HookInv'
<1>. SUFFICES ASSUME HookTypes, SlotsHaveRows, HookInv, [HookNext]_hookVars
              PROVE  HookInv'
  BY HookTypeIs
<1>0. /\ \A w \in HookSlots : hookSlot[w] \in SlotRows
      /\ hookSlot \in [HookSlots -> SlotRows]
      /\ hookRow \in [HookRows -> {"none", "pending", "delivered", "failed", "deleted"}]
      /\ hookPosts \in [HookRows -> Nat]
      /\ \A d \in HookRows : Alone(d) /\ InStep(d) /\ Counted(d) /\ Kept(d)
      /\ \A d \in HookRows : hookPosts[d] \in Nat
      /\ hookEmit = "idle" => hookUnsent = {}
  BY DEF HookTypes, HookInv
<1>. DEFINE Good(d) == Alone(d)' /\ InStep(d)' /\ Counted(d)' /\ Kept(d)'
<1>. USE DEF hookHistory, hookBounds
<1>1. CASE HookRefresh
  <2>1. ASSUME NEW k \in HookRows PROVE Alone(k)'
    BY <1>0, <1>1, PaidFacts, HookNumbers DEF HookRefresh, Alone, Waits, Holds
  <2>2. ASSUME NEW k \in HookRows PROVE InStep(k)'
    BY <1>0, <1>1, PaidFacts, HookNumbers DEF HookRefresh, Alone, InStep, Waits, Holds
  <2>3. ASSUME NEW k \in HookRows PROVE Counted(k)'
    BY <1>0, <1>1, PaidFacts, HookNumbers DEF HookRefresh, Alone, Counted, Waits, Holds
  <2>4. ASSUME NEW k \in HookRows PROVE Kept(k)'
    BY <1>0, <1>1, PaidFacts, HookNumbers DEF HookRefresh, Alone, InStep, Kept, Waits, Holds
  <2>5. hookEmit' = "idle" => hookUnsent' = {}
    BY <1>0, <1>1, PaidFacts, HookNumbers DEF HookRefresh
  <2>. QED
    BY <2>1, <2>2, <2>3, <2>4, <2>5 DEF HookInv
<1>2. ASSUME NEW d \in HookRows, NEW redis \in BOOLEAN, HookHandOver(d, redis)
      PROVE  HookInv'
  <2>1. ASSUME NEW k \in HookRows PROVE Alone(k)'
    BY <1>0, <1>2, PaidFacts, HookNumbers DEF HookHandOver, Alone, Waits, Holds
  <2>2. ASSUME NEW k \in HookRows PROVE InStep(k)'
    BY <1>0, <1>2, PaidFacts, HookNumbers DEF HookHandOver, Alone, InStep, Waits, Holds
  <2>3. ASSUME NEW k \in HookRows PROVE Counted(k)'
    BY <1>0, <1>2, PaidFacts, HookNumbers DEF HookHandOver, Alone, Counted, Waits, Holds
  <2>4. ASSUME NEW k \in HookRows PROVE Kept(k)'
    BY <1>0, <1>2, PaidFacts, HookNumbers DEF HookHandOver, Alone, InStep, Kept, Waits,
       Holds
  <2>5. hookEmit' = "idle" => hookUnsent' = {}
    BY <1>0, <1>2, PaidFacts, HookNumbers DEF HookHandOver
  <2>. QED
    BY <2>1, <2>2, <2>3, <2>4, <2>5 DEF HookInv
<1>3. ASSUME NEW w \in HookSlots, NEW d \in HookRows, HookTake(w, d)
      PROVE  HookInv'
  <2>1. ASSUME NEW k \in HookRows PROVE Alone(k)'
    BY <1>0, <1>3, PaidFacts, HookNumbers DEF HookTake, HookBegin, IsStillPending,
       HookIdle, Alone, Waits, Holds
  <2>2. ASSUME NEW k \in HookRows PROVE InStep(k)'
    BY <1>0, <1>3, PaidFacts, HookNumbers DEF HookTake, HookBegin, IsStillPending,
       HookIdle, Alone, InStep, Waits, Holds
  <2>3. ASSUME NEW k \in HookRows PROVE Counted(k)'
    BY <1>0, <1>3, PaidFacts, HookNumbers DEF HookTake, HookBegin, IsStillPending,
       HookIdle, Alone, Counted, Waits, Holds
  <2>4. ASSUME NEW k \in HookRows PROVE Kept(k)'
    BY <1>0, <1>3, PaidFacts, HookNumbers DEF HookTake, HookBegin, IsStillPending,
       HookIdle, Alone, InStep, Kept, Waits, Holds
  <2>5. hookEmit' = "idle" => hookUnsent' = {}
    BY <1>0, <1>3, PaidFacts, HookNumbers DEF HookTake, HookBegin, IsStillPending, HookIdle
  <2>. QED
    BY <2>1, <2>2, <2>3, <2>4, <2>5 DEF HookInv
<1>4. ASSUME NEW w \in HookSlots, NEW a \in BOOLEAN, NEW b \in BOOLEAN, HookPost(w, a, b)
      PROVE  HookInv'
  <2>1. ASSUME NEW k \in HookRows PROVE Alone(k)'
    BY <1>0, <1>4, PaidFacts, HookNumbers DEF HookPost, SlotRows, Alone, Waits, Holds
  <2>2. ASSUME NEW k \in HookRows PROVE InStep(k)'
    BY <1>0, <1>4, PaidFacts, HookNumbers DEF HookPost, SlotRows, Alone, InStep, Waits,
       Holds
  <2>3. ASSUME NEW k \in HookRows PROVE Counted(k)'
    BY <1>0, <1>4, PaidFacts, HookNumbers DEF HookPost, SlotRows, Alone, Counted, Waits,
       Holds
  <2>4. ASSUME NEW k \in HookRows PROVE Kept(k)'
    BY <1>0, <1>4, PaidFacts, HookNumbers DEF HookPost, SlotRows, Alone, InStep, Kept,
       Waits, Holds
  <2>5. hookEmit' = "idle" => hookUnsent' = {}
    BY <1>0, <1>4, PaidFacts, HookNumbers DEF HookPost, SlotRows
  <2>. QED
    BY <2>1, <2>2, <2>3, <2>4, <2>5 DEF HookInv
<1>5. ASSUME NEW w \in HookSlots, HookSettle(w)
      PROVE  HookInv'
  <2>0. /\ \A v \in HookSlots : v # w => hookSlot'[v] = hookSlot[v]
        /\ hookSlot[w].phase = "settling" /\ hookSlot[w].row \in HookRows
        /\ \/ hookSlot'[w] = HookIdle /\ hookRow' = hookRow
           \/ /\ hookSlot'[w] = [hookSlot[w] EXCEPT !.phase = "pruning"]
              /\ hookRow' = [hookRow EXCEPT ![hookSlot[w].row] =
                               IF hookSlot[w].ok THEN "delivered" ELSE "failed"]
        /\ UNCHANGED <<hookUnsent, hookQueue, hookTasks, hookFaults, hookPosts, hookGot>>
    BY <1>0, <1>5 DEF HookSettle, SlotsHaveRows
  <2>6. /\ \A v \in HookSlots, k \in HookRows : Holds(v, k)' => Holds(v, k)
        /\ \A k \in HookRows : Waits(k)' <=> Waits(k)
        /\ \A k \in HookRows : hookRow'[k] = "none" => hookRow[k] = "none"
    BY <1>0, <2>0 DEF Holds, Waits, HookIdle, SlotRows
  <2>1. ASSUME NEW k \in HookRows PROVE Alone(k)'
    BY <1>0, <2>0, <2>6 DEF Alone
  <2>2. ASSUME NEW k \in HookRows PROVE InStep(k)'
    <3>1. ASSUME NEW v \in HookSlots, v # w, Holds(v, k)
          PROVE  hookSlot'[v] = hookSlot[v] /\ hookRow'[k] = hookRow[k]
      BY <1>0, <2>0, <3>1 DEF Alone, Holds
    <3>2. ASSUME Holds(w, k)'
          PROVE  /\ hookSlot'[w].phase = "pruning" /\ hookSlot'[w].ok = hookSlot[w].ok
                 /\ hookRow'[k] \in {"delivered", "failed"} /\ Holds(w, k)
      BY <1>0, <2>0, <2>6, <3>2 DEF Holds, HookIdle, SlotRows
    <3>. QED
      BY <1>0, <2>0, <2>6, <3>1, <3>2 DEF InStep
  <2>3. ASSUME NEW k \in HookRows PROVE Counted(k)'
    <3>1. hookSlot'[w].phase # "posting"
      BY <1>0, <2>0 DEF HookIdle, SlotRows
    <3>. QED
      BY <1>0, <2>0, <2>6, <3>1, PaidFacts DEF Counted
  <2>4. ASSUME NEW k \in HookRows PROVE Kept(k)'
    BY <1>0, <1>5, PaidFacts, HookNumbers DEF HookSettle, HookIdle, Alone, InStep, Kept,
       Waits, Holds
  <2>5. hookEmit' = "idle" => hookUnsent' = {}
    BY <1>0, <1>5, PaidFacts, HookNumbers DEF HookSettle, HookIdle
  <2>. QED
    BY <2>1, <2>2, <2>3, <2>4, <2>5 DEF HookInv
<1>6. ASSUME NEW w \in HookSlots, HookPrune(w)
      PROVE  HookInv'
  <2>1. ASSUME NEW k \in HookRows PROVE Alone(k)'
    BY <1>0, <1>6, PaidFacts, HookNumbers DEF HookPrune, HookIdle, SlotRows, Alone, Waits,
       Holds
  <2>2. ASSUME NEW k \in HookRows PROVE InStep(k)'
    BY <1>0, <1>6, PaidFacts, HookNumbers DEF HookPrune, HookIdle, SlotRows, Alone, InStep,
       Waits, Holds
  <2>3. ASSUME NEW k \in HookRows PROVE Counted(k)'
    BY <1>0, <1>6, PaidFacts, HookNumbers DEF HookPrune, HookIdle, SlotRows, Alone,
       Counted, Waits, Holds
  <2>4. ASSUME NEW k \in HookRows PROVE Kept(k)'
    BY <1>0, <1>6, PaidFacts, HookNumbers DEF HookPrune, HookIdle, SlotRows, Alone, InStep,
       Kept, Waits, Holds
  <2>5. hookEmit' = "idle" => hookUnsent' = {}
    BY <1>0, <1>6, PaidFacts, HookNumbers DEF HookPrune, HookIdle, SlotRows
  <2>. QED
    BY <2>1, <2>2, <2>3, <2>4, <2>5 DEF HookInv
<1>7. ASSUME NEW D \in SUBSET HookRows, HookEmit(D)
      PROVE  HookInv'
  <2>1. ASSUME NEW k \in HookRows PROVE Alone(k)'
    BY <1>0, <1>7, PaidFacts, HookNumbers DEF HookEmit, IsNextRow, Alone, Waits, Holds
  <2>2. ASSUME NEW k \in HookRows PROVE InStep(k)'
    BY <1>0, <1>7, PaidFacts, HookNumbers DEF HookEmit, IsNextRow, Alone, InStep, Waits,
       Holds
  <2>3. ASSUME NEW k \in HookRows PROVE Counted(k)'
    BY <1>0, <1>7, PaidFacts, HookNumbers DEF HookEmit, IsNextRow, Alone, Counted, Waits,
       Holds
  <2>4. ASSUME NEW k \in HookRows PROVE Kept(k)'
    BY <1>0, <1>7, PaidFacts, HookNumbers DEF HookEmit, IsNextRow, Alone, InStep, Kept,
       Waits, Holds
  <2>5. hookEmit' = "idle" => hookUnsent' = {}
    BY <1>0, <1>7, PaidFacts, HookNumbers DEF HookEmit, IsNextRow
  <2>. QED
    BY <2>1, <2>2, <2>3, <2>4, <2>5 DEF HookInv
<1>8. ASSUME NEW w \in HookSlots, NEW d \in HookRows, HookTest(w, d)
      PROVE  HookInv'
  <2>1. ASSUME NEW k \in HookRows PROVE Alone(k)'
    BY <1>0, <1>8, PaidFacts, HookNumbers DEF HookTest, IsNextRow, Alone, Waits, Holds
  <2>2. ASSUME NEW k \in HookRows PROVE InStep(k)'
    BY <1>0, <1>8, PaidFacts, HookNumbers DEF HookTest, IsNextRow, Alone, InStep, Waits,
       Holds
  <2>3. ASSUME NEW k \in HookRows PROVE Counted(k)'
    BY <1>0, <1>8, PaidFacts, HookNumbers DEF HookTest, IsNextRow, Alone, Counted, Waits,
       Holds
  <2>4. ASSUME NEW k \in HookRows PROVE Kept(k)'
    BY <1>0, <1>8, PaidFacts, HookNumbers DEF HookTest, IsNextRow, Alone, InStep, Kept,
       Waits, Holds
  <2>5. hookEmit' = "idle" => hookUnsent' = {}
    BY <1>0, <1>8, PaidFacts, HookNumbers DEF HookTest, IsNextRow
  <2>. QED
    BY <2>1, <2>2, <2>3, <2>4, <2>5 DEF HookInv
<1>9. ASSUME NEW e \in HookEndpoints, HookToggle(e)
      PROVE  HookInv'
  <2>1. ASSUME NEW k \in HookRows PROVE Alone(k)'
    BY <1>0, <1>9, PaidFacts, HookNumbers DEF HookToggle, Alone, Waits, Holds
  <2>2. ASSUME NEW k \in HookRows PROVE InStep(k)'
    BY <1>0, <1>9, PaidFacts, HookNumbers DEF HookToggle, Alone, InStep, Waits, Holds
  <2>3. ASSUME NEW k \in HookRows PROVE Counted(k)'
    BY <1>0, <1>9, PaidFacts, HookNumbers DEF HookToggle, Alone, Counted, Waits, Holds
  <2>4. ASSUME NEW k \in HookRows PROVE Kept(k)'
    BY <1>0, <1>9, PaidFacts, HookNumbers DEF HookToggle, Alone, InStep, Kept, Waits, Holds
  <2>5. hookEmit' = "idle" => hookUnsent' = {}
    BY <1>0, <1>9, PaidFacts, HookNumbers DEF HookToggle
  <2>. QED
    BY <2>1, <2>2, <2>3, <2>4, <2>5 DEF HookInv
<1>10. ASSUME NEW e \in HookEndpoints, HookDelete(e)
      PROVE  HookInv'
  <2>1. ASSUME NEW k \in HookRows PROVE Alone(k)'
    BY <1>0, <1>10, PaidFacts, HookNumbers DEF HookDelete, Alone, Waits, Holds
  <2>2. ASSUME NEW k \in HookRows PROVE InStep(k)'
    BY <1>0, <1>10, PaidFacts, HookNumbers DEF HookDelete, Alone, InStep, Waits, Holds
  <2>3. ASSUME NEW k \in HookRows PROVE Counted(k)'
    BY <1>0, <1>10, PaidFacts, HookNumbers DEF HookDelete, Alone, Counted, Waits, Holds
  <2>4. ASSUME NEW k \in HookRows PROVE Kept(k)'
    BY <1>0, <1>10, PaidFacts, HookNumbers DEF HookDelete, Alone, InStep, Kept, Waits, Holds
  <2>5. hookEmit' = "idle" => hookUnsent' = {}
    BY <1>0, <1>10, PaidFacts, HookNumbers DEF HookDelete
  <2>. QED
    BY <2>1, <2>2, <2>3, <2>4, <2>5 DEF HookInv
<1>11. CASE HookKillWorker
  <2>0. /\ \A v \in HookSlots, k \in HookRows :
             Holds(v, k)' => /\ v \notin HookWorkSlots
                             /\ Holds(v, k) /\ hookSlot'[v] = hookSlot[v]
        /\ \A k \in HookRows : k \in hookQueue' =>
             k \in hookQueue \/ \E v \in HookSlots : Holds(v, k) /\ v \in HookWorkSlots
        /\ UNCHANGED <<hookRow, hookUnsent, hookTasks, hookPosts>>
    BY <1>11 DEF HookKillWorker, HookReruns, Holds, HookIdle, HookSlots
  <2>1. ASSUME NEW k \in HookRows PROVE Alone(k)'
    <3>1. CASE hookRow[k] = "none"
      BY <1>0, <2>0, <3>1 DEF Alone, Waits
    <3>2. CASE hookRow[k] # "none"
      BY <1>0, <2>0, <3>2 DEF Alone, Waits
    <3>. QED
      BY <3>1, <3>2
  <2>2. ASSUME NEW k \in HookRows PROVE InStep(k)'
    BY <1>0, <1>11, PaidFacts, HookNumbers DEF HookKillWorker, HookReruns, HookIdle, Alone,
       InStep, Waits, Holds
  <2>3. ASSUME NEW k \in HookRows PROVE Counted(k)'
    <3>1. hookPosts'[k] <= Paid + HookTries /\ Paid' = Paid + HookTries
      BY <1>0, <1>11, PaidFacts DEF HookKillWorker, Counted
    <3>2. \A v \in HookSlots : hookSlot[v].try \in Nat
      BY <1>0, HookNumbers DEF SlotRows
    <3>3. ASSUME NEW v \in HookSlots, Holds(v, k)', hookSlot'[v].phase = "posting"
          PROVE  hookPosts'[k] + 1 <= Paid' + hookSlot'[v].try
      BY <1>0, <2>0, <3>1, <3>2, <3>3, PaidFacts, HookNumbers DEF Counted
    <3>4. hookPosts'[k] <= Paid' + HookTries
      BY <1>0, <2>0, <3>1, PaidFacts, HookNumbers
    <3>. QED
      BY <1>0, <2>0, <3>1, <3>3, <3>4 DEF Counted
  <2>4. ASSUME NEW k \in HookRows PROVE Kept(k)'
    BY <1>0, <1>11, PaidFacts, HookNumbers DEF HookKillWorker, HookReruns, HookIdle, Alone,
       InStep, Kept, Waits, Holds
  <2>5. hookEmit' = "idle" => hookUnsent' = {}
    BY <1>0, <1>11, PaidFacts, HookNumbers DEF HookKillWorker, HookReruns, HookIdle
  <2>. QED
    BY <2>1, <2>2, <2>3, <2>4, <2>5 DEF HookInv
<1>12. CASE HookKillApi
  <2>1. ASSUME NEW k \in HookRows PROVE Alone(k)'
    BY <1>0, <1>12, PaidFacts, HookNumbers DEF HookKillApi, HookIdle, Alone, Waits, Holds
  <2>2. ASSUME NEW k \in HookRows PROVE InStep(k)'
    BY <1>0, <1>12, PaidFacts, HookNumbers DEF HookKillApi, HookIdle, Alone, InStep, Waits,
       Holds
  <2>3. ASSUME NEW k \in HookRows PROVE Counted(k)'
    <3>0. /\ \A v \in HookSlots : Holds(v, k)' => Holds(v, k) /\ hookSlot'[v] = hookSlot[v]
          /\ Waits(k)' => Waits(k)
          /\ UNCHANGED hookPosts
      BY <1>12 DEF HookKillApi, Holds, Waits, HookIdle
    <3>1. hookPosts[k] <= Paid + HookTries /\ Paid' = Paid + HookTries
      BY <1>0, <1>12, PaidFacts DEF HookKillApi, Counted
    <3>2. \A v \in HookSlots : hookSlot[v].try \in Nat
      BY <1>0, HookNumbers DEF SlotRows
    <3>3. ASSUME NEW v \in HookSlots, Holds(v, k)', hookSlot'[v].phase = "posting"
          PROVE  hookPosts'[k] + 1 <= Paid' + hookSlot'[v].try
      BY <1>0, <3>0, <3>1, <3>2, <3>3, PaidFacts, HookNumbers DEF Counted
    <3>4. hookPosts'[k] <= Paid' + HookTries /\ hookPosts'[k] <= Paid'
      BY <1>0, <3>0, <3>1, PaidFacts, HookNumbers
    <3>. QED
      BY <3>3, <3>4 DEF Counted
  <2>4. ASSUME NEW k \in HookRows PROVE Kept(k)'
    BY <1>0, <1>12, PaidFacts, HookNumbers DEF HookKillApi, HookIdle, Alone, InStep, Kept,
       Waits, Holds
  <2>5. hookEmit' = "idle" => hookUnsent' = {}
    BY <1>0, <1>12, PaidFacts, HookNumbers DEF HookKillApi, HookIdle
  <2>. QED
    BY <2>1, <2>2, <2>3, <2>4, <2>5 DEF HookInv
<1>13. CASE UNCHANGED hookVars
  <2>1. ASSUME NEW k \in HookRows PROVE Alone(k)'
    BY <1>0, <1>13, PaidFacts, HookNumbers DEF hookVars, Alone, Waits, Holds
  <2>2. ASSUME NEW k \in HookRows PROVE InStep(k)'
    BY <1>0, <1>13, PaidFacts, HookNumbers DEF hookVars, Alone, InStep, Waits, Holds
  <2>3. ASSUME NEW k \in HookRows PROVE Counted(k)'
    BY <1>0, <1>13, PaidFacts, HookNumbers DEF hookVars, Alone, Counted, Waits, Holds
  <2>4. ASSUME NEW k \in HookRows PROVE Kept(k)'
    BY <1>0, <1>13, PaidFacts, HookNumbers DEF hookVars, Alone, InStep, Kept, Waits, Holds
  <2>5. hookEmit' = "idle" => hookUnsent' = {}
    BY <1>0, <1>13, PaidFacts, HookNumbers DEF hookVars
  <2>. QED
    BY <2>1, <2>2, <2>3, <2>4, <2>5 DEF HookInv
<1>. QED
  BY <1>1, <1>2, <1>3, <1>4, <1>5, <1>6, <1>7, <1>8, <1>9, <1>10, <1>11, <1>12, <1>13
     DEF HookNext, HookRun, HookAsked

(* A receiver is never posted to more often than its tries and the killed  *)
(* processes allow, and what is recorded as delivered was accepted.        *)
THEOREM PostsAreBounded == HookSpec => []PostsBounded
<1>1. HookTypeOK /\ HookInv => PostsBounded
  BY PaidFacts, HookTypeIs DEF HookInv, Counted, Kept, PostsBounded
<1>. QED
  BY <1>1, HookInitType, HookStepType, HookInvInit, HookInvStep, PTL DEF HookSpec

(* A job that runs again never turns a delivery into a failure, whatever   *)
(* its worker was doing when it was killed.                                *)
THEOREM DeliveredIsFinal == HookSpec => DeliveredStays
<1>1. HookTypeOK /\ SlotsHaveRows /\ HookInv /\ [HookNext]_hookVars =>
        [\A d \in HookRows : hookRow[d] = "delivered" =>
           hookRow'[d] \in {"delivered", "deleted"}]_hookVars
  <2>. SUFFICES ASSUME HookTypes, SlotsHaveRows, HookInv, HookNext,
                       NEW d \in HookRows, hookRow[d] = "delivered"
                PROVE  hookRow'[d] \in {"delivered", "deleted"}
    BY HookTypeIs
  <2>0. /\ hookRow \in [HookRows -> {"none", "pending", "delivered", "failed", "deleted"}]
        /\ InStep(d)
        /\ \A w \in HookSlots : hookSlot[w].phase # "idle" => hookSlot[w].row \in HookRows
    BY DEF HookTypes, HookInv, SlotsHaveRows
  <2>. USE DEF hookHistory, hookBounds
  <2>1. ASSUME NEW w \in HookSlots, NEW e \in HookRows, HookTake(w, e)
        PROVE  hookRow'[d] \in {"delivered", "deleted"}
    BY <2>0, <2>1 DEF HookTake, HookBegin, IsStillPending
  <2>2. ASSUME NEW w \in HookSlots, HookSettle(w)
        PROVE  hookRow'[d] \in {"delivered", "deleted"}
    BY <2>0, <2>2 DEF HookSettle, InStep, Holds
  <2>3. ASSUME NEW w \in HookSlots, HookPrune(w)
        PROVE  hookRow'[d] \in {"delivered", "deleted"}
    BY <2>0, <2>3 DEF HookPrune
  <2>4. ASSUME NEW D \in SUBSET HookRows, HookEmit(D)
        PROVE  hookRow'[d] \in {"delivered", "deleted"}
    BY <2>0, <2>4 DEF HookEmit, IsNextRow
  <2>5. ASSUME NEW w \in HookSlots, NEW e \in HookRows, HookTest(w, e)
        PROVE  hookRow'[d] \in {"delivered", "deleted"}
    BY <2>0, <2>5 DEF HookTest, IsNextRow
  <2>6. ASSUME NEW e \in HookEndpoints, HookToggle(e) \/ HookDelete(e)
        PROVE  hookRow'[d] \in {"delivered", "deleted"}
    BY <2>0, <2>6 DEF HookToggle, HookDelete
  <2>7. ASSUME UNCHANGED hookRow PROVE hookRow'[d] \in {"delivered", "deleted"}
    BY <2>7
  <2>. QED
    BY <2>1, <2>2, <2>3, <2>4, <2>5, <2>6, <2>7
       DEF HookNext, HookRun, HookAsked, HookRefresh, HookHandOver, HookPost,
           HookKillWorker, HookKillApi
<1>. QED
  BY <1>1, HookInitType, HookStepType, HookInvInit, HookInvStep, PTL
     DEF HookSpec, DeliveredStays

(* A pending delivery always has somebody who will try it, unless its      *)
(* hand-over was cut off.                                                  *)
THEOREM PendingIsCarried == HookSpec => []PendingCarried
<1>1. HookInv => PendingCarried
  BY DEF HookInv, Kept, PendingCarried, IsCarried, Waits, Holds
<1>. QED
  BY <1>1, HookInitType, HookStepType, HookInvInit, HookInvStep, PTL DEF HookSpec
=============================================================================
