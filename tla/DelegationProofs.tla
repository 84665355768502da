------------------------- MODULE DelegationProofs --------------------------
(***************************************************************************)
(* Proofs about work that is handed on: Subagents for every limit and any  *)
(* number of parents, slots and children, and AgentTasks for any number of *)
(* callers, slots and retries.                                             *)
(***************************************************************************)
EXTENDS Subagents, AgentTasks, FiniteSetTheorems, TLAPS

-----------------------------------------------------------------------------
(* Subagents.                                                              *)

(* Types.                                                                  *)

SubRows    == [status : Active \cup {"none", "completed", "failed", "cancelled"},
               background : BOOLEAN]
ParentRows == [at : {"idle", "counted", "starting", "waiting"}, run : 0..MaxSubs,
               full : BOOLEAN]
Outcomes   == {"none", "completed", "failed", "cancelled"}
SlotRows   == [at : {"idle", "admitted", "running", "over", "wake", "next"}, run : 0..MaxSubs,
               local : BOOLEAN, tell : BOOLEAN, out : Outcomes]

SlotOK(x)   == subSlot[x] \in SlotRows /\ (subSlot[x].at # "idle" => subSlot[x].run \in Subs)
ParentOK(p) == /\ subParent[p] \in ParentRows
               /\ subParent[p].at \in {"starting", "waiting"} => subParent[p].run \in Subs

SubTypes ==
  /\ subRow \in [Subs -> SubRows]
  /\ subParent \in [SubParents -> ParentRows] /\ \A p \in SubParents : ParentOK(p)
  /\ subJobs \in [Subs -> Nat]
  /\ subSlot \in [SubSlots -> SlotRows] /\ \A x \in SubSlots : SlotOK(x)
  /\ subKills \in 0..MaxSubKills /\ subFaults \in 0..MaxSubFaults
  /\ subWoken \subseteq Subs /\ subUnheard \subseteq Subs
  /\ subCut \in BOOLEAN /\ subStranded \in BOOLEAN

(* The type invariant with its row types named. *)
LEMMA SubTypeIs == SubTypeOK <=> SubTypes
BY DEF SubTypeOK, SubTypes, SubRows, ParentRows, SlotRows, Outcomes, SlotOK, ParentOK

(* Children are numbered from 1, and idle actors hold none. *)
LEMMA SubsFacts ==
  /\ MaxSubs \in Nat /\ 0 \in 0..MaxSubs /\ 0 \notin Subs
  /\ \A d \in Subs : d \in 0..MaxSubs
  /\ SubIdle \in ParentRows /\ SlotIdle \in SlotRows
  /\ IsFiniteSet(Subs)
<1>1. MaxSubs \in Nat
  BY SubConstants
<1>2. IsFiniteSet(Subs)
  BY <1>1, FS_Interval DEF Subs
<1>. QED
  BY <1>1, <1>2 DEF Subs, SubIdle, SlotIdle, ParentRows, SlotRows, Outcomes

(* The initial state is well typed. *)
LEMMA SubInitType == SubInit => SubTypeOK
<1>. SUFFICES ASSUME SubInit PROVE SubTypeOK
  OBVIOUS
<1>1. subRow \in [Subs -> SubRows]
  BY DEF SubInit, SubRows
<1>2. subParent \in [SubParents -> ParentRows] /\ subSlot \in [SubSlots -> SlotRows]
  BY SubsFacts DEF SubInit
<1>3. subKills \in 0..MaxSubKills /\ subFaults \in 0..MaxSubFaults
  BY SubConstants DEF SubInit
<1>. QED
  BY <1>1, <1>2, <1>3, SubTypeIs DEF SubInit, SubTypes, SlotOK, ParentOK, SlotIdle, SubIdle

(* One more job of any child. *)
LEMMA EnqueueType ==
  ASSUME subJobs \in [Subs -> Nat], NEW d, Enqueue(d)
  PROVE  subJobs' \in [Subs -> Nat]
<1>1. CASE d \in Subs
  BY <1>1 DEF Enqueue
<1>2. CASE d \notin Subs
  BY <1>2 DEF Enqueue
<1>. QED
  BY <1>1, <1>2

(* Changing one slot for a row that is well typed. *)
LEMMA SlotType ==
  ASSUME SubTypes, NEW x \in SubSlots, NEW r \in SlotRows,
         r.at # "idle" => r.run \in Subs, subSlot' = [subSlot EXCEPT ![x] = r]
  PROVE  subSlot' \in [SubSlots -> SlotRows] /\ \A y \in SubSlots : SlotOK(y)'
BY DEF SubTypes, SlotOK

(* Changing one parent likewise. *)
LEMMA ParentType ==
  ASSUME SubTypes, NEW p \in SubParents, NEW r \in ParentRows,
         r.at \in {"starting", "waiting"} => r.run \in Subs,
         subParent' = [subParent EXCEPT ![p] = r]
  PROVE  subParent' \in [SubParents -> ParentRows] /\ \A q \in SubParents : ParentOK(q)'
BY DEF SubTypes, ParentOK

(* Slots and parents that do not change. *)
LEMMA SameType ==
  /\ SubTypes /\ UNCHANGED subSlot =>
       subSlot' \in [SubSlots -> SlotRows] /\ \A y \in SubSlots : SlotOK(y)'
  /\ SubTypes /\ UNCHANGED subParent =>
       subParent' \in [SubParents -> ParentRows] /\ \A q \in SubParents : ParentOK(q)'
BY DEF SubTypes, SlotOK, ParentOK

(* Every step keeps the types. *)
LEMMA SubStepType == SubTypeOK /\ [SubNext]_subVars => SubTypeOK'
<1>. SUFFICES ASSUME SubTypes, [SubNext]_subVars PROVE SubTypes'
  <2>1. SubTypes' => SubTypeOK'
    BY DEF SubTypeOK, SubTypes, SubRows, ParentRows, SlotRows, Outcomes, SlotOK, ParentOK
  <2>. QED
    BY <2>1, SubTypeIs
<1>0. /\ \A x \in SubSlots : SlotOK(x) /\ subSlot[x] \in SlotRows
      /\ \A p \in SubParents : ParentOK(p) /\ subParent[p] \in ParentRows
      /\ \A d \in Subs : subRow[d] \in SubRows
  BY DEF SubTypes, SlotOK, ParentOK
<1>. DEFINE SlotsT == subSlot' \in [SubSlots -> SlotRows] /\ \A y \in SubSlots : SlotOK(y)'
<1>. DEFINE ParentsT == /\ subParent' \in [SubParents -> ParentRows]
                        /\ \A q \in SubParents : ParentOK(q)'
<1>. USE SubsFacts DEF subHistory
<1>1. ASSUME NEW p \in SubParents, SpawnCount(p) PROVE SubTypes'
  <2>1. [at |-> "counted", run |-> 0, full |-> IsFull] \in ParentRows
    BY DEF ParentRows, IsFull
  <2>2. ParentsT
    BY <1>1, <2>1, ParentType DEF SpawnCount
  <2>3. SlotsT
    BY <1>1, SameType DEF SpawnCount
  <2>. QED
    BY <1>1, <2>2, <2>3 DEF SpawnCount, SubTypes
<1>2. ASSUME NEW p \in SubParents, NEW d \in Subs, NEW b \in BOOLEAN, NEW x \in SubSlots,
             SpawnInsert(p, d, b, x)
      PROVE  SubTypes'
  <2>1. subRow' \in [Subs -> SubRows]
    BY <1>2 DEF SpawnInsert, SubRows, Active, SubTypes
  <2>2. ParentsT
    <3>1. \A a \in {"starting", "waiting"} :
            [at |-> a, run |-> d, full |-> FALSE] \in ParentRows
      BY DEF ParentRows
    <3>2. \E r \in ParentRows :
            /\ subParent' = [subParent EXCEPT ![p] = r]
            /\ r.at \in {"starting", "waiting"} => r.run \in Subs
      <4>1. CASE subParent[p].full
        BY <1>2, <4>1 DEF SpawnInsert, SubIdle
      <4>2. CASE ~subParent[p].full
        BY <1>2, <3>1, <4>2 DEF SpawnInsert
      <4>. QED
        BY <4>1, <4>2
    <3>. QED
      BY <3>2, ParentType
  <2>3. SlotsT
    <3>1. [at |-> "running", run |-> d, local |-> TRUE, tell |-> FALSE, out |-> "none"]
            \in SlotRows
      BY DEF SlotRows, Outcomes
    <3>2. CASE subParent[p].full \/ b
      BY <1>2, <3>2, SameType DEF SpawnInsert
    <3>3. CASE ~(subParent[p].full \/ b)
      BY <1>2, <3>1, <3>3, SlotType DEF SpawnInsert
    <3>. QED
      BY <3>2, <3>3
  <2>4. subStranded' \in BOOLEAN
    BY <1>2 DEF SpawnInsert
  <2>. QED
    BY <1>2, <2>1, <2>2, <2>3, <2>4 DEF SpawnInsert, SubTypes
<1>3. ASSUME NEW p \in SubParents, SpawnStart(p) PROVE SubTypes'
  <2>1. subJobs' \in [Subs -> Nat]
    BY <1>3, EnqueueType DEF SpawnStart, SubTypes
  <2>2. ParentsT /\ SlotsT
    BY <1>3, ParentType, SameType DEF SpawnStart, SubIdle
  <2>. QED
    BY <1>3, <2>1, <2>2 DEF SpawnStart, SubTypes
<1>4. ASSUME NEW p \in SubParents, NEW timeout \in BOOLEAN, SpawnWaited(p, timeout)
      PROVE  SubTypes'
  <2>1. subRow' \in [Subs -> SubRows]
    BY <1>4 DEF SpawnWaited, SubRows, SubTypes
  <2>2. subParent[p].run \in Subs
    BY <1>0, <1>4 DEF SpawnWaited, ParentOK
  <2>3. subUnheard' \subseteq Subs
    BY <1>4, <2>2 DEF SpawnWaited, SubTypes
  <2>4. ParentsT /\ SlotsT
    BY <1>4, ParentType, SameType DEF SpawnWaited, SubIdle
  <2>. QED
    BY <1>4, <2>1, <2>3, <2>4 DEF SpawnWaited, SubTypes
<1>5. ASSUME NEW x \in SubSlots, NEW d \in Subs, ExecuteTake(x, d) PROVE SubTypes'
  <2>1. \A a \in {"running", "admitted"} :
          [at |-> a, run |-> d, local |-> FALSE, tell |-> FALSE, out |-> "none"] \in SlotRows
    BY DEF SlotRows, Outcomes
  <2>2. SlotsT
    <3>1. CASE Status(d) = "running"
      BY <1>5, <2>1, <3>1, SlotType DEF ExecuteTake
    <3>2. CASE Status(d) # "running" /\ Status(d) = "queued" /\ CanStart
      BY <1>5, <2>1, <3>2, SlotType DEF ExecuteTake
    <3>3. CASE ~(Status(d) = "running" \/ (Status(d) = "queued" /\ CanStart))
      BY <1>5, <3>3, SameType DEF ExecuteTake
    <3>. QED
      BY <3>1, <3>2, <3>3
  <2>3. subJobs' \in [Subs -> Nat]
    BY <1>5 DEF ExecuteTake, HasJob, SubTypes
  <2>4. subStranded' \in BOOLEAN
    BY <1>5 DEF ExecuteTake
  <2>5. ParentsT
    BY <1>5, SameType DEF ExecuteTake
  <2>. QED
    BY <1>5, <2>2, <2>3, <2>4, <2>5 DEF ExecuteTake, SubTypes
<1>6. ASSUME NEW x \in SubSlots, subSlot[x].at # "idle",
             NEW r \in SlotRows, r.run = subSlot[x].run,
             subSlot' = [subSlot EXCEPT ![x] = r], UNCHANGED subParent
      PROVE  ParentsT /\ SlotsT
  BY <1>0, <1>6, SlotType, SameType DEF SlotOK
<1>7. ASSUME NEW x \in SubSlots, ExecuteAdmit(x) PROVE SubTypes'
  <2>1. [subSlot[x] EXCEPT !.at = "running"] \in SlotRows
        /\ [subSlot[x] EXCEPT !.at = "running"].run = subSlot[x].run
    BY <1>0 DEF SlotRows
  <2>2. ParentsT /\ SlotsT
    BY <1>6, <1>7, <2>1 DEF ExecuteAdmit
  <2>3. subRow' \in [Subs -> SubRows]
    BY <1>7 DEF ExecuteAdmit, SubTypes, SubRows, Active
  <2>. QED
    BY <1>7, <2>2, <2>3 DEF ExecuteAdmit, SubTypes
<1>8. ASSUME NEW x \in SubSlots, NEW loop \in {"completed", "failed", "cancelled"},
             ExecuteEnd(x, loop)
      PROVE  SubTypes'
  <2>. DEFINE d == subSlot[x].run
  <2>. DEFINE r == [subSlot[x] EXCEPT !.at = "over", !.out = Outcome(Status(d), loop),
                                      !.tell = subRow[d].background]
  <2>1. subRow[d].background \in BOOLEAN /\ Outcome(Status(d), loop) \in Outcomes
    BY <1>0, <1>8 DEF ExecuteEnd, SlotOK, SubRows, Outcome, Outcomes
  <2>2. r \in SlotRows /\ r.run = subSlot[x].run
    BY <1>0, <2>1 DEF SlotRows
  <2>3. subSlot' = [subSlot EXCEPT ![x] = r]
    BY <1>8 DEF ExecuteEnd
  <2>4. ParentsT /\ SlotsT
    BY <1>6, <1>8, <2>2, <2>3 DEF ExecuteEnd
  <2>. QED
    BY <1>8, <2>4 DEF ExecuteEnd, SubTypes
<1>9. ASSUME NEW x \in SubSlots, ExecuteWrite(x) PROVE SubTypes'
  <2>1. \A a \in {"wake", "next"} : /\ [subSlot[x] EXCEPT !.at = a] \in SlotRows
                                  /\ [subSlot[x] EXCEPT !.at = a].run = subSlot[x].run
    BY <1>0 DEF SlotRows
  <2>2. ParentsT /\ SlotsT
    BY <1>6, <1>9, <2>1 DEF ExecuteWrite
  <2>3. subRow' \in [Subs -> SubRows]
    BY <1>0, <1>9 DEF ExecuteWrite, SubTypes, SubRows, SlotRows, Outcomes
  <2>. QED
    BY <1>9, <2>2, <2>3 DEF ExecuteWrite, SubTypes
<1>10. ASSUME NEW x \in SubSlots, ExecuteWake(x) PROVE SubTypes'
  <2>1. [subSlot[x] EXCEPT !.at = "next"] \in SlotRows
        /\ [subSlot[x] EXCEPT !.at = "next"].run = subSlot[x].run
    BY <1>0 DEF SlotRows
  <2>2. ParentsT /\ SlotsT
    BY <1>6, <1>10, <2>1 DEF ExecuteWake
  <2>3. subSlot[x].run \in Subs
    BY <1>0, <1>10 DEF ExecuteWake, SlotOK
  <2>. QED
    BY <1>10, <2>2, <2>3 DEF ExecuteWake, SubTypes
<1>11. ASSUME NEW x \in SubSlots, ExecuteNext(x) PROVE SubTypes'
  <2>1. subJobs' \in [Subs -> Nat]
    BY <1>11, EnqueueType DEF ExecuteNext, SubTypes
  <2>2. ParentsT /\ SlotsT
    BY <1>11, SlotType, SameType DEF ExecuteNext, SlotIdle
  <2>. QED
    BY <1>11, <2>1, <2>2 DEF ExecuteNext, SubTypes
<1>12. ASSUME NEW d \in Subs, Kill(d) PROVE SubTypes'
  <2>1. SlotsT
    BY <1>0, <1>12 DEF Kill, SlotOK, SlotIdle, SubTypes
  <2>2. ParentsT
    BY <1>12, SameType DEF Kill
  <2>3. subRow' \in [Subs -> SubRows] /\ subKills' \in 0..MaxSubKills /\ subCut' \in BOOLEAN
    BY <1>12, SubConstants DEF Kill, SubRows, SubTypes
  <2>. QED
    BY <1>12, <2>1, <2>2, <2>3 DEF Kill, SubTypes
<1>13. CASE SubCrash
  <2>1. SlotsT /\ ParentsT
    BY <1>13 DEF SubCrash, SlotOK, ParentOK, SlotIdle, SubIdle
  <2>2. \A d \in Subs :
          Cardinality({x \in SubSlots : subSlot[x].run = d /\ ~subSlot[x].local}) \in Nat
    <3>. SUFFICES ASSUME NEW d \in Subs
                  PROVE  Cardinality({x \in SubSlots : subSlot[x].run = d
                                                        /\ ~subSlot[x].local}) \in Nat
      OBVIOUS
    <3>1. IsFiniteSet({x \in SubSlots : subSlot[x].run = d /\ ~subSlot[x].local})
      BY SubConstants, FS_Subset
    <3>. QED
      BY <3>1, FS_CardinalityType
  <2>3. subJobs' \in [Subs -> Nat]
    BY <1>13, <2>2 DEF SubCrash, SubTypes
  <2>4. subFaults' \in 0..MaxSubFaults
    BY <1>13, SubConstants DEF SubCrash, SubTypes
  <2>. QED
    BY <1>13, <2>1, <2>3, <2>4 DEF SubCrash, SubTypes
<1>14. ASSUME NEW d \in Subs, SubClear(d) PROVE SubTypes'
  <2>1. subRow' \in [Subs -> SubRows]
    BY <1>14 DEF SubClear, SubRows, SubTypes
  <2>2. SlotsT /\ ParentsT
    BY <1>14, SameType DEF SubClear
  <2>. QED
    BY <1>14, <2>1, <2>2 DEF SubClear, SubTypes
<1>15. CASE UNCHANGED subVars
  <2>1. SlotsT /\ ParentsT
    BY <1>15, SameType DEF subVars
  <2>. QED
    BY <1>15, <2>1 DEF subVars, SubTypes
<1>. QED
  BY <1>1, <1>2, <1>3, <1>4, <1>5, <1>7, <1>8, <1>9, <1>10, <1>11, <1>12, <1>13, <1>14,
     <1>15
     DEF SubNext, SubRun, SubOther

(* Children, the calls that spawn them and the slots that run them stay    *)
(* well typed.                                                             *)
THEOREM SubTypeCorrect == SubSpec => []SubTypeOK
<1>. QED
  BY SubInitType, SubStepType, PTL DEF SubSpec

-----------------------------------------------------------------------------
(* The limit.                                                              *)

(* The calls that found the house not full and have not written yet.       *)
Counted  == {p \in SubParents : subParent[p].at = "counted" /\ ~subParent[p].full}
Admitted == {x \in SubSlots : subSlot[x].at = "admitted"}

Weight == Cardinality(Running) + Cardinality(Counted) + Cardinality(Admitted)
Room   == SubLimit - 1 + Cardinality(SubParents) + Cardinality(SubSlots)

(* A place is spoken for by a running child or by a call that counted.     *)
PlacesHeld == Weight <= Room

(* The sets that are counted are finite, and no larger than their actors. *)
LEMMA CountsFinite ==
  /\ IsFiniteSet(Running) /\ IsFiniteSet(Counted) /\ IsFiniteSet(Admitted)
  /\ Cardinality(Running) \in Nat /\ Cardinality(Counted) \in Nat
  /\ Cardinality(Admitted) \in Nat
  /\ Cardinality(SubParents) \in Nat /\ Cardinality(SubSlots) \in Nat
  /\ Cardinality(Counted) <= Cardinality(SubParents)
  /\ Cardinality(Admitted) <= Cardinality(SubSlots)
<1>1. Running \in SUBSET Subs /\ Counted \in SUBSET SubParents /\ Admitted \in SUBSET SubSlots
  BY DEF Running, Counted, Admitted
<1>2. IsFiniteSet(Running) /\ IsFiniteSet(Counted) /\ IsFiniteSet(Admitted)
  BY <1>1, SubsFacts, SubConstants, FS_Subset
<1>3. /\ Cardinality(Counted) <= Cardinality(SubParents)
      /\ Cardinality(Admitted) <= Cardinality(SubSlots)
  BY <1>1, SubConstants, FS_Subset
<1>. QED
  BY <1>2, <1>3, SubConstants, FS_CardinalityType

(* The same in the next state. *)
LEMMA CountsFiniteNext ==
  /\ IsFiniteSet(Running') /\ IsFiniteSet(Counted') /\ IsFiniteSet(Admitted')
  /\ Cardinality(Running') \in Nat /\ Cardinality(Counted') \in Nat
  /\ Cardinality(Admitted') \in Nat
  /\ Cardinality(Counted') <= Cardinality(SubParents)
  /\ Cardinality(Admitted') <= Cardinality(SubSlots)
<1>1. /\ Running' \in SUBSET Subs /\ Counted' \in SUBSET SubParents
      /\ Admitted' \in SUBSET SubSlots
  BY DEF Running, Counted, Admitted
<1>2. IsFiniteSet(Running') /\ IsFiniteSet(Counted') /\ IsFiniteSet(Admitted')
  BY <1>1, SubsFacts, SubConstants, FS_Subset
<1>3. /\ Cardinality(Counted') <= Cardinality(SubParents)
      /\ Cardinality(Admitted') <= Cardinality(SubSlots)
  BY <1>1, SubConstants, FS_Subset
<1>. QED
  BY <1>2, <1>3, FS_CardinalityType

(* A step that adds to none of the three keeps the bound. *)
LEMMA Shrinks ==
  ASSUME PlacesHeld, Running' \subseteq Running, Counted' \subseteq Counted,
         Admitted' \subseteq Admitted
  PROVE  PlacesHeld'
<1>1. /\ Cardinality(Running') <= Cardinality(Running)
      /\ Cardinality(Counted') <= Cardinality(Counted)
      /\ Cardinality(Admitted') <= Cardinality(Admitted)
  BY CountsFinite, FS_Subset
<1>. QED
  BY <1>1, CountsFinite, CountsFiniteNext, SubConstants DEF PlacesHeld, Weight, Room

(* So does one that counts while the house is not full. *)
LEMMA Counts ==
  ASSUME ~IsFull, Running' = Running
  PROVE  PlacesHeld'
<1>1. Cardinality(Running') <= SubLimit - 1
  BY CountsFinite, SubConstants DEF IsFull
<1>. QED
  BY <1>1, CountsFinite, CountsFiniteNext, SubConstants DEF PlacesHeld, Weight, Room

(* And one that turns a call that counted into a running child. *)
LEMMA Writes ==
  ASSUME PlacesHeld, NEW d \in Subs, Running' \subseteq Running \cup {d},
         \/ /\ Admitted' = Admitted
            /\ \E p \in Counted : Counted' = Counted \ {p}
         \/ /\ Counted' = Counted
            /\ \E x \in Admitted : Admitted' = Admitted \ {x}
  PROVE  PlacesHeld'
<1>1. Cardinality(Running') <= Cardinality(Running) + 1
  <2>1. /\ IsFiniteSet(Running \cup {d})
        /\ Cardinality(Running \cup {d}) <= Cardinality(Running) + 1
    BY CountsFinite, FS_AddElement
  <2>2. Cardinality(Running') <= Cardinality(Running \cup {d})
    BY <2>1, FS_Subset
  <2>. QED
    BY <2>1, <2>2, CountsFinite, CountsFiniteNext, FS_CardinalityType
<1>2. Cardinality(Counted') + Cardinality(Admitted')
        = Cardinality(Counted) + Cardinality(Admitted) - 1
  <2>1. CASE Admitted' = Admitted /\ \E p \in Counted : Counted' = Counted \ {p}
    <3>1. PICK p \in Counted : Counted' = Counted \ {p}
      BY <2>1
    <3>2. Cardinality(Counted') = Cardinality(Counted) - 1
      BY <3>1, CountsFinite, FS_RemoveElement
    <3>. QED
      BY <2>1, <3>2, CountsFinite
  <2>2. CASE Counted' = Counted /\ \E x \in Admitted : Admitted' = Admitted \ {x}
    <3>1. PICK x \in Admitted : Admitted' = Admitted \ {x}
      BY <2>2
    <3>2. Cardinality(Admitted') = Cardinality(Admitted) - 1
      BY <3>1, CountsFinite, FS_RemoveElement
    <3>. QED
      BY <2>2, <3>2, CountsFinite
  <2>. QED
    BY <2>1, <2>2
<1>. QED
  BY <1>1, <1>2, CountsFinite, CountsFiniteNext, SubConstants DEF PlacesHeld, Weight, Room

(* Nothing runs and nobody has counted at the start. *)
LEMMA PlacesInit == SubInit => PlacesHeld
<1>. SUFFICES ASSUME SubInit PROVE PlacesHeld
  OBVIOUS
<1>1. Running = {} /\ Counted = {} /\ Admitted = {}
  BY DEF SubInit, Running, Counted, Admitted, Status, SubIdle, SlotIdle
<1>. QED
  BY <1>1, CountsFinite, SubConstants, FS_EmptySet DEF PlacesHeld, Weight, Room

(* Every step keeps the bound. *)
LEMMA PlacesStep == SubTypeOK /\ PlacesHeld /\ [SubNext]_subVars => PlacesHeld'
<1>. SUFFICES ASSUME SubTypes, PlacesHeld, [SubNext]_subVars PROVE PlacesHeld'
  BY SubTypeIs
<1>0. /\ \A x \in SubSlots : SlotOK(x) /\ subSlot[x] \in SlotRows
      /\ \A p \in SubParents : ParentOK(p) /\ subParent[p] \in ParentRows
      /\ subRow \in [Subs -> SubRows]
      /\ subSlot \in [SubSlots -> SlotRows] /\ subParent \in [SubParents -> ParentRows]
  BY DEF SubTypes, SlotOK, ParentOK
<1>. USE DEF subHistory
<1>1. ASSUME NEW p \in SubParents, SpawnCount(p) PROVE PlacesHeld'
  <2>1. CASE IsFull
    <3>1. Counted' = Counted /\ Running' = Running /\ Admitted' = Admitted
      BY <1>0, <1>1, <2>1 DEF SpawnCount, Counted, Running, Admitted, Status
    <3>. QED
      BY <3>1, Shrinks
  <2>2. CASE ~IsFull
    <3>1. Running' = Running
      BY <1>1 DEF SpawnCount, Running, Status
    <3>. QED
      BY <2>2, <3>1, Counts
  <2>. QED
    BY <2>1, <2>2
<1>2. ASSUME NEW p \in SubParents, NEW d \in Subs, NEW b \in BOOLEAN, NEW x \in SubSlots,
             SpawnInsert(p, d, b, x)
      PROVE  PlacesHeld'
  <2>1. Admitted' = Admitted
    BY <1>0, <1>2 DEF SpawnInsert, Admitted, SlotIdle
  <2>2. Counted' = Counted \ {p}
    BY <1>0, <1>2 DEF SpawnInsert, Counted, SubIdle
  <2>3. CASE subParent[p].full
    <3>1. Running' \subseteq Running
      BY <1>0, <1>2, <2>3 DEF SpawnInsert, Running, Status
    <3>. QED
      BY <2>1, <2>2, <3>1, Shrinks
  <2>4. CASE ~subParent[p].full
    <3>1. p \in Counted
      BY <1>2, <2>4 DEF SpawnInsert, Counted
    <3>2. Running' \subseteq Running \cup {d}
      BY <1>0, <1>2 DEF SpawnInsert, Running, Status
    <3>. QED
      BY <2>1, <2>2, <3>1, <3>2, Writes
  <2>. QED
    BY <2>3, <2>4
<1>3. ASSUME NEW p \in SubParents, SpawnStart(p) PROVE PlacesHeld'
  <2>1. Running' = Running /\ Counted' \subseteq Counted /\ Admitted' = Admitted
    BY <1>0, <1>3 DEF SpawnStart, Running, Counted, Admitted, Status, SubIdle
  <2>. QED
    BY <2>1, Shrinks
<1>4. ASSUME NEW p \in SubParents, NEW timeout \in BOOLEAN, SpawnWaited(p, timeout)
      PROVE  PlacesHeld'
  <2>1. Running' = Running
    BY <1>0, <1>4 DEF SpawnWaited, Running, Status, SubRows
  <2>2. Counted' \subseteq Counted /\ Admitted' = Admitted
    BY <1>0, <1>4 DEF SpawnWaited, Counted, Admitted, SubIdle
  <2>. QED
    BY <2>1, <2>2, Shrinks
<1>5. ASSUME NEW x \in SubSlots, NEW d \in Subs, ExecuteTake(x, d) PROVE PlacesHeld'
  <2>1. Running' = Running /\ Counted' = Counted
    BY <1>5 DEF ExecuteTake, Running, Counted, Status
  <2>2. CASE Status(d) = "queued" /\ CanStart
    BY <2>1, <2>2, Counts DEF CanStart
  <2>3. CASE ~(Status(d) = "queued" /\ CanStart)
    <3>1. Admitted' \subseteq Admitted
      BY <1>0, <1>5, <2>3 DEF ExecuteTake, Admitted
    <3>. QED
      BY <2>1, <3>1, Shrinks
  <2>. QED
    BY <2>2, <2>3
<1>6. ASSUME NEW x \in SubSlots, ExecuteAdmit(x) PROVE PlacesHeld'
  <2>1. subSlot[x].run \in Subs
    BY <1>0, <1>6 DEF ExecuteAdmit, SlotOK
  <2>2. Running' \subseteq Running \cup {subSlot[x].run}
    BY <1>0, <1>6 DEF ExecuteAdmit, Running, Status
  <2>3. Counted' = Counted /\ Admitted' = Admitted \ {x} /\ x \in Admitted
    BY <1>0, <1>6 DEF ExecuteAdmit, Counted, Admitted
  <2>. QED
    BY <2>1, <2>2, <2>3, Writes
<1>7. ASSUME NEW x \in SubSlots, NEW loop \in {"completed", "failed", "cancelled"},
             ExecuteEnd(x, loop)
      PROVE  PlacesHeld'
  <2>1. Running' = Running /\ Counted' = Counted /\ Admitted' \subseteq Admitted
    BY <1>0, <1>7 DEF ExecuteEnd, Running, Counted, Admitted, Status
  <2>. QED
    BY <2>1, Shrinks
<1>8. ASSUME NEW x \in SubSlots, ExecuteWrite(x) PROVE PlacesHeld'
  <2>1. subSlot[x].out # "running"
    BY <1>0 DEF SlotRows, Outcomes
  <2>2. Running' \subseteq Running
    BY <1>0, <1>8, <2>1 DEF ExecuteWrite, Running, Status
  <2>3. Counted' = Counted /\ Admitted' \subseteq Admitted
    BY <1>0, <1>8 DEF ExecuteWrite, Counted, Admitted
  <2>. QED
    BY <2>2, <2>3, Shrinks
<1>9. ASSUME NEW x \in SubSlots, ExecuteWake(x) \/ ExecuteNext(x) PROVE PlacesHeld'
  <2>1. Running' = Running /\ Counted' = Counted
    BY <1>9 DEF ExecuteWake, ExecuteNext, Running, Counted, Status
  <2>2. Admitted' \subseteq Admitted
    <3>1. CASE ExecuteWake(x)
      BY <1>0, <3>1 DEF ExecuteWake, Admitted
    <3>2. CASE ExecuteNext(x)
      BY <1>0, <3>2 DEF ExecuteNext, Admitted, SlotIdle
    <3>. QED
      BY <1>9, <3>1, <3>2
  <2>. QED
    BY <2>1, <2>2, Shrinks
<1>10. ASSUME NEW d \in Subs, Kill(d) PROVE PlacesHeld'
  <2>1. Running' \subseteq Running
    BY <1>0, <1>10 DEF Kill, Running, Status
  <2>2. Counted' = Counted /\ Admitted' \subseteq Admitted
    BY <1>0, <1>10 DEF Kill, Counted, Admitted, SlotIdle
  <2>. QED
    BY <2>1, <2>2, Shrinks
<1>11. CASE SubCrash
  <2>1. Running' = Running /\ Counted' \subseteq Counted /\ Admitted' \subseteq Admitted
    BY <1>11 DEF SubCrash, Running, Counted, Admitted, Status, SubIdle, SlotIdle
  <2>. QED
    BY <2>1, Shrinks
<1>12. ASSUME NEW d \in Subs, SubClear(d) PROVE PlacesHeld'
  <2>1. Running' \subseteq Running /\ Counted' = Counted /\ Admitted' = Admitted
    BY <1>0, <1>12 DEF SubClear, Running, Counted, Admitted, Status
  <2>. QED
    BY <2>1, Shrinks
<1>13. CASE UNCHANGED subVars
  <2>1. Running' = Running /\ Counted' = Counted /\ Admitted' = Admitted
    BY <1>13 DEF subVars, Running, Counted, Admitted, Status
  <2>. QED
    BY <2>1, Shrinks
<1>. QED
  BY <1>1, <1>2, <1>3, <1>4, <1>5, <1>6, <1>7, <1>8, <1>9, <1>10, <1>11, <1>12, <1>13
     DEF SubNext, SubRun, SubOther

(* Whatever the limit and however many parents and slots count and write   *)
(* in between each other, the limit is passed by fewer than the actors.    *)
THEOREM LimitHolds == SubSpec => []LimitOvershoot
<1>1. PlacesHeld => LimitOvershoot
  BY CountsFinite, SubConstants DEF PlacesHeld, Weight, Room, LimitOvershoot
<1>. QED
  BY <1>1, PlacesInit, PlacesStep, SubTypeCorrect, PTL DEF SubSpec

-----------------------------------------------------------------------------
(* The wake of the parent.                                                 *)

(* What a slot knows of its child: an idle one has none; a slot holds a    *)
(* child that was written; once the loop is over the parent will be told,  *)
(* was told, or is not to be told for one of the reasons in the history.   *)
Unasked(d) == ~subRow[d].background \/ d \in subUnheard \/ subCut

SlotHears(x) ==
  LET s == subSlot[x] IN
  /\ s.at = "idle" => s.run = 0
  /\ s.at # "idle" => Status(s.run) # "none"
  /\ s.at = "over" => s.out # "none" /\ (s.tell \/ Unasked(s.run))
  /\ s.at = "next" => s.run \in subWoken \/ Unasked(s.run)

(* A running child has a job, a caller about to start it, or a slot.       *)
Carried(d) ==
  Status(d) = "running" /\ ~subCut =>
    \/ subJobs[d] > 0
    \/ \E p \in SubParents : subParent[p].at = "starting" /\ subParent[p].run = d
    \/ \E x \in SubSlots : subSlot[x].at \in {"running", "over"} /\ subSlot[x].run = d

(* The body of ParentHears. *)
Heard(d) ==
  Status(d) \in {"completed", "failed"} /\ subRow[d].background /\ ~subCut =>
    d \in subWoken \cup subUnheard \/ \E x \in SubSlots : subSlot[x].run = d

HearInv ==
  /\ \A x \in SubSlots : SlotHears(x)
  /\ \A d \in Subs : Carried(d)
  /\ \A d \in Subs : Heard(d)

(* Nothing was written, and no slot has a child, at the start. *)
LEMMA HearInit == SubInit => HearInv
BY SubsFacts DEF SubInit, HearInv, SlotHears, Carried, Heard, Status, SlotIdle, Unasked

(* Every step keeps it. *)
LEMMA HearStep == SubTypeOK /\ HearInv /\ [SubNext]_subVars => HearInv'
<1>. SUFFICES ASSUME SubTypes, HearInv, [SubNext]_subVars PROVE HearInv'
  BY SubTypeIs
<1>0. /\ \A x \in SubSlots : SlotOK(x) /\ subSlot[x] \in SlotRows /\ SlotHears(x)
      /\ \A p \in SubParents : ParentOK(p) /\ subParent[p] \in ParentRows
      /\ \A d \in Subs : Carried(d) /\ Heard(d) /\ subJobs[d] \in Nat
      /\ subRow \in [Subs -> SubRows] /\ subJobs \in [Subs -> Nat]
      /\ subSlot \in [SubSlots -> SlotRows] /\ subParent \in [SubParents -> ParentRows]
      /\ subWoken \subseteq Subs /\ subUnheard \subseteq Subs
  BY DEF SubTypes, SlotOK, ParentOK, HearInv
<1>. USE SubsFacts DEF subHistory
<1>1. ASSUME NEW p \in SubParents,
             SpawnCount(p)
      PROVE  HearInv'
  <2>1. ASSUME NEW y \in SubSlots PROVE SlotHears(y)'
    BY <1>0, <1>1 DEF SpawnCount, SlotHears, SlotOK, Status, Unasked, SlotIdle, SubRows
  <2>2. ASSUME NEW e \in Subs PROVE Carried(e)'
    BY <1>0, <1>1 DEF SpawnCount, Carried, Status, SlotIdle, SubIdle, SubRows
  <2>3. ASSUME NEW e \in Subs PROVE Heard(e)'
    BY <1>0, <1>1 DEF SpawnCount, Heard, SlotHears, Status, SlotIdle, SubRows
  <2>. QED
    BY <2>1, <2>2, <2>3 DEF HearInv
<1>2. ASSUME NEW p \in SubParents, NEW d \in Subs, NEW b \in BOOLEAN, NEW x \in SubSlots,
             SpawnInsert(p, d, b, x)
      PROVE  HearInv'
  <2>0. /\ Status(d) = "none" /\ Status(d)' \in Active
        /\ \A e \in Subs \ {d} : subRow'[e] = subRow[e]
    BY <1>0, <1>2 DEF SpawnInsert, NextSub, Status, Active
  <2>1. CASE subParent[p].full \/ b
    <3>1. subSlot' = subSlot /\ subWoken' = subWoken /\ subUnheard' = subUnheard
          /\ subCut' = subCut /\ subJobs' = subJobs
      BY <1>2, <2>1 DEF SpawnInsert
    <3>2. ASSUME NEW y \in SubSlots PROVE SlotHears(y)'
      <4>1. CASE subSlot[y].at = "idle"
        BY <1>0, <3>1, <4>1 DEF SlotHears
      <4>2. CASE subSlot[y].at # "idle"
        <5>1. subSlot[y].run \in Subs \ {d}
          BY <1>0, <2>0, <4>2 DEF SlotHears, SlotOK
        <5>. QED
          BY <1>0, <2>0, <3>1, <5>1 DEF SlotHears, Status, Unasked
      <4>. QED
        BY <4>1, <4>2
    <3>3. ASSUME NEW e \in Subs PROVE Carried(e)'
      <4>1. CASE e # d
        <5>1. \A q \in SubParents : subParent[q].at = "starting" => subParent'[q] = subParent[q]
          BY <1>0, <1>2 DEF SpawnInsert
        <5>. QED
          BY <1>0, <2>0, <3>1, <4>1, <5>1 DEF Carried, Status
      <4>2. CASE e = d /\ subParent[p].full
        <5>1. Status(e)' = "queued"
          BY <1>0, <1>2, <4>2 DEF SpawnInsert, Status
        <5>. QED
          BY <5>1 DEF Carried
      <4>3. CASE e = d /\ ~subParent[p].full
        <5>1. subParent'[p].at = "starting" /\ subParent'[p].run = e
          BY <1>0, <1>2, <2>1, <4>3 DEF SpawnInsert
        <5>. QED
          BY <5>1 DEF Carried
      <4>. QED
        BY <4>1, <4>2, <4>3
    <3>4. ASSUME NEW e \in Subs PROVE Heard(e)'
      BY <1>0, <2>0, <3>1 DEF Heard, Status, Active
    <3>. QED
      BY <3>2, <3>3, <3>4 DEF HearInv
  <2>2. CASE ~(subParent[p].full \/ b)
    <3>1. /\ subSlot[x] = SlotIdle /\ subWoken' = subWoken /\ subUnheard' = subUnheard
          /\ subCut' = subCut /\ subJobs' = subJobs
          /\ subSlot'[x].at = "running" /\ subSlot'[x].run = d
          /\ \A y \in SubSlots \ {x} : subSlot'[y] = subSlot[y]
      BY <1>0, <1>2, <2>2 DEF SpawnInsert
    <3>2. ASSUME NEW y \in SubSlots PROVE SlotHears(y)'
      <4>1. CASE y # x /\ subSlot[y].at = "idle"
        BY <1>0, <3>1, <4>1 DEF SlotHears
      <4>2. CASE y # x /\ subSlot[y].at # "idle"
        <5>1. subSlot[y].run \in Subs \ {d}
          BY <1>0, <2>0, <4>2 DEF SlotHears, SlotOK
        <5>. QED
          BY <1>0, <2>0, <3>1, <4>2, <5>1 DEF SlotHears, Status, Unasked
      <4>3. CASE y = x
        BY <2>0, <3>1, <4>3 DEF SlotHears, Active
      <4>. QED
        BY <4>1, <4>2, <4>3
    <3>3. ASSUME NEW e \in Subs PROVE Carried(e)'
      <4>1. CASE e # d
        <5>1. \A q \in SubParents : subParent[q].at = "starting" => subParent'[q] = subParent[q]
          BY <1>0, <1>2 DEF SpawnInsert
        <5>. QED
          BY <1>0, <2>0, <3>1, <4>1, <5>1 DEF Carried, Status, SlotIdle
      <4>2. CASE e = d
        BY <3>1, <4>2 DEF Carried
      <4>. QED
        BY <4>1, <4>2
    <3>4. ASSUME NEW e \in Subs PROVE Heard(e)'
      <4>1. CASE e = d
        BY <2>0, <4>1 DEF Heard, Active
      <4>2. CASE e # d
        BY <1>0, <2>0, <3>1, <4>2 DEF Heard, Status, SlotIdle
      <4>. QED
        BY <4>1, <4>2
    <3>. QED
      BY <3>2, <3>3, <3>4 DEF HearInv
  <2>. QED
    BY <2>1, <2>2
<1>3. ASSUME NEW p \in SubParents,
             SpawnStart(p)
      PROVE  HearInv'
  <2>1. ASSUME NEW y \in SubSlots PROVE SlotHears(y)'
    BY <1>0, <1>3 DEF SpawnStart, SlotHears, SlotOK, Status, Unasked, SlotIdle, SubRows
  <2>2. ASSUME NEW e \in Subs PROVE Carried(e)'
    <3>1. \A q \in SubParents : q # p => subParent'[q] = subParent[q]
      BY <1>0, <1>3 DEF SpawnStart
    <3>2. subParent[p].run \in Subs
      BY <1>0, <1>3 DEF SpawnStart, ParentOK
    <3>3. CASE e = subParent[p].run
      <4>1. subJobs'[e] > 0
        BY <1>0, <1>3, <3>3 DEF SpawnStart, Enqueue
      <4>. QED
        BY <4>1 DEF Carried
    <3>4. CASE e # subParent[p].run
      <4>1. subJobs'[e] = subJobs[e] /\ subRow' = subRow /\ subSlot' = subSlot
            /\ subCut' = subCut
        BY <1>0, <1>3, <3>2, <3>4 DEF SpawnStart, Enqueue
      <4>. QED
        BY <1>0, <3>1, <3>4, <4>1 DEF Carried, Status
    <3>. QED
      BY <3>3, <3>4
  <2>3. ASSUME NEW e \in Subs PROVE Heard(e)'
    BY <1>0, <1>3 DEF SpawnStart, Heard, SlotHears, Status, SlotIdle, SubRows
  <2>. QED
    BY <2>1, <2>2, <2>3 DEF HearInv
<1>4. ASSUME NEW p \in SubParents, NEW timeout \in BOOLEAN,
             SpawnWaited(p, timeout)
      PROVE  HearInv'
  <2>1. ASSUME NEW y \in SubSlots PROVE SlotHears(y)'
    BY <1>0, <1>4 DEF SpawnWaited, SlotHears, SlotOK, Status, Unasked, SlotIdle, SubRows
  <2>2. ASSUME NEW e \in Subs PROVE Carried(e)'
    BY <1>0, <1>4 DEF SpawnWaited, Carried, Status, SlotIdle, SubIdle, SubRows
  <2>3. ASSUME NEW e \in Subs PROVE Heard(e)'
    BY <1>0, <1>4 DEF SpawnWaited, Heard, SlotHears, Status, SlotIdle, SubRows
  <2>. QED
    BY <2>1, <2>2, <2>3 DEF HearInv
<1>5. ASSUME NEW x \in SubSlots, NEW d \in Subs,
             ExecuteTake(x, d)
      PROVE  HearInv'
  <2>1. ASSUME NEW y \in SubSlots PROVE SlotHears(y)'
    BY <1>0, <1>5 DEF ExecuteTake, SlotHears, SlotOK, Status, Unasked, SlotIdle, SubRows
  <2>2. ASSUME NEW e \in Subs PROVE Carried(e)'
    <3>0. /\ subRow' = subRow /\ subParent' = subParent /\ subCut' = subCut
          /\ \A y \in SubSlots : y # x => subSlot'[y] = subSlot[y]
          /\ \A f \in Subs : f # d => subJobs'[f] = subJobs[f]
          /\ subSlot[x].at = "idle"
      BY <1>0, <1>5 DEF ExecuteTake
    <3>1. CASE e # d
      BY <1>0, <3>0, <3>1 DEF Carried, Status
    <3>2. CASE e = d /\ Status(d) = "running"
      <4>1. subSlot'[x].at = "running" /\ subSlot'[x].run = e
        BY <1>0, <1>5, <3>2 DEF ExecuteTake
      <4>. QED
        BY <4>1 DEF Carried
    <3>3. CASE e = d /\ Status(d) # "running"
      BY <3>0, <3>3 DEF Carried, Status
    <3>. QED
      BY <3>1, <3>2, <3>3
  <2>3. ASSUME NEW e \in Subs PROVE Heard(e)'
    <3>1. /\ subRow' = subRow /\ subWoken' = subWoken /\ subUnheard' = subUnheard
          /\ subCut' = subCut
          /\ \A y \in SubSlots : y # x => subSlot'[y] = subSlot[y]
      BY <1>0, <1>5 DEF ExecuteTake
    <3>2. subSlot[x].run = 0
      BY <1>0, <1>5 DEF ExecuteTake, SlotHears
    <3>. QED
      BY <1>0, <3>1, <3>2 DEF Heard, Status
  <2>. QED
    BY <2>1, <2>2, <2>3 DEF HearInv
<1>6. ASSUME NEW x \in SubSlots,
             ExecuteAdmit(x)
      PROVE  HearInv'
  <2>1. ASSUME NEW y \in SubSlots PROVE SlotHears(y)'
    BY <1>0, <1>6 DEF ExecuteAdmit, SlotHears, SlotOK, Status, Unasked, SlotIdle, SubRows
  <2>2. ASSUME NEW e \in Subs PROVE Carried(e)'
    BY <1>0, <1>6 DEF ExecuteAdmit, Carried, Status, SlotIdle, SubIdle, SubRows
  <2>3. ASSUME NEW e \in Subs PROVE Heard(e)'
    BY <1>0, <1>6 DEF ExecuteAdmit, Heard, SlotHears, Status, SlotIdle, SubRows
  <2>. QED
    BY <2>1, <2>2, <2>3 DEF HearInv
<1>7. ASSUME NEW x \in SubSlots, NEW loop \in {"completed", "failed", "cancelled"},
             ExecuteEnd(x, loop)
      PROVE  HearInv'
  <2>1. ASSUME NEW y \in SubSlots PROVE SlotHears(y)'
    <3>0. /\ subRow' = subRow /\ subWoken' = subWoken /\ subUnheard' = subUnheard
          /\ subCut' = subCut /\ subSlot[x].run \in Subs
          /\ \A z \in SubSlots : z # x => subSlot'[z] = subSlot[z]
      BY <1>0, <1>7 DEF ExecuteEnd, SlotOK
    <3>1. /\ subSlot'[x].at = "over" /\ subSlot'[x].run = subSlot[x].run
          /\ subSlot'[x].out # "none"
          /\ subSlot'[x].tell = subRow[subSlot[x].run].background
      BY <1>0, <1>7 DEF ExecuteEnd, Outcome
    <3>2. CASE y = x
      BY <1>0, <1>7, <3>0, <3>1, <3>2 DEF ExecuteEnd, SlotHears, Unasked, Status
    <3>3. CASE y # x
      BY <1>0, <3>0, <3>3 DEF SlotHears, Unasked, Status
    <3>. QED
      BY <3>2, <3>3
  <2>2. ASSUME NEW e \in Subs PROVE Carried(e)'
    BY <1>0, <1>7 DEF ExecuteEnd, Carried, Status, SlotIdle, SubIdle, SubRows
  <2>3. ASSUME NEW e \in Subs PROVE Heard(e)'
    BY <1>0, <1>7 DEF ExecuteEnd, Heard, SlotHears, Status, SlotIdle, SubRows
  <2>. QED
    BY <2>1, <2>2, <2>3 DEF HearInv
<1>8. ASSUME NEW x \in SubSlots,
             ExecuteWrite(x)
      PROVE  HearInv'
  <2>1. ASSUME NEW y \in SubSlots PROVE SlotHears(y)'
    BY <1>0, <1>8 DEF ExecuteWrite, SlotHears, SlotOK, Status, Unasked, SlotIdle, SubRows
  <2>2. ASSUME NEW e \in Subs PROVE Carried(e)'
    <3>0. /\ subJobs' = subJobs /\ subParent' = subParent /\ subCut' = subCut
          /\ \A z \in SubSlots : z # x => subSlot'[z] = subSlot[z]
          /\ \A f \in Subs : f # subSlot[x].run => subRow'[f] = subRow[f]
          /\ subSlot[x].out # "running"
      BY <1>0, <1>8 DEF ExecuteWrite, SlotRows, Outcomes
    <3>1. CASE e = subSlot[x].run
      <4>1. Status(e)' # "running"
        BY <1>0, <1>8, <3>0, <3>1 DEF ExecuteWrite, Status
      <4>. QED
        BY <4>1 DEF Carried
    <3>2. CASE e # subSlot[x].run
      BY <1>0, <3>0, <3>2 DEF Carried, Status
    <3>. QED
      BY <3>1, <3>2
  <2>3. ASSUME NEW e \in Subs PROVE Heard(e)'
    BY <1>0, <1>8 DEF ExecuteWrite, Heard, SlotHears, Status, SlotIdle, SubRows
  <2>. QED
    BY <2>1, <2>2, <2>3 DEF HearInv
<1>9. ASSUME NEW x \in SubSlots,
             ExecuteWake(x)
      PROVE  HearInv'
  <2>1. ASSUME NEW y \in SubSlots PROVE SlotHears(y)'
    BY <1>0, <1>9 DEF ExecuteWake, SlotHears, SlotOK, Status, Unasked, SlotIdle, SubRows
  <2>2. ASSUME NEW e \in Subs PROVE Carried(e)'
    BY <1>0, <1>9 DEF ExecuteWake, Carried, Status, SlotIdle, SubIdle, SubRows
  <2>3. ASSUME NEW e \in Subs PROVE Heard(e)'
    BY <1>0, <1>9 DEF ExecuteWake, Heard, SlotHears, Status, SlotIdle, SubRows
  <2>. QED
    BY <2>1, <2>2, <2>3 DEF HearInv
<1>10. ASSUME NEW x \in SubSlots,
             ExecuteNext(x)
      PROVE  HearInv'
  <2>1. ASSUME NEW y \in SubSlots PROVE SlotHears(y)'
    BY <1>0, <1>10 DEF ExecuteNext, SlotHears, SlotOK, Status, Unasked, SlotIdle, SubRows
  <2>2. ASSUME NEW e \in Subs PROVE Carried(e)'
    <3>0. /\ subRow' = subRow /\ subParent' = subParent /\ subCut' = subCut
          /\ \A z \in SubSlots : z # x => subSlot'[z] = subSlot[z]
          /\ subSlot[x].at = "next"
      BY <1>0, <1>10 DEF ExecuteNext
    <3>1. subJobs[e] > 0 => subJobs'[e] > 0
      <4>1. subJobs' = subJobs \/ \E f : Enqueue(f)
        BY <1>10 DEF ExecuteNext
      <4>2. subJobs'[e] \in {subJobs[e], subJobs[e] + 1}
        BY <1>0, <4>1 DEF Enqueue
      <4>. QED
        BY <1>0, <4>2
    <3>. QED
      BY <1>0, <3>0, <3>1 DEF Carried, Status
  <2>3. ASSUME NEW e \in Subs PROVE Heard(e)'
    <3>0. /\ subRow' = subRow /\ subWoken' = subWoken /\ subUnheard' = subUnheard
          /\ subCut' = subCut /\ subSlot[x].at = "next"
          /\ \A z \in SubSlots : z # x => subSlot'[z] = subSlot[z]
      BY <1>0, <1>10 DEF ExecuteNext
    <3>1. CASE e = subSlot[x].run
      BY <1>0, <3>0, <3>1 DEF Heard, SlotHears, Status, Unasked
    <3>2. CASE e # subSlot[x].run
      BY <1>0, <3>0, <3>2 DEF Heard, Status
    <3>. QED
      BY <3>1, <3>2
  <2>. QED
    BY <2>1, <2>2, <2>3 DEF HearInv
<1>11. ASSUME NEW d \in Subs,
             Kill(d)
      PROVE  HearInv'
  <2>1. ASSUME NEW y \in SubSlots PROVE SlotHears(y)'
    BY <1>0, <1>11 DEF Kill, SlotHears, SlotOK, Status, Unasked, SlotIdle, SubRows
  <2>2. ASSUME NEW e \in Subs PROVE Carried(e)'
    <3>0. /\ subJobs' = subJobs /\ subParent' = subParent
          /\ subCut' \/ (~subCut /\ subSlot' = subSlot)
          /\ \A f \in Subs : f # d => subRow'[f] = subRow[f]
          /\ Status(d)' = "cancelled"
      <4>1. CASE subCut'
        BY <1>0, <1>11, <4>1 DEF Kill, Status
      <4>2. CASE ~subCut'
        <5>1. subSlot' = [z \in SubSlots |-> subSlot[z]]
          BY <1>11, <4>2 DEF Kill
        <5>. QED
          <6>1. subSlot' = subSlot
            BY <1>0, <5>1
          <6>2. /\ subJobs' = subJobs /\ subParent' = subParent
                /\ \A f \in Subs : f # d => subRow'[f] = subRow[f]
                /\ subRow'[d].status = "cancelled"
            BY <1>0, <1>11 DEF Kill, SubRows
          <6>3. ~subCut
            BY <1>11, <4>2 DEF Kill
          <6>. QED
            BY <6>1, <6>2, <6>3 DEF Status
      <4>. QED
        BY <4>1, <4>2
    <3>. QED
      BY <1>0, <3>0 DEF Carried, Status
  <2>3. ASSUME NEW e \in Subs PROVE Heard(e)'
    BY <1>0, <1>11 DEF Kill, Heard, SlotHears, Status, SlotIdle, SubRows
  <2>. QED
    BY <2>1, <2>2, <2>3 DEF HearInv
<1>12. CASE SubCrash
  <2>1. ASSUME NEW y \in SubSlots PROVE SlotHears(y)'
    BY <1>0, <1>12 DEF SubCrash, SlotHears, SlotOK, Status, Unasked, SlotIdle, SubRows
  <2>2. ASSUME NEW e \in Subs PROVE Carried(e)'
    BY <1>0, <1>12 DEF SubCrash, Carried, Status, SlotIdle, SubIdle, SubRows
  <2>3. ASSUME NEW e \in Subs PROVE Heard(e)'
    BY <1>0, <1>12 DEF SubCrash, Heard, SlotHears, Status, SlotIdle, SubRows
  <2>. QED
    BY <2>1, <2>2, <2>3 DEF HearInv
<1>13. ASSUME NEW d \in Subs,
             SubClear(d)
      PROVE  HearInv'
  <2>1. ASSUME NEW y \in SubSlots PROVE SlotHears(y)'
    BY <1>0, <1>13 DEF SubClear, SlotHears, SlotOK, Status, Unasked, SlotIdle, SubRows
  <2>2. ASSUME NEW e \in Subs PROVE Carried(e)'
    BY <1>0, <1>13 DEF SubClear, Carried, Status, SlotIdle, SubIdle, SubRows
  <2>3. ASSUME NEW e \in Subs PROVE Heard(e)'
    <3>0. /\ subWoken' = subWoken /\ subUnheard \subseteq subUnheard' /\ subSlot' = subSlot
          /\ subCut' = subCut /\ \A f \in Subs : f # d => subRow'[f] = subRow[f]
      BY <1>0, <1>13 DEF SubClear
    <3>1. CASE e # d
      BY <1>0, <3>0, <3>1 DEF Heard, Status
    <3>2. CASE e = d
      <4>1. d \in subUnheard' \/ \E x \in SubSlots : subSlot[x].run = d
        BY <1>0, <1>13 DEF SubClear
      <4>. QED
        BY <3>0, <3>2, <4>1 DEF Heard
    <3>. QED
      BY <3>1, <3>2
  <2>. QED
    BY <2>1, <2>2, <2>3 DEF HearInv
<1>14. CASE UNCHANGED subVars
  <2>1. ASSUME NEW y \in SubSlots PROVE SlotHears(y)'
    BY <1>0, <1>14 DEF subVars, SlotHears, SlotOK, Status, Unasked, SlotIdle, SubRows
  <2>2. ASSUME NEW e \in Subs PROVE Carried(e)'
    BY <1>0, <1>14 DEF subVars, Carried, Status, SlotIdle, SubIdle, SubRows
  <2>3. ASSUME NEW e \in Subs PROVE Heard(e)'
    BY <1>0, <1>14 DEF subVars, Heard, SlotHears, Status, SlotIdle, SubRows
  <2>. QED
    BY <2>1, <2>2, <2>3 DEF HearInv
<1>. QED
  BY <1>1, <1>2, <1>3, <1>4, <1>5, <1>6, <1>7, <1>8, <1>9, <1>10, <1>11, <1>12, <1>13, <1>14
     DEF SubNext, SubRun, SubOther

(* The end of a background child reaches its parent, for any number of     *)
(* children, slots and kills: nobody finds it ended, not announced and     *)
(* without a slot, unless a call was cut off.                              *)
THEOREM ParentIsTold == SubSpec => []ParentHears
<1>1. HearInv => ParentHears
  BY DEF HearInv, Heard, ParentHears
<1>. QED
  BY <1>1, HearInit, HearStep, SubTypeCorrect, PTL DEF SubSpec

-----------------------------------------------------------------------------
(* Orchestration tasks.                                                    *)

TaskRows == [status : TaskStates, due : {"none", "later", "due"}, retries : 0..TaskRetries]
SegRows  == [at : {"idle", "working", "retrying"}, retries : 0..TaskRetries,
             run : {"none", "running", "completed", "cancelled"}, tick : BOOLEAN]

TaskTypes ==
  /\ task \in TaskRows
  /\ taskCaller \in [TaskCallers -> {"idle", "promoting", "promoted", "committed"}]
  /\ taskJobs \in Nat
  /\ taskSlot \in [TaskSlots -> SegRows]
  /\ taskCalls \in 0..MaxTaskCalls /\ taskFaults \in 0..MaxTaskFaults
  /\ taskStarts \in Nat /\ taskSegs \in Nat
  /\ taskCut \in BOOLEAN

(* The type invariant with its row types named. *)
LEMMA TaskTypeIs == TaskTypeOK <=> TaskTypes
BY DEF TaskTypeOK, TaskTypes, TaskRows, SegRows

(* The bounds are numbers. *)
LEMMA TaskNumbers == TaskRetries \in Nat /\ MaxTaskCalls \in Nat /\ MaxTaskFaults \in Nat
BY TaskConstants

(* The rows of a slot that is free and of one that begins. *)
LEMMA TaskFacts ==
  /\ SegIdle \in SegRows
  /\ \A n \in 0..TaskRetries, b \in BOOLEAN :
       [at |-> "working", retries |-> n, run |-> "running", tick |-> b] \in SegRows
BY TaskNumbers DEF SegIdle, SegRows

(* One slot that gets another row. *)
LEMMA TaskSlotType ==
  ASSUME TaskTypes, NEW x \in TaskSlots, NEW r \in SegRows,
         taskSlot' = [taskSlot EXCEPT ![x] = r]
  PROVE  taskSlot' \in [TaskSlots -> SegRows]
BY DEF TaskTypes

(* The initial state is well typed. *)
LEMMA TaskInitType == TaskInit => TaskTypeOK
<1>. SUFFICES ASSUME TaskInit PROVE TaskTypes
  BY TaskTypeIs
<1>1. task \in TaskRows
  BY TaskNumbers DEF TaskInit, TaskRows, TaskStates
<1>2. taskSlot \in [TaskSlots -> SegRows]
  BY TaskFacts DEF TaskInit
<1>. QED
  <2>1. taskCaller \in [TaskCallers -> {"idle", "promoting", "promoted", "committed"}]
    BY DEF TaskInit, CallIdle
  <2>2. taskCalls \in 0..MaxTaskCalls /\ taskFaults \in 0..MaxTaskFaults
    BY TaskNumbers DEF TaskInit
  <2>3. taskCut \in BOOLEAN
    BY DEF TaskInit
  <2>. QED
    BY <1>1, <1>2, <2>1, <2>2, <2>3 DEF TaskInit, TaskTypes

(* The beginning of a segment keeps the types of what it writes. *)
LEMMA SegBeginType ==
  ASSUME TaskTypes, NEW x \in TaskSlots, NEW tick \in BOOLEAN, SegBegin(x, tick)
  PROVE  task' \in TaskRows /\ taskSlot' \in [TaskSlots -> SegRows] /\ taskSegs' \in Nat
<1>1. CASE IsOver(task)
  BY <1>1 DEF SegBegin, TaskTypes
<1>2. CASE ~IsOver(task)
  <2>1. [at |-> "working", retries |-> task.retries, run |-> "running", tick |-> tick]
          \in SegRows
    BY TaskFacts DEF TaskTypes, TaskRows
  <2>2. taskSlot' \in [TaskSlots -> SegRows]
    BY <1>2, <2>1, TaskSlotType DEF SegBegin
  <2>3. task' \in TaskRows
    BY <1>2 DEF SegBegin, TaskTypes, TaskRows, TaskStates
  <2>. QED
    BY <1>2, <2>2, <2>3 DEF SegBegin, TaskTypes
<1>. QED
  BY <1>1, <1>2

(* How many segments a killed worker loses is a number. *)
LEMMA LostCount ==
  Cardinality({x \in TaskSlots \ TaskApiSlots : taskSlot[x].at # "idle"}) \in Nat
<1>1. IsFiniteSet({x \in TaskSlots \ TaskApiSlots : taskSlot[x].at # "idle"})
  BY TaskConstants, FS_Subset
<1>. QED
  BY <1>1, FS_CardinalityType

(* Every step keeps the types. *)
LEMMA TaskStepType == TaskTypeOK /\ [TaskNext]_taskVars => TaskTypeOK'
<1>. SUFFICES ASSUME TaskTypes, [TaskNext]_taskVars PROVE TaskTypes'
  <2>1. TaskTypes' => TaskTypeOK'
    BY DEF TaskTypeOK, TaskTypes, TaskRows, SegRows
  <2>. QED
    BY <2>1, TaskTypeIs
<1>. USE TaskNumbers DEF taskCounts
<1>1. ASSUME NEW c \in TaskCallers, NEW due \in {"none", "later"}, CreateTask(c, due)
      PROVE  TaskTypes'
  BY <1>1 DEF CreateTask, TaskTypes, TaskRows, TaskStates
<1>2. CASE TaskClock
  BY <1>2 DEF TaskClock, TaskTypes, TaskRows
<1>3. ASSUME NEW c \in TaskCallers, TickRead(c)
      PROVE  TaskTypes'
  BY <1>3 DEF TickRead, TaskTypes
<1>4. ASSUME NEW c \in TaskCallers, TickPromote(c)
      PROVE  TaskTypes'
  BY <1>4 DEF TickPromote, TaskTypes, Promoted, TaskRows, TaskStates
<1>5. ASSUME NEW c \in TaskCallers, ResumeTask(c)
      PROVE  TaskTypes'
  BY <1>5 DEF ResumeTask, TaskTypes, TaskRows, TaskStates
<1>6. CASE CancelTask
  BY <1>6 DEF CancelTask, TaskTypes, TaskRows, TaskStates, Terminal, SegRows
<1>7. ASSUME NEW c \in TaskCallers, StartByArq(c)
      PROVE  TaskTypes'
  BY <1>7 DEF StartByArq, TaskTypes
<1>8. ASSUME NEW c \in TaskCallers, NEW x \in TaskSlots, StartInline(c, x)
      PROVE  TaskTypes'
  <2>1. task' \in TaskRows /\ taskSlot' \in [TaskSlots -> SegRows] /\ taskSegs' \in Nat
    BY <1>8, SegBeginType DEF StartInline
  <2>. QED
    BY <1>8, <2>1 DEF StartInline, TaskTypes
<1>9. ASSUME NEW x \in TaskSlots, SegTake(x)
      PROVE  TaskTypes'
  <2>1. task' \in TaskRows /\ taskSlot' \in [TaskSlots -> SegRows] /\ taskSegs' \in Nat
    BY <1>9, SegBeginType DEF SegTake
  <2>. QED
    BY <1>9, <2>1 DEF SegTake, TaskTypes
<1>10. ASSUME NEW x \in TaskSlots, NEW st \in {"completed", "paused", "failed"},
              SegOutcome(x, st)
      PROVE  TaskTypes'
  <2>1. task' \in TaskRows
    BY <1>10 DEF SegOutcome, TaskTypes, TaskRows, TaskStates, Terminal
  <2>2. taskSlot' \in [TaskSlots -> SegRows]
    BY <1>10, TaskFacts, TaskSlotType DEF SegOutcome
  <2>. QED
    BY <1>10, <2>1, <2>2 DEF SegOutcome, TaskTypes
<1>11. ASSUME NEW x \in TaskSlots, SegEval(x)
      PROVE  TaskTypes'
  <2>0. taskSlot[x].retries \in 0..TaskRetries
    BY DEF TaskTypes, SegRows
  <2>1. task' \in TaskRows
    BY <1>11, <2>0 DEF SegEval, TaskTypes, TaskRows, TaskStates, Terminal, HasRetry
  <2>2. taskSlot' \in [TaskSlots -> SegRows]
    <3>1. CASE HasRetry(taskSlot[x].retries)
      <4>1. [taskSlot[x] EXCEPT !.at = "retrying", !.retries = taskSlot[x].retries + 1,
                                !.run = "completed"] \in SegRows
        <5>1. taskSlot[x] \in SegRows
          BY DEF TaskTypes
        <5>2. taskSlot[x].retries + 1 \in 0..TaskRetries
          BY <2>0, <3>1 DEF HasRetry
        <5>. QED
          BY <5>1, <5>2 DEF SegRows
      <4>. QED
        BY <1>11, <3>1, <4>1, TaskSlotType DEF SegEval
    <3>2. CASE ~HasRetry(taskSlot[x].retries)
      BY <1>11, <3>2, TaskFacts, TaskSlotType DEF SegEval
    <3>. QED
      BY <3>1, <3>2
  <2>. QED
    BY <1>11, <2>1, <2>2 DEF SegEval, TaskTypes
<1>12. ASSUME NEW x \in TaskSlots, NEW redis \in BOOLEAN, SegRetry(x, redis)
      PROVE  TaskTypes'
  <2>1. taskSlot' \in [TaskSlots -> SegRows]
    <3>1. CASE redis
      BY <1>12, <3>1, TaskFacts, TaskSlotType DEF SegRetry
    <3>2. CASE ~redis
      <4>1. [taskSlot[x] EXCEPT !.at = "working", !.run = "running"] \in SegRows
        BY DEF TaskTypes, SegRows
      <4>. QED
        BY <1>12, <3>2, <4>1, TaskSlotType DEF SegRetry
    <3>. QED
      BY <3>1, <3>2
  <2>2. taskJobs' \in Nat /\ taskSegs' \in Nat
    BY <1>12 DEF SegRetry, TaskTypes
  <2>. QED
    BY <1>12, <2>1, <2>2 DEF SegRetry, TaskTypes
<1>13. CASE TaskKillWorker
  <2>1. taskSlot' \in [TaskSlots -> SegRows]
    BY <1>13, TaskFacts DEF TaskKillWorker, TaskTypes
  <2>2. taskJobs' \in Nat /\ taskFaults' \in 0..MaxTaskFaults
    BY <1>13, LostCount DEF TaskKillWorker, TaskTypes
  <2>. QED
    BY <1>13, <2>1, <2>2 DEF TaskKillWorker, TaskTypes
<1>14. CASE TaskKillApi
  <2>1. taskSlot' \in [TaskSlots -> SegRows]
    BY <1>14, TaskFacts DEF TaskKillApi, TaskTypes
  <2>2. /\ taskCaller' \in [TaskCallers -> {"idle", "promoting", "promoted", "committed"}]
        /\ taskFaults' \in 0..MaxTaskFaults
    BY <1>14 DEF TaskKillApi, TaskTypes
  <2>. QED
    BY <1>14, <2>1, <2>2 DEF TaskKillApi, TaskTypes
<1>15. ASSUME NEW x \in TaskSlots, SegLost(x)
      PROVE  TaskTypes'
  <2>1. taskSlot' \in [TaskSlots -> SegRows]
    BY <1>15, TaskFacts, TaskSlotType DEF SegLost
  <2>2. task' \in TaskRows
    BY <1>15 DEF SegLost, TaskTypes, TaskRows, TaskStates
  <2>. QED
    <3>1. taskFaults' \in 0..MaxTaskFaults
      BY <1>15 DEF SegLost, TaskTypes
    <3>2. taskCut' = taskCut \/ taskCut' = TRUE
      BY <1>15 DEF SegLost
    <3>3. taskCut' \in BOOLEAN
      BY <3>2 DEF TaskTypes
    <3>. QED
      BY <1>15, <2>1, <2>2, <3>1, <3>3 DEF SegLost, TaskTypes
<1>16. CASE UNCHANGED taskVars
  BY <1>16 DEF taskVars, TaskTypes
<1>. QED
  BY <1>1, <1>2, <1>3, <1>4, <1>5, <1>6, <1>7, <1>8, <1>9, <1>10, <1>11, <1>12, <1>13,
     <1>14, <1>15, <1>16
     DEF TaskNext, TaskRun, TaskOther

(* The row, the callers, the jobs and the segments stay well typed.        *)
THEOREM TaskTypeCorrect == TaskSpec => []TaskTypeOK
<1>. QED
  BY TaskInitType, TaskStepType, PTL DEF TaskSpec

-----------------------------------------------------------------------------
(* A cancelled task at which nobody works stays cancelled.                 *)

LEMMA CancelStep ==
  ASSUME [TaskNext]_taskVars, task.status = "cancelled", NobodyWorks, TaskTypes
  PROVE  task'.status = "cancelled"
<1>. USE DEF NobodyWorks
<1>1. ASSUME NEW c \in TaskCallers, NEW due \in {"none", "later"}, CreateTask(c, due)
      PROVE  task'.status = "cancelled"
  BY <1>1 DEF CreateTask, SegBegin, IsOver, Terminal, TaskTypes, TaskRows
<1>2. CASE TaskClock
  BY <1>2 DEF TaskClock, SegBegin, IsOver, Terminal, TaskTypes, TaskRows
<1>3. ASSUME NEW c \in TaskCallers, TickRead(c)
      PROVE  task'.status = "cancelled"
  BY <1>3 DEF TickRead, SegBegin, IsOver, Terminal, TaskTypes, TaskRows
<1>4. ASSUME NEW c \in TaskCallers, TickPromote(c)
      PROVE  task'.status = "cancelled"
  BY <1>4 DEF TickPromote, SegBegin, IsOver, Terminal, TaskTypes, TaskRows
<1>5. ASSUME NEW c \in TaskCallers, ResumeTask(c)
      PROVE  task'.status = "cancelled"
  BY <1>5 DEF ResumeTask, SegBegin, IsOver, Terminal, TaskTypes, TaskRows
<1>6. CASE CancelTask
  BY <1>6 DEF CancelTask, SegBegin, IsOver, Terminal, TaskTypes, TaskRows
<1>7. ASSUME NEW c \in TaskCallers, StartByArq(c)
      PROVE  task'.status = "cancelled"
  BY <1>7 DEF StartByArq, SegBegin, IsOver, Terminal, TaskTypes, TaskRows
<1>8. ASSUME NEW c \in TaskCallers, NEW x \in TaskSlots, StartInline(c, x)
      PROVE  task'.status = "cancelled"
  BY <1>8 DEF StartInline, SegBegin, IsOver, Terminal, TaskTypes, TaskRows
<1>9. ASSUME NEW x \in TaskSlots, SegTake(x)
      PROVE  task'.status = "cancelled"
  BY <1>9 DEF SegTake, SegBegin, IsOver, Terminal, TaskTypes, TaskRows
<1>10. ASSUME NEW x \in TaskSlots, NEW st \in {"completed", "paused", "failed"},
              SegOutcome(x, st)
      PROVE  task'.status = "cancelled"
  BY <1>10 DEF SegOutcome, SegBegin, IsOver, Terminal, TaskTypes, TaskRows
<1>11. ASSUME NEW x \in TaskSlots, SegEval(x)
      PROVE  task'.status = "cancelled"
  BY <1>11 DEF SegEval, SegBegin, IsOver, Terminal, TaskTypes, TaskRows
<1>12. ASSUME NEW x \in TaskSlots, NEW redis \in BOOLEAN, SegRetry(x, redis)
      PROVE  task'.status = "cancelled"
  BY <1>12 DEF SegRetry, SegBegin, IsOver, Terminal, TaskTypes, TaskRows
<1>13. CASE TaskKillWorker
  BY <1>13 DEF TaskKillWorker, SegBegin, IsOver, Terminal, TaskTypes, TaskRows
<1>14. CASE TaskKillApi
  BY <1>14 DEF TaskKillApi, SegBegin, IsOver, Terminal, TaskTypes, TaskRows
<1>15. ASSUME NEW x \in TaskSlots, SegLost(x)
      PROVE  task'.status = "cancelled"
  BY <1>15 DEF SegLost, SegBegin, IsOver, Terminal, TaskTypes, TaskRows
<1>16. CASE UNCHANGED taskVars
  BY <1>16 DEF taskVars, SegBegin, IsOver, Terminal, TaskTypes, TaskRows
<1>. QED
  BY <1>1, <1>2, <1>3, <1>4, <1>5, <1>6, <1>7, <1>8, <1>9, <1>10, <1>11, <1>12, <1>13,
     <1>14, <1>15, <1>16
     DEF TaskNext, TaskRun, TaskOther

(* The cancelled row is the source of truth for whatever waits in the      *)
(* queue, for ticks and for resumes, once nobody works on an older copy.   *)
THEOREM CancelIsFinal == TaskSpec => CancelHolds
<1>1. TaskTypeOK /\ [TaskNext]_taskVars =>
        [task.status = "cancelled" /\ NobodyWorks => task'.status = "cancelled"]_taskVars
  BY CancelStep, TaskTypeIs
<1>. QED
  BY <1>1, TaskTypeCorrect, PTL DEF TaskSpec, CancelHolds

-----------------------------------------------------------------------------
(* Segments of a task that was started once.                               *)

Busy(x) == taskSlot[x].at # "idle"

(* At most one job or slot has the task; a retry that waits has been paid  *)
(* by the count of the row; the copy of the segment is the row's.          *)
OneStart ==
  /\ taskStarts = 0 => taskSegs = 0 /\ taskJobs = 0 /\ \A x \in TaskSlots : ~Busy(x)
  /\ taskStarts <= 1 =>
       /\ taskJobs <= 1
       /\ taskJobs > 0 => \A x \in TaskSlots : ~Busy(x)
       /\ \A x, y \in TaskSlots : Busy(x) /\ Busy(y) => x = y
       /\ taskSegs <= 1 + task.retries + taskFaults
       /\ (taskJobs > 0 \/ \E x \in TaskSlots : taskSlot[x].at = "retrying") =>
            taskSegs <= task.retries + taskFaults
       /\ \A x \in TaskSlots :
            Busy(x) => taskSlot[x].retries = task.retries

(* Nothing was asked for at the start. *)
LEMMA OneStartInit == TaskInit => OneStart
BY TaskFacts DEF TaskInit, OneStart, Busy, SegIdle

(* Every step keeps it. *)
LEMMA OneStartStep == TaskTypeOK /\ OneStart /\ [TaskNext]_taskVars => OneStart'
<1>. SUFFICES ASSUME TaskTypes, OneStart, [TaskNext]_taskVars PROVE OneStart'
  BY TaskTypeIs
<1>0. /\ task \in TaskRows /\ taskSlot \in [TaskSlots -> SegRows]
      /\ taskJobs \in Nat /\ taskStarts \in Nat /\ taskSegs \in Nat
      /\ taskFaults \in Nat /\ task.retries \in Nat
  BY TaskNumbers DEF TaskTypes, TaskRows
<1>. USE DEF taskCounts
<1>1. ASSUME NEW c \in TaskCallers, NEW due \in {"none", "later"}, CreateTask(c, due)
      PROVE  OneStart'
  BY <1>0, <1>1 DEF CreateTask, OneStart, Busy, SegIdle, SegRows, TaskRows
<1>2. CASE TaskClock
  BY <1>0, <1>2 DEF TaskClock, OneStart, Busy, SegIdle, SegRows, TaskRows
<1>3. ASSUME NEW c \in TaskCallers, TickRead(c)
      PROVE  OneStart'
  BY <1>0, <1>3 DEF TickRead, OneStart, Busy, SegIdle, SegRows, TaskRows
<1>4. ASSUME NEW c \in TaskCallers, TickPromote(c)
      PROVE  OneStart'
  BY <1>0, <1>4 DEF TickPromote, Promoted, OneStart, Busy, SegIdle, SegRows, TaskRows
<1>5. ASSUME NEW c \in TaskCallers, ResumeTask(c)
      PROVE  OneStart'
  BY <1>0, <1>5 DEF ResumeTask, OneStart, Busy, SegIdle, SegRows, TaskRows
<1>6. CASE CancelTask
  BY <1>0, <1>6 DEF CancelTask, OneStart, Busy, SegIdle, SegRows, TaskRows
<1>7. ASSUME NEW c \in TaskCallers, StartByArq(c)
      PROVE  OneStart'
  BY <1>0, <1>7 DEF StartByArq, OneStart, Busy, SegIdle, SegRows, TaskRows
<1>8. ASSUME NEW c \in TaskCallers, NEW x \in TaskSlots, StartInline(c, x)
      PROVE  OneStart'
  <2>1. CASE IsOver(task)
    BY <1>0, <1>8, <2>1 DEF StartInline, SegBegin, OneStart, Busy
  <2>2. CASE ~IsOver(task)
    <3>1. /\ task'.retries = task.retries /\ taskSegs' = taskSegs + 1
          /\ taskSlot'[x].at = "working" /\ taskSlot'[x].retries = task.retries
          /\ \A y \in TaskSlots : y # x => taskSlot'[y] = taskSlot[y]
      BY <1>0, <1>8, <2>2 DEF StartInline, SegBegin, TaskRows
    <3>2. (taskStarts = 0 /\ taskStarts' = 1) \/ taskStarts' > 1
      BY <1>0, <1>8 DEF StartInline, OneStart
    <3>. QED
      BY <1>0, <1>8, <3>1, <3>2 DEF StartInline, OneStart, Busy
  <2>. QED
    BY <2>1, <2>2
<1>9. ASSUME NEW x \in TaskSlots, SegTake(x)
      PROVE  OneStart'
  <2>1. CASE IsOver(task)
    BY <1>0, <1>9, <2>1 DEF SegTake, SegBegin, OneStart, Busy
  <2>2. CASE ~IsOver(task)
    <3>1. /\ task'.retries = task.retries /\ taskSegs' = taskSegs + 1
          /\ taskSlot'[x].at = "working" /\ taskSlot'[x].retries = task.retries
          /\ \A y \in TaskSlots : y # x => taskSlot'[y] = taskSlot[y]
      BY <1>0, <1>9, <2>2 DEF SegTake, SegBegin, TaskRows
    <3>2. taskStarts' = taskStarts /\ taskStarts # 0
      BY <1>0, <1>9 DEF SegTake, OneStart
    <3>. QED
      BY <1>0, <1>9, <3>1, <3>2 DEF SegTake, OneStart, Busy
  <2>. QED
    BY <2>1, <2>2
<1>10. ASSUME NEW x \in TaskSlots, NEW st \in {"completed", "paused", "failed"},
              SegOutcome(x, st)
      PROVE  OneStart'
  BY <1>0, <1>10 DEF SegOutcome, OneStart, Busy, SegIdle, SegRows, TaskRows
<1>11. ASSUME NEW x \in TaskSlots, SegEval(x)
      PROVE  OneStart'
  <2>1. /\ taskSlot[x].at = "working" /\ taskStarts # 0
        /\ taskStarts' = taskStarts /\ taskSegs' = taskSegs /\ taskJobs' = taskJobs
        /\ taskFaults' = taskFaults
        /\ \A y \in TaskSlots : y # x => taskSlot'[y] = taskSlot[y]
    BY <1>0, <1>11 DEF SegEval, OneStart, Busy
  <2>2. CASE HasRetry(taskSlot[x].retries)
    <3>0. taskSlot[x] \in SegRows
      BY <1>0
    <3>1. /\ task'.retries = taskSlot[x].retries + 1
          /\ taskSlot'[x].at = "retrying"
          /\ taskSlot'[x].retries = taskSlot[x].retries + 1
      <4>1. task'.retries = taskSlot[x].retries + 1
        BY <1>0, <1>11, <2>2 DEF SegEval, TaskRows
      <4>2. taskSlot'[x] = [taskSlot[x] EXCEPT !.at = "retrying",
                              !.retries = taskSlot[x].retries + 1, !.run = "completed"]
        BY <1>0, <1>11, <2>2 DEF SegEval
      <4>. QED
        BY <3>0, <4>1, <4>2 DEF SegRows
    <3>. QED
      BY <1>0, <2>1, <3>1 DEF OneStart, Busy
  <2>3. CASE ~HasRetry(taskSlot[x].retries)
    <3>1. task'.retries = task.retries /\ taskSlot'[x].at = "idle"
      BY <1>0, <1>11, <2>3 DEF SegEval, SegIdle, TaskRows
    <3>. QED
      BY <1>0, <2>1, <3>1 DEF OneStart, Busy
  <2>. QED
    BY <2>2, <2>3
<1>12. ASSUME NEW x \in TaskSlots, NEW redis \in BOOLEAN, SegRetry(x, redis)
      PROVE  OneStart'
  <2>0. /\ taskSlot[x].at = "retrying" /\ task' = task /\ taskFaults' = taskFaults
        /\ taskStarts' = taskStarts /\ taskStarts # 0
        /\ \A y \in TaskSlots : y # x => taskSlot'[y] = taskSlot[y]
    BY <1>0, <1>12 DEF SegRetry, OneStart, Busy
  <2>1. CASE redis
    <3>1. taskSlot'[x].at = "idle" /\ taskJobs' = taskJobs + 1 /\ taskSegs' = taskSegs
      BY <1>0, <1>12, <2>1 DEF SegRetry, SegIdle
    <3>. QED
      BY <1>0, <2>0, <3>1 DEF OneStart, Busy
  <2>2. CASE ~redis
    <3>1. /\ taskSlot'[x].at = "working" /\ taskSlot'[x].retries = taskSlot[x].retries
          /\ taskJobs' = taskJobs /\ taskSegs' = taskSegs + 1
      BY <1>0, <1>12, <2>2 DEF SegRetry, SegRows
    <3>. QED
      BY <1>0, <2>0, <3>1 DEF OneStart, Busy
  <2>. QED
    BY <2>1, <2>2
<1>13. CASE TaskKillWorker
  <2>. DEFINE lost == {x \in TaskSlots \ TaskApiSlots : taskSlot[x].at # "idle"}
  <2>0. /\ task' = task /\ taskFaults' = taskFaults + 1 /\ taskStarts' = taskStarts
        /\ taskSegs' = taskSegs /\ taskJobs' = taskJobs + Cardinality(lost)
    BY <1>13 DEF TaskKillWorker
  <2>1. \A y \in TaskSlots : /\ y \in lost => taskSlot'[y].at = "idle"
                             /\ y \notin lost => taskSlot'[y] = taskSlot[y]
    BY <1>13 DEF TaskKillWorker, SegIdle
  <2>2. CASE lost = {}
    <3>1. taskJobs' = taskJobs
      <4>1. Cardinality(lost) = 0
        BY <2>2, FS_EmptySet
      <4>. HIDE DEF lost
      <4>. QED
        BY <1>0, <2>0, <4>1
    <3>. QED
      BY <1>0, <2>0, <2>1, <2>2, <3>1 DEF OneStart, Busy
  <2>3. CASE lost # {} /\ taskStarts <= 1
    <3>1. PICK y \in lost : TRUE
      BY <2>3
    <3>2. lost = {y} /\ \A z \in TaskSlots : Busy(z) => z = y
      BY <2>3, <3>1 DEF OneStart, Busy
    <3>3. Cardinality(lost) = 1 /\ taskJobs = 0
      <4>1. taskJobs = 0
        BY <1>0, <2>3, <3>1 DEF OneStart, Busy
      <4>. QED
        BY <3>2, <4>1, FS_Singleton
    <3>4. taskJobs' = 1 /\ taskStarts # 0
      BY <2>0, <2>3, <3>1, <3>3 DEF OneStart, Busy
    <3>5. \A z \in TaskSlots : taskSlot'[z].at = "idle"
      BY <2>1, <3>2 DEF Busy
    <3>. QED
      BY <1>0, <2>0, <2>3, <3>4, <3>5 DEF OneStart, Busy
  <2>4. CASE taskStarts > 1
    BY <1>0, <2>0, <2>4 DEF OneStart
  <2>. QED
    BY <1>0, <2>2, <2>3, <2>4
<1>14. CASE TaskKillApi
  BY <1>0, <1>14 DEF TaskKillApi, OneStart, Busy, SegIdle, SegRows, TaskRows
<1>15. ASSUME NEW x \in TaskSlots, SegLost(x)
      PROVE  OneStart'
  <2>1. /\ task'.retries = task.retries /\ taskSlot'[x].at = "idle"
        /\ taskStarts' = taskStarts /\ taskSegs' = taskSegs /\ taskJobs' = taskJobs
        /\ taskFaults' = taskFaults + 1
        /\ \A y \in TaskSlots : y # x => taskSlot'[y] = taskSlot[y]
    BY <1>0, <1>15 DEF SegLost, SegIdle, TaskRows
  <2>. QED
    BY <1>0, <2>1 DEF OneStart, Busy
<1>16. CASE UNCHANGED taskVars
  BY <1>0, <1>16 DEF taskVars, OneStart, Busy, SegIdle, SegRows, TaskRows
<1>. QED
  BY <1>1, <1>2, <1>3, <1>4, <1>5, <1>6, <1>7, <1>8, <1>9, <1>10, <1>11, <1>12, <1>13,
     <1>14, <1>15, <1>16
     DEF TaskNext, TaskRun, TaskOther

(* However often a worker is killed and an evaluation fails, one start is  *)
(* worth a segment, the retries and one more segment for each fault.       *)
THEOREM OneStartIsBounded == TaskSpec => []SegmentsBounded
<1>1. TaskTypeOK /\ OneStart => SegmentsBounded
  BY TaskNumbers DEF TaskTypeOK, OneStart, SegmentsBounded
<1>. QED
  BY <1>1, OneStartInit, OneStartStep, TaskTypeCorrect, PTL DEF TaskSpec
=============================================================================
