----------------------------- MODULE Subagents -----------------------------
(***************************************************************************)
(* The subagents of one tenant, services/subagents.py: spawn, the limit on *)
(* how many run, kill, the end of a child, the wake of its parent and the  *)
(* start of the next queued child; run_subagent_job of workers/tasks.py    *)
(* and clear_stale_runtime of services/workforce_runtime.py.               *)
(*                                                                         *)
(* The limit is a count followed, in a later transaction, by a write.      *)
(* Parents spawn and slots execute; each goes on between its awaits.       *)
(*                                                                         *)
(* Abstractions: children are numbered in the order of started_at; Redis   *)
(* is up; what a child says is whether its loop returned, raised or was    *)
(* cancelled; messages between parent and child are not here.              *)
(***************************************************************************)
EXTENDS Naturals, FiniteSets

CONSTANTS
  SubParents,     \* turns that may spawn
  SubSlots,       \* coroutines that execute children
  SubLimit,       \* max_concurrent
  SubBehavior,    \* limit_behavior: queue or fail
  MaxSubs,        \* bound: children
  MaxSubKills,    \* bound: kill calls
  MaxSubFaults    \* bound: killed workers

ASSUME SubConstants ==
  /\ IsFiniteSet(SubParents) /\ IsFiniteSet(SubSlots)
  /\ SubLimit \in Nat \ {0}
  /\ SubBehavior \in {"queue", "fail"}
  /\ {MaxSubs, MaxSubKills, MaxSubFaults} \subseteq Nat

VARIABLES
  subRow,       \* agent_runs: status, and background of the snapshot
  subParent,    \* what each spawn call does
  subJobs,      \* run_subagent_job copies of a child that wait in arq
  subSlot,      \* what each execute call does
  subKills,
  subFaults,
  subWoken,     \* enqueue_turn was called with the key of this child
  subUnheard,   \* history: children told to report after their last look, or cleared
                \* before their job began
  subCut,       \* history: a call was cut off between its writes
  subStranded   \* history: a child was queued behind children that were over, or
                \* behind one that was killed or cleared before its job began

subVars == <<subRow, subParent, subJobs, subSlot, subKills, subFaults, subWoken,
             subUnheard, subCut, subStranded>>
subHistory == <<subUnheard, subCut, subStranded>>

Subs     == 1..MaxSubs
Active   == {"queued", "running"}
SubIdle  == [at |-> "idle", run |-> 0, full |-> FALSE]
SlotIdle == [at |-> "idle", run |-> 0, local |-> FALSE, tell |-> FALSE, out |-> "none"]

SubTypeOK ==
  /\ subRow \in [Subs -> [status : Active \cup {"none", "completed", "failed", "cancelled"},
                          background : BOOLEAN]]
  /\ subParent \in [SubParents -> [at : {"idle", "counted", "starting", "waiting"},
                                   run : 0..MaxSubs, full : BOOLEAN]]
  /\ subJobs \in [Subs -> Nat]
  /\ subSlot \in [SubSlots ->
       [at : {"idle", "admitted", "running", "over", "wake", "next"}, run : 0..MaxSubs,
        local : BOOLEAN, tell : BOOLEAN, out : {"none", "completed", "failed", "cancelled"}]]
  /\ subKills \in 0..MaxSubKills
  /\ subFaults \in 0..MaxSubFaults
  /\ subWoken \subseteq Subs /\ subUnheard \subseteq Subs
  /\ subCut \in BOOLEAN /\ subStranded \in BOOLEAN
  /\ \A x \in SubSlots : subSlot[x].at # "idle" => subSlot[x].run \in Subs
  /\ \A p \in SubParents :
       subParent[p].at \in {"starting", "waiting"} => subParent[p].run \in Subs

SubInit ==
  /\ subRow = [d \in Subs |-> [status |-> "none", background |-> TRUE]]
  /\ subParent = [p \in SubParents |-> SubIdle]
  /\ subJobs = [d \in Subs |-> 0]
  /\ subSlot = [x \in SubSlots |-> SlotIdle]
  /\ subKills = 0 /\ subFaults = 0
  /\ subWoken = {} /\ subUnheard = {}
  /\ subCut = FALSE /\ subStranded = FALSE

Status(d)  == subRow[d].status
Running    == {d \in Subs : Status(d) = "running"}
Enqueue(d) == subJobs' = [subJobs EXCEPT ![d] = @ + 1]

IsFull == Cardinality(Running) >= SubLimit

(* Slip: only a limit that fails the call is looked at.                    *)
SpawnCountFailing(p) ==
  /\ subParent[p].at = "idle"
  /\ ~(IsFull /\ SubBehavior = "fail")
  /\ subParent' = [subParent EXCEPT ![p] = [at |-> "counted", run |-> 0, full |-> FALSE]]
  /\ UNCHANGED <<subRow, subJobs, subSlot, subKills, subFaults, subWoken, subHistory>>

(* spawn: the count.                                                       *)
SpawnCount(p) ==
  /\ subParent[p].at = "idle"
  /\ ~(IsFull /\ SubBehavior = "fail")
  /\ subParent' = [subParent EXCEPT ![p] = [at |-> "counted", run |-> 0, full |-> IsFull]]
  /\ UNCHANGED <<subRow, subJobs, subSlot, subKills, subFaults, subWoken, subHistory>>

(* The row.  A queued child is left to whoever ends next; a background one *)
(* goes to the worker, an inline one runs in this process.                 *)
NextSub(d) == Status(d) = "none" /\ \A e \in 1..(d - 1) : Status(e) # "none"

IsUnderWay == \/ \E x \in SubSlots : subSlot[x].at # "idle"
              \/ \E d \in Subs : subJobs[d] > 0
              \/ \E p \in SubParents : subParent[p].at = "starting"

SpawnInsert(p, d, background, x) ==
  LET full == subParent[p].full IN
  /\ subParent[p].at = "counted"
  /\ NextSub(d)
  /\ subRow' = [subRow EXCEPT ![d] = [status |-> IF full THEN "queued" ELSE "running",
                                      background |-> background]]
  /\ subParent' = [subParent EXCEPT ![p] =
       IF full THEN SubIdle
       ELSE [at |-> IF background THEN "starting" ELSE "waiting", run |-> d, full |-> FALSE]]
  /\ IF full \/ background THEN UNCHANGED subSlot
     ELSE /\ subSlot[x] = SlotIdle
          /\ subSlot' = [subSlot EXCEPT ![x] =
               [at |-> "running", run |-> d, local |-> TRUE, tell |-> FALSE, out |-> "none"]]
  /\ subStranded' = (subStranded \/ (full /\ ~IsUnderWay))
  /\ UNCHANGED <<subJobs, subKills, subFaults, subWoken, subUnheard, subCut>>

SpawnStart(p) ==
  /\ subParent[p].at = "starting"
  /\ Enqueue(subParent[p].run)
  /\ subParent' = [subParent EXCEPT ![p] = SubIdle]
  /\ UNCHANGED <<subRow, subSlot, subKills, subFaults, subWoken, subHistory>>

(* The wait for an inline child ends with the child, or after              *)
(* INLINE_WAIT_SECONDS, when the child is told to report (_mark_background).*)
SpawnWaited(p, timeout) ==
  LET d == subParent[p].run IN
  /\ subParent[p].at = "waiting"
  /\ timeout <=> \E x \in SubSlots : subSlot[x].run = d /\ subSlot[x].local
  /\ subRow' = IF timeout THEN [subRow EXCEPT ![d].background = TRUE] ELSE subRow
  /\ subUnheard' = subUnheard \cup
       {e \in {d} : \E x \in SubSlots : subSlot[x].run = e /\ subSlot[x].at # "running"}
  /\ subParent' = [subParent EXCEPT ![p] = SubIdle]
  /\ UNCHANGED <<subJobs, subSlot, subKills, subFaults, subWoken, subCut, subStranded>>

-----------------------------------------------------------------------------
(* execute: a queued child counts again; a full house ends the job.        *)
CanStart == ~IsFull

(* Slip: a job is taken that another coroutine has.                        *)
HadJob(d) == Status(d) = "running"

HasJob(d) == subJobs[d] > 0

ExecuteTake(x, d) ==
  /\ subSlot[x].at = "idle" /\ HasJob(d)
  /\ subJobs' = [subJobs EXCEPT ![d] = @ - 1]
  /\ IF Status(d) = "running" \/ (Status(d) = "queued" /\ CanStart)
     THEN subSlot' = [subSlot EXCEPT ![x] =
            [at |-> IF Status(d) = "running" THEN "running" ELSE "admitted", run |-> d,
             local |-> FALSE, tell |-> FALSE, out |-> "none"]]
     ELSE UNCHANGED subSlot
  /\ subStranded' = (subStranded \/ Status(d) \notin Active)
  /\ UNCHANGED <<subRow, subParent, subKills, subFaults, subWoken, subUnheard, subCut>>

(* It commits running, over a kill that came in between.                   *)
ExecuteAdmit(x) ==
  /\ subSlot[x].at = "admitted"
  /\ subRow' = [subRow EXCEPT ![subSlot[x].run].status = "running"]
  /\ subSlot' = [subSlot EXCEPT ![x].at = "running"]
  /\ UNCHANGED <<subParent, subJobs, subKills, subFaults, subWoken, subHistory>>

(* The loop is over: the row is read again, and decides with the outcome   *)
(* what is written and whether the parent is woken.                        *)
Outcome(status, loop) == IF status = "cancelled" THEN "cancelled" ELSE loop

ExecuteEnd(x, loop) ==
  LET d == subSlot[x].run IN
  /\ subSlot[x].at = "running"
  /\ subSlot' = [subSlot EXCEPT ![x].at = "over", ![x].out = Outcome(Status(d), loop),
                                     ![x].tell = subRow[d].background]
  /\ UNCHANGED <<subRow, subParent, subJobs, subKills, subFaults, subWoken, subHistory>>

(* Slip: a child that was killed or failed does not wake its parent.       *)
ExecuteWriteQuiet(x) ==
  LET s == subSlot[x] IN
  /\ s.at = "over"
  /\ subRow' = [subRow EXCEPT ![s.run].status = s.out]
  /\ subSlot' = [subSlot EXCEPT ![x].at = IF s.tell /\ s.out = "completed" THEN "wake"
                                          ELSE "next"]
  /\ UNCHANGED <<subParent, subJobs, subKills, subFaults, subWoken, subHistory>>

(* The commit, over a kill that came in between.                           *)
ExecuteWrite(x) ==
  LET d == subSlot[x].run IN
  /\ subSlot[x].at = "over"
  /\ subRow' = [subRow EXCEPT ![d].status = subSlot[x].out]
  /\ subSlot' = [subSlot EXCEPT ![x].at = IF subSlot[x].tell THEN "wake" ELSE "next"]
  /\ UNCHANGED <<subParent, subJobs, subKills, subFaults, subWoken, subHistory>>

ExecuteWake(x) ==
  /\ subSlot[x].at = "wake"
  /\ subWoken' = subWoken \cup {subSlot[x].run}
  /\ subSlot' = [subSlot EXCEPT ![x].at = "next"]
  /\ UNCHANGED <<subRow, subParent, subJobs, subKills, subFaults, subHistory>>

(* Slip: a child that did not complete starts no other.                    *)
ExecuteNextIfDone(x) ==
  LET queued == {d \in Subs : Status(d) = "queued" /\ subSlot[x].out = "completed"} IN
  /\ subSlot[x].at = "next"
  /\ IF queued = {} THEN UNCHANGED subJobs
     ELSE Enqueue(CHOOSE d \in queued : \A e \in queued : d <= e)
  /\ subSlot' = [subSlot EXCEPT ![x] = SlotIdle]
  /\ UNCHANGED <<subRow, subParent, subKills, subFaults, subWoken, subHistory>>

(* _start_next_queued: the oldest queued child, one.                       *)
ExecuteNext(x) ==
  LET queued == {d \in Subs : Status(d) = "queued"} IN
  /\ subSlot[x].at = "next"
  /\ IF queued = {} THEN UNCHANGED subJobs
     ELSE Enqueue(CHOOSE d \in queued : \A e \in queued : d <= e)
  /\ subSlot' = [subSlot EXCEPT ![x] = SlotIdle]
  /\ UNCHANGED <<subRow, subParent, subKills, subFaults, subWoken, subHistory>>

-----------------------------------------------------------------------------
(* kill: the row, and the task when it is one of this process.  A task     *)
(* that is not in its loop any more dies where it is.                      *)
Kill(d) ==
  LET mine(x) == subSlot[x].local /\ subSlot[x].run = d
      dies(x) == mine(x) /\ subSlot[x].at # "running"
  IN
  /\ subKills < MaxSubKills /\ subKills' = subKills + 1
  /\ Status(d) \in Active
  /\ subRow' = [subRow EXCEPT ![d].status = "cancelled"]
  /\ subSlot' = [x \in SubSlots |-> IF dies(x) THEN SlotIdle ELSE subSlot[x]]
  /\ subCut' = (subCut \/ \E x \in SubSlots : dies(x))
  /\ UNCHANGED <<subParent, subJobs, subFaults, subWoken, subUnheard, subStranded>>

(* The worker is killed: arq runs its jobs again, the rest is gone.        *)
SubCrash ==
  LET again(d) == Cardinality({x \in SubSlots : subSlot[x].run = d /\ ~subSlot[x].local}) IN
  /\ subFaults < MaxSubFaults /\ subFaults' = subFaults + 1
  /\ subJobs' = [d \in Subs |-> subJobs[d] + again(d)]
  /\ subSlot' = [x \in SubSlots |-> SlotIdle]
  /\ subParent' = [p \in SubParents |-> SubIdle]
  /\ subCut' = TRUE
  /\ UNCHANGED <<subRow, subKills, subWoken, subUnheard, subStranded>>

(* clear_stale_runtime: a row that has been running for 15 minutes, whoever *)
(* runs it or is about to.                                                  *)
SubClear(d) ==
  /\ Status(d) = "running"
  /\ subRow' = [subRow EXCEPT ![d].status = "failed"]
  /\ subUnheard' = IF \E x \in SubSlots : subSlot[x].run = d THEN subUnheard
                   ELSE subUnheard \cup {d}
  /\ UNCHANGED <<subParent, subJobs, subSlot, subKills, subFaults, subWoken, subCut,
                 subStranded>>

SubRun ==
  \/ \E p \in SubParents : SpawnStart(p) \/ SpawnWaited(p, FALSE)
  \/ \E x \in SubSlots, d \in Subs : ExecuteTake(x, d)
  \/ \E x \in SubSlots, loop \in {"completed", "failed", "cancelled"} : ExecuteEnd(x, loop)
  \/ \E x \in SubSlots : \/ ExecuteAdmit(x) \/ ExecuteWrite(x)
                         \/ ExecuteWake(x) \/ ExecuteNext(x)

SubOther ==
  \/ \E p \in SubParents : SpawnCount(p) \/ SpawnWaited(p, TRUE)
  \/ \E p \in SubParents, d \in Subs, b \in BOOLEAN, x \in SubSlots : SpawnInsert(p, d, b, x)
  \/ \E d \in Subs : Kill(d) \/ SubClear(d)
  \/ SubCrash

SubNext == SubRun \/ SubOther

SubSpec == SubInit /\ [][SubNext]_subVars

-----------------------------------------------------------------------------
(* The limit is passed at most by the calls that have counted and not yet  *)
(* written: never by more than the actors less one, however children       *)
(* start, end, are killed and start each other.                            *)
LimitOvershoot ==
  Cardinality(Running) < SubLimit + Cardinality(SubParents) + Cardinality(SubSlots)

(* The end of a background child wakes its parent, or its slot is about    *)
(* to, unless a call was cut off.  An inline child that was told to report *)
(* after it had looked for the last time does not, nor one that was        *)
(* cleared as stale before its job began.                                  *)
ParentHears ==
  \A d \in Subs :
    Status(d) \in {"completed", "failed"} /\ subRow[d].background /\ ~subCut =>
      d \in subWoken \cup subUnheard \/ \E x \in SubSlots : subSlot[x].run = d

(* A queued child starts or ends, unless a call was cut off, it was queued *)
(* behind children that were over when it was written, or the child it     *)
(* waits for was killed or cleared before its job began (that job starts   *)
(* no other).                                                              *)
QueuedChildStarts ==
  \A d \in Subs : Status(d) = "queued" ~> (Status(d) # "queued" \/ subCut \/ subStranded)
=============================================================================
