----------------------------- MODULE AgentTasks -----------------------------
(***************************************************************************)
(* One agent task of the orchestration: services/orchestration/dispatcher  *)
(* (create, scheduler tick, resume, cancel), queue.py and the segments of  *)
(* runner.py, run by run_agent_task_segment_job.                           *)
(*                                                                         *)
(* A caller commits the task and enqueues its segment afterwards, or runs  *)
(* it itself when Redis does not answer.  A segment keeps the ORM object   *)
(* it read at its start while the model works; what it writes at its end   *)
(* goes by that copy.                                                      *)
(*                                                                         *)
(* Abstractions: the schedule of the task is later, due or none; what a    *)
(* segment comes to (an answer, a failed evaluation, a spent budget, an    *)
(* error) is free; follow-ups of people and workflow states that tools set *)
(* during a run are not here.                                              *)
(***************************************************************************)
EXTENDS Naturals, FiniteSets

CONSTANTS
  TaskCallers,    \* requests and scheduler ticks
  TaskSlots,      \* coroutines that run segments
  TaskApiSlots,   \* those of the API, inside a caller
  TaskRetries,    \* evaluations that may fail before the task does
  MaxTaskCalls,   \* bound: resume and cancel calls
  MaxTaskFaults   \* bound: killed processes, segments that were lost

ASSUME TaskConstants ==
  /\ IsFiniteSet(TaskSlots) /\ TaskApiSlots \subseteq TaskSlots
  /\ {TaskRetries, MaxTaskCalls, MaxTaskFaults} \subseteq Nat

VARIABLES
  task,         \* the row of agent_tasks
  taskCaller,   \* what each caller does
  taskJobs,     \* run_agent_task_segment_job copies that wait in arq
  taskSlot,     \* what each segment does
  taskCalls,
  taskFaults,
  taskStarts,   \* history: times a segment was asked for from outside
  taskSegs,     \* history: segments that began
  taskCut       \* history: a caller or a segment was cut off

taskVars == <<task, taskCaller, taskJobs, taskSlot, taskCalls, taskFaults, taskStarts,
              taskSegs, taskCut>>
taskCounts == <<taskStarts, taskSegs>>

Terminal   == {"completed", "failed", "cancelled"}
TaskStates == Terminal \cup {"none", "queued", "running", "paused"}
CallIdle   == "idle"
SegIdle    == [at |-> "idle", retries |-> 0, run |-> "none", tick |-> FALSE]

TaskTypeOK ==
  /\ task \in [status : TaskStates, due : {"none", "later", "due"}, retries : 0..TaskRetries]
  /\ taskCaller \in [TaskCallers -> {"idle", "promoting", "promoted", "committed"}]
  /\ taskJobs \in Nat
  /\ taskSlot \in [TaskSlots -> [at : {"idle", "working", "retrying"},
                                 retries : 0..TaskRetries,
                                 run : {"none", "running", "completed", "cancelled"},
                                 tick : BOOLEAN]]
  /\ taskCalls \in 0..MaxTaskCalls
  /\ taskFaults \in 0..MaxTaskFaults
  /\ taskStarts \in Nat /\ taskSegs \in Nat
  /\ taskCut \in BOOLEAN

TaskInit ==
  /\ task = [status |-> "none", due |-> "none", retries |-> 0]
  /\ taskCaller = [c \in TaskCallers |-> CallIdle]
  /\ taskJobs = 0
  /\ taskSlot = [x \in TaskSlots |-> SegIdle]
  /\ taskCalls = 0 /\ taskFaults = 0
  /\ taskStarts = 0 /\ taskSegs = 0
  /\ taskCut = FALSE

(* create_agent_task: a task with a date sleeps, another is started.       *)
CreateTask(c, due) ==
  /\ task.status = "none" /\ taskCaller[c] = "idle"
  /\ task' = [task EXCEPT !.status = "queued", !.due = due]
  /\ taskCaller' = [taskCaller EXCEPT ![c] = IF due = "none" THEN "committed" ELSE "idle"]
  /\ UNCHANGED <<taskJobs, taskSlot, taskCalls, taskFaults, taskCounts, taskCut>>

TaskClock ==
  /\ task.due = "later"
  /\ task' = [task EXCEPT !.due = "due"]
  /\ UNCHANGED <<taskCaller, taskJobs, taskSlot, taskCalls, taskFaults, taskCounts, taskCut>>

(* process_due_scheduled_tasks: the rows are read in one go, ...           *)
TickRead(c) ==
  /\ taskCaller[c] = "idle"
  /\ task.status = "queued" /\ task.due = "due"
  /\ taskCaller' = [taskCaller EXCEPT ![c] = "promoting"]
  /\ UNCHANGED <<task, taskJobs, taskSlot, taskCalls, taskFaults, taskCounts, taskCut>>

(* ... and each is promoted in its turn, as it was read.                   *)
Promoted == [task EXCEPT !.status = "running", !.due = "none"]

(* Slip: the tick promotes the task and enqueues nothing.                  *)
TickPromoteOnly(c) ==
  /\ taskCaller[c] = "promoting"
  /\ task' = Promoted
  /\ taskCaller' = [taskCaller EXCEPT ![c] = "idle"]
  /\ UNCHANGED <<taskJobs, taskSlot, taskCalls, taskFaults, taskCounts, taskCut>>

TickPromote(c) ==
  /\ taskCaller[c] = "promoting"
  /\ task' = Promoted
  /\ taskCaller' = [taskCaller EXCEPT ![c] = "promoted"]
  /\ UNCHANGED <<taskJobs, taskSlot, taskCalls, taskFaults, taskCounts, taskCut>>

(* resume_agent_task.                                                      *)
ResumeTask(c) ==
  /\ taskCalls < MaxTaskCalls /\ taskCalls' = taskCalls + 1
  /\ taskCaller[c] = "idle"
  /\ task.status \in {"paused", "queued"}
  /\ task' = [task EXCEPT !.status = "running"]
  /\ taskCaller' = [taskCaller EXCEPT ![c] = "committed"]
  /\ UNCHANGED <<taskJobs, taskSlot, taskFaults, taskCounts, taskCut>>

(* cancel_agent_task: the task, whatever its status, and its runs.         *)
CancelTask ==
  /\ taskCalls < MaxTaskCalls /\ taskCalls' = taskCalls + 1
  /\ task.status # "none"
  /\ task' = [task EXCEPT !.status = "cancelled"]
  /\ taskSlot' = [x \in TaskSlots |-> IF taskSlot[x].run = "running"
                                      THEN [taskSlot[x] EXCEPT !.run = "cancelled"]
                                      ELSE taskSlot[x]]
  /\ UNCHANGED <<taskCaller, taskJobs, taskFaults, taskCounts, taskCut>>

-----------------------------------------------------------------------------
(* Slip: a cancelled task is not over.                                     *)
IsSettled(t) == t.status \in {"completed", "failed"}

(* A segment that is asked for begins unless the task is over.             *)
IsOver(t) == t.status \in Terminal

SegBegin(x, tick) ==
  IF IsOver(task)
  THEN UNCHANGED <<task, taskSlot, taskSegs>>
  ELSE /\ task' = [task EXCEPT !.status = "running"]
       /\ taskSlot' = [taskSlot EXCEPT ![x] =
                         [at |-> "working", retries |-> task.retries, run |-> "running",
                          tick |-> tick]]
       /\ taskSegs' = taskSegs + 1

(* enqueue_agent_task_segment, or the segment inside the caller.           *)
HasCommitted(c) == taskCaller[c] \in {"promoted", "committed"}

StartByArq(c) ==
  /\ HasCommitted(c)
  /\ taskJobs' = taskJobs + 1
  /\ taskStarts' = taskStarts + 1
  /\ taskCaller' = [taskCaller EXCEPT ![c] = "idle"]
  /\ UNCHANGED <<task, taskSlot, taskCalls, taskFaults, taskSegs, taskCut>>

StartInline(c, x) ==
  /\ HasCommitted(c)
  /\ x \in TaskApiSlots /\ taskSlot[x].at = "idle"
  /\ SegBegin(x, taskCaller[c] = "promoted")
  /\ taskStarts' = taskStarts + 1
  /\ taskCaller' = [taskCaller EXCEPT ![c] = "idle"]
  /\ UNCHANGED <<taskJobs, taskCalls, taskFaults, taskCut>>

SegTake(x) ==
  /\ x \notin TaskApiSlots /\ taskSlot[x].at = "idle" /\ taskJobs > 0
  /\ taskJobs' = taskJobs - 1
  /\ SegBegin(x, FALSE)
  /\ UNCHANGED <<taskCaller, taskCalls, taskFaults, taskStarts, taskCut>>

(* The end of a segment: its run is completed and the task gets the status *)
(* of the outcome, whatever the rows say by now.                           *)
SegOutcome(x, status) ==
  /\ taskSlot[x].at = "working"
  /\ task' = [task EXCEPT !.status = status]
  /\ taskSlot' = [taskSlot EXCEPT ![x] = SegIdle]
  /\ UNCHANGED <<taskCaller, taskJobs, taskCalls, taskFaults, taskCounts, taskCut>>

(* Slip: one retry too many.                                               *)
HasRetryOrOne(n) == n <= TaskRetries

(* A failed evaluation: the count of the copy goes up; at its limit the    *)
(* task has failed.                                                        *)
HasRetry(n) == n < TaskRetries

SegEval(x) ==
  LET n == taskSlot[x].retries IN
  /\ taskSlot[x].at = "working"
  /\ IF HasRetry(n)
     THEN /\ task' = [task EXCEPT !.retries = n + 1]
          /\ taskSlot' = [taskSlot EXCEPT ![x] =
                [@ EXCEPT !.at = "retrying", !.retries = n + 1, !.run = "completed"]]
     ELSE /\ task' = [task EXCEPT !.status = "failed"]
          /\ taskSlot' = [taskSlot EXCEPT ![x] = SegIdle]
  /\ UNCHANGED <<taskCaller, taskJobs, taskCalls, taskFaults, taskCounts, taskCut>>

(* The retry: a job, or the same session again, which still holds its copy *)
(* and does not look at the row.                                           *)
SegRetry(x, redis) ==
  /\ taskSlot[x].at = "retrying"
  /\ taskJobs' = IF redis THEN taskJobs + 1 ELSE taskJobs
  /\ taskSlot' = [taskSlot EXCEPT ![x] =
       IF redis THEN SegIdle ELSE [@ EXCEPT !.at = "working", !.run = "running"]]
  /\ taskSegs' = IF redis THEN taskSegs ELSE taskSegs + 1
  /\ UNCHANGED <<task, taskCaller, taskCalls, taskFaults, taskStarts, taskCut>>

-----------------------------------------------------------------------------
(* The worker is killed: arq runs its jobs again.                          *)
TaskKillWorker ==
  LET lost == {x \in TaskSlots \ TaskApiSlots : taskSlot[x].at # "idle"} IN
  /\ taskFaults < MaxTaskFaults /\ taskFaults' = taskFaults + 1
  /\ taskJobs' = taskJobs + Cardinality(lost)
  /\ taskSlot' = [x \in TaskSlots |-> IF x \in lost THEN SegIdle ELSE taskSlot[x]]
  /\ UNCHANGED <<task, taskCaller, taskCalls, taskCounts, taskCut>>

(* The API is killed with its callers and the segments inside them.        *)
TaskKillApi ==
  /\ taskFaults < MaxTaskFaults /\ taskFaults' = taskFaults + 1
  /\ taskCaller' = [c \in TaskCallers |-> "idle"]
  /\ taskSlot' = [x \in TaskSlots |-> IF x \in TaskApiSlots THEN SegIdle ELSE taskSlot[x]]
  /\ taskCut' = TRUE
  /\ UNCHANGED <<task, taskJobs, taskCalls, taskCounts>>

(* arq drops a job at its timeout, or the part after the model's work      *)
(* raises: no except of the segment is around it, and no other run         *)
(* follows.  A tick that ran the segment itself puts the date back.        *)
SegLost(x) ==
  /\ taskSlot[x].at # "idle"
  /\ taskFaults < MaxTaskFaults /\ taskFaults' = taskFaults + 1
  /\ taskSlot' = [taskSlot EXCEPT ![x] = SegIdle]
  /\ IF taskSlot[x].tick /\ task.status = "running"
     THEN /\ task' = [task EXCEPT !.status = "queued", !.due = "due"]
          /\ UNCHANGED taskCut
     ELSE UNCHANGED task /\ taskCut' = TRUE
  /\ UNCHANGED <<taskCaller, taskJobs, taskCalls, taskCounts>>

TaskRun ==
  \/ TaskClock
  \/ \E c \in TaskCallers : \/ TickRead(c) \/ TickPromote(c) \/ StartByArq(c)
                            \/ \E x \in TaskSlots : StartInline(c, x)
  \/ \E x \in TaskSlots :
       \/ SegTake(x) \/ SegEval(x)
       \/ \E s \in {"completed", "paused", "failed"} : SegOutcome(x, s)
       \/ \E redis \in BOOLEAN : SegRetry(x, redis)

TaskOther ==
  \/ \E c \in TaskCallers : \/ \E due \in {"none", "later"} : CreateTask(c, due)
                            \/ ResumeTask(c)
  \/ CancelTask \/ TaskKillWorker \/ TaskKillApi
  \/ \E x \in TaskSlots : SegLost(x)

TaskNext == TaskRun \/ TaskOther

TaskSpec == TaskInit /\ [][TaskNext]_taskVars

-----------------------------------------------------------------------------
(* What a task is started for is bounded: each start from outside is good  *)
(* for one segment and its retries, and each killed worker repeats at most *)
(* the segments it had, although the count of retries is written from a    *)
(* copy.                                                                   *)
SegmentsBounded ==
  taskStarts <= 1 => taskSegs <= 1 + TaskRetries + taskFaults

(* A task that is started, or has a date, comes to rest: an outcome or a   *)
(* pause.  Only a caller or a segment that was cut off can leave it.       *)
TaskRests ==
  task.status \in {"queued", "running"} ~>
    (task.status \notin {"queued", "running"} \/ taskCut)

NobodyWorks == /\ \A x \in TaskSlots : taskSlot[x].at = "idle"
               /\ \A c \in TaskCallers : taskCaller[c] = "idle"

(* run_cancel.py calls the cancelled row the durable source of truth.      *)
(* It is, once no segment works on an older copy and no caller is about to *)
(* start one: jobs that wait, ticks and resumes never revive the task.     *)
CancelHolds ==
  [][task.status = "cancelled" /\ NobodyWorks => task'.status = "cancelled"]_taskVars
=============================================================================
