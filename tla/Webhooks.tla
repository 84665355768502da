------------------------------ MODULE Webhooks ------------------------------
(***************************************************************************)
(* Outbound webhooks: services/webhooks.py, the job and its enqueue in     *)
(* workers/tasks.py and the requests of routers/webhooks.py.               *)
(*                                                                         *)
(* A request inserts one delivery row for each endpoint and hands them     *)
(* over afterwards, one by one: to arq, or to a task of its own process    *)
(* when Redis does not answer.  arq runs a job again whose worker was      *)
(* killed; what the API process carries dies with it.                      *)
(*                                                                         *)
(* Abstractions: row <<e, n>> is the n-th delivery of endpoint e, in the   *)
(* order of created_at; an event is the set of endpoints it matches; an    *)
(* enqueue that raises did not enqueue; a Redis queue is never lost.       *)
(***************************************************************************)
EXTENDS Naturals, FiniteSets

CONSTANTS
  HookEndpoints,
  HookApiSlots,     \* coroutines of the API: tests and in-process deliveries
  HookWorkSlots,    \* coroutines of the arq worker
  HookTries,        \* _MAX_ATTEMPTS
  HookKeep,         \* _KEEP_DELIVERIES_PER_ENDPOINT
  MaxHookRows,      \* bound: rows of each endpoint
  MaxHookToggles,   \* bound: changes of an endpoint
  MaxHookFaults     \* bound: killed processes

ASSUME HookConstants ==
  /\ HookApiSlots \cap HookWorkSlots = {}
  /\ HookTries \in Nat \ {0}
  /\ HookKeep \in Nat
  /\ MaxHookRows \in [HookEndpoints -> Nat]
  /\ {MaxHookToggles, MaxHookFaults} \subseteq Nat

VARIABLES
  hookEndpoint,   \* webhook_endpoints: active, inactive or gone
  hookRow,        \* status of each row of webhook_deliveries
  hookEmit,       \* emit_webhook_event: idle, inserted or sending
  hookUnsent,     \* its rows that are not handed over yet
  hookQueue,      \* deliver_webhook_job of these rows waits in arq
  hookTasks,      \* in-process tasks for these rows wait in the API
  hookSlot,       \* what each coroutine does
  hookToggles,
  hookFaults,
  hookGot,        \* history: rows the receiver accepted
  hookPosts,      \* history: POSTs of a row
  hookCut         \* history: rows whose hand-over was cut off

hookVars == <<hookEndpoint, hookRow, hookEmit, hookUnsent, hookQueue, hookTasks,
              hookSlot, hookToggles, hookFaults, hookGot, hookPosts, hookCut>>

HookRows  == UNION {{e} \X (1..MaxHookRows[e]) : e \in HookEndpoints}
HookSlots == HookApiSlots \cup HookWorkSlots
NoRow     == <<"none", 0>>
HookIdle  == [phase |-> "idle", row |-> NoRow, try |-> 0, ok |-> FALSE]

HookTypeOK ==
  /\ hookEndpoint \in [HookEndpoints -> {"active", "inactive", "gone"}]
  /\ hookRow \in [HookRows -> {"none", "pending", "delivered", "failed", "deleted"}]
  /\ hookEmit \in {"idle", "inserted", "sending"}
  /\ hookUnsent \subseteq HookRows /\ hookQueue \subseteq HookRows
  /\ hookTasks \subseteq HookRows
  /\ hookGot \subseteq HookRows /\ hookCut \subseteq HookRows
  /\ hookSlot \in [HookSlots -> [phase : {"idle", "posting", "settling", "pruning"},
                                 row : HookRows \cup {NoRow},
                                 try : 0..HookTries, ok : BOOLEAN]]
  /\ hookToggles \in 0..MaxHookToggles
  /\ hookFaults \in 0..MaxHookFaults
  /\ hookPosts \in [HookRows -> Nat]

HookInit ==
  /\ hookEndpoint = [e \in HookEndpoints |-> "active"]
  /\ hookRow = [d \in HookRows |-> "none"]
  /\ hookEmit = "idle"
  /\ hookUnsent = {} /\ hookQueue = {} /\ hookTasks = {}
  /\ hookSlot = [w \in HookSlots |-> HookIdle]
  /\ hookToggles = 0 /\ hookFaults = 0
  /\ hookGot = {} /\ hookCut = {}
  /\ hookPosts = [d \in HookRows |-> 0]

hookHistory == <<hookGot, hookPosts, hookCut>>
hookBounds  == <<hookToggles, hookFaults>>

(* Row d is the next one of its endpoint.                                  *)
IsNextRow(d) ==
  /\ hookRow[d] = "none"
  /\ \A n \in 1..(d[2] - 1) : hookRow[<<d[1], n>>] # "none"

(* emit_webhook_event: the rows of the matching active endpoints, then     *)
(* commit.                                                                 *)
HookEmit(D) ==
  /\ hookEmit = "idle"
  /\ D # {}
  /\ \A d \in D : IsNextRow(d) /\ hookEndpoint[d[1]] = "active"
  /\ hookRow' = [d \in HookRows |-> IF d \in D THEN "pending" ELSE hookRow[d]]
  /\ hookUnsent' = D
  /\ hookEmit' = "inserted"
  /\ UNCHANGED <<hookEndpoint, hookQueue, hookTasks, hookSlot, hookBounds, hookHistory>>

(* Every row is refreshed first; one that is gone by then raises, and the  *)
(* except hands over none of them.                                         *)
HookRefresh ==
  /\ hookEmit = "inserted"
  /\ IF \A d \in hookUnsent : hookRow[d] # "deleted"
     THEN hookEmit' = "sending" /\ UNCHANGED <<hookUnsent, hookCut>>
     ELSE /\ hookEmit' = "idle"
          /\ hookCut' = hookCut \cup hookUnsent
          /\ hookUnsent' = {}
  /\ UNCHANGED <<hookEndpoint, hookRow, hookQueue, hookTasks, hookSlot, hookBounds,
                 hookGot, hookPosts>>

(* enqueue_webhook_delivery: arq, or a task of this process when it fails. *)
HookHandOver(d, redis) ==
  /\ hookEmit = "sending"
  /\ d \in hookUnsent
  /\ hookUnsent' = hookUnsent \ {d}
  /\ hookEmit' = IF hookUnsent = {d} THEN "idle" ELSE "sending"
  /\ hookQueue' = IF redis THEN hookQueue \cup {d} ELSE hookQueue
  /\ hookTasks' = IF redis THEN hookTasks ELSE hookTasks \cup {d}
  /\ UNCHANGED <<hookEndpoint, hookRow, hookSlot, hookBounds, hookHistory>>

(* Slip: an endpoint that is inactive ends the job, and its row stays      *)
(* pending.                                                                *)
HookBeginSilent(w, d) ==
  /\ hookSlot' = IF hookEndpoint[d[1]] # "active" THEN hookSlot
                 ELSE [hookSlot EXCEPT ![w] =
                        [phase |-> "posting", row |-> d, try |-> 1, ok |-> FALSE]]
  /\ UNCHANGED hookRow

(* perform_delivery, up to its first POST: an endpoint that is inactive    *)
(* ends the delivery at once.                                              *)
HookBegin(w, d) ==
  IF hookEndpoint[d[1]] = "active"
  THEN /\ hookSlot' = [hookSlot EXCEPT ![w] =
                         [phase |-> "posting", row |-> d, try |-> 1, ok |-> FALSE]]
       /\ UNCHANGED hookRow
  ELSE /\ hookRow' = [hookRow EXCEPT ![d] = "failed"]
       /\ UNCHANGED hookSlot

(* Slip: a job that runs again delivers whatever the row says.             *)
IsStillThere(d) == hookRow[d] # "deleted"

(* deliver_webhook_job: only a row that is still pending is delivered.     *)
IsStillPending(d) == hookRow[d] = "pending"

HookTake(w, d) ==
  /\ hookSlot[w].phase = "idle"
  /\ \/ w \in HookWorkSlots /\ d \in hookQueue
        /\ hookQueue' = hookQueue \ {d} /\ UNCHANGED hookTasks
     \/ w \in HookApiSlots /\ d \in hookTasks
        /\ hookTasks' = hookTasks \ {d} /\ UNCHANGED hookQueue
  /\ IF IsStillPending(d) THEN HookBegin(w, d) ELSE UNCHANGED <<hookRow, hookSlot>>
  /\ UNCHANGED <<hookEndpoint, hookEmit, hookUnsent, hookBounds, hookHistory>>

(* test_webhook: a row of its own, delivered inside the request; that of    *)
(* an inactive endpoint fails at once.                                     *)
HookTest(w, d) ==
  /\ w \in HookApiSlots /\ hookSlot[w].phase = "idle"
  /\ IsNextRow(d) /\ hookEndpoint[d[1]] # "gone"
  /\ IF hookEndpoint[d[1]] = "active"
     THEN /\ hookRow' = [hookRow EXCEPT ![d] = "pending"]
          /\ hookSlot' = [hookSlot EXCEPT ![w] =
                            [phase |-> "posting", row |-> d, try |-> 1, ok |-> FALSE]]
     ELSE hookRow' = [hookRow EXCEPT ![d] = "failed"] /\ UNCHANGED hookSlot
  /\ UNCHANGED <<hookEndpoint, hookEmit, hookUnsent, hookQueue, hookTasks, hookBounds,
                 hookHistory>>

(* Slip: one try too many.                                                 *)
HasTriesLeftOrOne(n) == n <= HookTries

(* One attempt.  A receiver may accept it and its answer be lost.          *)
HasTriesLeft(n) == n < HookTries

HookPost(w, accepted, answered) ==
  LET s == hookSlot[w] IN
  /\ s.phase = "posting"
  /\ hookPosts' = [hookPosts EXCEPT ![s.row] = @ + 1]
  /\ hookGot' = IF accepted THEN hookGot \cup {s.row} ELSE hookGot
  /\ hookSlot' = [hookSlot EXCEPT ![w] =
                    IF accepted /\ answered
                    THEN [s EXCEPT !.phase = "settling", !.ok = TRUE]
                    ELSE IF HasTriesLeft(s.try) THEN [s EXCEPT !.try = @ + 1]
                    ELSE [s EXCEPT !.phase = "settling"]]
  /\ UNCHANGED <<hookEndpoint, hookRow, hookEmit, hookUnsent, hookQueue, hookTasks,
                 hookBounds, hookCut>>

(* The outcome is committed.  A row that is gone by then fails the commit  *)
(* (StaleDataError), which ends the job.                                   *)
HookSettle(w) ==
  LET s == hookSlot[w] IN
  /\ s.phase = "settling"
  /\ IF hookRow[s.row] = "deleted"
     THEN hookSlot' = [hookSlot EXCEPT ![w] = HookIdle] /\ UNCHANGED hookRow
     ELSE /\ hookRow' = [hookRow EXCEPT ![s.row] = IF s.ok THEN "delivered" ELSE "failed"]
          /\ hookSlot' = [hookSlot EXCEPT ![w].phase = "pruning"]
  /\ UNCHANGED <<hookEndpoint, hookEmit, hookUnsent, hookQueue, hookTasks, hookBounds,
                 hookHistory>>

(* _prune_deliveries: all but the newest rows of the endpoint, whatever    *)
(* their status.                                                           *)
IsKept(d) ==
  Cardinality({n \in (d[2] + 1)..MaxHookRows[d[1]] :
                 hookRow[<<d[1], n>>] \notin {"none", "deleted"}}) < HookKeep

HookPrune(w) ==
  /\ hookSlot[w].phase = "pruning"
  /\ hookRow' = [d \in HookRows |->
                   IF /\ d[1] = hookSlot[w].row[1]
                      /\ hookRow[d] # "none" /\ ~IsKept(d)
                   THEN "deleted" ELSE hookRow[d]]
  /\ hookSlot' = [hookSlot EXCEPT ![w] = HookIdle]
  /\ UNCHANGED <<hookEndpoint, hookEmit, hookUnsent, hookQueue, hookTasks, hookBounds,
                 hookHistory>>

(* update_webhook: the switch.                                             *)
HookToggle(e) ==
  /\ hookToggles < MaxHookToggles /\ hookToggles' = hookToggles + 1
  /\ hookEndpoint[e] # "gone"
  /\ hookEndpoint' = [hookEndpoint EXCEPT ![e] = IF @ = "active" THEN "inactive"
                                                 ELSE "active"]
  /\ UNCHANGED <<hookRow, hookEmit, hookUnsent, hookQueue, hookTasks, hookSlot,
                 hookFaults, hookHistory>>

(* delete_webhook: its deliveries, then the endpoint.                      *)
HookDelete(e) ==
  /\ hookToggles < MaxHookToggles /\ hookToggles' = hookToggles + 1
  /\ hookEndpoint[e] # "gone"
  /\ hookEndpoint' = [hookEndpoint EXCEPT ![e] = "gone"]
  /\ hookRow' = [d \in HookRows |-> IF d[1] = e /\ hookRow[d] # "none" THEN "deleted"
                                    ELSE hookRow[d]]
  /\ UNCHANGED <<hookEmit, hookUnsent, hookQueue, hookTasks, hookSlot, hookFaults,
                 hookHistory>>

(* Slip: a job whose attempts are over is taken for done.                  *)
HookRerunsPosting ==
  {hookSlot[w].row : w \in {v \in HookWorkSlots : hookSlot[v].phase = "posting"}}

(* The worker is killed: arq hands its jobs to the next worker.            *)
HookReruns == {hookSlot[w].row : w \in {v \in HookWorkSlots : hookSlot[v].phase # "idle"}}

HookKillWorker ==
  /\ hookFaults < MaxHookFaults /\ hookFaults' = hookFaults + 1
  /\ hookQueue' = hookQueue \cup HookReruns
  /\ hookSlot' = [w \in HookSlots |-> IF w \in HookWorkSlots THEN HookIdle
                                      ELSE hookSlot[w]]
  /\ UNCHANGED <<hookEndpoint, hookRow, hookEmit, hookUnsent, hookTasks, hookToggles,
                 hookHistory>>

(* The API is killed, and everything it carries with it.                   *)
HookKillApi ==
  /\ hookFaults < MaxHookFaults /\ hookFaults' = hookFaults + 1
  /\ hookCut' = hookCut \cup hookUnsent \cup hookTasks \cup
                {hookSlot[w].row : w \in {v \in HookApiSlots : hookSlot[v].phase # "idle"}}
  /\ hookEmit' = "idle" /\ hookUnsent' = {} /\ hookTasks' = {}
  /\ hookSlot' = [w \in HookSlots |-> IF w \in HookApiSlots THEN HookIdle
                                      ELSE hookSlot[w]]
  /\ UNCHANGED <<hookEndpoint, hookRow, hookQueue, hookToggles, hookGot, hookPosts>>

(* What a process that lives does by itself.                               *)
HookRun ==
  \/ HookRefresh
  \/ \E d \in HookRows, redis \in BOOLEAN : HookHandOver(d, redis)
  \/ \E w \in HookSlots, d \in HookRows : HookTake(w, d)
  \/ \E w \in HookSlots, a, b \in BOOLEAN : HookPost(w, a, b)
  \/ \E w \in HookSlots : HookSettle(w) \/ HookPrune(w)

HookAsked ==
  \/ \E D \in SUBSET HookRows : HookEmit(D)
  \/ \E w \in HookSlots, d \in HookRows : HookTest(w, d)
  \/ \E e \in HookEndpoints : HookToggle(e) \/ HookDelete(e)

HookNext == HookRun \/ HookAsked \/ HookKillWorker \/ HookKillApi

HookSpec == HookInit /\ [][HookNext]_hookVars

-----------------------------------------------------------------------------
(* A row is carried: somebody will still try it.                           *)
IsCarried(d) ==
  \/ d \in hookUnsent \cup hookQueue \cup hookTasks
  \/ \E w \in HookSlots : hookSlot[w].phase # "idle" /\ hookSlot[w].row = d

(* A delivery that is recorded as delivered stays so: a job that runs      *)
(* again after its worker was killed, even between the outcome and its     *)
(* end, does not turn it into a failure.                                   *)
DeliveredStays ==
  [][\A d \in HookRows :
       hookRow[d] = "delivered" => hookRow'[d] \in {"delivered", "deleted"}]_hookVars

(* What is recorded as delivered was accepted by the receiver, and a       *)
(* receiver sees one event at most HookTries times for each run of its     *)
(* job, that is once more for each killed worker.                          *)
PostsBounded ==
  \A d \in HookRows :
    /\ hookRow[d] = "delivered" => d \in hookGot
    /\ hookPosts[d] <= HookTries * (1 + hookFaults)

(* A pending row that nobody carries lost its request: the API was killed  *)
(* between the commit and the hand-over, or a sibling row was deleted in   *)
(* between.  Nothing else may strand a delivery.                           *)
PendingCarried ==
  \A d \in HookRows : hookRow[d] = "pending" => IsCarried(d) \/ d \in hookCut

(* Every delivery whose hand-over was not cut off is tried to an end.      *)
DeliveryEnds ==
  \A d \in HookRows :
    hookRow[d] = "pending" ~> (hookRow[d] # "pending" \/ d \in hookCut)
=============================================================================
