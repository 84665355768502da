------------------------------ MODULE Outbound ------------------------------
(***************************************************************************)
(* Replies with a send delay (services/signal_threads/reply.py): the       *)
(* composer stores them, the scheduler tick delivers those that are due,   *)
(* and the sender may undo.                                                *)
(*                                                                         *)
(* A tick reads its list once and delivers from it, message by message;    *)
(* the row still says scheduled while the provider works.                  *)
(*                                                                         *)
(* Abstractions: messages are numbered in the order of send_after; a       *)
(* delivery that raises, is refused or has lost its thread is failed.      *)
(***************************************************************************)
EXTENDS Naturals, FiniteSets

CONSTANTS
  OutTicks,       \* trigger_scheduler_loop, one for each process
  OutUndos,       \* cancel_scheduled_message requests
  OutBatch,       \* messages of one tick (25)
  MaxOut,         \* bound: messages
  MaxOutFaults    \* bound: killed processes

ASSUME OutConstants ==
  /\ OutBatch \in Nat \ {0}
  /\ {MaxOut, MaxOutFaults} \subseteq Nat

VARIABLES
  outRow,      \* send_status of each message; gone once it is deleted
  outNow,      \* messages up to this one are due
  outTick,     \* what each tick does, with the list it read
  outUndo,     \* the message each undo read
  outFaults,
  outSent,     \* history: messages that were sent, and sent again
  outAgain,
  outUndone,   \* history: messages whose text an undo gave back
  outLate,     \* history: those that a tick had in hand, or had sent
  outOverlap,  \* history: a tick began during another
  outCut       \* history: killed between a delivery and its write

outHistory == <<outSent, outAgain, outUndone, outLate, outOverlap, outCut>>
outVars    == <<outRow, outNow, outTick, outUndo, outFaults, outHistory>>

Messages == 1..MaxOut
Nothing  == 0
TickIdle == [at |-> "idle", todo |-> {}, result |-> "none"]

OutTypeOK ==
  /\ outRow \in [Messages -> {"none", "scheduled", "sent", "failed", "gone"}]
  /\ outNow \in 0..MaxOut
  /\ outTick \in [OutTicks -> [at : {"idle", "next", "tried"}, todo : SUBSET Messages,
                               result : {"none", "sent", "failed"}]]
  /\ outUndo \in [OutUndos -> 0..MaxOut]
  /\ outFaults \in 0..MaxOutFaults
  /\ outSent \subseteq Messages /\ outAgain \subseteq Messages
  /\ outUndone \subseteq Messages /\ outLate \subseteq Messages
  /\ outOverlap \in BOOLEAN /\ outCut \in BOOLEAN

OutInit ==
  /\ outRow = [m \in Messages |-> "none"]
  /\ outNow = 0
  /\ outTick = [k \in OutTicks |-> TickIdle]
  /\ outUndo = [u \in OutUndos |-> Nothing]
  /\ outFaults = 0
  /\ outSent = {} /\ outAgain = {} /\ outUndone = {} /\ outLate = {}
  /\ outOverlap = FALSE /\ outCut = FALSE

(* A reply with send_after_seconds: stored, not delivered.                 *)
OutSchedule(m) ==
  /\ outRow[m] = "none" /\ m > outNow
  /\ outRow' = [outRow EXCEPT ![m] = "scheduled"]
  /\ UNCHANGED <<outNow, outTick, outUndo, outFaults, outHistory>>

OutClock ==
  /\ outNow < MaxOut
  /\ outNow' = outNow + 1
  /\ UNCHANGED <<outRow, outTick, outUndo, outFaults, outHistory>>

-----------------------------------------------------------------------------
(* Slip: every message that is due, also one that was sent.                *)
DueAnyway == {m \in Messages : outRow[m] \notin {"none", "gone"} /\ m <= outNow}

(* deliver_due_outbound_messages: the list.                                *)
Due      == {m \in Messages : outRow[m] = "scheduled" /\ m <= outNow}
Batch(S) == {m \in S : Cardinality({l \in S : l < m}) < OutBatch}

OutRead(k) ==
  /\ outTick[k].at = "idle" /\ Due # {}
  /\ outTick' = [outTick EXCEPT ![k] = [at |-> "next", todo |-> Batch(Due),
                                        result |-> "none"]]
  /\ outOverlap' = (outOverlap \/ \E j \in OutTicks : outTick[j].at # "idle")
  /\ UNCHANGED <<outRow, outNow, outUndo, outFaults, outSent, outAgain, outUndone,
                 outLate, outCut>>

IsInHand(k, m) == m \in outTick[k].todo /\ \A l \in outTick[k].todo : m <= l

(* Slip: a refused message gets a status of its own.                       *)
OutDeliverRefused(k, m, result) ==
  LET r == IF result = "sent" THEN "sent" ELSE "refused" IN
  /\ outTick[k].at = "next" /\ IsInHand(k, m)
  /\ outTick' = [outTick EXCEPT ![k].at = "tried", ![k].result = r]
  /\ outSent' = IF r = "sent" THEN outSent \cup {m} ELSE outSent
  /\ outAgain' = IF r = "sent" /\ m \in outSent THEN outAgain \cup {m} ELSE outAgain
  /\ UNCHANGED <<outRow, outNow, outUndo, outFaults, outUndone, outLate, outOverlap, outCut>>

(* deliver_outbound: the provider takes the message, or does not.          *)
OutDeliver(k, m, result) ==
  /\ outTick[k].at = "next" /\ IsInHand(k, m)
  /\ outTick' = [outTick EXCEPT ![k].at = "tried", ![k].result = result]
  /\ outSent' = IF result = "sent" THEN outSent \cup {m} ELSE outSent
  /\ outAgain' = IF result = "sent" /\ m \in outSent THEN outAgain \cup {m} ELSE outAgain
  /\ UNCHANGED <<outRow, outNow, outUndo, outFaults, outUndone, outLate, outOverlap, outCut>>

(* Slip: a delivery that failed is scheduled again.                        *)
OutWriteAgain(k, m) ==
  LET result == IF outTick[k].result = "sent" THEN "sent" ELSE "scheduled" IN
  /\ outTick[k].at = "tried" /\ IsInHand(k, m)
  /\ outRow' = IF outRow[m] = "gone" THEN outRow ELSE [outRow EXCEPT ![m] = result]
  /\ outTick' = [outTick EXCEPT ![k] =
       IF outRow[m] = "gone" THEN TickIdle
       ELSE [at |-> "next", todo |-> @.todo \ {m}, result |-> "none"]]
  /\ UNCHANGED <<outNow, outUndo, outFaults, outHistory>>

(* Its row is written and committed; a row that was deleted meanwhile is a *)
(* StaleDataError, which ends the tick.                                    *)
OutWrite(k, m) ==
  /\ outTick[k].at = "tried" /\ IsInHand(k, m)
  /\ IF outRow[m] = "gone"
     THEN /\ outTick' = [outTick EXCEPT ![k] = TickIdle]
          /\ UNCHANGED outRow
     ELSE /\ outTick' = [outTick EXCEPT ![k] = [at |-> "next", todo |-> @.todo \ {m},
                                                result |-> "none"]]
          /\ outRow' = [outRow EXCEPT ![m] = outTick[k].result]
  /\ UNCHANGED <<outNow, outUndo, outFaults, outHistory>>

OutDone(k) ==
  /\ outTick[k].at = "next" /\ outTick[k].todo = {}
  /\ outTick' = [outTick EXCEPT ![k] = TickIdle]
  /\ UNCHANGED <<outRow, outNow, outUndo, outFaults, outHistory>>

-----------------------------------------------------------------------------
(* cancel_scheduled_message: the read, ...                                 *)
UndoRead(u, m) ==
  /\ outUndo[u] = Nothing /\ outRow[m] = "scheduled"
  /\ outUndo' = [outUndo EXCEPT ![u] = m]
  /\ UNCHANGED <<outRow, outNow, outTick, outFaults, outHistory>>

(* Slip: the text is given back and the row stays.                         *)
UndoKeeping(u) ==
  LET m == outUndo[u] IN
  /\ m # Nothing
  /\ outUndo' = [outUndo EXCEPT ![u] = Nothing]
  /\ outUndone' = outUndone \cup {m}
  /\ outLate' = outLate \cup
       {l \in {m} : l \in outSent \/ \E k \in OutTicks : l \in outTick[k].todo}
  /\ UNCHANGED <<outRow, outNow, outTick, outFaults, outSent, outAgain, outOverlap, outCut>>

(* ... and the row is deleted by its key.                                  *)
UndoDelete(u) ==
  LET m == outUndo[u] IN
  /\ m # Nothing
  /\ outRow' = [outRow EXCEPT ![m] = "gone"]
  /\ outUndo' = [outUndo EXCEPT ![u] = Nothing]
  /\ outUndone' = outUndone \cup {m}
  /\ outLate' = outLate \cup
       {l \in {m} : l \in outSent \/ \E k \in OutTicks : l \in outTick[k].todo}
  /\ UNCHANGED <<outNow, outTick, outFaults, outSent, outAgain, outOverlap, outCut>>

OutCrash ==
  /\ outFaults < MaxOutFaults /\ outFaults' = outFaults + 1
  /\ outCut' = (outCut \/ \E k \in OutTicks : outTick[k].at = "tried")
  /\ outTick' = [k \in OutTicks |-> TickIdle]
  /\ outUndo' = [u \in OutUndos |-> Nothing]
  /\ UNCHANGED <<outRow, outNow, outSent, outAgain, outUndone, outLate, outOverlap>>

OutRun ==
  \E k \in OutTicks :
    \/ OutRead(k) \/ OutDone(k)
    \/ \E m \in Messages : \/ OutWrite(k, m)
                           \/ \E result \in {"sent", "failed"} : OutDeliver(k, m, result)

OutOther ==
  \/ \E m \in Messages : OutSchedule(m)
  \/ OutClock
  \/ \E u \in OutUndos : UndoDelete(u) \/ \E m \in Messages : UndoRead(u, m)
  \/ OutCrash

OutNext == OutRun \/ OutOther

OutSpec == OutInit /\ [][OutNext]_outVars

-----------------------------------------------------------------------------
(* A message goes out twice only after two ticks overlapped or a process   *)
(* was killed between a delivery and its write: undos, failed deliveries   *)
(* and ticks that break off on a deleted row never repeat one.             *)
SentOnce == outAgain # {} => outOverlap \/ outCut

(* A message whose undo came before any tick had it is never sent.         *)
UndoHolds == outUndone \cap outSent \subseteq outLate

(* A message that is due is delivered, fails or is undone, although an     *)
(* undo that comes in between breaks the tick off.                         *)
DueGoesOut == \A m \in Messages : m \in Due ~> m \notin Due

(* cancel_scheduled_message: the text of an undone message, "or None when  *)
(* the message is unknown or already (being) sent".                        *)
UndoneIsUnsent == outUndone \cap outSent = {}
=============================================================================
