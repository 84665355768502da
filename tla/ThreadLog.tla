----------------------------- MODULE ThreadLog -----------------------------
(***************************************************************************)
(* The event log of one conversation, services/thread_log.py, from the     *)
(* writers through the gateway to one dashboard client,                    *)
(* apps/dashboard/src/lib/thread-log.ts and hooks/useThreadLog.ts.         *)
(*                                                                         *)
(* append is three writes: the stream, the slot of the turn in the live    *)
(* hash, and the bus; a sync that has no cursor is two reads: the head and *)
(* the live hash.  Each is a step of its own.                              *)
(*                                                                         *)
(* Abstractions: an event is its turn and what it does to it (start,       *)
(* delta, end); its id is its place in the stream and prev_id the place    *)
(* before; the stream is shorter than MAX_LEN and MAX_REPLAY; an operator  *)
(* client, which sees every event; the floor and saved messages are not    *)
(* here.                                                                   *)
(***************************************************************************)
EXTENDS Naturals, Sequences, FiniteSets

CONSTANTS
  LogTurns,       \* turns (stream ids)
  MaxLogDeltas,   \* bound: deltas of all turns
  MaxLogFaults    \* bound: Stops, dead writers, lost frames, lost connections

ASSUME LogConstants ==
  /\ {MaxLogDeltas, MaxLogFaults} \subseteq Nat
  /\ {"none", "cleaner"} \cap LogTurns = {}

VARIABLES
  logEvents,    \* the Redis stream
  logLive,      \* the live hash: id of the last event of an open turn, or 0
  logWriter,    \* the recorder of each turn, and the cleaner
  logStage,     \* what the recorder of a turn has done so far
  logTodo,      \* turns close_open_turns found open and has yet to close
  logDeltas,
  logFaults,
  logReq,       \* the sync request of the client and its answer
  logInbox,     \* frames on their way to the client
  logClient,    \* ThreadLogState
  logTorn       \* history: an append was cut short, overlapped a sync or another
                \* append of its turn, or was a delta after the end of its turn;
                \* or a frame was lost during a sync

logVars == <<logEvents, logLive, logWriter, logStage, logTodo, logDeltas, logFaults,
             logReq, logInbox, logClient, logTorn>>
logWrites == <<logEvents, logLive, logWriter, logStage, logTodo, logDeltas>>
logSide   == <<logReq, logClient>>

Cleaner    == "cleaner"
LogWriters == LogTurns \cup {Cleaner}
NoAppend   == [at |-> "rest", turn |-> "none", kind |-> "none", id |-> 0]
NoRequest  == [at |-> "none", after |-> 0, head |-> 0]
Away       == [NoRequest EXCEPT !.at = "away"]

LogInit ==
  /\ logEvents = <<>>
  /\ logLive = [t \in LogTurns |-> 0]
  /\ logWriter = [w \in LogWriters |-> NoAppend]
  /\ logStage = [t \in LogTurns |-> "new"]
  /\ logTodo = {}
  /\ logDeltas = 0
  /\ logFaults = 0
  /\ logReq = Away
  /\ logInbox = <<>>
  /\ logClient = [cursor |-> 0, maxSeen |-> 0, syncing |-> FALSE, snapshot |-> FALSE,
                  inSnapshot |-> {}, shown |-> [t \in LogTurns |-> 0], completed |-> {}]
  /\ logTorn = FALSE

-----------------------------------------------------------------------------
IsEnded(t, n) == \E i \in 1..n : logEvents[i] = [turn |-> t, kind |-> "end"]

(* append, first write: the event gets its id.                             *)
LogStore(w, t, kind) ==
  /\ logWriter[w].at = "rest"
  /\ logEvents' = Append(logEvents, [turn |-> t, kind |-> kind])
  /\ logWriter' = [logWriter EXCEPT ![w] =
       [at |-> IF kind = "delta" THEN "check" ELSE "slot", turn |-> t, kind |-> kind,
        id |-> Len(logEvents) + 1]]
  /\ logTorn' = (logTorn \/ \E v \in LogWriters : logWriter[v].turn = t
                      \/ (kind = "delta" /\ IsEnded(t, Len(logEvents))))
  /\ UNCHANGED <<logLive, logFaults, logInbox, logSide>>

(* The recorder of a turn: start, deltas, end.                             *)
LogStart(t) ==
  /\ logStage[t] = "new"
  /\ LogStore(t, t, "start")
  /\ logStage' = [logStage EXCEPT ![t] = "open"]
  /\ UNCHANGED <<logTodo, logDeltas>>

LogDelta(t) ==
  /\ logStage[t] = "open" /\ logDeltas < MaxLogDeltas
  /\ LogStore(t, t, "delta")
  /\ logDeltas' = logDeltas + 1
  /\ UNCHANGED <<logStage, logTodo>>

LogEnd(t) ==
  /\ logStage[t] = "open"
  /\ LogStore(t, t, "end")
  /\ logStage' = [logStage EXCEPT ![t] = "closed"]
  /\ UNCHANGED <<logTodo, logDeltas>>

(* The process of the recorder dies, wherever it is.                       *)
LogDie(t) ==
  /\ logFaults < MaxLogFaults /\ logFaults' = logFaults + 1
  /\ logStage[t] \in {"open", "closed"}
  /\ logStage[t] = "closed" => logWriter[t].at # "rest"
  /\ logStage' = [logStage EXCEPT ![t] = "dead"]
  /\ logWriter' = [logWriter EXCEPT ![t] = NoAppend]
  /\ logTorn' = (logTorn \/ logWriter[t].at # "rest")
  /\ UNCHANGED <<logEvents, logLive, logTodo, logDeltas, logInbox, logSide>>

(* Slip: a turn whose recorder died is left alone.                         *)
IsWritten(t) == logWriter[t].at = "rest" /\ logStage[t] = "closed"

(* close_open_turns: a Stop closes every open turn, a sweep those that are *)
(* silent for long, whose recorder is gone.                                *)
OpenTurns   == {t \in LogTurns : logLive[t] # 0}
IsSilent(t) == logWriter[t].at = "rest" /\ logStage[t] \in {"closed", "dead"}

LogClose(stop) ==
  /\ logTodo = {} /\ logWriter[Cleaner].at = "rest"
  /\ stop => logFaults < MaxLogFaults
  /\ logTodo' = {t \in OpenTurns : stop \/ IsSilent(t)}
  /\ logTodo' # {}
  /\ logFaults' = IF stop THEN logFaults + 1 ELSE logFaults
  /\ UNCHANGED <<logEvents, logLive, logWriter, logStage, logDeltas, logInbox, logSide,
                 logTorn>>

LogCloseOne(t) ==
  /\ t \in logTodo
  /\ LogStore(Cleaner, t, "end")
  /\ logTodo' = logTodo \ {t}
  /\ UNCHANGED <<logStage, logDeltas>>

(* Second write: the slot.  An end clears it, a start sets it, a delta     *)
(* looks first whether the turn is still open and sets it afterwards.      *)
LogCheck(w) ==
  /\ logWriter[w].at = "check"
  /\ logWriter' = [logWriter EXCEPT ![w].at =
                     IF logLive[logWriter[w].turn] # 0 THEN "slot" ELSE "publish"]
  /\ UNCHANGED <<logEvents, logLive, logStage, logTodo, logDeltas, logFaults, logInbox,
                 logSide, logTorn>>

LogSlot(w) ==
  LET a == logWriter[w] IN
  /\ a.at = "slot"
  /\ logLive' = [logLive EXCEPT ![a.turn] = IF a.kind = "end" THEN 0 ELSE a.id]
  /\ logWriter' = [logWriter EXCEPT ![w].at = "publish"]
  /\ UNCHANGED <<logEvents, logStage, logTodo, logDeltas, logFaults, logInbox, logSide,
                 logTorn>>

(* Third write: the bus, which keeps nothing for a reader that is away.    *)
LogPublish(w, lost) ==
  LET a == logWriter[w] IN
  /\ a.at = "publish"
  /\ lost => logFaults < MaxLogFaults
  /\ logFaults' = IF lost THEN logFaults + 1 ELSE logFaults
  /\ logInbox' = IF lost \/ logReq = Away THEN logInbox
                 ELSE Append(logInbox, [id |-> a.id, turn |-> a.turn, kind |-> a.kind])
  /\ logTorn' = (logTorn \/ (lost /\ logClient.syncing))
  /\ logWriter' = [logWriter EXCEPT ![w] = NoAppend]
  /\ UNCHANGED <<logEvents, logLive, logStage, logTodo, logDeltas, logSide>>

-----------------------------------------------------------------------------
IsAppending == \E w \in LogWriters : logWriter[w].at # "rest"

(* beginSync and the sync frame: a replay, or a snapshot without a cursor. *)
BeginSync(c) ==
  [c EXCEPT !.syncing = TRUE, !.snapshot = (c.cursor = 0), !.inSnapshot = {}]

Ask(c) == logReq' = [at |-> "asked", after |-> c.cursor, head |-> 0]

(* The page opens, or the socket is back; what was under way is lost.      *)
LogConnect ==
  /\ \/ logReq = Away /\ UNCHANGED logFaults
     \/ logFaults < MaxLogFaults /\ logFaults' = logFaults + 1
  /\ logInbox' = <<>>
  /\ logClient' = BeginSync(logClient)
  /\ Ask(logClient)
  /\ UNCHANGED <<logWrites, logTorn>>

(* armStale: turns are shown, nothing moves: ask which are still open.     *)
LogStale ==
  LET c == [logClient EXCEPT !.cursor = 0] IN
  /\ \E t \in LogTurns : logClient.shown[t] # 0
  /\ logInbox = <<>> /\ logReq.at = "none"
  /\ ~IsAppending
  /\ logClient' = BeginSync(c)
  /\ Ask(c)
  /\ UNCHANGED <<logWrites, logFaults, logInbox, logTorn>>

(* sync_frames, with a cursor: one read.                                   *)
LogReplay ==
  /\ logReq.at = "asked" /\ logReq.after # 0
  /\ logInbox' = logInbox \o
       [i \in 1..(Len(logEvents) - logReq.after) |->
          [id |-> logReq.after + i, turn |-> logEvents[logReq.after + i].turn,
           kind |-> logEvents[logReq.after + i].kind]]
  /\ logReq' = [logReq EXCEPT !.at = "read", !.head = Len(logEvents)]
  /\ logTorn' = (logTorn \/ IsAppending)
  /\ UNCHANGED <<logWrites, logFaults, logClient>>

(* Without: the head, then the live hash, oldest turn first.               *)
LogHead ==
  /\ logReq.at = "asked" /\ logReq.after = 0
  /\ logReq' = [logReq EXCEPT !.at = "head", !.head = Len(logEvents)]
  /\ logTorn' = (logTorn \/ IsAppending)
  /\ UNCHANGED <<logWrites, logFaults, logClient, logInbox>>

LiveFrames ==
  LET at == {logLive[t] : t \in OpenTurns}
      byId == {s \in [1..Cardinality(at) -> at] :
                 \A i, j \in 1..Cardinality(at) : i < j => s[i] < s[j]}
  IN {[i \in 1..Cardinality(at) |->
         [id |-> s[i], turn |-> logEvents[s[i]].turn, kind |-> logEvents[s[i]].kind]] :
      s \in byId}

LogSnapshot ==
  /\ logReq.at = "head"
  /\ \E frames \in LiveFrames : logInbox' = logInbox \o frames
  /\ logReq' = [logReq EXCEPT !.at = "read"]
  /\ logTorn' = (logTorn \/ IsAppending)
  /\ UNCHANGED <<logWrites, logFaults, logClient>>

LogSynced ==
  /\ logReq.at = "read"
  /\ logInbox' = Append(logInbox, [id |-> logReq.head, turn |-> "none", kind |-> "synced"])
  /\ logReq' = NoRequest
  /\ logTorn' = (logTorn \/ IsAppending)
  /\ UNCHANGED <<logWrites, logFaults, logClient>>

-----------------------------------------------------------------------------
(* applyTurn: per turn in id order, and never after its end.               *)
ApplyTurn(c, f) ==
  IF f.turn \in c.completed \/ f.id <= c.shown[f.turn] THEN c
  ELSE [c EXCEPT
         !.inSnapshot = IF c.syncing /\ c.snapshot THEN @ \cup {f.turn} ELSE @,
         !.completed  = IF f.kind = "end" THEN @ \cup {f.turn} ELSE @,
         !.shown[f.turn] = IF f.kind = "end" THEN 0 ELSE f.id]

(* log.synced: the cursor moves on, and a turn the snapshot does not have  *)
(* leaves the screen.                                                      *)
Highest(S) == CHOOSE n \in S : \A m \in S : m <= n

(* Slip: a turn the snapshot does not have stays.                          *)
ApplySyncedKeeping(c, head) ==
  [c EXCEPT !.cursor = Highest({@, head, c.maxSeen}), !.syncing = FALSE,
            !.snapshot = FALSE, !.inSnapshot = {}]

ApplySynced(c, head) ==
  [c EXCEPT !.cursor = Highest({@, head, c.maxSeen}), !.syncing = FALSE,
            !.snapshot = FALSE, !.inSnapshot = {},
            !.shown = [t \in LogTurns |-> IF c.snapshot /\ t \notin c.inSnapshot THEN 0
                                          ELSE @[t]]]

IsSeen(c, f) == c.cursor # 0 /\ f.id <= c.cursor
IsGap(c, f)  == c.cursor # 0 /\ f.id # c.cursor + 1

(* applyThreadEvent, one frame.                                            *)
LogApply ==
  LET c == logClient
      f == Head(logInbox)
  IN
  /\ logInbox # <<>>
  /\ logInbox' = Tail(logInbox)
  /\ \/ /\ f.kind = "synced"
        /\ logClient' = ApplySynced(c, f.id)
        /\ UNCHANGED logReq
     \/ /\ f.kind # "synced" /\ c.syncing
        /\ logClient' = ApplyTurn([c EXCEPT !.maxSeen = Highest({@, f.id})], f)
        /\ UNCHANGED logReq
     \/ /\ f.kind # "synced" /\ ~c.syncing /\ IsSeen(c, f)
        /\ UNCHANGED <<logClient, logReq>>
     \/ /\ f.kind # "synced" /\ ~c.syncing /\ ~IsSeen(c, f) /\ IsGap(c, f)
        /\ logClient' = BeginSync(c)
        /\ Ask(c)
     \/ /\ f.kind # "synced" /\ ~c.syncing /\ ~IsSeen(c, f) /\ ~IsGap(c, f)
        /\ logClient' = ApplyTurn([c EXCEPT !.cursor = f.id, !.maxSeen = f.id], f)
        /\ UNCHANGED logReq
  /\ UNCHANGED <<logWrites, logFaults, logTorn>>

-----------------------------------------------------------------------------
(* What goes on by itself.                                                 *)
LogRun ==
  \/ \E t \in LogTurns : LogEnd(t) \/ LogCloseOne(t)
  \/ \E w \in LogWriters : LogCheck(w) \/ LogSlot(w) \/ LogPublish(w, FALSE)
  \/ LogClose(FALSE) \/ LogStale
  \/ LogReplay \/ LogHead \/ LogSnapshot \/ LogSynced \/ LogApply

LogOther ==
  \/ \E t \in LogTurns : LogStart(t) \/ LogDelta(t) \/ LogDie(t)
  \/ \E w \in LogWriters : LogPublish(w, TRUE)
  \/ LogClose(TRUE) \/ LogConnect

LogNext == LogRun \/ LogOther

LogSpec == LogInit /\ [][LogNext]_logVars

(* A client that is not syncing shows no turn that ended before its        *)
(* cursor, unless an append was torn (see logTorn).  A replay, a gap, a    *)
(* lost frame and a reconnect do not leave one.                            *)
GhostNeedsTear ==
  ~logClient.syncing /\ ~logTorn =>
    \A t \in LogTurns : logClient.shown[t] # 0 => ~IsEnded(t, logClient.cursor)

(* It skips ids it has seen, says the docstring: a finished turn the       *)
(* cursor is past is not on the screen.                                    *)
NoGhost ==
  ~logClient.syncing =>
    \A t \in LogTurns : logClient.shown[t] # 0 => ~IsEnded(t, logClient.cursor)

(* A turn that is open for those who join is closed, whoever dies and in   *)
(* whatever order its end, late deltas and cleaners write its slot.        *)
SlotClears ==
  \A t \in LogTurns : (logLive[t] # 0) ~> (logLive[t] = 0)

(* A finished turn leaves the screen in the end, whatever was lost.        *)
GhostHeals ==
  \A t \in LogTurns :
    IsEnded(t, Len(logEvents)) ~> (logClient.shown[t] = 0)
=============================================================================
