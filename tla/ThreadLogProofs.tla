-------------------------- MODULE ThreadLogProofs --------------------------
(***************************************************************************)
(* Proofs about ThreadLog, for every number of turns, deltas and faults.   *)
(*                                                                         *)
(* StreamInv is about the writers: what the stream, the live hash and the  *)
(* appends under way have to do with each other.  ClientInv is about the   *)
(* page: whatever it shows or is still going to apply belongs to a turn    *)
(* that has not ended before its cursor, or the end is on its way.         *)
(***************************************************************************)
EXTENDS ThreadLog, SequenceTheorems, FiniteSetTheorems, TLAPS

-----------------------------------------------------------------------------
(* Types.                                                                  *)

Kinds   == {"start", "delta", "end"}
Event   == [turn: LogTurns, kind: Kinds]
Frame   == [id: Nat, turn: LogTurns \cup {"none"}, kind: Kinds \cup {"synced"}]
Writing == [at: {"rest", "check", "slot", "publish"}, turn: LogTurns \cup {"none"},
            kind: Kinds \cup {"none"}, id: Nat]
Request == [at: {"away", "none", "asked", "head", "read"}, after: Nat, head: Nat]
Client  == [cursor: Nat, maxSeen: Nat, syncing: BOOLEAN, snapshot: BOOLEAN,
            inSnapshot: SUBSET LogTurns, shown: [LogTurns -> Nat],
            completed: SUBSET LogTurns]

StreamType ==
  /\ logEvents \in Seq(Event)
  /\ logLive \in [LogTurns -> Nat]
  /\ logWriter \in [LogWriters -> Writing]
  /\ logStage \in [LogTurns -> {"new", "open", "closed", "dead"}]
  /\ logTodo \subseteq LogTurns
  /\ logTorn \in BOOLEAN

ClientType ==
  /\ logReq \in Request
  /\ logInbox \in Seq(Frame)
  /\ logClient \in Client

-----------------------------------------------------------------------------
(* The writers.                                                            *)

Ids          == 1..Len(logEvents)
Appending(w) == logWriter[w].at # "rest"
Pending(i)   == \E w \in LogWriters : Appending(w) /\ logWriter[w].id = i

(* What a writer appends is in the stream.                                 *)
WritersOK ==
  \A w \in LogWriters :
    IF Appending(w)
    THEN /\ logWriter[w].turn \in LogTurns /\ logWriter[w].id \in Ids
         /\ logEvents[logWriter[w].id] =
              [turn |-> logWriter[w].turn, kind |-> logWriter[w].kind]
    ELSE logWriter[w] = NoAppend

(* A turn that was not started has left no trace.                          *)
NewOK ==
  \A t \in LogTurns : logStage[t] = "new" =>
    /\ \A i \in Ids : logEvents[i].turn # t
    /\ logLive[t] = 0 /\ t \notin logTodo
    /\ \A w \in LogWriters : logWriter[w].turn # t

(* Nothing but a second end comes after the end of a turn.                 *)
EndsLast ==
  \A i, j \in Ids :
    logEvents[i].kind = "end" /\ logEvents[j].turn = logEvents[i].turn /\ i < j
      => logEvents[j].kind = "end"

(* While a start or a delta is appended, its turn has not ended.           *)
EndWaits ==
  \A w \in LogWriters : Appending(w) /\ logWriter[w].kind # "end"
    => ~IsEnded(logWriter[w].turn, Len(logEvents))

(* The slot of a turn that ended is clear, or about to be.                 *)
SlotsEnd ==
  \A t \in LogTurns : IsEnded(t, Len(logEvents)) =>
    \/ logLive[t] = 0
    \/ \E w \in LogWriters :
         logWriter[w].turn = t /\ logWriter[w].kind = "end" /\ logWriter[w].at = "slot"

(* A slot holds an event of its turn, and not the end.                     *)
SlotsOK ==
  \A t \in LogTurns : logLive[t] # 0 =>
    /\ logLive[t] \in Ids
    /\ logEvents[logLive[t]].turn = t /\ logEvents[logLive[t]].kind # "end"

(* Only a start or a delta is written to a slot.                           *)
ChecksOK ==
  \A w \in LogWriters : logWriter[w].at = "check" => logWriter[w].kind = "delta"

StreamInv ==
  /\ StreamType /\ WritersOK /\ NewOK /\ SlotsOK /\ ChecksOK
  /\ ~logTorn => EndsLast /\ EndWaits /\ SlotsEnd

-----------------------------------------------------------------------------
(* The client.                                                             *)

Frames == DOMAIN logInbox

(* A frame is an event of the stream; log.synced carries its head.         *)
FramesOK ==
  \A p \in Frames :
    LET f == logInbox[p]
    IN  IF f.kind = "synced" THEN f.id \in 0..Len(logEvents) /\ f.turn = "none"
        ELSE f.id \in Ids /\ logEvents[f.id] = [turn |-> f.turn, kind |-> f.kind]

(* What is shown is an event the client has seen, not of a finished turn.  *)
ShownOK ==
  \A t \in LogTurns :
    /\ t \in logClient.completed => logClient.shown[t] = 0
    /\ logClient.shown[t] # 0 =>
         /\ logClient.shown[t] \in Ids /\ logClient.shown[t] <= logClient.maxSeen
         /\ logEvents[logClient.shown[t]].turn = t
         /\ logEvents[logClient.shown[t]].kind # "end"

CursorOK ==
  /\ logClient.cursor <= Len(logEvents) /\ logClient.maxSeen <= Len(logEvents)
  /\ ~logClient.syncing => logClient.maxSeen <= logClient.cursor

(* The sync request and the answer to it.                                  *)
Asking == logReq.at \in {"asked", "head", "read"}

NoSynced == \A p \in Frames : logInbox[p].kind # "synced"

RequestOK ==
  /\ Asking => logClient.syncing /\ logReq.after = logClient.cursor /\ NoSynced
               /\ logReq.head <= Len(logEvents)
  /\ logReq.at = "head" => logClient.cursor = 0
  /\ logReq.at = "away" => logReq = Away /\ ~logClient.syncing /\ logInbox = <<>>
  /\ ~logClient.syncing => ~Asking /\ NoSynced
  /\ logClient.syncing => (logClient.snapshot <=> logClient.cursor = 0)
  /\ \A p, q \in Frames : logInbox[p].kind = "synced" /\ logInbox[q].kind = "synced" => p = q

(* After the answer to the sync turn t is not on the screen.               *)
Hidden(t) == IF logClient.syncing /\ logClient.snapshot THEN t \notin logClient.inSnapshot
             ELSE logClient.shown[t] = 0

(* And nothing but its end is on the way.                                  *)
Quiet(t) == Hidden(t) /\ \A p \in Frames : logInbox[p].turn = t => logInbox[p].kind = "end"

Gone(t)    == t \in logClient.completed \/ Quiet(t)
InInbox(i) == \E p \in Frames : logInbox[p].id = i /\ logInbox[p].kind # "synced"

(* What ended before the cursor is gone.                                   *)
PastGone ==
  \A i \in 1..logClient.cursor : logEvents[i].kind = "end" => Gone(logEvents[i].turn)

(* While a snapshot is on its way, and once a replay was read: what ended  *)
(* is gone, or its end arrives.                                            *)
EndsArrive ==
  \A i \in Ids : logEvents[i].kind = "end"
    => Gone(logEvents[i].turn) \/ InInbox(i) \/ Pending(i)

(* Once the answer is complete, up to log.synced at r: the client will     *)
(* have seen at most n, what ended up to n is gone or arrives, and what    *)
(* comes after log.synced is later than n.                                 *)
Answered(n, r) ==
  /\ logInbox[r].kind = "synced"
  /\ logClient.cursor <= n /\ logClient.maxSeen <= n
  /\ \A p \in Frames : IF p <= r THEN logInbox[p].id <= n ELSE logInbox[p].id > n
  /\ \A w \in LogWriters : Appending(w) => logWriter[w].id > n
  /\ \A i \in 1..n : logEvents[i].kind = "end" => Gone(logEvents[i].turn) \/ InInbox(i)

(* Before its first event the client gets no start or delta of a turn that *)
(* ended before a frame ahead of it.                                       *)
InOrder ==
  \A p, q \in Frames : p < q /\ logInbox[q].kind \in {"start", "delta"}
    => ~IsEnded(logInbox[q].turn, logInbox[p].id)

SyncInv ==
  /\ PastGone
  /\ Asking /\ (logClient.cursor = 0 \/ logReq.at = "read") => EndsArrive
  /\ logClient.syncing /\ logReq.at = "none"
       => \E n \in 0..Len(logEvents), r \in Frames : Answered(n, r)
  /\ logClient.cursor = 0 => InOrder

ClientInv ==
  /\ ClientType /\ FramesOK /\ ShownOK /\ CursorOK /\ RequestOK
  /\ ~logTorn => SyncInv

-----------------------------------------------------------------------------
(* Lemmas about the stream.                                                *)

(* An event is its turn and what it does to it.                            *)
LEMMA EndedMeans ==
  ASSUME StreamType, NEW t, NEW n \in Nat, n <= Len(logEvents)
  PROVE  /\ Len(logEvents) \in Nat /\ 1..n \subseteq Ids
         /\ IsEnded(t, n) <=> \E i \in 1..n : logEvents[i].turn = t /\ logEvents[i].kind = "end"
<1>1. Len(logEvents) \in Nat
  BY LenProperties DEF StreamType
<1>2. 1..n \subseteq Ids
  BY <1>1 DEF Ids
<1>3. \A i \in 1..n : logEvents[i] \in Event
  BY <1>2, ElementOfSeq DEF StreamType, Ids
<1>4. \A i \in 1..n : logEvents[i] = [turn |-> t, kind |-> "end"]
                       <=> logEvents[i].turn = t /\ logEvents[i].kind = "end"
  BY <1>3 DEF Event
<1>. QED
  BY <1>1, <1>2, <1>4 DEF IsEnded

(* Writers and turns. *)
LEMMA Names ==
  /\ "none" \notin LogTurns /\ Cleaner \notin LogTurns /\ "none" \notin LogWriters
  /\ LogTurns \subseteq LogWriters /\ Cleaner \in LogWriters
BY LogConstants DEF LogWriters, Cleaner

(* One event is appended to the stream. *)
LEMMA Stored ==
  ASSUME StreamType, NEW e \in Event, logEvents' = Append(logEvents, e)
  PROVE  /\ logEvents' \in Seq(Event) /\ Len(logEvents') = Len(logEvents) + 1
         /\ Len(logEvents) \in Nat /\ Len(logEvents) + 1 \in Ids' /\ Ids \subseteq Ids'
         /\ \A i \in Ids : logEvents'[i] = logEvents[i] /\ logEvents[i] \in Event
         /\ logEvents'[Len(logEvents) + 1] = e
         /\ \A i \in Ids' : i \in Ids \/ i = Len(logEvents) + 1
<1>1. Len(logEvents) \in Nat
  BY LenProperties DEF StreamType
<1>2. /\ logEvents' \in Seq(Event) /\ Len(logEvents') = Len(logEvents) + 1
      /\ \A i \in 1..Len(logEvents) : logEvents'[i] = logEvents[i]
      /\ logEvents'[Len(logEvents) + 1] = e
  BY AppendProperties DEF StreamType
<1>3. \A i \in Ids : logEvents[i] \in Event
  BY ElementOfSeq DEF StreamType, Ids
<1>. QED
  BY <1>1, <1>2, <1>3 DEF Ids

(* What ended stays ended, and only an end ends a turn. *)
LEMMA StoredEnds ==
  ASSUME StreamType, NEW e \in Event, logEvents' = Append(logEvents, e)
  PROVE  \A t \in LogTurns :
           /\ \A n \in 0..Len(logEvents) : IsEnded(t, n)' <=> IsEnded(t, n)
           /\ IsEnded(t, Len(logEvents)) => IsEnded(t, Len(logEvents))'
           /\ IsEnded(t, Len(logEvents))'
                => IsEnded(t, Len(logEvents)) \/ (e.turn = t /\ e.kind = "end")
<1>. SUFFICES ASSUME NEW t \in LogTurns
              PROVE  /\ \A n \in 0..Len(logEvents) : IsEnded(t, n)' <=> IsEnded(t, n)
                     /\ IsEnded(t, Len(logEvents)) => IsEnded(t, Len(logEvents))'
                     /\ IsEnded(t, Len(logEvents))'
                          => IsEnded(t, Len(logEvents)) \/ (e.turn = t /\ e.kind = "end")
  OBVIOUS
<1>1. /\ Len(logEvents') = Len(logEvents) + 1 /\ Len(logEvents) \in Nat
      /\ \A i \in Ids : logEvents'[i] = logEvents[i]
      /\ logEvents'[Len(logEvents) + 1] = e
  BY Stored
<1>2. \A n \in 0..Len(logEvents) : 1..n \subseteq Ids
  BY <1>1 DEF Ids
<1>3. \A n \in 0..Len(logEvents) : IsEnded(t, n)' <=> IsEnded(t, n)
  BY <1>1, <1>2 DEF IsEnded
<1>4. IsEnded(t, Len(logEvents))'
        <=> \E i \in 1..(Len(logEvents) + 1) : logEvents'[i] = [turn |-> t, kind |-> "end"]
  BY <1>1 DEF IsEnded
<1>5. \A i \in 1..(Len(logEvents) + 1) : i \in 1..Len(logEvents) \/ i = Len(logEvents) + 1
  BY <1>1
<1>6. IsEnded(t, Len(logEvents))' => IsEnded(t, Len(logEvents)) \/ e = [turn |-> t, kind |-> "end"]
  BY <1>1, <1>4, <1>5 DEF IsEnded, Ids
<1>7. IsEnded(t, Len(logEvents)) => IsEnded(t, Len(logEvents))'
  BY <1>1, <1>4 DEF IsEnded, Ids
<1>. QED
  BY <1>3, <1>6, <1>7

-----------------------------------------------------------------------------
(* The steps of the writers.                                               *)

(* An append begins. *)
LEMMA StoreKeeps ==
  ASSUME StreamInv, NEW w \in LogWriters, NEW t \in LogTurns, NEW kind \in Kinds,
         LogStore(w, t, kind), kind = "start" => logStage[t] = "new",
         logStage' \in [LogTurns -> {"new", "open", "closed", "dead"}],
         \A u \in LogTurns : logStage'[u] = "new" => logStage[u] = "new" /\ u # t,
         logTodo' \subseteq logTodo
  PROVE  StreamInv'
<1>. DEFINE e == [turn |-> t, kind |-> kind]
            n == Len(logEvents) + 1
            a == [at |-> IF kind = "delta" THEN "check" ELSE "slot", turn |-> t,
                  kind |-> kind, id |-> n]
<1>1. /\ logWriter[w].at = "rest" /\ logEvents' = Append(logEvents, e) /\ logLive' = logLive
      /\ logWriter' = [logWriter EXCEPT ![w] = a]
      /\ logTorn' = (logTorn \/ \E v \in LogWriters : logWriter[v].turn = t
                       \/ (kind = "delta" /\ IsEnded(t, Len(logEvents))))
  BY DEF LogStore
<1>2. StreamType /\ e \in Event
  BY DEF StreamInv, Event
<1>3. /\ logEvents' \in Seq(Event) /\ Len(logEvents') = n /\ n \in Ids' /\ Ids \subseteq Ids'
      /\ Len(logEvents) \in Nat
      /\ \A i \in Ids : logEvents'[i] = logEvents[i]
      /\ logEvents'[n] = e
      /\ \A i \in Ids' : i \in Ids \/ i = n
  BY <1>1, <1>2, Stored
<1>4. /\ a \in Writing /\ n \in Nat /\ a.at # "rest" /\ a.turn = t /\ a.kind = kind /\ a.id = n
      /\ a.at = "check" => kind = "delta"
      /\ kind = "end" => a.at = "slot"
  BY <1>3 DEF Writing, Kinds
<1>5. \A i \in Ids : i < n
  BY <1>3 DEF Ids
<1>. HIDE DEF a, n
<1>6. logWriter'[w] = a /\ \A v \in LogWriters \ {w} : logWriter'[v] = logWriter[v]
  BY <1>1, <1>2 DEF StreamType
<1>7. StreamType'
  BY <1>1, <1>2, <1>3, <1>4 DEF StreamType
<1>8. WritersOK'
  <2>. SUFFICES ASSUME NEW v \in LogWriters
                PROVE  IF Appending(v)'
                       THEN /\ logWriter'[v].turn \in LogTurns /\ logWriter'[v].id \in Ids'
                            /\ logEvents'[logWriter'[v].id] =
                                 [turn |-> logWriter'[v].turn, kind |-> logWriter'[v].kind]
                       ELSE logWriter'[v] = NoAppend
    BY DEF WritersOK
  <2>1. CASE v = w
    BY <1>3, <1>4, <1>6, <2>1 DEF Appending
  <2>2. CASE v # w
    BY <1>3, <1>6, <2>2 DEF Appending, WritersOK, StreamInv
  <2>. QED
    BY <2>1, <2>2
<1>9. NewOK'
  <2>. SUFFICES ASSUME NEW u \in LogTurns, logStage'[u] = "new"
                PROVE  /\ \A i \in Ids' : logEvents'[i].turn # u
                       /\ logLive'[u] = 0 /\ u \notin logTodo'
                       /\ \A v \in LogWriters : logWriter'[v].turn # u
    BY DEF NewOK
  <2>1. /\ u # t /\ \A i \in Ids : logEvents[i].turn # u
        /\ logLive[u] = 0 /\ u \notin logTodo
        /\ \A v \in LogWriters : logWriter[v].turn # u
    BY DEF NewOK, StreamInv
  <2>2. \A i \in Ids' : logEvents'[i].turn # u
    BY <1>3, <2>1
  <2>3. \A v \in LogWriters : logWriter'[v].turn # u
    BY <1>4, <1>6, <2>1
  <2>. QED
    BY <1>1, <2>1, <2>2, <2>3
<1>10. SlotsOK' /\ ChecksOK'
  <2>1. SlotsOK'
    BY <1>1, <1>3 DEF SlotsOK, StreamInv
  <2>2. ChecksOK'
    BY <1>4, <1>6 DEF ChecksOK, StreamInv
  <2>. QED
    BY <2>1, <2>2
<1>11. ASSUME ~logTorn' PROVE EndsLast' /\ EndWaits' /\ SlotsEnd'
  <2>1. /\ EndsLast /\ EndWaits /\ SlotsEnd
        /\ \A v \in LogWriters : logWriter[v].turn # t
        /\ kind = "delta" => ~IsEnded(t, Len(logEvents))
    BY <1>1, <1>11 DEF StreamInv
  <2>2. kind # "end" => ~IsEnded(t, Len(logEvents))
    <3>1. CASE kind = "start"
      <4>1. \A i \in Ids : logEvents[i].turn # t
        BY <3>1 DEF StreamInv, NewOK
      <4>. QED
        BY <1>2, <1>3, <4>1, EndedMeans DEF Ids
    <3>. QED
      BY <2>1, <3>1 DEF Kinds
  <2>3. EndsLast'
    <3>. SUFFICES ASSUME NEW i \in Ids', NEW j \in Ids', logEvents'[i].kind = "end",
                         logEvents'[j].turn = logEvents'[i].turn, i < j
                  PROVE  logEvents'[j].kind = "end"
      BY DEF EndsLast
    <3>1. i \in Ids
      BY <1>3, <1>5 DEF Ids
    <3>2. CASE j \in Ids
      BY <1>3, <2>1, <3>1, <3>2 DEF EndsLast
    <3>3. CASE j = n
      <4>1. logEvents[i].turn = t /\ logEvents[i].kind = "end"
        BY <1>3, <3>1, <3>3
      <4>2. IsEnded(t, Len(logEvents))
        BY <1>2, <1>3, <3>1, <4>1, EndedMeans DEF Ids
      <4>. QED
        BY <1>3, <2>2, <3>3, <4>2
    <3>. QED
      BY <1>3, <3>2, <3>3
  <2>4. EndWaits'
    <3>. SUFFICES ASSUME NEW v \in LogWriters, Appending(v)', logWriter'[v].kind # "end"
                  PROVE  ~IsEnded(logWriter[v].turn, Len(logEvents))'
      BY DEF EndWaits
    <3>1. CASE v = w
      <4>1. logWriter'[v].turn = t /\ kind # "end"
        BY <1>4, <1>6, <3>1
      <4>2. ~IsEnded(t, Len(logEvents))'
        BY <1>1, <1>2, <2>2, <4>1, StoredEnds
      <4>. QED
        BY <4>1, <4>2 DEF IsEnded
    <3>2. CASE v # w
      <4>. DEFINE u == logWriter[v].turn
      <4>1. /\ logWriter'[v] = logWriter[v] /\ u # t /\ u \in LogTurns
            /\ ~IsEnded(u, Len(logEvents))
        BY <1>6, <2>1, <3>2 DEF Appending, EndWaits, WritersOK, StreamInv
      <4>2. \A x \in LogTurns : x # t /\ ~IsEnded(x, Len(logEvents))
                                 => ~IsEnded(x, Len(logEvents))'
        BY <1>1, <1>2, StoredEnds
      <4>. QED
        BY <4>1, <4>2 DEF IsEnded
    <3>. QED
      BY <3>1, <3>2
  <2>5. SlotsEnd'
    <3>. SUFFICES ASSUME NEW u \in LogTurns, IsEnded(u, Len(logEvents))', logLive'[u] # 0
                  PROVE  \E v \in LogWriters :
                           logWriter'[v].turn = u /\ logWriter'[v].kind = "end"
                             /\ logWriter'[v].at = "slot"
      BY DEF SlotsEnd
    <3>1. CASE u = t /\ kind = "end"
      BY <1>4, <1>6, <3>1
    <3>2. CASE IsEnded(u, Len(logEvents))
      <4>1. PICK v \in LogWriters : logWriter[v].turn = u /\ logWriter[v].kind = "end"
                                      /\ logWriter[v].at = "slot"
        BY <1>1, <2>1, <3>2 DEF SlotsEnd
      <4>2. v # w
        BY <1>1, <4>1
      <4>. QED
        BY <1>6, <4>1, <4>2
    <3>. QED
      BY <1>1, <1>2, <3>1, <3>2, StoredEnds
  <2>. QED
    BY <2>3, <2>4, <2>5
<1>. QED
  BY <1>7, <1>8, <1>9, <1>10, <1>11 DEF StreamInv

(* An append goes on or is over; slots are cleared, or written by one.     *)
LEMMA WriteKeeps ==
  ASSUME StreamInv, UNCHANGED logEvents, logTorn' \in BOOLEAN,
         logLive' \in [LogTurns -> Nat], logWriter' \in [LogWriters -> Writing],
         logStage' \in [LogTurns -> {"new", "open", "closed", "dead"}],
         \A u \in LogTurns : logStage'[u] = "new" => logStage[u] = "new",
         \A u \in logTodo' : u \in LogTurns /\ logStage[u] # "new",
         \A v \in LogWriters :
           \/ logWriter'[v] = NoAppend
           \/ /\ Appending(v) /\ logWriter'[v].at # "rest"
              /\ logWriter'[v].at = "check" => logWriter[v].at = "check"
              /\ logWriter'[v].turn = logWriter[v].turn
              /\ logWriter'[v].kind = logWriter[v].kind /\ logWriter'[v].id = logWriter[v].id,
         \A u \in LogTurns :
           \/ logLive'[u] = logLive[u] \/ logLive'[u] = 0
           \/ \E v \in LogWriters : /\ Appending(v) /\ logWriter[v].turn = u
                                    /\ logWriter[v].kind # "end"
                                    /\ logLive'[u] = logWriter[v].id,
         ~logTorn' => ~logTorn /\ SlotsEnd'
  PROVE  StreamInv'
<1>1. Ids' = Ids /\ StreamType
  BY DEF Ids, StreamInv
<1>2. \A u \in LogTurns : logStage[u] = "new" =>
        /\ \A i \in Ids : logEvents[i].turn # u
        /\ logLive[u] = 0 /\ \A v \in LogWriters : logWriter[v].turn # u
  BY DEF StreamInv, NewOK
<1>3. StreamType'
  BY <1>1 DEF StreamType
<1>4. NoAppend.at = "rest" /\ NoAppend.turn = "none"
  BY DEF NoAppend
<1>5. WritersOK' /\ ChecksOK'
  <2>1. \A v \in LogWriters : logWriter'[v] = NoAppend => ~Appending(v)'
    BY <1>4 DEF Appending
  <2>2. \A v \in LogWriters : Appending(v)' =>
          /\ Appending(v)
          /\ logWriter'[v].at = "check" => logWriter[v].at = "check"
          /\ logWriter'[v].turn = logWriter[v].turn
          /\ logWriter'[v].kind = logWriter[v].kind /\ logWriter'[v].id = logWriter[v].id
    BY <2>1
  <2>3. \A v \in LogWriters : ~Appending(v)' => logWriter'[v] = NoAppend
    BY DEF Appending
  <2>4. WritersOK'
    <3>. SUFFICES ASSUME NEW v \in LogWriters, Appending(v)'
                  PROVE  /\ logWriter'[v].turn \in LogTurns /\ logWriter'[v].id \in Ids
                         /\ logEvents[logWriter'[v].id] =
                              [turn |-> logWriter'[v].turn, kind |-> logWriter'[v].kind]
      BY <1>1, <2>3 DEF WritersOK
    <3>. QED
      BY <2>2 DEF WritersOK, StreamInv
  <2>5. ChecksOK'
    <3>. SUFFICES ASSUME NEW v \in LogWriters, logWriter'[v].at = "check"
                  PROVE  logWriter'[v].kind = "delta"
      BY DEF ChecksOK
    <3>1. Appending(v)'
      BY DEF Appending
    <3>. QED
      BY <2>2, <3>1 DEF ChecksOK, StreamInv
  <2>. QED
    BY <2>4, <2>5
<1>6. NewOK'
  <2>. SUFFICES ASSUME NEW u \in LogTurns, logStage'[u] = "new"
                PROVE  /\ \A i \in Ids' : logEvents'[i].turn # u
                       /\ logLive'[u] = 0 /\ u \notin logTodo'
                       /\ \A v \in LogWriters : logWriter'[v].turn # u
    BY DEF NewOK
  <2>1. logStage[u] = "new" /\ u # "none"
    BY Names
  <2>2. logLive'[u] = 0
    BY <1>2, <2>1
  <2>3. \A v \in LogWriters : logWriter'[v].turn # u
    BY <1>2, <1>4, <2>1
  <2>. QED
    BY <1>1, <1>2, <2>1, <2>2, <2>3
<1>7. SlotsOK'
  <2>. SUFFICES ASSUME NEW u \in LogTurns, logLive'[u] # 0
                PROVE  /\ logLive'[u] \in Ids
                       /\ logEvents[logLive'[u]].turn = u /\ logEvents[logLive'[u]].kind # "end"
    BY <1>1 DEF SlotsOK
  <2>1. CASE logLive'[u] = logLive[u]
    BY <2>1 DEF SlotsOK, StreamInv
  <2>2. ASSUME NEW v \in LogWriters, Appending(v), logWriter[v].turn = u,
               logWriter[v].kind # "end", logLive'[u] = logWriter[v].id
        PROVE  /\ logLive'[u] \in Ids
               /\ logEvents[logLive'[u]].turn = u /\ logEvents[logLive'[u]].kind # "end"
    <3>1. /\ logWriter[v].id \in Ids
          /\ logEvents[logWriter[v].id] =
               [turn |-> logWriter[v].turn, kind |-> logWriter[v].kind]
      BY <2>2 DEF WritersOK, StreamInv
    <3>. QED
      BY <2>2, <3>1
  <2>. QED
    BY <2>1, <2>2
<1>8. ASSUME ~logTorn' PROVE EndsLast' /\ EndWaits'
  <2>1. EndsLast /\ EndWaits
    BY <1>8 DEF StreamInv
  <2>2. EndsLast'
    BY <1>1, <2>1 DEF EndsLast
  <2>3. EndWaits'
    <3>. SUFFICES ASSUME NEW v \in LogWriters, Appending(v)', logWriter'[v].kind # "end"
                  PROVE  ~IsEnded(logWriter[v].turn, Len(logEvents))'
      BY DEF EndWaits
    <3>1. /\ Appending(v) /\ logWriter[v].kind # "end"
          /\ logWriter'[v].turn = logWriter[v].turn
      BY <1>4 DEF Appending
    <3>2. ~IsEnded(logWriter[v].turn, Len(logEvents))
      BY <2>1, <3>1 DEF EndWaits
    <3>. QED
      BY <3>1, <3>2 DEF IsEnded
  <2>. QED
    BY <2>2, <2>3
<1>. QED
  BY <1>3, <1>5, <1>6, <1>7, <1>8 DEF StreamInv

(* The steps of the page leave the stream and its writers alone. *)
LEMMA PageKeeps ==
  ASSUME StreamInv, UNCHANGED logWrites, logTorn' \in BOOLEAN, logTorn => logTorn'
  PROVE  StreamInv'
<1>1. ~logTorn' => ~logTorn /\ SlotsEnd'
  BY DEF StreamInv, SlotsEnd, IsEnded, logWrites
<1>2. \A v \in LogWriters : logWriter[v] = NoAppend \/ Appending(v)
  BY DEF StreamInv, WritersOK
<1>3. \A u \in logTodo : u \in LogTurns /\ logStage[u] # "new"
  BY DEF StreamInv, StreamType, NewOK
<1>. QED
  BY <1>1, <1>2, <1>3, WriteKeeps DEF logWrites, StreamInv, StreamType, Appending

(* A writer looks at the slot, writes it, tells the bus. *)
LEMMA WritingKeeps ==
  ASSUME StreamInv, NEW w \in LogWriters,
         LogCheck(w) \/ LogSlot(w) \/ \E lost \in BOOLEAN : LogPublish(w, lost)
  PROVE  StreamInv' /\ UNCHANGED logEvents
<1>. DEFINE a == logWriter[w]
<1>1. /\ UNCHANGED <<logEvents, logStage, logTodo>>
      /\ Appending(w)
      /\ \A u \in logTodo : u \in LogTurns /\ logStage[u] # "new"
  <2>1. UNCHANGED <<logEvents, logStage, logTodo>> /\ Appending(w)
    BY DEF LogCheck, LogSlot, LogPublish, Appending
  <2>. QED
    BY <2>1 DEF StreamInv, StreamType, NewOK
<1>2. /\ StreamType /\ a \in Writing /\ a.turn \in LogTurns /\ a.id \in Nat
      /\ \A v \in LogWriters : logWriter[v] = NoAppend \/ Appending(v)
      /\ SlotsEnd \/ logTorn
  <2>1. a.turn \in LogTurns /\ \A v \in LogWriters : logWriter[v] = NoAppend \/ Appending(v)
    BY <1>1 DEF StreamInv, WritersOK
  <2>. QED
    BY <2>1 DEF StreamInv, StreamType, Writing
<1>3. ASSUME NEW b, b \in Writing, logWriter' = [logWriter EXCEPT ![w] = b],
             \/ b = NoAppend
             \/ /\ b.at # "rest"
                /\ b.at = "check" => a.at = "check"
                /\ b.turn = a.turn /\ b.kind = a.kind /\ b.id = a.id
      PROVE  /\ logWriter' \in [LogWriters -> Writing] /\ logWriter'[w] = b
             /\ \A v \in LogWriters \ {w} : logWriter'[v] = logWriter[v]
             /\ \A v \in LogWriters :
                  \/ logWriter'[v] = NoAppend
                  \/ /\ Appending(v) /\ logWriter'[v].at # "rest"
                     /\ logWriter'[v].at = "check" => logWriter[v].at = "check"
                     /\ logWriter'[v].turn = logWriter[v].turn
                     /\ logWriter'[v].kind = logWriter[v].kind
                     /\ logWriter'[v].id = logWriter[v].id
  <2>1. /\ logWriter' \in [LogWriters -> Writing] /\ logWriter'[w] = b
        /\ \A v \in LogWriters \ {w} : logWriter'[v] = logWriter[v]
    BY <1>2, <1>3 DEF StreamType
  <2>2. ASSUME NEW v \in LogWriters, v # w, logWriter[v] # NoAppend
        PROVE  Appending(v) /\ logWriter'[v].at # "rest" /\ logWriter'[v] = logWriter[v]
    BY <1>2, <2>1, <2>2 DEF Appending
  <2>3. \/ logWriter'[w] = NoAppend
        \/ /\ Appending(w) /\ logWriter'[w].at # "rest"
           /\ logWriter'[w].at = "check" => logWriter[w].at = "check"
           /\ logWriter'[w].turn = logWriter[w].turn
           /\ logWriter'[w].kind = logWriter[w].kind
           /\ logWriter'[w].id = logWriter[w].id
    BY <1>1, <1>3, <2>1
  <2>. QED
    BY <2>1, <2>2, <2>3
<1>4. CASE LogCheck(w)
  <2>. DEFINE b == [a EXCEPT !.at = IF logLive[a.turn] # 0 THEN "slot" ELSE "publish"]
  <2>1. /\ logWriter' = [logWriter EXCEPT ![w] = b] /\ a.at = "check"
        /\ UNCHANGED <<logLive, logTorn>>
    BY <1>4 DEF LogCheck
  <2>2. /\ b \in Writing /\ b.at \in {"slot", "publish"}
        /\ b.turn = a.turn /\ b.kind = a.kind /\ b.id = a.id
    BY <1>2 DEF Writing
  <2>. HIDE DEF b
  <2>3. ~logTorn' => ~logTorn /\ SlotsEnd'
    <3>. SUFFICES ASSUME ~logTorn, NEW u \in LogTurns, IsEnded(u, Len(logEvents))',
                         logLive'[u] # 0
                  PROVE  \E v \in LogWriters : logWriter'[v].turn = u
                           /\ logWriter'[v].kind = "end" /\ logWriter'[v].at = "slot"
      BY <2>1 DEF SlotsEnd
    <3>1. PICK v \in LogWriters : logWriter[v].turn = u /\ logWriter[v].kind = "end"
                                    /\ logWriter[v].at = "slot"
      BY <1>1, <1>2, <2>1 DEF SlotsEnd, IsEnded
    <3>2. v # w
      BY <2>1, <3>1
    <3>. QED
      BY <1>2, <2>1, <3>1, <3>2 DEF StreamType
  <2>. QED
    BY <1>1, <1>2, <1>3, <2>1, <2>2, <2>3, WriteKeeps DEF StreamType
<1>5. CASE LogSlot(w)
  <2>. DEFINE b == [a EXCEPT !.at = "publish"]
              i == IF a.kind = "end" THEN 0 ELSE a.id
  <2>1. /\ logWriter' = [logWriter EXCEPT ![w] = b] /\ a.at = "slot"
        /\ logLive' = [logLive EXCEPT ![a.turn] = i]
        /\ UNCHANGED logTorn
    BY <1>5 DEF LogSlot
  <2>2. /\ b \in Writing /\ b.at = "publish"
        /\ b.turn = a.turn /\ b.kind = a.kind /\ b.id = a.id /\ i \in Nat
    BY <1>2 DEF Writing
  <2>. HIDE DEF b
  <2>3. /\ logLive' \in [LogTurns -> Nat] /\ logLive'[a.turn] = i
        /\ \A u \in LogTurns \ {a.turn} : logLive'[u] = logLive[u]
    BY <1>2, <2>1, <2>2 DEF StreamType
  <2>4. ~logTorn' => ~logTorn /\ SlotsEnd'
    <3>. SUFFICES ASSUME ~logTorn, NEW u \in LogTurns, IsEnded(u, Len(logEvents))',
                         logLive'[u] # 0
                  PROVE  \E v \in LogWriters : logWriter'[v].turn = u
                           /\ logWriter'[v].kind = "end" /\ logWriter'[v].at = "slot"
      BY <2>1 DEF SlotsEnd
    <3>1. IsEnded(u, Len(logEvents))
      BY <1>1 DEF IsEnded
    <3>2. u # a.turn
      <4>1. CASE a.kind = "end"
        BY <2>3, <4>1
      <4>2. CASE a.kind # "end"
        BY <1>1, <3>1, <4>2 DEF StreamInv, EndWaits
      <4>. QED
        BY <4>1, <4>2
    <3>3. PICK v \in LogWriters : logWriter[v].turn = u /\ logWriter[v].kind = "end"
                                    /\ logWriter[v].at = "slot"
      BY <1>2, <2>3, <3>1, <3>2 DEF SlotsEnd
    <3>4. v # w
      BY <3>2, <3>3
    <3>. QED
      BY <1>3, <2>1, <2>2, <3>3, <3>4
  <2>5. \A u \in LogTurns :
           \/ logLive'[u] = logLive[u] \/ logLive'[u] = 0
           \/ \E v \in LogWriters : /\ Appending(v) /\ logWriter[v].turn = u
                                    /\ logWriter[v].kind # "end"
                                    /\ logLive'[u] = logWriter[v].id
    BY <1>1, <2>3
  <2>. QED
    BY <1>1, <1>2, <1>3, <2>1, <2>2, <2>3, <2>4, <2>5, WriteKeeps DEF StreamType
<1>6. ASSUME NEW lost \in BOOLEAN, LogPublish(w, lost)
      PROVE  StreamInv' /\ UNCHANGED logEvents
  <2>1. /\ logWriter' = [logWriter EXCEPT ![w] = NoAppend] /\ a.at = "publish"
        /\ UNCHANGED logLive /\ logTorn' \in BOOLEAN
        /\ logTorn => logTorn'
    BY <1>2, <1>6 DEF LogPublish, StreamType
  <2>2. NoAppend \in Writing
    BY DEF NoAppend, Writing
  <2>3. ~logTorn' => ~logTorn /\ SlotsEnd'
    <3>. SUFFICES ASSUME ~logTorn, NEW u \in LogTurns, IsEnded(u, Len(logEvents))',
                         logLive'[u] # 0
                  PROVE  \E v \in LogWriters : logWriter'[v].turn = u
                           /\ logWriter'[v].kind = "end" /\ logWriter'[v].at = "slot"
      BY <2>1 DEF SlotsEnd
    <3>1. PICK v \in LogWriters : logWriter[v].turn = u /\ logWriter[v].kind = "end"
                                    /\ logWriter[v].at = "slot"
      BY <1>1, <1>2, <2>1 DEF SlotsEnd, IsEnded
    <3>2. v # w
      BY <2>1, <3>1
    <3>. QED
      BY <1>2, <2>1, <3>1, <3>2 DEF StreamType
  <2>. QED
    BY <1>1, <1>2, <1>3, <2>1, <2>2, <2>3, WriteKeeps DEF StreamType
<1>. QED
  BY <1>4, <1>5, <1>6

(* A recorder starts, goes on or ends; a cleaner ends a turn it found open. *)
Stores(w, t, kind) ==
  /\ LogStore(w, t, kind)
  /\ kind = "start" => logStage[t] = "new"
  /\ logStage' \in [LogTurns -> {"new", "open", "closed", "dead"}]
  /\ \A u \in LogTurns : logStage'[u] = "new" => logStage[u] = "new" /\ u # t
  /\ logTodo' \subseteq logTodo

LEMMA BeginsAre ==
  ASSUME StreamInv, NEW t \in LogTurns,
         LogStart(t) \/ LogDelta(t) \/ LogEnd(t) \/ LogCloseOne(t)
  PROVE  \E w \in LogWriters, kind \in Kinds : Stores(w, t, kind)
<1>1. /\ t \in LogWriters /\ Cleaner \in LogWriters
      /\ logStage \in [LogTurns -> {"new", "open", "closed", "dead"}]
  BY Names DEF StreamInv, StreamType
<1>2. \A kind \in {"start", "delta", "end"} : kind \in Kinds
  BY DEF Kinds
<1>3. CASE LogStart(t)
  BY <1>1, <1>2, <1>3 DEF LogStart, Stores
<1>4. CASE LogDelta(t)
  BY <1>1, <1>2, <1>4 DEF LogDelta, Stores
<1>5. CASE LogEnd(t)
  BY <1>1, <1>2, <1>5 DEF LogEnd, Stores
<1>6. CASE LogCloseOne(t)
  <2>1. logStage[t] # "new"
    BY <1>6 DEF LogCloseOne, StreamInv, NewOK
  <2>. QED
    BY <1>1, <1>2, <1>6, <2>1 DEF LogCloseOne, Stores
<1>. QED
  BY <1>3, <1>4, <1>5, <1>6

(* A recorder dies. *)
LEMMA DieKeeps ==
  ASSUME StreamInv, NEW t \in LogTurns, LogDie(t)
  PROVE  StreamInv'
<1>1. /\ UNCHANGED <<logEvents, logLive, logTodo>>
      /\ logStage[t] \in {"open", "closed"} /\ logStage' = [logStage EXCEPT ![t] = "dead"]
      /\ logWriter' = [logWriter EXCEPT ![t] = NoAppend]
      /\ logTorn' = (logTorn \/ Appending(t))
  BY DEF LogDie, Appending
<1>2. StreamType /\ t \in LogWriters /\ NoAppend \in Writing
  BY Names DEF StreamInv, NoAppend, Writing
<1>3. /\ logWriter' \in [LogWriters -> Writing] /\ logWriter'[t] = NoAppend
      /\ \A v \in LogWriters \ {t} : logWriter'[v] = logWriter[v]
      /\ logLive' \in [LogTurns -> Nat] /\ logTorn' \in BOOLEAN
      /\ logStage' \in [LogTurns -> {"new", "open", "closed", "dead"}]
      /\ \A u \in LogTurns : logStage'[u] = "new" => logStage[u] = "new"
  BY <1>1, <1>2 DEF StreamType
<1>4. \A v \in LogWriters : logWriter[v] = NoAppend \/ Appending(v)
  BY DEF StreamInv, WritersOK
<1>5. \A u \in logTodo : u \in LogTurns /\ logStage[u] # "new"
  BY DEF StreamInv, StreamType, NewOK
<1>6. ~logTorn' => ~logTorn /\ SlotsEnd'
  <2>. SUFFICES ASSUME ~logTorn, ~Appending(t) PROVE SlotsEnd'
    BY <1>1
  <2>1. logWriter[t] = NoAppend
    BY <1>2, <1>4
  <2>2. logWriter' = logWriter
    BY <1>1, <1>2, <2>1 DEF StreamType
  <2>. QED
    BY <1>1, <2>2 DEF StreamInv, SlotsEnd, IsEnded
<1>7. \A v \in LogWriters :
        \/ logWriter'[v] = NoAppend
        \/ /\ Appending(v) /\ logWriter'[v].at # "rest"
           /\ logWriter'[v].at = "check" => logWriter[v].at = "check"
           /\ logWriter'[v].turn = logWriter[v].turn
           /\ logWriter'[v].kind = logWriter[v].kind /\ logWriter'[v].id = logWriter[v].id
  BY <1>3, <1>4 DEF Appending
<1>. QED
  BY <1>1, <1>3, <1>5, <1>6, <1>7, WriteKeeps

(* A cleaner looks which turns are open. *)
LEMMA CloseKeeps ==
  ASSUME StreamInv, NEW stop \in BOOLEAN, LogClose(stop)
  PROVE  StreamInv'
<1>1. /\ UNCHANGED <<logEvents, logLive, logWriter, logStage, logTorn>>
      /\ logTodo' \subseteq OpenTurns
  BY DEF LogClose
<1>2. StreamType /\ \A v \in LogWriters : logWriter[v] = NoAppend \/ Appending(v)
  BY DEF StreamInv, WritersOK
<1>3. \A u \in logTodo' : u \in LogTurns /\ logStage[u] # "new"
  BY <1>1 DEF OpenTurns, StreamInv, NewOK
<1>4. ~logTorn' => ~logTorn /\ SlotsEnd'
  BY <1>1 DEF StreamInv, SlotsEnd, IsEnded
<1>. QED
  BY <1>1, <1>2, <1>3, <1>4, WriteKeeps DEF StreamType, Appending

(* The steps of the client and of its sync request. *)
PageStep ==
  LogConnect \/ LogStale \/ LogReplay \/ LogHead \/ LogSnapshot \/ LogSynced \/ LogApply

LEMMA PageStepKeeps ==
  ASSUME StreamInv, PageStep
  PROVE  StreamInv' /\ UNCHANGED logWrites /\ (logTorn => logTorn')
<1>1. UNCHANGED logWrites
  BY DEF PageStep, LogConnect, LogStale, LogReplay, LogHead, LogSnapshot, LogSynced, LogApply
<1>2. logTorn' = logTorn \/ logTorn' = (logTorn \/ IsAppending)
  BY DEF PageStep, LogConnect, LogStale, LogReplay, LogHead, LogSnapshot, LogSynced, LogApply
<1>3. logTorn' \in BOOLEAN /\ (logTorn => logTorn')
  BY <1>2 DEF StreamInv, StreamType
<1>. QED
  BY <1>1, <1>3, PageKeeps

(* Every step keeps what the writers agree on. *)
LEMMA StreamNext ==
  ASSUME StreamInv, [LogNext]_logVars
  PROVE  StreamInv'
<1>1. CASE UNCHANGED logVars
  <2>1. UNCHANGED logWrites /\ UNCHANGED logTorn
    BY <1>1 DEF logVars, logWrites
  <2>. QED
    BY <2>1, PageKeeps DEF StreamInv, StreamType
<1>2. ASSUME NEW t \in LogTurns, LogStart(t) \/ LogDelta(t) \/ LogEnd(t) \/ LogCloseOne(t)
      PROVE  StreamInv'
  BY <1>2, BeginsAre, StoreKeeps DEF Stores
<1>3. CASE PageStep
  BY <1>3, PageStepKeeps
<1>. QED
  BY <1>1, <1>2, <1>3, DieKeeps, CloseKeeps, WritingKeeps
     DEF LogNext, LogRun, LogOther, PageStep

LEMMA StreamInit == LogInit => StreamInv
<1>. SUFFICES ASSUME LogInit PROVE StreamInv
  OBVIOUS
<1>1. logEvents = <<>> /\ <<>> \in Seq(Event) /\ Len(<<>>) = 0
  BY EmptySeq DEF LogInit
<1>2. Ids = {}
  BY <1>1 DEF Ids
<1>3. NoAppend \in Writing /\ NoAppend.at = "rest" /\ NoAppend.turn = "none"
  BY DEF NoAppend, Writing
<1>4. StreamType
  BY <1>1, <1>3 DEF LogInit, StreamType
<1>5. WritersOK /\ ChecksOK
  BY <1>3 DEF LogInit, WritersOK, ChecksOK, Appending
<1>6. NewOK
  BY <1>2, <1>3, Names DEF LogInit, NewOK
<1>7. SlotsOK
  BY DEF LogInit, SlotsOK
<1>8. EndsLast /\ EndWaits /\ SlotsEnd
  BY <1>2, <1>3 DEF LogInit, EndsLast, EndWaits, SlotsEnd, Appending
<1>. QED
  BY <1>4, <1>5, <1>6, <1>7, <1>8 DEF StreamInv

-----------------------------------------------------------------------------
(* Lemmas about the client.                                                *)

LEMMA HighestOfTwo ==
  ASSUME NEW a \in Nat, NEW b \in Nat
  PROVE  Highest({a, b}) \in {a, b} /\ Highest({a, b}) >= a /\ Highest({a, b}) >= b
<1>1. \E n \in {a, b} : \A m \in {a, b} : m <= n
  <2>1. CASE a <= b
    BY <2>1
  <2>2. CASE b <= a
    BY <2>2
  <2>. QED
    BY <2>1, <2>2
<1>2. Highest({a, b}) \in {a, b} /\ \A m \in {a, b} : m <= Highest({a, b})
  BY <1>1 DEF Highest
<1>. QED
  BY <1>2

LEMMA HighestOfThree ==
  ASSUME NEW a \in Nat, NEW b \in Nat, NEW c \in Nat
  PROVE  /\ Highest({a, b, c}) \in {a, b, c} /\ Highest({a, b, c}) >= a
         /\ Highest({a, b, c}) >= b /\ Highest({a, b, c}) >= c
<1>1. \E n \in {a, b, c} : \A m \in {a, b, c} : m <= n
  <2>1. CASE a <= b /\ c <= b
    BY <2>1
  <2>2. CASE b <= a /\ c <= a
    BY <2>2
  <2>3. CASE a <= c /\ b <= c
    BY <2>3
  <2>. QED
    BY <2>1, <2>2, <2>3
<1>2. Highest({a, b, c}) \in {a, b, c} /\ \A m \in {a, b, c} : m <= Highest({a, b, c})
  BY <1>1 DEF Highest
<1>. QED
  BY <1>2

(* The numbers of the client, and its frames. *)
LEMMA Sizes ==
  ASSUME StreamType, ClientType
  PROVE  /\ Len(logEvents) \in Nat /\ Ids = 1..Len(logEvents)
         /\ Len(logInbox) \in Nat /\ Frames = 1..Len(logInbox)
         /\ \A i \in Ids : logEvents[i] \in Event
         /\ \A p \in Frames : logInbox[p] \in Frame /\ logInbox[p].id \in Nat
         /\ logClient.cursor \in Nat /\ logClient.maxSeen \in Nat
         /\ logClient.syncing \in BOOLEAN /\ logClient.snapshot \in BOOLEAN
         /\ logClient.inSnapshot \subseteq LogTurns /\ logClient.completed \subseteq LogTurns
         /\ \A t \in LogTurns : logClient.shown[t] \in Nat
         /\ logReq.at \in {"away", "none", "asked", "head", "read"}
         /\ logReq.after \in Nat /\ logReq.head \in Nat
<1>1. Len(logEvents) \in Nat /\ \A i \in 1..Len(logEvents) : logEvents[i] \in Event
  BY LenProperties, ElementOfSeq DEF StreamType
<1>2. /\ Len(logInbox) \in Nat /\ Frames = 1..Len(logInbox)
      /\ \A p \in 1..Len(logInbox) : logInbox[p] \in Frame
  BY LenProperties, ElementOfSeq DEF ClientType, Frames
<1>. QED
  BY <1>1, <1>2 DEF Ids, ClientType, Client, Request, Frame

(* A step of the writers that the page does not see: events may be added,  *)
(* appends begin and go on.                                                *)
LEMMA UnseenKeeps ==
  ASSUME StreamInv, ClientInv, StreamType', UNCHANGED <<logReq, logInbox, logClient>>,
         Len(logEvents) <= Len(logEvents'),
         \A i \in Ids : logEvents'[i] = logEvents[i],
         ~logTorn' =>
           /\ ~logTorn
           /\ \A w \in LogWriters : Appending(w)' =>
                \/ Appending(w) /\ logWriter'[w].id = logWriter[w].id
                \/ logWriter'[w].id > Len(logEvents)
           /\ logClient.syncing => \A i \in Ids : Pending(i) => Pending(i)'
           /\ \A i \in Ids' : i \in Ids \/ Pending(i)'
  PROVE  ClientInv'
<1>1. ClientType /\ ClientType'
  BY DEF ClientInv, ClientType
<1>2. /\ Len(logEvents) \in Nat /\ Ids = 1..Len(logEvents)
      /\ Frames' = Frames
      /\ \A p \in Frames : logInbox[p].id \in Nat
      /\ logClient.cursor \in Nat /\ logClient.maxSeen \in Nat
  BY <1>1, Sizes DEF StreamInv, Frames
<1>3. Len(logEvents') \in Nat /\ Ids' = 1..Len(logEvents') /\ Ids \subseteq Ids'
  <2>1. Len(logEvents') \in Nat
    BY LenProperties DEF StreamType
  <2>. QED
    BY <1>2, <2>1 DEF Ids
<1>4. FramesOK'
  <2>. SUFFICES ASSUME NEW p \in Frames
                PROVE  IF logInbox[p].kind = "synced"
                       THEN logInbox[p].id \in 0..Len(logEvents') /\ logInbox[p].turn = "none"
                       ELSE /\ logInbox[p].id \in Ids'
                            /\ logEvents'[logInbox[p].id] =
                                 [turn |-> logInbox[p].turn, kind |-> logInbox[p].kind]
    BY <1>2 DEF FramesOK
  <2>1. IF logInbox[p].kind = "synced"
        THEN logInbox[p].id \in 0..Len(logEvents) /\ logInbox[p].turn = "none"
        ELSE /\ logInbox[p].id \in Ids
             /\ logEvents[logInbox[p].id] =
                  [turn |-> logInbox[p].turn, kind |-> logInbox[p].kind]
    BY DEF FramesOK, ClientInv
  <2>. QED
    BY <1>2, <1>3, <2>1
<1>5. ShownOK' /\ CursorOK'
  <2>1. ShownOK'
    BY <1>3 DEF ShownOK, ClientInv
  <2>2. CursorOK'
    BY <1>2, <1>3 DEF CursorOK, ClientInv
  <2>. QED
    BY <2>1, <2>2
<1>6. RequestOK'
  <2>1. logReq.head \in Nat
    BY <1>1 DEF ClientType, Request
  <2>. QED
    BY <1>2, <1>3, <2>1 DEF RequestOK, ClientInv, Asking, NoSynced
<1>7. ASSUME ~logTorn' PROVE SyncInv'
  <2>1. /\ SyncInv
        /\ \A w \in LogWriters : Appending(w)' =>
             \/ Appending(w) /\ logWriter'[w].id = logWriter[w].id
             \/ logWriter'[w].id > Len(logEvents)
        /\ logClient.syncing => \A i \in Ids : Pending(i) => Pending(i)'
        /\ \A i \in Ids' : i \in Ids \/ Pending(i)'
    BY <1>7 DEF ClientInv
  <2>2. /\ \A t : Gone(t)' <=> Gone(t)
        /\ \A i : InInbox(i)' <=> InInbox(i)
    BY <1>2 DEF Gone, Quiet, Hidden, InInbox
  <2>3. 1..logClient.cursor \subseteq Ids
    BY <1>2 DEF ClientInv, CursorOK
  <2>4. PastGone'
    <3>. SUFFICES ASSUME NEW i \in 1..logClient.cursor, logEvents'[i].kind = "end"
                  PROVE  Gone(logEvents[i].turn)'
      BY DEF PastGone
    <3>1. logEvents'[i] = logEvents[i]
      BY <2>3
    <3>2. Gone(logEvents[i].turn)
      BY <2>1, <3>1 DEF SyncInv, PastGone
    <3>. QED
      BY <1>2, <3>1, <3>2 DEF Gone, Quiet, Hidden
  <2>5. ASSUME EndsArrive, logClient.syncing PROVE EndsArrive'
    <3>. SUFFICES ASSUME NEW i \in Ids', logEvents'[i].kind = "end"
                  PROVE  Gone(logEvents[i].turn)' \/ InInbox(i)' \/ Pending(i)'
      BY DEF EndsArrive
    <3>. SUFFICES ASSUME i \in Ids
                  PROVE  Gone(logEvents[i].turn)' \/ InInbox(i)' \/ Pending(i)'
      BY <2>1
    <3>1. logEvents'[i] = logEvents[i]
      OBVIOUS
    <3>2. Gone(logEvents[i].turn) \/ InInbox(i) \/ Pending(i)
      BY <2>5, <3>1 DEF EndsArrive
    <3>3. Gone(logEvents[i].turn) => Gone(logEvents[i].turn)'
      BY <1>2, <3>1 DEF Gone, Quiet, Hidden
    <3>. QED
      BY <2>1, <2>2, <2>5, <3>2, <3>3
  <2>6. ASSUME NEW n \in 0..Len(logEvents), NEW r \in Frames, Answered(n, r)
        PROVE  n \in 0..Len(logEvents') /\ Answered(n, r)'
    <3>1. n \in 0..Len(logEvents')
      BY <1>2, <1>3
    <3>2. \A w \in LogWriters : Appending(w)' => logWriter'[w].id > n
      <4>. SUFFICES ASSUME NEW w \in LogWriters, Appending(w)' PROVE logWriter'[w].id > n
        OBVIOUS
      <4>1. CASE Appending(w) /\ logWriter'[w].id = logWriter[w].id
        BY <2>6, <4>1 DEF Answered
      <4>2. CASE logWriter'[w].id > Len(logEvents)
        <5>1. logWriter'[w].id \in Nat
          BY DEF StreamType, Writing
        <5>. QED
          BY <1>2, <4>2, <5>1
      <4>. QED
        BY <2>1, <4>1, <4>2
    <3>3. ASSUME NEW i \in 1..n, logEvents'[i].kind = "end"
          PROVE  Gone(logEvents[i].turn)' \/ InInbox(i)'
      <4>1. i \in Ids
        BY <1>2
      <4>2. logEvents'[i] = logEvents[i]
        BY <4>1
      <4>3. Gone(logEvents[i].turn) \/ InInbox(i)
        BY <2>6, <3>3, <4>2 DEF Answered
      <4>4. Gone(logEvents[i].turn) => Gone(logEvents[i].turn)'
        BY <1>2, <4>2 DEF Gone, Quiet, Hidden
      <4>. QED
        BY <2>2, <4>3, <4>4
    <3>. QED
      BY <1>2, <2>6, <3>1, <3>2, <3>3 DEF Answered
  <2>7. ASSUME InOrder PROVE InOrder'
    <3>. SUFFICES ASSUME NEW p \in Frames, NEW q \in Frames, p < q,
                         logInbox[q].kind \in {"start", "delta"}
                  PROVE  ~IsEnded(logInbox[q].turn, logInbox[p].id)'
      BY <1>2 DEF InOrder
    <3>1. ~IsEnded(logInbox[q].turn, logInbox[p].id)
      BY <2>7 DEF InOrder
    <3>2. logInbox[p].id <= Len(logEvents)
      <4>1. logInbox[p].id \in 0..Len(logEvents) \/ logInbox[p].id \in Ids
        BY DEF ClientInv, FramesOK
      <4>. QED
        BY <1>2, <4>1
    <3>3. \A i \in 1..logInbox[p].id : i \in Ids
      BY <1>2, <3>2
    <3>. QED
      BY <3>1, <3>3 DEF IsEnded
  <2>8. Asking => logClient.syncing
    BY DEF ClientInv, RequestOK
  <2>. QED
    BY <1>2, <2>1, <2>4, <2>5, <2>6, <2>7, <2>8 DEF SyncInv, Asking
<1>. QED
  BY <1>1, <1>4, <1>5, <1>6, <1>7 DEF ClientInv

(* A writer begins, looks, writes its slot or dies: the page sees nothing. *)
LEMMA StoresUnseen ==
  ASSUME StreamInv, ClientInv, StreamInv', NEW w \in LogWriters, NEW t \in LogTurns,
         NEW kind \in Kinds, LogStore(w, t, kind)
  PROVE  ClientInv'
<1>. DEFINE e == [turn |-> t, kind |-> kind]
            n == Len(logEvents) + 1
            a == [at |-> IF kind = "delta" THEN "check" ELSE "slot", turn |-> t,
                  kind |-> kind, id |-> n]
<1>1. /\ logEvents' = Append(logEvents, e) /\ UNCHANGED <<logReq, logInbox, logClient>>
      /\ logWriter' = [logWriter EXCEPT ![w] = a] /\ logWriter[w].at = "rest"
      /\ logTorn => logTorn'
  BY DEF LogStore, logSide
<1>2. StreamType /\ StreamType' /\ e \in Event
  BY DEF StreamInv, Event
<1>3. /\ Len(logEvents') = n /\ Len(logEvents) \in Nat
      /\ \A i \in Ids : logEvents'[i] = logEvents[i]
      /\ \A i \in Ids' : i \in Ids \/ i = n
  BY <1>1, <1>2, Stored
<1>4. a.at # "rest" /\ a.id = n
  OBVIOUS
<1>. HIDE DEF a
<1>5. logWriter'[w] = a /\ \A v \in LogWriters \ {w} : logWriter'[v] = logWriter[v]
  BY <1>1, <1>2 DEF StreamType
<1>6. \A v \in LogWriters : Appending(v)' =>
        \/ Appending(v) /\ logWriter'[v].id = logWriter[v].id
        \/ logWriter'[v].id > Len(logEvents)
  BY <1>3, <1>4, <1>5 DEF Appending
<1>7. \A i \in Ids : Pending(i) => Pending(i)'
  BY <1>1, <1>5 DEF Pending, Appending
<1>8. \A i : i = n => Pending(i)'
  BY <1>4, <1>5 DEF Pending, Appending
<1>9. \A i \in Ids' : i \in Ids \/ Pending(i)'
  BY <1>3, <1>8
<1>10. Len(logEvents) <= Len(logEvents')
  BY <1>3
<1>11. ~logTorn' => ~logTorn
  BY <1>1
<1>. HIDE DEF n
<1>. QED
  BY <1>1, <1>2, <1>3, <1>6, <1>7, <1>9, <1>10, <1>11, UnseenKeeps

(* The ids of the appends that go on stay. *)
LEMMA SlotUnseen ==
  ASSUME StreamInv, ClientInv, StreamInv', UNCHANGED <<logEvents, logReq, logInbox, logClient>>,
         ~logTorn' =>
           /\ ~logTorn
           /\ \A v \in LogWriters : Appending(v)' => Appending(v) /\ logWriter'[v].id = logWriter[v].id
           /\ logClient.syncing =>
                \A v \in LogWriters : Appending(v) => Appending(v)' /\ logWriter'[v].id = logWriter[v].id
  PROVE  ClientInv'
<1>1. Ids' = Ids /\ Len(logEvents') = Len(logEvents) /\ Len(logEvents) \in Nat
  BY LenProperties DEF Ids, StreamInv, StreamType
<1>2. ASSUME ~logTorn', logClient.syncing PROVE \A i \in Ids : Pending(i) => Pending(i)'
  BY <1>2 DEF Pending
<1>. QED
  BY <1>1, <1>2, UnseenKeeps DEF StreamInv

LEMMA WritersUnseen ==
  ASSUME StreamInv, ClientInv, StreamInv',
         \/ \E w \in LogWriters : LogCheck(w) \/ LogSlot(w)
         \/ \E t \in LogTurns : LogDie(t)
         \/ \E stop \in BOOLEAN : LogClose(stop)
  PROVE  ClientInv'
<1>1. logWriter \in [LogWriters -> Writing]
  BY DEF StreamInv, StreamType
<1>2. ASSUME NEW w \in LogWriters, NEW at, at # "rest", Appending(w),
             logWriter' = [logWriter EXCEPT ![w].at = at]
      PROVE  \A v \in LogWriters : (Appending(v)' <=> Appending(v)) /\ logWriter'[v].id = logWriter[v].id
  <2>1. logWriter[w] \in Writing
    BY <1>1
  <2>2. [logWriter[w] EXCEPT !.at = at].at = at /\ [logWriter[w] EXCEPT !.at = at].id = logWriter[w].id
    BY <2>1 DEF Writing
  <2>3. logWriter' = [logWriter EXCEPT ![w] = [logWriter[w] EXCEPT !.at = at]]
    BY <1>2
  <2>4. /\ logWriter'[w].at = at /\ logWriter'[w].id = logWriter[w].id
        /\ \A v \in LogWriters \ {w} : logWriter'[v] = logWriter[v]
    BY <1>1, <2>2, <2>3
  <2>. QED
    BY <1>2, <2>4 DEF Appending
<1>3. ASSUME NEW w \in LogWriters, LogCheck(w) PROVE ClientInv'
  <2>. DEFINE at == IF logLive[logWriter[w].turn] # 0 THEN "slot" ELSE "publish"
  <2>1. /\ UNCHANGED <<logEvents, logReq, logInbox, logClient, logTorn>> /\ Appending(w)
        /\ logWriter' = [logWriter EXCEPT ![w].at = at] /\ at # "rest"
    BY <1>3 DEF LogCheck, logSide, Appending
  <2>. HIDE DEF at
  <2>. QED
    BY <1>2, <2>1, SlotUnseen
<1>4. ASSUME NEW w \in LogWriters, LogSlot(w) PROVE ClientInv'
  <2>1. /\ UNCHANGED <<logEvents, logReq, logInbox, logClient, logTorn>> /\ Appending(w)
        /\ logWriter' = [logWriter EXCEPT ![w].at = "publish"]
    BY <1>4 DEF LogSlot, logSide, Appending
  <2>. QED
    BY <1>2, <2>1, SlotUnseen
<1>5. ASSUME NEW t \in LogTurns, LogDie(t) PROVE ClientInv'
  <2>1. /\ UNCHANGED <<logEvents, logReq, logInbox, logClient>>
        /\ logWriter' = [logWriter EXCEPT ![t] = NoAppend]
        /\ logTorn' = (logTorn \/ Appending(t))
    BY <1>5 DEF LogDie, logSide, Appending
  <2>2. t \in LogWriters
    BY Names
  <2>3. ~Appending(t) => logWriter' = logWriter
    BY <1>1, <2>1, <2>2 DEF StreamInv, WritersOK
  <2>. QED
    BY <2>1, <2>3, SlotUnseen DEF Appending
<1>6. ASSUME NEW stop \in BOOLEAN, LogClose(stop) PROVE ClientInv'
  BY <1>6, SlotUnseen DEF LogClose, logSide, Appending
<1>. QED
  BY <1>3, <1>4, <1>5, <1>6

(* A frame is put into the inbox. *)
LEMMA Arrives ==
  ASSUME ClientType, NEW f \in Frame, logInbox' = Append(logInbox, f)
  PROVE  /\ logInbox' \in Seq(Frame) /\ Len(logInbox) \in Nat
         /\ Frames = 1..Len(logInbox) /\ Frames' = 1..(Len(logInbox) + 1)
         /\ Frames \subseteq Frames'
         /\ \A p \in Frames : logInbox'[p] = logInbox[p]
         /\ logInbox'[Len(logInbox) + 1] = f
         /\ Len(logInbox) + 1 \in Frames' /\ Len(logInbox) + 1 \notin Frames
         /\ \A p \in Frames' : p \in Frames \/ p = Len(logInbox) + 1
<1>1. Len(logInbox) \in Nat /\ Frames = 1..Len(logInbox)
  BY LenProperties DEF ClientType, Frames
<1>2. /\ logInbox' \in Seq(Frame) /\ Len(logInbox') = Len(logInbox) + 1
      /\ \A i \in 1..Len(logInbox) : logInbox'[i] = logInbox[i]
      /\ logInbox'[Len(logInbox) + 1] = f
  BY AppendProperties DEF ClientType
<1>3. Frames' = 1..(Len(logInbox) + 1)
  BY <1>2, LenProperties DEF Frames
<1>. QED
  BY <1>1, <1>2, <1>3

(* The bus hands an event to the client, or loses it. *)
LEMMA PublishKeeps ==
  ASSUME StreamInv, ClientInv, StreamInv', NEW w \in LogWriters, NEW lost \in BOOLEAN,
         LogPublish(w, lost)
  PROVE  ClientInv'
<1>. DEFINE a == logWriter[w]
            f == [id |-> a.id, turn |-> a.turn, kind |-> a.kind]
            m == Len(logInbox) + 1
<1>1. /\ a.at = "publish" /\ UNCHANGED <<logEvents, logReq, logClient>>
      /\ logWriter' = [logWriter EXCEPT ![w] = NoAppend]
      /\ logInbox' = IF lost \/ logReq = Away THEN logInbox ELSE Append(logInbox, f)
      /\ logTorn' = (logTorn \/ (lost /\ logClient.syncing))
  BY DEF LogPublish, logSide
<1>2. StreamType /\ ClientType /\ StreamType'
  BY DEF StreamInv, ClientInv
<1>3. /\ Len(logEvents) \in Nat /\ Ids = 1..Len(logEvents) /\ Ids' = Ids
      /\ \A i \in Ids : logEvents[i] \in Event
      /\ logClient.cursor \in Nat /\ logClient.syncing \in BOOLEAN
      /\ \A p \in Frames : logInbox[p].id \in Nat
  BY <1>1, <1>2, Sizes DEF Ids
<1>4. /\ Appending(w) /\ a.turn \in LogTurns /\ a.id \in Ids
      /\ logEvents[a.id] = [turn |-> a.turn, kind |-> a.kind] /\ a.kind \in Kinds
      /\ a.kind # "synced" /\ a.turn # "none"
  <2>1. /\ Appending(w) /\ a.turn \in LogTurns /\ a.id \in Ids
        /\ logEvents[a.id] = [turn |-> a.turn, kind |-> a.kind]
    BY <1>1 DEF Appending, StreamInv, WritersOK
  <2>2. a.kind \in Kinds
    BY <1>3, <2>1 DEF Event
  <2>. QED
    BY <2>1, <2>2, Names DEF Kinds
<1>5. /\ \A v \in LogWriters \ {w} : logWriter'[v] = logWriter[v]
      /\ ~Appending(w)'
  BY <1>1, <1>2 DEF StreamType, Appending, NoAppend
<1>6. \A v \in LogWriters : Appending(v)' =>
        v # w /\ Appending(v) /\ logWriter'[v].id = logWriter[v].id
  BY <1>5 DEF Appending
<1>7. CASE lost \/ logReq = Away
  <2>1. logReq = Away => ~logClient.syncing
    BY DEF ClientInv, RequestOK, Away, NoRequest
  <2>2. ~logTorn' => ~logTorn /\ ~logClient.syncing
    BY <1>1, <1>7, <2>1
  <2>. QED
    BY <1>1, <1>6, <1>7, <2>2, SlotUnseen
<1>8. CASE ~lost /\ logReq # Away
  <2>1. logInbox' = Append(logInbox, f) /\ logTorn' = logTorn /\ f \in Frame
        /\ f.id = a.id /\ f.turn = a.turn /\ f.kind = a.kind
    BY <1>1, <1>2, <1>3, <1>4, <1>8 DEF Frame, StreamInv, StreamType
  <2>. HIDE DEF f
  <2>2. /\ logInbox' \in Seq(Frame) /\ Len(logInbox) \in Nat
        /\ Frames = 1..Len(logInbox) /\ Frames' = 1..m /\ Frames \subseteq Frames'
        /\ \A p \in Frames : logInbox'[p] = logInbox[p]
        /\ logInbox'[m] = f /\ m \in Frames' /\ m \notin Frames
        /\ \A p \in Frames' : p \in Frames \/ p = m
    BY <1>2, <2>1, Arrives
  <2>. HIDE DEF m
  <2>3. ClientType'
    BY <1>1, <1>2, <2>2 DEF ClientType
  <2>4. FramesOK'
    <3>. SUFFICES ASSUME NEW p \in Frames'
                  PROVE  IF logInbox'[p].kind = "synced"
                         THEN logInbox'[p].id \in 0..Len(logEvents) /\ logInbox'[p].turn = "none"
                         ELSE /\ logInbox'[p].id \in Ids
                              /\ logEvents[logInbox'[p].id] =
                                   [turn |-> logInbox'[p].turn, kind |-> logInbox'[p].kind]
      BY <1>1, <1>3 DEF FramesOK
    <3>1. CASE p = m
      BY <1>4, <2>1, <2>2, <3>1
    <3>2. CASE p \in Frames
      <4>1. IF logInbox[p].kind = "synced"
            THEN logInbox[p].id \in 0..Len(logEvents) /\ logInbox[p].turn = "none"
            ELSE /\ logInbox[p].id \in Ids
                 /\ logEvents[logInbox[p].id] =
                      [turn |-> logInbox[p].turn, kind |-> logInbox[p].kind]
        BY <3>2 DEF FramesOK, ClientInv
      <4>. QED
        BY <2>2, <3>2, <4>1
    <3>. QED
      BY <2>2, <3>1, <3>2
  <2>5. ShownOK' /\ CursorOK'
    BY <1>1, <1>3 DEF ShownOK, CursorOK, ClientInv
  <2>6. NoSynced => NoSynced'
    BY <1>4, <2>1, <2>2 DEF NoSynced
  <2>7. RequestOK'
    <3>1. /\ \A p, q \in Frames' :
               logInbox'[p].kind = "synced" /\ logInbox'[q].kind = "synced" => p = q
      <4>1. \A p, q \in Frames :
               logInbox[p].kind = "synced" /\ logInbox[q].kind = "synced" => p = q
        BY DEF ClientInv, RequestOK
      <4>2. \A p \in Frames' : logInbox'[p].kind = "synced" =>
              p \in Frames /\ logInbox[p].kind = "synced"
        BY <1>4, <2>1, <2>2
      <4>. QED
        BY <4>1, <4>2
    <3>2. logReq.at # "away"
      BY <1>8 DEF ClientInv, RequestOK
    <3>. QED
      BY <1>1, <2>6, <3>1, <3>2 DEF RequestOK, ClientInv, Asking
  <2>8. ASSUME ~logTorn' PROVE SyncInv'
    <3>1. SyncInv /\ EndWaits /\ ~logTorn
      BY <2>1, <2>8 DEF ClientInv, StreamInv
    <3>2. a.kind # "end" => \A i \in Ids :
            ~(logEvents[i].turn = a.turn /\ logEvents[i].kind = "end")
      BY <1>2, <1>3, <1>4, <3>1, EndedMeans DEF EndWaits
    <3>3. ASSUME NEW i \in Ids, logEvents[i].kind = "end", Gone(logEvents[i].turn)
          PROVE  Gone(logEvents[i].turn)'
      <4>. DEFINE t == logEvents[i].turn
      <4>1. logInbox'[m].turn = t => logInbox'[m].kind = "end"
        BY <2>1, <2>2, <3>2, <3>3
      <4>2. Quiet(t) => \A p \in Frames' : logInbox'[p].turn = t => logInbox'[p].kind = "end"
        BY <2>2, <4>1 DEF Quiet
      <4>. QED
        BY <1>1, <3>3, <4>2 DEF Gone, Quiet, Hidden
    <3>4. \A i : InInbox(i) => InInbox(i)'
      BY <2>2 DEF InInbox
    <3>5. \A i : Pending(i) => Pending(i)' \/ InInbox(i)'
      <4>. SUFFICES ASSUME NEW i, NEW v \in LogWriters, Appending(v), logWriter[v].id = i
                    PROVE  Pending(i)' \/ InInbox(i)'
        BY DEF Pending
      <4>1. CASE v = w
        BY <1>4, <2>1, <2>2, <4>1 DEF InInbox
      <4>2. CASE v # w
        BY <1>5, <4>2 DEF Pending, Appending
      <4>. QED
        BY <4>1, <4>2
    <3>6. PastGone'
      <4>. SUFFICES ASSUME NEW i \in 1..logClient.cursor, logEvents[i].kind = "end"
                    PROVE  Gone(logEvents[i].turn)'
        BY <1>1 DEF PastGone
      <4>1. i \in Ids
        BY <1>3 DEF ClientInv, CursorOK
      <4>2. Gone(logEvents[i].turn)
        BY <3>1 DEF SyncInv, PastGone
      <4>. QED
        BY <3>3, <4>1, <4>2
    <3>7. ASSUME EndsArrive PROVE EndsArrive'
      <4>. SUFFICES ASSUME NEW i \in Ids, logEvents[i].kind = "end"
                    PROVE  Gone(logEvents[i].turn)' \/ InInbox(i)' \/ Pending(i)'
        BY <1>1, <1>3 DEF EndsArrive
      <4>1. Gone(logEvents[i].turn) \/ InInbox(i) \/ Pending(i)
        BY <3>7 DEF EndsArrive
      <4>. QED
        BY <3>3, <3>4, <3>5, <4>1
    <3>8. ASSUME NEW n \in 0..Len(logEvents), NEW r \in Frames, Answered(n, r)
          PROVE  r \in Frames' /\ Answered(n, r)'
      <4>1. /\ logInbox[r].kind = "synced" /\ logClient.cursor <= n /\ logClient.maxSeen <= n
            /\ \A p \in Frames : IF p <= r THEN logInbox[p].id <= n ELSE logInbox[p].id > n
            /\ \A v \in LogWriters : Appending(v) => logWriter[v].id > n
            /\ \A i \in 1..n : logEvents[i].kind = "end" => Gone(logEvents[i].turn) \/ InInbox(i)
        BY <3>8 DEF Answered
      <4>2. \A p \in Frames' : IF p <= r THEN logInbox'[p].id <= n ELSE logInbox'[p].id > n
        <5>1. ~(m <= r)
          BY <2>2 DEF m
        <5>2. logInbox'[m].id > n
          BY <1>4, <2>1, <2>2, <4>1
        <5>. QED
          BY <2>2, <4>1, <5>1, <5>2
      <4>3. \A v \in LogWriters : Appending(v)' => logWriter'[v].id > n
        BY <1>6, <4>1
      <4>4. ASSUME NEW i \in 1..n, logEvents[i].kind = "end"
            PROVE  Gone(logEvents[i].turn)' \/ InInbox(i)'
        <5>1. i \in Ids
          BY <1>3
        <5>. QED
          BY <3>3, <3>4, <4>1, <4>4, <5>1
      <4>. QED
        BY <1>1, <2>2, <4>1, <4>2, <4>3, <4>4 DEF Answered
    <3>9. ASSUME InOrder PROVE InOrder'
      <4>. SUFFICES ASSUME NEW p \in Frames', NEW q \in Frames', p < q,
                           logInbox'[q].kind \in {"start", "delta"},
                           NEW i \in 1..logInbox'[p].id,
                           logEvents[i] = [turn |-> logInbox'[q].turn, kind |-> "end"]
                    PROVE  FALSE
        BY <1>1 DEF InOrder, IsEnded
      <4>1. p \in Frames
        BY <2>2 DEF m
      <4>2. i \in Ids
        <5>1. logInbox[p].id \in 0..Len(logEvents) \/ logInbox[p].id \in Ids
          BY <4>1 DEF ClientInv, FramesOK
        <5>. QED
          BY <1>3, <2>2, <4>1, <5>1
      <4>3. CASE q \in Frames
        BY <2>2, <3>9, <4>1, <4>3 DEF InOrder, IsEnded
      <4>4. CASE q = m
        BY <2>1, <2>2, <3>2, <4>2, <4>4
      <4>. QED
        BY <2>2, <4>3, <4>4
    <3>. QED
      BY <1>1, <3>1, <3>6, <3>7, <3>8, <3>9 DEF SyncInv, Asking
  <2>. QED
    BY <2>3, <2>4, <2>5, <2>7, <2>8 DEF ClientInv
<1>. QED
  BY <1>7, <1>8

-----------------------------------------------------------------------------
(* The steps of the page.                                                  *)

(* The page asks: a reconnect, a quiet stream, a gap. *)
LEMMA AskKeeps ==
  ASSUME StreamInv, ClientInv, UNCHANGED <<logWrites, logTorn>>, NEW k,
         k = logClient.cursor \/ k = 0,
         logClient' = BeginSync([logClient EXCEPT !.cursor = k]),
         logReq' = [at |-> "asked", after |-> k, head |-> 0],
         logInbox' = <<>> \/ (k # 0 /\ logInbox # <<>> /\ logInbox' = Tail(logInbox)),
         NoSynced'
  PROVE  ClientInv'
<1>1. /\ StreamType /\ ClientType
      /\ UNCHANGED <<logEvents, logWriter>> /\ Ids' = Ids
  BY DEF StreamInv, ClientInv, logWrites, Ids
<1>2. /\ Len(logEvents) \in Nat /\ Ids = 1..Len(logEvents)
      /\ Len(logInbox) \in Nat /\ Frames = 1..Len(logInbox)
      /\ logClient.cursor \in Nat /\ k \in Nat /\ logClient \in Client
  BY <1>1, Sizes DEF ClientType
<1>3. /\ logClient'.cursor = k /\ logClient'.maxSeen = logClient.maxSeen
      /\ logClient'.syncing = TRUE /\ logClient'.snapshot = (k = 0)
      /\ logClient'.inSnapshot = {} /\ logClient'.shown = logClient.shown
      /\ logClient'.completed = logClient.completed /\ logClient' \in Client
  BY <1>2 DEF BeginSync, Client
<1>4. /\ logReq' \in Request /\ logReq'.at = "asked" /\ logReq'.after = k /\ logReq'.head = 0
  BY <1>2 DEF Request
<1>5. /\ logInbox' \in Seq(Frame)
      /\ \A p \in Frames' : \E q \in Frames : logInbox'[p] = logInbox[q]
      /\ k = 0 => Frames' = {}
  <2>1. CASE logInbox' = <<>>
    <3>1. Frames' = {}
      BY <2>1 DEF Frames
    <3>. QED
      BY <2>1, <3>1
  <2>2. CASE k # 0 /\ logInbox # <<>> /\ logInbox' = Tail(logInbox)
    <3>1. /\ logInbox' \in Seq(Frame) /\ Len(logInbox') = Len(logInbox) - 1
          /\ \A p \in 1..Len(logInbox') : logInbox'[p] = logInbox[p + 1]
      BY <1>1, <2>2, HeadTailProperties DEF ClientType
    <3>2. Frames' = 1..Len(logInbox')
      BY <3>1, LenProperties DEF Frames
    <3>3. \A p \in 1..Len(logInbox') : p + 1 \in Frames
      BY <1>2, <3>1
    <3>. QED
      BY <2>2, <3>1, <3>2, <3>3
  <2>. QED
    BY <2>1, <2>2
<1>6. ClientType'
  BY <1>3, <1>4, <1>5 DEF ClientType
<1>7. FramesOK'
  <2>. SUFFICES ASSUME NEW p \in Frames'
                PROVE  IF logInbox'[p].kind = "synced"
                       THEN logInbox'[p].id \in 0..Len(logEvents) /\ logInbox'[p].turn = "none"
                       ELSE /\ logInbox'[p].id \in Ids
                            /\ logEvents[logInbox'[p].id] =
                                 [turn |-> logInbox'[p].turn, kind |-> logInbox'[p].kind]
    BY <1>1 DEF FramesOK
  <2>1. PICK q \in Frames : logInbox'[p] = logInbox[q]
    BY <1>5
  <2>2. IF logInbox[q].kind = "synced"
        THEN logInbox[q].id \in 0..Len(logEvents) /\ logInbox[q].turn = "none"
        ELSE /\ logInbox[q].id \in Ids
             /\ logEvents[logInbox[q].id] =
                  [turn |-> logInbox[q].turn, kind |-> logInbox[q].kind]
    BY DEF FramesOK, ClientInv
  <2>. QED
    BY <2>1, <2>2
<1>8. ShownOK' /\ CursorOK'
  BY <1>1, <1>2, <1>3 DEF ShownOK, CursorOK, ClientInv
<1>9. RequestOK'
  <2>1. logClient'.snapshot <=> k = 0
    BY <1>3
  <2>2. \A p, q \in Frames' : ~(logInbox'[p].kind = "synced" /\ logInbox'[q].kind = "synced")
    BY DEF NoSynced
  <2>3. Asking' /\ logReq'.at # "head" /\ logReq'.at # "away" /\ logClient'.syncing
    BY <1>3, <1>4 DEF Asking
  <2>4. logReq'.after = logClient'.cursor /\ logReq'.head <= Len(logEvents')
    BY <1>1, <1>2, <1>3, <1>4
  <2>. QED
    BY <1>3, <2>1, <2>2, <2>3, <2>4 DEF RequestOK
<1>10. ASSUME ~logTorn' PROVE SyncInv'
  <2>1. SyncInv
    BY <1>10 DEF ClientInv
  <2>2. PastGone'
    <3>. SUFFICES ASSUME NEW i \in 1..k, logEvents[i].kind = "end"
                  PROVE  Gone(logEvents[i].turn)'
      BY <1>1, <1>3 DEF PastGone
    <3>. DEFINE t == logEvents[i].turn
    <3>1. k = logClient.cursor /\ k # 0
      BY <1>2
    <3>2. Gone(t) /\ (logClient.syncing => ~logClient.snapshot)
      BY <2>1, <3>1 DEF SyncInv, PastGone, ClientInv, RequestOK
    <3>3. CASE t \in logClient.completed
      BY <1>1, <1>3, <3>3 DEF Gone
    <3>4. CASE Quiet(t)
      <4>1. logClient.shown[t] = 0
        BY <3>2, <3>4 DEF Quiet, Hidden
      <4>2. \A p \in Frames' : logInbox'[p].turn = t => logInbox'[p].kind = "end"
        BY <1>5, <3>4 DEF Quiet
      <4>. QED
        BY <1>1, <1>3, <3>1, <4>1, <4>2 DEF Gone, Quiet, Hidden
    <3>. QED
      BY <3>2, <3>3, <3>4 DEF Gone
  <2>3. ASSUME k = 0 PROVE EndsArrive' /\ InOrder'
    <3>1. \A t : Quiet(t)'
      BY <1>3, <1>5, <2>3 DEF Quiet, Hidden
    <3>. QED
      BY <1>1, <1>5, <2>3, <3>1 DEF EndsArrive, InOrder, Gone
  <2>. QED
    BY <1>3, <1>4, <2>2, <2>3 DEF SyncInv, Asking
<1>. QED
  BY <1>6, <1>7, <1>8, <1>9, <1>10 DEF ClientInv

LEMMA ConnectKeeps ==
  ASSUME StreamInv, ClientInv, LogConnect
  PROVE  ClientInv'
<1>1. logClient \in Client
  BY DEF ClientInv, ClientType
<1>2. [logClient EXCEPT !.cursor = logClient.cursor] = logClient
  BY <1>1 DEF Client
<1>3. logClient' = BeginSync([logClient EXCEPT !.cursor = logClient.cursor])
  BY <1>2 DEF LogConnect
<1>4. NoSynced' /\ logInbox' = <<>>
  BY DEF LogConnect, NoSynced, Frames
<1>. QED
  BY <1>3, <1>4, AskKeeps DEF LogConnect, Ask

LEMMA StaleKeeps ==
  ASSUME StreamInv, ClientInv, LogStale
  PROVE  ClientInv'
<1>1. logClient \in Client
  BY DEF ClientInv, ClientType
<1>2. [logClient EXCEPT !.cursor = 0].cursor = 0
  BY <1>1 DEF Client
<1>3. NoSynced' /\ logInbox' = <<>>
  BY DEF LogStale, NoSynced, Frames
<1>. QED
  BY <1>2, <1>3, AskKeeps DEF LogStale, Ask

(* The server reads the head of the stream. *)
LEMMA HeadKeeps ==
  ASSUME StreamInv, ClientInv, LogHead
  PROVE  ClientInv'
<1>1. /\ StreamType /\ ClientType
      /\ UNCHANGED <<logEvents, logWriter, logClient, logInbox>> /\ Ids' = Ids
      /\ logReq.at = "asked" /\ logReq.after = 0
      /\ logReq' = [logReq EXCEPT !.at = "head", !.head = Len(logEvents)]
      /\ logTorn' = (logTorn \/ IsAppending)
  BY DEF StreamInv, ClientInv, logWrites, Ids, LogHead
<1>2. Len(logEvents) \in Nat /\ logReq \in Request
  BY <1>1, Sizes DEF ClientType
<1>3. /\ logReq' \in Request /\ logReq'.at = "head" /\ logReq'.after = 0
      /\ logReq'.head = Len(logEvents)
  BY <1>1, <1>2 DEF Request
<1>4. logClient.syncing /\ logClient.cursor = 0 /\ NoSynced
  BY <1>1 DEF ClientInv, RequestOK, Asking
<1>5. RequestOK'
  BY <1>1, <1>2, <1>3, <1>4 DEF ClientInv, RequestOK, Asking, NoSynced, Frames
<1>6. ASSUME ~logTorn' PROVE SyncInv'
  <2>1. SyncInv /\ EndsArrive
    BY <1>1, <1>4, <1>6 DEF ClientInv, SyncInv, Asking
  <2>. QED
    BY <1>1, <1>3, <2>1 DEF SyncInv, PastGone, EndsArrive, InOrder, Gone, Quiet, Hidden,
       InInbox, Pending, Appending, Frames, IsEnded, Asking
<1>. QED
  BY <1>1, <1>3, <1>5, <1>6
     DEF ClientInv, ClientType, FramesOK, ShownOK, CursorOK, Frames

(* The answer of the server is put behind what waits in the inbox. *)
LEMMA ReadKeeps ==
  ASSUME StreamInv, ClientInv, UNCHANGED <<logWrites, logClient>>, logTorn => logTorn',
         NEW s \in Seq(Frame), logInbox' = logInbox \o s,
         \A j \in 1..Len(s) :
           /\ s[j].kind # "synced" /\ s[j].id \in Ids
           /\ logEvents[s[j].id] = [turn |-> s[j].turn, kind |-> s[j].kind],
         Asking, logReq' \in Request, logReq'.at = "read", logReq'.after = logReq.after,
         logReq'.head <= Len(logEvents),
         ~logTorn' =>
           \A j \in 1..Len(s), i \in Ids :
             s[j].kind # "end" /\ logEvents[i].kind = "end" /\ logEvents[i].turn = s[j].turn
               => logClient.cursor # 0 /\ i > logClient.cursor,
         logClient.cursor # 0 =>
           \A i \in Ids : i > logClient.cursor => \E j \in 1..Len(s) : s[j].id = i
  PROVE  ClientInv'
<1>1. /\ StreamType /\ ClientType
      /\ UNCHANGED <<logEvents, logWriter>> /\ Ids' = Ids
  BY DEF StreamInv, ClientInv, logWrites, Ids
<1>2. /\ Len(logEvents) \in Nat /\ Ids = 1..Len(logEvents)
      /\ Len(logInbox) \in Nat /\ Frames = 1..Len(logInbox) /\ Len(s) \in Nat
      /\ logClient.cursor \in Nat /\ \A i \in Ids : logEvents[i] \in Event
      /\ \A p \in Frames : logInbox[p].id \in Nat
  BY <1>1, Sizes, LenProperties
<1>3. /\ logInbox' \in Seq(Frame) /\ Frames \subseteq Frames'
      /\ \A p \in Frames : logInbox'[p] = logInbox[p]
      /\ \A j \in 1..Len(s) : /\ Len(logInbox) + j \in Frames'
                              /\ logInbox'[Len(logInbox) + j] = s[j]
      /\ \A p \in Frames' : \/ p \in Frames
                            \/ \E j \in 1..Len(s) : p = Len(logInbox) + j
  <2>1. /\ logInbox' \in Seq(Frame) /\ Len(logInbox') = Len(logInbox) + Len(s)
        /\ \A i \in 1..Len(logInbox) + Len(s) : logInbox'[i] =
             IF i <= Len(logInbox) THEN logInbox[i] ELSE s[i - Len(logInbox)]
    BY <1>1, ConcatProperties DEF ClientType
  <2>2. Frames' = 1..(Len(logInbox) + Len(s))
    BY <2>1, LenProperties DEF Frames
  <2>3. \A p \in Frames' : p \in Frames \/ \E j \in 1..Len(s) : p = Len(logInbox) + j
    <3>. SUFFICES ASSUME NEW p \in Frames', p \notin Frames
                  PROVE  \E j \in 1..Len(s) : p = Len(logInbox) + j
      OBVIOUS
    <3>1. p - Len(logInbox) \in 1..Len(s) /\ p = Len(logInbox) + (p - Len(logInbox))
      BY <1>2, <2>2
    <3>. QED
      BY <3>1
  <2>4. \A p \in Frames : logInbox'[p] = logInbox[p]
    BY <1>2, <2>1
  <2>5. ASSUME NEW j \in 1..Len(s)
        PROVE  Len(logInbox) + j \in Frames' /\ logInbox'[Len(logInbox) + j] = s[j]
    <3>1. /\ Len(logInbox) + j \in 1..(Len(logInbox) + Len(s))
          /\ ~(Len(logInbox) + j <= Len(logInbox)) /\ (Len(logInbox) + j) - Len(logInbox) = j
      BY <1>2
    <3>. QED
      BY <2>1, <2>2, <3>1
  <2>. QED
    BY <1>2, <2>1, <2>2, <2>3, <2>4, <2>5
<1>4. ClientType'
  BY <1>1, <1>3 DEF ClientType
<1>5. FramesOK'
  <2>. SUFFICES ASSUME NEW p \in Frames'
                PROVE  IF logInbox'[p].kind = "synced"
                       THEN logInbox'[p].id \in 0..Len(logEvents) /\ logInbox'[p].turn = "none"
                       ELSE /\ logInbox'[p].id \in Ids
                            /\ logEvents[logInbox'[p].id] =
                                 [turn |-> logInbox'[p].turn, kind |-> logInbox'[p].kind]
    BY <1>1 DEF FramesOK
  <2>1. CASE p \in Frames
    <3>1. IF logInbox[p].kind = "synced"
          THEN logInbox[p].id \in 0..Len(logEvents) /\ logInbox[p].turn = "none"
          ELSE /\ logInbox[p].id \in Ids
               /\ logEvents[logInbox[p].id] =
                    [turn |-> logInbox[p].turn, kind |-> logInbox[p].kind]
      BY <2>1 DEF FramesOK, ClientInv
    <3>. QED
      BY <1>3, <2>1, <3>1
  <2>2. ASSUME NEW j \in 1..Len(s), p = Len(logInbox) + j
        PROVE  /\ logInbox'[p].kind # "synced" /\ logInbox'[p].id \in Ids
               /\ logEvents[logInbox'[p].id] =
                    [turn |-> logInbox'[p].turn, kind |-> logInbox'[p].kind]
    BY <1>3, <2>2
  <2>. QED
    BY <1>3, <2>1, <2>2
<1>6. ShownOK' /\ CursorOK'
  BY <1>1 DEF ShownOK, CursorOK, ClientInv
<1>7. NoSynced' /\ logClient.syncing /\ logReq.after = logClient.cursor
  <2>1. NoSynced /\ logClient.syncing /\ logReq.after = logClient.cursor
    BY DEF ClientInv, RequestOK
  <2>2. \A j \in 1..Len(s) : logInbox'[Len(logInbox) + j].kind # "synced"
    BY <1>3
  <2>3. \A p \in Frames : logInbox'[p].kind # "synced"
    BY <1>3, <2>1 DEF NoSynced
  <2>4. \A p \in Frames' : logInbox'[p].kind # "synced"
    <3>. SUFFICES ASSUME NEW p \in Frames', p \notin Frames PROVE logInbox'[p].kind # "synced"
      BY <2>3
    <3>1. PICK j \in 1..Len(s) : p = Len(logInbox) + j
      BY <1>3
    <3>. QED
      BY <2>2, <3>1
  <2>. QED
    BY <2>1, <2>4 DEF NoSynced
<1>8. RequestOK'
  <2>1. logClient.syncing => (logClient.snapshot <=> logClient.cursor = 0)
    BY DEF ClientInv, RequestOK
  <2>. QED
    BY <1>1, <1>7, <2>1 DEF RequestOK, Asking, NoSynced
<1>9. ASSUME ~logTorn' PROVE SyncInv'
  <2>1. SyncInv /\ (logClient.cursor = 0 => EndsArrive)
    BY <1>9 DEF ClientInv, SyncInv
  <2>2. ASSUME NEW i \in Ids, logEvents[i].kind = "end", Gone(logEvents[i].turn),
               logClient.cursor = 0 \/ i <= logClient.cursor
        PROVE  Gone(logEvents[i].turn)'
    <3>. DEFINE t == logEvents[i].turn
    <3>1. ASSUME Quiet(t), NEW p \in Frames', logInbox'[p].turn = t
          PROVE  logInbox'[p].kind = "end"
      <4>1. CASE p \in Frames
        BY <1>3, <3>1, <4>1 DEF Quiet
      <4>2. ASSUME NEW j \in 1..Len(s), p = Len(logInbox) + j
            PROVE  logInbox'[p].kind = "end"
        BY <1>2, <1>3, <1>9, <2>2, <3>1, <4>2
      <4>. QED
        BY <1>3, <4>1, <4>2
    <3>. QED
      BY <1>1, <2>2, <3>1 DEF Gone, Quiet, Hidden
  <2>3. PastGone'
    <3>. SUFFICES ASSUME NEW i \in 1..logClient.cursor, logEvents[i].kind = "end"
                  PROVE  Gone(logEvents[i].turn)'
      BY <1>1 DEF PastGone
    <3>1. i \in Ids /\ i <= logClient.cursor
      BY <1>2 DEF ClientInv, CursorOK
    <3>2. Gone(logEvents[i].turn)
      BY <2>1 DEF SyncInv, PastGone
    <3>. QED
      BY <2>2, <3>1, <3>2
  <2>4. EndsArrive'
    <3>. SUFFICES ASSUME NEW i \in Ids, logEvents[i].kind = "end"
                  PROVE  Gone(logEvents[i].turn)' \/ InInbox(i)' \/ Pending(i)'
      BY <1>1 DEF EndsArrive
    <3>1. CASE logClient.cursor = 0
      <4>1. Gone(logEvents[i].turn) \/ InInbox(i) \/ Pending(i)
        BY <2>1, <3>1 DEF EndsArrive
      <4>2. InInbox(i) => InInbox(i)'
        BY <1>3 DEF InInbox
      <4>3. Pending(i) => Pending(i)'
        BY <1>1 DEF Pending, Appending
      <4>. QED
        BY <2>2, <3>1, <4>1, <4>2, <4>3
    <3>2. CASE logClient.cursor # 0 /\ i <= logClient.cursor
      <4>1. i \in 1..logClient.cursor
        BY <1>2, <3>2
      <4>. QED
        BY <1>1, <2>3, <4>1 DEF PastGone, Gone, Quiet, Hidden
    <3>3. CASE logClient.cursor # 0 /\ i > logClient.cursor
      <4>1. PICK j \in 1..Len(s) : s[j].id = i
        BY <3>3
      <4>2. s[j].kind # "synced"
        OBVIOUS
      <4>3. /\ Len(logInbox) + j \in Frames' /\ logInbox'[Len(logInbox) + j].id = i
            /\ logInbox'[Len(logInbox) + j].kind # "synced"
        BY <1>3, <4>1, <4>2
      <4>. QED
        BY <4>3 DEF InInbox
    <3>. QED
      BY <1>2, <3>1, <3>2, <3>3
  <2>5. ASSUME logClient.cursor = 0 PROVE InOrder'
    <3>. SUFFICES ASSUME NEW p \in Frames', NEW q \in Frames', p < q,
                         logInbox'[q].kind \in {"start", "delta"},
                         NEW i \in 1..logInbox'[p].id,
                         logEvents[i] = [turn |-> logInbox'[q].turn, kind |-> "end"]
                  PROVE  FALSE
      BY <1>1 DEF InOrder, IsEnded
    <3>1. i \in Ids
      <4>. DEFINE n == logInbox'[p].id
      <4>1. n \in 0..Len(logEvents) \/ n \in Ids
        BY <1>1, <1>5 DEF FramesOK
      <4>. HIDE DEF n
      <4>2. n \in Nat /\ n <= Len(logEvents)
        BY <1>2, <4>1
      <4>3. i \in 1..n
        BY DEF n
      <4>. QED
        BY <1>2, <4>2, <4>3
    <3>2. CASE q \in Frames
      <4>1. p \in Frames
        <5>1. \A j \in 1..Len(s) : Len(logInbox) + j > Len(logInbox)
          BY <1>2
        <5>. QED
          BY <1>2, <1>3, <3>2, <5>1
      <4>2. logInbox'[p] = logInbox[p] /\ logInbox'[q] = logInbox[q]
        BY <1>3, <3>2, <4>1
      <4>3. ~IsEnded(logInbox[q].turn, logInbox[p].id)
        BY <2>1, <2>5, <3>2, <4>1, <4>2 DEF SyncInv, InOrder
      <4>. QED
        BY <4>2, <4>3 DEF IsEnded
    <3>3. ASSUME NEW j \in 1..Len(s), q = Len(logInbox) + j PROVE FALSE
      <4>1. logInbox'[q] = s[j]
        BY <1>3, <3>3
      <4>2. s[j].kind # "end" /\ logEvents[i].kind = "end" /\ logEvents[i].turn = s[j].turn
        BY <4>1
      <4>. QED
        BY <1>9, <2>5, <3>1, <4>2
    <3>. QED
      BY <1>3, <3>2, <3>3
  <2>. QED
    BY <1>1, <2>3, <2>4, <2>5 DEF SyncInv, Asking
<1>. QED
  BY <1>4, <1>5, <1>6, <1>8, <1>9 DEF ClientInv

(* With a cursor the server reads what came after it. *)
LEMMA ReplayKeeps ==
  ASSUME StreamInv, ClientInv, LogReplay
  PROVE  ClientInv'
<1>. DEFINE c == logClient.cursor
            n == Len(logEvents) - c
            s == [i \in 1..n |-> [id |-> c + i, turn |-> logEvents[c + i].turn,
                                  kind |-> logEvents[c + i].kind]]
<1>1. /\ StreamType /\ ClientType /\ logReq.at = "asked" /\ logReq.after # 0
      /\ UNCHANGED <<logWrites, logClient>>
      /\ logReq' = [logReq EXCEPT !.at = "read", !.head = Len(logEvents)]
      /\ logTorn' = (logTorn \/ IsAppending)
  BY DEF StreamInv, ClientInv, LogReplay
<1>2. /\ Len(logEvents) \in Nat /\ Ids = 1..Len(logEvents) /\ c \in Nat
      /\ \A i \in Ids : logEvents[i] \in Event
  BY <1>1, Sizes
<1>3. Asking /\ logReq.after = c /\ c <= Len(logEvents) /\ logReq \in Request
  BY <1>1 DEF Asking, ClientInv, RequestOK, CursorOK, ClientType
<1>4. logInbox' = logInbox \o s
  BY <1>3 DEF LogReplay
<1>5. n \in Nat /\ \A i \in 1..n : c + i \in Ids
  BY <1>2, <1>3
<1>6. /\ s \in Seq(Frame) /\ Len(s) = n
      /\ \A i \in 1..n : s[i].id = c + i /\ s[i].turn = logEvents[c + i].turn
                         /\ s[i].kind = logEvents[c + i].kind
  <2>1. \A i \in 1..n : logEvents[c + i] \in Event /\ c + i \in Nat
    BY <1>2, <1>5
  <2>2. \A i \in 1..n : [id |-> c + i, turn |-> logEvents[c + i].turn,
                         kind |-> logEvents[c + i].kind] \in Frame
    BY <2>1 DEF Event, Frame
  <2>3. s \in [1..n -> Frame]
    BY <2>2
  <2>4. s \in Seq(Frame)
    BY <1>5, <2>3, SeqDef
  <2>5. Len(s) = n
    <3>1. 1..Len(s) = 1..n /\ Len(s) \in Nat
      BY <2>3, <2>4, LenProperties
    <3>. HIDE DEF s, n
    <3>. QED
      BY <1>5, <3>1
  <2>. QED
    BY <2>4, <2>5
<1>. HIDE DEF s, n, c
<1>7. \A j \in 1..Len(s) :
        /\ s[j].kind # "synced" /\ s[j].id \in Ids
        /\ logEvents[s[j].id] = [turn |-> s[j].turn, kind |-> s[j].kind]
  BY <1>2, <1>5, <1>6 DEF Event, Kinds
<1>8. /\ logReq' \in Request /\ logReq'.at = "read" /\ logReq'.after = logReq.after
      /\ logReq'.head <= Len(logEvents)
  <2>1. /\ logReq' \in Request /\ logReq'.at = "read" /\ logReq'.after = logReq.after
        /\ logReq'.head = Len(logEvents)
    BY <1>1, <1>2, <1>3 DEF Request
  <2>2. Len(logEvents) <= Len(logEvents)
    BY <1>2
  <2>. QED
    BY <2>1, <2>2
<1>9. c # 0
  BY <1>1, <1>3
<1>10. ASSUME ~logTorn', NEW j \in 1..Len(s), NEW i \in Ids, s[j].kind # "end",
              logEvents[i].kind = "end", logEvents[i].turn = s[j].turn
       PROVE  i > c
  <2>1. EndsLast
    BY <1>1, <1>10 DEF StreamInv
  <2>2. c + j \in Ids /\ logEvents[c + j].turn = logEvents[i].turn
        /\ logEvents[c + j].kind # "end"
    BY <1>5, <1>6, <1>10
  <2>3. ~(i < c + j)
    BY <1>10, <2>1, <2>2 DEF EndsLast
  <2>. QED
    BY <1>2, <1>5, <1>6, <2>3
<1>11. \A i \in Ids : i > c => \E j \in 1..Len(s) : s[j].id = i
  <2>. SUFFICES ASSUME NEW i \in Ids, i > c PROVE \E j \in 1..Len(s) : s[j].id = i
    OBVIOUS
  <2>1. i - c \in 1..n /\ c + (i - c) = i
    BY <1>2 DEF n
  <2>. QED
    BY <1>6, <2>1
<1>. QED
  BY <1>1, <1>3, <1>4, <1>6, <1>7, <1>8, <1>9, <1>10, <1>11, ReadKeeps DEF c

(* Without one it reads the live hash. *)
LEMMA SnapshotKeeps ==
  ASSUME StreamInv, ClientInv, LogSnapshot
  PROVE  ClientInv'
<1>. DEFINE at == {logLive[t] : t \in OpenTurns}
            n  == Cardinality(at)
<1>1. /\ StreamType /\ ClientType /\ logReq.at = "head"
      /\ UNCHANGED <<logWrites, logClient>>
      /\ logReq' = [logReq EXCEPT !.at = "read"]
      /\ logTorn' = (logTorn \/ IsAppending)
  BY DEF StreamInv, ClientInv, LogSnapshot
<1>2. /\ Len(logEvents) \in Nat /\ Ids = 1..Len(logEvents)
      /\ \A i \in Ids : logEvents[i] \in Event
  BY <1>1, Sizes
<1>3. /\ Asking /\ logClient.cursor = 0 /\ logReq \in Request
      /\ logReq.head <= Len(logEvents)
  BY <1>1 DEF Asking, ClientInv, RequestOK, ClientType
<1>4. /\ \A i \in at : i \in Ids /\ logEvents[i].kind # "end"
                       /\ logEvents[i].turn \in OpenTurns
      /\ n \in Nat
  <2>1. \A t \in OpenTurns : logLive[t] \in Ids /\ logEvents[logLive[t]].turn = t
                             /\ logEvents[logLive[t]].kind # "end"
    BY DEF OpenTurns, StreamInv, SlotsOK
  <2>2. at \in SUBSET Nat /\ \A i \in at : i <= Len(logEvents)
    BY <1>2, <2>1
  <2>3. n \in Nat
    BY <1>2, <2>2, FS_BoundedSetOfNaturals, FS_CardinalityType
  <2>. QED
    BY <2>1, <2>3
<1>5. PICK f \in [1..n -> at] :
        logInbox' = logInbox \o [i \in 1..n |->
          [id |-> f[i], turn |-> logEvents[f[i]].turn, kind |-> logEvents[f[i]].kind]]
  BY DEF LogSnapshot, LiveFrames
<1>. DEFINE s == [i \in 1..n |->
          [id |-> f[i], turn |-> logEvents[f[i]].turn, kind |-> logEvents[f[i]].kind]]
<1>6. \A i \in 1..n : f[i] \in at
  BY <1>5
<1>. HIDE DEF at, n
<1>7. /\ s \in Seq(Frame) /\ Len(s) = n
      /\ \A i \in 1..n : s[i].id = f[i] /\ s[i].turn = logEvents[f[i]].turn
                         /\ s[i].kind = logEvents[f[i]].kind
  <2>1. \A i \in 1..n : logEvents[f[i]] \in Event /\ f[i] \in Nat
    BY <1>2, <1>4, <1>6
  <2>2. \A i \in 1..n : [id |-> f[i], turn |-> logEvents[f[i]].turn,
                         kind |-> logEvents[f[i]].kind] \in Frame
    BY <2>1 DEF Event, Frame
  <2>3. s \in [1..n -> Frame]
    BY <2>2
  <2>4. s \in Seq(Frame)
    BY <1>4, <2>3, SeqDef
  <2>5. Len(s) = n
    <3>1. 1..Len(s) = 1..n /\ Len(s) \in Nat
      BY <2>3, <2>4, LenProperties
    <3>. HIDE DEF s
    <3>. QED
      BY <1>4, <3>1
  <2>. QED
    BY <2>4, <2>5
<1>8. logInbox' = logInbox \o s
  BY <1>5
<1>. HIDE DEF s
<1>9. \A j \in 1..Len(s) :
        /\ s[j].kind # "synced" /\ s[j].id \in Ids
        /\ logEvents[s[j].id] = [turn |-> s[j].turn, kind |-> s[j].kind]
  BY <1>2, <1>4, <1>6, <1>7 DEF Event, Kinds
<1>10. /\ logReq' \in Request /\ logReq'.at = "read" /\ logReq'.after = logReq.after
       /\ logReq'.head <= Len(logEvents)
  BY <1>1, <1>3 DEF Request
<1>11. ASSUME ~logTorn', NEW j \in 1..Len(s), NEW i \in Ids,
              logEvents[i].kind = "end", logEvents[i].turn = s[j].turn
       PROVE  FALSE
  <2>. DEFINE t == s[j].turn
  <2>1. t \in OpenTurns
    BY <1>4, <1>6, <1>7
  <2>2. IsEnded(t, Len(logEvents))
    BY <1>1, <1>2, <1>11, EndedMeans
  <2>3. SlotsEnd /\ ~IsAppending
    BY <1>1, <1>11 DEF StreamInv
  <2>. QED
    BY <2>1, <2>2, <2>3 DEF OpenTurns, SlotsEnd, IsAppending
<1>. QED
  BY <1>1, <1>3, <1>7, <1>8, <1>9, <1>10, <1>11, ReadKeeps

(* The server tells the client that the answer is complete. *)
LEMMA SyncedKeeps ==
  ASSUME StreamInv, ClientInv, LogSynced
  PROVE  ClientInv'
<1>. DEFINE f == [id |-> logReq.head, turn |-> "none", kind |-> "synced"]
            m == Len(logInbox) + 1
<1>1. /\ StreamType /\ ClientType /\ logReq.at = "read"
      /\ UNCHANGED <<logEvents, logWriter, logClient>> /\ Ids' = Ids
      /\ logInbox' = Append(logInbox, f) /\ logReq' = NoRequest
      /\ logTorn' = (logTorn \/ IsAppending)
  BY DEF StreamInv, ClientInv, LogSynced, logWrites, Ids
<1>2. /\ Len(logEvents) \in Nat /\ Ids = 1..Len(logEvents) /\ logReq.head \in Nat
      /\ logClient.cursor \in Nat /\ logClient.maxSeen \in Nat
      /\ \A p \in Frames : logInbox[p].id \in Nat
  BY <1>1, Sizes
<1>3. /\ logClient.syncing /\ NoSynced /\ logReq.head <= Len(logEvents)
      /\ logClient.snapshot <=> logClient.cursor = 0
  BY <1>1 DEF Asking, ClientInv, RequestOK
<1>4. f \in Frame /\ NoRequest \in Request /\ NoRequest.at = "none"
  BY <1>2 DEF Frame, Request, NoRequest
<1>5. f.id \in 0..Len(logEvents) /\ f.turn = "none" /\ f.kind = "synced"
  BY <1>2, <1>3
<1>. HIDE DEF f
<1>6. /\ logInbox' \in Seq(Frame) /\ Len(logInbox) \in Nat
      /\ Frames = 1..Len(logInbox) /\ Frames' = 1..m /\ Frames \subseteq Frames'
      /\ \A p \in Frames : logInbox'[p] = logInbox[p]
      /\ logInbox'[m] = f /\ m \in Frames' /\ m \notin Frames
      /\ \A p \in Frames' : p \in Frames \/ p = m
  BY <1>1, <1>4, Arrives
<1>7. \A p \in Frames' : p <= m /\ (p \in Frames => p < m) /\ m \in Nat
  BY <1>6
<1>. HIDE DEF m
<1>8. ClientType'
  BY <1>1, <1>4, <1>6 DEF ClientType
<1>9. FramesOK'
  <2>. SUFFICES ASSUME NEW p \in Frames'
                PROVE  IF logInbox'[p].kind = "synced"
                       THEN logInbox'[p].id \in 0..Len(logEvents) /\ logInbox'[p].turn = "none"
                       ELSE /\ logInbox'[p].id \in Ids
                            /\ logEvents[logInbox'[p].id] =
                                 [turn |-> logInbox'[p].turn, kind |-> logInbox'[p].kind]
    BY <1>1 DEF FramesOK
  <2>1. CASE p = m
    BY <1>5, <1>6, <2>1
  <2>2. CASE p \in Frames
    <3>1. IF logInbox[p].kind = "synced"
          THEN logInbox[p].id \in 0..Len(logEvents) /\ logInbox[p].turn = "none"
          ELSE /\ logInbox[p].id \in Ids
               /\ logEvents[logInbox[p].id] =
                    [turn |-> logInbox[p].turn, kind |-> logInbox[p].kind]
      BY <2>2 DEF FramesOK, ClientInv
    <3>. QED
      BY <1>6, <2>2, <3>1
  <2>. QED
    BY <1>6, <2>1, <2>2
<1>10. ShownOK' /\ CursorOK'
  BY <1>1 DEF ShownOK, CursorOK, ClientInv
<1>11. RequestOK'
  <2>1. \A p \in Frames' : logInbox'[p].kind = "synced" => p = m
    BY <1>3, <1>6 DEF NoSynced
  <2>. QED
    BY <1>1, <1>3, <1>4, <2>1 DEF RequestOK, Asking
<1>12. ASSUME ~logTorn' PROVE SyncInv'
  <2>1. SyncInv /\ EndsArrive /\ ~IsAppending
    BY <1>1, <1>12 DEF ClientInv, SyncInv, Asking
  <2>2. \A t : t # "none" /\ Gone(t) => Gone(t)'
    <3>. SUFFICES ASSUME NEW t, t # "none", Gone(t) PROVE Gone(t)'
      OBVIOUS
    <3>1. Quiet(t) => \A p \in Frames' : logInbox'[p].turn = t => logInbox'[p].kind = "end"
      BY <1>5, <1>6 DEF Quiet
    <3>. QED
      BY <1>1, <3>1 DEF Gone, Quiet, Hidden
  <2>3. \A i \in Ids : logEvents[i].turn # "none"
    BY <1>1, Sizes, Names DEF Event
  <2>4. PastGone'
    <3>. SUFFICES ASSUME NEW i \in 1..logClient.cursor, logEvents[i].kind = "end"
                  PROVE  Gone(logEvents[i].turn)'
      BY <1>1 DEF PastGone
    <3>1. i \in Ids
      BY <1>2 DEF ClientInv, CursorOK
    <3>2. Gone(logEvents[i].turn)
      BY <2>1 DEF SyncInv, PastGone
    <3>3. Gone(logEvents[i].turn) => Gone(logEvents[i].turn)'
      <4>1. logEvents[i].turn # "none"
        BY <2>3, <3>1
      <4>2. Quiet(logEvents[i].turn) => \A p \in Frames' :
              logInbox'[p].turn = logEvents[i].turn => logInbox'[p].kind = "end"
        BY <1>5, <1>6, <4>1 DEF Quiet
      <4>. QED
        BY <1>1, <4>2 DEF Gone, Quiet, Hidden
    <3>. QED
      BY <3>2, <3>3
  <2>5. ASSUME NEW n, n = Len(logEvents), NEW r, r = m
        PROVE  Answered(n, r)'
    <3>1. \A p \in Frames' : p <= m /\ logInbox'[p].id <= Len(logEvents)
      <4>. SUFFICES ASSUME NEW p \in Frames' PROVE logInbox'[p].id <= Len(logEvents)
        BY <1>7
      <4>1. logInbox'[p].id \in 0..Len(logEvents) \/ logInbox'[p].id \in Ids
        BY <1>1, <1>9 DEF FramesOK
      <4>. QED
        BY <1>2, <4>1
    <3>2. ASSUME NEW i \in Ids, logEvents[i].kind = "end"
          PROVE  Gone(logEvents[i].turn)' \/ InInbox(i)'
      <4>1. Gone(logEvents[i].turn) \/ InInbox(i)
        BY <2>1, <3>2 DEF EndsArrive, Pending, IsAppending, Appending
      <4>2. InInbox(i) => InInbox(i)'
        BY <1>6 DEF InInbox
      <4>3. Gone(logEvents[i].turn) => Gone(logEvents[i].turn)'
        <5>1. logEvents[i].turn # "none"
          BY <2>3
        <5>2. Quiet(logEvents[i].turn) => \A p \in Frames' :
                logInbox'[p].turn = logEvents[i].turn => logInbox'[p].kind = "end"
          BY <1>5, <1>6, <5>1 DEF Quiet
        <5>. QED
          BY <1>1, <5>2 DEF Gone, Quiet, Hidden
      <4>. QED
        BY <4>1, <4>2, <4>3
    <3>3. logClient.cursor <= Len(logEvents) /\ logClient.maxSeen <= Len(logEvents)
      BY DEF ClientInv, CursorOK
    <3>4. \A w \in LogWriters : ~Appending(w)'
      BY <1>1, <2>1 DEF IsAppending, Appending
    <3>5. /\ logInbox'[r].kind = "synced" /\ 1..n = Ids
          /\ logClient'.cursor <= n /\ logClient'.maxSeen <= n
      BY <1>1, <1>5, <1>6, <2>5, <3>3 DEF Ids
    <3>6. \A p \in Frames' : IF p <= r THEN logInbox'[p].id <= n ELSE logInbox'[p].id > n
      BY <2>5, <3>1
    <3>7. \A i \in 1..n : logEvents[i].kind = "end" => Gone(logEvents[i].turn)' \/ InInbox(i)'
      BY <3>2, <3>5
    <3>. QED
      BY <1>1, <3>4, <3>5, <3>6, <3>7 DEF Answered
  <2>6. ASSUME logClient.cursor = 0 PROVE InOrder'
    <3>. SUFFICES ASSUME NEW p \in Frames', NEW q \in Frames', p < q,
                         logInbox'[q].kind \in {"start", "delta"},
                         IsEnded(logInbox[q].turn, logInbox[p].id)'
                  PROVE  FALSE
      BY DEF InOrder
    <3>1. q \in Frames
      BY <1>5, <1>6
    <3>2. p \in Frames
      BY <1>6, <1>7, <3>1
    <3>3. ~IsEnded(logInbox[q].turn, logInbox[p].id)
      BY <1>6, <2>1, <2>6, <3>1, <3>2 DEF SyncInv, InOrder
    <3>. QED
      BY <1>1, <1>6, <3>1, <3>2, <3>3 DEF IsEnded
  <2>. QED
    <3>1. \E n \in 0..Len(logEvents'), r \in Frames' : Answered(n, r)'
      BY <1>1, <1>2, <1>6, <2>5
    <3>2. logReq'.at = "none" /\ ~Asking'
      BY <1>1, <1>4 DEF Asking
    <3>. QED
      BY <1>1, <2>4, <2>6, <3>1, <3>2 DEF SyncInv
<1>. QED
  BY <1>8, <1>9, <1>10, <1>11, <1>12 DEF ClientInv

-----------------------------------------------------------------------------
(* The page applies a frame.                                               *)

(* The first frame leaves the inbox. *)
LEMMA Taken ==
  ASSUME StreamInv, ClientInv, logInbox # <<>>, logInbox' = Tail(logInbox),
         UNCHANGED logEvents
  PROVE  /\ 1 \in Frames /\ Head(logInbox) = logInbox[1] /\ Frames \subseteq Nat
         /\ \A p \in Frames : p >= 1
         /\ \A p \in Frames' : p >= 1 /\ p + 1 \in Frames /\ logInbox'[p] = logInbox[p + 1]
         /\ \A q \in Frames : q # 1 => q - 1 \in Frames' /\ logInbox'[q - 1] = logInbox[q]
         /\ logInbox' \in Seq(Frame) /\ FramesOK'
         /\ NoSynced => NoSynced'
         /\ logReq.at # "away"
         /\ \A p, q \in Frames' :
              logInbox'[p].kind = "synced" /\ logInbox'[q].kind = "synced" => p = q
<1>1. logInbox \in Seq(Frame)
  BY DEF ClientInv, ClientType
<1>2. Len(logInbox) \in Nat /\ Frames = 1..Len(logInbox)
  BY <1>1, LenProperties DEF Frames
<1>3. /\ logInbox' \in Seq(Frame) /\ Len(logInbox') = Len(logInbox) - 1
      /\ \A p \in 1..Len(logInbox') : logInbox'[p] = logInbox[p + 1]
  BY <1>1, HeadTailProperties
<1>4. Len(logInbox') \in Nat /\ Frames' = 1..Len(logInbox')
  BY <1>3, LenProperties DEF Frames
<1>5. Len(logInbox) >= 1
  BY <1>2, <1>3, <1>4
<1>6. 1 \in Frames /\ Frames \subseteq Nat /\ \A p \in Frames : p >= 1
  BY <1>2, <1>5
<1>7. Head(logInbox) = logInbox[1]
  OBVIOUS
<1>8. \A p \in Frames' : p >= 1 /\ p + 1 \in Frames /\ logInbox'[p] = logInbox[p + 1]
  BY <1>2, <1>3, <1>4
<1>9. \A q \in Frames : q # 1 => q - 1 \in Frames' /\ logInbox'[q - 1] = logInbox[q]
  <2>. SUFFICES ASSUME NEW q \in Frames, q # 1
                PROVE  q - 1 \in Frames' /\ logInbox'[q - 1] = logInbox[q]
    OBVIOUS
  <2>1. q - 1 \in 1..Len(logInbox') /\ (q - 1) + 1 = q
    BY <1>2, <1>3
  <2>2. logInbox'[q - 1] = logInbox[(q - 1) + 1]
    BY <1>3, <2>1
  <2>. QED
    BY <1>4, <2>1, <2>2
<1>10. FramesOK'
  <2>. SUFFICES ASSUME NEW p \in Frames'
                PROVE  IF logInbox'[p].kind = "synced"
                       THEN logInbox'[p].id \in 0..Len(logEvents) /\ logInbox'[p].turn = "none"
                       ELSE /\ logInbox'[p].id \in Ids
                            /\ logEvents[logInbox'[p].id] =
                                 [turn |-> logInbox'[p].turn, kind |-> logInbox'[p].kind]
    BY DEF FramesOK, Ids
  <2>. DEFINE q == p + 1
  <2>1. q \in Frames /\ logInbox'[p] = logInbox[q]
    BY <1>8
  <2>. HIDE DEF q
  <2>2. IF logInbox[q].kind = "synced"
        THEN logInbox[q].id \in 0..Len(logEvents) /\ logInbox[q].turn = "none"
        ELSE /\ logInbox[q].id \in Ids
             /\ logEvents[logInbox[q].id] =
                  [turn |-> logInbox[q].turn, kind |-> logInbox[q].kind]
    BY <2>1 DEF FramesOK, ClientInv
  <2>. QED
    BY <2>1, <2>2
<1>11. NoSynced => NoSynced'
  BY <1>8 DEF NoSynced
<1>12. logReq.at # "away"
  BY DEF ClientInv, RequestOK
<1>13. \A p, q \in Frames' :
         logInbox'[p].kind = "synced" /\ logInbox'[q].kind = "synced" => p = q
  <2>. SUFFICES ASSUME NEW p \in Frames', NEW q \in Frames',
                       logInbox'[p].kind = "synced", logInbox'[q].kind = "synced"
                PROVE  p = q
    OBVIOUS
  <2>1. p + 1 = q + 1
    <3>. DEFINE pp == p + 1
                qq == q + 1
    <3>1. /\ pp \in Frames /\ qq \in Frames
          /\ logInbox[pp].kind = "synced" /\ logInbox[qq].kind = "synced"
      BY <1>8
    <3>. HIDE DEF pp, qq
    <3>2. pp = qq
      BY <3>1 DEF ClientInv, RequestOK
    <3>. QED
      BY <3>2 DEF pp, qq
  <2>. QED
    BY <1>4, <2>1
<1>. QED
  BY <1>3, <1>6, <1>7, <1>8, <1>9, <1>10, <1>11, <1>12, <1>13

(* What the rest of the inbox keeps. *)
LEMMA TakenKeeps ==
  ASSUME StreamInv, ClientInv, logInbox # <<>>, logInbox' = Tail(logInbox),
         UNCHANGED logEvents
  PROVE  /\ \A t : Quiet(t) => \A p \in Frames' : logInbox'[p].turn = t => logInbox'[p].kind = "end"
         /\ InOrder => InOrder'
         /\ \A i : InInbox(i) => InInbox(i)' \/ (logInbox[1].id = i /\ logInbox[1].kind # "synced")
<1>1. /\ Frames \subseteq Nat /\ \A p \in Frames : p >= 1
      /\ \A p \in Frames' : p >= 1 /\ p + 1 \in Frames /\ logInbox'[p] = logInbox[p + 1]
      /\ \A q \in Frames : q # 1 => q - 1 \in Frames' /\ logInbox'[q - 1] = logInbox[q]
  BY Taken
<1>2. \A t : Quiet(t) => \A p \in Frames' : logInbox'[p].turn = t => logInbox'[p].kind = "end"
  BY <1>1 DEF Quiet
<1>3. ASSUME InOrder PROVE InOrder'
  <2>. SUFFICES ASSUME NEW p \in Frames', NEW q \in Frames', p < q,
                       logInbox'[q].kind \in {"start", "delta"},
                       IsEnded(logInbox[q].turn, logInbox[p].id)'
                PROVE  FALSE
    BY DEF InOrder
  <2>. DEFINE pp == p + 1
              qq == q + 1
  <2>1. pp \in Frames /\ qq \in Frames /\ logInbox'[p] = logInbox[pp] /\ logInbox'[q] = logInbox[qq]
    BY <1>1
  <2>2. p \in Nat /\ q \in Nat
    <3>1. p \in 1..Len(logInbox') /\ q \in 1..Len(logInbox')
      BY Taken, LenProperties DEF Frames
    <3>. QED
      BY <3>1
  <2>3. pp < qq
    BY <2>2
  <2>. HIDE DEF pp, qq
  <2>4. ~IsEnded(logInbox[qq].turn, logInbox[pp].id)
    BY <1>3, <2>1, <2>3 DEF InOrder
  <2>. QED
    BY <2>1, <2>4 DEF IsEnded
<1>4. \A i : InInbox(i) => InInbox(i)' \/ (logInbox[1].id = i /\ logInbox[1].kind # "synced")
  <2>. SUFFICES ASSUME NEW i, NEW p \in Frames, logInbox[p].id = i, logInbox[p].kind # "synced"
                PROVE  InInbox(i)' \/ (logInbox[1].id = i /\ logInbox[1].kind # "synced")
    BY DEF InInbox
  <2>1. CASE p = 1
    BY <2>1
  <2>2. CASE p # 1
    <3>. DEFINE q == p - 1
    <3>1. q \in Frames' /\ logInbox'[q] = logInbox[p]
      BY <1>1, <2>2
    <3>. HIDE DEF q
    <3>2. logInbox'[q].id = i /\ logInbox'[q].kind # "synced"
      BY <3>1
    <3>3. InInbox(i)'
      BY <3>1, <3>2 DEF InInbox
    <3>. QED
      BY <3>3
  <2>. QED
    BY <2>1, <2>2
<1>. QED
  BY <1>2, <1>3, <1>4

(* A frame is applied to its turn, or it is not new. *)
LEMMA TurnApplied ==
  ASSUME NEW c \in Client, NEW f \in Frame, f.turn \in LogTurns, NEW d,
         d = ApplyTurn(c, f)
  PROVE  /\ d \in Client /\ d.cursor = c.cursor /\ d.maxSeen = c.maxSeen
         /\ d.syncing = c.syncing /\ d.snapshot = c.snapshot
         /\ \A t \in LogTurns : t # f.turn =>
              /\ d.shown[t] = c.shown[t]
              /\ t \in d.completed <=> t \in c.completed
              /\ t \in d.inSnapshot <=> t \in c.inSnapshot
         /\ \/ d = c /\ (f.turn \in c.completed \/ f.id <= c.shown[f.turn])
            \/ /\ f.kind = "end" /\ f.turn \in d.completed /\ d.shown[f.turn] = 0
            \/ /\ f.turn \notin c.completed
               /\ f.kind # "end" /\ f.turn \notin d.completed /\ d.shown[f.turn] = f.id
<1>1. CASE f.turn \in c.completed \/ f.id <= c.shown[f.turn]
  BY <1>1 DEF ApplyTurn
<1>2. CASE ~(f.turn \in c.completed \/ f.id <= c.shown[f.turn])
  <2>. DEFINE end == f.kind = "end"
              in  == IF c.syncing /\ c.snapshot THEN c.inSnapshot \cup {f.turn} ELSE c.inSnapshot
              com == IF end THEN c.completed \cup {f.turn} ELSE c.completed
              v   == IF end THEN 0 ELSE f.id
  <2>1. d = [c EXCEPT !.inSnapshot = in, !.completed = com, !.shown[f.turn] = v]
    BY <1>2 DEF ApplyTurn
  <2>2. in \in SUBSET LogTurns /\ com \in SUBSET LogTurns /\ v \in Nat
    BY DEF Client, Frame
  <2>3. \A t \in LogTurns : t # f.turn =>
          (t \in com <=> t \in c.completed) /\ (t \in in <=> t \in c.inSnapshot)
    OBVIOUS
  <2>4. f.turn \in com <=> end
    BY <1>2
  <2>5. (end => v = 0) /\ (~end => v = f.id)
    OBVIOUS
  <2>. HIDE DEF in, com, v
  <2>. DEFINE sh == [c.shown EXCEPT ![f.turn] = v]
  <2>6. d = [c EXCEPT !.inSnapshot = in, !.completed = com, !.shown = sh]
    BY <2>1 DEF Client
  <2>7. /\ sh \in [LogTurns -> Nat] /\ sh[f.turn] = v
        /\ \A t \in LogTurns : t # f.turn => sh[t] = c.shown[t]
    BY <2>2 DEF Client
  <2>. HIDE DEF sh
  <2>8. /\ d \in Client /\ d.cursor = c.cursor /\ d.maxSeen = c.maxSeen
        /\ d.syncing = c.syncing /\ d.snapshot = c.snapshot
        /\ d.completed = com /\ d.inSnapshot = in /\ d.shown = sh
    BY <2>2, <2>6, <2>7 DEF Client
  <2>. QED
    BY <1>2, <2>3, <2>4, <2>5, <2>7, <2>8
<1>. QED
  BY <1>1, <1>2

(* log.synced: the cursor moves on, what the snapshot did not have goes.   *)
LEMMA ApplySyncedKeeps ==
  ASSUME StreamInv, ClientInv, logInbox # <<>>, logInbox' = Tail(logInbox),
         UNCHANGED <<logEvents, logWriter, logReq, logTorn>>,
         Head(logInbox).kind = "synced",
         logClient' = ApplySynced(logClient, Head(logInbox).id)
  PROVE  ClientInv'
<1>. DEFINE f == logInbox[1]
            c == logClient
            k == Highest({c.cursor, f.id, c.maxSeen})
            sh == [t \in LogTurns |-> IF c.snapshot /\ t \notin c.inSnapshot THEN 0 ELSE c.shown[t]]
<1>1. StreamType /\ ClientType
  BY DEF StreamInv, ClientInv
<1>2. /\ 1 \in Frames /\ Head(logInbox) = f /\ f.kind = "synced" /\ Frames \subseteq Nat
      /\ \A p \in Frames : p >= 1
      /\ \A p \in Frames' : p >= 1 /\ p + 1 \in Frames /\ logInbox'[p] = logInbox[p + 1]
      /\ logInbox' \in Seq(Frame) /\ FramesOK' /\ logReq.at # "away"
  <2>1. UNCHANGED logEvents
    OBVIOUS
  <2>2. /\ 1 \in Frames /\ Head(logInbox) = logInbox[1] /\ Frames \subseteq Nat
        /\ \A p \in Frames : p >= 1
        /\ \A p \in Frames' : p >= 1 /\ p + 1 \in Frames /\ logInbox'[p] = logInbox[p + 1]
        /\ logInbox' \in Seq(Frame) /\ logReq.at # "away"
    BY <2>1, Taken
  <2>3. FramesOK'
    BY <2>1, Taken
  <2>4. Head(logInbox) = f /\ f.kind = "synced"
    OBVIOUS
  <2>. QED
    BY <2>2, <2>3, <2>4
<1>3. /\ Len(logEvents) \in Nat /\ Ids = 1..Len(logEvents) /\ c \in Client
      /\ \A i \in Ids : logEvents[i] \in Event
      /\ c.cursor \in Nat /\ c.maxSeen \in Nat /\ f.id \in Nat
      /\ \A t \in LogTurns : c.shown[t] \in Nat
      /\ logReq.at \in {"away", "none", "asked", "head", "read"}
  BY <1>1, <1>2, Sizes DEF ClientType
<1>4. /\ c.syncing /\ ~Asking /\ logReq.at = "none" /\ Ids' = Ids
      /\ f.id <= Len(logEvents) /\ c.cursor <= Len(logEvents) /\ c.maxSeen <= Len(logEvents)
  <2>1. ~NoSynced
    BY <1>2 DEF NoSynced
  <2>2. c.syncing /\ ~Asking
    BY <2>1 DEF ClientInv, RequestOK
  <2>3. f.id \in 0..Len(logEvents)
    BY <1>2 DEF ClientInv, FramesOK
  <2>4. c.cursor <= Len(logEvents) /\ c.maxSeen <= Len(logEvents)
    BY DEF ClientInv, CursorOK
  <2>. QED
    BY <1>2, <1>3, <2>2, <2>3, <2>4 DEF Asking, Ids
<1>5. k \in {c.cursor, f.id, c.maxSeen} /\ k >= c.cursor /\ k >= f.id /\ k >= c.maxSeen /\ k \in Nat
  BY <1>3, HighestOfThree
<1>6. logClient' = [c EXCEPT !.cursor = k, !.syncing = FALSE, !.snapshot = FALSE,
                             !.inSnapshot = {}, !.shown = sh]
  BY <1>2 DEF ApplySynced
<1>7. /\ sh \in [LogTurns -> Nat]
      /\ \A t \in LogTurns : sh[t] = 0 \/ sh[t] = c.shown[t]
      /\ \A t \in LogTurns : c.snapshot /\ t \notin c.inSnapshot => sh[t] = 0
  BY <1>3
<1>. HIDE DEF k, sh
<1>8. /\ logClient' \in Client /\ logClient'.cursor = k /\ logClient'.maxSeen = c.maxSeen
      /\ logClient'.syncing = FALSE /\ logClient'.snapshot = FALSE /\ logClient'.shown = sh
      /\ logClient'.completed = c.completed
  BY <1>3, <1>5, <1>6, <1>7 DEF Client
<1>9. \A p \in Frames' : logInbox'[p].kind # "synced"
  <2>. SUFFICES ASSUME NEW p \in Frames', logInbox'[p].kind = "synced" PROVE FALSE
    OBVIOUS
  <2>. DEFINE q == p + 1
  <2>1. q \in Frames /\ logInbox[q].kind = "synced" /\ p >= 1
    BY <1>2
  <2>2. p \in Nat
    <3>1. p \in 1..Len(logInbox')
      BY <1>2, LenProperties DEF Frames
    <3>. QED
      BY <3>1
  <2>3. q # 1
    BY <2>1, <2>2
  <2>. HIDE DEF q
  <2>. QED
    BY <1>2, <2>1, <2>3 DEF ClientInv, RequestOK
<1>10. ClientType'
  BY <1>1, <1>2, <1>8 DEF ClientType
<1>11. ShownOK'
  <2>. SUFFICES ASSUME NEW t \in LogTurns
                PROVE  /\ t \in c.completed => sh[t] = 0
                       /\ sh[t] # 0 =>
                            /\ sh[t] \in Ids /\ sh[t] <= c.maxSeen
                            /\ logEvents[sh[t]].turn = t /\ logEvents[sh[t]].kind # "end"
    BY <1>4, <1>8 DEF ShownOK
  <2>. QED
    BY <1>7 DEF ClientInv, ShownOK
<1>12. CursorOK'
  BY <1>3, <1>4, <1>5, <1>8 DEF CursorOK
<1>13. RequestOK'
  BY <1>2, <1>4, <1>8, <1>9 DEF RequestOK, Asking, NoSynced
<1>14. ASSUME ~logTorn' PROVE SyncInv'
  <2>1. SyncInv
    BY <1>14 DEF ClientInv
  <2>2. PICK n \in 0..Len(logEvents), r \in Frames : Answered(n, r)
    BY <1>4, <2>1 DEF SyncInv
  <2>3. r = 1
    BY <1>2, <2>2 DEF Answered, ClientInv, RequestOK
  <2>4. k <= n /\ n \in Nat
    BY <1>2, <1>3, <1>5, <2>2, <2>3 DEF Answered
  <2>5. PastGone'
    <3>. SUFFICES ASSUME NEW i \in 1..k, logEvents[i].kind = "end"
                  PROVE  Gone(logEvents[i].turn)'
      BY <1>8 DEF PastGone
    <3>. DEFINE t == logEvents[i].turn
    <3>1. i \in Ids /\ t \in LogTurns /\ i \in 1..n
      BY <1>3, <1>5, <2>2, <2>4 DEF Event
    <3>2. Gone(t) \/ InInbox(i)
      BY <2>2, <3>1 DEF Answered
    <3>3. ~InInbox(i)
      <4>. SUFFICES ASSUME NEW p \in Frames, logInbox[p].id = i, logInbox[p].kind # "synced"
                    PROVE  FALSE
        BY DEF InInbox
      <4>1. p # 1 /\ p >= 1 /\ p \in Nat
        BY <1>2
      <4>2. logInbox[p].id > n
        BY <2>2, <2>3, <4>1 DEF Answered
      <4>. QED
        BY <2>4, <3>1, <4>2
    <3>4. CASE t \in c.completed
      BY <1>8, <3>4 DEF Gone
    <3>5. CASE Quiet(t)
      <4>1. sh[t] = 0
        BY <1>4, <1>7, <3>1, <3>5 DEF Quiet, Hidden
      <4>2. \A p \in Frames' : logInbox'[p].turn = t => logInbox'[p].kind = "end"
        BY <3>5, TakenKeeps
      <4>. QED
        BY <1>8, <4>1, <4>2 DEF Gone, Quiet, Hidden
    <3>. QED
      BY <3>2, <3>3, <3>4, <3>5 DEF Gone
  <2>6. ASSUME k = 0 PROVE InOrder'
    <3>1. c.cursor = 0
      BY <1>3, <1>5, <2>6
    <3>. QED
      BY <2>1, <3>1, TakenKeeps DEF SyncInv
  <2>. QED
    BY <1>4, <1>8, <2>5, <2>6 DEF SyncInv, Asking
<1>. QED
  BY <1>2, <1>10, <1>11, <1>12, <1>13, <1>14 DEF ClientInv

(* A frame is applied to its turn: what was gone stays gone, and an end    *)
(* completes its turn.                                                     *)
LEMMA TurnKeeps ==
  ASSUME StreamInv, ClientInv, logInbox # <<>>, logInbox' = Tail(logInbox),
         logEvents' = logEvents, NEW f, f = logInbox[1], f.kind # "synced",
         NEW c \in Client, logClient' = ApplyTurn(c, f),
         c.shown = logClient.shown, c.completed = logClient.completed,
         c.syncing = logClient.syncing, c.snapshot = logClient.snapshot,
         c.inSnapshot = logClient.inSnapshot,
         c.maxSeen >= logClient.maxSeen, c.maxSeen >= f.id
  PROVE  /\ f.turn \in LogTurns /\ f.id \in Ids
         /\ logEvents[f.id] = [turn |-> f.turn, kind |-> f.kind]
         /\ logClient' \in Client
         /\ logClient'.cursor = c.cursor /\ logClient'.maxSeen = c.maxSeen
         /\ logClient'.syncing = c.syncing /\ logClient'.snapshot = c.snapshot
         /\ ShownOK'
         /\ \A t \in LogTurns : Gone(t) => Gone(t)'
         /\ ~logTorn /\ f.kind = "end" => f.turn \in logClient'.completed
         /\ \A t \in LogTurns : t # f.turn => logClient'.shown[t] = logClient.shown[t]
<1>. DEFINE d == logClient'
            b == logClient
<1>1. StreamType /\ ClientType
  BY DEF StreamInv, ClientInv
<1>2. 1 \in Frames
  BY Taken
<1>3. /\ Len(logEvents) \in Nat /\ Ids = 1..Len(logEvents) /\ Ids' = Ids
      /\ \A i \in Ids : logEvents[i] \in Event
      /\ f \in Frame /\ b.maxSeen \in Nat /\ c.maxSeen \in Nat
      /\ \A t \in LogTurns : b.shown[t] \in Nat
  BY <1>1, <1>2, Sizes DEF Client, Ids
<1>4. /\ f.id \in Ids /\ logEvents[f.id] = [turn |-> f.turn, kind |-> f.kind]
      /\ f.turn \in LogTurns
  <2>1. f.id \in Ids /\ logEvents[f.id] = [turn |-> f.turn, kind |-> f.kind]
    BY <1>2 DEF FramesOK, ClientInv
  <2>2. logEvents[f.id].turn = f.turn /\ logEvents[f.id] \in Event
    BY <1>3, <2>1
  <2>. QED
    BY <2>1, <2>2 DEF Event
<1>5. /\ d \in Client /\ d.cursor = c.cursor /\ d.maxSeen = c.maxSeen
      /\ d.syncing = c.syncing /\ d.snapshot = c.snapshot
      /\ \A t \in LogTurns : t # f.turn =>
           /\ d.shown[t] = b.shown[t]
           /\ t \in d.completed <=> t \in b.completed
           /\ t \in d.inSnapshot <=> t \in b.inSnapshot
      /\ \/ d = c /\ (f.turn \in b.completed \/ f.id <= b.shown[f.turn])
         \/ /\ f.kind = "end" /\ f.turn \in d.completed /\ d.shown[f.turn] = 0
         \/ /\ f.turn \notin b.completed
            /\ f.kind # "end" /\ f.turn \notin d.completed /\ d.shown[f.turn] = f.id
  BY <1>3, <1>4, TurnApplied
<1>6. ShownOK'
  <2>. SUFFICES ASSUME NEW t \in LogTurns
                PROVE  /\ t \in d.completed => d.shown[t] = 0
                       /\ d.shown[t] # 0 =>
                            /\ d.shown[t] \in Ids /\ d.shown[t] <= d.maxSeen
                            /\ logEvents[d.shown[t]].turn = t
                            /\ logEvents[d.shown[t]].kind # "end"
    BY <1>3 DEF ShownOK
  <2>1. /\ t \in b.completed => b.shown[t] = 0
        /\ b.shown[t] # 0 =>
             /\ b.shown[t] \in Ids /\ b.shown[t] <= b.maxSeen
             /\ logEvents[b.shown[t]].turn = t /\ logEvents[b.shown[t]].kind # "end"
    BY DEF ClientInv, ShownOK
  <2>2. b.shown[t] # 0 => b.shown[t] <= d.maxSeen
    BY <1>3, <1>5, <2>1
  <2>3. CASE t # f.turn \/ d = c
    BY <1>5, <2>1, <2>2, <2>3
  <2>4. CASE t = f.turn /\ f.kind = "end" /\ d.shown[f.turn] = 0
    BY <2>4
  <2>5. CASE t = f.turn /\ f.kind # "end" /\ f.turn \notin d.completed /\ d.shown[f.turn] = f.id
    <3>1. logEvents[f.id].turn = t /\ logEvents[f.id].kind # "end"
      BY <1>4, <2>5
    <3>. QED
      BY <1>4, <1>5, <2>5, <3>1
  <2>. QED
    BY <1>5, <2>3, <2>4, <2>5
<1>7. ASSUME NEW t \in LogTurns, Gone(t) PROVE Gone(t)'
  <2>1. \A p \in Frames' : Quiet(t) /\ logInbox'[p].turn = t => logInbox'[p].kind = "end"
    BY TakenKeeps
  <2>2. Quiet(t) /\ f.turn = t => f.kind = "end"
    BY <1>2 DEF Quiet
  <2>3. CASE t \in b.completed
    <3>1. t \in d.completed
      BY <1>5, <2>3
    <3>. QED
      BY <3>1 DEF Gone
  <2>4. CASE Quiet(t) /\ (t # f.turn \/ d = c)
    <3>1. /\ d.shown[t] = b.shown[t] /\ (t \in d.inSnapshot <=> t \in b.inSnapshot)
          /\ d.syncing = b.syncing /\ d.snapshot = b.snapshot
      BY <1>5, <2>4
    <3>. QED
      BY <2>1, <2>4, <3>1 DEF Gone, Quiet, Hidden
  <2>5. CASE Quiet(t) /\ t = f.turn /\ d # c
    <3>1. t \in d.completed
      BY <1>5, <2>2, <2>5
    <3>. QED
      BY <3>1 DEF Gone
  <2>. QED
    BY <1>7, <2>3, <2>4, <2>5 DEF Gone
<1>8. ASSUME ~logTorn, f.kind = "end" PROVE f.turn \in d.completed
  <2>1. EndsLast
    BY <1>8 DEF StreamInv
  <2>2. f.id <= b.shown[f.turn] => FALSE
    <3>. SUFFICES ASSUME f.id <= b.shown[f.turn] PROVE FALSE
      OBVIOUS
    <3>. DEFINE j == b.shown[f.turn]
    <3>1. j # 0
      BY <1>3, <1>4
    <3>2. j \in Ids /\ logEvents[j].turn = f.turn /\ logEvents[j].kind # "end"
      BY <1>4, <3>1 DEF ClientInv, ShownOK
    <3>3. logEvents[f.id].turn = f.turn /\ logEvents[f.id].kind = "end"
      BY <1>4, <1>8
    <3>4. f.id <= j
      OBVIOUS
    <3>. HIDE DEF j
    <3>5. f.id < j
      BY <1>3, <1>4, <3>2, <3>3, <3>4
    <3>. QED
      BY <1>4, <2>1, <3>2, <3>3, <3>5 DEF EndsLast
  <2>. QED
    BY <1>5, <1>8, <2>2
<1>. QED
  BY <1>4, <1>5, <1>6, <1>7, <1>8

(* A frame that comes while the page waits for log.synced. *)
LEMMA ApplySyncingKeeps ==
  ASSUME StreamInv, ClientInv, logInbox # <<>>, logInbox' = Tail(logInbox),
         UNCHANGED <<logEvents, logWriter, logReq, logTorn>>,
         NEW f, f = logInbox[1], f.kind # "synced", logClient.syncing,
         NEW k, k = Highest({logClient.maxSeen, f.id}),
         logClient' = ApplyTurn([logClient EXCEPT !.maxSeen = k], f)
  PROVE  ClientInv'
<1>. DEFINE b == logClient
            c == [b EXCEPT !.maxSeen = k]
<1>1. StreamType /\ ClientType /\ logEvents' = logEvents
  BY DEF StreamInv, ClientInv
<1>2. /\ 1 \in Frames /\ Frames \subseteq Nat /\ \A p \in Frames : p >= 1
      /\ \A p \in Frames' : p >= 1 /\ p + 1 \in Frames /\ logInbox'[p] = logInbox[p + 1]
      /\ \A q \in Frames : q # 1 => q - 1 \in Frames' /\ logInbox'[q - 1] = logInbox[q]
      /\ logInbox' \in Seq(Frame) /\ logReq.at # "away" /\ (NoSynced => NoSynced')
      /\ \A p, q \in Frames' :
           logInbox'[p].kind = "synced" /\ logInbox'[q].kind = "synced" => p = q
  BY <1>1, Taken
<1>3. FramesOK'
  BY <1>1, Taken
<1>4. /\ Len(logEvents) \in Nat /\ Ids = 1..Len(logEvents) /\ Ids' = Ids
      /\ \A i \in Ids : logEvents[i] \in Event
      /\ b \in Client /\ f \in Frame /\ f.id \in Nat /\ b.maxSeen \in Nat /\ b.cursor \in Nat
  BY <1>1, <1>2, Sizes DEF ClientType, Ids
<1>5. k \in {b.maxSeen, f.id} /\ k >= b.maxSeen /\ k >= f.id /\ k \in Nat
  BY <1>4, HighestOfTwo
<1>6. /\ c \in Client /\ c.maxSeen = k /\ c.cursor = b.cursor /\ c.shown = b.shown
      /\ c.completed = b.completed /\ c.syncing = b.syncing /\ c.snapshot = b.snapshot
      /\ c.inSnapshot = b.inSnapshot /\ logClient' = ApplyTurn(c, f)
  BY <1>4, <1>5 DEF Client
<1>. HIDE DEF c
<1>7. /\ f.turn \in LogTurns /\ f.id \in Ids
      /\ logEvents[f.id] = [turn |-> f.turn, kind |-> f.kind]
      /\ logClient' \in Client
      /\ logClient'.cursor = b.cursor /\ logClient'.maxSeen = k
      /\ logClient'.syncing = b.syncing /\ logClient'.snapshot = b.snapshot
      /\ \A t \in LogTurns : Gone(t) => Gone(t)'
      /\ ~logTorn /\ f.kind = "end" => f.turn \in logClient'.completed
  BY <1>1, <1>5, <1>6, TurnKeeps
<1>8. ShownOK'
  BY <1>1, <1>5, <1>6, TurnKeeps
<1>9. ClientType'
  BY <1>1, <1>2, <1>7 DEF ClientType
<1>10. CursorOK'
  <2>1. b.cursor <= Len(logEvents) /\ b.maxSeen <= Len(logEvents) /\ f.id <= Len(logEvents)
    BY <1>4, <1>7 DEF CursorOK, ClientInv
  <2>2. k <= Len(logEvents)
    BY <1>5, <2>1
  <2>. QED
    BY <1>1, <1>7, <2>1, <2>2 DEF CursorOK
<1>11. RequestOK'
  BY <1>1, <1>2, <1>7 DEF RequestOK, ClientInv, Asking
<1>12. ASSUME ~logTorn' PROVE SyncInv'
  <2>1. SyncInv /\ ~logTorn
    BY <1>12 DEF ClientInv
  <2>2. \A i \in Ids : logEvents[i].turn \in LogTurns
    BY <1>4 DEF Event
  <2>3. ASSUME NEW i \in Ids, logEvents[i].kind = "end", Gone(logEvents[i].turn) \/ InInbox(i)
        PROVE  Gone(logEvents[i].turn)' \/ InInbox(i)'
    <3>. DEFINE t == logEvents[i].turn
    <3>1. CASE Gone(t)
      BY <1>7, <2>2, <3>1
    <3>2. CASE InInbox(i)'
      BY <3>2
    <3>3. CASE f.id = i
      <4>1. f.kind = "end" /\ f.turn = t
        BY <1>7, <2>3, <3>3
      <4>2. t \in logClient'.completed
        BY <1>7, <2>1, <4>1
      <4>. QED
        BY <1>1, <4>2 DEF Gone
    <3>4. InInbox(i) => InInbox(i)' \/ f.id = i
      BY <1>1, TakenKeeps
    <3>. QED
      BY <2>3, <3>1, <3>2, <3>3, <3>4
  <2>4. PastGone'
    <3>. SUFFICES ASSUME NEW i \in 1..b.cursor, logEvents[i].kind = "end"
                  PROVE  Gone(logEvents[i].turn)'
      BY <1>1, <1>7 DEF PastGone
    <3>1. i \in Ids
      BY <1>4 DEF ClientInv, CursorOK
    <3>2. Gone(logEvents[i].turn)
      BY <2>1 DEF SyncInv, PastGone
    <3>. QED
      BY <1>7, <2>2, <3>1, <3>2
  <2>5. EndsArrive => EndsArrive'
    <3>1. \A i : Pending(i) => Pending(i)'
      BY DEF Pending, Appending
    <3>. SUFFICES ASSUME EndsArrive, NEW i \in Ids, logEvents[i].kind = "end"
                  PROVE  Gone(logEvents[i].turn)' \/ InInbox(i)' \/ Pending(i)'
      BY <1>1, <1>4 DEF EndsArrive
    <3>2. Gone(logEvents[i].turn) \/ InInbox(i) \/ Pending(i)
      BY DEF EndsArrive
    <3>. QED
      BY <2>3, <3>1, <3>2
  <2>6. ASSUME NEW n \in 0..Len(logEvents), NEW r \in Frames, Answered(n, r)
        PROVE  \E s \in Frames' : Answered(n, s)'
    <3>. DEFINE s == r - 1
    <3>1. /\ logInbox[r].kind = "synced" /\ b.cursor <= n /\ b.maxSeen <= n
          /\ \A p \in Frames : IF p <= r THEN logInbox[p].id <= n ELSE logInbox[p].id > n
          /\ \A w \in LogWriters : Appending(w) => logWriter[w].id > n
          /\ \A i \in 1..n : logEvents[i].kind = "end" => Gone(logEvents[i].turn) \/ InInbox(i)
      BY <2>6 DEF Answered
    <3>2. r # 1 /\ r \in Nat /\ r >= 1
      BY <1>2, <3>1
    <3>3. s \in Frames' /\ logInbox'[s] = logInbox[r]
      BY <1>2, <3>2
    <3>4. k <= n
      BY <1>2, <1>5, <3>1, <3>2
    <3>5. \A p \in Frames' : IF p <= s THEN logInbox'[p].id <= n ELSE logInbox'[p].id > n
      <4>. SUFFICES ASSUME NEW p \in Frames'
                    PROVE  IF p <= s THEN logInbox'[p].id <= n ELSE logInbox'[p].id > n
        OBVIOUS
      <4>. DEFINE q == p + 1
      <4>1. q \in Frames /\ logInbox'[p] = logInbox[q]
        BY <1>2
      <4>2. p \in Nat
        <5>1. p \in 1..Len(logInbox')
          BY <1>2, LenProperties DEF Frames
        <5>. QED
          BY <5>1
      <4>3. p <= s <=> q <= r
        BY <3>2, <4>2
      <4>. HIDE DEF q, s
      <4>4. IF q <= r THEN logInbox[q].id <= n ELSE logInbox[q].id > n
        BY <3>1, <4>1
      <4>. QED
        BY <4>1, <4>3, <4>4
    <3>. HIDE DEF s
    <3>6. \A i \in 1..n : logEvents[i].kind = "end" => Gone(logEvents[i].turn)' \/ InInbox(i)'
      <4>1. 1..n \subseteq Ids
        BY <1>4
      <4>. QED
        BY <2>3, <3>1, <4>1
    <3>7. \A w \in LogWriters : Appending(w)' => logWriter'[w].id > n
      BY <3>1 DEF Appending
    <3>8. \A u : u = s => Answered(n, u)'
      BY <1>1, <1>7, <3>1, <3>3, <3>4, <3>5, <3>6, <3>7 DEF Answered
    <3>. QED
      BY <3>3, <3>8
  <2>7. InOrder => InOrder'
    BY <1>1, TakenKeeps
  <2>. QED
    BY <1>1, <1>7, <2>1, <2>4, <2>5, <2>6, <2>7 DEF SyncInv, Asking
<1>. QED
  BY <1>3, <1>8, <1>9, <1>10, <1>11, <1>12 DEF ClientInv

(* A frame that is next, or the first of all. *)
LEMMA ApplyNextKeeps ==
  ASSUME StreamInv, ClientInv, logInbox # <<>>, logInbox' = Tail(logInbox),
         UNCHANGED <<logEvents, logWriter, logReq, logTorn>>,
         NEW f, f = logInbox[1], f.kind # "synced", ~logClient.syncing,
         ~IsSeen(logClient, f), ~IsGap(logClient, f),
         logClient' = ApplyTurn([logClient EXCEPT !.cursor = f.id, !.maxSeen = f.id], f)
  PROVE  ClientInv'
<1>. DEFINE b == logClient
            c == [b EXCEPT !.cursor = f.id, !.maxSeen = f.id]
<1>1. StreamType /\ ClientType /\ logEvents' = logEvents
  BY DEF StreamInv, ClientInv
<1>2. /\ 1 \in Frames /\ Frames \subseteq Nat /\ \A p \in Frames : p >= 1
      /\ \A q \in Frames : q # 1 => q - 1 \in Frames' /\ logInbox'[q - 1] = logInbox[q]
      /\ logInbox' \in Seq(Frame) /\ logReq.at # "away" /\ (NoSynced => NoSynced')
      /\ \A p, q \in Frames' :
           logInbox'[p].kind = "synced" /\ logInbox'[q].kind = "synced" => p = q
  BY <1>1, Taken
<1>3. FramesOK'
  BY <1>1, Taken
<1>4. /\ Len(logEvents) \in Nat /\ Ids = 1..Len(logEvents) /\ Ids' = Ids
      /\ \A i \in Ids : logEvents[i] \in Event
      /\ b \in Client /\ f \in Frame /\ f.id \in Nat /\ b.maxSeen \in Nat /\ b.cursor \in Nat
      /\ \A t \in LogTurns : b.shown[t] \in Nat
  BY <1>1, <1>2, Sizes DEF ClientType, Ids
<1>5. /\ b.maxSeen <= b.cursor /\ b.cursor <= Len(logEvents)
      /\ b.cursor = 0 \/ f.id = b.cursor + 1
      /\ f.id \in Ids
  <2>1. f.id \in Ids
    BY <1>2 DEF FramesOK, ClientInv
  <2>. QED
    BY <2>1 DEF CursorOK, ClientInv, IsGap
<1>6. /\ c \in Client /\ c.maxSeen = f.id /\ c.cursor = f.id /\ c.shown = b.shown
      /\ c.completed = b.completed /\ c.syncing = b.syncing /\ c.snapshot = b.snapshot
      /\ c.inSnapshot = b.inSnapshot /\ logClient' = ApplyTurn(c, f)
  BY <1>4 DEF Client
<1>7. c.maxSeen >= b.maxSeen /\ c.maxSeen >= f.id
  BY <1>4, <1>5, <1>6
<1>. HIDE DEF c
<1>8. /\ f.turn \in LogTurns /\ logEvents[f.id] = [turn |-> f.turn, kind |-> f.kind]
      /\ logClient' \in Client
      /\ logClient'.cursor = f.id /\ logClient'.maxSeen = f.id
      /\ logClient'.syncing = b.syncing /\ logClient'.snapshot = b.snapshot
      /\ \A t \in LogTurns : Gone(t) => Gone(t)'
      /\ ~logTorn /\ f.kind = "end" => f.turn \in logClient'.completed
      /\ \A t \in LogTurns : t # f.turn => logClient'.shown[t] = b.shown[t]
  BY <1>1, <1>6, <1>7, TurnKeeps
<1>9. ShownOK'
  BY <1>1, <1>6, <1>7, TurnKeeps
<1>10. ClientType'
  BY <1>1, <1>2, <1>8 DEF ClientType
<1>11. CursorOK'
  BY <1>1, <1>4, <1>5, <1>8 DEF CursorOK
<1>12. ~Asking /\ NoSynced /\ NoSynced'
  BY <1>2 DEF ClientInv, RequestOK
<1>13. RequestOK'
  BY <1>1, <1>2, <1>8, <1>12 DEF RequestOK, Asking
<1>14. ASSUME ~logTorn' PROVE SyncInv'
  <2>1. SyncInv /\ ~logTorn /\ EndsLast
    BY <1>14 DEF ClientInv, StreamInv
  <2>2. PastGone'
    <3>. SUFFICES ASSUME NEW i \in 1..f.id, logEvents[i].kind = "end"
                  PROVE  Gone(logEvents[i].turn)'
      BY <1>1, <1>8 DEF PastGone
    <3>. DEFINE t == logEvents[i].turn
    <3>1. i \in Ids /\ t \in LogTurns
      BY <1>4, <1>5 DEF Event
    <3>2. CASE f.kind = "end" /\ f.turn = t
      <4>1. t \in logClient'.completed
        BY <1>8, <2>1, <3>2
      <4>. QED
        BY <1>1, <4>1 DEF Gone
    <3>3. CASE ~(f.kind = "end" /\ f.turn = t) /\ b.cursor # 0
      <4>1. i # f.id
        BY <1>8, <3>3
      <4>2. i \in 1..b.cursor
        BY <1>4, <1>5, <3>3, <4>1
      <4>3. Gone(t)
        BY <2>1, <4>2 DEF SyncInv, PastGone
      <4>. QED
        BY <1>1, <1>8, <3>1, <4>3
    <3>4. CASE ~(f.kind = "end" /\ f.turn = t) /\ b.cursor = 0
      <4>1. i # f.id /\ i < f.id
        BY <1>4, <1>8, <3>4
      <4>2. f.turn # t
        <5>. SUFFICES ASSUME f.turn = t PROVE FALSE
          OBVIOUS
        <5>1. logEvents[f.id].turn = t /\ logEvents[f.id].kind # "end"
          BY <1>8, <3>4
        <5>. QED
          BY <1>5, <2>1, <3>1, <4>1, <5>1 DEF EndsLast
      <4>3. b.shown[t] = 0
        <5>1. b.shown[t] # 0 => b.shown[t] <= b.maxSeen
          BY <3>1 DEF ClientInv, ShownOK
        <5>. QED
          BY <1>4, <1>5, <3>1, <3>4, <5>1
      <4>4. ASSUME NEW p \in Frames, p # 1, logInbox[p].turn = t PROVE logInbox[p].kind = "end"
        <5>1. InOrder /\ 1 < p
          BY <1>2, <2>1, <3>4, <4>4 DEF SyncInv
        <5>2. IsEnded(t, f.id)
          <6>1. logEvents[i] = [turn |-> t, kind |-> "end"]
            BY <1>4, <3>1 DEF Event
          <6>. QED
            BY <6>1 DEF IsEnded
        <5>3. logInbox[p].kind \notin {"start", "delta"}
          BY <1>2, <4>4, <5>1, <5>2 DEF InOrder
        <5>4. logInbox[p].kind # "synced" /\ logInbox[p] \in Frame
          BY <1>1, <1>12, Sizes DEF NoSynced
        <5>. QED
          BY <5>3, <5>4 DEF Frame, Kinds
      <4>5. \A p \in Frames' : logInbox'[p].turn = t => logInbox'[p].kind = "end"
        <5>. SUFFICES ASSUME NEW p \in Frames', logInbox'[p].turn = t
                      PROVE  logInbox'[p].kind = "end"
          OBVIOUS
        <5>. DEFINE q == p + 1
        <5>1. p >= 1 /\ q \in Frames /\ logInbox'[p] = logInbox[q]
          BY <1>1, Taken
        <5>2. q # 1
          <6>1. p \in 1..Len(logInbox')
            BY <1>2, LenProperties DEF Frames
          <6>. QED
            BY <6>1
        <5>. HIDE DEF q
        <5>. QED
          BY <4>4, <5>1, <5>2
      <4>6. logClient'.shown[t] = 0 /\ ~logClient'.syncing
        BY <1>8, <3>1, <4>2, <4>3
      <4>. QED
        BY <1>1, <4>5, <4>6 DEF Gone, Quiet, Hidden
    <3>. QED
      BY <3>2, <3>3, <3>4
  <2>3. f.id # 0
    BY <1>4, <1>5
  <2>. QED
    BY <1>1, <1>8, <1>12, <2>2, <2>3 DEF SyncInv, Asking
<1>. QED
  BY <1>3, <1>9, <1>10, <1>11, <1>13, <1>14 DEF ClientInv

(* A frame the page has seen. *)
LEMMA ApplySeenKeeps ==
  ASSUME StreamInv, ClientInv, logInbox # <<>>, logInbox' = Tail(logInbox),
         UNCHANGED <<logEvents, logWriter, logReq, logTorn, logClient>>,
         ~logClient.syncing, logClient.cursor # 0
  PROVE  ClientInv'
<1>1. StreamType /\ ClientType /\ logEvents' = logEvents /\ Ids' = Ids
  BY DEF StreamInv, ClientInv, Ids
<1>2. /\ logInbox' \in Seq(Frame) /\ logReq.at # "away" /\ (NoSynced => NoSynced')
      /\ \A p, q \in Frames' :
           logInbox'[p].kind = "synced" /\ logInbox'[q].kind = "synced" => p = q
  BY <1>1, Taken
<1>3. FramesOK'
  BY <1>1, Taken
<1>4. ShownOK' /\ CursorOK' /\ ClientType'
  BY <1>1, <1>2 DEF ShownOK, CursorOK, ClientInv, ClientType
<1>5. RequestOK'
  BY <1>2 DEF RequestOK, ClientInv, Asking
<1>6. ASSUME ~logTorn' PROVE SyncInv'
  <2>1. PastGone
    BY <1>6 DEF ClientInv, SyncInv
  <2>2. PastGone'
    <3>. SUFFICES ASSUME NEW i \in 1..logClient.cursor, logEvents[i].kind = "end"
                  PROVE  Gone(logEvents[i].turn)'
      BY <1>1 DEF PastGone
    <3>1. Gone(logEvents[i].turn)
      BY <2>1 DEF PastGone
    <3>. DEFINE t == logEvents[i].turn
    <3>2. Quiet(t) => \A p \in Frames' : logInbox'[p].turn = t => logInbox'[p].kind = "end"
      BY <1>1, TakenKeeps
    <3>. QED
      BY <1>1, <3>1, <3>2 DEF Gone, Quiet, Hidden
  <2>3. ~Asking
    BY DEF ClientInv, RequestOK
  <2>. QED
    BY <2>2, <2>3 DEF SyncInv, Asking
<1>. QED
  BY <1>3, <1>4, <1>5, <1>6 DEF ClientInv

LEMMA ApplyKeeps ==
  ASSUME StreamInv, ClientInv, LogApply
  PROVE  ClientInv'
<1>. DEFINE c == logClient
            f == Head(logInbox)
<1>1. /\ logInbox # <<>> /\ logInbox' = Tail(logInbox)
      /\ UNCHANGED <<logEvents, logWriter, logTorn, logWrites>>
  BY DEF LogApply, logWrites
<1>2. f = logInbox[1]
  OBVIOUS
<1>3. CASE /\ f.kind = "synced" /\ logClient' = ApplySynced(c, f.id)
           /\ UNCHANGED logReq
  BY <1>1, <1>3, ApplySyncedKeeps
<1>4. CASE /\ f.kind # "synced" /\ c.syncing /\ UNCHANGED logReq
           /\ logClient' = ApplyTurn([c EXCEPT !.maxSeen = Highest({@, f.id})], f)
  BY <1>1, <1>2, <1>4, ApplySyncingKeeps
<1>5. CASE f.kind # "synced" /\ ~c.syncing /\ IsSeen(c, f) /\ UNCHANGED <<logClient, logReq>>
  BY <1>1, <1>5, ApplySeenKeeps DEF IsSeen
<1>6. CASE /\ f.kind # "synced" /\ ~c.syncing /\ IsGap(c, f)
           /\ logClient' = BeginSync(c) /\ Ask(c)
  <2>1. NoSynced'
    <3>1. NoSynced
      BY <1>6 DEF ClientInv, RequestOK
    <3>. QED
      BY <1>1, <3>1, Taken
  <2>2. c = [logClient EXCEPT !.cursor = logClient.cursor]
    BY DEF ClientInv, ClientType, Client
  <2>. QED
    BY <1>1, <1>6, <2>1, <2>2, AskKeeps DEF IsGap, Ask
<1>7. CASE /\ f.kind # "synced" /\ ~c.syncing /\ ~IsSeen(c, f) /\ ~IsGap(c, f)
           /\ logClient' = ApplyTurn([c EXCEPT !.cursor = f.id, !.maxSeen = f.id], f)
           /\ UNCHANGED logReq
  BY <1>1, <1>2, <1>7, ApplyNextKeeps
<1>. QED
  BY <1>3, <1>4, <1>5, <1>6, <1>7 DEF LogApply

-----------------------------------------------------------------------------
(* Every step of the log.                                                  *)

LEMMA ClientInit ==
  ASSUME LogInit
  PROVE  ClientInv
<1>1. /\ logEvents = <<>> /\ logInbox = <<>> /\ logReq = Away
      /\ logClient = [cursor |-> 0, maxSeen |-> 0, syncing |-> FALSE, snapshot |-> FALSE,
                      inSnapshot |-> {}, shown |-> [t \in LogTurns |-> 0], completed |-> {}]
  BY DEF LogInit
<1>2. logClient \in Client /\ logReq \in Request /\ logReq.at = "away"
  BY <1>1 DEF Client, Request, Away, NoRequest
<1>3. /\ Frames = {} /\ logInbox \in Seq(Frame) /\ Len(logEvents) = 0 /\ Ids = {}
  BY <1>1 DEF Frames, Ids
<1>4. /\ logClient.cursor = 0 /\ logClient.maxSeen = 0 /\ logClient.syncing = FALSE
      /\ logClient.completed = {} /\ \A t \in LogTurns : logClient.shown[t] = 0
  BY <1>1
<1>5. ClientType
  BY <1>2, <1>3 DEF ClientType
<1>6. FramesOK /\ ShownOK /\ CursorOK
  BY <1>3, <1>4 DEF FramesOK, ShownOK, CursorOK
<1>7. RequestOK
  BY <1>1, <1>2, <1>3, <1>4 DEF RequestOK, Asking, NoSynced
<1>8. SyncInv
  BY <1>2, <1>3, <1>4 DEF SyncInv, Asking, PastGone, InOrder
<1>. QED
  BY <1>5, <1>6, <1>7, <1>8 DEF ClientInv

LEMMA ClientNext ==
  ASSUME StreamInv, ClientInv, StreamInv', [LogNext]_logVars
  PROVE  ClientInv'
<1>1. ASSUME UNCHANGED logVars PROVE ClientInv'
  BY <1>1, SlotUnseen DEF logVars, logSide, Appending
<1>2. ASSUME NEW t \in LogTurns, LogStart(t) \/ LogDelta(t) \/ LogEnd(t) PROVE ClientInv'
  <2>1. t \in LogWriters
    BY Names
  <2>. QED
    BY <1>2, <2>1, StoresUnseen DEF LogStart, LogDelta, LogEnd, Kinds
<1>3. ASSUME NEW t \in LogTurns, LogCloseOne(t) PROVE ClientInv'
  <2>1. Cleaner \in LogWriters
    BY Names
  <2>. QED
    BY <1>3, <2>1, StoresUnseen DEF LogCloseOne, Kinds
<1>4. ASSUME \/ \E w \in LogWriters : LogCheck(w) \/ LogSlot(w)
             \/ \E t \in LogTurns : LogDie(t)
             \/ \E stop \in BOOLEAN : LogClose(stop)
      PROVE  ClientInv'
  BY <1>4, WritersUnseen
<1>5. ASSUME NEW w \in LogWriters, NEW lost \in BOOLEAN, LogPublish(w, lost) PROVE ClientInv'
  BY <1>5, PublishKeeps
<1>6. ASSUME LogConnect \/ LogStale \/ LogHead \/ LogReplay \/ LogSnapshot \/ LogSynced \/ LogApply
      PROVE  ClientInv'
  BY <1>6, ConnectKeeps, StaleKeeps, HeadKeeps, ReplayKeeps, SnapshotKeeps, SyncedKeeps, ApplyKeeps
<1>. QED
  BY <1>1, <1>2, <1>3, <1>4, <1>5, <1>6 DEF LogNext, LogRun, LogOther

(* What the writers and the page keep, whatever is torn or lost. *)
THEOREM LogInvariant == LogSpec => [](StreamInv /\ ClientInv)
<1>1. LogInit => StreamInv /\ ClientInv
  BY StreamInit, ClientInit
<1>2. StreamInv /\ ClientInv /\ [LogNext]_logVars => (StreamInv /\ ClientInv)'
  <2>. SUFFICES ASSUME StreamInv, ClientInv, [LogNext]_logVars
                PROVE  (StreamInv /\ ClientInv)'
    OBVIOUS
  <2>1. StreamInv'
    BY StreamNext
  <2>2. ClientInv'
    BY <2>1, ClientNext
  <2>. QED
    BY <2>1, <2>2
<1>. QED
  BY <1>1, <1>2, PTL DEF LogSpec

(* A page that is not syncing shows no turn that ended before its cursor,  *)
(* unless an append was torn: replay, snapshot, gap and reconnect leave no *)
(* ghost (thread-log.ts, applyThreadEvent).                                *)
THEOREM GhostsNeedTears == LogSpec => []GhostNeedsTear
<1>1. StreamInv /\ ClientInv => GhostNeedsTear
  <2>. SUFFICES ASSUME StreamInv, ClientInv, ~logClient.syncing, ~logTorn,
                       NEW t \in LogTurns, IsEnded(t, logClient.cursor)
                PROVE  logClient.shown[t] = 0
    BY DEF GhostNeedsTear
  <2>1. StreamType /\ PastGone /\ logClient.cursor \in Nat /\ logClient.cursor <= Len(logEvents)
    BY Sizes DEF StreamInv, ClientInv, SyncInv, CursorOK
  <2>2. PICK i \in 1..logClient.cursor : logEvents[i].turn = t /\ logEvents[i].kind = "end"
    BY <2>1, EndedMeans
  <2>3. Gone(t)
    BY <2>1, <2>2 DEF PastGone
  <2>. QED
    BY <2>3 DEF Gone, Quiet, Hidden, ClientInv, ShownOK
<1>. QED
  BY <1>1, LogInvariant, PTL
=============================================================================
