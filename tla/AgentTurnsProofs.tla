-------------------------- MODULE AgentTurnsProofs --------------------------
(***************************************************************************)
(* Proofs about AgentTurns for every number of turns, slots, processes and *)
(* agents.  QuietTo and RowsMove say what a step does to the rows; every   *)
(* action is shown to do only that, and the invariant and the refinement   *)
(* of Floor follow from it.                                                *)
(***************************************************************************)
EXTENDS AgentTurns, TurnRowsProofs

-----------------------------------------------------------------------------
(* Steps that start no turn and hand none back, and let a waiting row alone*)
(* that a claim has locked.                                                *)

Waits(t, r) == Locked(t) /\ r[t].status = "queued"

QuietTo(r, r1) ==
  /\ r1 \in [Turns -> Row]
  /\ \A t \in Turns : Quiet(r[t], r1[t])
  /\ \A t \in Turns : Waits(t, r) => Waits(t, r1)
  /\ KeysOK(r1)

(* Leaving every row alone starts nothing and ends nothing that waits. *)
LEMMA QuietSame ==
  ASSUME NEW r \in [Turns -> Row], KeysOK(r)
  PROVE  QuietTo(r, r)
BY DEF QuietTo, Quiet, Keeps

(* A quiet rewrite stays quiet when one queued row is inserted after it. *)
LEMMA QuietInsert ==
  ASSUME NEW r \in [Turns -> Row], NEW r0, QuietTo(r, r0), Used(r0) # Turns,
         NEW x \in Row, x.status = "queued", x.lease = "none", x.attempt = 0,
         x.key = OwnKey(r0) \/ x.key[1] # "own"
  PROVE  QuietTo(r, Insert(r0, x))
<1>1. r0 \in [Turns -> Row] /\ KeysOK(r0)
  BY DEF QuietTo
<1>2. Insert(r0, x) \in [Turns -> Row] /\ KeysOK(Insert(r0, x))
  BY <1>1, InsertType, KeysInsert
<1>3. \A t \in Turns : Keeps(r0[t], Insert(r0, x)[t]) \/ Adds(r0[t], Insert(r0, x)[t])
  BY <1>1, InsertIs
<1>4. \A t \in Turns : Quiet(r[t], Insert(r0, x)[t])
  <2>. SUFFICES ASSUME NEW t \in Turns PROVE Quiet(r[t], Insert(r0, x)[t])
    OBVIOUS
  <2>1. r[t] \in Row /\ r0[t] \in Row /\ Insert(r0, x)[t] \in Row /\ Quiet(r[t], r0[t])
    BY <1>1, <1>2 DEF QuietTo
  <2>. QED
    BY <1>3, <2>1, QuietTwice
<1>5. \A t \in Turns : Waits(t, r) => Waits(t, Insert(r0, x))
  BY <1>3 DEF QuietTo, Waits, Keeps, Adds
<1>. QED
  BY <1>2, <1>4, <1>5 DEF QuietTo

(* One row of r0 is written again, without a start.                        *)
LEMMA QuietPoint ==
  ASSUME NEW r \in [Turns -> Row], NEW r0, QuietTo(r, r0),
         NEW u \in Turns, r[u].status # "absent", ~Waits(u, r),
         NEW y \in Row, Keeps(r0[u], y) \/ Ends(r0[u], y)
  PROVE  QuietTo(r, [r0 EXCEPT ![u] = y])
<1>. DEFINE s == [r0 EXCEPT ![u] = y]
<1>1. r0 \in [Turns -> Row] /\ KeysOK(r0) /\ s \in [Turns -> Row]
  BY DEF QuietTo
<1>2. s[u] = y /\ \A t \in Turns \ {u} : s[t] = r0[t]
  BY <1>1
<1>3. KeysOK(s)
  <2>1. \A t \in Turns : s[t].status # "absent"
                         => s[t].key = r0[t].key /\ r0[t].status # "absent"
    BY <1>2 DEF Keeps, Ends
  <2>. QED
    BY <1>1, <2>1, KeysKept
<1>4. Quiet(r[u], y)
  <2>1. r[u] \in Row /\ r0[u] \in Row /\ Quiet(r[u], r0[u])
    BY <1>1 DEF QuietTo
  <2>. QED
    BY <2>1 DEF Quiet, Keeps, Adds, Ends, Lapses, Over
<1>5. \A t \in Turns : Quiet(r[t], s[t])
  BY <1>2, <1>4 DEF QuietTo
<1>6. \A t \in Turns : Waits(t, r) => Waits(t, s)
  BY <1>2 DEF QuietTo, Waits
<1>. QED
  BY <1>1, <1>3, <1>5, <1>6 DEF QuietTo

(* A cancellation of unlocked open rows is quiet and frees no row. *)
LEMMA CancelRowsIs ==
  ASSUME NEW r \in [Turns -> Row], KeysOK(r), NEW hit \in SUBSET With(r, Open),
         NEW o \in Outcomes, NoLock(hit)
  PROVE  /\ QuietTo(r, CancelRows(r, hit, o))
         /\ Used(CancelRows(r, hit, o)) = Used(r)
<1>. DEFINE s == CancelRows(r, hit, o)
<1>1. \A t \in Turns : s[t] = IF t \in hit THEN Ended(r[t], "cancelled", o) ELSE r[t]
  BY DEF CancelRows
<1>2. \A t \in hit : t \in Turns /\ r[t].status \in Open
  BY DEF With
<1>3. \A t \in hit : Ended(r[t], "cancelled", o) \in Row /\ Ends(r[t], Ended(r[t], "cancelled", o))
  BY <1>2, EndedIs DEF Open, Over
<1>4. s \in [Turns -> Row]
  BY <1>3 DEF CancelRows
<1>5. \A t \in Turns : Keeps(r[t], s[t]) \/ Ends(r[t], s[t])
  BY <1>1, <1>3 DEF Keeps
<1>6. KeysOK(s)
  <2>1. \A t \in Turns : s[t].status # "absent"
                         => s[t].key = r[t].key /\ r[t].status # "absent"
    BY <1>5 DEF Keeps, Ends
  <2>. QED
    BY <1>4, <2>1, KeysKept
<1>7. Used(s) = Used(r)
  BY <1>5 DEF Used, Keeps, Ends, Over
<1>8. \A t \in Turns : Waits(t, r) => Waits(t, s)
  BY <1>1 DEF Waits, NoLock
<1>. QED
  BY <1>4, <1>5, <1>6, <1>7, <1>8 DEF QuietTo, Quiet

(* The row execute_turn writes from a stale or a reloaded copy: it is kept,*)
(* or it is over.                                                          *)
LEMMA WrittenRowIs ==
  ASSUME NEW s \in Slot, NEW x \in Row, x.status # "absent", NEW n \in Nat
  PROVE  /\ WrittenRow(s, x, n) \in Row
         /\ Keeps(x, WrittenRow(s, x, n)) \/ Ends(x, WrittenRow(s, x, n))
<1>1. {"done", "failed"} \subseteq Statuses /\ "none" \in Leases /\ "" \in Outcomes
  BY DEF Statuses, Leases, Outcomes
<1>2. WrittenRow(s, x, n) \in Row
  BY <1>1 DEF WrittenRow, Row, Columns
<1>. QED
  BY <1>2 DEF WrittenRow, Row, Columns, Keeps, Ends, Over

-----------------------------------------------------------------------------
(* The inductive invariant.                                                *)

RowsOK == \A t \in Turns : RowOK(turn[t], starts[t], released[t])

SingleRunning == \A t, u \in Running(turn) : t = u

(* A coroutine that has a turn has a used one, a locked turn still waits,  *)
(* and no two coroutines lock the same one.                                *)
SlotOK(s, r) ==
  /\ s.pc \notin {"idle", "draining"} => s.turn \in Turns /\ r[s.turn].status # "absent"
  /\ s.pc = "locked" => r[s.turn].status = "queued"
  /\ s.pc \in {"locked", "streaming", "ended", "recorded"} => s.left # 0

SlotsOK ==
  /\ \A w \in Slots : SlotOK(slot[w], turn)
  /\ \A v, w \in Slots :
       slot[v].pc = "locked" /\ slot[w].pc = "locked" /\ slot[v].turn = slot[w].turn
         => v = w

(* The bound keeps a row for the answer of every open ask.                 *)
RoomKept == Cardinality(Used(turn)) + Cardinality(OpenAsks(ask)) <= MaxTurns

IInv == TypeOK /\ RowsOK /\ SingleRunning /\ KeysOK(turn) /\ SlotsOK /\ RoomKept

(* What every step does to the rows: each row takes one of the listed      *)
(* moves, and a step that starts a turn finds the floor free and starts    *)
(* only that one.                                                          *)
StartsOne ==
  \/ \A t \in Turns : turn'[t].status = "running" => turn[t].status = "running"
  \/ /\ FloorFree
     /\ \E t \in Turns : \A u \in Turns \ {t} : turn'[u].status # "running"

RowsMove ==
  /\ turn' \in [Turns -> Row]
  /\ starts' \in [Turns -> Nat] /\ released' \in [Turns -> Nat]
  /\ \A t \in Turns : RowStep(turn[t], turn'[t], starts[t], starts'[t],
                              released[t], released'[t])
  /\ StartsOne
  /\ \A t \in Turns : Locked(t) => turn'[t].status = "queued" \/ starts'[t] # starts[t]
  /\ KeysOK(turn')

(* A row held under a claim's lock is a queued row. *)
LEMMA LockedWaits ==
  ASSUME IInv, NEW t, Locked(t)
  PROVE  t \in Turns /\ Waits(t, turn)
BY DEF IInv, SlotsOK, SlotOK, Locked, Waits

(* A quiet rewrite of the rows is a move of the rows. *)
LEMMA QuietMoves ==
  ASSUME IInv, QuietTo(turn, turn'), UNCHANGED history
  PROVE  RowsMove
<1>1. \A t \in Turns : turn'[t].status = "running" => turn[t].status = "running"
  BY DEF QuietTo, Quiet, Keeps, Adds, Ends, Lapses, Over
<1>2. \A t \in Turns : Locked(t) => turn'[t].status = "queued"
  BY LockedWaits DEF QuietTo, Waits
<1>. QED
  BY <1>1, <1>2 DEF QuietTo, RowsMove, RowStep, StartsOne, history, IInv, TypeOK

(* A step that leaves the rows alone is a move of the rows. *)
LEMMA SameMoves ==
  ASSUME IInv, UNCHANGED <<turn, starts, released>>
  PROVE  RowsMove
BY QuietMoves, QuietSame DEF IInv, TypeOK, history

-----------------------------------------------------------------------------
(* Room for rows.                                                          *)

(* The used rows and the open asks are finitely many. *)
LEMMA Counts ==
  ASSUME NEW r \in [Turns -> Row], NEW q
  PROVE  /\ IsFiniteSet(Used(r)) /\ Cardinality(Used(r)) \in Nat
         /\ IsFiniteSet(OpenAsks(q)) /\ Cardinality(OpenAsks(q)) \in Nat
         /\ MaxTurns \in Nat
<1>1. IsFiniteSet(AskIds) /\ OpenAsks(q) \subseteq AskIds
  BY FS_Interval, RowConstants DEF AskIds, OpenAsks
<1>2. IsFiniteSet(OpenAsks(q))
  BY <1>1, FS_Subset
<1>. QED
  BY <1>2, FS_CardinalityType, InsertUses, NoRowType, RowConstants

(* n rows are added, and no ask is opened.                                 *)
LEMMA RoomStep ==
  ASSUME IInv, NEW n \in Nat,
         Cardinality(Used(turn)) + Cardinality(OpenAsks(ask)) + n <= MaxTurns,
         turn' \in [Turns -> Row],
         Cardinality(Used(turn')) <= Cardinality(Used(turn)) + n,
         OpenAsks(ask') \subseteq OpenAsks(ask)
  PROVE  RoomKept'
<1>1. turn \in [Turns -> Row]
  BY DEF IInv, TypeOK
<1>2. Cardinality(OpenAsks(ask')) <= Cardinality(OpenAsks(ask))
  BY <1>1, Counts, FS_Subset
<1>3. /\ Cardinality(Used(turn)) \in Nat /\ Cardinality(OpenAsks(ask)) \in Nat
      /\ MaxTurns \in Nat
  BY <1>1, Counts
<1>4. Cardinality(Used(turn')) \in Nat /\ Cardinality(OpenAsks(ask')) \in Nat
  BY Counts
<1>5. Cardinality(Used(turn')) + Cardinality(OpenAsks(ask')) <= MaxTurns
  BY <1>2, <1>3, <1>4
<1>. QED
  BY <1>5 DEF RoomKept

(* A step that inserts no row and opens no ask keeps the room for answers. *)
LEMMA RoomSame ==
  ASSUME IInv, turn' \in [Turns -> Row], Used(turn') = Used(turn),
         OpenAsks(ask') \subseteq OpenAsks(ask)
  PROVE  RoomKept'
<1>1. turn \in [Turns -> Row]
  BY DEF IInv, TypeOK
<1>2. Cardinality(Used(turn)) \in Nat /\ Cardinality(OpenAsks(ask)) \in Nat /\ MaxTurns \in Nat
  BY <1>1, Counts
<1>3. Cardinality(Used(turn)) + Cardinality(OpenAsks(ask)) + 0 <= MaxTurns
  BY <1>2 DEF IInv, RoomKept
<1>4. Cardinality(Used(turn')) <= Cardinality(Used(turn)) + 0
  BY <1>2
<1>. QED
  BY <1>3, <1>4, RoomStep

(* While the bound leaves room, the next row is free.                      *)
LEMMA RoomLeft ==
  ASSUME IInv, NEW n \in Nat \ {0},
         Cardinality(Used(turn)) + Cardinality(OpenAsks(ask)) + n <= MaxTurns
  PROVE  /\ Cardinality(Used(turn)) \in Nat
         /\ Cardinality(Used(turn)) + n <= MaxTurns
         /\ Used(turn) # Turns
<1>1. /\ Cardinality(Used(turn)) \in Nat /\ Cardinality(OpenAsks(ask)) \in Nat
      /\ MaxTurns \in Nat
  BY Counts DEF IInv, TypeOK
<1>2. Cardinality(Used(turn)) + n <= MaxTurns /\ Cardinality(Used(turn)) < MaxTurns
  BY <1>1
<1>. QED
  BY <1>1, <1>2, RowsLeft

(* Room for an insert means a free row once every open ask has its answer. *)
LEMMA RoomOne ==
  ASSUME IInv, Room(turn, ask)
  PROVE  /\ Cardinality(Used(turn)) + Cardinality(OpenAsks(ask)) + 1 <= MaxTurns
         /\ Used(turn) # Turns
<1>1. /\ Cardinality(Used(turn)) \in Nat /\ Cardinality(OpenAsks(ask)) \in Nat
      /\ MaxTurns \in Nat
  BY Counts DEF IInv, TypeOK
<1>2. Cardinality(Used(turn)) + Cardinality(OpenAsks(ask)) + 1 <= MaxTurns
  BY <1>1 DEF Room
<1>. QED
  BY <1>2, RoomLeft

(* One INSERT into the rows, in the room that is left, and no ask opened.  *)
LEMMA RoomInsert ==
  ASSUME IInv, Room(turn, ask),
         NEW r \in [Turns -> Row], Used(r) = Used(turn), NEW x \in Row,
         turn' = Insert(r, x), OpenAsks(ask') \subseteq OpenAsks(ask)
  PROVE  RoomKept'
<1>1. Cardinality(Used(turn')) <= Cardinality(Used(turn)) + 1
  BY InsertUses
<1>2. turn' \in [Turns -> Row]
  BY InsertType
<1>. QED
  BY <1>1, <1>2, RoomOne, RoomStep

(* A cancellation closes asks and opens none. *)
LEMMA CancelAsksIs ==
  ASSUME NEW q, NEW r, NEW hit
  PROVE  OpenAsks(CancelAsks(q, r, hit)) \subseteq OpenAsks(q)
BY DEF OpenAsks, CancelAsks

-----------------------------------------------------------------------------
(* Requests.                                                               *)

Moves == RowsMove /\ RoomKept'

(* The idempotency keys the handlers build are keys, none of them a turn's own. *)
LEMMA KeyKindsIn ==
  ASSUME NEW n \in Nat, NEW a \in Agents \cup {Nobody}
  PROVE  /\ {<<"msg", n, a>>, <<"voice", n, a>>, <<"ask", n, a>>,
             <<"answer", n, a>>, <<"recover", n, a>>, <<"own", n, a>>} \subseteq Keys
         /\ <<"msg", n, a>>[1] # "own" /\ <<"voice", n, a>>[1] # "own"
         /\ <<"ask", n, a>>[1] # "own" /\ <<"answer", n, a>>[1] # "own"
         /\ <<"recover", n, a>>[1] # "own"
BY DEF Keys, KeyKinds

(* The counters and the identifiers are natural numbers. *)
LEMMA NatTypes ==
  ASSUME IInv
  PROVE  /\ latest \in Nat /\ minute \in Nat /\ Turns \subseteq Nat /\ AskIds \subseteq Nat
         /\ MaxMessages \in Nat /\ latest \in Episodes
<1>1. MaxMessages \in Nat /\ MaxMinutes \in Nat
  BY RowConstants
<1>2. latest \in Episodes /\ minute \in 0..MaxMinutes
  BY DEF IInv, TypeOK
<1>3. Turns \subseteq Nat /\ AskIds \subseteq Nat
  BY DEF Turns, AskIds
<1>. QED
  BY <1>1, <1>2, <1>3 DEF Episodes

(* Open rows are cancelled, the asks they carried with them.               *)
LEMMA CancelMoves ==
  ASSUME IInv, NEW hit \in SUBSET With(turn, Open), NEW o \in Outcomes,
         turn' = CancelRows(turn, hit, o), ask' = CancelAsks(ask, turn, hit),
         UNCHANGED history, NoLock(hit)
  PROVE  Moves
<1>1. QuietTo(turn, turn') /\ Used(turn') = Used(turn)
  BY CancelRowsIs DEF IInv, TypeOK
<1>2. RowsMove
  BY <1>1, QuietMoves
<1>3. turn' \in [Turns -> Row] /\ OpenAsks(ask') \subseteq OpenAsks(ask)
  BY <1>1, CancelAsksIs DEF QuietTo
<1>. QED
  BY <1>1, <1>2, <1>3, RoomSame DEF Moves

(* A queued row is an open row. *)
LEMMA QueuedOpen == Queued(turn) \subseteq With(turn, Open)
BY DEF Queued, With, Open

(* A human message at the room's own ask moves rows as Moves allows. *)
LEMMA PostAskMoves ==
  ASSUME IInv, PostAsk
  PROVE  Moves
<1>1. "superseded" \in Outcomes
  BY DEF Outcomes
<1>. QED
  BY <1>1, CancelMoves, QueuedOpen DEF PostAsk

(* The stop endpoint moves rows as Moves allows. *)
LEMMA StopMoves ==
  ASSUME IInv, Stop
  PROVE  Moves
<1>1. "stopped" \in Outcomes
  BY DEF Outcomes
<1>. QED
  BY <1>1, CancelMoves DEF Stop

(* A new human turn of agent a with key k for message m.                   *)
LEMMA HumanTurn ==
  ASSUME NEW a \in Agents, NEW m \in Episodes, NEW k \in Keys
  PROVE  LET x == NewTurn(a, "human", Nobody, 0, m, k)
         IN  /\ x \in Row /\ x.key = k
             /\ x.status = "queued" /\ x.lease = "none" /\ x.attempt = 0
<1>1. "human" \in Causes
  BY DEF Causes
<1>2. NewTurn(a, "human", Nobody, 0, m, k) \in Row
  BY <1>1, NewTurnType
<1>. QED
  BY <1>2, NewTurnFields

(* The next message is one of the episodes while messages last. *)
LEMMA MessageEpisode ==
  ASSUME IInv, latest + 1 <= MaxMessages
  PROVE  latest + 1 \in Episodes
BY NatTypes DEF Episodes

(* A spoken message moves rows as Moves allows. *)
LEMMA PostIntercomMoves ==
  ASSUME IInv, NEW a \in Agents, PostIntercom(a)
  PROVE  Moves
<1>. DEFINE m == latest + 1
            hit == With(turn, Open)
            r0 == CancelRows(turn, hit, "superseded")
            x == NewTurn(a, "human", Nobody, 0, m, <<"voice", m, a>>)
<1>1. /\ turn' = Insert(r0, x) /\ ask' = CancelAsks(ask, turn, hit)
      /\ UNCHANGED history /\ Room(turn, ask) /\ m <= MaxMessages /\ NoLock(hit)
  BY DEF PostIntercom
<1>2. QuietTo(turn, r0) /\ Used(r0) = Used(turn)
  BY <1>1, CancelRowsIs DEF IInv, TypeOK, Outcomes
<1>3. m \in Episodes /\ <<"voice", m, a>> \in Keys /\ <<"voice", m, a>>[1] # "own"
  <2>1. m \in Episodes /\ m \in Nat
    BY <1>1, MessageEpisode, NatTypes
  <2>. QED
    BY <2>1, KeyKindsIn
<1>4. /\ x \in Row /\ x.key = <<"voice", m, a>>
      /\ x.status = "queued" /\ x.lease = "none" /\ x.attempt = 0
  BY <1>3, HumanTurn
<1>. HIDE DEF m, hit, r0, x
<1>5. QuietTo(turn, turn')
  BY <1>1, <1>2, <1>3, <1>4, RoomOne, QuietInsert DEF IInv, TypeOK
<1>6. RowsMove
  BY <1>1, <1>5, QuietMoves
<1>7. RoomKept'
  BY <1>1, <1>2, <1>4, RoomInsert, CancelAsksIs DEF QuietTo
<1>. QED
  BY <1>6, <1>7 DEF Moves

(* A row is queued for a request that opens no ask.                        *)
LEMMA QueueMoves ==
  ASSUME IInv, Room(turn, ask), NEW x \in Row,
         x.status = "queued", x.lease = "none", x.attempt = 0,
         x.key = OwnKey(turn) \/ x.key[1] # "own",
         turn' = Insert(turn, x), UNCHANGED history,
         OpenAsks(ask') \subseteq OpenAsks(ask)
  PROVE  Moves
<1>1. QuietTo(turn, turn) /\ turn \in [Turns -> Row]
  BY QuietSame DEF IInv, TypeOK
<1>2. QuietTo(turn, turn')
  BY <1>1, RoomOne, QuietInsert
<1>3. RowsMove
  BY <1>2, QuietMoves
<1>4. RoomKept'
  BY <1>1, RoomInsert
<1>. QED
  BY <1>3, <1>4 DEF Moves

(* Waking an agent for a message moves rows as Moves allows. *)
LEMMA WakeForMoves ==
  ASSUME IInv, NEW m, NEW a \in Agents, WakeFor(m, a)
  PROVE  Moves
<1>1. m \in 1..latest /\ m \in Episodes /\ m \in Nat
  BY NatTypes DEF WakeFor, Episodes
<1>2. <<"msg", m, a>> \in Keys /\ <<"msg", m, a>>[1] # "own"
  BY <1>1, KeyKindsIn
<1>. QED
  BY <1>1, <1>2, HumanTurn, QueueMoves DEF WakeFor

(* A turn inserted without a caller's key gets one of the keys. *)
LEMMA OwnKeyType ==
  ASSUME IInv, Used(turn) # Turns
  PROVE  OwnKey(turn) \in Keys
<1>1. NextTurn(turn) \in Nat
  BY NextTurnFree, NatTypes
<1>. QED
  BY <1>1, KeyKindsIn DEF OwnKey

(* A wake by the system moves rows as Moves allows. *)
LEMMA WakeBySystemMoves ==
  ASSUME IInv, NEW a \in Agents, WakeBySystem(a)
  PROVE  Moves
<1>. DEFINE x == NewTurn(a, "system", Nobody, 0, latest, OwnKey(turn))
<1>1. /\ turn' = Insert(turn, x) /\ UNCHANGED history /\ Room(turn, ask) /\ ask' = ask
  BY DEF WakeBySystem
<1>2. OwnKey(turn) \in Keys /\ latest \in Episodes /\ "system" \in Causes
  BY <1>1, RoomOne, OwnKeyType, NatTypes DEF Causes
<1>3. x \in Row
  BY <1>2, NewTurnType
<1>4. x.key = OwnKey(turn) /\ x.status = "queued" /\ x.lease = "none" /\ x.attempt = 0
  BY NewTurnFields
<1>. HIDE DEF x
<1>. QED
  BY <1>1, <1>3, <1>4, QueueMoves

(* The rows of a message addressed to one agent, or to two in order.       *)
LEMMA PostMessageMoves ==
  ASSUME IInv, NEW a \in Agents, NEW b \in Agents, NEW to,
         to = <<a>> \/ to = <<a, b>>, PostMessage(to)
  PROVE  Moves
<1>. DEFINE m == latest + 1
            hit == {t \in Queued(turn) : turn[t].episode # m}
            r0 == CancelRows(turn, hit, "superseded")
            new(c) == NewTurn(c, "human", Nobody, 0, m, <<"msg", m, c>>)
            r1 == Insert(r0, new(a))
            n == Len(to)
<1>1. /\ turn' = IF n = 1 THEN r1 ELSE Insert(r1, new(b))
      /\ ask' = CancelAsks(ask, turn, hit) /\ UNCHANGED history
      /\ n = 1 \/ n = 2
      /\ Cardinality(Used(turn)) + Cardinality(OpenAsks(ask)) + n <= MaxTurns
      /\ m <= MaxMessages /\ NoLock(hit)
  BY DEF PostMessage
<1>2. QuietTo(turn, r0) /\ Used(r0) = Used(turn)
  <2>1. hit \in SUBSET With(turn, Open) /\ "superseded" \in Outcomes
    BY QueuedOpen DEF Outcomes
  <2>. QED
    BY <1>1, <2>1, CancelRowsIs DEF IInv, TypeOK
<1>3. \A c \in Agents :
        /\ new(c) \in Row /\ new(c).key[1] # "own"
        /\ new(c).status = "queued" /\ new(c).lease = "none" /\ new(c).attempt = 0
  <2>1. m \in Episodes /\ m \in Nat
    BY <1>1, MessageEpisode, NatTypes
  <2>. SUFFICES ASSUME NEW c \in Agents
                PROVE  /\ new(c) \in Row /\ new(c).key[1] # "own"
                       /\ new(c).status = "queued" /\ new(c).lease = "none"
                       /\ new(c).attempt = 0
    OBVIOUS
  <2>2. <<"msg", m, c>> \in Keys /\ <<"msg", m, c>>[1] # "own"
    BY <2>1, KeyKindsIn
  <2>. QED
    BY <2>1, <2>2, HumanTurn
<1>. HIDE DEF m, hit, r0, new, n
<1>4. turn \in [Turns -> Row] /\ r0 \in [Turns -> Row] /\ r1 \in [Turns -> Row]
  BY <1>2, <1>3, InsertType DEF QuietTo, IInv, TypeOK
<1>5. n \in Nat \ {0} /\ Cardinality(Used(turn)) + n <= MaxTurns /\ Used(turn) # Turns
  BY <1>1, RoomLeft
<1>6. QuietTo(turn, r1) /\ Cardinality(Used(r1)) <= Cardinality(Used(turn)) + 1
  <2>1. QuietTo(turn, r1)
    BY <1>2, <1>3, <1>4, <1>5, QuietInsert
  <2>. QED
    BY <1>2, <1>3, <1>4, <2>1, InsertUses
<1>7. QuietTo(turn, turn') /\ Cardinality(Used(turn')) <= Cardinality(Used(turn)) + n
  <2>1. CASE n = 1
    BY <1>1, <1>6, <2>1
  <2>2. CASE n = 2
    <3>1. turn' = Insert(r1, new(b))
      BY <1>1, <2>2
    <3>2. /\ Cardinality(Used(r1)) \in Nat /\ Cardinality(Used(turn)) \in Nat
          /\ MaxTurns \in Nat
      BY <1>4, Counts
    <3>3. Cardinality(Used(r1)) < MaxTurns
      BY <1>5, <1>6, <2>2, <3>2
    <3>4. Used(r1) # Turns
      BY <3>3, RowsLeft
    <3>5. QuietTo(turn, turn')
      BY <1>3, <1>4, <1>6, <3>1, <3>4, QuietInsert
    <3>6. /\ Cardinality(Used(turn')) <= Cardinality(Used(r1)) + 1
          /\ Cardinality(Used(turn')) \in Nat
      BY <1>3, <1>4, <3>1, <3>5, InsertUses, Counts DEF QuietTo
    <3>7. Cardinality(Used(turn')) <= Cardinality(Used(turn)) + 2
      BY <1>6, <3>2, <3>6
    <3>. QED
      BY <2>2, <3>5, <3>7
  <2>. QED
    BY <1>1, <2>1, <2>2
<1>8. RowsMove
  BY <1>1, <1>7, QuietMoves
<1>9. OpenAsks(ask') \subseteq OpenAsks(ask)
  BY <1>1, CancelAsksIs
<1>10. RoomKept'
  BY <1>1, <1>5, <1>7, <1>9, RoomStep DEF QuietTo
<1>. QED
  BY <1>8, <1>10 DEF Moves
-----------------------------------------------------------------------------
(* A slot drains the queue.                                                *)

(* The turn of a coroutine that has one.                                   *)
LEMMA SlotTurn ==
  ASSUME IInv, NEW w \in Slots, slot[w].pc \notin {"idle", "draining"}
  PROVE  /\ slot[w].turn \in Turns /\ turn[slot[w].turn].status # "absent"
         /\ turn[slot[w].turn] \in Row /\ slot[w] \in Slot
BY DEF IInv, TypeOK, SlotsOK, SlotOK

(* One row is written again, without a start.                              *)
LEMMA WriteMoves ==
  ASSUME IInv, NEW t \in Turns, turn[t].status # "absent", NEW y \in Row,
         turn[t].status = "running" \/ ~Locked(t), Keeps(turn[t], y) \/ Ends(turn[t], y),
         turn' = [turn EXCEPT ![t] = y], UNCHANGED history,
         OpenAsks(ask') \subseteq OpenAsks(ask)
  PROVE  Moves
<1>1. QuietTo(turn, turn) /\ turn \in [Turns -> Row]
  BY QuietSame DEF IInv, TypeOK
<1>2. QuietTo(turn, turn')
  BY <1>1, QuietPoint DEF Waits
<1>3. Used(turn') = Used(turn)
  BY <1>1 DEF Used, Keeps, Ends, Over
<1>4. turn' \in [Turns -> Row] /\ RowsMove
  BY <1>2, QuietMoves DEF QuietTo
<1>. QED
  BY <1>3, <1>4, RoomSame DEF Moves

(* A queued turn is started on a free floor.                               *)
LEMMA StartMoves ==
  ASSUME IInv, FloorFree, NEW t \in Turns, turn[t].status = "queued", NEW y \in Row,
         Begins(turn[t], y) \/ Refuses(turn[t], y), y.key = turn[t].key,
         turn' = [turn EXCEPT ![t] = y],
         starts' = [starts EXCEPT ![t] = @ + 1], UNCHANGED <<ask, released>>
  PROVE  Moves
<1>1. /\ turn \in [Turns -> Row] /\ starts \in [Turns -> Nat]
      /\ released \in [Turns -> Nat] /\ KeysOK(turn)
  BY DEF IInv, TypeOK
<1>2. turn' \in [Turns -> Row] /\ turn'[t] = y /\ \A u \in Turns \ {t} : turn'[u] = turn[u]
  BY <1>1
<1>3. y.status # "absent"
  BY DEF Begins, Refuses
<1>4. KeysOK(turn')
  <2>1. \A u \in Turns : turn'[u].status # "absent"
                         => turn'[u].key = turn[u].key /\ turn[u].status # "absent"
    BY <1>2
  <2>. QED
    BY <1>1, <1>2, <2>1, KeysKept
<1>5. Used(turn') = Used(turn)
  BY <1>2, <1>3 DEF Used
<1>6. StartsOne
  BY <1>2 DEF StartsOne, FloorFree, Running, With
<1>7. \A u \in Turns : RowStep(turn[u], turn'[u], starts[u], starts'[u], released[u], released'[u])
  <2>. SUFFICES ASSUME NEW u \in Turns
                PROVE  RowStep(turn[u], turn'[u], starts[u], starts'[u], released[u], released'[u])
    OBVIOUS
  <2>1. CASE u = t
    BY <1>1, <1>2, <2>1 DEF RowStep
  <2>2. CASE u # t
    BY <1>1, <1>2, <2>2 DEF RowStep, Quiet, Keeps
  <2>. QED
    BY <2>1, <2>2
<1>8. \A u \in Turns : Locked(u) => turn'[u].status = "queued" \/ starts'[u] # starts[u]
  BY <1>1, <1>2, LockedWaits DEF Waits
<1>9. RowsMove
  <2>1. starts' \in [Turns -> Nat] /\ released' \in [Turns -> Nat]
    BY <1>1
  <2>. QED
    BY <1>2, <1>4, <1>6, <1>7, <1>8, <2>1 DEF RowsMove
<1>. QED
  BY <1>2, <1>5, <1>9, RoomSame DEF Moves

(* A committed claim moves rows as Moves allows. *)
LEMMA ClaimCommitMoves ==
  ASSUME IInv, NEW w \in Slots, ClaimCommit(w)
  PROVE  Moves
<1>. DEFINE t == slot[w].turn
            y == Claimed(turn[t])
<1>1. slot[w].pc = "locked" /\ FloorFree
  BY DEF ClaimCommit, OneRunningIndex
<1>2. t \in Turns /\ turn[t] \in Row /\ turn[t].status = "queued"
  BY <1>1, SlotTurn DEF IInv, SlotsOK, SlotOK
<1>3. y \in Row /\ Begins(turn[t], y) /\ y.key = turn[t].key
  BY <1>2, ClaimedIs
<1>4. /\ turn' = [turn EXCEPT ![t] = y]
      /\ starts' = [starts EXCEPT ![t] = @ + 1] /\ UNCHANGED <<ask, released>>
  BY DEF ClaimCommit
<1>. HIDE DEF y
<1>. QED
  BY <1>1, <1>2, <1>3, <1>4, StartMoves

(* A claim for an agent that is gone moves rows as Moves allows. *)
LEMMA ClaimForNobodyMoves ==
  ASSUME IInv, NEW w \in Slots, ClaimForNobody(w)
  PROVE  Moves
<1>. DEFINE t == slot[w].turn
            y == Ended(Claimed(turn[t]), "failed", "")
<1>1. slot[w].pc = "locked" /\ FloorFree
  BY DEF ClaimForNobody, OneRunningIndex
<1>2. t \in Turns /\ turn[t] \in Row /\ turn[t].status = "queued"
  BY <1>1, SlotTurn DEF IInv, SlotsOK, SlotOK
<1>3. Claimed(turn[t]) \in Row /\ "failed" \in Over /\ "" \in Outcomes
  BY <1>2, ClaimedIs DEF Over, Outcomes
<1>4. y \in Row /\ Ends(Claimed(turn[t]), y)
  BY <1>2, <1>3, EndedIs, ClaimedIs
<1>5. Refuses(turn[t], y) /\ y.key = turn[t].key
  BY <1>2, <1>4, ClaimedIs DEF Ends, Refuses, Ended
<1>6. /\ turn' = [turn EXCEPT ![t] = y]
      /\ starts' = [starts EXCEPT ![t] = @ + 1] /\ UNCHANGED <<ask, released>>
  BY DEF ClaimForNobody
<1>. HIDE DEF y
<1>. QED
  BY <1>1, <1>2, <1>4, <1>5, <1>6, StartMoves

(* A step that touches neither rows nor history moves rows as Moves allows. *)
LEMMA IInvSame ==
  ASSUME IInv, UNCHANGED <<turn, starts, released>>, OpenAsks(ask') \subseteq OpenAsks(ask)
  PROVE  Moves
<1>1. turn' \in [Turns -> Row] /\ Used(turn') = Used(turn)
  BY DEF IInv, TypeOK
<1>. QED
  BY <1>1, SameMoves, RoomSame DEF Moves

(* Failing a claimed turn moves rows as Moves allows. *)
LEMMA FailTurnMoves ==
  ASSUME IInv, NEW w \in Slots, FailTurn(w)
  PROVE  Moves
<1>. DEFINE t == slot[w].turn
            y == Ended(turn[t], "failed", "")
<1>1. /\ turn' = IF turn[t].status \in Open THEN [turn EXCEPT ![t] = y] ELSE turn
      /\ UNCHANGED history /\ ask' = ask /\ slot[w].pc \in {"streaming", "ended"}
      /\ ~Locked(t)
  BY DEF FailTurn
<1>2. t \in Turns /\ turn[t] \in Row /\ turn[t].status # "absent"
  BY <1>1, SlotTurn
<1>3. y \in Row /\ Ends(turn[t], y)
  BY <1>2, EndedIs DEF Over, Outcomes
<1>. HIDE DEF y
<1>4. CASE turn[t].status \in Open
  BY <1>1, <1>2, <1>3, <1>4, WriteMoves
<1>5. CASE turn[t].status \notin Open
  BY <1>1, <1>5, IInvSame DEF history
<1>. QED
  BY <1>4, <1>5

(* Renewing or losing a lease changes nothing else of its row. *)
LEMMA LeaseType ==
  ASSUME NEW x \in Row, x.lease # "none", NEW l \in {"live", "expired"}
  PROVE  [x EXCEPT !.lease = l] \in Row /\ Keeps(x, [x EXCEPT !.lease = l])
BY DEF Row, Columns, Leases, Keeps

(* A lease renewal moves rows as Moves allows. *)
LEMMA KeepLeaseMoves ==
  ASSUME IInv, NEW w \in Slots, KeepLease(w)
  PROVE  Moves
<1>. DEFINE t == slot[w].turn
<1>1. t \in Turns /\ turn[t] \in Row /\ turn[t].status # "absent"
  BY SlotTurn DEF KeepLease, Streaming
<1>2. turn' = [turn EXCEPT ![t] = [turn[t] EXCEPT !.lease = "live"]]
  BY DEF KeepLease
<1>3. /\ UNCHANGED history /\ ask' = ask /\ turn[t].lease # "none"
      /\ turn[t].status = "running"
  BY DEF KeepLease
<1>. QED
  BY <1>1, <1>2, <1>3, LeaseType, WriteMoves

(* The passing of a lease's time moves rows as Moves allows. *)
LEMMA ExpireLeaseMoves ==
  ASSUME IInv, NEW t \in Turns, ExpireLease(t)
  PROVE  Moves
<1>1. turn[t] \in Row /\ turn[t].status # "absent" /\ turn[t].lease # "none"
  BY DEF ExpireLease, IInv, TypeOK
<1>2. turn' = [turn EXCEPT ![t] = [turn[t] EXCEPT !.lease = "expired"]]
  BY DEF ExpireLease
<1>3. UNCHANGED history /\ ask' = ask /\ turn[t].status = "running"
  BY DEF ExpireLease
<1>. QED
  BY <1>1, <1>2, <1>3, LeaseType, WriteMoves
-----------------------------------------------------------------------------
(* Inline turns, the sweep and the hand-back.                              *)

(* The end of an inline turn moves rows as Moves allows. *)
LEMMA EndInlineMoves ==
  ASSUME IInv, NEW w \in Slots, EndInline(w)
  PROVE  Moves
<1>. DEFINE t == slot[w].turn
            y == Ended(turn[t], "done", "")
<1>1. /\ turn' = IF turn[t].status = "running" THEN [turn EXCEPT ![t] = y] ELSE turn
      /\ UNCHANGED history /\ ask' = ask /\ slot[w].pc = "inline"
  BY DEF EndInline
<1>2. t \in Turns /\ turn[t] \in Row /\ turn[t].status # "absent"
  BY <1>1, SlotTurn
<1>4. y \in Row /\ Ends(turn[t], y)
  BY <1>2, EndedIs DEF Over, Outcomes
<1>. HIDE DEF y
<1>5. CASE turn[t].status = "running"
  BY <1>1, <1>2, <1>4, <1>5, WriteMoves
<1>6. CASE turn[t].status # "running"
  BY <1>1, <1>6, IInvSame DEF history
<1>. QED
  BY <1>5, <1>6

(* An inline turn is inserted running: its key is its own row number, so it*)
(* is never a duplicate.                                                   *)
LEMMA BeginInlineMoves ==
  ASSUME IInv, NEW w \in Slots, NEW a \in Agents, BeginInline(w, a)
  PROVE  /\ Moves
         /\ NextTurn(turn) \in Turns /\ turn'[NextTurn(turn)].status = "running"
<1>. DEFINE t == NextTurn(turn)
            x == NewTurn(a, "inline", Nobody, 0, latest, OwnKey(turn))
            y == Claimed(x)
<1>1. /\ turn' = Insert(turn, y) /\ FloorFree /\ Room(turn, ask)
      /\ starts' = [starts EXCEPT ![t] = @ + 1] /\ UNCHANGED <<ask, released>>
  BY DEF BeginInline, OneRunningIndex
<1>2. /\ turn \in [Turns -> Row] /\ starts \in [Turns -> Nat]
      /\ released \in [Turns -> Nat] /\ KeysOK(turn)
  BY DEF IInv, TypeOK
<1>3. t \in Turns /\ turn[t].status = "absent" /\ turn[t].attempt = 0
  <2>1. t \in Turns /\ turn[t].status = "absent"
    BY <1>1, RoomOne, NextTurnFree DEF Used
  <2>. QED
    BY <2>1 DEF IInv, RowsOK, RowOK
<1>4. x \in Row /\ x.key = OwnKey(turn) /\ x.attempt = 0
  <2>1. OwnKey(turn) \in Keys /\ latest \in Episodes /\ "inline" \in Causes
    BY <1>1, RoomOne, OwnKeyType, NatTypes DEF Causes
  <2>2. x \in Row
    BY <2>1, NewTurnType
  <2>. QED
    BY <2>2, NewTurnFields
<1>5. /\ y \in Row /\ y.key = OwnKey(turn) /\ y.status = "running" /\ y.lease = "live"
      /\ y.attempt = 1
  BY <1>4, ClaimedIs
<1>6. ~HasKey(turn, OwnKey(turn))
  BY <1>2, <1>3 DEF HasKey, OwnKey, KeysOK, Used
<1>. HIDE DEF x, y
<1>7. turn' = [turn EXCEPT ![t] = y]
  BY <1>1, <1>5, <1>6 DEF Insert
<1>8. turn' \in [Turns -> Row] /\ turn'[t] = y /\ \A u \in Turns \ {t} : turn'[u] = turn[u]
  BY <1>2, <1>3, <1>5, <1>7
<1>9. KeysOK(turn')
  BY <1>1, <1>2, <1>5, RoomOne, KeysInsert
<1>10. StartsOne
  BY <1>1, <1>3, <1>8 DEF StartsOne, FloorFree, Running, With
<1>11. Begins(turn[t], y)
  BY <1>3, <1>5 DEF Begins
<1>12. \A u \in Turns : RowStep(turn[u], turn'[u], starts[u], starts'[u], released[u], released'[u])
  <2>. SUFFICES ASSUME NEW u \in Turns
                PROVE  RowStep(turn[u], turn'[u], starts[u], starts'[u], released[u], released'[u])
    OBVIOUS
  <2>1. CASE u = t
    BY <1>1, <1>2, <1>3, <1>8, <1>11, <2>1 DEF RowStep
  <2>2. CASE u # t
    BY <1>1, <1>2, <1>8, <2>2 DEF RowStep, Quiet, Keeps
  <2>. QED
    BY <2>1, <2>2
<1>13. RowsMove
  <2>1. starts' \in [Turns -> Nat] /\ released' \in [Turns -> Nat]
    BY <1>1, <1>2, <1>3
  <2>2. \A u \in Turns : Locked(u) => turn'[u].status = "queued"
    BY <1>3, <1>8, LockedWaits DEF Waits
  <2>. QED
    BY <1>8, <1>9, <1>10, <1>12, <2>1, <2>2 DEF RowsMove
<1>14. RoomKept'
  BY <1>1, <1>2, <1>5, RoomInsert
<1>. QED
  BY <1>3, <1>5, <1>8, <1>13, <1>14 DEF Moves

(* A step that rewrites rows and adds none.                                *)
LEMMA RewriteMoves ==
  ASSUME IInv, NEW r \in [Turns -> Row], turn' = r,
         \A t \in Turns : Keeps(turn[t], r[t]) \/ Ends(turn[t], r[t]) \/ Lapses(turn[t], r[t]),
         \A t \in Turns : Waits(t, turn) => Waits(t, r),
         UNCHANGED history, OpenAsks(ask') \subseteq OpenAsks(ask)
  PROVE  Moves
<1>1. turn \in [Turns -> Row] /\ KeysOK(turn)
  BY DEF IInv, TypeOK
<1>2. \A t \in Turns : r[t].status # "absent"
                       => r[t].key = turn[t].key /\ turn[t].status # "absent"
  BY DEF Keeps, Ends, Lapses
<1>3. KeysOK(r)
  BY <1>1, <1>2, KeysKept
<1>4. Used(r) = Used(turn)
  BY DEF Used, Keeps, Ends, Lapses, Over
<1>5. QuietTo(turn, turn')
  BY <1>3 DEF QuietTo, Quiet
<1>. QED
  BY <1>4, <1>5, QuietMoves, RoomSame DEF Moves

(* The sweep requeues a running row or ends it. *)
LEMMA SweptRowIs ==
  ASSUME NEW x \in Row, x.status = "running"
  PROVE  SweptRow(x) \in Row /\ (Lapses(x, SweptRow(x)) \/ Ends(x, SweptRow(x)))
<1>1. x.attempt \in Nat /\ "failed" \in Over /\ "" \in Outcomes
  BY DEF Row, Columns, Over, Outcomes
<1>2. /\ Ended(x, "failed", "") \in Row /\ Ends(x, Ended(x, "failed", ""))
  BY <1>1, EndedIs
<1>3. Requeued(x, x.attempt) \in Row
      /\ (x.attempt < MaxAttempts => Lapses(x, Requeued(x, x.attempt)))
  BY <1>1, RequeuedIs DEF Lapses
<1>. QED
  BY <1>2, <1>3 DEF SweptRow

(* The sweep moves rows as Moves allows. *)
LEMMA SweepMoves ==
  ASSUME IInv, Sweep
  PROVE  Moves
<1>. DEFINE r == [t \in Turns |-> IF t \in Stale THEN Ended(Swept[t], "cancelled", "stale")
                                 ELSE Swept[t]]
<1>1. turn' = r /\ UNCHANGED history /\ ask' = ask /\ NoLock(Stale)
  BY DEF Sweep
<1>2. turn \in [Turns -> Row]
  BY DEF IInv, TypeOK
<1>3. ASSUME NEW t \in Turns
      PROVE  /\ Swept[t] \in Row
             /\ Keeps(turn[t], Swept[t]) \/ Lapses(turn[t], Swept[t]) \/ Ends(turn[t], Swept[t])
  <2>1. CASE t \in Expired
    <3>1. Swept[t] = SweptRow(turn[t]) /\ turn[t].status = "running" /\ turn[t] \in Row
      BY <1>2, <2>1 DEF Swept, Expired, Running, With
    <3>. QED
      BY <3>1, SweptRowIs
  <2>2. CASE t \notin Expired
    <3>1. Swept[t] = turn[t] /\ turn[t] \in Row
      BY <1>2, <2>2 DEF Swept
    <3>. QED
      BY <3>1 DEF Keeps
  <2>. QED
    BY <2>1, <2>2
<1>4. ASSUME NEW t \in Turns
      PROVE  /\ r[t] \in Row
             /\ Keeps(turn[t], r[t]) \/ Ends(turn[t], r[t]) \/ Lapses(turn[t], r[t])
  <2>1. CASE t \in Stale
    <3>1. r[t] = Ended(Swept[t], "cancelled", "stale") /\ Swept[t].status = "queued"
      BY <2>1 DEF Stale, Queued, With
    <3>2. r[t] \in Row /\ Ends(Swept[t], r[t])
      BY <1>3, <3>1, EndedIs DEF Over, Outcomes
    <3>. QED
      BY <1>3, <3>1, <3>2 DEF Keeps, Lapses, Ends, Over
  <2>2. CASE t \notin Stale
    <3>1. r[t] = Swept[t]
      BY <2>2
    <3>. QED
      BY <1>3, <3>1
  <2>. QED
    BY <2>1, <2>2
<1>5. r \in [Turns -> Row]
  BY <1>4
<1>6. \A t \in Turns : Waits(t, turn) => Waits(t, r)
  BY <1>1 DEF Waits, NoLock, Swept, Expired, Running, With
<1>. HIDE DEF r
<1>. QED
  BY <1>1, <1>4, <1>5, <1>6, RewriteMoves

(* A shutdown's release moves rows as Moves allows. *)
LEMMA ShutdownMoves ==
  ASSUME IInv, NEW p \in Procs, Shutdown(p)
  PROVE  Moves
<1>. DEFINE back == HandedBack(p)
            less(x) == IF x.attempt = 0 THEN 0 ELSE x.attempt - 1
<1>1. /\ turn' = [t \in Turns |-> IF t \in back THEN Requeued(turn[t], less(turn[t]))
                                  ELSE turn[t]]
      /\ released' = [t \in Turns |-> IF t \in back THEN released[t] + 1 ELSE released[t]]
      /\ UNCHANGED <<ask, starts>>
  BY DEF Shutdown
<1>2. /\ turn \in [Turns -> Row] /\ KeysOK(turn) /\ starts \in [Turns -> Nat]
      /\ released \in [Turns -> Nat]
  BY DEF IInv, TypeOK
<1>3. \A t \in back : turn[t].status = "running"
  BY DEF HandedBack
<1>4. ASSUME NEW t \in Turns
      PROVE  /\ turn'[t] \in Row
             /\ (turn'[t] = turn[t] /\ t \notin back) \/ (HandsBack(turn[t], turn'[t]) /\ t \in back)
             /\ turn'[t].key = turn[t].key
  <2>1. CASE t \in back
    <3>1. turn[t] \in Row /\ turn[t].attempt \in Nat
      BY <1>2 DEF Row, Columns
    <3>. DEFINE n == less(turn[t])
    <3>2. n \in Nat
      BY <3>1
    <3>3. turn'[t] = Requeued(turn[t], n)
      BY <1>1, <2>1
    <3>4. n = IF turn[t].attempt = 0 THEN 0 ELSE turn[t].attempt - 1
      OBVIOUS
    <3>. HIDE DEF n
    <3>5. /\ turn'[t] \in Row /\ turn'[t].key = turn[t].key
          /\ turn'[t].status = "queued" /\ turn'[t].lease = "none"
          /\ turn'[t].attempt = n
      BY <3>1, <3>2, <3>3, RequeuedIs
    <3>. QED
      BY <1>3, <2>1, <3>4, <3>5 DEF HandsBack
  <2>2. CASE t \notin back
    BY <1>1, <1>2, <2>2
  <2>. QED
    BY <2>1, <2>2
<1>5. turn' \in [Turns -> Row] /\ released' \in [Turns -> Nat]
  BY <1>1, <1>2, <1>4
<1>6. \A t \in Turns : turn'[t].status # "absent"
                       => turn'[t].key = turn[t].key /\ turn[t].status # "absent"
  BY <1>4 DEF HandsBack
<1>7. KeysOK(turn')
  BY <1>2, <1>5, <1>6, KeysKept
<1>8. Used(turn') = Used(turn)
  BY <1>4 DEF Used, HandsBack
<1>9. StartsOne
  BY <1>4 DEF StartsOne, HandsBack
<1>10. ASSUME NEW t \in Turns
       PROVE  RowStep(turn[t], turn'[t], starts[t], starts'[t], released[t], released'[t])
  BY <1>1, <1>4 DEF RowStep, Quiet, Keeps
<1>11. \A t \in Turns : Locked(t) => turn'[t].status = "queued"
  BY <1>3, <1>4, LockedWaits DEF Waits
<1>12. RowsMove
  BY <1>1, <1>2, <1>5, <1>7, <1>9, <1>10, <1>11 DEF RowsMove
<1>. QED
  BY <1>1, <1>5, <1>8, <1>12, RoomSame DEF Moves
-----------------------------------------------------------------------------
(* Questions and answers.                                                  *)

(* The identifier an ask takes is a free one. *)
LEMMA FreeAsk ==
  ASSUME \E x \in AskIds : ask[x].status = "absent"
  PROVE  LET k == Least({x \in AskIds : ask[x].status = "absent"})
         IN  k \in AskIds /\ ask[k].status = "absent" /\ k # 0
<1>. DEFINE S == {x \in AskIds : ask[x].status = "absent"}
<1>1. S # {} /\ S \subseteq Nat
  BY DEF AskIds
<1>2. Least(S) \in S
  BY <1>1, LeastIn
<1>. QED
  BY <1>2 DEF AskIds

(* One more open ask takes one of the rows the bound keeps.                *)
LEMMA OpenOne ==
  ASSUME IInv, NEW k \in AskIds, OpenAsks(ask') \subseteq OpenAsks(ask) \cup {k}
  PROVE  Cardinality(OpenAsks(ask')) <= Cardinality(OpenAsks(ask)) + 1
<1>. DEFINE A == OpenAsks(ask)
            B == OpenAsks(ask')
<1>1. IsFiniteSet(A) /\ IsFiniteSet(B) /\ Cardinality(A) \in Nat /\ Cardinality(B) \in Nat
  BY Counts DEF IInv, TypeOK
<1>. HIDE DEF A, B
<1>2. /\ IsFiniteSet(A \cup {k})
      /\ Cardinality(A \cup {k}) = IF k \in A THEN Cardinality(A) ELSE Cardinality(A) + 1
  BY <1>1, FS_AddElement
<1>3. B \subseteq A \cup {k}
  BY DEF A, B
<1>4. Cardinality(B) <= Cardinality(A \cup {k})
  BY <1>2, <1>3, FS_Subset
<1>5. Cardinality(B) <= Cardinality(A) + 1
  BY <1>1, <1>2, <1>4
<1>. QED
  BY <1>5 DEF A, B

(* An ask between agents moves rows as Moves allows and keeps the types. *)
LEMMA AskAgentMoves ==
  ASSUME IInv, NEW w \in Slots, NEW b \in Agents, AskAgent(w, b)
  PROVE  Moves /\ ask' \in [AskIds -> Ask] /\ stopLine' \subseteq Episodes
<1>. DEFINE a == Speaker(w)
            e == RequesterEpisode(turn, a, latest)
            k == Least({x \in AskIds : ask[x].status = "absent"})
            x == NewTurn(b, "ask", a, k, e, <<"ask", k, Nobody>>)
            refused == Refused(turn, e, a, b)
            entry == [status |-> IF refused THEN "cancelled" ELSE "open",
                      from |-> a, to |-> b, episode |-> e]
<1>1. /\ turn' = IF refused THEN turn ELSE Insert(turn, x)
      /\ ask' = [ask EXCEPT ![k] = entry]
      /\ stopLine' = IF refused THEN stopLine \cup {e} ELSE stopLine
      /\ Cardinality(Used(turn)) + Cardinality(OpenAsks(ask)) + 2 <= MaxTurns
      /\ UNCHANGED history /\ Streaming(w)
  BY DEF AskAgent
<1>2. k \in AskIds /\ ask[k].status = "absent" /\ k # 0
  BY FreeAsk DEF AskAgent
<1>3. turn \in [Turns -> Row] /\ ask \in [AskIds -> Ask] /\ stopLine \subseteq Episodes
  BY DEF IInv, TypeOK
<1>4. a \in Agents \cup {Nobody}
  <2>1. turn[slot[w].turn] \in Row
    BY <1>1, SlotTurn DEF Streaming
  <2>. QED
    BY <2>1 DEF Speaker, Row, Columns
<1>5. e \in Episodes
  BY <1>3, NatTypes, RequesterEpisodeType
<1>. HIDE DEF a, e, k
<1>6. /\ x \in Row /\ x.key = <<"ask", k, Nobody>> /\ x.key[1] # "own"
      /\ x.status = "queued" /\ x.lease = "none" /\ x.attempt = 0
  <2>1. <<"ask", k, Nobody>> \in Keys /\ <<"ask", k, Nobody>>[1] # "own"
    BY <1>2, NatTypes, KeyKindsIn
  <2>2. k \in {0} \cup AskIds /\ "ask" \in Causes
    BY <1>2 DEF Causes
  <2>3. x \in Row
    BY <1>2, <1>4, <1>5, <2>1, <2>2, NewTurnType
  <2>. QED
    BY <2>1, <2>3, NewTurnFields
<1>7. entry \in Ask /\ entry.status = (IF refused THEN "cancelled" ELSE "open")
  BY <1>4, <1>5 DEF Ask, AskStatuses
<1>. HIDE DEF x, entry, refused
<1>8. ask' \in [AskIds -> Ask] /\ stopLine' \subseteq Episodes
  BY <1>1, <1>2, <1>3, <1>5, <1>7
<1>9. CASE refused
  <2>1. OpenAsks(ask') \subseteq OpenAsks(ask)
    BY <1>1, <1>2, <1>3, <1>7, <1>9 DEF OpenAsks
  <2>. QED
    BY <1>1, <1>8, <1>9, <2>1, IInvSame DEF history
<1>10. CASE ~refused
  <2>1. OpenAsks(ask') \subseteq OpenAsks(ask) \cup {k}
    BY <1>1, <1>2, <1>3 DEF OpenAsks
  <2>2. Used(turn) # Turns
    BY <1>1, RoomLeft
  <2>3. QuietTo(turn, turn')
    BY <1>1, <1>3, <1>6, <1>10, <2>2, QuietSame, QuietInsert DEF IInv
  <2>4. /\ Cardinality(Used(turn')) <= Cardinality(Used(turn)) + 1
        /\ Cardinality(OpenAsks(ask')) <= Cardinality(OpenAsks(ask)) + 1
    BY <1>1, <1>2, <1>3, <1>6, <1>10, <2>1, InsertUses, OpenOne
  <2>5. /\ Cardinality(Used(turn)) \in Nat /\ Cardinality(OpenAsks(ask)) \in Nat
        /\ MaxTurns \in Nat
    BY <1>3, Counts
  <2>6. Cardinality(Used(turn')) \in Nat /\ Cardinality(OpenAsks(ask')) \in Nat
    BY <2>3, Counts DEF QuietTo
  <2>7. RoomKept'
    BY <1>1, <2>4, <2>5, <2>6 DEF RoomKept
  <2>8. RowsMove
    BY <1>1, <2>3, QuietMoves
  <2>. QED
    BY <1>8, <2>7, <2>8 DEF Moves
<1>. QED
  BY <1>9, <1>10

(* A hand-off moves rows as Moves allows and keeps the types. *)
LEMMA HandOffMoves ==
  ASSUME IInv, NEW w \in Slots, NEW b \in Agents, HandOff(w, b)
  PROVE  Moves /\ stopLine' \subseteq Episodes
<1>. DEFINE a == Speaker(w)
            e == RequesterEpisode(turn, a, latest)
            x == NewTurn(b, "handoff", a, 0, e, OwnKey(turn))
            refused == Refused(turn, e, a, b)
<1>1. /\ turn' = IF refused THEN turn ELSE Insert(turn, x)
      /\ stopLine' = IF refused THEN stopLine \cup {e} ELSE stopLine
      /\ UNCHANGED history /\ ask' = ask /\ Streaming(w) /\ Room(turn, ask)
  BY DEF HandOff
<1>2. turn \in [Turns -> Row] /\ stopLine \subseteq Episodes
  BY DEF IInv, TypeOK
<1>3. a \in Agents \cup {Nobody}
  <2>1. turn[slot[w].turn] \in Row
    BY <1>1, SlotTurn DEF Streaming
  <2>. QED
    BY <2>1 DEF Speaker, Row, Columns
<1>4. e \in Episodes
  BY <1>2, NatTypes, RequesterEpisodeType
<1>5. OwnKey(turn) \in Keys
  BY <1>1, RoomOne, OwnKeyType
<1>. HIDE DEF a, e
<1>6. /\ x \in Row /\ x.key = OwnKey(turn)
      /\ x.status = "queued" /\ x.lease = "none" /\ x.attempt = 0
  <2>1. x \in Row
    BY <1>3, <1>4, <1>5, NewTurnType DEF Causes
  <2>. QED
    BY <2>1, NewTurnFields
<1>. HIDE DEF x, refused
<1>7. stopLine' \subseteq Episodes
  BY <1>1, <1>2, <1>4
<1>8. CASE refused
  BY <1>1, <1>7, <1>8, IInvSame DEF history
<1>9. CASE ~refused
  BY <1>1, <1>6, <1>7, <1>9, QueueMoves
<1>. QED
  BY <1>8, <1>9

(* A recovery turn is a queued row under the key it is given. *)
LEMMA RecoveryTurn ==
  ASSUME NEW a \in Agents \cup {Nobody}, NEW m \in Episodes, NEW k \in Keys
  PROVE  LET x == NewTurn(a, "recovery", Nobody, 0, m, k)
         IN  /\ x \in Row /\ x.key = k
             /\ x.status = "queued" /\ x.lease = "none" /\ x.attempt = 0
<1>. DEFINE c == "recovery"
<1>1. c \in Causes /\ c # "ask"
  BY DEF Causes
<1>2. Nobody \in Agents \cup {Nobody} /\ 0 \in {0} \cup AskIds
  OBVIOUS
<1>. HIDE DEF c
<1>3. NewTurn(a, c, Nobody, 0, m, k) \in Row
  BY <1>1, <1>2, NewTurnType
<1>. QED
  BY <1>3, NewTurnFields DEF c

(* The recovery turn of a failed stream, when there is one.                *)
LEMMA RecoveryRows ==
  ASSUME IInv, NEW t \in Turns, NEW recover \in BOOLEAN, recover => Room(turn, ask)
  PROVE  LET r0 == IF recover THEN WithRecovery(turn, t) ELSE turn
         IN  /\ QuietTo(turn, r0)
             /\ ~recover => r0 = turn
             /\ Cardinality(Used(r0)) <= Cardinality(Used(turn)) + (IF recover THEN 1 ELSE 0)
<1>. DEFINE x == NewTurn(turn[t].agent, "recovery", Nobody, 0, latest,
                         <<"recover", minute, Nobody>>)
<1>1. turn \in [Turns -> Row] /\ QuietTo(turn, turn) /\ Cardinality(Used(turn)) \in Nat
  BY QuietSame, Counts DEF IInv, TypeOK
<1>2. x \in Row /\ x.status = "queued" /\ x.lease = "none" /\ x.attempt = 0 /\ x.key[1] # "own"
  <2>1. <<"recover", minute, Nobody>> \in Keys /\ <<"recover", minute, Nobody>>[1] # "own"
    BY NatTypes, KeyKindsIn
  <2>2. turn[t].agent \in Agents \cup {Nobody} /\ latest \in Episodes
    BY <1>1, NatTypes DEF Row, Columns
  <2>3. x \in Row /\ x.key = <<"recover", minute, Nobody>>
        /\ x.status = "queued" /\ x.lease = "none" /\ x.attempt = 0
    BY <2>1, <2>2, RecoveryTurn
  <2>. HIDE DEF x
  <2>. QED
    BY <2>1, <2>3
<1>3. CASE recover
  <2>1. WithRecovery(turn, t) = Insert(turn, x)
    BY DEF WithRecovery
  <2>. HIDE DEF x
  <2>2. QuietTo(turn, Insert(turn, x))
    BY <1>1, <1>2, <1>3, RoomOne, QuietInsert
  <2>3. Cardinality(Used(Insert(turn, x))) <= Cardinality(Used(turn)) + 1
    BY <1>1, <1>2, InsertUses
  <2>. QED
    BY <1>3, <2>1, <2>2, <2>3
<1>4. CASE ~recover
  BY <1>1, <1>4
<1>. QED
  BY <1>3, <1>4

(* A question that is open is settled: one ask less is open.               *)
LEMMA Settle ==
  ASSUME IInv, NEW k \in AskIds, ask[k].status = "open",
         NEW v \in {"answered", "cancelled"},
         ask' = [ask EXCEPT ![k].status = v]
  PROVE  /\ ask' \in [AskIds -> Ask]
         /\ OpenAsks(ask') \subseteq OpenAsks(ask)
         /\ Cardinality(OpenAsks(ask)) # 0
         /\ Cardinality(OpenAsks(ask')) = Cardinality(OpenAsks(ask)) - 1
<1>1. ask \in [AskIds -> Ask] /\ IsFiniteSet(OpenAsks(ask)) /\ k \in OpenAsks(ask)
  BY Counts DEF IInv, TypeOK, OpenAsks
<1>2. OpenAsks(ask') = OpenAsks(ask) \ {k}
  BY <1>1 DEF OpenAsks, Ask
<1>3. ask' \in [AskIds -> Ask]
  BY <1>1 DEF Ask, AskStatuses
<1>4. Cardinality(OpenAsks(ask) \ {k}) = Cardinality(OpenAsks(ask)) - 1
  BY <1>1, FS_RemoveElement
<1>5. Cardinality(OpenAsks(ask)) # 0
  BY <1>1, FS_EmptySet
<1>. QED
  BY <1>2, <1>3, <1>4, <1>5

(* Recording a turn's end moves rows as Moves allows and keeps the types. *)
LEMMA RecordMoves ==
  ASSUME IInv, NEW w \in Slots, NEW spent \in Nat, NEW said \in BOOLEAN,
         NEW recover \in BOOLEAN, Record(w, spent, said, recover)
  PROVE  Moves /\ ask' \in [AskIds -> Ask] /\ stopLine' \subseteq Episodes
<1>. DEFINE s    == slot[w]
            t    == s.turn
            k    == turn[t].ask
            r0   == IF recover THEN WithRecovery(turn, t) ELSE turn
            y    == WrittenRow(s, r0[t], spent)
            r1   == [r0 EXCEPT ![t] = y]
            settles  == turn[t].cause = "ask" /\ ask[k].status = "open"
            answered == s.out \in {"spoke", "stalled"} /\ said
            from == ask[k].to
            to   == ask[k].from
            e    == IF turn[t].episode # 0 THEN turn[t].episode
                    ELSE RequesterEpisode(r1, from, latest)
            replies == settles /\ s.out \notin {"cancelled", "error"}
            refused == replies /\ Refused(r1, e, from, to)
            x    == NewTurn(to, "answer", from, k, e, <<"answer", k, Nobody>>)
            v    == IF answered THEN "answered" ELSE "cancelled"
            cut  == IF s.out = "stalled" THEN {turn[t].episode} ELSE {}
            line == IF refused THEN {e} ELSE {}
<1>1. /\ turn' = IF replies /\ ~refused THEN Insert(r1, x) ELSE r1
      /\ ask' = IF settles THEN [ask EXCEPT ![k].status = v] ELSE ask
      /\ stopLine' = stopLine \cup line \cup cut
      /\ recover => s.out = "error" /\ Room(turn, ask)
      /\ UNCHANGED history /\ s.pc = "ended" /\ ~Locked(t)
  BY DEF Record, AnswerKey
<1>2. /\ turn \in [Turns -> Row] /\ ask \in [AskIds -> Ask] /\ stopLine \subseteq Episodes
      /\ latest \in Episodes
  BY DEF IInv, TypeOK
<1>3. t \in Turns /\ turn[t].status # "absent" /\ turn[t] \in Row /\ s \in Slot
  BY <1>1, SlotTurn
<1>4. settles => k \in AskIds /\ ask[k].status = "open"
  BY <1>3 DEF Row, Columns
<1>5. /\ QuietTo(turn, r0) /\ (~recover => r0 = turn)
      /\ Cardinality(Used(r0)) <= Cardinality(Used(turn)) + (IF recover THEN 1 ELSE 0)
  BY <1>1, <1>3, RecoveryRows
<1>6. turn[t].episode \in Episodes /\ cut \subseteq Episodes
  BY <1>3 DEF Row, Columns
<1>7. v \in {"answered", "cancelled"}
  OBVIOUS
<1>8. replies => settles /\ ~recover
  BY <1>1
<1>. HIDE DEF r0
<1>9. r0 \in [Turns -> Row] /\ r0[t] \in Row /\ r0[t].status # "absent"
  BY <1>3, <1>5 DEF QuietTo, Quiet, Keeps, Adds, Ends, Lapses, Over
<1>10. y \in Row /\ (Keeps(r0[t], y) \/ Ends(r0[t], y))
  BY <1>3, <1>9, WrittenRowIs
<1>. HIDE DEF y
<1>11. QuietTo(turn, r1) /\ r1 \in [Turns -> Row]
  BY <1>1, <1>2, <1>3, <1>5, <1>10, QuietPoint DEF QuietTo, Waits
<1>12. Used(r1) = Used(r0)
  BY <1>9, <1>10 DEF Used, Keeps, Ends, Over
<1>. HIDE DEF r1
<1>13. e \in Episodes
  BY <1>2, <1>6, <1>11, RequesterEpisodeType
<1>14. line \subseteq Episodes
  BY <1>13
<1>. HIDE DEF e, cut, line, v, answered, refused, s, t, k
<1>15. stopLine' \subseteq Episodes
  BY <1>1, <1>2, <1>6, <1>14
<1>16. settles =>
         /\ ask' \in [AskIds -> Ask] /\ OpenAsks(ask') \subseteq OpenAsks(ask)
         /\ Cardinality(OpenAsks(ask)) # 0
         /\ Cardinality(OpenAsks(ask')) = Cardinality(OpenAsks(ask)) - 1
  BY <1>1, <1>4, <1>7, Settle
<1>17. ask' \in [AskIds -> Ask] /\ OpenAsks(ask') \subseteq OpenAsks(ask)
  BY <1>1, <1>2, <1>16
<1>18. /\ Cardinality(Used(turn)) \in Nat /\ Cardinality(OpenAsks(ask)) \in Nat
       /\ Cardinality(Used(r1)) \in Nat /\ MaxTurns \in Nat
  BY <1>2, <1>11, Counts
<1>19. CASE replies /\ ~refused
  <2>1. turn' = Insert(r1, x)
    BY <1>1, <1>19
  <2>2. k \in AskIds /\ from \in Agents \cup {Nobody} /\ to \in Agents \cup {Nobody}
    BY <1>2, <1>4, <1>8, <1>19 DEF Ask
  <2>3. x \in Row /\ x.status = "queued" /\ x.lease = "none" /\ x.attempt = 0 /\ x.key[1] # "own"
    <3>1. <<"answer", k, Nobody>> \in Keys /\ <<"answer", k, Nobody>>[1] # "own"
      BY <2>2, NatTypes, KeyKindsIn
    <3>2. k \in {0} \cup AskIds /\ "answer" \in Causes
      BY <2>2 DEF Causes
    <3>. HIDE DEF from, to
    <3>3. x \in Row
      BY <1>13, <2>2, <3>1, <3>2, NewTurnType
    <3>. QED
      BY <3>1, <3>3, NewTurnFields
  <2>. HIDE DEF x
  <2>4. /\ Cardinality(Used(r1)) = Cardinality(Used(turn))
        /\ Cardinality(OpenAsks(ask)) # 0
        /\ Cardinality(OpenAsks(ask')) = Cardinality(OpenAsks(ask)) - 1
    BY <1>5, <1>8, <1>12, <1>16, <1>19
  <2>5. Cardinality(Used(r1)) < MaxTurns
    BY <1>18, <2>4 DEF IInv, RoomKept
  <2>6. Used(r1) # Turns
    BY <2>5, RowsLeft
  <2>7. QuietTo(turn, turn')
    BY <1>2, <1>11, <2>1, <2>3, <2>6, QuietInsert
  <2>8. RowsMove
    BY <1>1, <2>7, QuietMoves
  <2>9. Cardinality(Used(turn')) <= Cardinality(Used(r1)) + 1 /\ Cardinality(Used(turn')) \in Nat
    BY <1>11, <2>1, <2>3, <2>7, InsertUses, Counts DEF QuietTo
  <2>10. RoomKept'
    BY <1>18, <2>4, <2>9 DEF IInv, RoomKept
  <2>. QED
    BY <1>15, <1>17, <2>8, <2>10 DEF Moves
<1>20. CASE ~(replies /\ ~refused)
  <2>1. turn' = r1
    BY <1>1, <1>20
  <2>2. RowsMove
    BY <1>1, <1>11, <2>1, QuietMoves
  <2>. DEFINE n == IF recover THEN 1 ELSE 0
  <2>3. n \in Nat /\ Cardinality(Used(turn')) <= Cardinality(Used(turn)) + n
    BY <1>5, <1>12, <2>1
  <2>4. Cardinality(Used(turn)) + Cardinality(OpenAsks(ask)) + n <= MaxTurns
    BY <1>1, <1>18, RoomOne DEF IInv, RoomKept
  <2>. HIDE DEF n
  <2>5. RoomKept'
    BY <1>11, <1>17, <2>1, <2>3, <2>4, RoomStep
  <2>. QED
    BY <1>15, <1>17, <2>2, <2>5 DEF Moves
<1>. QED
  BY <1>19, <1>20
-----------------------------------------------------------------------------
(* From the moves of a step to the invariant.                              *)

(* A move keeps the rows' part of the inductive invariant. *)
LEMMA MovesKeep ==
  ASSUME IInv, Moves
  PROVE  /\ turn' \in [Turns -> Row] /\ starts' \in [Turns -> Nat] /\ released' \in [Turns -> Nat]
         /\ RowsOK' /\ SingleRunning' /\ KeysOK(turn)' /\ RoomKept'
         /\ \A t \in Turns : turn[t].status # "absent" => turn'[t].status # "absent"
<1>1. turn' \in [Turns -> Row] /\ starts' \in [Turns -> Nat] /\ released' \in [Turns -> Nat]
  BY DEF Moves, RowsMove
<1>2. RowsOK'
  <2>. SUFFICES ASSUME NEW t \in Turns PROVE RowOK(turn'[t], starts'[t], released'[t])
    BY DEF RowsOK
  <2>1. /\ turn[t] \in Row /\ starts[t] \in Nat /\ released[t] \in Nat
        /\ turn'[t] \in Row /\ starts'[t] \in Nat /\ released'[t] \in Nat
    BY <1>1 DEF IInv, TypeOK
  <2>2. RowOK(turn[t], starts[t], released[t])
    BY DEF IInv, RowsOK
  <2>3. RowStep(turn[t], turn'[t], starts[t], starts'[t], released[t], released'[t])
    BY DEF Moves, RowsMove
  <2>. QED
    BY <2>1, <2>2, <2>3, RowStepOK
<1>3. SingleRunning'
  <2>1. CASE \A t \in Turns : turn'[t].status = "running" => turn[t].status = "running"
    BY <2>1 DEF IInv, SingleRunning, Running, With
  <2>2. CASE \E t \in Turns : \A u \in Turns \ {t} : turn'[u].status # "running"
    BY <2>2 DEF SingleRunning, Running, With
  <2>. QED
    BY <2>1, <2>2 DEF Moves, RowsMove, StartsOne
<1>4. KeysOK(turn)' /\ RoomKept'
  BY DEF Moves, RowsMove
<1>5. \A t \in Turns : turn[t].status # "absent" => turn'[t].status # "absent"
  BY DEF Moves, RowsMove, RowStep, Quiet, Keeps, Adds, Ends, Lapses, HandsBack, Begins,
         Refuses, Over
<1>. QED
  BY <1>1, <1>2, <1>3, <1>4, <1>5

(* The types of the variables a step does not move as rows or slots.       *)
RestTyped ==
  /\ ask \in [AskIds -> Ask] /\ latest \in Episodes /\ minute \in 0..MaxMinutes
  /\ stopLine \subseteq Episodes /\ aged \in {0} \cup Turns /\ bell \in BOOLEAN
  /\ held \in [Procs -> SUBSET Turns] /\ faults \in 0..MaxFaults

(* A step that moves rows as allowed and keeps types and slots keeps IInv. *)
LEMMA Inductive ==
  ASSUME IInv, Moves, RestTyped', slot' \in [Slots -> Slot], SlotsOK'
  PROVE  IInv'
BY MovesKeep DEF IInv, TypeOK, RestTyped

(* The slots stay good when none of them moves and no row is started. *)
LEMMA SlotsStay ==
  ASSUME IInv, Moves, UNCHANGED <<slot, starts>>
  PROVE  slot' \in [Slots -> Slot] /\ SlotsOK'
<1>1. \A t \in Turns : Locked(t) => turn'[t].status = "queued"
  <2>1. \A t \in Turns : Locked(t) => turn'[t].status = "queued" \/ starts'[t] # starts[t]
    BY DEF Moves, RowsMove
  <2>. QED
    BY <2>1
<1>2. \A w \in Slots : SlotOK(slot[w], turn')
  <2>. SUFFICES ASSUME NEW w \in Slots PROVE SlotOK(slot[w], turn')
    OBVIOUS
  <2>1. SlotOK(slot[w], turn)
    BY DEF IInv, SlotsOK
  <2>. QED
    BY <1>1, <2>1, MovesKeep DEF SlotOK, Locked
<1>3. slot' \in [Slots -> Slot]
  BY DEF IInv, TypeOK
<1>. QED
  BY <1>2, <1>3 DEF SlotsOK, IInv

(* One coroutine steps; the rows others have locked still wait.            *)
LEMMA SlotSteps ==
  ASSUME IInv, Moves, NEW w \in Slots, NEW s \in Slot, Steps(w, s),
         SlotOK(s, turn'), s.pc = "locked" => ~Locked(s.turn),
         \A t \in Turns : starts'[t] # starts[t]
           => \/ slot[w].pc = "locked" /\ t = slot[w].turn
              \/ turn[t].status = "absent"
  PROVE  slot' \in [Slots -> Slot] /\ SlotsOK'
<1>1. slot \in [Slots -> Slot]
  BY DEF IInv, TypeOK
<1>2. slot' \in [Slots -> Slot] /\ slot'[w] = s /\ \A v \in Slots \ {w} : slot'[v] = slot[v]
  BY <1>1 DEF Steps
<1>3. \A v \in Slots \ {w} : slot[v].pc = "locked" => turn'[slot[v].turn].status = "queued"
  <2>. SUFFICES ASSUME NEW v \in Slots \ {w}, slot[v].pc = "locked"
                PROVE  turn'[slot[v].turn].status = "queued"
    OBVIOUS
  <2>. DEFINE t == slot[v].turn
  <2>1. Locked(t)
    BY DEF Locked
  <2>2. t \in Turns /\ turn[t].status = "queued"
    BY <2>1, LockedWaits DEF Waits
  <2>3. turn'[t].status = "queued" \/ starts'[t] # starts[t]
    BY <2>1, <2>2 DEF Moves, RowsMove
  <2>4. ~(slot[w].pc = "locked" /\ t = slot[w].turn)
    BY DEF IInv, SlotsOK
  <2>. QED
    BY <2>2, <2>3, <2>4
<1>4. \A v \in Slots \ {w} : SlotOK(slot[v], turn')
  <2>. SUFFICES ASSUME NEW v \in Slots \ {w} PROVE SlotOK(slot[v], turn')
    OBVIOUS
  <2>1. SlotOK(slot[v], turn)
    BY DEF IInv, SlotsOK
  <2>. QED
    BY <1>3, <2>1, MovesKeep DEF SlotOK
<1>5. \A v \in Slots \ {w} : slot[v].pc = "locked" /\ s.pc = "locked" => slot[v].turn # s.turn
  BY DEF Locked
<1>6. \A v \in Slots : SlotOK(slot'[v], turn')
  BY <1>2, <1>4
<1>7. \A u, v \in Slots :
        slot'[u].pc = "locked" /\ slot'[v].pc = "locked" /\ slot'[u].turn = slot'[v].turn => u = v
  BY <1>2, <1>5 DEF IInv, SlotsOK
<1>. QED
  BY <1>2, <1>6, <1>7 DEF SlotsOK

(* The two resting states of a slot are slots. *)
LEMMA SlotTypes ==
  /\ Idle \in Slot /\ MaxDrain \in Nat \ {0} /\ MaxFaults \in Nat
  /\ [Idle EXCEPT !.pc = "draining", !.left = MaxDrain] \in Slot
  /\ Idle.pc = "idle"
<1>1. MaxDrain \in Nat \ {0} /\ MaxFaults \in Nat
  BY ProcConstants
<1>2. 0 \in 0..MaxDrain /\ MaxDrain \in 0..MaxDrain
  BY <1>1
<1>3. {"idle", "draining"} \subseteq Pcs /\ "" \in Results
  BY DEF Pcs, Results
<1>4. Idle \in Slot /\ Idle.pc = "idle"
  BY <1>2, <1>3 DEF Idle, Slot
<1>5. [Idle EXCEPT !.pc = "draining", !.left = MaxDrain] \in Slot
  BY <1>2, <1>3, <1>4 DEF Slot
<1>. QED
  BY <1>1, <1>4, <1>5

(* A process goes: its coroutines with it.                                 *)
LEMMA SlotsKilled ==
  ASSUME IInv, Moves, NEW p, Kill(p), UNCHANGED starts
  PROVE  slot' \in [Slots -> Slot] /\ SlotsOK'
<1>1. slot \in [Slots -> Slot]
  BY DEF IInv, TypeOK
<1>2. \A w \in Slots : slot'[w] = Idle \/ slot'[w] = slot[w]
  BY <1>1 DEF Kill
<1>3. slot' \in [Slots -> Slot]
  BY <1>1, SlotTypes DEF Kill
<1>4. \A w \in Slots : SlotOK(slot[w], turn')
  <2>. SUFFICES ASSUME NEW w \in Slots PROVE SlotOK(slot[w], turn')
    OBVIOUS
  <2>1. SlotOK(slot[w], turn)
    BY DEF IInv, SlotsOK
  <2>2. slot[w].pc = "locked" => turn'[slot[w].turn].status = "queued"
    <3>1. \A t \in Turns : Locked(t) => turn'[t].status = "queued" \/ starts'[t] # starts[t]
      BY DEF Moves, RowsMove
    <3>. QED
      BY <2>1, <3>1 DEF Locked, SlotOK
  <2>. QED
    BY <2>1, <2>2, MovesKeep DEF SlotOK
<1>5. \A w \in Slots : SlotOK(slot'[w], turn')
  BY <1>2, <1>4, SlotTypes DEF SlotOK
<1>6. \A u, v \in Slots :
        slot'[u].pc = "locked" /\ slot'[v].pc = "locked" /\ slot'[u].turn = slot'[v].turn => u = v
  <2>1. \A u \in Slots : slot'[u].pc = "locked" => slot'[u] = slot[u]
    BY <1>2, SlotTypes
  <2>. QED
    BY <2>1 DEF IInv, SlotsOK
<1>. QED
  BY <1>3, <1>5, <1>6 DEF SlotsOK
-----------------------------------------------------------------------------
(* Every action keeps the invariant.                                       *)

(* A step that moves rows and no slot keeps the inductive invariant. *)
LEMMA KeptSlots ==
  ASSUME IInv, Moves, UNCHANGED <<slot, starts>>, RestTyped'
  PROVE  IInv'
BY SlotsStay, Inductive

(* A cancellation leaves asks asks. *)
LEMMA CancelAsksType ==
  ASSUME IInv, NEW hit, ask' = CancelAsks(ask, turn, hit)
  PROVE  ask' \in [AskIds -> Ask]
BY DEF IInv, TypeOK, CancelAsks, Ask, AskStatuses

(* The human's requests keep the inductive invariant. *)
LEMMA RequestsKeep ==
  ASSUME IInv, Requests
  PROVE  IInv'
<1>1. RestTyped
  BY DEF IInv, TypeOK, RestTyped
<1>2. ASSUME NEW a \in Agents, NEW b \in Agents, NEW to,
             to = <<a>> \/ to = <<a, b>>, PostMessage(to)
      PROVE  IInv'
  <2>1. Moves
    BY <1>2, PostMessageMoves
  <2>2. ask' \in [AskIds -> Ask] /\ latest' \in Episodes
    BY <1>2, CancelAsksType, MessageEpisode DEF PostMessage
  <2>3. RestTyped'
    BY <1>1, <1>2, <2>2 DEF PostMessage, RestTyped
  <2>. QED
    BY <1>2, <2>1, <2>3, KeptSlots DEF PostMessage, history
<1>3. CASE PostAsk
  <2>1. Moves
    BY <1>3, PostAskMoves
  <2>2. ask' \in [AskIds -> Ask] /\ latest' \in Episodes
    BY <1>3, CancelAsksType, NatTypes DEF PostAsk, Episodes
  <2>3. RestTyped'
    BY <1>1, <1>3, <2>2 DEF PostAsk, RestTyped
  <2>. QED
    BY <1>3, <2>1, <2>3, KeptSlots DEF PostAsk, history
<1>4. ASSUME NEW a \in Agents, PostIntercom(a) PROVE IInv'
  <2>1. Moves
    BY <1>4, PostIntercomMoves
  <2>2. ask' \in [AskIds -> Ask] /\ latest' \in Episodes
    BY <1>4, CancelAsksType, MessageEpisode DEF PostIntercom
  <2>3. RestTyped'
    BY <1>1, <1>4, <2>2 DEF PostIntercom, RestTyped
  <2>. QED
    BY <1>4, <2>1, <2>3, KeptSlots DEF PostIntercom, history
<1>5. ASSUME NEW m, NEW a \in Agents, WakeFor(m, a) PROVE IInv'
  <2>1. Moves
    BY <1>5, WakeForMoves
  <2>2. RestTyped'
    BY <1>1, <1>5 DEF WakeFor, RestTyped
  <2>. QED
    BY <1>5, <2>1, <2>2, KeptSlots DEF WakeFor, history
<1>6. ASSUME NEW a \in Agents, WakeBySystem(a) PROVE IInv'
  <2>1. Moves
    BY <1>6, WakeBySystemMoves
  <2>2. RestTyped'
    BY <1>1, <1>6 DEF WakeBySystem, RestTyped
  <2>. QED
    BY <1>6, <2>1, <2>2, KeptSlots DEF WakeBySystem, history
<1>7. CASE Stop
  <2>1. Moves
    BY <1>7, StopMoves
  <2>2. ask' \in [AskIds -> Ask]
    BY <1>7, CancelAsksType DEF Stop
  <2>3. RestTyped'
    BY <1>1, <1>7, <2>2 DEF Stop, RestTyped
  <2>. QED
    BY <1>7, <2>1, <2>3, KeptSlots DEF Stop, history
<1>. QED
  BY <1>2, <1>3, <1>4, <1>5, <1>6, <1>7 DEF Requests

(* The clock's steps keep the inductive invariant. *)
LEMMA ClockKeeps ==
  ASSUME IInv, Clock
  PROVE  IInv'
<1>1. RestTyped
  BY DEF IInv, TypeOK, RestTyped
<1>2. CASE Sweep
  <2>1. RestTyped' /\ UNCHANGED <<slot, starts>>
    BY <1>1, <1>2 DEF Sweep, RestTyped, history
  <2>. QED
    BY <1>2, <2>1, SweepMoves, KeptSlots
<1>3. CASE NextMinute
  <2>1. UNCHANGED <<turn, starts, released, ask, slot>>
    BY <1>3 DEF NextMinute, rows, history
  <2>2. RestTyped'
    BY <1>1, <1>3, <2>1, RowConstants DEF NextMinute, RestTyped
  <2>. QED
    BY <2>1, <2>2, IInvSame, KeptSlots
<1>4. CASE Age
  <2>1. UNCHANGED <<turn, starts, released, ask, slot>>
    BY <1>4 DEF Age, rows, history
  <2>2. aged' \in Turns
    BY <1>4 DEF Age, With
  <2>3. RestTyped'
    BY <1>1, <1>4, <2>1, <2>2 DEF Age, RestTyped
  <2>. QED
    BY <2>1, <2>3, IInvSame, KeptSlots
<1>5. ASSUME NEW t \in Turns, ExpireLease(t) PROVE IInv'
  <2>1. RestTyped' /\ UNCHANGED <<slot, starts>>
    BY <1>1, <1>5 DEF ExpireLease, RestTyped, history
  <2>. QED
    BY <1>5, <2>1, ExpireLeaseMoves, KeptSlots
<1>. QED
  BY <1>2, <1>3, <1>4, <1>5 DEF Clock

(* Crashes, restarts and lost jobs keep the inductive invariant. *)
LEMMA LossesKeep ==
  ASSUME IInv, Losses
  PROVE  IInv'
<1>1. RestTyped /\ faults \in Nat /\ (faults < MaxFaults => faults + 1 \in 0..MaxFaults)
  BY SlotTypes DEF IInv, TypeOK, RestTyped
<1>2. ASSUME NEW p \in Procs, Shutdown(p) PROVE IInv'
  <2>1. Moves
    BY <1>2, ShutdownMoves
  <2>2. RestTyped'
    BY <1>1, <1>2 DEF Shutdown, RestTyped
  <2>3. slot' \in [Slots -> Slot] /\ SlotsOK'
    BY <1>2, <2>1, SlotsKilled DEF Shutdown
  <2>. QED
    BY <2>1, <2>2, <2>3, Inductive
<1>3. ASSUME NEW p \in Procs, Crash(p) PROVE IInv'
  <2>1. UNCHANGED <<turn, starts, released, ask>>
    BY <1>3 DEF Crash, rows, history
  <2>2. Moves
    BY <2>1, IInvSame
  <2>3. RestTyped'
    BY <1>1, <1>3, <2>1 DEF Crash, RestTyped
  <2>4. slot' \in [Slots -> Slot] /\ SlotsOK'
    BY <1>3, <2>1, <2>2, SlotsKilled DEF Crash
  <2>. QED
    BY <2>2, <2>3, <2>4, Inductive
<1>4. ASSUME NEW w \in Slots, DropSlot(w) PROVE IInv'
  <2>1. UNCHANGED <<turn, starts, released, ask>>
    BY <1>4 DEF DropSlot, rows, history
  <2>2. Moves
    BY <2>1, IInvSame
  <2>3. RestTyped'
    BY <1>1, <1>4, <2>1 DEF DropSlot, RestTyped
  <2>4. slot' \in [Slots -> Slot] /\ SlotsOK'
    <3>1. Steps(w, Idle) /\ SlotOK(Idle, turn') /\ Idle.pc # "locked"
      BY <1>4, SlotTypes DEF DropSlot, SlotOK
    <3>. QED
      BY <2>1, <2>2, <3>1, SlotTypes, SlotSteps
  <2>. QED
    BY <2>2, <2>3, <2>4, Inductive
<1>5. CASE LoseBell
  <2>1. UNCHANGED <<turn, starts, released, ask, slot>>
    BY <1>5 DEF LoseBell, rows, history
  <2>2. RestTyped'
    BY <1>1, <1>5, <2>1 DEF LoseBell, RestTyped
  <2>. QED
    BY <2>1, <2>2, IInvSame, KeptSlots
<1>. QED
  BY <1>2, <1>3, <1>4, <1>5 DEF Losses
(* A coroutine that starts no turn steps to s.                             *)
LEMMA SlotKeeps ==
  ASSUME IInv, Moves, RestTyped', UNCHANGED starts,
         NEW w \in Slots, NEW s \in Slot, Steps(w, s), s.pc # "locked", SlotOK(s, turn')
  PROVE  IInv'
BY SlotSteps, Inductive

(* The fields of a slot have their types. *)
LEMMA SlotFields ==
  ASSUME NEW s \in Slot
  PROVE  /\ s.pc \in Pcs /\ s.turn \in {0} \cup Turns /\ s.view \in Statuses \cup {"expired"}
         /\ s.left \in 0..MaxDrain /\ s.out \in Results
BY DEF Slot

(* A slot that has recorded its turn is a slot on the same turn. *)
LEMMA RecordedType ==
  ASSUME NEW s \in Slot
  PROVE  /\ Recorded(s) \in Slot /\ Recorded(s).pc = "recorded"
         /\ Recorded(s).turn = s.turn /\ Recorded(s).left = s.left
<1>1. Recorded(s) \in Slot
  BY DEF Recorded, Slot, Pcs, Results
<1>. QED
  BY <1>1 DEF Recorded, Slot

(* A slot that has reloaded its row is a slot on the same turn. *)
LEMMA ReloadType ==
  ASSUME NEW s \in Slot, NEW r \in [Turns -> Row], s.turn \in Turns
  PROVE  /\ Reload(s, r) \in Slot /\ Reload(s, r).pc = s.pc
         /\ Reload(s, r).turn = s.turn /\ Reload(s, r).left = s.left
<1>1. r[s.turn].status \in Statuses
  BY DEF Row, Columns
<1>. QED
  BY <1>1 DEF Reload, Slot

(* The steps up to a claim keep the inductive invariant. *)
LEMMA ClaimsKeep ==
  ASSUME IInv, NEW w \in Slots,
         StartDrain(w) \/ ClaimLock(w) \/ ClaimNothing(w) \/ ClaimCommit(w)
           \/ ClaimRefused(w) \/ ClaimForNobody(w)
  PROVE  IInv'
<1>1. RestTyped /\ slot[w] \in Slot /\ SlotOK(slot[w], turn) /\ slot \in [Slots -> Slot]
  BY DEF IInv, TypeOK, RestTyped, SlotsOK
<1>2. CASE StartDrain(w)
  <2>. DEFINE s == [Idle EXCEPT !.pc = "draining", !.left = MaxDrain]
  <2>1. UNCHANGED <<turn, starts, released, ask>> /\ Steps(w, s)
    BY <1>2 DEF StartDrain, rows, history
  <2>2. s \in Slot /\ s.pc = "draining"
    BY SlotTypes DEF Slot
  <2>3. RestTyped'
    BY <1>1, <1>2, <2>1 DEF StartDrain, RestTyped
  <2>. HIDE DEF s
  <2>4. SlotOK(s, turn')
    BY <2>2 DEF SlotOK
  <2>. QED
    BY <2>1, <2>2, <2>3, <2>4, IInvSame, SlotKeeps
<1>3. CASE ClaimLock(w)
  <2>. DEFINE t == Least(Claimable)
              s == [slot[w] EXCEPT !.pc = "locked", !.turn = t]
  <2>1. UNCHANGED <<turn, starts, released, ask>> /\ Steps(w, s) /\ Claimable # {}
        /\ slot[w].left > 0
    BY <1>3 DEF ClaimLock, rows, history
  <2>2. t \in Turns /\ turn[t].status = "queued" /\ ~Locked(t)
    <3>1. Claimable \subseteq Nat
      BY NatTypes DEF Claimable, Queued, With
    <3>2. t \in Claimable
      BY <2>1, <3>1, LeastIn
    <3>. QED
      BY <3>2 DEF Claimable, Queued, With
  <2>. HIDE DEF t
  <2>3. s \in Slot /\ s.pc = "locked" /\ s.turn = t /\ s.left = slot[w].left
    BY <1>1, <2>2 DEF Slot, Pcs
  <2>4. slot[w].left # 0
    BY <1>1, <2>1, SlotFields
  <2>. HIDE DEF s
  <2>5. SlotOK(s, turn')
    BY <2>1, <2>2, <2>3, <2>4 DEF SlotOK
  <2>6. RestTyped'
    BY <1>1, <1>3, <2>1 DEF ClaimLock, RestTyped
  <2>7. slot' \in [Slots -> Slot] /\ SlotsOK'
    BY <2>1, <2>2, <2>3, <2>5, IInvSame, SlotSteps
  <2>. QED
    BY <2>1, <2>6, <2>7, IInvSame, Inductive
<1>4. CASE ClaimNothing(w) \/ ClaimRefused(w)
  <2>1. UNCHANGED <<turn, starts, released, ask>> /\ Steps(w, Idle)
    BY <1>4 DEF ClaimNothing, ClaimRefused, rows, history
  <2>2. RestTyped'
    BY <1>1, <1>4, <2>1 DEF ClaimNothing, ClaimRefused, RestTyped
  <2>3. SlotOK(Idle, turn')
    BY SlotTypes DEF SlotOK
  <2>. QED
    BY <2>1, <2>2, <2>3, IInvSame, SlotTypes, SlotKeeps
<1>5. CASE ClaimCommit(w)
  <2>. DEFINE s == [slot[w] EXCEPT !.pc = "streaming", !.view = "running"]
  <2>1. Moves
    BY <1>5, ClaimCommitMoves
  <2>2. /\ slot[w].pc = "locked" /\ Steps(w, s)
        /\ starts' = [starts EXCEPT ![slot[w].turn] = @ + 1]
    BY <1>5 DEF ClaimCommit
  <2>3. s \in Slot /\ s.pc = "streaming" /\ s.turn = slot[w].turn /\ s.left = slot[w].left
    BY <1>1 DEF Slot, Pcs, Statuses
  <2>. HIDE DEF s
  <2>4. SlotOK(s, turn')
    BY <1>1, <2>1, <2>2, <2>3, MovesKeep DEF SlotOK
  <2>5. slot[w].turn \in Turns
    BY <1>1, <2>2 DEF SlotOK
  <2>6. RestTyped'
    BY <1>1, <1>5, <2>5 DEF ClaimCommit, RestTyped
  <2>7. \A t \in Turns : starts'[t] # starts[t] => t = slot[w].turn
    BY <2>2 DEF IInv, TypeOK
  <2>8. slot' \in [Slots -> Slot] /\ SlotsOK'
    BY <2>1, <2>2, <2>3, <2>4, <2>7, SlotSteps
  <2>. QED
    BY <2>1, <2>6, <2>8, Inductive
<1>6. CASE ClaimForNobody(w)
  <2>. DEFINE s == Recorded(slot[w])
  <2>1. Moves
    BY <1>6, ClaimForNobodyMoves
  <2>2. /\ slot[w].pc = "locked" /\ Steps(w, s)
        /\ starts' = [starts EXCEPT ![slot[w].turn] = @ + 1]
    BY <1>6 DEF ClaimForNobody
  <2>3. s \in Slot /\ s.pc = "recorded" /\ s.turn = slot[w].turn /\ s.left = slot[w].left
    BY <1>1, RecordedType
  <2>. HIDE DEF s
  <2>4. SlotOK(s, turn')
    BY <1>1, <2>1, <2>2, <2>3, MovesKeep DEF SlotOK
  <2>5. slot[w].turn \in Turns
    BY <1>1, <2>2 DEF SlotOK
  <2>6. RestTyped'
    BY <1>1, <1>6, <2>5 DEF ClaimForNobody, RestTyped
  <2>7. \A t \in Turns : starts'[t] # starts[t] => t = slot[w].turn
    BY <2>2 DEF IInv, TypeOK
  <2>8. slot' \in [Slots -> Slot] /\ SlotsOK'
    BY <2>1, <2>2, <2>3, <2>4, <2>7, SlotSteps
  <2>. QED
    BY <2>1, <2>6, <2>8, Inductive
<1>. QED
  BY <1>2, <1>3, <1>4, <1>5, <1>6

(* The steps that end a turn keep the inductive invariant. *)
LEMMA EndsKeep ==
  ASSUME IInv, NEW w \in Slots,
         \/ \E out \in Results : EndStream(w, out)
         \/ RaiseStream(w)
         \/ \E spent \in Spends, said \in BOOLEAN, recover \in BOOLEAN :
              Record(w, spent, said, recover)
         \/ EndInline(w)
         \/ FailTurn(w)
         \/ DrainNext(w)
  PROVE  IInv'
<1>1. RestTyped /\ slot[w] \in Slot /\ SlotOK(slot[w], turn) /\ slot \in [Slots -> Slot]
  BY DEF IInv, TypeOK, RestTyped, SlotsOK
<1>2. ASSUME NEW out \in Results, NEW v, v = slot[w].view \/ v = "expired",
             slot[w].pc = "streaming", UNCHANGED <<turn, starts, released, ask>>,
             Steps(w, [slot[w] EXCEPT !.pc = "ended", !.out = out, !.view = v]),
             RestTyped'
      PROVE  IInv'
  <2>. DEFINE s == [slot[w] EXCEPT !.pc = "ended", !.out = out, !.view = v]
  <2>1. s \in Slot /\ s.pc = "ended" /\ s.turn = slot[w].turn /\ s.left = slot[w].left
    BY <1>1, <1>2 DEF Slot, Pcs
  <2>. HIDE DEF s
  <2>2. SlotOK(s, turn')
    BY <1>1, <1>2, <2>1 DEF SlotOK
  <2>3. Steps(w, s)
    BY <1>2 DEF s
  <2>. QED
    BY <1>2, <2>1, <2>2, <2>3, IInvSame, SlotKeeps
<1>3. ASSUME NEW out \in Results, EndStream(w, out) PROVE IInv'
  <2>1. /\ UNCHANGED <<turn, starts, released, ask>> /\ slot[w].pc = "streaming"
        /\ Steps(w, [slot[w] EXCEPT !.pc = "ended", !.out = out])
    BY <1>3 DEF EndStream, rows, history
  <2>2. RestTyped'
    BY <1>1, <1>3, <2>1 DEF EndStream, RestTyped
  <2>3. [slot[w] EXCEPT !.pc = "ended", !.out = out]
          = [slot[w] EXCEPT !.pc = "ended", !.out = out, !.view = slot[w].view]
    BY <1>1 DEF Slot
  <2>. QED
    BY <1>2, <2>1, <2>2, <2>3
<1>4. CASE RaiseStream(w)
  <2>1. /\ UNCHANGED <<turn, starts, released, ask>> /\ slot[w].pc = "streaming"
        /\ Steps(w, [slot[w] EXCEPT !.pc = "ended", !.out = "error", !.view = "expired"])
    BY <1>4 DEF RaiseStream, rows, history
  <2>2. RestTyped' /\ "error" \in Results
    BY <1>1, <1>4, <2>1 DEF RaiseStream, RestTyped, Results
  <2>. QED
    BY <1>2, <2>1, <2>2
<1>5. ASSUME NEW spent \in Spends, NEW said \in BOOLEAN, NEW recover \in BOOLEAN,
             Record(w, spent, said, recover)
      PROVE  IInv'
  <2>. DEFINE s == Recorded(slot[w])
  <2>1. Moves /\ ask' \in [AskIds -> Ask] /\ stopLine' \subseteq Episodes
    BY <1>5, RecordMoves, ProcConstants
  <2>2. slot[w].pc = "ended" /\ Steps(w, s) /\ UNCHANGED starts
    BY <1>5 DEF Record, history
  <2>3. s \in Slot /\ s.pc = "recorded" /\ s.turn = slot[w].turn /\ s.left = slot[w].left
    BY <1>1, RecordedType
  <2>. HIDE DEF s
  <2>4. SlotOK(s, turn')
    BY <1>1, <2>1, <2>2, <2>3, MovesKeep DEF SlotOK
  <2>5. bell' \in BOOLEAN
    BY <1>5 DEF Record
  <2>6. RestTyped'
    BY <1>1, <1>5, <2>1, <2>5 DEF Record, RestTyped
  <2>. QED
    BY <2>1, <2>2, <2>3, <2>4, <2>6, SlotKeeps
<1>6. CASE EndInline(w)
  <2>1. Moves
    BY <1>6, EndInlineMoves
  <2>2. Steps(w, Idle) /\ UNCHANGED starts /\ SlotOK(Idle, turn')
    BY <1>6, SlotTypes DEF EndInline, history, SlotOK
  <2>3. RestTyped'
    BY <1>1, <1>6 DEF EndInline, RestTyped
  <2>. QED
    BY <2>1, <2>2, <2>3, SlotTypes, SlotKeeps
<1>7. CASE FailTurn(w)
  <2>. DEFINE s == Recorded(slot[w])
  <2>1. Moves
    BY <1>7, FailTurnMoves
  <2>2. slot[w].pc \in {"streaming", "ended"} /\ Steps(w, s) /\ UNCHANGED starts
    BY <1>7 DEF FailTurn, history
  <2>3. s \in Slot /\ s.pc = "recorded" /\ s.turn = slot[w].turn /\ s.left = slot[w].left
    BY <1>1, RecordedType
  <2>. HIDE DEF s
  <2>4. SlotOK(s, turn')
    BY <1>1, <2>1, <2>2, <2>3, MovesKeep DEF SlotOK
  <2>5. RestTyped'
    BY <1>1, <1>7 DEF FailTurn, RestTyped
  <2>. QED
    BY <2>1, <2>2, <2>3, <2>4, <2>5, SlotKeeps
<1>8. CASE DrainNext(w)
  <2>. DEFINE s == [Idle EXCEPT !.pc = "draining", !.left = slot[w].left - 1]
  <2>1. UNCHANGED <<turn, starts, released, ask>> /\ Steps(w, s) /\ slot[w].pc = "recorded"
    BY <1>8 DEF DrainNext, rows, history
  <2>2. slot[w].left - 1 \in 0..MaxDrain
    BY <1>1, <2>1, SlotFields, SlotTypes DEF SlotOK
  <2>3. s \in Slot /\ s.pc = "draining"
    BY <2>2, SlotTypes DEF Slot, Pcs
  <2>. HIDE DEF s
  <2>4. SlotOK(s, turn')
    BY <2>3 DEF SlotOK
  <2>5. RestTyped'
    BY <1>1, <1>8, <2>1 DEF DrainNext, RestTyped
  <2>. QED
    BY <2>1, <2>3, <2>4, <2>5, IInvSame, SlotKeeps
<1>. QED
  BY <1>3, <1>4, <1>5, <1>6, <1>7, <1>8

(* The steps inside a turn keep the inductive invariant. *)
LEMMA MidStreamKeeps ==
  ASSUME IInv, NEW w \in Slots, MidStream(w)
  PROVE  IInv'
<1>1. RestTyped /\ slot[w] \in Slot /\ SlotOK(slot[w], turn) /\ slot \in [Slots -> Slot]
  BY DEF IInv, TypeOK, RestTyped, SlotsOK
<1>2. CASE KeepLease(w)
  <2>1. RestTyped' /\ UNCHANGED <<slot, starts>>
    BY <1>1, <1>2 DEF KeepLease, RestTyped, history
  <2>. QED
    BY <1>2, <2>1, KeepLeaseMoves, KeptSlots
<1>3. CASE ToolRollback(w)
  <2>. DEFINE s == [slot[w] EXCEPT !.view = "expired"]
  <2>1. UNCHANGED <<turn, starts, released, ask>> /\ Steps(w, s) /\ slot[w].pc = "streaming"
    BY <1>3 DEF ToolRollback, rows, history
  <2>2. s \in Slot /\ s.pc = slot[w].pc /\ s.turn = slot[w].turn /\ s.left = slot[w].left
    BY <1>1 DEF Slot
  <2>. HIDE DEF s
  <2>3. SlotOK(s, turn')
    BY <1>1, <2>1, <2>2 DEF SlotOK
  <2>4. RestTyped'
    BY <1>1, <1>3, <2>1 DEF ToolRollback, RestTyped
  <2>. QED
    BY <2>1, <2>2, <2>3, <2>4, IInvSame, SlotKeeps
<1>4. ASSUME NEW r, r = turn', Moves, RestTyped', UNCHANGED starts, Streaming(w),
             Steps(w, Reload(slot[w], r))
      PROVE  IInv'
  <2>. DEFINE s == Reload(slot[w], r)
  <2>1. r \in [Turns -> Row] /\ slot[w].turn \in Turns
    BY <1>4, MovesKeep, SlotTurn DEF Streaming
  <2>2. s \in Slot /\ s.pc = slot[w].pc /\ s.turn = slot[w].turn /\ s.left = slot[w].left
    BY <1>1, <2>1, ReloadType
  <2>. HIDE DEF s
  <2>3. SlotOK(s, turn') /\ s.pc # "locked"
    BY <1>1, <1>4, <2>2, MovesKeep DEF SlotOK, Streaming
  <2>4. Steps(w, s)
    BY <1>4 DEF s
  <2>. QED
    BY <1>4, <2>2, <2>3, <2>4, SlotKeeps
<1>5. ASSUME NEW b \in Agents, AskAgent(w, b) PROVE IInv'
  <2>1. Moves /\ ask' \in [AskIds -> Ask] /\ stopLine' \subseteq Episodes
    BY <1>5, AskAgentMoves
  <2>2. Steps(w, Reload(slot[w], turn')) /\ Streaming(w) /\ UNCHANGED starts
    BY <1>5 DEF AskAgent, history
  <2>3. RestTyped'
    BY <1>1, <1>5, <2>1 DEF AskAgent, RestTyped
  <2>. QED
    BY <1>4, <2>1, <2>2, <2>3
<1>6. ASSUME NEW b \in Agents, HandOff(w, b) PROVE IInv'
  <2>1. Moves /\ stopLine' \subseteq Episodes
    BY <1>6, HandOffMoves
  <2>2. Steps(w, Reload(slot[w], turn')) /\ Streaming(w) /\ UNCHANGED starts
    BY <1>6 DEF HandOff, history
  <2>3. RestTyped'
    BY <1>1, <1>6, <2>1 DEF HandOff, RestTyped
  <2>. QED
    BY <1>4, <2>1, <2>2, <2>3
<1>7. ASSUME NEW a \in Agents, BeginInline(w, a) PROVE IInv'
  <2>. DEFINE t == NextTurn(turn)
              s == [Idle EXCEPT !.pc = "inline", !.turn = t, !.view = "running"]
  <2>1. Moves /\ t \in Turns /\ turn'[t].status = "running"
    BY <1>7, BeginInlineMoves
  <2>2. Steps(w, s) /\ starts' = [starts EXCEPT ![t] = @ + 1] /\ Room(turn, ask)
    BY <1>7 DEF BeginInline
  <2>3. turn[t].status = "absent"
    BY <2>2, RoomOne, NextTurnFree DEF Used
  <2>. HIDE DEF t
  <2>4. s \in Slot /\ s.pc = "inline" /\ s.turn = t
    BY <2>1, SlotTypes DEF Slot, Pcs, Statuses
  <2>. HIDE DEF s
  <2>5. SlotOK(s, turn')
    BY <2>1, <2>4 DEF SlotOK
  <2>6. RestTyped'
    BY <1>1, <1>7, <2>1 DEF BeginInline, RestTyped, t
  <2>7. \A u \in Turns : starts'[u] # starts[u] => turn[u].status = "absent"
    BY <2>2, <2>3 DEF IInv, TypeOK
  <2>8. slot' \in [Slots -> Slot] /\ SlotsOK'
    BY <2>1, <2>2, <2>4, <2>5, <2>7, SlotSteps
  <2>. QED
    BY <2>1, <2>6, <2>8, Inductive
<1>. QED
  BY <1>2, <1>3, <1>5, <1>6, <1>7 DEF MidStream

-----------------------------------------------------------------------------
(* The theorems.                                                           *)

(* The inductive invariant holds at the start. *)
LEMMA InitInv == Init => IInv
<1>. SUFFICES ASSUME Init PROVE IInv
  OBVIOUS
<1>1. /\ turn = [t \in Turns |-> NoRow] /\ ask = [k \in AskIds |-> NoAsk]
      /\ slot = [w \in Slots |-> Idle]
      /\ starts = [t \in Turns |-> 0] /\ released = [t \in Turns |-> 0]
  BY DEF Init
<1>2. 0 \in Episodes /\ 0 \in 0..MaxMinutes /\ 0 \in 0..MaxFaults /\ NoAsk \in Ask
  BY RowConstants, ProcConstants DEF Episodes, NoAsk, Ask, AskStatuses
<1>3. TypeOK
  <2>1. /\ turn \in [Turns -> Row] /\ ask \in [AskIds -> Ask] /\ slot \in [Slots -> Slot]
        /\ starts \in [Turns -> Nat] /\ released \in [Turns -> Nat]
    BY <1>1, <1>2, NoRowType, SlotTypes
  <2>2. /\ latest \in Episodes /\ minute \in 0..MaxMinutes /\ stopLine \subseteq Episodes
        /\ aged \in {0} \cup Turns /\ bell \in BOOLEAN
        /\ held \in [Procs -> SUBSET Turns] /\ faults \in 0..MaxFaults
    BY <1>2 DEF Init
  <2>. QED
    BY <2>1, <2>2 DEF TypeOK
<1>4. Used(turn) = {} /\ OpenAsks(ask) = {} /\ Running(turn) = {}
  BY <1>1 DEF Used, OpenAsks, Running, With, NoRow, NoAsk
<1>5. RowsOK
  <2>1. NoRow.status = "absent" /\ NoRow.lease = "none" /\ NoRow.attempt = 0
    BY DEF NoRow
  <2>2. MaxAttempts \in Nat \ {0}
    BY RowConstants
  <2>3. RowOK(NoRow, 0, 0)
    BY <2>1, <2>2 DEF RowOK
  <2>. QED
    BY <1>1, <2>3 DEF RowsOK
<1>6. SingleRunning /\ KeysOK(turn)
  BY <1>4 DEF SingleRunning, KeysOK
<1>7. SlotsOK
  <2>1. \A w \in Slots : slot[w].pc = "idle"
    BY <1>1, SlotTypes
  <2>. QED
    BY <2>1 DEF SlotsOK, SlotOK
<1>8. RoomKept
  BY <1>4, FS_EmptySet, RowConstants DEF RoomKept
<1>. QED
  BY <1>3, <1>5, <1>6, <1>7, <1>8 DEF IInv

(* Every step moves rows as Moves allows. *)
LEMMA NextMoves ==
  ASSUME IInv, [Next]_vars
  PROVE  Moves
<1>1. CASE UNCHANGED vars
  BY <1>1, IInvSame DEF vars
<1>2. CASE Requests
  BY <1>2, PostMessageMoves, PostAskMoves, PostIntercomMoves, WakeForMoves,
     WakeBySystemMoves, StopMoves DEF Requests
<1>3. ASSUME NEW w \in Slots, Advance(w) PROVE Moves
  <2>1. ASSUME UNCHANGED <<turn, starts, released, ask>> PROVE Moves
    BY <2>1, IInvSame
  <2>2. CASE \/ StartDrain(w) \/ ClaimLock(w) \/ ClaimNothing(w) \/ ClaimRefused(w)
             \/ RaiseStream(w) \/ DrainNext(w) \/ \E out \in Results : EndStream(w, out)
    BY <2>1, <2>2 DEF StartDrain, ClaimLock, ClaimNothing, ClaimRefused, RaiseStream,
       DrainNext, EndStream, rows, history
  <2>3. CASE \/ \E spent \in Spends, said \in BOOLEAN, recover \in BOOLEAN :
                  Record(w, spent, said, recover)
             \/ EndInline(w)
    BY <2>3, RecordMoves, EndInlineMoves, ProcConstants
  <2>4. CASE ClaimCommit(w) \/ ClaimForNobody(w) \/ FailTurn(w)
    BY <2>4, ClaimCommitMoves, ClaimForNobodyMoves, FailTurnMoves
  <2>. QED
    BY <1>3, <2>2, <2>3, <2>4 DEF Advance
<1>4. ASSUME NEW w \in Slots, MidStream(w) PROVE Moves
  <2>1. CASE ToolRollback(w)
    BY <2>1, IInvSame DEF ToolRollback, rows, history
  <2>. QED
    BY <1>4, <2>1, KeepLeaseMoves, AskAgentMoves, HandOffMoves, BeginInlineMoves
       DEF MidStream
<1>5. CASE Clock
  <2>1. CASE NextMinute \/ Age
    BY <2>1, IInvSame DEF NextMinute, Age, rows, history
  <2>. QED
    BY <1>5, <2>1, SweepMoves, ExpireLeaseMoves DEF Clock
<1>6. CASE Losses
  <2>1. ASSUME UNCHANGED <<turn, starts, released, ask>> PROVE Moves
    BY <2>1, IInvSame
  <2>2. CASE (\E p \in Procs : Crash(p)) \/ (\E w \in Slots : DropSlot(w)) \/ LoseBell
    BY <2>1, <2>2 DEF Crash, DropSlot, LoseBell, rows, history
  <2>. QED
    BY <1>6, <2>2, ShutdownMoves DEF Losses
<1>. QED
  BY <1>1, <1>2, <1>3, <1>4, <1>5, <1>6 DEF Next

(* Every step keeps the inductive invariant. *)
LEMMA NextInv ==
  ASSUME IInv, [Next]_vars
  PROVE  IInv'
<1>1. CASE UNCHANGED vars
  BY <1>1 DEF vars, IInv, TypeOK, RowsOK, SingleRunning, SlotsOK, RoomKept, SlotOK, KeysOK,
     Used, Running, With, OpenAsks
<1>2. ASSUME NEW w \in Slots, Advance(w) PROVE IInv'
  BY <1>2, ClaimsKeep, EndsKeep DEF Advance
<1>. QED
  BY <1>1, <1>2, RequestsKeep, MidStreamKeeps, ClockKeeps, LossesKeep DEF Next

(* The inductive invariant holds in every reachable state. *)
LEMMA Invariant == Spec => []IInv
<1>. QED
  BY InitInv, NextInv, PTL DEF Spec

(* Every variable keeps its type through any number of restarts, stale     *)
(* writes and sweeps.                                                      *)
THEOREM TypeCorrect == Spec => []TypeOK
<1>1. IInv => TypeOK
  BY DEF IInv
<1>. QED
  BY <1>1, Invariant, PTL

(* Whatever claims, begins inline, requeues or writes a stale copy, a      *)
(* conversation has one running row at most, and a running row a lease.    *)
THEOREM OneSpeaker == Spec => []OneRunning
<1>1. IInv => OneRunning
  BY DEF IInv, SingleRunning, RowsOK, RowOK, OneRunning
<1>. QED
  BY <1>1, Invariant, PTL

(* A turn is started at most MAX_ATTEMPTS times, hand-backs not counted.   *)
THEOREM AttemptsAreCounted == Spec => []AttemptsCounted
<1>1. IInv => AttemptsCounted
  BY DEF IInv, RowsOK, RowOK, AttemptsCounted
<1>. QED
  BY <1>1, Invariant, PTL

(* No idempotency key has two rows.                                        *)
THEOREM KeysAreUnique == Spec => []KeysUnique
<1>1. IInv => KeysUnique
  BY DEF IInv, KeysOK, KeysUnique
<1>. QED
  BY <1>1, Invariant, PTL
-----------------------------------------------------------------------------
(* The rows implement the floor.                                           *)

(* An empty table is an empty floor. *)
LEMMA FloorInit == Init => TheFloor!Init
<1>1. NoRow.status = "absent" /\ NoRow.attempt = 0 /\ PhaseOf("absent") = "absent"
  BY DEF NoRow, PhaseOf
<1>. QED
  BY <1>1 DEF Init, TheFloor!Init

(* PhaseOf tells the phases apart.                                         *)
LEMMA Phase ==
  ASSUME NEW st \in Statuses
  PROVE  /\ PhaseOf(st) \in TheFloor!Phases
         /\ PhaseOf(st) = "absent" <=> st = "absent"
         /\ PhaseOf(st) = "waiting" <=> st = "queued"
         /\ PhaseOf(st) = "speaking" <=> st = "running"
         /\ PhaseOf(st) = "over" <=> st \in Over
BY DEF PhaseOf, Statuses, TheFloor!Phases, Over

(* A move of the rows is a step of the floor, or a stutter. *)
LEMMA FloorStep ==
  ASSUME IInv, Moves
  PROVE  TheFloor!Next
<1>1. /\ turn \in [Turns -> Row] /\ turn' \in [Turns -> Row]
      /\ RowsOK /\ RowsOK' /\ SingleRunning'
  BY MovesKeep DEF IInv, TypeOK
<1>2. \A t \in Turns : turn[t].status \in Statuses /\ turn'[t].status \in Statuses
  BY <1>1 DEF Row, Columns
<1>3. MaxAttempts \in Nat /\ \A t \in Turns :
        /\ turn[t].attempt \in 0..MaxAttempts /\ turn'[t].attempt \in 0..MaxAttempts
  BY <1>1, RowConstants DEF Row, Columns, RowsOK, RowOK
<1>4. ASSUME NEW t \in Turns
      PROVE  TheFloor!Move(t)
  <2>. DEFINE x == turn[t]
              y == turn'[t]
  <2>1. /\ RowStep(x, y, starts[t], starts'[t], released[t], released'[t])
        /\ RowOK(x, starts[t], released[t])
    BY <1>1 DEF Moves, RowsMove, RowsOK
  <2>2. /\ x.status \in Statuses /\ y.status \in Statuses
        /\ x.attempt \in Nat /\ y.attempt \in Nat
    BY <1>2, <1>3
  <2>3. CASE Keeps(x, y)
    <3>1. TheFloor!Stay(t)
      BY <2>2, <2>3 DEF Keeps, TheFloor!Stay, TheFloor!Costs
    <3>. QED
      BY <3>1 DEF TheFloor!Move
  <2>4. CASE Adds(x, y)
    <3>1. TheFloor!Admit(t)
      BY <2>1, <2>2, <2>4, Phase DEF Adds, RowOK, TheFloor!Admit, TheFloor!Goes,
         TheFloor!Costs
    <3>. QED
      BY <3>1 DEF TheFloor!Move
  <2>5. CASE Ends(x, y)
    <3>1. CASE x.status \in Over
      <4>1. TheFloor!Stay(t)
        BY <2>2, <2>5, <3>1, Phase DEF Ends, TheFloor!Stay, TheFloor!Costs
      <4>. QED
        BY <4>1 DEF TheFloor!Move
    <3>2. CASE x.status \in {"queued", "running"}
      <4>1. TheFloor!End(t)
        BY <2>2, <2>5, <3>2, Phase DEF Ends, TheFloor!End, TheFloor!Goes, TheFloor!Costs
      <4>. QED
        BY <4>1 DEF TheFloor!Move
    <3>. QED
      BY <2>2, <2>5, <3>1, <3>2 DEF Ends, Statuses, Over
  <2>6. CASE Lapses(x, y)
    <3>1. TheFloor!Lapse(t)
      BY <2>2, <2>6, Phase DEF Lapses, TheFloor!Lapse, TheFloor!Goes, TheFloor!Costs
    <3>. QED
      BY <3>1 DEF TheFloor!Move
  <2>7. CASE HandsBack(x, y)
    <3>1. TheFloor!HandBack(t)
      BY <2>1, <2>2, <2>7, Phase DEF HandsBack, RowOK, TheFloor!HandBack, TheFloor!Goes
    <3>. QED
      BY <3>1 DEF TheFloor!Move
  <2>8. CASE Begins(x, y)
    <3>1. FloorFree
      BY <2>8 DEF Moves, RowsMove, StartsOne, Begins
    <3>2. \A u \in Turns : PhaseOf(turn[u].status) # "speaking"
      BY <1>2, <3>1, Phase DEF FloorFree, Running, With
    <3>3. TheFloor!Goes(t, {"absent", "waiting"}, "speaking") /\ TheFloor!Costs(t, 1)
      BY <2>2, <2>8, Phase DEF Begins, TheFloor!Goes, TheFloor!Costs
    <3>4. TheFloor!Speak(t)
      BY <3>2, <3>3 DEF TheFloor!Speak
    <3>. QED
      BY <3>4 DEF TheFloor!Move
  <2>9. CASE Refuses(x, y)
    <3>1. TheFloor!End(t)
      BY <2>2, <2>9, Phase DEF Refuses, Over, TheFloor!End, TheFloor!Goes, TheFloor!Costs
    <3>. QED
      BY <3>1 DEF TheFloor!Move
  <2>. QED
    BY <2>1, <2>3, <2>4, <2>5, <2>6, <2>7, <2>8, <2>9 DEF RowStep, Quiet
<1>5. \A t, u \in Turns : PhaseOf(turn'[t].status) = "speaking"
                          /\ PhaseOf(turn'[u].status) = "speaking" => t = u
  BY <1>1, <1>2, Phase DEF SingleRunning, Running, With
<1>6. \A t \in Turns : PhaseOf(turn'[t].status) \in TheFloor!Phases
  BY <1>2, Phase
<1>. QED
  BY <1>3, <1>4, <1>5, <1>6 DEF TheFloor!Next

(* The rows implement the floor: one speaker, taken from a free floor,     *)
(* bounded tries, and nothing that is over comes back.                     *)
THEOREM FloorImplemented == Spec => ImplementsFloor
<1>1. IInv /\ [Next]_vars => [TheFloor!Next]_TheFloor!vars
  BY NextMoves, FloorStep
<1>. QED
  BY <1>1, FloorInit, Invariant, PTL DEF Spec, ImplementsFloor, TheFloor!Spec
=============================================================================
