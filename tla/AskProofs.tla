----------------------------- MODULE AskProofs -----------------------------
(***************************************************************************)
(* Proofs about the questions of AgentTurns, for every number of agents,   *)
(* asks, slots and processes: which rows carry a question or an answer,    *)
(* what becomes of both, which turns a shutdown hands back, and how many   *)
(* turns agents may start in an episode.                                   *)
(*                                                                         *)
(* DeedsMove says what a step may do to the columns that tell why a turn   *)
(* is there and to the asks; every action is shown to do only that, and    *)
(* AskInv follows from it.                                                 *)
(***************************************************************************)
EXTENDS AgentTurnsProofs

-----------------------------------------------------------------------------
(* The inductive invariant.                                                *)

(* Why a row is there: a waiting one is not an inline one, and the key of  *)
(* a question's or an answer's turn, and no other, names its ask.          *)
DeedOK(x) ==
  /\ x.status = "queued" => x.cause # "inline"
  /\ \A c \in {"ask", "answer"} :
       /\ x.key[1] = c <=> x.cause = c
       /\ x.cause = c => x.key = <<c, x.ask, Nobody>>

(* The turn of a question belongs to one that was asked, in its episode.   *)
AskRowOK(x, q) ==
  x.cause = "ask" => q[x.ask].status # "absent" /\ q[x.ask].episode = x.episode

DeedsOK == \A t \in Used(turn) : DeedOK(turn[t]) /\ AskRowOK(turn[t], ask)

(* No coroutine streams a question's turn outside the queue.               *)
InlineOK ==
  \A w \in Slots : slot[w].pc = "inline" => turn[slot[w].turn].cause # "ask"

AskInv == DeedsOK /\ InlineOK /\ AskPairs /\ OpenAskHasTurn /\ AnswerComesBack

(* What OpenAskHasTurn asks of a turn: it may still speak, or it is one of *)
(* the two ways out that leave the question open.                          *)
Carries(x) == x.status \in Open \/ x.status = "failed" \/ x.outcome = "stale"

CarriesAsk(x, k) == x.cause = "ask" /\ x.ask = k /\ Carries(x)

Replied(r, q, s, k) ==
  \/ \E t \in Used(r) : r[t].cause = "answer" /\ r[t].ask = k
  \/ \E e \in s : q[k].episode \in {0, e}

-----------------------------------------------------------------------------
(* What a step may do.                                                     *)

(* A used row stays used, what it is for stays, and it starts to wait only *)
(* as what a worker can run.                                               *)
SameDeed(x, y) ==
  /\ y.status # "absent"
  /\ y.ask = x.ask /\ y.key = x.key /\ y.episode = x.episode /\ y.by = x.by
  /\ y.cause = x.cause \/ (x.cause = "inline" /\ y.cause = "human")
  /\ y.status = "queued" => x.status = "queued" \/ y.cause # "inline"

(* Rows are rewritten or added.                                            *)
DeedsTo(r, r1, q) ==
  /\ \A t \in Used(r) : SameDeed(r[t], r1[t])
  /\ \A t \in Turns \ Used(r) :
       r1[t].status # "absent" => DeedOK(r1[t]) /\ AskRowOK(r1[t], q)

(* Once asked, a question keeps who asked whom in which episode, and once  *)
(* closed its end.                                                         *)
SameAsk(x, y) ==
  x.status # "absent" =>
    /\ y.status # "absent"
    /\ y.from = x.from /\ y.to = x.to /\ y.episode = x.episode
    /\ x.status # "open" => y.status = x.status

(* An open question keeps the turns that carry it.                         *)
TurnsKept(k) ==
  \A t \in Used(turn) : CarriesAsk(turn[t], k) => Carries(turn'[t])

(* Nobody goes inline with a question's turn.                              *)
InlineMove ==
  \A w \in Slots : slot'[w].pc = "inline" =>
    \/ slot[w].pc = "inline" /\ slot'[w].turn = slot[w].turn
    \/ turn'[slot'[w].turn].cause # "ask"

DeedsMove ==
  /\ DeedsTo(turn, turn', ask')
  /\ \A k \in AskIds : SameAsk(ask[k], ask'[k])
  /\ \A k \in OpenAsks(ask') :
       \/ k \in OpenAsks(ask) /\ TurnsKept(k)
       \/ \E t \in Used(turn') : CarriesAsk(turn'[t], k)
  /\ \A k \in AskIds : ask'[k].status = "answered" =>
       ask[k].status = "answered" \/ Replied(turn', ask', stopLine', k)
  /\ OpenAsks(ask') \subseteq OpenAsks(ask) \/ AskPairs'
  /\ stopLine \subseteq stopLine'
  /\ InlineMove

(* A step that moves deeds and asks as DeedsMove allows keeps AskInv.      *)
LEMMA DeedsKeep ==
  ASSUME IInv, AskInv, DeedsMove
  PROVE  AskInv'
<1>1. /\ turn \in [Turns -> Row] /\ ask \in [AskIds -> Ask]
      /\ Used(turn) \subseteq Turns /\ Used(turn') \subseteq Turns
  BY DEF IInv, TypeOK, Used
<1>2. \A t \in Used(turn) : t \in Used(turn') /\ SameDeed(turn[t], turn'[t])
  BY <1>1 DEF DeedsMove, DeedsTo, SameDeed, Used
<1>3. \A t \in Used(turn) : turn[t].cause = "ask" => turn[t].ask \in AskIds
  BY <1>1 DEF Row, Columns
<1>4. DeedsOK'
  <2>. SUFFICES ASSUME NEW t \in Used(turn')
                PROVE  DeedOK(turn'[t]) /\ AskRowOK(turn'[t], ask')
    BY DEF DeedsOK
  <2>1. CASE t \in Used(turn)
    <3>1. SameDeed(turn[t], turn'[t]) /\ DeedOK(turn[t]) /\ AskRowOK(turn[t], ask)
      BY <1>2, <2>1 DEF AskInv, DeedsOK
    <3>2. DeedOK(turn'[t])
      BY <3>1 DEF SameDeed, DeedOK
    <3>3. turn'[t].cause = "ask" => turn[t].cause = "ask" /\ turn'[t].ask = turn[t].ask
      BY <3>1 DEF SameDeed
    <3>4. AskRowOK(turn'[t], ask')
      BY <1>3, <2>1, <3>1, <3>3 DEF AskRowOK, DeedsMove, SameAsk, SameDeed
    <3>. QED
      BY <3>2, <3>4
  <2>2. CASE t \notin Used(turn)
    BY <1>1, <2>2 DEF DeedsMove, DeedsTo, Used
  <2>. QED
    BY <2>1, <2>2
<1>5. InlineOK'
  <2>. SUFFICES ASSUME NEW w \in Slots, slot'[w].pc = "inline"
                PROVE  turn'[slot'[w].turn].cause # "ask"
    BY DEF InlineOK
  <2>1. CASE slot[w].pc = "inline" /\ slot'[w].turn = slot[w].turn
    <3>. DEFINE t == slot[w].turn
    <3>1. t \in Used(turn) /\ turn[t].cause # "ask"
      BY <2>1, SlotTurn DEF Used, AskInv, InlineOK
    <3>. QED
      BY <1>2, <2>1, <3>1 DEF SameDeed
  <2>. QED
    BY <2>1 DEF DeedsMove, InlineMove
<1>6. AskPairs'
  <2>1. CASE OpenAsks(ask') \subseteq OpenAsks(ask)
    <3>1. \A k \in OpenAsks(ask') : /\ k \in OpenAsks(ask)
                                    /\ ask'[k].from = ask[k].from /\ ask'[k].to = ask[k].to
      BY <2>1 DEF DeedsMove, SameAsk, OpenAsks
    <3>. QED
      BY <3>1 DEF AskInv, AskPairs
  <2>. QED
    BY <2>1 DEF DeedsMove
<1>7. OpenAskHasTurn'
  <2>. SUFFICES ASSUME NEW k \in OpenAsks(ask')
                PROVE  \E t \in Used(turn') : CarriesAsk(turn'[t], k)
    BY DEF OpenAskHasTurn, CarriesAsk, Carries
  <2>1. CASE k \in OpenAsks(ask) /\ TurnsKept(k)
    <3>1. PICK t \in Used(turn) : CarriesAsk(turn[t], k)
      BY <2>1 DEF AskInv, OpenAskHasTurn, CarriesAsk, Carries
    <3>2. Carries(turn'[t])
      BY <2>1, <3>1 DEF TurnsKept
    <3>. QED
      BY <1>2, <3>1, <3>2 DEF SameDeed, CarriesAsk
  <2>. QED
    BY <2>1 DEF DeedsMove
<1>8. AnswerComesBack'
  <2>. SUFFICES ASSUME NEW k \in AskIds, ask'[k].status = "answered"
                PROVE  Replied(turn', ask', stopLine', k)
    BY DEF AnswerComesBack, Replied
  <2>1. CASE ask[k].status = "answered"
    <3>1. Replied(turn, ask, stopLine, k)
      BY <2>1 DEF AskInv, AnswerComesBack, Replied
    <3>2. CASE \E t \in Used(turn) : turn[t].cause = "answer" /\ turn[t].ask = k
      BY <1>2, <3>2 DEF SameDeed, Replied
    <3>3. CASE \E e \in stopLine : ask[k].episode \in {0, e}
      BY <2>1, <3>3 DEF DeedsMove, SameAsk, Replied
    <3>. QED
      BY <3>1, <3>2, <3>3 DEF Replied
  <2>. QED
    BY <2>1 DEF DeedsMove
<1>. QED
  BY <1>4, <1>5, <1>6, <1>7, <1>8 DEF AskInv

-----------------------------------------------------------------------------
(* Rows that are written again or added.                                   *)

(* Ending a row leaves what it is for. *)
LEMMA EndedDeed ==
  ASSUME NEW x \in Row, NEW s \in Over, NEW o
  PROVE  SameDeed(x, Ended(x, s, o))
BY DEF Ended, SameDeed, Over, Row, Columns

(* So does a claim. *)
LEMMA ClaimedDeed ==
  ASSUME NEW x \in Row
  PROVE  SameDeed(x, Claimed(x)) /\ Carries(Claimed(x))
BY DEF Claimed, SameDeed, Row, Columns, Carries, Open

(* Back on the queue, only an inline row changes, to a human one. *)
LEMMA RequeuedDeed ==
  ASSUME NEW x \in Row, NEW n
  PROVE  SameDeed(x, Requeued(x, n)) /\ Carries(Requeued(x, n))
BY DEF Requeued, SameDeed, Row, Columns, Carries, Open

(* The row execute_turn writes is for what the claimed one was. *)
LEMMA WrittenDeed ==
  ASSUME NEW s, NEW x \in Row, x.status # "absent", NEW n
  PROVE  SameDeed(x, WrittenRow(s, x, n))
BY DEF WrittenRow, SameDeed, Row, Columns

(* A row that stays as it is is for what it was. *)
LEMMA DeedsSame ==
  ASSUME NEW r \in [Turns -> Row], NEW q
  PROVE  DeedsTo(r, r, q)
BY DEF DeedsTo, SameDeed, Used

(* An INSERT leaves the used rows alone. *)
LEMMA InsertLeaves ==
  ASSUME NEW r \in [Turns -> Row], Used(r) # Turns, NEW x
  PROVE  \A t \in Turns : /\ t \in Used(r) => Insert(r, x)[t] = r[t]
                          /\ Insert(r, x)[t] \in {r[t], x}
<1>1. NextTurn(r) \in Turns \ Used(r)
  BY NextTurnFree
<1>. QED
  BY <1>1 DEF Insert

(* Rewritten rows and one more that is in order. *)
LEMMA DeedsInsert ==
  ASSUME NEW r \in [Turns -> Row], NEW r0 \in [Turns -> Row], NEW q, DeedsTo(r, r0, q),
         Used(r0) # Turns, NEW x, DeedOK(x), AskRowOK(x, q)
  PROVE  DeedsTo(r, Insert(r0, x), q)
<1>1. \A t \in Turns : /\ t \in Used(r0) => Insert(r0, x)[t] = r0[t]
                       /\ Insert(r0, x)[t] \in {r0[t], x}
  BY InsertLeaves
<1>2. \A t \in Used(r) : t \in Turns /\ t \in Used(r0)
  BY DEF DeedsTo, SameDeed, Used
<1>3. \A t \in Used(r) : SameDeed(r[t], Insert(r0, x)[t])
  BY <1>1, <1>2 DEF DeedsTo
<1>4. \A t \in Turns \ Used(r) : Insert(r0, x)[t].status # "absent" =>
        DeedOK(Insert(r0, x)[t]) /\ AskRowOK(Insert(r0, x)[t], q)
  <2>. SUFFICES ASSUME NEW t \in Turns \ Used(r), Insert(r0, x)[t].status # "absent"
                PROVE  DeedOK(Insert(r0, x)[t]) /\ AskRowOK(Insert(r0, x)[t], q)
    OBVIOUS
  <2>1. CASE Insert(r0, x)[t] = r0[t]
    BY <2>1 DEF DeedsTo
  <2>2. CASE Insert(r0, x)[t] = x
    BY <2>2
  <2>. QED
    BY <1>1, <2>1, <2>2
<1>. QED
  BY <1>3, <1>4 DEF DeedsTo

(* A turn nobody asked for and that answers nobody is in order. *)
LEMMA PlainDeed ==
  ASSUME NEW a, NEW c, c \notin {"ask", "answer", "inline"}, NEW b, NEW e, NEW key,
         key[1] \notin {"ask", "answer"}, NEW q
  PROVE  LET x == NewTurn(a, c, b, 0, e, key) IN DeedOK(x) /\ AskRowOK(x, q)
BY DEF NewTurn, NoRow, DeedOK, AskRowOK

(* The keys that name neither a question nor an answer. *)
LEMMA PlainKeys ==
  ASSUME NEW n, NEW a
  PROVE  \A c \in {"msg", "voice", "recover", "own"} : <<c, n, a>>[1] \notin {"ask", "answer"}
OBVIOUS

-----------------------------------------------------------------------------
(* Steps and the asks.                                                     *)

(* Where no coroutine moves, none goes inline. *)
LEMMA InlineStays ==
  ASSUME UNCHANGED slot
  PROVE  InlineMove
BY DEF InlineMove

(* Nor where one moves to something else. *)
LEMMA InlineSteps ==
  ASSUME IInv, NEW w \in Slots, NEW s, Steps(w, s),
         s.pc = "inline" => slot[w].pc = "inline" /\ s.turn = slot[w].turn
  PROVE  InlineMove
BY DEF InlineMove, Steps, IInv, TypeOK

(* Nor where a process goes. *)
LEMMA InlineKilled ==
  ASSUME IInv, NEW p, Kill(p)
  PROVE  InlineMove
BY SlotTypes DEF InlineMove, Kill, IInv, TypeOK

(* An ask that stays as it is is the same ask. *)
LEMMA AsksSame ==
  ASSUME UNCHANGED ask
  PROVE  /\ \A k \in AskIds : SameAsk(ask[k], ask'[k])
         /\ OpenAsks(ask') \subseteq OpenAsks(ask)
         /\ \A k \in AskIds : ask'[k].status = "answered" => ask[k].status = "answered"
BY DEF SameAsk, OpenAsks

(* A step that opens no question and answers none.                         *)
LEMMA DeedsOnly ==
  ASSUME DeedsTo(turn, turn', ask'), \A k \in AskIds : SameAsk(ask[k], ask'[k]),
         OpenAsks(ask') \subseteq OpenAsks(ask), \A k \in OpenAsks(ask') : TurnsKept(k),
         \A k \in AskIds : ask'[k].status = "answered" => ask[k].status = "answered",
         stopLine \subseteq stopLine', InlineMove
  PROVE  DeedsMove
BY DEF DeedsMove

(* Such a step that leaves the asks alone.                                 *)
LEMMA DeedsQuiet ==
  ASSUME UNCHANGED ask, DeedsTo(turn, turn', ask), \A k \in OpenAsks(ask) : TurnsKept(k),
         stopLine \subseteq stopLine', InlineMove
  PROVE  DeedsMove
BY AsksSame, DeedsOnly

(* A step that moves neither rows nor asks.                                *)
LEMMA DeedsStay ==
  ASSUME IInv, UNCHANGED <<turn, ask, stopLine>>, InlineMove
  PROVE  DeedsMove
<1>1. DeedsTo(turn, turn', ask)
  BY DeedsSame DEF IInv, TypeOK
<1>2. \A k \in OpenAsks(ask) : TurnsKept(k)
  BY DEF TurnsKept, CarriesAsk
<1>. QED
  BY <1>1, <1>2, DeedsQuiet

(* A cancellation closes the questions the rows it hits carried.           *)
LEMMA CancelDeeds ==
  ASSUME IInv, NEW hit \in SUBSET With(turn, Open), NEW o
  PROVE  LET r == CancelRows(turn, hit, o)
             q == CancelAsks(ask, turn, hit)
         IN  /\ DeedsTo(turn, r, q)
             /\ \A k \in AskIds : SameAsk(ask[k], q[k])
             /\ OpenAsks(q) \subseteq OpenAsks(ask)
             /\ \A k \in AskIds : q[k].status = "answered" => ask[k].status = "answered"
             /\ \A k \in OpenAsks(q), t \in Used(turn) :
                  CarriesAsk(turn[t], k) => r[t] = turn[t]
<1>. DEFINE r == CancelRows(turn, hit, o)
            q == CancelAsks(ask, turn, hit)
<1>1. turn \in [Turns -> Row] /\ ask \in [AskIds -> Ask]
  BY DEF IInv, TypeOK
<1>2. \A t \in Turns : r[t] = IF t \in hit THEN Ended(turn[t], "cancelled", o) ELSE turn[t]
  BY DEF CancelRows
<1>3. \A k \in AskIds :
        q[k] = IF ask[k].status = "open" /\ \E t \in hit : turn[t].ask = k
               THEN [ask[k] EXCEPT !.status = "cancelled"] ELSE ask[k]
  BY DEF CancelAsks
<1>. HIDE DEF r, q
<1>4. \A k \in AskIds : SameAsk(ask[k], q[k])
  <2>. SUFFICES ASSUME NEW k \in AskIds PROVE SameAsk(ask[k], q[k])
    OBVIOUS
  <2>1. ask[k] \in Ask
    BY <1>1
  <2>2. q[k] = ask[k] \/ (ask[k].status = "open" /\ q[k] = [ask[k] EXCEPT !.status = "cancelled"])
    BY <1>3
  <2>. QED
    BY <2>1, <2>2 DEF SameAsk, Ask
<1>5. OpenAsks(q) \subseteq OpenAsks(ask)
      /\ \A k \in AskIds : q[k].status = "answered" => ask[k].status = "answered"
  BY <1>1, <1>3 DEF OpenAsks, Ask
<1>6. \A k \in OpenAsks(q), t \in Used(turn) : CarriesAsk(turn[t], k) => r[t] = turn[t]
  BY <1>1, <1>2, <1>3 DEF OpenAsks, Ask, CarriesAsk, Used
<1>7. DeedsTo(turn, r, q)
  <2>1. \A t \in Used(turn) : SameDeed(turn[t], r[t])
    <3>. SUFFICES ASSUME NEW t \in Used(turn) PROVE SameDeed(turn[t], r[t])
      OBVIOUS
    <3>1. t \in Turns /\ turn[t] \in Row /\ turn[t].status # "absent" /\ "cancelled" \in Over
      BY <1>1 DEF Used, Over
    <3>2. SameDeed(turn[t], Ended(turn[t], "cancelled", o)) /\ SameDeed(turn[t], turn[t])
      BY <3>1, EndedDeed DEF SameDeed
    <3>. QED
      BY <1>2, <3>1, <3>2
  <2>2. \A t \in Turns \ Used(turn) : r[t].status = "absent"
    BY <1>2 DEF Used, With, Open
  <2>. QED
    BY <2>1, <2>2 DEF DeedsTo
<1>. QED
  BY <1>4, <1>5, <1>6, <1>7 DEF r, q

-----------------------------------------------------------------------------
(* Requests.                                                               *)

(* Cancelled rows, and rows in order added to them.                        *)
LEMMA CancelMove ==
  ASSUME IInv, NEW hit \in SUBSET With(turn, Open), NEW o,
         DeedsTo(turn, turn', ask'), ask' = CancelAsks(ask, turn, hit),
         \A t \in Used(turn) : turn'[t] = CancelRows(turn, hit, o)[t],
         UNCHANGED <<slot, stopLine>>
  PROVE  DeedsMove
<1>. DEFINE r == CancelRows(turn, hit, o)
<1>1. /\ \A k \in AskIds : SameAsk(ask[k], ask'[k])
      /\ OpenAsks(ask') \subseteq OpenAsks(ask)
      /\ \A k \in AskIds : ask'[k].status = "answered" => ask[k].status = "answered"
      /\ \A k \in OpenAsks(ask'), t \in Used(turn) : CarriesAsk(turn[t], k) => r[t] = turn[t]
  BY CancelDeeds
<1>. HIDE DEF r
<1>2. \A k \in OpenAsks(ask') : TurnsKept(k)
  BY <1>1 DEF TurnsKept, CarriesAsk, r
<1>. QED
  BY <1>1, <1>2, InlineStays, DeedsOnly

(* A human message at the room's own ask moves deeds as allowed. *)
LEMMA PostAskDeeds ==
  ASSUME IInv, PostAsk
  PROVE  DeedsMove
<1>. DEFINE hit == Queued(turn)
<1>1. /\ turn' = CancelRows(turn, hit, "superseded") /\ ask' = CancelAsks(ask, turn, hit)
      /\ UNCHANGED <<slot, stopLine>>
  BY DEF PostAsk
<1>2. hit \in SUBSET With(turn, Open)
  BY QueuedOpen
<1>3. DeedsTo(turn, turn', ask')
  BY <1>1, <1>2, CancelDeeds
<1>. QED
  BY <1>1, <1>2, <1>3, CancelMove

(* So does the stop endpoint. *)
LEMMA StopDeeds ==
  ASSUME IInv, Stop
  PROVE  DeedsMove
<1>. DEFINE hit == With(turn, Open)
<1>1. /\ turn' = CancelRows(turn, hit, "stopped") /\ ask' = CancelAsks(ask, turn, hit)
      /\ UNCHANGED <<slot, stopLine>>
  BY DEF Stop
<1>2. DeedsTo(turn, turn', ask')
  BY <1>1, CancelDeeds
<1>. QED
  BY <1>1, <1>2, CancelMove

(* So does a spoken message. *)
LEMMA PostIntercomDeeds ==
  ASSUME IInv, NEW a \in Agents, PostIntercom(a)
  PROVE  DeedsMove
<1>. DEFINE m == latest + 1
            hit == With(turn, Open)
            r0 == CancelRows(turn, hit, "superseded")
            x == NewTurn(a, "human", Nobody, 0, m, <<"voice", m, a>>)
<1>1. /\ turn' = Insert(r0, x) /\ ask' = CancelAsks(ask, turn, hit)
      /\ UNCHANGED <<slot, stopLine>> /\ Room(turn, ask) /\ NoLock(hit)
  BY DEF PostIntercom
<1>2. QuietTo(turn, r0) /\ Used(r0) = Used(turn)
  BY <1>1, CancelRowsIs DEF IInv, TypeOK, Outcomes
<1>3. turn \in [Turns -> Row] /\ r0 \in [Turns -> Row] /\ Used(r0) # Turns
  BY <1>1, <1>2, RoomOne DEF QuietTo, IInv, TypeOK
<1>4. DeedsTo(turn, r0, ask')
  BY <1>1, CancelDeeds
<1>5. DeedOK(x) /\ AskRowOK(x, ask')
  BY PlainDeed
<1>. HIDE DEF r0, x, hit
<1>6. DeedsTo(turn, turn', ask')
  BY <1>1, <1>3, <1>4, <1>5, DeedsInsert
<1>7. \A t \in Used(turn) : turn'[t] = r0[t]
  BY <1>1, <1>2, <1>3, InsertLeaves DEF Used
<1>. QED
  BY <1>1, <1>6, <1>7, CancelMove DEF r0, hit

(* So do the turns of a message. *)
LEMMA PostMessageDeeds ==
  ASSUME IInv, NEW a \in Agents, NEW b \in Agents, NEW to,
         to = <<a>> \/ to = <<a, b>>, PostMessage(to)
  PROVE  DeedsMove
<1>. DEFINE m == latest + 1
            hit == {t \in Queued(turn) : turn[t].episode # m}
            r0 == CancelRows(turn, hit, "superseded")
            new(c) == NewTurn(c, "human", Nobody, 0, m, <<"msg", m, c>>)
            r1 == Insert(r0, new(a))
            n == Len(to)
<1>1. /\ turn' = IF n = 1 THEN r1 ELSE Insert(r1, new(b))
      /\ ask' = CancelAsks(ask, turn, hit) /\ UNCHANGED <<slot, stopLine>>
      /\ n = 1 \/ n = 2
      /\ Cardinality(Used(turn)) + Cardinality(OpenAsks(ask)) + n <= MaxTurns
      /\ m <= MaxMessages /\ NoLock(hit)
  BY DEF PostMessage
<1>2. hit \in SUBSET With(turn, Open) /\ "superseded" \in Outcomes
  BY QueuedOpen DEF Outcomes
<1>3. QuietTo(turn, r0) /\ Used(r0) = Used(turn)
  BY <1>1, <1>2, CancelRowsIs DEF IInv, TypeOK
<1>4. DeedsTo(turn, r0, ask')
  BY <1>1, <1>2, CancelDeeds
<1>5. \A c \in Agents : /\ DeedOK(new(c)) /\ AskRowOK(new(c), ask')
                        /\ new(c) \in Row
  <2>1. m \in Episodes /\ m \in Nat
    BY <1>1, MessageEpisode, NatTypes
  <2>. SUFFICES ASSUME NEW c \in Agents
                PROVE  DeedOK(new(c)) /\ AskRowOK(new(c), ask') /\ new(c) \in Row
    OBVIOUS
  <2>2. <<"msg", m, c>> \in Keys
    BY <2>1, KeyKindsIn
  <2>. QED
    BY <2>1, <2>2, HumanTurn, PlainDeed
<1>6. n \in Nat \ {0} /\ Cardinality(Used(turn)) + n <= MaxTurns /\ Used(turn) # Turns
  BY <1>1, RoomLeft
<1>. HIDE DEF m, hit, r0, r1, new, n
<1>7. turn \in [Turns -> Row] /\ r0 \in [Turns -> Row] /\ r1 \in [Turns -> Row]
  BY <1>3, <1>5, InsertType DEF r1, QuietTo, IInv, TypeOK
<1>8. DeedsTo(turn, r1, ask') /\ \A t \in Used(turn) : t \in Used(r1) /\ r1[t] = r0[t]
  <2>1. DeedsTo(turn, r1, ask')
    BY <1>3, <1>4, <1>5, <1>6, <1>7, DeedsInsert DEF r1
  <2>2. \A t \in Used(turn) : r1[t] = r0[t]
    BY <1>3, <1>6, <1>7, InsertLeaves DEF r1, Used
  <2>. QED
    BY <1>3, <2>1, <2>2 DEF Used
<1>9. DeedsTo(turn, turn', ask') /\ \A t \in Used(turn) : turn'[t] = r0[t]
  <2>1. CASE n = 1
    BY <1>1, <1>8, <2>1
  <2>2. CASE n = 2
    <3>1. turn' = Insert(r1, new(b))
      BY <1>1, <2>2
    <3>2. Used(r1) # Turns
      <4>1. /\ Cardinality(Used(r1)) \in Nat /\ Cardinality(Used(turn)) \in Nat
            /\ MaxTurns \in Nat
        BY <1>7, Counts
      <4>2. Cardinality(Used(r1)) <= Cardinality(Used(turn)) + 1
        BY <1>3, <1>5, <1>7, InsertUses DEF r1
      <4>3. Cardinality(Used(r1)) < MaxTurns
        BY <1>6, <2>2, <4>1, <4>2
      <4>. QED
        BY <4>3, RowsLeft
    <3>3. DeedsTo(turn, turn', ask')
      BY <1>5, <1>7, <1>8, <3>1, <3>2, DeedsInsert
    <3>4. \A t \in Used(turn) : turn'[t] = r0[t]
      BY <1>7, <1>8, <3>1, <3>2, InsertLeaves DEF Used
    <3>. QED
      BY <3>3, <3>4
  <2>. QED
    BY <1>1, <2>1, <2>2
<1>. QED
  BY <1>1, <1>2, <1>9, CancelMove DEF r0

(* A row in order is queued, and no ask moves.                             *)
LEMMA QueueDeeds ==
  ASSUME IInv, Used(turn) # Turns, NEW x, DeedOK(x), AskRowOK(x, ask),
         turn' = Insert(turn, x), UNCHANGED ask, stopLine \subseteq stopLine', InlineMove
  PROVE  DeedsMove
<1>1. turn \in [Turns -> Row]
  BY DEF IInv, TypeOK
<1>2. DeedsTo(turn, turn', ask)
  BY <1>1, DeedsSame, DeedsInsert
<1>3. \A t \in Used(turn) : turn'[t] = turn[t]
  BY <1>1, InsertLeaves DEF Used
<1>4. \A k \in OpenAsks(ask) : TurnsKept(k)
  BY <1>3 DEF TurnsKept, CarriesAsk
<1>. QED
  BY <1>2, <1>4, DeedsQuiet

(* A repeated wake moves deeds as allowed. *)
LEMMA WakeForDeeds ==
  ASSUME IInv, NEW m, NEW a \in Agents, WakeFor(m, a)
  PROVE  DeedsMove
<1>. DEFINE x == NewTurn(a, "human", Nobody, 0, m, <<"msg", m, a>>)
<1>1. turn' = Insert(turn, x) /\ Room(turn, ask) /\ UNCHANGED <<ask, stopLine, slot>>
  BY DEF WakeFor
<1>2. DeedOK(x) /\ AskRowOK(x, ask)
  BY PlainDeed
<1>. HIDE DEF x
<1>. QED
  BY <1>1, <1>2, RoomOne, InlineStays, QueueDeeds

(* So does a wake by the system. *)
LEMMA WakeBySystemDeeds ==
  ASSUME IInv, NEW a \in Agents, WakeBySystem(a)
  PROVE  DeedsMove
<1>. DEFINE x == NewTurn(a, "system", Nobody, 0, latest, OwnKey(turn))
<1>1. turn' = Insert(turn, x) /\ Room(turn, ask) /\ UNCHANGED <<ask, stopLine, slot>>
  BY DEF WakeBySystem
<1>2. DeedOK(x) /\ AskRowOK(x, ask)
  BY PlainDeed DEF OwnKey
<1>. HIDE DEF x
<1>. QED
  BY <1>1, <1>2, RoomOne, InlineStays, QueueDeeds

(* Requests move deeds as allowed. *)
LEMMA RequestsDeeds ==
  ASSUME IInv, Requests
  PROVE  DeedsMove
BY PostMessageDeeds, PostAskDeeds, PostIntercomDeeds, WakeForDeeds, WakeBySystemDeeds,
   StopDeeds DEF Requests

-----------------------------------------------------------------------------
(* Slots, the clock and losses.                                            *)

(* Rows are rewritten, and those that carried a question still do.         *)
LEMMA RewriteDeeds ==
  ASSUME IInv, UNCHANGED <<ask, stopLine>>, InlineMove,
         \A t \in Turns \ Used(turn) : turn'[t] = turn[t],
         \A t \in Used(turn) :
           \/ turn'[t] = turn[t]
           \/ /\ SameDeed(turn[t], turn'[t])
              /\ turn[t].cause = "ask" => Carries(turn'[t])
  PROVE  DeedsMove
<1>1. \A t \in Used(turn) : SameDeed(turn[t], turn[t])
  BY DEF SameDeed, Used
<1>2. DeedsTo(turn, turn', ask)
  BY <1>1 DEF DeedsTo, Used
<1>3. \A k \in OpenAsks(ask) : TurnsKept(k)
  BY DEF TurnsKept, CarriesAsk
<1>. QED
  BY <1>2, <1>3, DeedsQuiet

(* One row is written again.                                               *)
LEMMA PointDeeds ==
  ASSUME IInv, NEW t \in Used(turn), NEW y, SameDeed(turn[t], y),
         turn[t].cause = "ask" => Carries(y), turn' = [turn EXCEPT ![t] = y],
         UNCHANGED <<ask, stopLine>>, InlineMove
  PROVE  DeedsMove
<1>1. turn \in [Turns -> Row] /\ t \in Turns
  BY DEF IInv, TypeOK, Used
<1>2. turn'[t] = y /\ \A u \in Turns \ {t} : turn'[u] = turn[u]
  BY <1>1
<1>3. \A u \in Turns \ Used(turn) : turn'[u] = turn[u]
  BY <1>2
<1>4. \A u \in Used(turn) : \/ turn'[u] = turn[u]
                            \/ /\ SameDeed(turn[u], turn'[u])
                               /\ turn[u].cause = "ask" => Carries(turn'[u])
  BY <1>2 DEF Used
<1>. QED
  BY <1>3, <1>4, RewriteDeeds

(* The turn of a coroutine that has one is used. *)
LEMMA SlotUsed ==
  ASSUME IInv, NEW w \in Slots, slot[w].pc \notin {"idle", "draining"}
  PROVE  slot[w].turn \in Used(turn) /\ turn[slot[w].turn] \in Row /\ slot[w] \in Slot
BY SlotTurn DEF Used

(* The steps up to a claim move deeds as allowed. *)
LEMMA ClaimsDeeds ==
  ASSUME IInv, NEW w \in Slots,
         StartDrain(w) \/ ClaimLock(w) \/ ClaimNothing(w) \/ ClaimCommit(w)
           \/ ClaimRefused(w) \/ ClaimForNobody(w)
  PROVE  DeedsMove
<1>1. slot[w] \in Slot
  BY DEF IInv, TypeOK
<1>2. CASE StartDrain(w) \/ ClaimLock(w) \/ ClaimNothing(w) \/ ClaimRefused(w)
  <2>1. UNCHANGED <<turn, ask, stopLine>>
    BY <1>2 DEF StartDrain, ClaimLock, ClaimNothing, ClaimRefused, rows
  <2>2. CASE StartDrain(w)
    <3>1. [Idle EXCEPT !.pc = "draining", !.left = MaxDrain].pc = "draining"
      BY DEF Idle
    <3>. QED
      BY <2>1, <2>2, <3>1, InlineSteps, DeedsStay DEF StartDrain
  <2>3. CASE ClaimLock(w)
    <3>1. [slot[w] EXCEPT !.pc = "locked", !.turn = Least(Claimable)].pc = "locked"
      BY <1>1 DEF Slot
    <3>. QED
      BY <2>1, <2>3, <3>1, InlineSteps, DeedsStay DEF ClaimLock
  <2>4. CASE ClaimNothing(w) \/ ClaimRefused(w)
    BY <2>1, <2>4, SlotTypes, InlineSteps, DeedsStay DEF ClaimNothing, ClaimRefused
  <2>. QED
    BY <1>2, <2>2, <2>3, <2>4
<1>3. ASSUME NEW s, Steps(w, s), s.pc \in {"streaming", "recorded"}, slot[w].pc = "locked",
             NEW y, turn' = [turn EXCEPT ![slot[w].turn] = y],
             SameDeed(turn[slot[w].turn], y), Carries(y), UNCHANGED <<ask, stopLine>>
      PROVE  DeedsMove
  <2>1. InlineMove
    BY <1>3, InlineSteps
  <2>. QED
    BY <1>3, <2>1, SlotUsed, PointDeeds
<1>4. CASE ClaimCommit(w)
  <2>. DEFINE y == Claimed(turn[slot[w].turn])
  <2>1. /\ slot[w].pc = "locked" /\ turn' = [turn EXCEPT ![slot[w].turn] = y]
        /\ UNCHANGED <<ask, stopLine>>
        /\ Steps(w, [slot[w] EXCEPT !.pc = "streaming", !.view = "running"])
    BY <1>4 DEF ClaimCommit
  <2>2. [slot[w] EXCEPT !.pc = "streaming", !.view = "running"].pc = "streaming"
    BY <1>1 DEF Slot
  <2>3. SameDeed(turn[slot[w].turn], y) /\ Carries(y)
    BY <2>1, SlotUsed, ClaimedDeed
  <2>. HIDE DEF y
  <2>. QED
    BY <1>3, <2>1, <2>2, <2>3
<1>5. CASE ClaimForNobody(w)
  <2>. DEFINE x == turn[slot[w].turn]
              y == Ended(Claimed(x), "failed", "")
  <2>1. /\ slot[w].pc = "locked" /\ turn' = [turn EXCEPT ![slot[w].turn] = y]
        /\ UNCHANGED <<ask, stopLine>> /\ Steps(w, Recorded(slot[w]))
    BY <1>5 DEF ClaimForNobody
  <2>2. Recorded(slot[w]).pc = "recorded"
    BY <1>1, RecordedType
  <2>3. x \in Row
    BY <2>1, SlotUsed
  <2>4. SameDeed(x, y) /\ Carries(y)
    <3>1. Claimed(x) \in Row /\ SameDeed(x, Claimed(x)) /\ "failed" \in Over
      BY <2>3, ClaimedIs, ClaimedDeed DEF Over
    <3>2. SameDeed(Claimed(x), y)
      BY <3>1, EndedDeed
    <3>3. y.status = "failed"
      BY <3>1 DEF Ended, Row, Columns
    <3>. QED
      BY <3>1, <3>2, <3>3 DEF SameDeed, Carries
  <2>. HIDE DEF y
  <2>. QED
    BY <1>3, <2>1, <2>2, <2>4
<1>. QED
  BY <1>2, <1>4, <1>5

(* A failed turn still carries its question. *)
LEMMA FailTurnDeeds ==
  ASSUME IInv, NEW w \in Slots, FailTurn(w)
  PROVE  DeedsMove
<1>. DEFINE t == slot[w].turn
            y == Ended(turn[t], "failed", "")
<1>1. /\ turn' = IF turn[t].status \in Open THEN [turn EXCEPT ![t] = y] ELSE turn
      /\ UNCHANGED <<ask, stopLine>> /\ slot[w].pc \in {"streaming", "ended"}
      /\ Steps(w, Recorded(slot[w]))
  BY DEF FailTurn
<1>2. t \in Used(turn) /\ turn[t] \in Row /\ slot[w] \in Slot
  BY <1>1, SlotUsed
<1>3. SameDeed(turn[t], y) /\ Carries(y)
  <2>1. y.status = "failed" /\ "failed" \in Over
    BY <1>2 DEF Ended, Row, Columns, Over
  <2>. QED
    BY <1>2, <2>1, EndedDeed DEF Carries
<1>4. InlineMove
  BY <1>1, <1>2, RecordedType, InlineSteps
<1>. HIDE DEF y
<1>5. CASE turn[t].status \in Open
  BY <1>1, <1>2, <1>3, <1>4, <1>5, PointDeeds
<1>6. CASE turn[t].status \notin Open
  BY <1>1, <1>4, <1>6, DeedsStay
<1>. QED
  BY <1>5, <1>6

(* The end of an inline turn ends no question's turn. *)
LEMMA EndInlineDeeds ==
  ASSUME IInv, AskInv, NEW w \in Slots, EndInline(w)
  PROVE  DeedsMove
<1>. DEFINE t == slot[w].turn
            y == Ended(turn[t], "done", "")
<1>1. /\ turn' = IF turn[t].status = "running" THEN [turn EXCEPT ![t] = y] ELSE turn
      /\ UNCHANGED <<ask, stopLine>> /\ slot[w].pc = "inline" /\ Steps(w, Idle)
  BY DEF EndInline
<1>2. t \in Used(turn) /\ turn[t] \in Row /\ turn[t].cause # "ask"
  BY <1>1, SlotUsed DEF AskInv, InlineOK
<1>3. SameDeed(turn[t], y)
  BY <1>2, EndedDeed DEF Over
<1>4. InlineMove
  BY <1>1, SlotTypes, InlineSteps
<1>. HIDE DEF y
<1>5. CASE turn[t].status = "running"
  BY <1>1, <1>2, <1>3, <1>4, <1>5, PointDeeds
<1>6. CASE turn[t].status # "running"
  BY <1>1, <1>4, <1>6, DeedsStay
<1>. QED
  BY <1>5, <1>6

(* An inline turn is in order, and it is what its coroutine streams. *)
LEMMA BeginInlineDeeds ==
  ASSUME IInv, NEW w \in Slots, NEW a \in Agents, BeginInline(w, a)
  PROVE  DeedsMove
<1>. DEFINE t == NextTurn(turn)
            x == Claimed(NewTurn(a, "inline", Nobody, 0, latest, OwnKey(turn)))
            s == [Idle EXCEPT !.pc = "inline", !.turn = t, !.view = "running"]
<1>1. /\ turn' = Insert(turn, x) /\ Room(turn, ask) /\ UNCHANGED <<ask, stopLine>>
      /\ Steps(w, s)
  BY DEF BeginInline
<1>2. t \in Turns /\ turn'[t].status = "running"
  BY BeginInlineMoves
<1>3. DeedOK(x) /\ AskRowOK(x, ask) /\ x.cause # "ask"
  BY DEF NewTurn, NoRow, Claimed, OwnKey, DeedOK, AskRowOK
<1>4. turn \in [Turns -> Row] /\ Used(turn) # Turns /\ slot \in [Slots -> Slot]
  BY <1>1, RoomOne DEF IInv, TypeOK
<1>5. t \notin Used(turn)
  BY <1>4, NextTurnFree
<1>6. s.turn = t
  BY DEF Idle
<1>. HIDE DEF x, t
<1>7. turn'[t] = x
  <2>1. turn'[t] \in {turn[t], x}
    BY <1>1, <1>2, <1>4, InsertLeaves
  <2>. QED
    BY <1>2, <1>5, <2>1 DEF Used
<1>. HIDE DEF s
<1>8. InlineMove
  BY <1>1, <1>3, <1>4, <1>6, <1>7 DEF InlineMove, Steps
<1>. QED
  BY <1>1, <1>3, <1>4, <1>8, QueueDeeds

(* A lease is not what a row is for. *)
LEMMA LeaseDeeds ==
  ASSUME IInv, NEW t \in Turns, turn[t].status = "running", NEW l,
         turn' = [turn EXCEPT ![t].lease = l], UNCHANGED <<ask, stopLine, slot>>
  PROVE  DeedsMove
<1>. DEFINE y == [turn[t] EXCEPT !.lease = l]
<1>1. t \in Used(turn) /\ turn[t] \in Row /\ turn' = [turn EXCEPT ![t] = y]
  BY DEF IInv, TypeOK, Used
<1>2. SameDeed(turn[t], y) /\ Carries(y)
  BY <1>1 DEF SameDeed, Carries, Open, Row, Columns
<1>. HIDE DEF y
<1>. QED
  BY <1>1, <1>2, InlineStays, PointDeeds

(* What the sweep requeues or fails still carries its question. *)
LEMMA SweptDeed ==
  ASSUME NEW x \in Row
  PROVE  SameDeed(x, SweptRow(x)) /\ Carries(SweptRow(x))
<1>1. SameDeed(x, Ended(x, "failed", "")) /\ Carries(Ended(x, "failed", ""))
  <2>1. "failed" \in Over /\ Ended(x, "failed", "").status = "failed"
    BY DEF Over, Ended, Row, Columns
  <2>. QED
    BY <2>1, EndedDeed DEF Carries
<1>. QED
  BY <1>1, RequeuedDeed DEF SweptRow

(* The sweep moves deeds as allowed. *)
LEMMA SweepDeeds ==
  ASSUME IInv, Sweep
  PROVE  DeedsMove
<1>. DEFINE r == [t \in Turns |-> IF t \in Stale THEN Ended(Swept[t], "cancelled", "stale")
                                 ELSE Swept[t]]
<1>1. turn' = r /\ UNCHANGED <<ask, stopLine, slot>>
  BY DEF Sweep
<1>2. turn \in [Turns -> Row]
  BY DEF IInv, TypeOK
<1>3. ASSUME NEW t \in Turns
      PROVE  /\ Swept[t] \in Row
             /\ Swept[t] = turn[t] \/
                  (t \in Used(turn) /\ SameDeed(turn[t], Swept[t]) /\ Carries(Swept[t]))
  <2>1. CASE t \in Expired
    <3>1. Swept[t] = SweptRow(turn[t]) /\ turn[t].status = "running" /\ turn[t] \in Row
      BY <1>2, <2>1 DEF Swept, Expired, Running, With
    <3>. QED
      BY <3>1, SweptRowIs, SweptDeed DEF Used
  <2>2. CASE t \notin Expired
    BY <1>2, <2>2 DEF Swept
  <2>. QED
    BY <2>1, <2>2
<1>4. ASSUME NEW t \in Turns
      PROVE  \/ r[t] = turn[t]
             \/ t \in Used(turn) /\ SameDeed(turn[t], r[t]) /\ Carries(r[t])
  <2>1. CASE t \in Stale
    <3>1. r[t] = Ended(Swept[t], "cancelled", "stale") /\ Swept[t].status = "queued"
      BY <2>1 DEF Stale, Queued, With
    <3>2. SameDeed(Swept[t], r[t]) /\ r[t].outcome = "stale"
      <4>1. "cancelled" \in Over /\ Ended(Swept[t], "cancelled", "stale").outcome = "stale"
        BY <1>3 DEF Over, Ended, Row, Columns
      <4>. QED
        BY <1>3, <3>1, <4>1, EndedDeed
    <3>3. t \in Used(turn) /\ r[t].status # "queued"
      BY <1>3, <3>1 DEF Used, Ended, Row, Columns
    <3>. QED
      BY <1>3, <3>2, <3>3 DEF SameDeed, Carries
  <2>2. CASE t \notin Stale
    <3>1. r[t] = Swept[t]
      BY <2>2
    <3>. QED
      BY <1>3, <3>1
  <2>. QED
    BY <2>1, <2>2
<1>. HIDE DEF r
<1>5. \A t \in Turns \ Used(turn) : turn'[t] = turn[t]
  BY <1>1, <1>4
<1>6. \A t \in Used(turn) : \/ turn'[t] = turn[t]
                            \/ /\ SameDeed(turn[t], turn'[t])
                               /\ turn[t].cause = "ask" => Carries(turn'[t])
  BY <1>1, <1>4 DEF Used
<1>. QED
  BY <1>1, <1>5, <1>6, InlineStays, RewriteDeeds

(* So does the clock. *)
LEMMA ClockDeeds ==
  ASSUME IInv, Clock
  PROVE  DeedsMove
<1>1. CASE NextMinute \/ Age
  BY <1>1, InlineStays, DeedsStay DEF NextMinute, Age, rows
<1>2. ASSUME NEW t \in Turns, ExpireLease(t) PROVE DeedsMove
  BY <1>2, LeaseDeeds DEF ExpireLease
<1>. QED
  BY <1>1, <1>2, SweepDeeds DEF Clock

(* So do a shutdown, a crash and what is lost. *)
LEMMA LossesDeeds ==
  ASSUME IInv, Losses
  PROVE  DeedsMove
<1>1. ASSUME NEW p \in Procs, Shutdown(p) PROVE DeedsMove
  <2>. DEFINE back == HandedBack(p)
              less(x) == IF x.attempt = 0 THEN 0 ELSE x.attempt - 1
  <2>1. /\ turn' = [t \in Turns |-> IF t \in back THEN Requeued(turn[t], less(turn[t]))
                                    ELSE turn[t]]
        /\ UNCHANGED <<ask, stopLine>> /\ Kill(p)
    BY <1>1 DEF Shutdown
  <2>2. turn \in [Turns -> Row] /\ \A t \in back : turn[t].status = "running"
    BY DEF IInv, TypeOK, HandedBack
  <2>3. \A t \in Turns \ Used(turn) : turn'[t] = turn[t]
    BY <2>1, <2>2 DEF Used
  <2>. HIDE DEF back, less
  <2>4. \A t \in Used(turn) : \/ turn'[t] = turn[t]
                              \/ /\ SameDeed(turn[t], turn'[t])
                                 /\ turn[t].cause = "ask" => Carries(turn'[t])
    <3>. SUFFICES ASSUME NEW t \in Used(turn), t \in back
                  PROVE  SameDeed(turn[t], turn'[t]) /\ Carries(turn'[t])
      BY <2>1 DEF Used
    <3>1. t \in Turns /\ turn[t] \in Row
      BY <2>2 DEF Used
    <3>2. turn'[t] = Requeued(turn[t], less(turn[t]))
      BY <2>1, <3>1
    <3>. QED
      BY <3>1, <3>2, RequeuedDeed
  <2>. QED
    BY <2>1, <2>3, <2>4, InlineKilled, RewriteDeeds
<1>2. ASSUME NEW p \in Procs, Crash(p) PROVE DeedsMove
  BY <1>2, InlineKilled, DeedsStay DEF Crash, rows
<1>3. ASSUME NEW w \in Slots, DropSlot(w) PROVE DeedsMove
  BY <1>3, SlotTypes, InlineSteps, DeedsStay DEF DropSlot, rows
<1>4. CASE LoseBell
  BY <1>4, InlineStays, DeedsStay DEF LoseBell, rows
<1>. QED
  BY <1>1, <1>2, <1>3, <1>4 DEF Losses

-----------------------------------------------------------------------------
(* Questions, hand-offs and answers.                                       *)

(* A slot that reloads its row goes nowhere. *)
LEMMA ReloadInline ==
  ASSUME IInv, NEW w \in Slots, Streaming(w), NEW r \in [Turns -> Row],
         Steps(w, Reload(slot[w], r))
  PROVE  InlineMove
<1>1. slot[w] \in Slot /\ slot[w].turn \in Turns
  BY SlotTurn DEF Streaming
<1>. QED
  BY <1>1, ReloadType, InlineSteps

(* A hand-off moves deeds as allowed. *)
LEMMA HandOffDeeds ==
  ASSUME IInv, NEW w \in Slots, NEW b \in Agents, HandOff(w, b)
  PROVE  DeedsMove
<1>. DEFINE a == Speaker(w)
            e == RequesterEpisode(turn, a, latest)
            x == NewTurn(b, "handoff", a, 0, e, OwnKey(turn))
            refused == Refused(turn, e, a, b)
<1>1. /\ turn' = IF refused THEN turn ELSE Insert(turn, x)
      /\ stopLine \subseteq stopLine' /\ UNCHANGED ask /\ Streaming(w) /\ Room(turn, ask)
      /\ Steps(w, Reload(slot[w], turn'))
  BY DEF HandOff
<1>2. turn' \in [Turns -> Row]
  BY HandOffMoves, MovesKeep
<1>3. InlineMove
  BY <1>1, <1>2, ReloadInline
<1>4. DeedOK(x) /\ AskRowOK(x, ask)
  BY PlainDeed DEF OwnKey
<1>. HIDE DEF x, refused
<1>5. CASE refused
  <2>1. turn' = turn
    BY <1>1, <1>5
  <2>2. DeedsTo(turn, turn', ask) /\ \A k \in OpenAsks(ask) : TurnsKept(k)
    BY <2>1, DeedsSame DEF IInv, TypeOK, TurnsKept, CarriesAsk
  <2>. QED
    BY <1>1, <1>3, <2>2, DeedsQuiet
<1>6. CASE ~refused
  BY <1>1, <1>3, <1>4, <1>6, RoomOne, QueueDeeds
<1>. QED
  BY <1>5, <1>6

(* No row has the key of a question that was not asked. *)
LEMMA AskKeyFree ==
  ASSUME AskInv, NEW k, ask[k].status = "absent"
  PROVE  ~HasKey(turn, <<"ask", k, Nobody>>)
<1>. SUFFICES ASSUME NEW t \in Used(turn), turn[t].key = <<"ask", k, Nobody>>
              PROVE  FALSE
  BY DEF HasKey
<1>1. DeedOK(turn[t]) /\ AskRowOK(turn[t], ask)
  BY DEF AskInv, DeedsOK
<1>2. turn[t].cause = "ask" /\ turn[t].key = <<"ask", turn[t].ask, Nobody>>
  BY <1>1 DEF DeedOK
<1>3. turn[t].ask = k
  BY <1>2
<1>. QED
  BY <1>1, <1>2, <1>3 DEF AskRowOK

(* A question opened under MayAsk keeps the pairs apart. *)
LEMMA OpenedPairs ==
  ASSUME IInv, AskInv, NEW k \in AskIds, ask[k].status = "absent", NEW a, NEW b, a # b,
         MayAsk(a, b), NEW e,
         ask' = [ask EXCEPT ![k] = [status |-> "open", from |-> a, to |-> b, episode |-> e]]
  PROVE  AskPairs'
<1>1. ask \in [AskIds -> Ask]
  BY DEF IInv, TypeOK
<1>2. ask'[k].from = a /\ ask'[k].to = b /\ k \notin OpenAsks(ask)
  BY <1>1 DEF OpenAsks
<1>3. \A x \in OpenAsks(ask') : x = k \/ (x \in OpenAsks(ask) /\ ask'[x] = ask[x])
  BY <1>1 DEF OpenAsks
<1>4. \A x \in OpenAsks(ask) : /\ ~(ask[x].from = a /\ ask[x].to = b)
                               /\ OrgRules => ~(ask[x].from = b /\ ask[x].to = a)
  BY DEF MayAsk, Opened
<1>. SUFFICES ASSUME NEW x \in OpenAsks(ask'), NEW y \in OpenAsks(ask')
              PROVE  /\ (ask'[x].from = ask'[y].from /\ ask'[x].to = ask'[y].to) => x = y
                     /\ OrgRules => ~(ask'[x].from = ask'[y].to /\ ask'[x].to = ask'[y].from)
  BY DEF AskPairs
<1>5. CASE x = k /\ y = k
  BY <1>2, <1>5
<1>6. CASE x = k /\ y # k
  <2>1. y \in OpenAsks(ask) /\ ask'[y] = ask[y]
    BY <1>3, <1>6
  <2>2. ask'[x].from = a /\ ask'[x].to = b
    BY <1>2, <1>6
  <2>. QED
    BY <1>4, <2>1, <2>2
<1>7. CASE x # k /\ y = k
  <2>1. x \in OpenAsks(ask) /\ ask'[x] = ask[x]
    BY <1>3, <1>7
  <2>2. ask'[y].from = a /\ ask'[y].to = b
    BY <1>2, <1>7
  <2>. QED
    BY <1>4, <2>1, <2>2
<1>8. CASE x # k /\ y # k
  <2>1. /\ x \in OpenAsks(ask) /\ ask'[x] = ask[x]
        /\ y \in OpenAsks(ask) /\ ask'[y] = ask[y]
    BY <1>3, <1>8
  <2>. QED
    BY <2>1 DEF AskInv, AskPairs
<1>. QED
  BY <1>5, <1>6, <1>7, <1>8

(* An ask between agents moves deeds as allowed: its turn is queued with   *)
(* it, never swallowed as a duplicate.                                     *)
LEMMA AskAgentDeeds ==
  ASSUME IInv, AskInv, NEW w \in Slots, NEW b \in Agents, AskAgent(w, b)
  PROVE  DeedsMove
<1>. DEFINE a == Speaker(w)
            e == RequesterEpisode(turn, a, latest)
            k == Least({x \in AskIds : ask[x].status = "absent"})
            x == NewTurn(b, "ask", a, k, e, <<"ask", k, Nobody>>)
            refused == Refused(turn, e, a, b)
            entry == [status |-> IF refused THEN "cancelled" ELSE "open",
                      from |-> a, to |-> b, episode |-> e]
<1>1. /\ turn' = IF refused THEN turn ELSE Insert(turn, x)
      /\ ask' = [ask EXCEPT ![k] = entry]
      /\ stopLine \subseteq stopLine' /\ a # b /\ MayAsk(a, b)
      /\ Cardinality(Used(turn)) + Cardinality(OpenAsks(ask)) + 2 <= MaxTurns
      /\ Streaming(w) /\ Steps(w, Reload(slot[w], turn'))
  BY DEF AskAgent
<1>2. k \in AskIds /\ ask[k].status = "absent"
  BY FreeAsk DEF AskAgent
<1>3. /\ turn \in [Turns -> Row] /\ ask \in [AskIds -> Ask]
      /\ Used(turn) # Turns /\ turn' \in [Turns -> Row]
  BY <1>1, RoomLeft, AskAgentMoves, MovesKeep DEF IInv, TypeOK
<1>4. InlineMove
  BY <1>1, <1>3, ReloadInline
<1>5. /\ x.key = <<"ask", k, Nobody>> /\ x.status = "queued" /\ x.cause = "ask"
      /\ x.ask = k /\ x.episode = e
  BY DEF NewTurn, NoRow
<1>6. entry.status = (IF refused THEN "cancelled" ELSE "open") /\ entry.episode = e
  OBVIOUS
<1>. HIDE DEF x, k, refused, e, a
<1>7. \A j \in AskIds : SameAsk(ask[j], ask'[j])
  BY <1>1, <1>2, <1>3 DEF SameAsk
<1>8. ask'[k] = entry /\ \A j \in AskIds \ {k} : ask'[j] = ask[j]
  BY <1>1, <1>2, <1>3
<1>9. \A j \in AskIds : ask'[j].status = "answered" => ask[j].status = "answered"
  BY <1>6, <1>8
<1>10. \A j \in OpenAsks(ask) : j # k
  BY <1>2 DEF OpenAsks
<1>11. CASE refused
  <2>1. turn' = turn
    BY <1>1, <1>11
  <2>2. OpenAsks(ask') \subseteq OpenAsks(ask)
    BY <1>6, <1>8, <1>11 DEF OpenAsks
  <2>3. DeedsTo(turn, turn', ask') /\ \A j \in OpenAsks(ask') : TurnsKept(j)
    BY <1>3, <2>1, DeedsSame DEF TurnsKept, CarriesAsk
  <2>. HIDE DEF entry
  <2>. QED
    BY <1>1, <1>4, <1>7, <1>9, <2>2, <2>3, DeedsOnly
<1>12. CASE ~refused
  <2>1. turn' = Insert(turn, x) /\ entry.status = "open"
    BY <1>1, <1>6, <1>12
  <2>2. ~HasKey(turn, x.key)
    BY <1>2, <1>5, AskKeyFree
  <2>. DEFINE n == NextTurn(turn)
  <2>3. n \in Turns \ Used(turn) /\ turn' = [turn EXCEPT ![n] = x]
    BY <1>3, <2>1, <2>2, NextTurnFree DEF Insert
  <2>. HIDE DEF n
  <2>4. turn'[n] = x /\ n \in Used(turn')
    BY <1>3, <1>5, <2>3 DEF Used
  <2>5. DeedOK(x) /\ AskRowOK(x, ask')
    BY <1>5, <1>6, <1>8, <2>1 DEF DeedOK, AskRowOK
  <2>6. DeedsTo(turn, turn', ask')
    BY <1>3, <2>1, <2>5, DeedsSame, DeedsInsert
  <2>7. CarriesAsk(turn'[n], k)
    BY <1>5, <2>4 DEF CarriesAsk, Carries, Open
  <2>8. \A j \in OpenAsks(ask) : TurnsKept(j)
    BY <1>3, <2>3 DEF TurnsKept, CarriesAsk
  <2>9. \A j \in OpenAsks(ask') : j = k \/ j \in OpenAsks(ask)
    BY <1>8 DEF OpenAsks
  <2>10. AskPairs'
    BY <1>1, <1>2, <2>1, OpenedPairs
  <2>. HIDE DEF entry
  <2>. QED
    BY <1>1, <1>4, <1>7, <1>9, <2>4, <2>6, <2>7, <2>8, <2>9, <2>10 DEF DeedsMove
<1>. QED
  BY <1>11, <1>12

(* The bound keeps a row for the answer of an open ask. *)
LEMMA RoomForAnswer ==
  ASSUME IInv, NEW k \in OpenAsks(ask)
  PROVE  Used(turn) # Turns
<1>1. /\ Cardinality(Used(turn)) \in Nat /\ Cardinality(OpenAsks(ask)) \in Nat
      /\ IsFiniteSet(OpenAsks(ask)) /\ MaxTurns \in Nat
  BY Counts DEF IInv, TypeOK
<1>2. Cardinality(OpenAsks(ask)) # 0
  BY <1>1, FS_EmptySet
<1>3. Cardinality(Used(turn)) < MaxTurns
  BY <1>1, <1>2 DEF IInv, RoomKept
<1>. QED
  BY <1>3, RowsLeft

(* Rows a step may come to are in order. *)
LEMMA DeedsHold ==
  ASSUME AskInv, NEW r \in [Turns -> Row], NEW q, DeedsTo(turn, r, q), NEW t \in Used(r)
  PROVE  DeedOK(r[t])
<1>1. t \in Turns /\ r[t].status # "absent"
  BY DEF Used
<1>2. CASE t \in Used(turn)
  <2>1. SameDeed(turn[t], r[t]) /\ DeedOK(turn[t])
    BY <1>2 DEF DeedsTo, AskInv, DeedsOK
  <2>. QED
    BY <2>1 DEF SameDeed, DeedOK
<1>. QED
  BY <1>1, <1>2 DEF DeedsTo

(* After the INSERT of an answer the asker has a turn for it, that one or  *)
(* one that was there under its key.                                       *)
LEMMA AnswerQueued ==
  ASSUME AskInv, NEW r \in [Turns -> Row], NEW q, DeedsTo(turn, r, q), Used(r) # Turns,
         NEW x, x.key = <<"answer", x.ask, Nobody>>, x.cause = "answer",
         x.status # "absent"
  PROVE  \E t \in Used(Insert(r, x)) :
           Insert(r, x)[t].cause = "answer" /\ Insert(r, x)[t].ask = x.ask
<1>1. CASE HasKey(r, x.key)
  <2>1. PICK t \in Used(r) : r[t].key = x.key
    BY <1>1 DEF HasKey
  <2>2. DeedOK(r[t])
    BY DeedsHold
  <2>3. r[t].cause = "answer" /\ r[t].key = <<"answer", r[t].ask, Nobody>>
    BY <2>1, <2>2 DEF DeedOK
  <2>4. r[t].ask = x.ask
    BY <2>1, <2>3
  <2>. QED
    BY <1>1, <2>3, <2>4 DEF Insert
<1>2. CASE ~HasKey(r, x.key)
  <2>. DEFINE n == NextTurn(r)
  <2>1. n \in Turns /\ Insert(r, x) = [r EXCEPT ![n] = x]
    BY <1>2, NextTurnFree DEF Insert
  <2>. HIDE DEF n
  <2>2. Insert(r, x)[n] = x /\ n \in Used(Insert(r, x))
    BY <2>1 DEF Used
  <2>. QED
    BY <2>2
<1>. QED
  BY <1>1, <1>2

(* Recording a turn's end moves deeds as allowed: a question that is       *)
(* answered sends its asker a turn or the stop line of its episode.        *)
LEMMA RecordDeeds ==
  ASSUME IInv, AskInv, NEW w \in Slots, NEW spent \in Nat, NEW said \in BOOLEAN,
         NEW recover \in BOOLEAN, Record(w, spent, said, recover)
  PROVE  DeedsMove
<1>. DEFINE s    == slot[w]
            t    == s.turn
            k    == turn[t].ask
            r0   == IF recover THEN WithRecovery(turn, t) ELSE turn
            y    == WrittenRow(s, r0[t], spent)
            r1   == [r0 EXCEPT ![t] = y]
            settles  == turn[t].cause = "ask" /\ ask[k].status = "open"
            answered == s.out \in {"spoke", "stalled"} /\ said
            from == ask[k].to
            to   == ask[k].from
            e    == IF turn[t].episode # 0 THEN turn[t].episode
                    ELSE RequesterEpisode(r1, from, latest)
            replies == settles /\ s.out \notin {"cancelled", "error"}
            refused == replies /\ Refused(r1, e, from, to)
            x    == NewTurn(to, "answer", from, k, e, <<"answer", k, Nobody>>)
            v    == IF answered THEN "answered" ELSE "cancelled"
            cut  == IF s.out = "stalled" THEN {turn[t].episode} ELSE {}
            line == IF refused THEN {e} ELSE {}
<1>1. /\ turn' = IF replies /\ ~refused THEN Insert(r1, x) ELSE r1
      /\ ask' = IF settles THEN [ask EXCEPT ![k].status = v] ELSE ask
      /\ stopLine' = stopLine \cup line \cup cut
      /\ recover => s.out = "error" /\ Room(turn, ask)
      /\ s.pc = "ended" /\ Steps(w, Recorded(s))
  BY DEF Record, AnswerKey
<1>2. turn \in [Turns -> Row] /\ ask \in [AskIds -> Ask]
  BY DEF IInv, TypeOK
<1>3. t \in Used(turn) /\ t \in Turns /\ turn[t] \in Row /\ turn[t].status # "absent"
      /\ s \in Slot
  BY <1>1, SlotUsed DEF Used
<1>4. InlineMove
  BY <1>1, <1>3, RecordedType, InlineSteps
<1>5. settles => k \in AskIds /\ k \in OpenAsks(ask)
  BY <1>3 DEF Row, Columns, OpenAsks
<1>6. /\ QuietTo(turn, r0) /\ r0 \in [Turns -> Row] /\ (~recover => r0 = turn)
  BY <1>1, <1>3, RecoveryRows DEF QuietTo
<1>7. DeedsTo(turn, r0, ask') /\ \A u \in Used(turn) : r0[u] = turn[u]
  <2>1. CASE recover
    <3>. DEFINE z == NewTurn(turn[t].agent, "recovery", Nobody, 0, latest,
                             <<"recover", minute, Nobody>>)
    <3>1. r0 = Insert(turn, z)
      BY <2>1 DEF WithRecovery
    <3>2. DeedOK(z) /\ AskRowOK(z, ask')
      BY PlainDeed
    <3>3. Used(turn) # Turns
      BY <1>1, <2>1, RoomOne
    <3>. HIDE DEF z, r0
    <3>4. DeedsTo(turn, r0, ask')
      BY <1>2, <3>1, <3>2, <3>3, DeedsSame, DeedsInsert
    <3>. QED
      BY <1>2, <3>1, <3>3, <3>4, InsertLeaves DEF Used
  <2>2. CASE ~recover
    BY <1>2, <1>6, <2>2, DeedsSame
  <2>. QED
    BY <2>1, <2>2
<1>8. replies => settles /\ ~recover
  BY <1>1
<1>9. answered /\ settles => replies
  OBVIOUS
<1>10. v \in {"answered", "cancelled"} /\ (v = "answered" => answered)
  OBVIOUS
<1>11. refused => e \in line
  OBVIOUS
<1>12. turn[t].episode # 0 => e = turn[t].episode
  OBVIOUS
<1>13. x.key = <<"answer", x.ask, Nobody>> /\ x.cause = "answer" /\ x.status # "absent"
       /\ x.ask = k
  BY DEF NewTurn, NoRow
<1>. HIDE DEF r0
<1>14. r0[t] = turn[t]
  BY <1>3, <1>7
<1>15. y \in Row /\ SameDeed(turn[t], y)
  <2>1. spent \in Nat
    OBVIOUS
  <2>. QED
    BY <1>3, <1>14, <2>1, WrittenRowIs, WrittenDeed
<1>. HIDE DEF y
<1>16. /\ r1 \in [Turns -> Row] /\ r1[t] = y
       /\ \A u \in Turns \ {t} : r1[u] = r0[u]
  BY <1>3, <1>6, <1>15
<1>. HIDE DEF r1
<1>17. DeedsTo(turn, r1, ask')
  <2>1. \A u \in Used(turn) : SameDeed(turn[u], r1[u])
    BY <1>7, <1>15, <1>16 DEF DeedsTo, Used
  <2>2. \A u \in Turns \ Used(turn) : r1[u] = r0[u]
    BY <1>3, <1>16
  <2>. QED
    BY <1>7, <2>1, <2>2 DEF DeedsTo
<1>18. \A u \in Used(turn) \ {t} : u \in Turns /\ r1[u] = turn[u] /\ u \in Used(r1)
  BY <1>7, <1>16 DEF Used
<1>19. AskRowOK(turn[t], ask)
  BY <1>3 DEF AskInv, DeedsOK
<1>. HIDE DEF e, cut, line, v, answered, refused, s, t, k, from, to
<1>20. /\ \A j \in AskIds : SameAsk(ask[j], ask'[j])
       /\ OpenAsks(ask') \subseteq OpenAsks(ask)
       /\ settles => /\ k \notin OpenAsks(ask') /\ ask'[k].status = v
                     /\ ask'[k].episode = ask[k].episode
       /\ \A j \in AskIds : ask'[j].status = "answered" =>
            ask[j].status = "answered" \/ (settles /\ j = k)
  <2>1. CASE settles
    <3>1. ask' = [ask EXCEPT ![k].status = v] /\ k \in AskIds /\ ask[k].status = "open"
      BY <1>1, <1>5, <2>1
    <3>2. /\ ask'[k] = [ask[k] EXCEPT !.status = v] /\ ask[k] \in Ask
          /\ \A j \in AskIds \ {k} : ask'[j] = ask[j]
      BY <1>2, <3>1
    <3>3. /\ ask'[k].status = v /\ ask'[k].from = ask[k].from
          /\ ask'[k].to = ask[k].to /\ ask'[k].episode = ask[k].episode
      BY <3>2 DEF Ask
    <3>. QED
      BY <1>10, <2>1, <3>1, <3>2, <3>3 DEF SameAsk, OpenAsks
  <2>2. CASE ~settles
    <3>1. ask' = ask
      BY <1>1, <2>2
    <3>. QED
      BY <2>2, <3>1, AsksSame
  <2>. QED
    BY <2>1, <2>2
<1>21. replies /\ ~refused => Used(r1) # Turns
  <2>. SUFFICES ASSUME replies, ~refused PROVE Used(r1) # Turns
    OBVIOUS
  <2>1. Used(turn) # Turns
    BY <1>5, <1>8, RoomForAnswer
  <2>2. Used(r1) = Used(turn)
    BY <1>3, <1>6, <1>8, <1>15, <1>16 DEF Used, SameDeed
  <2>. QED
    BY <2>1, <2>2
<1>22. DeedsTo(turn, turn', ask') /\ \A u \in Used(turn) \ {t} : turn'[u] = turn[u]
  <2>1. CASE replies /\ ~refused
    <3>1. turn' = Insert(r1, x) /\ Used(r1) # Turns
      BY <1>1, <1>21, <2>1
    <3>2. DeedOK(x) /\ AskRowOK(x, ask')
      <4>1. x.status = "queued"
        BY DEF NewTurn, NoRow
      <4>. HIDE DEF x
      <4>. QED
        BY <1>13, <4>1 DEF DeedOK, AskRowOK
    <3>. HIDE DEF x
    <3>. QED
      BY <1>2, <1>16, <1>17, <1>18, <3>1, <3>2, DeedsInsert, InsertLeaves
  <2>2. CASE ~(replies /\ ~refused)
    BY <1>1, <1>17, <1>18, <2>2
  <2>. QED
    BY <2>1, <2>2
<1>23. \A j \in OpenAsks(ask') : TurnsKept(j)
  <2>. SUFFICES ASSUME NEW j \in OpenAsks(ask'), NEW u \in Used(turn), CarriesAsk(turn[u], j)
                PROVE  Carries(turn'[u])
    BY DEF TurnsKept
  <2>1. u # t
    BY <1>20 DEF CarriesAsk, OpenAsks, k
  <2>. QED
    BY <1>22, <2>1 DEF CarriesAsk
<1>24. settles /\ ask'[k].status = "answered" => Replied(turn', ask', stopLine', k)
  <2>. SUFFICES ASSUME settles, ask'[k].status = "answered"
                PROVE  Replied(turn', ask', stopLine', k)
    OBVIOUS
  <2>1. replies
    BY <1>9, <1>10, <1>20
  <2>2. CASE refused
    <3>1. e \in stopLine'
      BY <1>1, <1>11, <2>2
    <3>2. ask'[k].episode = turn[t].episode
      BY <1>19, <1>20 DEF AskRowOK, k
    <3>. QED
      BY <1>12, <3>1, <3>2 DEF Replied
  <2>3. CASE ~refused
    <3>1. turn' = Insert(r1, x) /\ Used(r1) # Turns
      BY <1>1, <1>21, <2>1, <2>3
    <3>. HIDE DEF x
    <3>. QED
      BY <1>13, <1>16, <1>17, <3>1, AnswerQueued DEF Replied
  <2>. QED
    BY <2>2, <2>3
<1>25. stopLine \subseteq stopLine'
  BY <1>1
<1>. QED
  BY <1>4, <1>20, <1>22, <1>23, <1>24, <1>25 DEF DeedsMove

-----------------------------------------------------------------------------
(* The theorems about questions.                                           *)

(* Every step moves deeds and asks as allowed. *)
LEMMA NextDeeds ==
  ASSUME IInv, AskInv, [Next]_vars
  PROVE  DeedsMove
<1>1. CASE UNCHANGED vars
  BY <1>1, InlineStays, DeedsStay DEF vars
<1>2. ASSUME NEW w \in Slots, Advance(w) PROVE DeedsMove
  <2>1. ASSUME UNCHANGED <<turn, ask, stopLine>>, NEW s, Steps(w, s),
               s.pc \in {"ended", "draining"}
        PROVE  DeedsMove
    BY <2>1, InlineSteps, DeedsStay
  <2>2. slot[w] \in Slot
    BY DEF IInv, TypeOK
  <2>3. ASSUME NEW out \in Results, EndStream(w, out) PROVE DeedsMove
    <3>1. [slot[w] EXCEPT !.pc = "ended", !.out = out].pc = "ended"
      BY <2>2 DEF Slot
    <3>. QED
      BY <2>1, <2>3, <3>1 DEF EndStream, rows
  <2>4. CASE RaiseStream(w)
    <3>1. [slot[w] EXCEPT !.pc = "ended", !.out = "error", !.view = "expired"].pc = "ended"
      BY <2>2 DEF Slot
    <3>. QED
      BY <2>1, <2>4, <3>1 DEF RaiseStream, rows
  <2>5. CASE DrainNext(w)
    <3>1. [Idle EXCEPT !.pc = "draining", !.left = slot[w].left - 1].pc = "draining"
      BY DEF Idle
    <3>. QED
      BY <2>1, <2>5, <3>1 DEF DrainNext, rows
  <2>6. CASE \E spent \in Spends, said \in BOOLEAN, recover \in BOOLEAN :
               Record(w, spent, said, recover)
    BY <2>6, RecordDeeds, ProcConstants
  <2>. QED
    BY <1>2, <2>3, <2>4, <2>5, <2>6, ClaimsDeeds, EndInlineDeeds, FailTurnDeeds DEF Advance
<1>3. ASSUME NEW w \in Slots, MidStream(w) PROVE DeedsMove
  <2>1. CASE KeepLease(w)
    <3>1. slot[w].turn \in Turns
      BY <2>1, SlotTurn DEF KeepLease, Streaming
    <3>. QED
      BY <2>1, <3>1, LeaseDeeds DEF KeepLease
  <2>2. CASE ToolRollback(w)
    <3>1. [slot[w] EXCEPT !.view = "expired"].pc = slot[w].pc
      BY DEF IInv, TypeOK, Slot
    <3>. QED
      BY <2>2, <3>1, InlineSteps, DeedsStay DEF ToolRollback, rows
  <2>. QED
    BY <1>3, <2>1, <2>2, AskAgentDeeds, HandOffDeeds, BeginInlineDeeds DEF MidStream
<1>. QED
  BY <1>1, <1>2, <1>3, RequestsDeeds, ClockDeeds, LossesDeeds DEF Next

(* At the start no turn is used and nothing was asked. *)
LEMMA InitAsks == Init => AskInv
<1>. SUFFICES ASSUME Init PROVE AskInv
  OBVIOUS
<1>1. Used(turn) = {} /\ OpenAsks(ask) = {}
      /\ \A k \in AskIds : ask[k].status = "absent"
  BY DEF Init, Used, OpenAsks, NoRow, NoAsk
<1>2. \A w \in Slots : slot[w].pc = "idle"
  BY DEF Init, Idle
<1>. QED
  BY <1>1, <1>2 DEF AskInv, DeedsOK, InlineOK, AskPairs, OpenAskHasTurn, AnswerComesBack

(* AskInv holds in every reachable state. *)
LEMMA AskInvariant == Spec => [](IInv /\ AskInv)
<1>1. Init => IInv /\ AskInv
  BY InitInv, InitAsks
<1>2. IInv /\ AskInv /\ [Next]_vars => (IInv /\ AskInv)'
  BY NextInv, NextDeeds, DeedsKeep
<1>. QED
  BY <1>1, <1>2, PTL DEF Spec

(* What waits can be run by a worker: a turn that streamed inside a request*)
(* and lost its floor or its process waits as a human one.                 *)
THEOREM QueuedTurnsRun == Spec => []QueuedIsRunnable
<1>1. AskInv => QueuedIsRunnable
  BY DEF AskInv, DeedsOK, DeedOK, QueuedIsRunnable, Queued, With, Used
<1>. QED
  BY <1>1, AskInvariant, PTL

(* No agent is asked twice at once by the same agent, and under the        *)
(* organization rules no two agents wait for each other.                   *)
THEOREM OneQuestionPerPair == Spec => []AskPairs
<1>1. AskInv => AskPairs
  BY DEF AskInv
<1>. QED
  BY <1>1, AskInvariant, PTL

(* An open question has its turn in the queue or on the floor, or that     *)
(* turn failed or was dropped as stale.                                    *)
THEOREM OpenQuestionsHaveTurns == Spec => []OpenAskHasTurn
<1>1. AskInv => OpenAskHasTurn
  BY DEF AskInv
<1>. QED
  BY <1>1, AskInvariant, PTL

(* An answered question gave its asker a turn, or the episode was handed   *)
(* back to the human with the stop line.                                   *)
THEOREM AnswersComeBack == Spec => []AnswerComesBack
<1>1. AskInv => AnswerComesBack
  BY DEF AskInv
<1>. QED
  BY <1>1, AskInvariant, PTL

(* Nothing the program does asks a question anew once it is closed, or     *)
(* changes who asked whom.                                                 *)
AsksOneWay == [][\A k \in AskIds : SameAsk(ask[k], ask'[k])]_vars

(* A question once closed keeps its end, and who asked whom in which       *)
(* episode never changes.                                                  *)
THEOREM ClosedQuestionsStay == Spec => AsksOneWay
<1>1. IInv /\ AskInv /\ [Next]_vars => [\A k \in AskIds : SameAsk(ask[k], ask'[k])]_vars
  BY NextDeeds DEF DeedsMove
<1>. QED
  BY <1>1, AskInvariant, PTL DEF Spec, AsksOneWay

-----------------------------------------------------------------------------
(* What a shutdown hands back.                                             *)

(* A coroutine has a turn from its claim until it is back in drain.        *)
Has == Executing \cup {"recorded"}

(* No two coroutines of one process.                                       *)
LoneSlots == \A v, w \in Slots : Home[v] = Home[w] => v = w

(* A turn that two coroutines have was started twice, and only then, and   *)
(* only where they share a process, may _HELD miss what one of them runs.  *)
HeldInv ==
  /\ \A w \in Slots : slot[w].pc \in Has => starts[slot[w].turn] >= 1
  /\ \A v, w \in Slots :
       slot[v].pc \in Has /\ slot[w].pc \in Has /\ slot[v].turn = slot[w].turn /\ v # w
         => starts[slot[w].turn] >= 2
  /\ \A w \in Slots : slot[w].pc \in Executing =>
       \/ slot[w].turn \in held[Home[w]]
       \/ starts[slot[w].turn] >= 2 /\ ~LoneSlots

(* The coroutine goes on with its turn.                                    *)
GoesOn(s, s1) ==
  /\ s.pc \in Has /\ s1.turn = s.turn
  /\ s1.pc \in Executing => s.pc \in Executing

HeldMove ==
  /\ \A w \in Slots : slot'[w].pc \in Has =>
       \/ GoesOn(slot[w], slot'[w])
       \/ LET t == slot'[w].turn
          IN  /\ t \in Turns /\ starts'[t] = starts[t] + 1 /\ t \in held'[Home[w]]
              /\ \A v \in Slots \ {w} : slot'[v] = slot[v]
  /\ \A w \in Slots : slot'[w].pc \in Executing /\ GoesOn(slot[w], slot'[w]) =>
       \/ slot[w].turn \in held[Home[w]] => slot[w].turn \in held'[Home[w]]
       \/ \E v \in Slots \ {w} :
            Home[v] = Home[w] /\ slot[v].pc \in Has /\ slot[v].turn = slot[w].turn

(* A turn once started was started. *)
LEMMA StartsGrow ==
  ASSUME IInv, Moves
  PROVE  \A t \in Turns : /\ starts[t] \in Nat /\ starts'[t] \in Nat
                          /\ starts'[t] >= starts[t]
<1>. SUFFICES ASSUME NEW t \in Turns
              PROVE  starts[t] \in Nat /\ starts'[t] \in Nat /\ starts'[t] >= starts[t]
  OBVIOUS
<1>1. starts[t] \in Nat /\ starts'[t] \in Nat
  BY DEF IInv, TypeOK, Moves, RowsMove
<1>2. starts'[t] = starts[t] \/ starts'[t] = starts[t] + 1
  BY DEF Moves, RowsMove, RowStep
<1>. QED
  BY <1>1, <1>2

(* The turn a coroutine has is a turn. *)
LEMMA HasTurn ==
  ASSUME IInv, NEW w \in Slots, slot[w].pc \in Has
  PROVE  slot[w].turn \in Turns
BY SlotTurn DEF Has, Executing

(* A step that moves what is held as allowed keeps HeldInv. *)
LEMMA HeldKeep ==
  ASSUME IInv, Moves, HeldInv, HeldMove
  PROVE  HeldInv'
<1>1. \A t \in Turns : /\ starts[t] \in Nat /\ starts'[t] \in Nat
                       /\ starts'[t] >= starts[t]
  BY StartsGrow
<1>2. ASSUME NEW w \in Slots, slot'[w].pc \in Has
      PROVE  slot'[w].turn \in Turns /\ starts'[slot'[w].turn] >= 1
  <2>1. CASE GoesOn(slot[w], slot'[w])
    <3>1. slot[w].turn \in Turns /\ slot'[w].turn = slot[w].turn
          /\ starts[slot[w].turn] >= 1
      BY <2>1, HasTurn DEF GoesOn, HeldInv
    <3>. QED
      BY <1>1, <3>1
  <2>2. CASE slot'[w].turn \in Turns /\ starts'[slot'[w].turn] = starts[slot'[w].turn] + 1
    BY <1>1, <2>2
  <2>. QED
    BY <1>2, <2>1, <2>2 DEF HeldMove
<1>3. ASSUME NEW v \in Slots, NEW w \in Slots, slot'[v].pc \in Has, slot'[w].pc \in Has,
             slot'[v].turn = slot'[w].turn, v # w
      PROVE  starts'[slot'[w].turn] >= 2
  <2>. DEFINE t == slot'[w].turn
  <2>1. t \in Turns
    BY <1>2, <1>3
  <2>2. CASE GoesOn(slot[v], slot'[v]) /\ GoesOn(slot[w], slot'[w])
    <3>1. starts[t] >= 2
      BY <1>3, <2>2 DEF GoesOn, HeldInv
    <3>. QED
      BY <1>1, <2>1, <3>1
  <2>3. ASSUME NEW u \in Slots, starts'[t] = starts[t] + 1, slot'[u] = slot[u],
               slot'[u].pc \in Has, slot'[u].turn = t
        PROVE  starts'[t] >= 2
    <3>1. starts[t] >= 1
      BY <2>3 DEF HeldInv
    <3>. QED
      BY <1>1, <2>1, <2>3, <3>1
  <2>4. CASE ~GoesOn(slot[w], slot'[w])
    <3>1. starts'[t] = starts[t] + 1 /\ slot'[v] = slot[v]
      BY <1>3, <2>4 DEF HeldMove
    <3>. QED
      BY <1>3, <2>3, <3>1
  <2>5. CASE ~GoesOn(slot[v], slot'[v])
    <3>1. starts'[t] = starts[t] + 1 /\ slot'[w] = slot[w]
      BY <1>3, <2>5 DEF HeldMove
    <3>. QED
      BY <1>3, <2>3, <3>1
  <2>. QED
    BY <2>2, <2>4, <2>5
<1>4. ASSUME NEW w \in Slots, slot'[w].pc \in Executing
      PROVE  \/ slot'[w].turn \in held'[Home[w]]
             \/ starts'[slot'[w].turn] >= 2 /\ ~LoneSlots
  <2>1. slot'[w].pc \in Has
    BY <1>4 DEF Has
  <2>2. CASE GoesOn(slot[w], slot'[w])
    <3>. DEFINE t == slot[w].turn
    <3>1. /\ slot[w].pc \in Executing /\ slot[w].pc \in Has /\ slot'[w].turn = t /\ t \in Turns
      BY <1>4, <2>2, HasTurn DEF GoesOn
    <3>2. CASE starts[t] >= 2 /\ ~LoneSlots
      BY <1>1, <3>1, <3>2
    <3>3. CASE \E v \in Slots \ {w} :
                 Home[v] = Home[w] /\ slot[v].pc \in Has /\ slot[v].turn = t
      <4>1. starts[t] >= 2 /\ ~LoneSlots
        BY <3>1, <3>3 DEF HeldInv, LoneSlots
      <4>. QED
        BY <3>2, <4>1
    <3>4. CASE t \in held[Home[w]] /\ t \in held'[Home[w]]
      BY <3>1, <3>4
    <3>. QED
      BY <1>4, <2>2, <3>1, <3>2, <3>3, <3>4 DEF HeldInv, HeldMove
  <2>3. CASE ~GoesOn(slot[w], slot'[w])
    BY <2>1, <2>3 DEF HeldMove
  <2>. QED
    BY <2>2, <2>3
<1>. QED
  BY <1>2, <1>3, <1>4 DEF HeldInv

(* No coroutine moves and nothing leaves _HELD. *)
LEMMA HeldStays ==
  ASSUME UNCHANGED <<slot, held>>
  PROVE  HeldMove
BY DEF HeldMove, GoesOn

(* One coroutine steps without a turn, or goes on with its own.            *)
LEMMA HeldSteps ==
  ASSUME IInv, NEW w \in Slots, NEW s, Steps(w, s), s.pc \in Has => GoesOn(slot[w], s),
         UNCHANGED held
  PROVE  HeldMove
<1>1. slot'[w] = s /\ \A v \in Slots \ {w} : slot'[v] = slot[v]
  BY DEF Steps, IInv, TypeOK
<1>2. \A v \in Slots : slot'[v].pc \in Has => GoesOn(slot[v], slot'[v])
  BY <1>1 DEF GoesOn
<1>. QED
  BY <1>2 DEF HeldMove

(* One coroutine starts its turn, which enters _HELD.                      *)
LEMMA HeldBegins ==
  ASSUME IInv, NEW w \in Slots, NEW s, Steps(w, s), s.turn \in Turns,
         starts' = [starts EXCEPT ![s.turn] = @ + 1],
         held' = [held EXCEPT ![Home[w]] = @ \cup {s.turn}],
         ~GoesOn(slot[w], s)
  PROVE  HeldMove
<1>1. slot'[w] = s /\ \A v \in Slots \ {w} : slot'[v] = slot[v]
  BY DEF Steps, IInv, TypeOK
<1>2. Home[w] \in Procs /\ \A v \in Slots : Home[v] \in Procs
  BY ProcConstants
<1>3. s.turn \in held'[Home[w]] /\ \A p \in Procs : held[p] \subseteq held'[p]
  BY <1>2 DEF IInv, TypeOK
<1>4. starts'[s.turn] = starts[s.turn] + 1
  BY DEF IInv, TypeOK
<1>5. \A v \in Slots \ {w} : slot'[v].pc \in Has => GoesOn(slot[v], slot'[v])
  BY <1>1 DEF GoesOn
<1>6. \A v \in Slots : slot[v].turn \in held[Home[v]] => slot[v].turn \in held'[Home[v]]
  BY <1>2, <1>3
<1>. QED
  BY <1>1, <1>3, <1>4, <1>5, <1>6 DEF HeldMove

(* One coroutine is done with its turn, which leaves _HELD.                *)
LEMMA HeldEnds ==
  ASSUME IInv, NEW w \in Slots, slot[w].pc \in Has, NEW s, Steps(w, s), s.pc \notin Has,
         held' = [held EXCEPT ![Home[w]] = @ \ {slot[w].turn}]
  PROVE  HeldMove
<1>1. slot'[w] = s /\ \A v \in Slots \ {w} : slot'[v] = slot[v]
  BY DEF Steps, IInv, TypeOK
<1>2. \A v \in Slots : Home[v] \in Procs
  BY ProcConstants
<1>3. \A v \in Slots : slot'[v].pc \in Has => GoesOn(slot[v], slot'[v]) /\ v # w
  BY <1>1 DEF GoesOn
<1>4. \A v \in Slots \ {w} :
        \/ slot[v].turn \in held[Home[v]] => slot[v].turn \in held'[Home[v]]
        \/ Home[v] = Home[w] /\ slot[v].turn = slot[w].turn
  BY <1>2 DEF IInv, TypeOK
<1>5. Executing \subseteq Has
  BY DEF Has
<1>. QED
  BY <1>3, <1>4, <1>5 DEF HeldMove

(* A process that goes leaves no coroutine behind. *)
LEMMA HeldKilled ==
  ASSUME IInv, NEW p, Kill(p), held' = [held EXCEPT ![p] = {}]
  PROVE  HeldMove
<1>1. \A w \in Slots : slot'[w] = IF Home[w] = p THEN Idle ELSE slot[w]
  BY DEF Kill
<1>2. Idle.pc \notin Has
  BY SlotTypes DEF Has, Executing
<1>3. \A w \in Slots : Home[w] \in Procs
  BY ProcConstants
<1>4. \A w \in Slots : Home[w] # p => held'[Home[w]] = held[Home[w]]
  BY <1>3 DEF IInv, TypeOK
<1>5. \A w \in Slots : slot'[w].pc \in Has => Home[w] # p /\ slot'[w] = slot[w]
  BY <1>1, <1>2
<1>6. Executing \subseteq Has
  BY DEF Has
<1>. QED
  BY <1>4, <1>5, <1>6 DEF HeldMove, GoesOn
(* A claim changes what is held as allowed. *)
LEMMA ClaimsHeld ==
  ASSUME IInv, NEW w \in Slots,
         StartDrain(w) \/ ClaimLock(w) \/ ClaimNothing(w) \/ ClaimCommit(w)
           \/ ClaimRefused(w) \/ ClaimForNobody(w)
  PROVE  HeldMove
<1>1. slot[w] \in Slot
  BY DEF IInv, TypeOK
<1>2. ASSUME NEW s, Steps(w, s), s.pc \notin Has, UNCHANGED held PROVE HeldMove
  BY <1>2, HeldSteps
<1>3. CASE StartDrain(w)
  <2>1. [Idle EXCEPT !.pc = "draining", !.left = MaxDrain].pc \notin Has
    BY DEF Idle, Has, Executing
  <2>. QED
    BY <1>2, <1>3, <2>1 DEF StartDrain
<1>4. CASE ClaimLock(w)
  <2>1. [slot[w] EXCEPT !.pc = "locked", !.turn = Least(Claimable)].pc = "locked"
    BY <1>1 DEF Slot
  <2>2. [slot[w] EXCEPT !.pc = "locked", !.turn = Least(Claimable)].pc \notin Has
    BY <2>1 DEF Has, Executing
  <2>. QED
    BY <1>2, <1>4, <2>2 DEF ClaimLock
<1>5. CASE ClaimNothing(w) \/ ClaimRefused(w)
  <2>1. Idle.pc \notin Has
    BY SlotTypes DEF Has, Executing
  <2>. QED
    BY <1>2, <1>5, <2>1 DEF ClaimNothing, ClaimRefused
<1>6. ASSUME slot[w].pc = "locked" PROVE slot[w].turn \in Turns /\ slot[w].pc \notin Has
  BY <1>6, SlotTurn DEF Has, Executing
<1>7. CASE ClaimCommit(w)
  <2>. DEFINE s == [slot[w] EXCEPT !.pc = "streaming", !.view = "running"]
  <2>1. /\ slot[w].pc = "locked" /\ Steps(w, s)
        /\ held' = [held EXCEPT ![Home[w]] = @ \cup {slot[w].turn}]
        /\ starts' = [starts EXCEPT ![slot[w].turn] = @ + 1]
    BY <1>7 DEF ClaimCommit
  <2>2. s.turn = slot[w].turn
    BY <1>1 DEF Slot
  <2>. HIDE DEF s
  <2>3. ~GoesOn(slot[w], s)
    BY <1>6, <2>1 DEF GoesOn
  <2>. QED
    BY <1>6, <2>1, <2>2, <2>3, HeldBegins
<1>8. CASE ClaimForNobody(w)
  <2>. DEFINE s == Recorded(slot[w])
  <2>1. /\ slot[w].pc = "locked" /\ Steps(w, s)
        /\ held' = [held EXCEPT ![Home[w]] = @ \cup {slot[w].turn}]
        /\ starts' = [starts EXCEPT ![slot[w].turn] = @ + 1]
    BY <1>8 DEF ClaimForNobody
  <2>2. s.turn = slot[w].turn
    BY <1>1, RecordedType
  <2>. HIDE DEF s
  <2>3. ~GoesOn(slot[w], s)
    BY <1>6, <2>1 DEF GoesOn
  <2>. QED
    BY <1>6, <2>1, <2>2, <2>3, HeldBegins
<1>. QED
  BY <1>3, <1>4, <1>5, <1>7, <1>8

(* The end of a stream, of its row and of its drain change what is held as *)
(* allowed.                                                                *)
LEMMA EndsHeld ==
  ASSUME IInv, NEW w \in Slots,
         \/ \E out \in Results : EndStream(w, out)
         \/ RaiseStream(w)
         \/ \E spent \in Spends, said \in BOOLEAN, recover \in BOOLEAN :
              Record(w, spent, said, recover)
         \/ EndInline(w) \/ FailTurn(w) \/ DrainNext(w)
  PROVE  HeldMove
<1>1. slot[w] \in Slot
  BY DEF IInv, TypeOK
<1>2. ASSUME NEW s, Steps(w, s), slot[w].pc \in Executing, s.turn = slot[w].turn, UNCHANGED held
      PROVE  HeldMove
  <2>1. GoesOn(slot[w], s)
    BY <1>2 DEF GoesOn, Has
  <2>. QED
    BY <1>2, <2>1, HeldSteps
<1>3. ASSUME NEW out, EndStream(w, out) PROVE HeldMove
  <2>1. [slot[w] EXCEPT !.pc = "ended", !.out = out].turn = slot[w].turn
    BY <1>1 DEF Slot
  <2>. QED
    BY <1>2, <1>3, <2>1 DEF EndStream, Executing
<1>4. CASE RaiseStream(w)
  <2>1. [slot[w] EXCEPT !.pc = "ended", !.out = "error", !.view = "expired"].turn = slot[w].turn
    BY <1>1 DEF Slot
  <2>. QED
    BY <1>2, <1>4, <2>1 DEF RaiseStream, Executing
<1>5. ASSUME NEW spent, NEW said, NEW recover, Record(w, spent, said, recover) PROVE HeldMove
  <2>1. slot[w].pc = "ended" /\ Steps(w, Recorded(slot[w])) /\ UNCHANGED held
    BY <1>5 DEF Record
  <2>. QED
    BY <1>1, <1>2, <2>1, RecordedType DEF Executing
<1>6. CASE FailTurn(w)
  <2>1. /\ slot[w].pc \in {"streaming", "ended"} /\ Steps(w, Recorded(slot[w]))
        /\ UNCHANGED held
    BY <1>6 DEF FailTurn
  <2>. QED
    BY <1>1, <1>2, <2>1, RecordedType DEF Executing
<1>7. CASE EndInline(w)
  <2>1. /\ slot[w].pc = "inline" /\ Steps(w, Idle)
        /\ held' = [held EXCEPT ![Home[w]] = @ \ {slot[w].turn}]
    BY <1>7 DEF EndInline
  <2>2. Idle.pc \notin Has /\ slot[w].pc \in Has
    BY <2>1, SlotTypes DEF Has, Executing
  <2>. QED
    BY <2>1, <2>2, HeldEnds
<1>8. CASE DrainNext(w)
  <2>. DEFINE s == [Idle EXCEPT !.pc = "draining", !.left = slot[w].left - 1]
  <2>1. /\ slot[w].pc = "recorded" /\ Steps(w, s)
        /\ held' = [held EXCEPT ![Home[w]] = @ \ {slot[w].turn}]
    BY <1>8 DEF DrainNext
  <2>2. s.pc \notin Has /\ slot[w].pc \in Has
    BY <2>1 DEF Idle, Has, Executing
  <2>. HIDE DEF s
  <2>. QED
    BY <2>1, <2>2, HeldEnds
<1>. QED
  BY <1>3, <1>4, <1>5, <1>6, <1>7, <1>8

(* What a streaming turn does on the way changes what is held as allowed.  *)
LEMMA MidStreamHeld ==
  ASSUME IInv, NEW w \in Slots, MidStream(w)
  PROVE  HeldMove
<1>1. slot[w] \in Slot
  BY DEF IInv, TypeOK
<1>2. ASSUME NEW s, Steps(w, s), s.turn = slot[w].turn, s.pc = slot[w].pc, UNCHANGED held
      PROVE  HeldMove
  <2>1. s.pc \in Has => GoesOn(slot[w], s)
    BY <1>2 DEF GoesOn
  <2>. QED
    BY <1>2, <2>1, HeldSteps
<1>3. CASE KeepLease(w)
  BY <1>3, HeldStays DEF KeepLease
<1>4. CASE ToolRollback(w)
  <2>1. /\ [slot[w] EXCEPT !.view = "expired"].turn = slot[w].turn
        /\ [slot[w] EXCEPT !.view = "expired"].pc = slot[w].pc
    BY <1>1 DEF Slot
  <2>. QED
    BY <1>2, <1>4, <2>1 DEF ToolRollback
<1>5. ASSUME NEW r \in [Turns -> Row], Streaming(w), Steps(w, Reload(slot[w], r)), UNCHANGED held
      PROVE  HeldMove
  <2>1. slot[w].turn \in Turns
    BY <1>5, SlotTurn DEF Streaming
  <2>. QED
    BY <1>1, <1>2, <1>5, <2>1, ReloadType
<1>6. ASSUME NEW b \in Agents, AskAgent(w, b) PROVE HeldMove
  <2>1. turn' \in [Turns -> Row]
    BY <1>6, AskAgentMoves, MovesKeep
  <2>2. Streaming(w) /\ Steps(w, Reload(slot[w], turn')) /\ UNCHANGED held
    BY <1>6 DEF AskAgent
  <2>. QED
    BY <1>5, <2>1, <2>2
<1>7. ASSUME NEW b \in Agents, HandOff(w, b) PROVE HeldMove
  <2>1. turn' \in [Turns -> Row]
    BY <1>7, HandOffMoves, MovesKeep
  <2>2. Streaming(w) /\ Steps(w, Reload(slot[w], turn')) /\ UNCHANGED held
    BY <1>7 DEF HandOff
  <2>. QED
    BY <1>5, <2>1, <2>2
<1>8. ASSUME NEW a \in Agents, BeginInline(w, a) PROVE HeldMove
  <2>. DEFINE t == NextTurn(turn)
              s == [Idle EXCEPT !.pc = "inline", !.turn = t, !.view = "running"]
  <2>1. /\ slot[w].pc = "idle" /\ Steps(w, s)
        /\ held' = [held EXCEPT ![Home[w]] = @ \cup {t}]
        /\ starts' = [starts EXCEPT ![t] = @ + 1]
    BY <1>8 DEF BeginInline
  <2>2. t \in Turns
    BY <1>8, BeginInlineMoves
  <2>3. s.turn = t
    BY DEF Idle
  <2>. HIDE DEF s, t
  <2>4. ~GoesOn(slot[w], s)
    BY <2>1 DEF GoesOn, Has, Executing
  <2>. QED
    BY <2>1, <2>2, <2>3, <2>4, HeldBegins
<1>. QED
  BY <1>3, <1>4, <1>6, <1>7, <1>8 DEF MidStream

(* Every step changes what is held as allowed. *)
LEMMA NextHeld ==
  ASSUME IInv, [Next]_vars
  PROVE  HeldMove
<1>1. CASE UNCHANGED vars
  BY <1>1, HeldStays DEF vars
<1>2. CASE Requests
  BY <1>2, HeldStays DEF Requests, PostMessage, PostAsk, PostIntercom, WakeFor,
     WakeBySystem, Stop
<1>3. CASE Clock
  BY <1>3, HeldStays DEF Clock, Sweep, NextMinute, Age, ExpireLease
<1>4. CASE Losses
  <2>1. ASSUME NEW p \in Procs, Shutdown(p) \/ Crash(p) PROVE HeldMove
    BY <2>1, HeldKilled DEF Shutdown, Crash
  <2>2. ASSUME NEW w \in Slots, DropSlot(w) PROVE HeldMove
    <3>1. Idle.pc \notin Has
      BY SlotTypes DEF Has, Executing
    <3>. QED
      BY <2>2, <3>1, HeldSteps DEF DropSlot
  <2>3. CASE LoseBell
    BY <2>3, HeldStays DEF LoseBell
  <2>. QED
    BY <1>4, <2>1, <2>2, <2>3 DEF Losses
<1>. QED
  BY <1>1, <1>2, <1>3, <1>4, ClaimsHeld, EndsHeld, MidStreamHeld DEF Next, Advance

(* At the start nobody has a turn. *)
LEMMA InitHeld == Init => HeldInv
<1>. SUFFICES ASSUME Init PROVE HeldInv
  OBVIOUS
<1>1. \A w \in Slots : slot[w].pc \notin Has
  BY DEF Init, Idle, Has, Executing
<1>. QED
  BY <1>1 DEF HeldInv, Has

(* HeldInv holds in every reachable state. *)
LEMMA HeldInvariant == Spec => [](IInv /\ HeldInv)
<1>1. Init => IInv /\ HeldInv
  BY InitInv, InitHeld
<1>2. IInv /\ HeldInv /\ [Next]_vars => (IInv /\ HeldInv)'
  BY NextInv, NextMoves, NextHeld, HeldKeep
<1>. QED
  BY <1>1, <1>2, PTL DEF Spec

(* Where a process has one coroutine, its shutdown hands back every turn   *)
(* it still runs: release_held reads _HELD, and _HELD has that turn.  With *)
(* two it may not: the run `shutdown` shows it.                            *)
THEOREM HeldCovers ==
  ASSUME LoneSlots
  PROVE  Spec => []HeldCoversRunning
<1>1. HeldInv => HeldCoversRunning
  BY DEF HeldInv, HeldCoversRunning
<1>. QED
  BY <1>1, HeldInvariant, PTL

(* A turn that runs in a process and is missing from its _HELD was started *)
(* more than once, however many coroutines a process has.                  *)
FirstStartIsHeld ==
  \A w \in Slots :
    LET t == slot[w].turn
    IN  slot[w].pc \in Executing => t \in held[Home[w]] \/ starts[t] >= 2

(* What a shutdown cannot hand back is only ever a turn that was taken     *)
(* from a live process and claimed again, in any number of processes and   *)
(* coroutines (release_held, execute_turn's finally, sweep_signal_floor).  *)
THEOREM FirstStartHeld == Spec => []FirstStartIsHeld
<1>1. HeldInv => FirstStartIsHeld
  BY DEF HeldInv, FirstStartIsHeld
<1>. QED
  BY <1>1, HeldInvariant, PTL

-----------------------------------------------------------------------------
(* The budget of an episode.                                               *)

(* Rows are numbered without a gap, so a new row comes after all others.   *)
UsedDown(r) == \A t \in Used(r), u \in Turns : u <= t => u \in Used(r)

(* The rows charged up to and including t.                                 *)
UpTo(r, e, t) == {u \in Charged(r, e) : u <= t}

Within(r, t) ==
  r[t].by \in Agents /\ r[t].episode # 0
    => Cardinality(UpTo(r, r[t].episode, t)) <= MaxEpisodeTurns

BudgetInv == UsedDown(turn) /\ EpisodeBudget

(* The rows a step adds come last, and those of an agent are within the    *)
(* budget.                                                                 *)
AddsWithin(r, r1) ==
  /\ UsedDown(r1)
  /\ \A t \in Used(r1) \ Used(r) : Within(r1, t)

(* A cancelled turn stays cancelled.                                       *)
NoRevival ==
  \A t \in Turns : turn[t].status = "cancelled" => turn'[t].status = "cancelled"

CancelledStay == [][NoRevival]_vars

(* The rows charged are finitely many. *)
LEMMA ChargedFinite ==
  ASSUME NEW r, NEW e
  PROVE  IsFiniteSet(Charged(r, e)) /\ Cardinality(Charged(r, e)) \in Nat
<1>1. Charged(r, e) \subseteq Turns
  BY DEF Charged, Used
<1>2. IsFiniteSet(Charged(r, e))
  BY <1>1, TurnsFinite, FS_Subset
<1>. QED
  BY <1>2, FS_CardinalityType

(* When used rows keep who started them and in which episode, no cancelled *)
(* one comes back and the new ones are within the budget, all are.         *)
LEMMA BudgetKeeps ==
  ASSUME IInv, BudgetInv, \A t \in Used(turn) : SameDeed(turn[t], turn'[t]),
         AddsWithin(turn, turn'), NoRevival
  PROVE  BudgetInv'
<1>1. EpisodeBudget'
  <2>. SUFFICES ASSUME NEW e \in 1..MaxMessages, NEW t \in Charged(turn', e),
                       turn'[t].by \in Agents
                PROVE  Cardinality(UpTo(turn', e, t)) <= MaxEpisodeTurns
    BY DEF EpisodeBudget, UpTo
  <2>1. t \in Used(turn') /\ turn'[t].episode = e /\ e # 0 /\ t \in Turns
        /\ turn'[t].status # "cancelled"
    BY DEF Charged, Used
  <2>2. CASE t \notin Used(turn)
    BY <2>1, <2>2 DEF AddsWithin, Within
  <2>3. CASE t \in Used(turn)
    <3>1. t \in Charged(turn, e) /\ turn[t].by \in Agents
      BY <2>1, <2>3 DEF SameDeed, NoRevival, Charged
    <3>2. UpTo(turn', e, t) \subseteq UpTo(turn, e, t)
      <4>. SUFFICES ASSUME NEW u \in UpTo(turn', e, t) PROVE u \in UpTo(turn, e, t)
        OBVIOUS
      <4>1. u \in Turns /\ u <= t /\ turn'[u].episode = e /\ turn'[u].status # "cancelled"
        BY DEF UpTo, Charged, Used
      <4>2. u \in Used(turn)
        BY <2>3, <4>1 DEF BudgetInv, UsedDown
      <4>. QED
        BY <4>1, <4>2 DEF SameDeed, NoRevival, UpTo, Charged
    <3>3. Cardinality(UpTo(turn, e, t)) <= MaxEpisodeTurns
      BY <3>1 DEF BudgetInv, EpisodeBudget, UpTo
    <3>4. IsFiniteSet(UpTo(turn, e, t))
      BY ChargedFinite, FS_Subset DEF UpTo
    <3>5. Cardinality(UpTo(turn', e, t)) <= Cardinality(UpTo(turn, e, t))
      BY <3>2, <3>4, FS_Subset
    <3>6. /\ IsFiniteSet(UpTo(turn', e, t))
          /\ Cardinality(UpTo(turn, e, t)) \in Nat
          /\ Cardinality(UpTo(turn', e, t)) \in Nat /\ MaxEpisodeTurns \in Nat
      BY <3>2, <3>4, FS_Subset, FS_CardinalityType, RowConstants
    <3>. QED
      BY <3>3, <3>5, <3>6
  <2>. QED
    BY <2>2, <2>3
<1>. QED
  BY <1>1 DEF BudgetInv, AddsWithin

(* Rewriting rows adds none. *)
LEMMA AddsNone ==
  ASSUME NEW r, UsedDown(r), NEW r1, Used(r1) = Used(r)
  PROVE  AddsWithin(r, r1)
BY DEF AddsWithin, UsedDown

(* An INSERT adds at most the next row, after all used ones. *)
LEMMA InsertNext ==
  ASSUME NEW r \in [Turns -> Row], UsedDown(r), Used(r) # Turns, NEW x,
         x.status # "absent"
  PROVE  LET n == NextTurn(r)
             r1 == Insert(r, x)
         IN  \/ r1 = r
             \/ /\ n \in Turns \ Used(r) /\ r1[n] = x
                /\ \A u \in Turns \ {n} : r1[u] = r[u]
                /\ Used(r1) = Used(r) \cup {n} /\ UsedDown(r1)
<1>. DEFINE n == NextTurn(r)
            r1 == Insert(r, x)
<1>1. n \in Turns \ Used(r)
  BY NextTurnFree
<1>2. \A u \in Turns \ Used(r) : n <= u
  <2>1. Turns \ Used(r) \subseteq Nat /\ Turns \ Used(r) # {}
    BY <1>1 DEF Turns
  <2>. QED
    BY <2>1, LeastIn DEF NextTurn
<1>3. CASE HasKey(r, x.key)
  BY <1>3 DEF Insert
<1>4. CASE ~HasKey(r, x.key)
  <2>1. r1 = [r EXCEPT ![n] = x]
    BY <1>4 DEF Insert
  <2>. HIDE DEF n, r1
  <2>2. r1[n] = x /\ \A u \in Turns \ {n} : r1[u] = r[u]
    BY <1>1, <2>1
  <2>3. Used(r1) = Used(r) \cup {n}
    BY <1>1, <2>2 DEF Used
  <2>4. UsedDown(r1)
    <3>. SUFFICES ASSUME NEW t \in Used(r) \cup {n}, NEW u \in Turns, u <= t
                  PROVE  u \in Used(r) \cup {n}
      BY <2>3 DEF UsedDown
    <3>1. CASE t \in Used(r)
      BY <3>1 DEF UsedDown
    <3>2. CASE t = n
      BY <1>1, <1>2, <3>2 DEF Turns
    <3>. QED
      BY <3>1, <3>2
  <2>. QED
    BY <1>1, <2>2, <2>3, <2>4 DEF n, r1
<1>. QED
  BY <1>3, <1>4

(* The row it adds is within the budget if it is nobody's, or its episode  *)
(* was charged less than the limit.                                        *)
LEMMA InsertWithin ==
  ASSUME NEW r \in [Turns -> Row], UsedDown(r), Used(r) # Turns, NEW x,
         x.status # "absent",
         x.by \in Agents /\ x.episode # 0 =>
           Cardinality(Charged(r, x.episode)) < MaxEpisodeTurns
  PROVE  AddsWithin(r, Insert(r, x))
<1>. DEFINE n == NextTurn(r)
            r1 == Insert(r, x)
            e == x.episode
<1>1. CASE r1 = r
  BY <1>1, AddsNone
<1>2. CASE /\ n \in Turns \ Used(r) /\ r1[n] = x
           /\ \A u \in Turns \ {n} : r1[u] = r[u]
           /\ Used(r1) = Used(r) \cup {n} /\ UsedDown(r1)
  <2>. HIDE DEF n, r1
  <2>1. ASSUME x.by \in Agents, e # 0 PROVE Cardinality(UpTo(r1, e, n)) <= MaxEpisodeTurns
    <3>1. UpTo(r1, e, n) \subseteq Charged(r, e) \cup {n}
      BY <1>2 DEF UpTo, Charged, Used
    <3>2. IsFiniteSet(Charged(r, e)) /\ Cardinality(Charged(r, e)) \in Nat
      BY ChargedFinite
    <3>3. n \notin Charged(r, e)
      BY <1>2 DEF Charged
    <3>4. /\ IsFiniteSet(Charged(r, e) \cup {n})
          /\ Cardinality(Charged(r, e) \cup {n}) = Cardinality(Charged(r, e)) + 1
      <4>. HIDE DEF e
      <4>. QED
        BY <3>2, <3>3, FS_AddElement
    <3>5. /\ Cardinality(UpTo(r1, e, n)) <= Cardinality(Charged(r, e) \cup {n})
          /\ IsFiniteSet(UpTo(r1, e, n))
      BY <3>1, <3>4, FS_Subset
    <3>6. Cardinality(UpTo(r1, e, n)) \in Nat /\ MaxEpisodeTurns \in Nat
      BY <3>5, FS_CardinalityType, RowConstants
    <3>. QED
      BY <2>1, <3>2, <3>4, <3>5, <3>6
  <2>2. Within(r1, n)
    BY <1>2, <2>1 DEF Within
  <2>. QED
    BY <1>2, <2>2 DEF AddsWithin, r1
<1>. QED
  BY <1>1, <1>2, InsertNext

(* Only people and the system add rows.                                    *)
AddsNobodys(r, r1) ==
  /\ UsedDown(r1)
  /\ \A t \in Used(r1) \ Used(r) : r1[t].by = Nobody

(* Rows nobody started are within the budget of agents. *)
LEMMA NobodysWithin ==
  ASSUME NEW r, NEW r1, AddsNobodys(r, r1)
  PROVE  AddsWithin(r, r1)
BY RowConstants DEF AddsNobodys, AddsWithin, Within

(* Rewriting rows adds none. *)
LEMMA NobodysNone ==
  ASSUME NEW r, UsedDown(r), NEW r1, Used(r1) = Used(r)
  PROVE  AddsNobodys(r, r1)
BY DEF AddsNobodys, UsedDown

(* One more row of a person or the system. *)
LEMMA NobodysInsert ==
  ASSUME NEW r, NEW r0 \in [Turns -> Row], AddsNobodys(r, r0), Used(r0) # Turns, NEW x,
         x.status # "absent", x.by = Nobody
  PROVE  AddsNobodys(r, Insert(r0, x))
<1>. DEFINE n == NextTurn(r0)
            r1 == Insert(r0, x)
<1>1. CASE r1 = r0
  BY <1>1
<1>2. CASE /\ n \in Turns \ Used(r0) /\ r1[n] = x
           /\ \A u \in Turns \ {n} : r1[u] = r0[u]
           /\ Used(r1) = Used(r0) \cup {n} /\ UsedDown(r1)
  <2>. HIDE DEF n, r1
  <2>1. Used(r0) \subseteq Turns
    BY DEF Used
  <2>2. \A t \in Used(r1) \ Used(r) : r1[t].by = Nobody
    BY <1>2, <2>1 DEF AddsNobodys
  <2>. QED
    BY <1>2, <2>2 DEF AddsNobodys, r1
<1>3. UsedDown(r0)
  BY DEF AddsNobodys
<1>. QED
  BY <1>1, <1>2, <1>3, InsertNext

(* A new turn of a person or the system is nobody's. *)
LEMMA NewTurnBy ==
  ASSUME NEW a, NEW c, NEW b, NEW k, NEW e, NEW key
  PROVE  LET x == NewTurn(a, c, b, k, e, key)
         IN  x.by = b /\ x.episode = e /\ x.status # "absent"
BY DEF NewTurn, NoRow

(* The rows requests add are nobody's. *)
LEMMA RequestsBudget ==
  ASSUME IInv, UsedDown(turn), Requests
  PROVE  AddsNobodys(turn, turn')
<1>. DEFINE m == latest + 1
<1>1. turn \in [Turns -> Row] /\ KeysOK(turn) /\ AddsNobodys(turn, turn)
  BY NobodysNone DEF IInv, TypeOK
<1>2. ASSUME NEW hit \in SUBSET With(turn, Open), NoLock(hit), NEW o \in Outcomes
      PROVE  LET r0 == CancelRows(turn, hit, o)
             IN  /\ r0 \in [Turns -> Row] /\ Used(r0) = Used(turn)
                 /\ AddsNobodys(turn, r0)
  BY <1>1, <1>2, CancelRowsIs, NobodysNone DEF QuietTo
<1>3. {"superseded", "stopped"} \subseteq Outcomes
  BY DEF Outcomes
<1>4. CASE PostAsk
  <2>1. Queued(turn) \in SUBSET With(turn, Open)
    BY QueuedOpen
  <2>2. NoLock(Queued(turn)) /\ turn' = CancelRows(turn, Queued(turn), "superseded")
    BY <1>4 DEF PostAsk
  <2>. QED
    BY <1>2, <1>3, <2>1, <2>2
<1>5. CASE Stop
  BY <1>2, <1>3, <1>5 DEF Stop
<1>6. ASSUME NEW a \in Agents, PostIntercom(a) PROVE AddsNobodys(turn, turn')
  <2>. DEFINE hit == With(turn, Open)
              r0 == CancelRows(turn, hit, "superseded")
              x == NewTurn(a, "human", Nobody, 0, m, <<"voice", m, a>>)
  <2>1. turn' = Insert(r0, x) /\ Room(turn, ask) /\ NoLock(hit)
    BY <1>6 DEF PostIntercom
  <2>2. x.by = Nobody /\ x.status # "absent"
    BY NewTurnBy
  <2>. HIDE DEF x
  <2>3. r0 \in [Turns -> Row] /\ Used(r0) # Turns /\ AddsNobodys(turn, r0)
    BY <1>2, <1>3, <2>1, RoomOne
  <2>. HIDE DEF r0
  <2>. QED
    BY <2>1, <2>2, <2>3, NobodysInsert
<1>7. ASSUME NEW k \in Nat, NEW a \in Agents, WakeFor(k, a) PROVE AddsNobodys(turn, turn')
  <2>. DEFINE x == NewTurn(a, "human", Nobody, 0, k, <<"msg", k, a>>)
  <2>1. turn' = Insert(turn, x) /\ Room(turn, ask)
    BY <1>7 DEF WakeFor
  <2>2. x.by = Nobody /\ x.status # "absent"
    BY NewTurnBy
  <2>. HIDE DEF x
  <2>. QED
    BY <1>1, <2>1, <2>2, RoomOne, NobodysInsert
<1>8. ASSUME NEW a \in Agents, WakeBySystem(a) PROVE AddsNobodys(turn, turn')
  <2>. DEFINE x == NewTurn(a, "system", Nobody, 0, latest, OwnKey(turn))
  <2>1. turn' = Insert(turn, x) /\ Room(turn, ask)
    BY <1>8 DEF WakeBySystem
  <2>2. x.by = Nobody /\ x.status # "absent"
    BY NewTurnBy
  <2>. HIDE DEF x
  <2>. QED
    BY <1>1, <2>1, <2>2, RoomOne, NobodysInsert
<1>9. ASSUME NEW a \in Agents, NEW b \in Agents, NEW to, to = <<a>> \/ to = <<a, b>>,
             PostMessage(to)
      PROVE  AddsNobodys(turn, turn')
  <2>. DEFINE hit == {t \in Queued(turn) : turn[t].episode # m}
              r0 == CancelRows(turn, hit, "superseded")
              new(c) == NewTurn(c, "human", Nobody, 0, m, <<"msg", m, c>>)
              r1 == Insert(r0, new(a))
              n == Len(to)
  <2>1. /\ turn' = IF n = 1 THEN r1 ELSE Insert(r1, new(b))
        /\ n = 1 \/ n = 2
        /\ Cardinality(Used(turn)) + Cardinality(OpenAsks(ask)) + n <= MaxTurns
        /\ m <= MaxMessages /\ NoLock(hit)
    BY <1>9 DEF PostMessage
  <2>2. \A c \in Agents : new(c) \in Row /\ new(c).by = Nobody /\ new(c).status # "absent"
    <3>1. m \in Episodes /\ m \in Nat
      BY <2>1, MessageEpisode, NatTypes
    <3>. SUFFICES ASSUME NEW c \in Agents
                  PROVE  new(c) \in Row /\ new(c).by = Nobody /\ new(c).status # "absent"
      OBVIOUS
    <3>2. <<"msg", m, c>> \in Keys
      BY <3>1, KeyKindsIn
    <3>. QED
      BY <3>1, <3>2, HumanTurn, NewTurnBy
  <2>3. n \in Nat \ {0} /\ Cardinality(Used(turn)) + n <= MaxTurns /\ Used(turn) # Turns
    <3>1. n \in Nat \ {0}
      BY <2>1
    <3>. HIDE DEF n
    <3>. QED
      BY <2>1, <3>1, RoomLeft
  <2>4. hit \in SUBSET With(turn, Open)
    BY QueuedOpen
  <2>5. r0 \in [Turns -> Row] /\ Used(r0) = Used(turn) /\ AddsNobodys(turn, r0)
    BY <1>2, <1>3, <2>1, <2>4
  <2>. HIDE DEF hit, r0, new, n
  <2>6. r1 \in [Turns -> Row] /\ AddsNobodys(turn, r1)
    BY <2>2, <2>3, <2>5, InsertType, NobodysInsert
  <2>7. n = 2 => Used(r1) # Turns
    <3>. SUFFICES ASSUME n = 2 PROVE Used(r1) # Turns
      OBVIOUS
    <3>1. Cardinality(Used(r1)) \in Nat /\ Cardinality(Used(turn)) \in Nat /\ MaxTurns \in Nat
      BY <1>1, <2>6, Counts
    <3>2. Cardinality(Used(r1)) <= Cardinality(Used(turn)) + 1
      BY <2>2, <2>5, InsertUses
    <3>3. Cardinality(Used(r1)) < MaxTurns
      BY <2>3, <3>1, <3>2
    <3>. QED
      BY <3>3, RowsLeft
  <2>. HIDE DEF r1
  <2>8. CASE n = 1
    BY <2>1, <2>6, <2>8
  <2>9. CASE n = 2
    BY <2>1, <2>2, <2>6, <2>7, <2>9, NobodysInsert
  <2>. QED
    BY <2>1, <2>8, <2>9
<1>10. 1..MaxMessages \subseteq Nat
  BY RowConstants
<1>. HIDE DEF m
<1>. QED
  BY <1>4, <1>5, <1>6, <1>7, <1>8, <1>9, <1>10 DEF Requests

(* Writing a used row again, as anything but an absent one, uses no row.   *)
LEMMA PointUses ==
  ASSUME NEW r \in [Turns -> Row], NEW t \in Used(r), NEW y, y.status # "absent"
  PROVE  Used([r EXCEPT ![t] = y]) = Used(r)
BY DEF Used

(* The steps of a slot but its records, its mid-stream and its inline      *)
(* begins add no row.                                                      *)
LEMMA SlotUses ==
  ASSUME IInv, NEW w \in Slots,
         \/ StartDrain(w) \/ ClaimLock(w) \/ ClaimNothing(w) \/ ClaimCommit(w)
         \/ ClaimRefused(w) \/ ClaimForNobody(w) \/ RaiseStream(w) \/ EndInline(w)
         \/ FailTurn(w) \/ DrainNext(w) \/ ToolRollback(w) \/ KeepLease(w)
         \/ \E out \in Results : EndStream(w, out)
  PROVE  Used(turn') = Used(turn)
<1>. DEFINE t == slot[w].turn
            x == turn[t]
<1>1. turn \in [Turns -> Row]
  BY DEF IInv, TypeOK
<1>2. CASE UNCHANGED turn
  BY <1>2
<1>3. ASSUME slot[w].pc \notin {"idle", "draining"}, NEW y, y.status # "absent",
             turn' = [turn EXCEPT ![t] = y]
      PROVE  Used(turn') = Used(turn)
  BY <1>1, <1>3, SlotUsed, PointUses
<1>4. ASSUME slot[w].pc \notin {"idle", "draining"}
      PROVE  /\ x \in Row /\ x.status # "absent"
             /\ Ended(x, "failed", "").status = "failed"
             /\ Ended(x, "done", "").status = "done"
             /\ Claimed(x).status = "running"
             /\ Ended(Claimed(x), "failed", "").status = "failed"
             /\ [x EXCEPT !.lease = "live"].status = x.status
  <2>1. x \in Row /\ x.status # "absent"
    BY <1>4, SlotUsed DEF Used
  <2>. QED
    BY <2>1 DEF Ended, Claimed, Row, Columns
<1>5. CASE ClaimCommit(w)
  <2>1. slot[w].pc = "locked" /\ turn' = [turn EXCEPT ![t] = Claimed(x)]
    BY <1>5 DEF ClaimCommit
  <2>. HIDE DEF t, x
  <2>. QED
    BY <1>3, <1>4, <2>1
<1>6. CASE ClaimForNobody(w)
  <2>1. slot[w].pc = "locked" /\ turn' = [turn EXCEPT ![t] = Ended(Claimed(x), "failed", "")]
    BY <1>6 DEF ClaimForNobody
  <2>. HIDE DEF t, x
  <2>. QED
    BY <1>3, <1>4, <2>1
<1>7. CASE FailTurn(w)
  <2>1. /\ slot[w].pc \in {"streaming", "ended"}
        /\ UNCHANGED turn \/ turn' = [turn EXCEPT ![t] = Ended(x, "failed", "")]
    BY <1>7 DEF FailTurn
  <2>. HIDE DEF t, x
  <2>. QED
    BY <1>2, <1>3, <1>4, <2>1
<1>8. CASE EndInline(w)
  <2>1. /\ slot[w].pc = "inline"
        /\ UNCHANGED turn \/ turn' = [turn EXCEPT ![t] = Ended(x, "done", "")]
    BY <1>8 DEF EndInline
  <2>. HIDE DEF t, x
  <2>. QED
    BY <1>2, <1>3, <1>4, <2>1
<1>9. CASE KeepLease(w)
  <2>1. /\ slot[w].pc \in {"streaming", "inline"}
        /\ turn' = [turn EXCEPT ![t] = [x EXCEPT !.lease = "live"]]
    BY <1>9 DEF KeepLease, Streaming
  <2>. HIDE DEF t, x
  <2>. QED
    BY <1>3, <1>4, <2>1
<1>10. CASE StartDrain(w) \/ ClaimLock(w) \/ ClaimNothing(w) \/ ClaimRefused(w)
            \/ RaiseStream(w) \/ DrainNext(w) \/ ToolRollback(w)
            \/ \E out \in Results : EndStream(w, out)
  BY <1>10 DEF StartDrain, ClaimLock, ClaimNothing, ClaimRefused, RaiseStream, DrainNext,
     ToolRollback, EndStream, rows
<1>. QED
  BY <1>5, <1>6, <1>7, <1>8, <1>9, <1>10

(* Nor do the clock, the sweep, a restart or a loss. *)
LEMMA ClockUses ==
  ASSUME IInv, Clock \/ Losses
  PROVE  Used(turn') = Used(turn)
<1>1. turn \in [Turns -> Row]
  BY DEF IInv, TypeOK
<1>3. CASE Sweep
  <2>1. \A t \in Turns : turn'[t] = IF t \in Stale THEN Ended(Swept[t], "cancelled", "stale")
                                    ELSE Swept[t]
    BY <1>3 DEF Sweep
  <2>2. ASSUME NEW t \in Turns
        PROVE  turn'[t].status # "absent" <=> turn[t].status # "absent"
    <3>1. CASE t \in Expired
      <4>1. Swept[t] = SweptRow(turn[t]) /\ turn[t].status = "running" /\ turn[t] \in Row
        BY <1>1, <3>1 DEF Swept, Expired, Running, With
      <4>2. Swept[t] \in Row /\ Swept[t].status # "absent"
        BY <4>1, SweptRowIs, SweptDeed DEF SameDeed
      <4>3. Ended(Swept[t], "cancelled", "stale").status = "cancelled"
        BY <4>2 DEF Ended, Row, Columns
      <4>. QED
        BY <2>1, <4>1, <4>2, <4>3
    <3>2. CASE t \notin Expired
      <4>1. Swept[t] = turn[t] /\ turn[t] \in Row
        BY <1>1, <3>2 DEF Swept
      <4>2. Ended(Swept[t], "cancelled", "stale").status = "cancelled"
        BY <4>1 DEF Ended, Row, Columns
      <4>3. t \in Stale => Swept[t].status = "queued"
        BY DEF Stale, Queued, With
      <4>. QED
        BY <2>1, <4>1, <4>2, <4>3
    <3>. QED
      BY <3>1, <3>2
  <2>. QED
    BY <2>2 DEF Used
<1>4. ASSUME NEW t \in Turns, ExpireLease(t) PROVE Used(turn') = Used(turn)
  <2>1. t \in Used(turn) /\ turn' = [turn EXCEPT ![t] = [turn[t] EXCEPT !.lease = "expired"]]
    BY <1>4 DEF ExpireLease, Used
  <2>2. [turn[t] EXCEPT !.lease = "expired"].status # "absent"
    BY <1>1, <2>1 DEF Used, Row, Columns
  <2>. QED
    BY <1>1, <2>1, <2>2, PointUses
<1>5. ASSUME NEW p \in Procs, Shutdown(p) PROVE Used(turn') = Used(turn)
  <2>. DEFINE less(x) == IF x.attempt = 0 THEN 0 ELSE x.attempt - 1
  <2>1. \A t \in Turns : turn'[t] = IF t \in HandedBack(p) THEN Requeued(turn[t], less(turn[t]))
                                    ELSE turn[t]
    BY <1>5 DEF Shutdown
  <2>2. \A t \in HandedBack(p) : turn[t].status = "running"
    BY DEF HandedBack
  <2>. HIDE DEF less
  <2>3. ASSUME NEW t \in Turns
        PROVE  turn'[t].status # "absent" <=> turn[t].status # "absent"
    BY <1>1, <2>1, <2>2, RequeuedDeed DEF SameDeed
  <2>. QED
    BY <2>3 DEF Used
<1>6. CASE NextMinute \/ Age \/ LoseBell
  BY <1>6 DEF NextMinute, Age, LoseBell, rows
<1>7. ASSUME NEW p \in Procs, Crash(p) PROVE Used(turn') = Used(turn)
  BY <1>7 DEF Crash, rows
<1>8. ASSUME NEW w \in Slots, DropSlot(w) PROVE Used(turn') = Used(turn)
  BY <1>8 DEF DropSlot, rows
<1>. QED
  BY <1>3, <1>4, <1>5, <1>6, <1>7, <1>8 DEF Clock, Losses

(* An inline turn is nobody's. *)
LEMMA BeginInlineBudget ==
  ASSUME IInv, UsedDown(turn), NEW w \in Slots, NEW a \in Agents, BeginInline(w, a)
  PROVE  AddsNobodys(turn, turn')
<1>. DEFINE y == NewTurn(a, "inline", Nobody, 0, latest, OwnKey(turn))
            x == Claimed(y)
<1>1. turn' = Insert(turn, x) /\ Room(turn, ask)
  BY DEF BeginInline
<1>2. x.by = Nobody /\ x.status # "absent"
  BY DEF NewTurn, NoRow, Claimed
<1>. HIDE DEF x
<1>. QED
  BY <1>1, <1>2, RoomOne, NobodysNone, NobodysInsert DEF IInv, TypeOK

(* What is not refused is charged below the limit. *)
LEMMA NotRefused ==
  ASSUME NEW r, NEW e, NEW a, NEW b, ~Refused(r, e, a, b)
  PROVE  e # 0 => Cardinality(Charged(r, e)) < MaxEpisodeTurns
BY ChargedFinite, RowConstants DEF Refused

(* A question or a hand-off is refused, or it is within the budget. *)
LEMMA AskBudget ==
  ASSUME IInv, UsedDown(turn), NEW w \in Slots, NEW b \in Agents,
         AskAgent(w, b) \/ HandOff(w, b)
  PROVE  AddsWithin(turn, turn')
<1>. DEFINE a == Speaker(w)
            e == RequesterEpisode(turn, a, latest)
            k == Least({x \in AskIds : ask[x].status = "absent"})
            x == NewTurn(b, "ask", a, k, e, <<"ask", k, Nobody>>)
            z == NewTurn(b, "handoff", a, 0, e, OwnKey(turn))
            refused == Refused(turn, e, a, b)
<1>1. /\ AskAgent(w, b) => turn' = IF refused THEN turn ELSE Insert(turn, x)
      /\ HandOff(w, b) => turn' = IF refused THEN turn ELSE Insert(turn, z)
  BY DEF AskAgent, HandOff
<1>2. turn \in [Turns -> Row] /\ Used(turn) # Turns
  <2>1. CASE AskAgent(w, b)
    BY <2>1, RoomLeft DEF AskAgent, IInv, TypeOK
  <2>2. CASE HandOff(w, b)
    BY <2>2, RoomOne DEF HandOff, IInv, TypeOK
  <2>. QED
    BY <2>1, <2>2
<1>3. x.episode = e /\ x.status # "absent" /\ z.episode = e /\ z.status # "absent"
  BY NewTurnBy
<1>4. ~refused /\ e # 0 => Cardinality(Charged(turn, e)) < MaxEpisodeTurns
  BY NotRefused
<1>. HIDE DEF x, z, e, refused
<1>5. CASE refused
  BY <1>1, <1>5, AddsNone
<1>6. CASE ~refused
  BY <1>1, <1>2, <1>3, <1>4, <1>6, InsertWithin
<1>. QED
  BY <1>5, <1>6

(* The end of a stream adds a recovery turn, which is nobody's, or an      *)
(* answer's, which is within the budget.                                   *)
LEMMA RecordBudget ==
  ASSUME IInv, UsedDown(turn), NEW w \in Slots, NEW spent \in Nat, NEW said \in BOOLEAN,
         NEW recover \in BOOLEAN, Record(w, spent, said, recover)
  PROVE  AddsWithin(turn, turn')
<1>. DEFINE s    == slot[w]
            t    == s.turn
            k    == turn[t].ask
            r0   == IF recover THEN WithRecovery(turn, t) ELSE turn
            y    == WrittenRow(s, r0[t], spent)
            r1   == [r0 EXCEPT ![t] = y]
            settles  == turn[t].cause = "ask" /\ ask[k].status = "open"
            from == ask[k].to
            to   == ask[k].from
            e    == IF turn[t].episode # 0 THEN turn[t].episode
                    ELSE RequesterEpisode(r1, from, latest)
            replies == settles /\ s.out \notin {"cancelled", "error"}
            refused == replies /\ Refused(r1, e, from, to)
            x    == NewTurn(to, "answer", from, k, e, AnswerKey(k))
            z    == NewTurn(turn[t].agent, "recovery", Nobody, 0, latest,
                            <<"recover", minute, Nobody>>)
<1>1. /\ turn' = IF replies /\ ~refused THEN Insert(r1, x) ELSE r1
      /\ recover => s.out = "error" /\ Room(turn, ask)
      /\ s.pc = "ended"
  BY DEF Record
<1>2. turn \in [Turns -> Row] /\ AddsNobodys(turn, turn)
  BY NobodysNone DEF IInv, TypeOK
<1>3. t \in Used(turn) /\ t \in Turns /\ turn[t] \in Row /\ s \in Slot
  BY <1>1, SlotUsed DEF Used
<1>4. r0 = (IF recover THEN Insert(turn, z) ELSE turn)
  BY DEF WithRecovery
<1>5. z.by = Nobody /\ z.status # "absent" /\ x.by = from /\ x.episode = e
      /\ x.status # "absent"
  BY DEF NewTurn, NoRow
<1>6. replies => settles /\ ~recover
  BY <1>1
<1>7. settles => k \in OpenAsks(ask)
  BY <1>3 DEF Row, Columns, OpenAsks
<1>8. replies /\ ~refused => ~Refused(r1, e, from, to)
  OBVIOUS
<1>9. r0 \in [Turns -> Row]
  BY <1>1, <1>3, RecoveryRows DEF QuietTo
<1>. HIDE DEF z, r0
<1>10. AddsNobodys(turn, r0) /\ r0[t] = turn[t]
  <2>1. CASE recover
    <3>1. r0 = Insert(turn, z) /\ Used(turn) # Turns
      BY <1>1, <1>4, <2>1, RoomOne
    <3>2. AddsNobodys(turn, r0)
      BY <1>2, <1>5, <3>1, NobodysInsert
    <3>. HIDE DEF t
    <3>. QED
      BY <1>2, <1>3, <3>1, <3>2, InsertLeaves
  <2>2. CASE ~recover
    BY <1>2, <1>4, <2>2
  <2>. QED
    BY <2>1, <2>2
<1>11. y \in Row /\ y.status # "absent" /\ y.by = turn[t].by /\ t \in Used(r0)
  <2>1. spent \in Nat /\ turn[t].status # "absent"
    BY <1>3 DEF Used
  <2>. QED
    BY <1>3, <1>10, <2>1, WrittenRowIs, WrittenDeed DEF SameDeed, Used
<1>. HIDE DEF y
<1>12. Used(r1) = Used(r0) /\ r1 \in [Turns -> Row] /\ \A u \in Turns \ {t} : r1[u] = r0[u]
  BY <1>3, <1>9, <1>11, PointUses
<1>. HIDE DEF r1
<1>13. AddsNobodys(turn, r1)
  <2>1. UsedDown(r1)
    BY <1>10, <1>12 DEF AddsNobodys, UsedDown
  <2>2. \A u \in Used(r1) \ Used(turn) : r1[u].by = Nobody
    BY <1>3, <1>10, <1>12 DEF AddsNobodys, Used
  <2>. QED
    BY <2>1, <2>2 DEF AddsNobodys
<1>14. CASE replies /\ ~refused
  <2>1. r0 = turn /\ Used(r1) = Used(turn) /\ Used(r1) # Turns
    BY <1>4, <1>6, <1>7, <1>12, <1>14, RoomForAnswer
  <2>2. e # 0 => Cardinality(Charged(r1, e)) < MaxEpisodeTurns
    BY <1>8, <1>14, NotRefused
  <2>. HIDE DEF x, e, replies, refused, settles, from, to, k, t
  <2>3. AddsWithin(r1, Insert(r1, x))
    BY <1>5, <1>12, <1>13, <2>1, <2>2, InsertWithin DEF AddsNobodys
  <2>. QED
    BY <1>1, <1>14, <2>1, <2>3 DEF AddsWithin
<1>15. CASE ~(replies /\ ~refused)
  BY <1>1, <1>13, <1>15, NobodysWithin
<1>. QED
  BY <1>14, <1>15

(* The rows a step adds come last, and an agent's are within the budget. *)
LEMMA NextBudget ==
  ASSUME IInv, UsedDown(turn), [Next]_vars
  PROVE  AddsWithin(turn, turn')
<1>1. CASE UNCHANGED vars
  BY <1>1, AddsNone DEF vars
<1>2. CASE Requests
  BY <1>2, RequestsBudget, NobodysWithin
<1>3. ASSUME NEW w \in Slots, Advance(w) PROVE AddsWithin(turn, turn')
  BY <1>3, SlotUses, AddsNone, RecordBudget, ProcConstants DEF Advance
<1>4. ASSUME NEW w \in Slots, MidStream(w) PROVE AddsWithin(turn, turn')
  BY <1>4, SlotUses, AddsNone, AskBudget, BeginInlineBudget, NobodysWithin DEF MidStream
<1>5. CASE Clock \/ Losses
  BY <1>5, ClockUses, AddsNone
<1>. QED
  BY <1>1, <1>2, <1>3, <1>4, <1>5 DEF Next

(* While no cancelled turn comes back, what agents start is within the     *)
(* budget of its episode: the copy of a stopped turn that is written late  *)
(* is the only way past MAX_EPISODE_TURNS.                                 *)
THEOREM BudgetIsKept == Spec /\ CancelledStay => []EpisodeBudget
<1>1. Init => BudgetInv
  <2>. SUFFICES ASSUME Init PROVE BudgetInv
    OBVIOUS
  <2>1. Used(turn) = {}
    BY DEF Init, Used, NoRow
  <2>. QED
    BY <2>1 DEF BudgetInv, UsedDown, EpisodeBudget, Charged
<1>2. ASSUME IInv, AskInv, BudgetInv, [Next]_vars, [NoRevival]_vars PROVE BudgetInv'
  <2>1. DeedsMove /\ AddsWithin(turn, turn')
    BY <1>2, NextDeeds, NextBudget DEF BudgetInv
  <2>2. NoRevival
    BY <1>2 DEF vars, NoRevival
  <2>. QED
    BY <1>2, <2>1, <2>2, BudgetKeeps DEF DeedsMove, DeedsTo
<1>3. BudgetInv => EpisodeBudget
  BY DEF BudgetInv
<1>. QED
  BY <1>1, <1>2, <1>3, AskInvariant, PTL DEF Spec, CancelledStay
=============================================================================
