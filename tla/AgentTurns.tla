----------------------------- MODULE AgentTurns -----------------------------
(***************************************************************************)
(* Who speaks next in one conversation: services/agent_turns.py with the   *)
(* callers that post, ask, hand over, stop and restart.                    *)
(*                                                                         *)
(* Processes (the API, the worker) each have slots: coroutines that drain  *)
(* the queue or stream an inline turn.  A slot streams for minutes on an   *)
(* ORM session whose identity map keeps the row as it was claimed; `view`  *)
(* is that copy.  The steps of a slot are the stretches between its long   *)
(* awaits; a request or a sweep, which only talks to the database, is one  *)
(* step, except that it waits for a row a claim has locked.                *)
(*                                                                         *)
(* Abstractions: one conversation; a bell is a flag; a lease is live or    *)
(* expired; a row is old once `aged` passed it; model output, texts, the   *)
(* floor read model and the thread log are not here.                       *)
(***************************************************************************)
EXTENDS TurnRows, Sequences

CONSTANTS
  Procs,        \* processes
  Slots,        \* coroutines
  Home,         \* Home[w]: the process of slot w
  MaxDrain,     \* _MAX_DRAIN
  Spends,       \* token counts a stream may report
  Replies,      \* what a stream that returns may come to
  OrgRules,     \* services/org_rules.py: is the tenant switch on
  Events,       \* bound: the requests and the clock events of this instance
  MaxFaults     \* bound: restarts, crashes, dropped jobs, lost bells

ASSUME ProcConstants ==
  /\ Home \in [Slots -> Procs]
  /\ MaxDrain \in Nat \ {0}
  /\ Spends \subseteq Nat
  /\ Replies \subseteq {"spoke", "stalled", "silent"}
  /\ OrgRules \in BOOLEAN
  /\ MaxFaults \in Nat

VARIABLES
  turn,       \* agent_turns
  ask,        \* agent_asks
  latest,     \* the latest human message
  minute,     \* the minute of the clock, for the recovery key
  stopLine,   \* episodes that got the line "I stop here, it is your turn."
  aged,       \* turns up to this one are older than QUEUED_MAX_AGE_S
  bell,       \* a run_agent_turns_job (or an in-process drain) is on its way
  slot,       \* what each coroutine is doing
  held,       \* _HELD of each process
  faults,     \* faults so far
  starts,     \* history: how often a turn was started
  released    \* history: how often a shutdown handed a turn back

rows    == <<turn, ask>>
history == <<starts, released>>
vars    == <<turn, ask, latest, minute, stopLine, aged, bell, slot, held,
             faults, starts, released>>

(* idle; draining: about to claim; locked: holds the row FOR UPDATE;       *)
(* streaming: claimed, building the prompt or streaming; inline: streaming *)
(* outside the queue; ended: the stream is over, the row not yet written;  *)
(* recorded: row committed, voice and presence still to do.                *)
Pcs       == {"idle", "draining", "locked", "streaming", "inline", "ended", "recorded"}
Executing == {"streaming", "inline", "ended"}
Results   == {"", "spoke", "stalled", "silent", "cancelled", "error"}

(* `view` is the status the session's copy of the row holds; a rollback    *)
(* expires the copy, and the next query that returns the row reloads it.   *)
Slot == [pc: Pcs, turn: {0} \cup Turns, view: Statuses \cup {"expired"},
         left: 0..MaxDrain, out: Results]

Recorded(s) == [s EXCEPT !.pc = "recorded", !.view = "expired", !.out = ""]
Idle == [pc |-> "idle", turn |-> 0, view |-> "expired", left |-> 0, out |-> ""]

Init ==
  /\ turn = [t \in Turns |-> NoRow]
  /\ ask = [k \in AskIds |-> NoAsk]
  /\ latest = 0 /\ minute = 0 /\ stopLine = {} /\ aged = 0
  /\ bell = FALSE
  /\ slot = [w \in Slots |-> Idle]
  /\ held = [p \in Procs |-> {}]
  /\ faults = 0
  /\ starts = [t \in Turns |-> 0]
  /\ released = [t \in Turns |-> 0]

-----------------------------------------------------------------------------
(* Helpers.                                                                *)

Locked(t)   == \E w \in Slots : slot[w].pc = "locked" /\ slot[w].turn = t
NoLock(S)   == \A t \in S : ~Locked(t)
Steps(w, s) == slot' = [slot EXCEPT ![w] = s]
Pending     == \E t \in Turns : turn[t].status = "queued"
FloorFree   == Running(turn) = {}

(* The row sync_floor selects: the running turn, else the oldest queued.   *)
FloorTurn(r) == IF Running(r) # {} THEN Least(Running(r))
                ELSE IF Queued(r) # {} THEN Least(Queued(r)) ELSE 0

(* A query of the slot's session returned row t of r: an expired copy is   *)
(* loaded again, any other copy stays as it is.                            *)
Reload(s, r) == IF s.view = "expired" /\ s.turn = FloorTurn(r)
                THEN [s EXCEPT !.view = r[s.turn].status] ELSE s

(* cancel_turns: the rows hit, and the open asks those rows carried.       *)
CancelRows(r, hit, outcome) ==
  [t \in Turns |-> IF t \in hit THEN Ended(r[t], "cancelled", outcome) ELSE r[t]]

(* Slip: a cancelled turn leaves the question it carried open.             *)
CancelAsksNever(q, r, hit) == q

CancelAsks(q, r, hit) ==
  [k \in AskIds |-> IF q[k].status = "open" /\ \E t \in hit : r[t].ask = k
                    THEN [q[k] EXCEPT !.status = "cancelled"] ELSE q[k]]

-----------------------------------------------------------------------------
(* Requests.                                                               *)

(* A person's message addressed to the agents of `to`, in mention order:   *)
(* queued turns of older episodes go, every addressed agent gets a turn.   *)
PostMessage(to) ==
  LET m   == latest + 1
      hit == {t \in Queued(turn) : turn[t].episode # m}
      r0  == CancelRows(turn, hit, "superseded")
      new(a) == NewTurn(a, "human", Nobody, 0, m, <<"msg", m, a>>)
      r1  == Insert(r0, new(to[1]))
  IN  /\ m <= MaxMessages
      /\ Cardinality(Used(turn)) + Cardinality(OpenAsks(ask)) + Len(to) <= MaxTurns
      /\ NoLock(hit)
      /\ latest' = m
      /\ turn' = IF Len(to) = 1 THEN r1 ELSE Insert(r1, new(to[2]))
      /\ ask' = CancelAsks(ask, turn, hit)
      /\ bell' = TRUE
      /\ UNCHANGED <<minute, stopLine, aged, slot, held, faults, history>>

(* A solo Ask: the message supersedes queued turns; its own turn is inline.*)
PostAsk ==
  LET hit == Queued(turn)
  IN  /\ latest < MaxMessages
      /\ NoLock(hit)
      /\ latest' = latest + 1
      /\ turn' = CancelRows(turn, hit, "superseded")
      /\ ask' = CancelAsks(ask, turn, hit)
      /\ UNCHANGED <<minute, stopLine, aged, bell, slot, held, faults, history>>

(* A spoken sentence supersedes the running turn too.                      *)
PostIntercom(a) ==
  LET m   == latest + 1
      hit == With(turn, Open)
  IN  /\ m <= MaxMessages
      /\ Room(turn, ask)
      /\ NoLock(hit)
      /\ latest' = m
      /\ turn' = Insert(CancelRows(turn, hit, "superseded"),
                        NewTurn(a, "human", Nobody, 0, m, <<"voice", m, a>>))
      /\ ask' = CancelAsks(ask, turn, hit)
      /\ bell' = TRUE
      /\ UNCHANGED <<minute, stopLine, aged, slot, held, faults, history>>

(* The wake of agent a for message m is asked for again (a retry, a second *)
(* caller): the key makes it a duplicate, and a duplicate rings no bell.   *)
WakeFor(m, a) ==
  /\ m \in 1..latest
  /\ Room(turn, ask)
  /\ turn' = Insert(turn, NewTurn(a, "human", Nobody, 0, m, <<"msg", m, a>>))
  /\ bell' = (bell \/ ~HasKey(turn, <<"msg", m, a>>))
  /\ UNCHANGED <<ask, latest, minute, stopLine, aged, slot, held, faults, history>>

(* An event, a schedule or a finished subagent wakes agent a.              *)
WakeBySystem(a) ==
  /\ Room(turn, ask)
  /\ turn' = Insert(turn, NewTurn(a, "system", Nobody, 0, latest, OwnKey(turn)))
  /\ bell' = TRUE
  /\ UNCHANGED <<ask, latest, minute, stopLine, aged, slot, held, faults, history>>

(* The Stop button.                                                        *)
Stop ==
  LET hit == With(turn, Open)
  IN  /\ hit # {}
      /\ NoLock(hit)
      /\ turn' = CancelRows(turn, hit, "stopped")
      /\ ask' = CancelAsks(ask, turn, hit)
      /\ UNCHANGED <<latest, minute, stopLine, aged, bell, slot, held, faults, history>>

-----------------------------------------------------------------------------
(* A slot drains the queue.                                                *)

StartDrain(w) ==
  /\ slot[w].pc = "idle" /\ bell
  /\ bell' = FALSE
  /\ Steps(w, [Idle EXCEPT !.pc = "draining", !.left = MaxDrain])
  /\ UNCHANGED <<rows, latest, minute, stopLine, aged, held, faults, history>>

Claimable == {t \in Queued(turn) : ~Locked(t)}

(* Slip: a drain that does not count to _MAX_DRAIN.                        *)
ClaimLockUncounted(w) ==
  /\ slot[w].pc = "draining"
  /\ FloorFree /\ Claimable # {}
  /\ Steps(w, [slot[w] EXCEPT !.pc = "locked", !.turn = Least(Claimable)])
  /\ UNCHANGED <<rows, latest, minute, stopLine, aged, bell, held, faults, history>>

(* SELECT ... FOR UPDATE SKIP LOCKED, after a look that nobody runs.       *)
ClaimLock(w) ==
  /\ slot[w].pc = "draining" /\ slot[w].left > 0
  /\ FloorFree /\ Claimable # {}
  /\ Steps(w, [slot[w] EXCEPT !.pc = "locked", !.turn = Least(Claimable)])
  /\ UNCHANGED <<rows, latest, minute, stopLine, aged, bell, held, faults, history>>

(* Nobody to claim, or _MAX_DRAIN turns done: the job returns.             *)
ClaimNothing(w) ==
  /\ slot[w].pc = "draining"
  /\ slot[w].left = 0 \/ ~FloorFree \/ Claimable = {}
  /\ Steps(w, Idle)
  /\ UNCHANGED <<rows, latest, minute, stopLine, aged, bell, held, faults, history>>

(* Slip: no partial unique index; only the look before the lock is left.   *)
NoIndex == TRUE

(* The UPDATE meets ux_agent_turns_one_running.                            *)
OneRunningIndex == FloorFree

(* Slip: the claimed turn is not entered in _HELD.                         *)
ClaimCommitUnheld(w) ==
  LET t == slot[w].turn
  IN  /\ slot[w].pc = "locked"
      /\ OneRunningIndex
      /\ turn' = [turn EXCEPT ![t] = Claimed(@)]
      /\ starts' = [starts EXCEPT ![t] = @ + 1]
      /\ Steps(w, [slot[w] EXCEPT !.pc = "streaming", !.view = "running"])
      /\ UNCHANGED <<ask, latest, minute, stopLine, aged, bell, held, faults, released>>

ClaimCommit(w) ==
  LET t == slot[w].turn
  IN  /\ slot[w].pc = "locked"
      /\ OneRunningIndex
      /\ turn' = [turn EXCEPT ![t] = Claimed(@)]
      /\ held' = [held EXCEPT ![Home[w]] = @ \cup {t}]
      /\ starts' = [starts EXCEPT ![t] = @ + 1]
      /\ Steps(w, [slot[w] EXCEPT !.pc = "streaming", !.view = "running"])
      /\ UNCHANGED <<ask, latest, minute, stopLine, aged, bell, faults, released>>

ClaimRefused(w) ==
  /\ slot[w].pc = "locked"
  /\ ~OneRunningIndex
  /\ Steps(w, Idle)
  /\ UNCHANGED <<rows, latest, minute, stopLine, aged, bell, held, faults, history>>

(* The claimed turn's agent is inactive: _fail_turn before any stream.     *)
ClaimForNobody(w) ==
  LET t == slot[w].turn
  IN  /\ slot[w].pc = "locked"
      /\ OneRunningIndex
      /\ turn' = [turn EXCEPT ![t] = Ended(Claimed(@), "failed", "")]
      /\ held' = [held EXCEPT ![Home[w]] = @ \cup {t}]
      /\ starts' = [starts EXCEPT ![t] = @ + 1]
      /\ Steps(w, Recorded(slot[w]))
      /\ UNCHANGED <<ask, latest, minute, stopLine, aged, bell, faults, released>>

(* execute_turn raised outside the stream: drain rolls back and _fail_turn *)
(* reads the row again.  The ask of a failed ask turn is not touched.      *)
FailTurn(w) ==
  LET t == slot[w].turn
  IN  /\ slot[w].pc \in {"streaming", "ended"}
      /\ ~Locked(t)
      /\ turn' = IF turn[t].status \in Open
                 THEN [turn EXCEPT ![t] = Ended(@, "failed", "")] ELSE turn
      /\ Steps(w, Recorded(slot[w]))
      /\ UNCHANGED <<ask, latest, minute, stopLine, aged, bell, held, faults, history>>

(* Back in drain: the turn leaves _HELD and the loop goes on.              *)
DrainNext(w) ==
  LET s == slot[w]
  IN  /\ s.pc = "recorded"
      /\ held' = [held EXCEPT ![Home[w]] = @ \ {s.turn}]
      /\ Steps(w, [Idle EXCEPT !.pc = "draining", !.left = s.left - 1])
      /\ UNCHANGED <<rows, latest, minute, stopLine, aged, bell, faults, history>>

-----------------------------------------------------------------------------
(* What a streaming turn does on the way.                                  *)

Streaming(w) == slot[w].pc \in {"streaming", "inline"}
Speaker(w)   == turn[slot[w].turn].agent

(* _keep_lease between two rounds.                                         *)
KeepLease(w) ==
  LET t == slot[w].turn
  IN  /\ Streaming(w)
      /\ turn[t].status = "running" /\ turn[t].lease = "expired"
      /\ turn' = [turn EXCEPT ![t].lease = "live"]
      /\ UNCHANGED <<ask, latest, minute, stopLine, aged, bell, slot, held, faults, history>>

(* A tool or the prepare step rolls the shared session back.               *)
ToolRollback(w) ==
  /\ slot[w].pc = "streaming" /\ slot[w].view # "expired"
  /\ Steps(w, [slot[w] EXCEPT !.view = "expired"])
  /\ UNCHANGED <<rows, latest, minute, stopLine, aged, bell, held, faults, history>>

Opened(from, to) == \E k \in OpenAsks(ask) : ask[k].from = from /\ ask[k].to = to

(* Slip: two agents may wait for each other.                               *)
MayAskBack(a, b) == ~Opened(a, b)

(* One open ask per pair, and under the organization rules none back to an *)
(* agent that waits for this one's answer.                                 *)
MayAsk(a, b) ==
  /\ ~Opened(a, b)
  /\ OrgRules => ~Opened(b, a)

(* ask_agent: open a question to b and queue its turn.                     *)
AskAgent(w, b) ==
  LET a == Speaker(w)
      e == RequesterEpisode(turn, a, latest)
      k == Least({x \in AskIds : ask[x].status = "absent"})
      new == NewTurn(b, "ask", a, k, e, <<"ask", k, Nobody>>)
      refused == Refused(turn, e, a, b)
      r == IF refused THEN turn ELSE Insert(turn, new)
  IN  /\ Streaming(w) /\ a # b
      /\ \E x \in AskIds : ask[x].status = "absent"
      /\ Cardinality(Used(turn)) + Cardinality(OpenAsks(ask)) + 2 <= MaxTurns
      /\ MayAsk(a, b)
      /\ turn' = r
      /\ ask' = [ask EXCEPT ![k] =
                   [status |-> IF refused THEN "cancelled" ELSE "open",
                    from |-> a, to |-> b, episode |-> e]]
      /\ stopLine' = IF refused THEN stopLine \cup {e} ELSE stopLine
      /\ bell' = (bell \/ ~refused)
      /\ Steps(w, Reload(slot[w], r))
      /\ UNCHANGED <<latest, minute, aged, held, faults, history>>

(* handoff_to: b gets a turn with a brief.                                 *)
HandOff(w, b) ==
  LET a == Speaker(w)
      e == RequesterEpisode(turn, a, latest)
      refused == Refused(turn, e, a, b)
      r == IF refused THEN turn
           ELSE Insert(turn, NewTurn(b, "handoff", a, 0, e, OwnKey(turn)))
  IN  /\ Streaming(w) /\ a # b
      /\ Room(turn, ask)
      /\ turn' = r
      /\ stopLine' = IF refused THEN stopLine \cup {e} ELSE stopLine
      /\ bell' = (bell \/ ~refused)
      /\ Steps(w, Reload(slot[w], r))
      /\ UNCHANGED <<ask, latest, minute, aged, held, faults, history>>

-----------------------------------------------------------------------------
(* A stream ends.                                                          *)

(* The stream returned: it was cut, said nothing, repeated itself or spoke.*)
EndStream(w, out) ==
  /\ slot[w].pc = "streaming"
  /\ IF turn[slot[w].turn].status = "cancelled"
     THEN out = "cancelled" ELSE out \in Replies
  /\ Steps(w, [slot[w] EXCEPT !.pc = "ended", !.out = out])
  /\ UNCHANGED <<rows, latest, minute, stopLine, aged, bell, held, faults, history>>

(* The stream raised: the session is rolled back.                          *)
RaiseStream(w) ==
  /\ slot[w].pc = "streaming"
  /\ Steps(w, [slot[w] EXCEPT !.pc = "ended", !.out = "error", !.view = "expired"])
  /\ UNCHANGED <<rows, latest, minute, stopLine, aged, bell, held, faults, history>>

(* The row as execute_turn writes it, from the session's copy.  A stream   *)
(* that raised never reported its usage.                                   *)
WrittenRow(s, x, spent) ==
  LET status == IF s.view = "expired" THEN x.status ELSE s.view
      kept   == status = "cancelled" /\ x.outcome = "stopped"
  IN  [x EXCEPT !.status = IF status = "running"
                           THEN IF s.out = "error" THEN "failed" ELSE "done"
                           ELSE @,
                !.lease = IF status = "running" THEN "none" ELSE @,
                !.outcome = IF kept THEN @ ELSE "",
                !.tokens = IF s.out = "error" THEN 0 ELSE spent]

(* _seal_failed_turn: one recovery turn per minute, unless this was one or *)
(* the workspace is blocked (`recover` is FALSE).                          *)
WithRecovery(r, t) ==
  Insert(r, NewTurn(r[t].agent, "recovery", Nobody, 0, latest,
                    <<"recover", minute, Nobody>>))

(* Slip: the answer reuses the key of the question.                        *)
AnswerKeyOfAsk(k) == <<"ask", k, Nobody>>

AnswerKey(k) == <<"answer", k, Nobody>>

(* The end of execute_turn, one transaction: the recovery turn of a failed *)
(* stream, the row, and for an ask turn _answer_ask: the ask is answered   *)
(* if the turn left text or a picture (`said`) and the asker gets the next *)
(* turn, silence included, unless the stream was cut or failed or the      *)
(* episode's budget refuses it.                                            *)
Record(w, spent, said, recover) ==
  LET s    == slot[w]
      t    == s.turn
      k    == turn[t].ask
      r0   == IF recover THEN WithRecovery(turn, t) ELSE turn
      r1   == [r0 EXCEPT ![t] = WrittenRow(s, @, spent)]
      settles  == turn[t].cause = "ask" /\ ask[k].status = "open"
      answered == s.out \in {"spoke", "stalled"} /\ said
      from == ask[k].to
      to   == ask[k].from
      e    == IF turn[t].episode # 0 THEN turn[t].episode
              ELSE RequesterEpisode(r1, from, latest)
      replies == settles /\ s.out \notin {"cancelled", "error"}
      refused == replies /\ Refused(r1, e, from, to)
  IN  /\ s.pc = "ended"
      /\ ~Locked(t)
      /\ recover => s.out = "error" /\ turn[t].cause # "recovery" /\ Room(turn, ask)
      /\ turn' = IF replies /\ ~refused
                 THEN Insert(r1, NewTurn(to, "answer", from, k, e, AnswerKey(k)))
                 ELSE r1
      /\ ask' = IF settles
                THEN [ask EXCEPT ![k].status = IF answered THEN "answered" ELSE "cancelled"]
                ELSE ask
      /\ stopLine' = stopLine
           \cup (IF refused THEN {e} ELSE {})
           \cup (IF s.out = "stalled" THEN {turn[t].episode} ELSE {})
      /\ bell' = (bell \/ (replies /\ ~refused) \/ Used(r0) # Used(turn))
      /\ Steps(w, Recorded(s))
      /\ UNCHANGED <<latest, minute, aged, held, faults, history>>

-----------------------------------------------------------------------------
(* Inline turns: an Ask or an inbound reply streams in its own request.    *)

BeginInline(w, a) ==
  LET t == NextTurn(turn)
      x == NewTurn(a, "inline", Nobody, 0, latest, OwnKey(turn))
  IN  /\ slot[w].pc = "idle"
      /\ Room(turn, ask)
      /\ OneRunningIndex
      /\ turn' = Insert(turn, Claimed(x))
      /\ held' = [held EXCEPT ![Home[w]] = @ \cup {t}]
      /\ starts' = [starts EXCEPT ![t] = @ + 1]
      /\ Steps(w, [Idle EXCEPT !.pc = "inline", !.turn = t, !.view = "running"])
      /\ UNCHANGED <<ask, latest, minute, stopLine, aged, bell, faults, released>>

(* end_inline_turn: a session of its own, so the row is read fresh.  Every  *)
(* caller leaves its token count at 0.                                     *)
EndInline(w) ==
  LET t == slot[w].turn
      runs == turn[t].status = "running"
  IN  /\ slot[w].pc = "inline"
      /\ held' = [held EXCEPT ![Home[w]] = @ \ {t}]
      /\ turn' = IF runs
                 THEN [turn EXCEPT ![t] = Ended(@, "done", "")]
                 ELSE turn
      /\ bell' = (bell \/ (runs /\ Pending))
      /\ Steps(w, Idle)
      /\ UNCHANGED <<ask, latest, minute, stopLine, aged, faults, history>>

-----------------------------------------------------------------------------
(* The sweep, the clock.                                                   *)

(* Slip: the lease is compared the wrong way round.                        *)
ExpiredBackwards == {t \in Running(turn) : turn[t].lease = "live"}

Expired == {t \in Running(turn) : turn[t].lease = "expired"}

(* Slip: a turn that used its last attempt goes back on the queue.         *)
SweptRowOnceMore(x) == IF x.attempt <= MaxAttempts THEN Requeued(x, x.attempt)
                       ELSE Ended(x, "failed", "")

(* What the sweep makes of an expired row, before it drops old queued ones.*)
SweptRow(x) == IF x.attempt < MaxAttempts THEN Requeued(x, x.attempt)
               ELSE Ended(x, "failed", "")

Swept == [t \in Turns |-> IF t \in Expired THEN SweptRow(turn[t]) ELSE turn[t]]
Stale == {t \in Queued(Swept) : t <= aged}

(* Asks of rows it fails or drops stay open.  It rings when rows changed   *)
(* or wait, and none runs.                                                 *)
Sweep ==
  LET r == [t \in Turns |-> IF t \in Stale THEN Ended(Swept[t], "cancelled", "stale")
                            ELSE Swept[t]]
      waiting == Queued(turn) \ Stale
  IN  /\ \/ Expired \cup Stale # {}
         \/ waiting # {} /\ FloorFree /\ ~bell
      /\ NoLock(Stale)
      /\ turn' = r
      /\ bell' = (bell \/ Running(r) = {})
      /\ UNCHANGED <<ask, latest, minute, stopLine, aged, slot, held, faults, history>>

ExpireLease(t) ==
  /\ turn[t].status = "running" /\ turn[t].lease = "live"
  /\ turn' = [turn EXCEPT ![t].lease = "expired"]
  /\ UNCHANGED <<ask, latest, minute, stopLine, aged, bell, slot, held, faults, history>>

Age ==
  /\ aged' \in {t \in With(turn, Open) : t > aged}
  /\ UNCHANGED <<rows, latest, minute, stopLine, bell, slot, held, faults, history>>

NextMinute ==
  /\ minute < MaxMinutes
  /\ minute' = minute + 1
  /\ UNCHANGED <<rows, latest, stopLine, aged, bell, slot, held, faults, history>>

-----------------------------------------------------------------------------
(* Restarts and losses.                                                    *)

Kill(p) == slot' = [w \in Slots |-> IF Home[w] = p THEN Idle ELSE slot[w]]

(* Slip: every held turn, also one that is over but still in _HELD.        *)
HandedBackAll(p) == held[p]

HandedBack(p) == {t \in held[p] : turn[t].status = "running"}

(* Shutdown: release_held hands the turns this process holds back.         *)
Shutdown(p) ==
  LET back == HandedBack(p)
  IN  /\ faults < MaxFaults
      /\ faults' = faults + 1
      /\ turn' = [t \in Turns |->
                    IF t \in back
                    THEN Requeued(turn[t], IF turn[t].attempt = 0 THEN 0
                                           ELSE turn[t].attempt - 1)
                    ELSE turn[t]]
      /\ released' = [t \in Turns |-> IF t \in back THEN released[t] + 1 ELSE released[t]]
      /\ held' = [held EXCEPT ![p] = {}]
      /\ bell' = (bell \/ back # {})
      /\ Kill(p)
      /\ UNCHANGED <<ask, latest, minute, stopLine, aged, starts>>

Crash(p) ==
  /\ faults < MaxFaults
  /\ faults' = faults + 1
  /\ held' = [held EXCEPT ![p] = {}]
  /\ Kill(p)
  /\ UNCHANGED <<rows, latest, minute, stopLine, aged, bell, history>>

(* arq cancels the job at its timeout (drain does not catch CancelledError,*)
(* so the turn stays in _HELD), or the request of an inline turn is gone.  *)
DropSlot(w) ==
  /\ faults < MaxFaults
  /\ slot[w].pc # "idle"
  /\ faults' = faults + 1
  /\ Steps(w, Idle)
  /\ UNCHANGED <<rows, latest, minute, stopLine, aged, bell, held, history>>

LoseBell ==
  /\ faults < MaxFaults
  /\ bell
  /\ faults' = faults + 1
  /\ bell' = FALSE
  /\ UNCHANGED <<rows, latest, minute, stopLine, aged, slot, held, history>>

-----------------------------------------------------------------------------
Requests ==
  \/ "message" \in Events /\ \E a \in Agents :
       PostMessage(<<a>>) \/ \E b \in Agents \ {a} : PostMessage(<<a, b>>)
  \/ "ask" \in Events /\ PostAsk
  \/ "intercom" \in Events /\ \E a \in Agents : PostIntercom(a)
  \/ "retry" \in Events /\ \E m \in 1..MaxMessages, a \in Agents : WakeFor(m, a)
  \/ "system" \in Events /\ \E a \in Agents : WakeBySystem(a)
  \/ "stop" \in Events /\ Stop

(* What a slot does by itself once started: the part that is scheduled.    *)
Advance(w) ==
  \/ StartDrain(w) \/ ClaimLock(w) \/ ClaimNothing(w)
  \/ ClaimCommit(w) \/ ClaimRefused(w) \/ ClaimForNobody(w)
  \/ \E out \in Results : EndStream(w, out)
  \/ RaiseStream(w)
  \/ \E spent \in Spends, said \in BOOLEAN, recover \in BOOLEAN :
       Record(w, spent, said, recover)
  \/ EndInline(w)
  \/ FailTurn(w)
  \/ DrainNext(w)

MidStream(w) ==
  \/ KeepLease(w) \/ ToolRollback(w)
  \/ \E b \in Agents : AskAgent(w, b) \/ HandOff(w, b)
  \/ "ask" \in Events /\ \E a \in Agents : BeginInline(w, a)

Clock ==
  \/ Sweep \/ NextMinute
  \/ "age" \in Events /\ Age
  \/ "lease" \in Events /\ \E t \in Turns : ExpireLease(t)

Losses ==
  \/ \E p \in Procs : Shutdown(p) \/ Crash(p)
  \/ \E w \in Slots : DropSlot(w)
  \/ LoseBell

Next ==
  \/ Requests
  \/ \E w \in Slots : Advance(w) \/ MidStream(w)
  \/ Clock
  \/ Losses

Spec == Init /\ [][Next]_vars

(* A started coroutine goes on, a rung bell is answered, a model stream    *)
(* returns (the provider call times out), the cron runs the sweep, and the *)
(* lease of a turn nobody streams any more runs out.                       *)
Abandoned(t) == ~\E w \in Slots : slot[w].turn = t /\ slot[w].pc \in Executing

Fairness ==
  /\ \A w \in Slots : WF_vars(Advance(w))
  /\ WF_vars(Sweep)
  /\ \A t \in Turns : WF_vars(Abandoned(t) /\ ExpireLease(t))

FairSpec == Spec /\ Fairness

-----------------------------------------------------------------------------
(* Properties.                                                             *)

(* Every variable keeps its type, in particular rows only the statuses and *)
(* outcomes the columns document (models/agent_turn.py).                   *)
TypeOK ==
  /\ turn \in [Turns -> Row]
  /\ ask \in [AskIds -> Ask]
  /\ latest \in Episodes
  /\ minute \in 0..MaxMinutes
  /\ stopLine \subseteq Episodes
  /\ aged \in {0} \cup Turns
  /\ bell \in BOOLEAN
  /\ slot \in [Slots -> Slot]
  /\ held \in [Procs -> SUBSET Turns]
  /\ faults \in 0..MaxFaults
  /\ starts \in [Turns -> Nat]
  /\ released \in [Turns -> Nat]

(* At most one row of the conversation runs, whoever claims, begins inline,*)
(* requeues or writes a stale copy, and a running row always has a lease:  *)
(* one without would never be swept and would hold the floor for good.     *)
OneRunning ==
  /\ \A t, u \in Running(turn) : t = u
  /\ \A t \in Turns : turn[t].status = "running" <=> turn[t].lease # "none"

(* A turn is started at most MAX_ATTEMPTS times, shutdowns not counted:    *)
(* the attempt column is the number of starts less the hand-backs, and a   *)
(* queued turn still has an attempt left.                                  *)
AttemptsCounted ==
  \A t \in Turns :
    /\ starts[t] = turn[t].attempt + released[t]
    /\ turn[t].attempt <= MaxAttempts
    /\ turn[t].status = "queued" => turn[t].attempt < MaxAttempts

(* What waits can be run by a worker: a turn that streamed inside a request*)
(* and lost its floor or its process waits as a human one, never inline.   *)
QueuedIsRunnable ==
  \A t \in Queued(turn) : turn[t].cause # "inline"

(* However often a wake is retried, a key has one row.                     *)
KeysUnique ==
  \A t, u \in Used(turn) : turn[t].key = turn[u].key => t = u

(* No agent is asked twice at once by the same agent, and under the        *)
(* organization rules no two agents wait for each other.                   *)
AskPairs ==
  \A x, y \in OpenAsks(ask) :
    /\ (ask[x].from = ask[y].from /\ ask[x].to = ask[y].to) => x = y
    /\ OrgRules => ~(ask[x].from = ask[y].to /\ ask[x].to = ask[y].from)

(* An answered question gave its asker a turn, or the episode was handed   *)
(* back to the human with the stop line.  (A question asked before any     *)
(* human message is charged to the episode that runs when it is answered.) *)
AnswerComesBack ==
  \A k \in AskIds :
    ask[k].status = "answered" =>
      \/ \E t \in Used(turn) : turn[t].cause = "answer" /\ turn[t].ask = k
      \/ \E e \in stopLine : ask[k].episode \in {0, e}

(* An open question still has its turn in the queue or on the floor, unless*)
(* that turn failed or was dropped as stale.                               *)
OpenAskHasTurn ==
  \A k \in OpenAsks(ask) :
    \E t \in Used(turn) :
      /\ turn[t].cause = "ask" /\ turn[t].ask = k
      /\ \/ turn[t].status \in Open
         \/ turn[t].status = "failed" \/ turn[t].outcome = "stale"

(* A turn an agent started is never later than the MAX_EPISODE_TURNS-th of *)
(* the turns charged to its human message.  (A person, a wake or a recovery*)
(* may add turns beyond it: only agents are refused.)                      *)
EpisodeBudget ==
  \A e \in 1..MaxMessages : \A t \in Charged(turn, e) :
    turn[t].by \in Agents
      => Cardinality({u \in Charged(turn, e) : u <= t}) <= MaxEpisodeTurns

(* Shutdown hands back every turn this process still runs.                 *)
HeldCoversRunning ==
  \A w \in Slots :
    LET t == slot[w].turn
    IN  slot[w].pc \in Executing /\ turn[t].status = "running"
        => t \in held[Home[w]]

(* A stopped turn stays cancelled.                                         *)
StopIsFinal ==
  [][\A t \in Turns : turn[t].outcome = "stopped"
        => turn'[t].status = "cancelled"]_vars

(* The worker claims the oldest queued row.                                *)
OldestFirst ==
  [][\A t, u \in Turns :
       /\ turn[t].status = "queued" /\ turn'[t].status = "running"
       /\ turn[u].status = "queued"
       => t <= u]_vars

(* The floor of Floor.tla, read off the rows.                              *)
PhaseOf(status) ==
  CASE status = "absent"  -> "absent"
    [] status = "queued"  -> "waiting"
    [] status = "running" -> "speaking"
    [] OTHER              -> "over"

TheFloor == INSTANCE Floor WITH
  MaxTries <- MaxAttempts,
  phase    <- [t \in Turns |-> PhaseOf(turn[t].status)],
  tries    <- [t \in Turns |-> turn[t].attempt]

(* The rows implement the floor: one speaker, taken only from a free floor,*)
(* bounded tries, and a row that is over never waits or speaks again,      *)
(* whatever stale copy of it a slot still writes.                          *)
ImplementsFloor == TheFloor!Spec

(* Every queued turn comes to an end, through lost bells, dropped jobs,    *)
(* crashes and restarts: the sweep and the queue together lose no turn.    *)
QueuedTurnEnds ==
  \A t \in Turns : turn[t].status = "queued" ~> turn[t].status \in Over

(* A question never stays open: its asker hears the answer, or it is       *)
(* cancelled.                                                              *)
AskSettles ==
  \A k \in AskIds : ask[k].status = "open" ~> ask[k].status # "open"
=============================================================================
