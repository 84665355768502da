------------------------------ MODULE TurnRows ------------------------------
(***************************************************************************)
(* The rows of agent_turns and agent_asks of ONE conversation, and the     *)
(* queries and row updates agent_turns.py builds its handlers from.  Every *)
(* query of that file filters on signal_id, so conversations do not meet.  *)
(*                                                                         *)
(* A turn is a number: rows are numbered in the order of created_at.       *)
(* Texts, timestamps, names and the participant list are left out.         *)
(***************************************************************************)
EXTENDS Naturals, FiniteSets

LOCAL INSTANCE FiniteSetsExt

CONSTANTS
  Agents,               \* the active agents of the workspace
  Nobody,               \* no agent: a person, or the system
  MaxTurns,             \* bound: rows the conversation ever gets
  MaxAsks,              \* bound: asks the conversation ever gets
  MaxMessages,          \* bound: human messages
  MaxMinutes,           \* bound: minutes the recovery key tells apart
  MaxAttempts,          \* MAX_ATTEMPTS
  MaxEpisodeTurns,      \* MAX_EPISODE_TURNS
  MaxPairRepeats,       \* MAX_PAIR_REPEATS
  EpisodeTokenBudget    \* EPISODE_TOKEN_BUDGET

ASSUME RowConstants ==
  /\ Nobody \notin Agents
  /\ {MaxTurns, MaxAsks, MaxMessages, MaxMinutes} \subseteq Nat
  /\ {MaxAttempts, MaxEpisodeTurns, MaxPairRepeats, EpisodeTokenBudget}
       \subseteq Nat \ {0}

Turns    == 1..MaxTurns
AskIds   == 1..MaxAsks
Episodes == 0..MaxMessages         \* 0: no human message yet, episode_id is None

Statuses == {"absent", "queued", "running", "done", "failed", "cancelled"}
Open     == {"queued", "running"}
Over     == {"done", "failed", "cancelled"}
Leases   == {"none", "live", "expired"}
Causes   == {"human", "system", "recovery", "ask", "answer", "handoff", "inline"}

(* The outcome column, as far as the code reads it again: why a cancelled  *)
(* row was cancelled.  On other rows it only words a notice, and is "".    *)
Outcomes == {"", "stopped", "superseded", "stale"}

(* An idempotency key: what is asked, its number (message, ask, minute, or  *)
(* the row itself for a uuid4 key) and the agent it is for.                 *)
KeyKinds == {"msg", "voice", "ask", "answer", "recover", "own"}
Keys     == KeyKinds \X Nat \X (Agents \cup {Nobody})

Columns == [status: Statuses, lease: Leases, attempt: Nat, outcome: Outcomes,
            cause: Causes, agent: Agents \cup {Nobody}, by: Agents \cup {Nobody},
            ask: {0} \cup AskIds, episode: Episodes, key: Keys, tokens: Nat]

(* The turn of a question always carries its ask.                          *)
Row == {x \in Columns : x.cause = "ask" => x.ask # 0}

AskStatuses == {"absent", "open", "answered", "cancelled"}
Ask == [status: AskStatuses, from: Agents \cup {Nobody}, to: Agents \cup {Nobody},
        episode: Episodes]

NoRow == [status |-> "absent", lease |-> "none", attempt |-> 0, outcome |-> "",
          cause |-> "human", agent |-> Nobody, by |-> Nobody, ask |-> 0,
          episode |-> 0, key |-> <<"own", 0, Nobody>>, tokens |-> 0]

NoAsk == [status |-> "absent", from |-> Nobody, to |-> Nobody, episode |-> 0]

-----------------------------------------------------------------------------
(* Queries.  r: the turn rows, q: the ask rows.                            *)

Used(r)      == {t \in Turns : r[t].status # "absent"}
With(r, S)   == {t \in Turns : r[t].status \in S}
Running(r)   == With(r, {"running"})
Queued(r)    == With(r, {"queued"})
Least(S)     == CHOOSE t \in S : \A u \in S : t <= u
Greatest(S)  == CHOOSE t \in S : \A u \in S : u <= t
HasKey(r, k) == \E t \in Used(r) : r[t].key = k
OpenAsks(q)  == {k \in AskIds : q[k].status = "open"}

(* Rows the bound still allows; every open ask keeps one for its answer.   *)
Room(r, q) == Cardinality(Used(r)) + Cardinality(OpenAsks(q)) < MaxTurns

(* The rows an episode is charged for, and what they spent.                *)
Charged(r, e) == {t \in Used(r) : r[t].episode = e /\ r[t].status # "cancelled"}

TokensOf(r, e) == LET spent(t) == r[t].tokens
                  IN  MapThenSumSet(spent, Charged(r, e))

PairRepeats(r, e, from, to) ==
  Cardinality({t \in Charged(r, e) : /\ r[t].by = from /\ r[t].agent = to
                                     /\ r[t].cause \in {"ask", "handoff"}})

(* Slip: one turn too many.                                                *)
RefusedLate(r, e, from, to) ==
  /\ e # 0
  /\ \/ Cardinality(Charged(r, e)) > MaxEpisodeTurns
     \/ TokensOf(r, e) >= EpisodeTokenBudget
     \/ PairRepeats(r, e, from, to) >= MaxPairRepeats

(* Why agent `from` may not start one more turn for `to` in episode e.     *)
Refused(r, e, from, to) ==
  /\ e # 0
  /\ \/ Cardinality(Charged(r, e)) >= MaxEpisodeTurns
     \/ TokensOf(r, e) >= EpisodeTokenBudget
     \/ PairRepeats(r, e, from, to) >= MaxPairRepeats

(* The episode an agent acts in: its running turn's, else its newest done  *)
(* turn's, else the latest human message.                                  *)
RequesterEpisode(r, a, latest) ==
  LET mine(S) == {t \in With(r, S) : r[t].agent = a}
      last    == IF mine({"running"}) # {} THEN mine({"running"}) ELSE mine({"done"})
  IN  IF last # {} /\ r[Greatest(last)].episode # 0
      THEN r[Greatest(last)].episode
      ELSE latest

-----------------------------------------------------------------------------
(* Row updates.                                                            *)

(* The row an INSERT adds.                                                 *)
NextTurn(r) == Least(Turns \ Used(r))

(* Slip: the idempotency key is not unique.                                *)
InsertAlways(r, x) == [r EXCEPT ![NextTurn(r)] = x]

(* INSERT; a row with the same idempotency key makes it a duplicate.       *)
Insert(r, x) == IF HasKey(r, x.key) THEN r ELSE [r EXCEPT ![NextTurn(r)] = x]

OwnKey(r) == <<"own", NextTurn(r), Nobody>>

NewTurn(a, cause, by, ask, e, key) ==
  [NoRow EXCEPT !.status = "queued", !.agent = a, !.cause = cause, !.by = by,
                !.ask = ask, !.episode = e, !.key = key]

(* claim_next's update of the row it locked.                               *)
Claimed(x) == [x EXCEPT !.status = "running", !.lease = "live",
                        !.attempt = @ + 1]

Ended(x, status, outcome) ==
  [x EXCEPT !.status = status, !.outcome = outcome, !.lease = "none"]

(* Slip: an inline turn goes back on the queue as it is.                   *)
RequeuedAsIs(x, attempt) ==
  [x EXCEPT !.status = "queued", !.outcome = "", !.lease = "none",
            !.attempt = attempt]

(* Back on the queue. An inline row becomes a human one, which a worker   *)
(* can run from the conversation.                                          *)
Requeued(x, attempt) ==
  [x EXCEPT !.status = "queued", !.outcome = "", !.lease = "none",
            !.attempt = attempt, !.cause = IF @ = "inline" THEN "human" ELSE @]
=============================================================================
