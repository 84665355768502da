------------------------------ MODULE Decisions ------------------------------
(***************************************************************************)
(* The decision cards of one thread that ask for one action: a turn raises *)
(* them hidden (tools/decisions.py, services/signal_decisions.py) and they *)
(* appear under its speech (services/agent/turn_persist.py); people answer *)
(* them (services/notifications.py) or clear them away.                    *)
(*                                                                         *)
(* resolve_decision has no guard of its own: the callers that read the     *)
(* status first (bundles, the tool, Slack, a call) are the careful ones,   *)
(* the approve and resolve endpoints the direct ones.  The action runs     *)
(* before its commit, and holds the row lock meanwhile.                    *)
(*                                                                         *)
(* Abstractions: titles are all that tells cards apart; escalation, rules  *)
(* and platform changes are left out; what the action did outside cannot   *)
(* be rolled back.                                                         *)
(***************************************************************************)
EXTENDS Naturals, FiniteSets

CONSTANTS
  CarefulAnswers,   \* requests that read the status before they resolve
  DirectAnswers,    \* requests that do not
  Clearers,         \* dismiss_decisions requests
  CardTurns,        \* turns of the thread
  CardTitles,
  MaxCards,         \* bound: cards
  MaxAnswers,       \* bound: answers and dismissals
  MaxCardFaults     \* bound: timeouts and killed processes

ASSUME CardConstants ==
  /\ CarefulAnswers \cap DirectAnswers = {}
  /\ {MaxCards, MaxAnswers, MaxCardFaults} \subseteq Nat

VARIABLES
  card,        \* the rows of decision_requests
  answer,      \* what each request that answers does, with the copy it read
  clearer,     \* the rows each dismissal read
  cardTurn,    \* what each turn does
  answers,
  cardFaults,
  acted,       \* history: cards whose action was carried out
  closedBy,    \* history: cards that were there when an action was settled
  cardTwice,   \* history: an action ran for a card of acted or closedBy
  cardStale,   \* history: a write or an action on a row its copy had left
  cardDirect,  \* history: a direct answer to a card that was not open
  cardCut      \* history: an action was cut off between its effect and commit

cardHistory == <<acted, closedBy, cardTwice, cardStale, cardDirect, cardCut>>
cardVars    == <<card, answer, clearer, cardTurn, answers, cardFaults, cardHistory>>

Cards        == 1..MaxCards
AnswerActors == CarefulAnswers \cup DirectAnswers
Statuses     == {"none", "awaiting", "approved", "rejected", "deferred"}
AnswerIdle   == [at |-> "idle", card |-> 0, copy |-> "none"]
TurnAway(at) == [at |-> at, title |-> "none", stale |-> {}]

CardTypeOK ==
  /\ card \in [Cards -> [status : Statuses, shown : BOOLEAN,
                         bundle : CardTurns \cup {"none"}, title : CardTitles \cup {"none"}]]
  /\ answer \in [AnswerActors -> [at : {"idle", "read", "acted", "after"},
                                  card : 0..MaxCards, copy : Statuses]]
  /\ clearer \in [Clearers -> SUBSET Cards]
  /\ cardTurn \in [CardTurns -> [at : {"new", "working", "asking", "spoke", "quiet"},
                                 title : CardTitles \cup {"none"}, stale : SUBSET Cards]]
  /\ answers \in 0..MaxAnswers /\ cardFaults \in 0..MaxCardFaults
  /\ acted \subseteq Cards /\ closedBy \subseteq Cards
  /\ cardTwice \in BOOLEAN /\ cardStale \in BOOLEAN
  /\ cardDirect \in BOOLEAN /\ cardCut \in BOOLEAN

CardInit ==
  /\ card = [c \in Cards |-> [status |-> "none", shown |-> FALSE, bundle |-> "none",
                              title |-> "none"]]
  /\ answer = [r \in AnswerActors |-> AnswerIdle]
  /\ clearer = [k \in Clearers |-> {}]
  /\ cardTurn = [t \in CardTurns |-> TurnAway("new")]
  /\ answers = 0 /\ cardFaults = 0
  /\ acted = {} /\ closedBy = {}
  /\ cardTwice = FALSE /\ cardStale = FALSE /\ cardDirect = FALSE /\ cardCut = FALSE

IsOpen(c)   == card[c].status = "awaiting"
OpenCards   == {c \in Cards : IsOpen(c)}
IsLocked(c) == \E r \in AnswerActors : answer[r].at = "acted" /\ answer[r].card = c

-----------------------------------------------------------------------------
TurnStart(t) ==
  /\ cardTurn[t].at = "new"
  /\ cardTurn' = [cardTurn EXCEPT ![t].at = "working"]
  /\ UNCHANGED <<card, answer, clearer, answers, cardFaults, cardHistory>>

(* _create_decision_request: the open cards of this title that other turns *)
(* raised are superseded.                                                  *)
TurnAsk(t, title) ==
  /\ cardTurn[t].at = "working"
  /\ cardTurn' = [cardTurn EXCEPT ![t] =
       [at |-> "asking", title |-> title,
        stale |-> {c \in OpenCards : card[c].title = title /\ card[c].bundle # t}]]
  /\ UNCHANGED <<card, answer, clearer, answers, cardFaults, cardHistory>>

(* An open card that asks the same is enough; else a new one, hidden.      *)
IsAsked(t, stale) ==
  \E c \in OpenCards \ stale : card[c].title = cardTurn[t].title

NextCard(c) == card[c].status = "none" /\ \A d \in 1..(c - 1) : card[d].status # "none"

TurnRaise(t) ==
  LET stale == cardTurn[t].stale
      closed == [c \in Cards |-> IF c \in stale THEN [card[c] EXCEPT !.status = "deferred"]
                                 ELSE card[c]]
  IN
  /\ cardTurn[t].at = "asking"
  /\ \A c \in stale : ~IsLocked(c)
  /\ IF IsAsked(t, stale) THEN card' = closed
     ELSE \E c \in Cards :
            /\ NextCard(c)
            /\ card' = [closed EXCEPT ![c] =
                 [status |-> "awaiting", shown |-> FALSE, bundle |-> t,
                  title |-> cardTurn[t].title]]
  /\ cardTurn' = [cardTurn EXCEPT ![t] = TurnAway("working")]
  /\ cardStale' = (cardStale \/ ~(stale \subseteq OpenCards))
  /\ UNCHANGED <<answer, clearer, answers, cardFaults, acted, closedBy, cardTwice,
                 cardDirect, cardCut>>

(* Slip: of several cards the turn raised only the first appears.          *)
TurnPlaceFirst(t) ==
  LET mine == {c \in OpenCards : card[c].bundle = t} IN
  /\ cardTurn[t].at = "working"
  /\ card' = [c \in Cards |-> IF c \in mine /\ \A d \in mine : c <= d
                              THEN [card[c] EXCEPT !.shown = TRUE] ELSE card[c]]
  /\ cardTurn' = [cardTurn EXCEPT ![t].at = "spoke"]
  /\ UNCHANGED <<answer, clearer, answers, cardFaults, cardHistory>>

(* place_turn_decisions: the speech is saved, the open cards of the turn   *)
(* are revealed.                                                           *)
TurnPlace(t) ==
  /\ cardTurn[t].at = "working"
  /\ card' = [c \in Cards |-> IF IsOpen(c) /\ card[c].bundle = t
                              THEN [card[c] EXCEPT !.shown = TRUE] ELSE card[c]]
  /\ cardTurn' = [cardTurn EXCEPT ![t].at = "spoke"]
  /\ UNCHANGED <<answer, clearer, answers, cardFaults, cardHistory>>

(* A turn that says nothing, is stopped before it spoke, or dies.          *)
TurnQuiet(t) ==
  /\ cardTurn[t].at \in {"working", "asking"}
  /\ cardTurn' = [cardTurn EXCEPT ![t] = TurnAway("quiet")]
  /\ UNCHANGED <<card, answer, clearer, answers, cardFaults, cardHistory>>

-----------------------------------------------------------------------------
(* Slip: a careful caller that does not look at the status either.         *)
CarelessRead(r, c) == r \in CarefulAnswers /\ card[c].status # "none"

(* The read.  A hidden card is in the list of decisions too.               *)
CarefulRead(r, c) == r \in CarefulAnswers /\ IsOpen(c)
DirectRead(r, c)  == r \in DirectAnswers /\ card[c].status # "none"

AnswerRead(r, c) ==
  /\ answers < MaxAnswers /\ answers' = answers + 1
  /\ answer[r].at = "idle"
  /\ CarefulRead(r, c) \/ DirectRead(r, c)
  /\ answer' = [answer EXCEPT ![r] = [at |-> "read", card |-> c, copy |-> card[c].status]]
  /\ cardDirect' = (cardDirect \/ (r \in DirectAnswers /\ ~IsOpen(c)))
  /\ UNCHANGED <<card, clearer, cardTurn, cardFaults, acted, closedBy, cardTwice,
                 cardStale, cardCut>>

(* The row as the transaction leaves it: only what changed is written.     *)
Written(r, status) ==
  LET c == answer[r].card IN
  IF answer[r].copy = status THEN card ELSE [card EXCEPT ![c].status = status]

Stale(r) == card[answer[r].card].status # answer[r].copy

(* Rejected, deferred, or an option without a tool.                        *)
AnswerClose(r, status) ==
  LET c == answer[r].card IN
  /\ answer[r].at = "read" /\ ~IsLocked(c)
  /\ card' = Written(r, status)
  /\ answer' = [answer EXCEPT ![r] = AnswerIdle]
  /\ cardStale' = (cardStale \/ Stale(r))
  /\ UNCHANGED <<clearer, cardTurn, answers, cardFaults, acted, closedBy, cardTwice,
                 cardDirect, cardCut>>

(* Approved: the tool carries the action out.                              *)
AnswerAct(r) ==
  LET c == answer[r].card IN
  /\ answer[r].at = "read" /\ ~IsLocked(c)
  /\ answer' = [answer EXCEPT ![r].at = "acted"]
  /\ acted' = acted \cup {c}
  /\ cardTwice' = (cardTwice \/ c \in acted \cup closedBy)
  /\ cardStale' = (cardStale \/ Stale(r))
  /\ UNCHANGED <<card, clearer, cardTurn, answers, cardFaults, closedBy, cardDirect, cardCut>>

(* Slip: the commit of the audit line comes before the status is set.      *)
AnswerCommitAudit(r) ==
  /\ answer[r].at = "acted"
  /\ answer' = [answer EXCEPT ![r].at = "after"]
  /\ UNCHANGED <<card, clearer, cardTurn, answers, cardFaults, cardHistory>>

(* record_audit commits.                                                   *)
AnswerCommit(r) ==
  /\ answer[r].at = "acted"
  /\ card' = Written(r, "approved")
  /\ answer' = [answer EXCEPT ![r].at = "after"]
  /\ UNCHANGED <<clearer, cardTurn, answers, cardFaults, cardHistory>>

(* _defer_duplicate_action_asks: the other open asks are closed.           *)
AnswerSettle(r) ==
  LET others == OpenCards \ {answer[r].card} IN
  /\ answer[r].at = "after"
  /\ \A c \in others : ~IsLocked(c)
  /\ card' = [c \in Cards |-> IF c \in others THEN [card[c] EXCEPT !.status = "deferred"]
                              ELSE card[c]]
  /\ closedBy' = closedBy \cup {c \in Cards : card[c].status # "none"}
  /\ answer' = [answer EXCEPT ![r] = AnswerIdle]
  /\ UNCHANGED <<clearer, cardTurn, answers, cardFaults, acted, cardTwice, cardStale,
                 cardDirect, cardCut>>

(* Slip: a failed action leaves a status nobody reads.                     *)
AnswerFailed(r) ==
  LET c == answer[r].card IN
  /\ answer[r].at = "read" /\ ~IsLocked(c)
  /\ card' = [card EXCEPT ![c].status = "failed"]
  /\ answer' = [answer EXCEPT ![r] = AnswerIdle]
  /\ cardStale' = (cardStale \/ Stale(r))
  /\ UNCHANGED <<clearer, cardTurn, answers, cardFaults, acted, closedBy, cardTwice,
                 cardDirect, cardCut>>

(* The tool returned an error and did nothing: the card is open again.     *)
AnswerFail(r) ==
  LET c == answer[r].card IN
  /\ answer[r].at = "read" /\ ~IsLocked(c)
  /\ card' = [card EXCEPT ![c].status = "awaiting"]
  /\ answer' = [answer EXCEPT ![r] = AnswerIdle]
  /\ cardStale' = (cardStale \/ Stale(r))
  /\ UNCHANGED <<clearer, cardTurn, answers, cardFaults, acted, closedBy, cardTwice,
                 cardDirect, cardCut>>

(* TOOL_TIMEOUT_SECONDS, or the process is killed: rolled back.            *)
AnswerLost(r) ==
  /\ cardFaults < MaxCardFaults /\ cardFaults' = cardFaults + 1
  /\ answer[r].at # "idle"
  /\ cardCut' = (cardCut \/ answer[r].at # "read")
  /\ answer' = [answer EXCEPT ![r] = AnswerIdle]
  /\ UNCHANGED <<card, clearer, cardTurn, answers, acted, closedBy, cardTwice, cardStale,
                 cardDirect>>

-----------------------------------------------------------------------------
(* dismiss_decisions: the open cards that match are read, then written.    *)
ClearRead(k) ==
  /\ answers < MaxAnswers /\ answers' = answers + 1
  /\ clearer[k] = {} /\ OpenCards # {}
  /\ clearer' = [clearer EXCEPT ![k] = OpenCards]
  /\ UNCHANGED <<card, answer, cardTurn, cardFaults, cardHistory>>

ClearWrite(k) ==
  /\ clearer[k] # {}
  /\ \A c \in clearer[k] : ~IsLocked(c)
  /\ card' = [c \in Cards |-> IF c \in clearer[k] THEN [card[c] EXCEPT !.status = "deferred"]
                              ELSE card[c]]
  /\ cardStale' = (cardStale \/ ~(clearer[k] \subseteq OpenCards))
  /\ clearer' = [clearer EXCEPT ![k] = {}]
  /\ UNCHANGED <<answer, cardTurn, answers, cardFaults, acted, closedBy, cardTwice,
                 cardDirect, cardCut>>

CardNext ==
  \/ \E t \in CardTurns : TurnStart(t) \/ TurnRaise(t) \/ TurnPlace(t) \/ TurnQuiet(t)
  \/ \E t \in CardTurns, title \in CardTitles : TurnAsk(t, title)
  \/ \E r \in AnswerActors, c \in Cards : AnswerRead(r, c)
  \/ \E r \in AnswerActors, status \in {"approved", "rejected", "deferred"} :
       AnswerClose(r, status)
  \/ \E r \in AnswerActors : \/ AnswerAct(r) \/ AnswerCommit(r) \/ AnswerSettle(r)
                             \/ AnswerFail(r) \/ AnswerLost(r)
  \/ \E k \in Clearers : ClearRead(k) \/ ClearWrite(k)

CardSpec == CardInit /\ [][CardNext]_cardVars

-----------------------------------------------------------------------------
(* What may go wrong, and did.                                             *)
Disturbed == cardStale \/ cardDirect \/ cardCut

(* An action runs once for all the cards that asked for it: again only     *)
(* after two requests overlapped on a row, a direct answer to a card that  *)
(* was closed, or a cut between the effect and its commit.  Failing tools, *)
(* reopened cards, supersedes and dismissals never repeat it.              *)
YesActsOnce == cardTwice => Disturbed

(* A card that waits for an answer has not been acted upon, or is just     *)
(* being: what the reopening of a failed action relies on.                 *)
OpenIsUndone ==
  \A c \in acted : IsOpen(c) => IsLocked(c) \/ Disturbed

(* A turn that spoke leaves no open card unseen, unless a direct answer    *)
(* reopened one that was closed before the speech.                         *)
AskIsSeen ==
  \A c \in OpenCards :
    card[c].shown \/ cardTurn[card[c].bundle].at \in {"working", "asking", "quiet"}
      \/ cardStale \/ cardDirect
=============================================================================
