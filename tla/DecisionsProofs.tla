--------------------------- MODULE DecisionsProofs ---------------------------
(***************************************************************************)
(* Proofs about Decisions for any requests, turns, titles and cards.       *)
(***************************************************************************)
EXTENDS Decisions, TLAPS

CardRows   == [status : Statuses, shown : BOOLEAN,
               bundle : CardTurns \cup {"none"}, title : CardTitles \cup {"none"}]
AnswerRows == [at : {"idle", "read", "acted", "after"}, card : 0..MaxCards, copy : Statuses]
TurnRows   == [at : {"new", "working", "asking", "spoke", "quiet"},
               title : CardTitles \cup {"none"}, stale : SUBSET Cards]

CardTypes ==
  /\ card \in [Cards -> CardRows]
  /\ answer \in [AnswerActors -> AnswerRows]
  /\ clearer \in [Clearers -> SUBSET Cards]
  /\ cardTurn \in [CardTurns -> TurnRows]
  /\ answers \in 0..MaxAnswers /\ cardFaults \in 0..MaxCardFaults
  /\ acted \subseteq Cards /\ closedBy \subseteq Cards
  /\ cardTwice \in BOOLEAN /\ cardStale \in BOOLEAN
  /\ cardDirect \in BOOLEAN /\ cardCut \in BOOLEAN

(* A request that is under way has a card. *)
AnswersHaveCards == \A r \in AnswerActors : answer[r].at # "idle" => answer[r].card \in Cards

(* The type invariant with its row types named. *)
LEMMA CardTypeIs == CardTypeOK <=> CardTypes
BY DEF CardTypeOK, CardTypes, CardRows, AnswerRows, TurnRows

(* Cards are numbered from 1; the bounds are numbers. *)
LEMMA CardNumbers ==
  /\ MaxCards \in Nat /\ MaxAnswers \in Nat /\ MaxCardFaults \in Nat
  /\ \A c \in Cards : c \in 0..MaxCards
<1>1. MaxCards \in Nat /\ MaxAnswers \in Nat /\ MaxCardFaults \in Nat
  BY CardConstants
<1>. QED
  BY <1>1 DEF Cards

(* The rows of actors that do nothing. *)
LEMMA CardFacts ==
  /\ AnswerIdle \in AnswerRows
  /\ \A a \in {"new", "working", "quiet"} : TurnAway(a) \in TurnRows
BY CardNumbers DEF AnswerIdle, AnswerRows, Statuses, TurnAway, TurnRows

(* One request that gets another row. *)
LEMMA AnswerType ==
  ASSUME CardTypes, AnswersHaveCards, NEW r \in AnswerActors, NEW x \in AnswerRows,
         x.at # "idle" => x.card \in Cards, answer' = [answer EXCEPT ![r] = x]
  PROVE  answer' \in [AnswerActors -> AnswerRows] /\ AnswersHaveCards'
BY DEF CardTypes, AnswersHaveCards

(* One status that changes. *)
LEMMA StatusType ==
  ASSUME CardTypes, NEW c, NEW st \in Statuses,
         card' = [card EXCEPT ![c].status = st]
  PROVE  card' \in [Cards -> CardRows]
BY DEF CardTypes, CardRows

(* What a request writes. *)
LEMMA WrittenType ==
  ASSUME CardTypes, NEW r \in AnswerActors, NEW st \in Statuses, card' = Written(r, st)
  PROVE  card' \in [Cards -> CardRows]
<1>1. CASE answer[r].copy = st
  BY <1>1 DEF Written, CardTypes
<1>2. CASE answer[r].copy # st
  BY <1>2, StatusType DEF Written
<1>. QED
  BY <1>1, <1>2

(* The initial state is well typed. *)
LEMMA CardInitType == CardInit => CardTypeOK /\ AnswersHaveCards
<1>. SUFFICES ASSUME CardInit PROVE CardTypes /\ AnswersHaveCards
  BY CardTypeIs
<1>1. card \in [Cards -> CardRows]
  BY DEF CardInit, CardRows, Statuses
<1>2. answer \in [AnswerActors -> AnswerRows] /\ AnswersHaveCards
  BY CardFacts DEF CardInit, AnswersHaveCards, AnswerIdle
<1>3. cardTurn \in [CardTurns -> TurnRows] /\ clearer \in [Clearers -> SUBSET Cards]
  BY CardFacts DEF CardInit
<1>4. answers \in 0..MaxAnswers /\ cardFaults \in 0..MaxCardFaults
  BY CardNumbers DEF CardInit
<1>5. /\ cardTwice \in BOOLEAN /\ cardStale \in BOOLEAN
      /\ cardDirect \in BOOLEAN /\ cardCut \in BOOLEAN
  BY DEF CardInit
<1>. QED
  BY <1>1, <1>2, <1>3, <1>4, <1>5 DEF CardInit, CardTypes

(* Every step keeps the types. *)
LEMMA CardStepType ==
  CardTypeOK /\ AnswersHaveCards /\ [CardNext]_cardVars => CardTypeOK' /\ AnswersHaveCards'
<1>. SUFFICES ASSUME CardTypes, AnswersHaveCards, [CardNext]_cardVars
              PROVE  CardTypes' /\ AnswersHaveCards'
  <2>1. CardTypes' => CardTypeOK'
    BY DEF CardTypeOK, CardTypes, CardRows, AnswerRows, TurnRows
  <2>. QED
    BY <2>1, CardTypeIs
<1>0. /\ \A r \in AnswerActors : answer[r] \in AnswerRows
      /\ \A c \in Cards : card[c] \in CardRows
      /\ \A t \in CardTurns : cardTurn[t] \in TurnRows
      /\ UNCHANGED answer => answer' \in [AnswerActors -> AnswerRows] /\ AnswersHaveCards'
  BY DEF CardTypes, AnswersHaveCards
<1>. DEFINE AnswersT == answer' \in [AnswerActors -> AnswerRows] /\ AnswersHaveCards'
<1>. DEFINE CardsT == card' \in [Cards -> CardRows]
<1>. DEFINE TurnsT == cardTurn' \in [CardTurns -> TurnRows]
<1>. DEFINE FlagsT == /\ cardTwice' \in BOOLEAN /\ cardStale' \in BOOLEAN
                      /\ cardDirect' \in BOOLEAN /\ cardCut' \in BOOLEAN
<1>. USE CardNumbers DEF cardHistory
<1>1. ASSUME NEW t \in CardTurns, TurnStart(t)
      PROVE  CardTypes' /\ AnswersHaveCards'
  <2>1. AnswersT
    BY <1>0, <1>1 DEF TurnStart
  <2>2. CardsT
    BY <1>1 DEF TurnStart, CardTypes
  <2>3. TurnsT
    BY <1>0, <1>1 DEF TurnStart, CardTypes, TurnRows
  <2>4. FlagsT
    BY <1>1 DEF TurnStart, CardTypes
  <2>5. clearer' \in [Clearers -> SUBSET Cards]
    BY <1>1 DEF TurnStart, CardTypes
  <2>6. /\ answers' \in 0..MaxAnswers /\ cardFaults' \in 0..MaxCardFaults
        /\ acted' \subseteq Cards /\ closedBy' \subseteq Cards
    BY <1>1 DEF TurnStart, CardTypes
  <2>. QED
    BY <2>1, <2>2, <2>3, <2>4, <2>5, <2>6 DEF CardTypes
<1>2. ASSUME NEW t \in CardTurns, NEW title \in CardTitles, TurnAsk(t, title)
      PROVE  CardTypes' /\ AnswersHaveCards'
  <2>1. AnswersT
    BY <1>0, <1>2 DEF TurnAsk
  <2>2. CardsT
    BY <1>2 DEF TurnAsk, CardTypes
  <2>3. TurnsT
    BY <1>0, <1>2 DEF TurnAsk, CardTypes, TurnRows, OpenCards
  <2>4. FlagsT
    BY <1>2 DEF TurnAsk, CardTypes
  <2>5. clearer' \in [Clearers -> SUBSET Cards]
    BY <1>2 DEF TurnAsk, CardTypes
  <2>6. /\ answers' \in 0..MaxAnswers /\ cardFaults' \in 0..MaxCardFaults
        /\ acted' \subseteq Cards /\ closedBy' \subseteq Cards
    BY <1>2 DEF TurnAsk, CardTypes
  <2>. QED
    BY <2>1, <2>2, <2>3, <2>4, <2>5, <2>6 DEF CardTypes
<1>3. ASSUME NEW t \in CardTurns, TurnRaise(t)
      PROVE  CardTypes' /\ AnswersHaveCards'
  <2>1. AnswersT
    BY <1>0, <1>3 DEF TurnRaise
  <2>2. CardsT
    <3>. DEFINE closed == [c \in Cards |-> IF c \in cardTurn[t].stale
                                           THEN [card[c] EXCEPT !.status = "deferred"]
                                           ELSE card[c]]
    <3>1. closed \in [Cards -> CardRows]
      BY <1>0 DEF CardRows, Statuses
    <3>2. [status |-> "awaiting", shown |-> FALSE, bundle |-> t, title |-> cardTurn[t].title]
            \in CardRows
      BY <1>0 DEF CardRows, TurnRows, Statuses
    <3>3. \/ card' = closed
          \/ \E c \in Cards : card' = [closed EXCEPT ![c] =
               [status |-> "awaiting", shown |-> FALSE, bundle |-> t,
                title |-> cardTurn[t].title]]
      BY <1>3 DEF TurnRaise
    <3>. HIDE DEF closed
    <3>. QED
      BY <3>1, <3>2, <3>3
  <2>3. TurnsT
    BY <1>3, CardFacts DEF TurnRaise, CardTypes
  <2>4. FlagsT
    BY <1>3 DEF TurnRaise, CardTypes
  <2>5. clearer' \in [Clearers -> SUBSET Cards]
    BY <1>3 DEF TurnRaise, CardTypes
  <2>6. /\ answers' \in 0..MaxAnswers /\ cardFaults' \in 0..MaxCardFaults
        /\ acted' \subseteq Cards /\ closedBy' \subseteq Cards
    BY <1>3 DEF TurnRaise, CardTypes
  <2>. QED
    BY <2>1, <2>2, <2>3, <2>4, <2>5, <2>6 DEF CardTypes
<1>4. ASSUME NEW t \in CardTurns, TurnPlace(t)
      PROVE  CardTypes' /\ AnswersHaveCards'
  <2>1. AnswersT
    BY <1>0, <1>4 DEF TurnPlace
  <2>2. CardsT
    BY <1>0, <1>4 DEF TurnPlace, CardTypes, CardRows
  <2>3. TurnsT
    BY <1>0, <1>4 DEF TurnPlace, CardTypes, TurnRows
  <2>4. FlagsT
    BY <1>4 DEF TurnPlace, CardTypes
  <2>5. clearer' \in [Clearers -> SUBSET Cards]
    BY <1>4 DEF TurnPlace, CardTypes
  <2>6. /\ answers' \in 0..MaxAnswers /\ cardFaults' \in 0..MaxCardFaults
        /\ acted' \subseteq Cards /\ closedBy' \subseteq Cards
    BY <1>4 DEF TurnPlace, CardTypes
  <2>. QED
    BY <2>1, <2>2, <2>3, <2>4, <2>5, <2>6 DEF CardTypes
<1>5. ASSUME NEW t \in CardTurns, TurnQuiet(t)
      PROVE  CardTypes' /\ AnswersHaveCards'
  <2>1. AnswersT
    BY <1>0, <1>5 DEF TurnQuiet
  <2>2. CardsT
    BY <1>5 DEF TurnQuiet, CardTypes
  <2>3. TurnsT
    BY <1>5, CardFacts DEF TurnQuiet, CardTypes
  <2>4. FlagsT
    BY <1>5 DEF TurnQuiet, CardTypes
  <2>5. clearer' \in [Clearers -> SUBSET Cards]
    BY <1>5 DEF TurnQuiet, CardTypes
  <2>6. /\ answers' \in 0..MaxAnswers /\ cardFaults' \in 0..MaxCardFaults
        /\ acted' \subseteq Cards /\ closedBy' \subseteq Cards
    BY <1>5 DEF TurnQuiet, CardTypes
  <2>. QED
    BY <2>1, <2>2, <2>3, <2>4, <2>5, <2>6 DEF CardTypes
<1>6. ASSUME NEW r \in AnswerActors, NEW c \in Cards, AnswerRead(r, c)
      PROVE  CardTypes' /\ AnswersHaveCards'
  <2>0. [at |-> "read", card |-> c, copy |-> card[c].status] \in AnswerRows
    BY <1>0 DEF AnswerRows, CardRows
  <2>1. AnswersT
    BY <1>0, <1>6, <2>0, AnswerType DEF AnswerRead
  <2>2. CardsT
    BY <1>6 DEF AnswerRead, CardTypes
  <2>3. TurnsT
    BY <1>6 DEF AnswerRead, CardTypes
  <2>4. FlagsT
    BY <1>6 DEF AnswerRead, CardTypes
  <2>5. clearer' \in [Clearers -> SUBSET Cards]
    BY <1>6 DEF AnswerRead, CardTypes
  <2>6. /\ answers' \in 0..MaxAnswers /\ cardFaults' \in 0..MaxCardFaults
        /\ acted' \subseteq Cards /\ closedBy' \subseteq Cards
    BY <1>6 DEF AnswerRead, CardTypes
  <2>. QED
    BY <2>1, <2>2, <2>3, <2>4, <2>5, <2>6 DEF CardTypes
<1>7. ASSUME NEW r \in AnswerActors, NEW st \in {"approved", "rejected", "deferred"},
             AnswerClose(r, st)
      PROVE  CardTypes' /\ AnswersHaveCards'
  <2>1. AnswersT
    BY <1>7, CardFacts, AnswerType DEF AnswerClose, AnswerIdle
  <2>2. CardsT
    BY <1>7, WrittenType DEF AnswerClose, Statuses
  <2>3. TurnsT
    BY <1>7 DEF AnswerClose, CardTypes
  <2>4. FlagsT
    BY <1>7 DEF AnswerClose, CardTypes
  <2>5. clearer' \in [Clearers -> SUBSET Cards]
    BY <1>7 DEF AnswerClose, CardTypes
  <2>6. /\ answers' \in 0..MaxAnswers /\ cardFaults' \in 0..MaxCardFaults
        /\ acted' \subseteq Cards /\ closedBy' \subseteq Cards
    BY <1>7 DEF AnswerClose, CardTypes
  <2>. QED
    BY <2>1, <2>2, <2>3, <2>4, <2>5, <2>6 DEF CardTypes
<1>8. ASSUME NEW r \in AnswerActors, AnswerAct(r)
      PROVE  CardTypes' /\ AnswersHaveCards'
  <2>0. /\ [answer[r] EXCEPT !.at = "acted"] \in AnswerRows
        /\ [answer[r] EXCEPT !.at = "acted"].card = answer[r].card
    BY <1>0 DEF AnswerRows
  <2>1. AnswersT
    BY <1>0, <1>8, <2>0, AnswerType DEF AnswerAct, AnswersHaveCards
  <2>2. CardsT
    BY <1>8 DEF AnswerAct, CardTypes
  <2>3. TurnsT
    BY <1>8 DEF AnswerAct, CardTypes
  <2>4. FlagsT
    BY <1>8 DEF AnswerAct, CardTypes
  <2>5. clearer' \in [Clearers -> SUBSET Cards]
    BY <1>8 DEF AnswerAct, CardTypes
  <2>6. /\ answers' \in 0..MaxAnswers /\ cardFaults' \in 0..MaxCardFaults
        /\ acted' \subseteq Cards /\ closedBy' \subseteq Cards
    BY <1>8 DEF AnswerAct, CardTypes, AnswersHaveCards
  <2>. QED
    BY <2>1, <2>2, <2>3, <2>4, <2>5, <2>6 DEF CardTypes
<1>9. ASSUME NEW r \in AnswerActors, AnswerCommit(r)
      PROVE  CardTypes' /\ AnswersHaveCards'
  <2>0. /\ [answer[r] EXCEPT !.at = "after"] \in AnswerRows
        /\ [answer[r] EXCEPT !.at = "after"].card = answer[r].card
    BY <1>0 DEF AnswerRows
  <2>1. AnswersT
    BY <1>0, <1>9, <2>0, AnswerType DEF AnswerCommit, AnswersHaveCards
  <2>2. CardsT
    BY <1>9, WrittenType DEF AnswerCommit, Statuses
  <2>3. TurnsT
    BY <1>9 DEF AnswerCommit, CardTypes
  <2>4. FlagsT
    BY <1>9 DEF AnswerCommit, CardTypes
  <2>5. clearer' \in [Clearers -> SUBSET Cards]
    BY <1>9 DEF AnswerCommit, CardTypes
  <2>6. /\ answers' \in 0..MaxAnswers /\ cardFaults' \in 0..MaxCardFaults
        /\ acted' \subseteq Cards /\ closedBy' \subseteq Cards
    BY <1>9 DEF AnswerCommit, CardTypes
  <2>. QED
    BY <2>1, <2>2, <2>3, <2>4, <2>5, <2>6 DEF CardTypes
<1>10. ASSUME NEW r \in AnswerActors, AnswerSettle(r)
      PROVE  CardTypes' /\ AnswersHaveCards'
  <2>1. AnswersT
    BY <1>10, CardFacts, AnswerType DEF AnswerSettle, AnswerIdle
  <2>2. CardsT
    BY <1>0, <1>10 DEF AnswerSettle, CardRows, Statuses
  <2>3. TurnsT
    BY <1>10 DEF AnswerSettle, CardTypes
  <2>4. FlagsT
    BY <1>10 DEF AnswerSettle, CardTypes
  <2>5. clearer' \in [Clearers -> SUBSET Cards]
    BY <1>10 DEF AnswerSettle, CardTypes
  <2>6. /\ answers' \in 0..MaxAnswers /\ cardFaults' \in 0..MaxCardFaults
        /\ acted' \subseteq Cards /\ closedBy' \subseteq Cards
    BY <1>10 DEF AnswerSettle, CardTypes
  <2>. QED
    BY <2>1, <2>2, <2>3, <2>4, <2>5, <2>6 DEF CardTypes
<1>11. ASSUME NEW r \in AnswerActors, AnswerFail(r)
      PROVE  CardTypes' /\ AnswersHaveCards'
  <2>1. AnswersT
    BY <1>11, CardFacts, AnswerType DEF AnswerFail, AnswerIdle
  <2>2. CardsT
    BY <1>11, StatusType DEF AnswerFail, Statuses
  <2>3. TurnsT
    BY <1>11 DEF AnswerFail, CardTypes
  <2>4. FlagsT
    BY <1>11 DEF AnswerFail, CardTypes
  <2>5. clearer' \in [Clearers -> SUBSET Cards]
    BY <1>11 DEF AnswerFail, CardTypes
  <2>6. /\ answers' \in 0..MaxAnswers /\ cardFaults' \in 0..MaxCardFaults
        /\ acted' \subseteq Cards /\ closedBy' \subseteq Cards
    BY <1>11 DEF AnswerFail, CardTypes
  <2>. QED
    BY <2>1, <2>2, <2>3, <2>4, <2>5, <2>6 DEF CardTypes
<1>12. ASSUME NEW r \in AnswerActors, AnswerLost(r)
      PROVE  CardTypes' /\ AnswersHaveCards'
  <2>1. AnswersT
    BY <1>12, CardFacts, AnswerType DEF AnswerLost, AnswerIdle
  <2>2. CardsT
    BY <1>12 DEF AnswerLost, CardTypes
  <2>3. TurnsT
    BY <1>12 DEF AnswerLost, CardTypes
  <2>4. FlagsT
    BY <1>12 DEF AnswerLost, CardTypes
  <2>5. clearer' \in [Clearers -> SUBSET Cards]
    BY <1>12 DEF AnswerLost, CardTypes
  <2>6. /\ answers' \in 0..MaxAnswers /\ cardFaults' \in 0..MaxCardFaults
        /\ acted' \subseteq Cards /\ closedBy' \subseteq Cards
    BY <1>12 DEF AnswerLost, CardTypes
  <2>. QED
    BY <2>1, <2>2, <2>3, <2>4, <2>5, <2>6 DEF CardTypes
<1>13. ASSUME NEW k \in Clearers, ClearRead(k)
      PROVE  CardTypes' /\ AnswersHaveCards'
  <2>1. AnswersT
    BY <1>0, <1>13 DEF ClearRead
  <2>2. CardsT
    BY <1>13 DEF ClearRead, CardTypes
  <2>3. TurnsT
    BY <1>13 DEF ClearRead, CardTypes
  <2>4. FlagsT
    BY <1>13 DEF ClearRead, CardTypes
  <2>5. clearer' \in [Clearers -> SUBSET Cards]
    BY <1>13 DEF ClearRead, CardTypes, OpenCards
  <2>6. /\ answers' \in 0..MaxAnswers /\ cardFaults' \in 0..MaxCardFaults
        /\ acted' \subseteq Cards /\ closedBy' \subseteq Cards
    BY <1>13 DEF ClearRead, CardTypes
  <2>. QED
    BY <2>1, <2>2, <2>3, <2>4, <2>5, <2>6 DEF CardTypes
<1>14. ASSUME NEW k \in Clearers, ClearWrite(k)
      PROVE  CardTypes' /\ AnswersHaveCards'
  <2>1. AnswersT
    BY <1>0, <1>14 DEF ClearWrite
  <2>2. CardsT
    BY <1>0, <1>14 DEF ClearWrite, CardRows, Statuses
  <2>3. TurnsT
    BY <1>14 DEF ClearWrite, CardTypes
  <2>4. FlagsT
    BY <1>14 DEF ClearWrite, CardTypes
  <2>5. clearer' \in [Clearers -> SUBSET Cards]
    BY <1>14 DEF ClearWrite, CardTypes
  <2>6. /\ answers' \in 0..MaxAnswers /\ cardFaults' \in 0..MaxCardFaults
        /\ acted' \subseteq Cards /\ closedBy' \subseteq Cards
    BY <1>14 DEF ClearWrite, CardTypes
  <2>. QED
    BY <2>1, <2>2, <2>3, <2>4, <2>5, <2>6 DEF CardTypes
<1>15. CASE UNCHANGED cardVars
  <2>1. AnswersT
    BY <1>0, <1>15 DEF cardVars
  <2>2. CardsT
    BY <1>15 DEF cardVars, CardTypes
  <2>3. TurnsT
    BY <1>15 DEF cardVars, CardTypes
  <2>4. FlagsT
    BY <1>15 DEF cardVars, CardTypes
  <2>5. clearer' \in [Clearers -> SUBSET Cards]
    BY <1>15 DEF cardVars, CardTypes
  <2>6. /\ answers' \in 0..MaxAnswers /\ cardFaults' \in 0..MaxCardFaults
        /\ acted' \subseteq Cards /\ closedBy' \subseteq Cards
    BY <1>15 DEF cardVars, CardTypes
  <2>. QED
    BY <2>1, <2>2, <2>3, <2>4, <2>5, <2>6 DEF CardTypes
<1>. QED
  BY <1>1, <1>2, <1>3, <1>4, <1>5, <1>6, <1>7, <1>8, <1>9, <1>10, <1>11, <1>12, <1>13,
     <1>14, <1>15
     DEF CardNext

(* Cards, requests, dismissals and turns stay well typed.                  *)
THEOREM CardTypeCorrect == CardSpec => []CardTypeOK
<1>. QED
  BY CardInitType, CardStepType, PTL DEF CardSpec

-----------------------------------------------------------------------------
(* Cards that are written, and what steps do to them.                      *)

Raised(c) == card[c].status # "none"

(* A card keeps its turn, is never hidden again, and is reopened only by a *)
(* write on a row its copy had left or by a direct answer; a new card is   *)
(* raised by a turn that works; a record of what went wrong stays.         *)
CardsMove ==
  /\ \A c \in Cards : Raised(c) =>
       /\ Raised(c)' /\ card'[c].bundle = card[c].bundle
       /\ card[c].shown => card'[c].shown
       /\ IsOpen(c)' => IsOpen(c) \/ cardStale' \/ cardDirect'
  /\ \A c \in Cards : ~Raised(c) /\ Raised(c)' => cardTurn'[card'[c].bundle].at = "working"
  /\ cardStale => cardStale'
  /\ cardDirect => cardDirect'
  /\ cardCut => cardCut'

(* What requests, turns and dismissals hold was raised; a request that is  *)
(* not a direct answer to a closed card read an open one.                  *)
HeldIsRaised ==
  /\ \A c \in Cards : Raised(c) => card[c].bundle \in CardTurns
  /\ \A r \in AnswerActors : answer[r].at # "idle" =>
       Raised(answer[r].card) /\ (cardDirect \/ answer[r].copy = "awaiting")
  /\ \A k \in Clearers : \A c \in clearer[k] : Raised(c)
  /\ \A t \in CardTurns : \A c \in cardTurn[t].stale : Raised(c)
  /\ \A c \in acted \cup closedBy : Raised(c)

(* At the start no card was raised. *)
LEMMA HeldInit == CardInit => HeldIsRaised
BY DEF CardInit, HeldIsRaised, Raised, AnswerIdle, TurnAway

(* What a request writes leaves every other card, and opens none. *)
LEMMA WrittenMoves ==
  ASSUME CardTypes, AnswersHaveCards, NEW r \in AnswerActors, answer[r].at # "idle",
         NEW st \in {"approved", "rejected", "deferred"}, card' = Written(r, st)
  PROVE  /\ \A c \in Cards : /\ card'[c].bundle = card[c].bundle
                             /\ card'[c].shown = card[c].shown
                             /\ card'[c].status # card[c].status => card'[c].status = st
         /\ answer[r].copy # st => card'[answer[r].card].status = st
<1>1. card \in [Cards -> CardRows] /\ answer[r].card \in Cards
  BY DEF CardTypes, AnswersHaveCards
<1>2. CASE answer[r].copy = st
  BY <1>2 DEF Written
<1>3. CASE answer[r].copy # st
  <2>1. card' = [card EXCEPT ![answer[r].card].status = st]
    BY <1>3 DEF Written
  <2>. QED
    BY <1>1, <1>3, <2>1 DEF CardRows
<1>. QED
  BY <1>2, <1>3

(* Every step moves the cards in that way, from a state where what is held *)
(* was raised to another.                                                  *)
LEMMA HeldStep ==
  CardTypeOK /\ AnswersHaveCards /\ HeldIsRaised /\ [CardNext]_cardVars =>
    CardsMove /\ HeldIsRaised'
<1>. SUFFICES ASSUME CardTypes, AnswersHaveCards, HeldIsRaised, [CardNext]_cardVars
              PROVE  CardsMove /\ HeldIsRaised'
  BY CardTypeIs
<1>0. /\ \A r \in AnswerActors : answer[r] \in AnswerRows
      /\ \A r \in AnswerActors : answer[r].at # "idle" => answer[r].card \in Cards
      /\ \A c \in Cards : card[c] \in CardRows
      /\ \A t \in CardTurns : cardTurn[t].stale \subseteq Cards
      /\ \A k \in Clearers : clearer[k] \subseteq Cards
      /\ card \in [Cards -> CardRows] /\ answer \in [AnswerActors -> AnswerRows]
      /\ clearer \in [Clearers -> SUBSET Cards] /\ cardTurn \in [CardTurns -> TurnRows]
      /\ acted \subseteq Cards /\ closedBy \subseteq Cards
  BY DEF CardTypes, AnswersHaveCards, TurnRows
<1>. USE DEF cardHistory
<1>1. ASSUME NEW t \in CardTurns, TurnStart(t)
      PROVE  CardsMove /\ HeldIsRaised'
  <2>1. CardsMove
    BY <1>0, <1>1 DEF TurnStart, CardsMove, HeldIsRaised, Raised, IsOpen, CardRows
  <2>2. \A c \in Cards : Raised(c)' => card'[c].bundle \in CardTurns
    BY <1>0, <1>1, <2>1 DEF TurnStart, CardsMove, HeldIsRaised, Raised
  <2>3. ASSUME NEW q \in AnswerActors, answer'[q].at # "idle"
        PROVE  Raised(answer[q].card)' /\ (cardDirect' \/ answer'[q].copy = "awaiting")
    BY <1>0, <1>1, <2>1, <2>3 DEF TurnStart, CardsMove, HeldIsRaised, Raised, IsOpen
  <2>4. \A l \in Clearers : \A c \in clearer'[l] : Raised(c)'
    BY <1>0, <1>1, <2>1 DEF TurnStart, CardsMove, HeldIsRaised, Raised, IsOpen
  <2>5. \A u \in CardTurns : \A c \in cardTurn'[u].stale : Raised(c)'
    BY <1>0, <1>1, <2>1 DEF TurnStart, CardsMove, HeldIsRaised, Raised, IsOpen, TurnRows
  <2>6. \A c \in acted' \cup closedBy' : Raised(c)'
    BY <1>0, <1>1, <2>1 DEF TurnStart, CardsMove, HeldIsRaised, Raised
  <2>. QED
    BY <2>1, <2>2, <2>3, <2>4, <2>5, <2>6 DEF HeldIsRaised
<1>2. ASSUME NEW t \in CardTurns, NEW title \in CardTitles, TurnAsk(t, title)
      PROVE  CardsMove /\ HeldIsRaised'
  <2>1. CardsMove
    BY <1>0, <1>2 DEF TurnAsk, OpenCards, CardsMove, HeldIsRaised, Raised, IsOpen, CardRows
  <2>2. \A c \in Cards : Raised(c)' => card'[c].bundle \in CardTurns
    BY <1>0, <1>2, <2>1 DEF TurnAsk, OpenCards, CardsMove, HeldIsRaised, Raised
  <2>3. ASSUME NEW q \in AnswerActors, answer'[q].at # "idle"
        PROVE  Raised(answer[q].card)' /\ (cardDirect' \/ answer'[q].copy = "awaiting")
    BY <1>0, <1>2, <2>1, <2>3 DEF TurnAsk, OpenCards, CardsMove, HeldIsRaised, Raised,
       IsOpen
  <2>4. \A l \in Clearers : \A c \in clearer'[l] : Raised(c)'
    BY <1>0, <1>2, <2>1 DEF TurnAsk, OpenCards, CardsMove, HeldIsRaised, Raised, IsOpen
  <2>5. \A u \in CardTurns : \A c \in cardTurn'[u].stale : Raised(c)'
    BY <1>0, <1>2, <2>1 DEF TurnAsk, OpenCards, CardsMove, HeldIsRaised, Raised, IsOpen,
       TurnRows
  <2>6. \A c \in acted' \cup closedBy' : Raised(c)'
    BY <1>0, <1>2, <2>1 DEF TurnAsk, OpenCards, CardsMove, HeldIsRaised, Raised
  <2>. QED
    BY <2>1, <2>2, <2>3, <2>4, <2>5, <2>6 DEF HeldIsRaised
<1>3. ASSUME NEW t \in CardTurns, TurnRaise(t)
      PROVE  CardsMove /\ HeldIsRaised'
  <2>. DEFINE closed == [c \in Cards |-> IF c \in cardTurn[t].stale
                                         THEN [card[c] EXCEPT !.status = "deferred"]
                                         ELSE card[c]]
  <2>7. \A c \in Cards : /\ closed[c].bundle = card[c].bundle
                         /\ closed[c].shown = card[c].shown
                         /\ closed[c].status \in {card[c].status, "deferred"}
                         /\ card[c].status = "none" => closed[c].status = "none"
    BY <1>0 DEF CardRows, HeldIsRaised, Raised
  <2>8. \/ card' = closed
        \/ \E d \in Cards : /\ card[d].status = "none"
                            /\ card'[d].bundle = t
                            /\ \A c \in Cards : c # d => card'[c] = closed[c]
                            /\ card'[d].status = "awaiting"
    <3>1. \/ card' = closed
          \/ \E d \in Cards : /\ card[d].status = "none"
                              /\ card' = [closed EXCEPT ![d] =
                                   [status |-> "awaiting", shown |-> FALSE, bundle |-> t,
                                    title |-> cardTurn[t].title]]
      BY <1>3 DEF TurnRaise, NextCard
    <3>2. DOMAIN closed = Cards
      OBVIOUS
    <3>. HIDE DEF closed
    <3>3. ASSUME NEW d \in Cards, NEW row, row.bundle = t, row.status = "awaiting",
                 card' = [closed EXCEPT ![d] = row]
          PROVE  /\ card'[d].bundle = t /\ card'[d].status = "awaiting"
                 /\ \A c \in Cards : c # d => card'[c] = closed[c]
      BY <3>2, <3>3
    <3>. QED
      BY <3>1, <3>3
  <2>9. /\ UNCHANGED cardDirect /\ UNCHANGED cardCut /\ (cardStale => cardStale')
        /\ cardTurn'[t].at = "working"
    BY <1>0, <1>3 DEF TurnRaise, TurnAway
  <2>. HIDE DEF closed
  <2>1. CardsMove
    BY <1>0, <2>7, <2>8, <2>9 DEF CardsMove, Raised, IsOpen
  <2>2. \A c \in Cards : Raised(c)' => card'[c].bundle \in CardTurns
    BY <1>0, <2>7, <2>8 DEF HeldIsRaised, Raised
  <2>3. ASSUME NEW q \in AnswerActors, answer'[q].at # "idle"
        PROVE  Raised(answer[q].card)' /\ (cardDirect' \/ answer'[q].copy = "awaiting")
    BY <1>0, <1>3, <2>1, <2>3 DEF TurnRaise, TurnAway, NextCard, CardsMove, HeldIsRaised,
       Raised, IsOpen
  <2>4. \A l \in Clearers : \A c \in clearer'[l] : Raised(c)'
    BY <1>0, <1>3, <2>1 DEF TurnRaise, TurnAway, NextCard, CardsMove, HeldIsRaised, Raised,
       IsOpen
  <2>5. \A u \in CardTurns : \A c \in cardTurn'[u].stale : Raised(c)'
    BY <1>0, <1>3, <2>1 DEF TurnRaise, TurnAway, NextCard, CardsMove, HeldIsRaised, Raised,
       IsOpen, TurnRows
  <2>6. \A c \in acted' \cup closedBy' : Raised(c)'
    BY <1>0, <1>3, <2>1 DEF TurnRaise, TurnAway, NextCard, CardsMove, HeldIsRaised, Raised
  <2>. QED
    BY <2>1, <2>2, <2>3, <2>4, <2>5, <2>6 DEF HeldIsRaised
<1>4. ASSUME NEW t \in CardTurns, TurnPlace(t)
      PROVE  CardsMove /\ HeldIsRaised'
  <2>1. CardsMove
    BY <1>0, <1>4 DEF TurnPlace, CardsMove, HeldIsRaised, Raised, IsOpen, CardRows
  <2>2. \A c \in Cards : Raised(c)' => card'[c].bundle \in CardTurns
    BY <1>0, <1>4, <2>1 DEF TurnPlace, CardsMove, HeldIsRaised, Raised
  <2>3. ASSUME NEW q \in AnswerActors, answer'[q].at # "idle"
        PROVE  Raised(answer[q].card)' /\ (cardDirect' \/ answer'[q].copy = "awaiting")
    BY <1>0, <1>4, <2>1, <2>3 DEF TurnPlace, CardsMove, HeldIsRaised, Raised, IsOpen
  <2>4. \A l \in Clearers : \A c \in clearer'[l] : Raised(c)'
    BY <1>0, <1>4, <2>1 DEF TurnPlace, CardsMove, HeldIsRaised, Raised, IsOpen
  <2>5. \A u \in CardTurns : \A c \in cardTurn'[u].stale : Raised(c)'
    BY <1>0, <1>4, <2>1 DEF TurnPlace, CardsMove, HeldIsRaised, Raised, IsOpen, TurnRows
  <2>6. \A c \in acted' \cup closedBy' : Raised(c)'
    BY <1>0, <1>4, <2>1 DEF TurnPlace, CardsMove, HeldIsRaised, Raised
  <2>. QED
    BY <2>1, <2>2, <2>3, <2>4, <2>5, <2>6 DEF HeldIsRaised
<1>5. ASSUME NEW t \in CardTurns, TurnQuiet(t)
      PROVE  CardsMove /\ HeldIsRaised'
  <2>1. CardsMove
    BY <1>0, <1>5 DEF TurnQuiet, TurnAway, CardsMove, HeldIsRaised, Raised, IsOpen, CardRows
  <2>2. \A c \in Cards : Raised(c)' => card'[c].bundle \in CardTurns
    BY <1>0, <1>5, <2>1 DEF TurnQuiet, TurnAway, CardsMove, HeldIsRaised, Raised
  <2>3. ASSUME NEW q \in AnswerActors, answer'[q].at # "idle"
        PROVE  Raised(answer[q].card)' /\ (cardDirect' \/ answer'[q].copy = "awaiting")
    BY <1>0, <1>5, <2>1, <2>3 DEF TurnQuiet, TurnAway, CardsMove, HeldIsRaised, Raised,
       IsOpen
  <2>4. \A l \in Clearers : \A c \in clearer'[l] : Raised(c)'
    BY <1>0, <1>5, <2>1 DEF TurnQuiet, TurnAway, CardsMove, HeldIsRaised, Raised, IsOpen
  <2>5. \A u \in CardTurns : \A c \in cardTurn'[u].stale : Raised(c)'
    BY <1>0, <1>5, <2>1 DEF TurnQuiet, TurnAway, CardsMove, HeldIsRaised, Raised, IsOpen,
       TurnRows
  <2>6. \A c \in acted' \cup closedBy' : Raised(c)'
    BY <1>0, <1>5, <2>1 DEF TurnQuiet, TurnAway, CardsMove, HeldIsRaised, Raised
  <2>. QED
    BY <2>1, <2>2, <2>3, <2>4, <2>5, <2>6 DEF HeldIsRaised
<1>6. ASSUME NEW r \in AnswerActors, NEW c \in Cards, AnswerRead(r, c)
      PROVE  CardsMove /\ HeldIsRaised'
  <2>1. CardsMove
    BY <1>0, <1>6 DEF AnswerRead, CarefulRead, DirectRead, CardsMove, HeldIsRaised, Raised,
       IsOpen, CardRows
  <2>2. \A e \in Cards : Raised(e)' => card'[e].bundle \in CardTurns
    BY <1>0, <1>6, <2>1 DEF AnswerRead, CarefulRead, DirectRead, CardsMove, HeldIsRaised,
       Raised
  <2>3. ASSUME NEW q \in AnswerActors, answer'[q].at # "idle"
        PROVE  Raised(answer[q].card)' /\ (cardDirect' \/ answer'[q].copy = "awaiting")
    BY <1>0, <1>6, <2>1, <2>3 DEF AnswerRead, CarefulRead, DirectRead, CardsMove,
       HeldIsRaised, Raised, IsOpen
  <2>4. \A l \in Clearers : \A e \in clearer'[l] : Raised(e)'
    BY <1>0, <1>6, <2>1 DEF AnswerRead, CarefulRead, DirectRead, CardsMove, HeldIsRaised,
       Raised, IsOpen
  <2>5. \A u \in CardTurns : \A e \in cardTurn'[u].stale : Raised(e)'
    BY <1>0, <1>6, <2>1 DEF AnswerRead, CarefulRead, DirectRead, CardsMove, HeldIsRaised,
       Raised, IsOpen, TurnRows
  <2>6. \A e \in acted' \cup closedBy' : Raised(e)'
    BY <1>0, <1>6, <2>1 DEF AnswerRead, CarefulRead, DirectRead, CardsMove, HeldIsRaised,
       Raised
  <2>. QED
    BY <2>1, <2>2, <2>3, <2>4, <2>5, <2>6 DEF HeldIsRaised
<1>7. ASSUME NEW r \in AnswerActors, NEW st \in {"approved", "rejected", "deferred"},
             AnswerClose(r, st)
      PROVE  CardsMove /\ HeldIsRaised'
  <2>0. ASSUME NEW c \in Cards, card[c].status = "none" PROVE card'[c].status = "none"
    <3>1. c # answer[r].card
      BY <1>7, <2>0 DEF AnswerClose, HeldIsRaised, Raised
    <3>2. card'[c] = card[c]
      BY <1>0, <1>7, <3>1 DEF AnswerClose, Written
    <3>. QED
      BY <2>0, <3>2
  <2>1. CardsMove
    BY <1>0, <1>7, WrittenMoves, <2>0 DEF AnswerClose, Stale, CardsMove, HeldIsRaised,
       Raised, IsOpen, CardRows
  <2>2. \A c \in Cards : Raised(c)' => card'[c].bundle \in CardTurns
    BY <2>0, <2>1 DEF CardsMove, HeldIsRaised, Raised
  <2>3. ASSUME NEW q \in AnswerActors, answer'[q].at # "idle"
        PROVE  Raised(answer[q].card)' /\ (cardDirect' \/ answer'[q].copy = "awaiting")
    <3>1. answer'[q] = answer[q] /\ answer[q].at # "idle" /\ cardDirect' = cardDirect
      BY <1>0, <1>7, <2>3 DEF AnswerClose, AnswerIdle
    <3>. QED
      BY <1>0, <2>1, <3>1 DEF CardsMove, HeldIsRaised
  <2>4. \A l \in Clearers : \A c \in clearer'[l] : Raised(c)'
    BY <1>0, <1>7, <2>1 DEF AnswerClose, Stale, CardsMove, HeldIsRaised, Raised, IsOpen
  <2>5. \A u \in CardTurns : \A c \in cardTurn'[u].stale : Raised(c)'
    BY <1>0, <1>7, <2>1 DEF AnswerClose, Stale, CardsMove, HeldIsRaised, Raised, IsOpen,
       TurnRows
  <2>6. \A c \in acted' \cup closedBy' : Raised(c)'
    BY <1>0, <1>7, <2>1 DEF AnswerClose, Stale, CardsMove, HeldIsRaised, Raised
  <2>. QED
    BY <2>1, <2>2, <2>3, <2>4, <2>5, <2>6 DEF HeldIsRaised
<1>8. ASSUME NEW r \in AnswerActors, AnswerAct(r)
      PROVE  CardsMove /\ HeldIsRaised'
  <2>1. CardsMove
    BY <1>0, <1>8 DEF AnswerAct, AnswerRows, CardsMove, HeldIsRaised, Raised, IsOpen,
       CardRows
  <2>2. \A c \in Cards : Raised(c)' => card'[c].bundle \in CardTurns
    BY <1>0, <1>8, <2>1 DEF AnswerAct, AnswerRows, CardsMove, HeldIsRaised, Raised
  <2>3. ASSUME NEW q \in AnswerActors, answer'[q].at # "idle"
        PROVE  Raised(answer[q].card)' /\ (cardDirect' \/ answer'[q].copy = "awaiting")
    BY <1>0, <1>8, <2>1, <2>3 DEF AnswerAct, AnswerRows, CardsMove, HeldIsRaised, Raised,
       IsOpen
  <2>4. \A l \in Clearers : \A c \in clearer'[l] : Raised(c)'
    BY <1>0, <1>8, <2>1 DEF AnswerAct, AnswerRows, CardsMove, HeldIsRaised, Raised, IsOpen
  <2>5. \A u \in CardTurns : \A c \in cardTurn'[u].stale : Raised(c)'
    BY <1>0, <1>8, <2>1 DEF AnswerAct, AnswerRows, CardsMove, HeldIsRaised, Raised, IsOpen,
       TurnRows
  <2>6. \A c \in acted' \cup closedBy' : Raised(c)'
    BY <1>0, <1>8, <2>1 DEF AnswerAct, AnswerRows, CardsMove, HeldIsRaised, Raised
  <2>. QED
    BY <2>1, <2>2, <2>3, <2>4, <2>5, <2>6 DEF HeldIsRaised
<1>9. ASSUME NEW r \in AnswerActors, AnswerCommit(r)
      PROVE  CardsMove /\ HeldIsRaised'
  <2>0. ASSUME NEW c \in Cards, card[c].status = "none" PROVE card'[c].status = "none"
    <3>1. c # answer[r].card
      BY <1>9, <2>0 DEF AnswerCommit, HeldIsRaised, Raised
    <3>2. card'[c] = card[c]
      BY <1>0, <1>9, <3>1 DEF AnswerCommit, Written
    <3>. QED
      BY <2>0, <3>2
  <2>1. CardsMove
    BY <1>0, <1>9, WrittenMoves, <2>0 DEF AnswerCommit, CardsMove, HeldIsRaised, Raised,
       IsOpen, CardRows
  <2>2. \A c \in Cards : Raised(c)' => card'[c].bundle \in CardTurns
    BY <2>0, <2>1 DEF CardsMove, HeldIsRaised, Raised
  <2>3. ASSUME NEW q \in AnswerActors, answer'[q].at # "idle"
        PROVE  Raised(answer[q].card)' /\ (cardDirect' \/ answer'[q].copy = "awaiting")
    BY <1>0, <1>9, <2>1, <2>3 DEF AnswerCommit, CardsMove, HeldIsRaised, Raised, IsOpen
  <2>4. \A l \in Clearers : \A c \in clearer'[l] : Raised(c)'
    BY <1>0, <1>9, <2>1 DEF AnswerCommit, CardsMove, HeldIsRaised, Raised, IsOpen
  <2>5. \A u \in CardTurns : \A c \in cardTurn'[u].stale : Raised(c)'
    BY <1>0, <1>9, <2>1 DEF AnswerCommit, CardsMove, HeldIsRaised, Raised, IsOpen, TurnRows
  <2>6. \A c \in acted' \cup closedBy' : Raised(c)'
    BY <1>0, <1>9, <2>1 DEF AnswerCommit, CardsMove, HeldIsRaised, Raised
  <2>. QED
    BY <2>1, <2>2, <2>3, <2>4, <2>5, <2>6 DEF HeldIsRaised
<1>10. ASSUME NEW r \in AnswerActors, AnswerSettle(r)
      PROVE  CardsMove /\ HeldIsRaised'
  <2>1. CardsMove
    BY <1>0, <1>10 DEF AnswerSettle, OpenCards, AnswerIdle, CardsMove, HeldIsRaised,
       Raised, IsOpen, CardRows
  <2>2. \A c \in Cards : Raised(c)' => card'[c].bundle \in CardTurns
    <3>1. \A c \in Cards : Raised(c)' => Raised(c)
      BY <1>0, <1>10 DEF AnswerSettle, OpenCards, IsOpen, Raised, CardRows
    <3>. QED
      BY <2>1, <3>1 DEF CardsMove, HeldIsRaised
  <2>3. ASSUME NEW q \in AnswerActors, answer'[q].at # "idle"
        PROVE  Raised(answer[q].card)' /\ (cardDirect' \/ answer'[q].copy = "awaiting")
    BY <1>0, <1>10, <2>1, <2>3 DEF AnswerSettle, OpenCards, AnswerIdle, CardsMove,
       HeldIsRaised, Raised, IsOpen
  <2>4. \A l \in Clearers : \A c \in clearer'[l] : Raised(c)'
    BY <1>0, <1>10, <2>1 DEF AnswerSettle, OpenCards, AnswerIdle, CardsMove, HeldIsRaised,
       Raised, IsOpen
  <2>5. \A u \in CardTurns : \A c \in cardTurn'[u].stale : Raised(c)'
    BY <1>0, <1>10, <2>1 DEF AnswerSettle, OpenCards, AnswerIdle, CardsMove, HeldIsRaised,
       Raised, IsOpen, TurnRows
  <2>6. \A c \in acted' \cup closedBy' : Raised(c)'
    BY <1>0, <1>10, <2>1 DEF AnswerSettle, OpenCards, AnswerIdle, CardsMove, HeldIsRaised,
       Raised
  <2>. QED
    BY <2>1, <2>2, <2>3, <2>4, <2>5, <2>6 DEF HeldIsRaised
<1>11. ASSUME NEW r \in AnswerActors, AnswerFail(r)
      PROVE  CardsMove /\ HeldIsRaised'
  <2>1. CardsMove
    BY <1>0, <1>11 DEF AnswerFail, Stale, AnswerIdle, CardsMove, HeldIsRaised, Raised,
       IsOpen, CardRows
  <2>2. \A c \in Cards : Raised(c)' => card'[c].bundle \in CardTurns
    BY <1>0, <1>11, <2>1 DEF AnswerFail, Stale, AnswerIdle, CardsMove, HeldIsRaised, Raised
  <2>3. ASSUME NEW q \in AnswerActors, answer'[q].at # "idle"
        PROVE  Raised(answer[q].card)' /\ (cardDirect' \/ answer'[q].copy = "awaiting")
    BY <1>0, <1>11, <2>1, <2>3 DEF AnswerFail, Stale, AnswerIdle, CardsMove, HeldIsRaised,
       Raised, IsOpen
  <2>4. \A l \in Clearers : \A c \in clearer'[l] : Raised(c)'
    BY <1>0, <1>11, <2>1 DEF AnswerFail, Stale, AnswerIdle, CardsMove, HeldIsRaised,
       Raised, IsOpen
  <2>5. \A u \in CardTurns : \A c \in cardTurn'[u].stale : Raised(c)'
    BY <1>0, <1>11, <2>1 DEF AnswerFail, Stale, AnswerIdle, CardsMove, HeldIsRaised,
       Raised, IsOpen, TurnRows
  <2>6. \A c \in acted' \cup closedBy' : Raised(c)'
    BY <1>0, <1>11, <2>1 DEF AnswerFail, Stale, AnswerIdle, CardsMove, HeldIsRaised, Raised
  <2>. QED
    BY <2>1, <2>2, <2>3, <2>4, <2>5, <2>6 DEF HeldIsRaised
<1>12. ASSUME NEW r \in AnswerActors, AnswerLost(r)
      PROVE  CardsMove /\ HeldIsRaised'
  <2>1. CardsMove
    BY <1>0, <1>12 DEF AnswerLost, AnswerIdle, CardsMove, HeldIsRaised, Raised, IsOpen,
       CardRows
  <2>2. \A c \in Cards : Raised(c)' => card'[c].bundle \in CardTurns
    BY <1>0, <1>12, <2>1 DEF AnswerLost, AnswerIdle, CardsMove, HeldIsRaised, Raised
  <2>3. ASSUME NEW q \in AnswerActors, answer'[q].at # "idle"
        PROVE  Raised(answer[q].card)' /\ (cardDirect' \/ answer'[q].copy = "awaiting")
    BY <1>0, <1>12, <2>1, <2>3 DEF AnswerLost, AnswerIdle, CardsMove, HeldIsRaised, Raised,
       IsOpen
  <2>4. \A l \in Clearers : \A c \in clearer'[l] : Raised(c)'
    BY <1>0, <1>12, <2>1 DEF AnswerLost, AnswerIdle, CardsMove, HeldIsRaised, Raised, IsOpen
  <2>5. \A u \in CardTurns : \A c \in cardTurn'[u].stale : Raised(c)'
    BY <1>0, <1>12, <2>1 DEF AnswerLost, AnswerIdle, CardsMove, HeldIsRaised, Raised,
       IsOpen, TurnRows
  <2>6. \A c \in acted' \cup closedBy' : Raised(c)'
    BY <1>0, <1>12, <2>1 DEF AnswerLost, AnswerIdle, CardsMove, HeldIsRaised, Raised
  <2>. QED
    BY <2>1, <2>2, <2>3, <2>4, <2>5, <2>6 DEF HeldIsRaised
<1>13. ASSUME NEW k \in Clearers, ClearRead(k)
      PROVE  CardsMove /\ HeldIsRaised'
  <2>1. CardsMove
    BY <1>0, <1>13 DEF ClearRead, OpenCards, CardsMove, HeldIsRaised, Raised, IsOpen,
       CardRows
  <2>2. \A c \in Cards : Raised(c)' => card'[c].bundle \in CardTurns
    BY <1>0, <1>13, <2>1 DEF ClearRead, OpenCards, CardsMove, HeldIsRaised, Raised
  <2>3. ASSUME NEW q \in AnswerActors, answer'[q].at # "idle"
        PROVE  Raised(answer[q].card)' /\ (cardDirect' \/ answer'[q].copy = "awaiting")
    BY <1>0, <1>13, <2>1, <2>3 DEF ClearRead, OpenCards, CardsMove, HeldIsRaised, Raised,
       IsOpen
  <2>4. \A l \in Clearers : \A c \in clearer'[l] : Raised(c)'
    BY <1>0, <1>13, <2>1 DEF ClearRead, OpenCards, CardsMove, HeldIsRaised, Raised, IsOpen
  <2>5. \A u \in CardTurns : \A c \in cardTurn'[u].stale : Raised(c)'
    BY <1>0, <1>13, <2>1 DEF ClearRead, OpenCards, CardsMove, HeldIsRaised, Raised, IsOpen,
       TurnRows
  <2>6. \A c \in acted' \cup closedBy' : Raised(c)'
    BY <1>0, <1>13, <2>1 DEF ClearRead, OpenCards, CardsMove, HeldIsRaised, Raised
  <2>. QED
    BY <2>1, <2>2, <2>3, <2>4, <2>5, <2>6 DEF HeldIsRaised
<1>14. ASSUME NEW k \in Clearers, ClearWrite(k)
      PROVE  CardsMove /\ HeldIsRaised'
  <2>1. CardsMove
    BY <1>0, <1>14 DEF ClearWrite, CardsMove, HeldIsRaised, Raised, IsOpen, CardRows
  <2>2. \A c \in Cards : Raised(c)' => card'[c].bundle \in CardTurns
    BY <1>0, <1>14, <2>1 DEF ClearWrite, CardsMove, HeldIsRaised, Raised
  <2>3. ASSUME NEW q \in AnswerActors, answer'[q].at # "idle"
        PROVE  Raised(answer[q].card)' /\ (cardDirect' \/ answer'[q].copy = "awaiting")
    BY <1>0, <1>14, <2>1, <2>3 DEF ClearWrite, CardsMove, HeldIsRaised, Raised, IsOpen
  <2>4. \A l \in Clearers : \A c \in clearer'[l] : Raised(c)'
    BY <1>0, <1>14, <2>1 DEF ClearWrite, CardsMove, HeldIsRaised, Raised, IsOpen
  <2>5. \A u \in CardTurns : \A c \in cardTurn'[u].stale : Raised(c)'
    BY <1>0, <1>14, <2>1 DEF ClearWrite, CardsMove, HeldIsRaised, Raised, IsOpen, TurnRows
  <2>6. \A c \in acted' \cup closedBy' : Raised(c)'
    BY <1>0, <1>14, <2>1 DEF ClearWrite, CardsMove, HeldIsRaised, Raised
  <2>. QED
    BY <2>1, <2>2, <2>3, <2>4, <2>5, <2>6 DEF HeldIsRaised
<1>15. CASE UNCHANGED cardVars
  <2>1. CardsMove
    BY <1>0, <1>15 DEF cardVars, CardsMove, HeldIsRaised, Raised, IsOpen, CardRows
  <2>2. \A c \in Cards : Raised(c)' => card'[c].bundle \in CardTurns
    BY <1>0, <1>15, <2>1 DEF cardVars, CardsMove, HeldIsRaised, Raised
  <2>3. ASSUME NEW q \in AnswerActors, answer'[q].at # "idle"
        PROVE  Raised(answer[q].card)' /\ (cardDirect' \/ answer'[q].copy = "awaiting")
    BY <1>0, <1>15, <2>1, <2>3 DEF cardVars, CardsMove, HeldIsRaised, Raised, IsOpen
  <2>4. \A l \in Clearers : \A c \in clearer'[l] : Raised(c)'
    BY <1>0, <1>15, <2>1 DEF cardVars, CardsMove, HeldIsRaised, Raised, IsOpen
  <2>5. \A u \in CardTurns : \A c \in cardTurn'[u].stale : Raised(c)'
    BY <1>0, <1>15, <2>1 DEF cardVars, CardsMove, HeldIsRaised, Raised, IsOpen, TurnRows
  <2>6. \A c \in acted' \cup closedBy' : Raised(c)'
    BY <1>0, <1>15, <2>1 DEF cardVars, CardsMove, HeldIsRaised, Raised
  <2>. QED
    BY <2>1, <2>2, <2>3, <2>4, <2>5, <2>6 DEF HeldIsRaised
<1>. QED
  BY <1>1, <1>2, <1>3, <1>4, <1>5, <1>6, <1>7, <1>8, <1>9, <1>10, <1>11, <1>12, <1>13,
     <1>14, <1>15
     DEF CardNext

-----------------------------------------------------------------------------
(* One action for one yes.                                                 *)

(* Unless something went wrong: an open card has not been acted upon, or   *)
(* is locked by the request that does; a request whose commit is done has  *)
(* closed its card; what was there when an action was settled is closed.   *)
YesInv ==
  /\ OpenIsUndone
  /\ \A r \in AnswerActors : answer[r].at = "after" => ~IsOpen(answer[r].card) \/ Disturbed
  /\ \A c \in closedBy : ~IsOpen(c) \/ Disturbed
  /\ YesActsOnce

(* Nothing was acted upon at the start. *)
LEMMA YesInit == CardInit => YesInv
BY DEF CardInit, YesInv, OpenIsUndone, YesActsOnce, AnswerIdle

(* Every step keeps it. *)
LEMMA YesStep ==
  /\ CardTypeOK /\ AnswersHaveCards /\ HeldIsRaised /\ YesInv /\ [CardNext]_cardVars
  => YesInv'
<1>. SUFFICES ASSUME CardTypes, AnswersHaveCards, HeldIsRaised, YesInv, [CardNext]_cardVars,
                     ~Disturbed'
              PROVE  YesInv'
  <2>1. Disturbed' => YesInv'
    BY DEF YesInv, OpenIsUndone, YesActsOnce
  <2>. QED
    BY <2>1, CardTypeIs
<1>1. CardsMove /\ ~Disturbed
  <2>1. CardsMove
    BY HeldStep, CardTypeIs
  <2>. QED
    BY <2>1 DEF CardsMove, Disturbed
<1>2. /\ card \in [Cards -> CardRows] /\ answer \in [AnswerActors -> AnswerRows]
      /\ acted \subseteq Cards /\ closedBy \subseteq Cards
      /\ \A r \in AnswerActors : answer[r].at # "idle" =>
           answer[r].card \in Cards /\ Raised(answer[r].card) /\ answer[r].copy = "awaiting"
      /\ \A c \in acted \cup closedBy : Raised(c)
  BY <1>1 DEF CardTypes, AnswersHaveCards, HeldIsRaised, Disturbed
<1>3. \A c \in Cards : Raised(c) /\ IsOpen(c)' => IsOpen(c)
  BY <1>1 DEF CardsMove, Disturbed
<1>4. /\ \A c \in acted : IsOpen(c) => IsLocked(c)
      /\ \A r \in AnswerActors : answer[r].at = "after" => ~IsOpen(answer[r].card)
      /\ \A c \in closedBy : ~IsOpen(c)
      /\ cardTwice = FALSE
  <2>1. cardTwice \in BOOLEAN
    BY DEF CardTypes
  <2>. QED
    BY <1>1, <2>1 DEF YesInv, OpenIsUndone, YesActsOnce
<1>. DEFINE Undone == \A c \in acted' : IsOpen(c)' => IsLocked(c)'
<1>. DEFINE After  == \A r \in AnswerActors :
                        answer'[r].at = "after" => ~IsOpen(answer[r].card)'
<1>. DEFINE Closed == \A c \in closedBy' : ~IsOpen(c)'
<1>. DEFINE Once   == cardTwice' = FALSE
<1>5. Undone /\ After /\ Closed /\ Once => YesInv'
  BY DEF YesInv, OpenIsUndone, YesActsOnce
<1>6. ASSUME UNCHANGED <<answer, acted, closedBy, cardTwice>>
      PROVE  YesInv'
  <2>1. Undone /\ After /\ Closed /\ Once
    BY <1>2, <1>3, <1>4, <1>6 DEF IsLocked
  <2>. QED
    BY <1>5, <2>1
<1>7. ASSUME NEW r \in AnswerActors, answer[r].at # "acted",
             answer'[r].at \in {"idle", "read"},
             \A q \in AnswerActors : q # r => answer'[q] = answer[q],
             UNCHANGED <<acted, closedBy, cardTwice>>
      PROVE  YesInv'
  <2>1. Undone
    BY <1>2, <1>3, <1>4, <1>7 DEF IsLocked
  <2>2. After
    BY <1>2, <1>3, <1>4, <1>7
  <2>3. Closed /\ Once
    BY <1>2, <1>3, <1>4, <1>7
  <2>. QED
    BY <1>5, <2>1, <2>2, <2>3
<1>8. ASSUME NEW r \in AnswerActors, AnswerAct(r) PROVE YesInv'
  <2>1. IsOpen(answer[r].card) /\ ~IsLocked(answer[r].card) /\ answer[r].card \in Cards
    BY <1>2, <1>8 DEF AnswerAct, Disturbed, Stale, IsOpen
  <2>2. Once
    BY <1>4, <1>8, <2>1 DEF AnswerAct
  <2>3. Undone
    <3>1. \A q \in AnswerActors : answer[q].at = "acted" =>
            answer'[q].at = "acted" /\ answer'[q].card = answer[q].card
      BY <1>2, <1>8 DEF AnswerAct
    <3>2. answer'[r].at = "acted" /\ answer'[r].card = answer[r].card
      BY <1>2, <1>8 DEF AnswerAct
    <3>. QED
      BY <1>2, <1>3, <1>4, <1>8, <3>1, <3>2 DEF AnswerAct, IsLocked
  <2>4. After
    BY <1>2, <1>3, <1>4, <1>8 DEF AnswerAct
  <2>5. Closed
    BY <1>2, <1>3, <1>4, <1>8 DEF AnswerAct
  <2>. QED
    BY <1>5, <2>2, <2>3, <2>4, <2>5
<1>9. ASSUME NEW r \in AnswerActors, AnswerCommit(r) PROVE YesInv'
  <2>1. ~IsOpen(answer[r].card)' /\ answer'[r].card = answer[r].card
    <3>1. card'[answer[r].card].status = "approved"
      BY <1>2, <1>9, WrittenMoves DEF AnswerCommit
    <3>2. answer'[r].card = answer[r].card
      BY <1>2, <1>9 DEF AnswerCommit
    <3>. QED
      BY <3>1, <3>2 DEF IsOpen
  <2>2. Undone
    <3>1. ASSUME NEW c \in acted, IsOpen(c)' PROVE IsLocked(c)'
      <4>1. PICK q \in AnswerActors : answer[q].at = "acted" /\ answer[q].card = c
        BY <1>2, <1>3, <1>4, <3>1 DEF IsLocked
      <4>2. q # r
        BY <2>1, <3>1, <4>1
      <4>3. answer'[q] = answer[q]
        BY <1>2, <1>9, <4>2 DEF AnswerCommit
      <4>. QED
        BY <4>1, <4>3 DEF IsLocked
    <3>. QED
      BY <1>9, <3>1 DEF AnswerCommit, cardHistory
  <2>3. After
    BY <1>2, <1>3, <1>4, <1>9, <2>1 DEF AnswerCommit
  <2>4. Closed /\ Once
    BY <1>2, <1>3, <1>4, <1>9 DEF AnswerCommit, cardHistory
  <2>. QED
    BY <1>5, <2>2, <2>3, <2>4
<1>10. ASSUME NEW r \in AnswerActors, AnswerSettle(r) PROVE YesInv'
  <2>1. Closed
    <3>1. ASSUME NEW c \in Cards, IsOpen(c), c # answer[r].card PROVE ~IsOpen(c)'
      BY <1>2, <1>10, <3>1 DEF AnswerSettle, OpenCards, IsOpen, CardRows
    <3>2. ~IsOpen(answer[r].card)
      BY <1>4, <1>10 DEF AnswerSettle
    <3>. QED
      BY <1>2, <1>3, <1>4, <1>10, <3>1, <3>2 DEF AnswerSettle, Raised
  <2>2. Undone
    BY <1>2, <1>3, <1>4, <1>10 DEF AnswerSettle, IsLocked, AnswerIdle
  <2>3. After
    BY <1>2, <1>3, <1>4, <1>10 DEF AnswerSettle, AnswerIdle
  <2>4. Once
    BY <1>4, <1>10 DEF AnswerSettle
  <2>. QED
    BY <1>5, <2>1, <2>2, <2>3, <2>4
<1>11. ASSUME NEW r \in AnswerActors, NEW c \in Cards, AnswerRead(r, c) PROVE YesInv'
  BY <1>2, <1>7, <1>11 DEF AnswerRead
<1>12. ASSUME NEW r \in AnswerActors, NEW st \in {"approved", "rejected", "deferred"},
              AnswerClose(r, st) \/ AnswerFail(r)
       PROVE  YesInv'
  BY <1>2, <1>7, <1>12 DEF AnswerClose, AnswerFail, AnswerIdle
<1>13. ASSUME NEW r \in AnswerActors, AnswerLost(r) PROVE YesInv'
  <2>1. answer[r].at = "read"
    BY <1>13 DEF AnswerLost, Disturbed
  <2>. QED
    BY <1>2, <1>7, <1>13, <2>1 DEF AnswerLost, AnswerIdle
<1>14. ASSUME NEW t \in CardTurns, NEW title \in CardTitles, NEW k \in Clearers,
              \/ TurnStart(t) \/ TurnAsk(t, title) \/ TurnRaise(t) \/ TurnPlace(t)
              \/ TurnQuiet(t) \/ ClearRead(k) \/ ClearWrite(k) \/ UNCHANGED cardVars
       PROVE  UNCHANGED <<answer, acted, closedBy, cardTwice>>
  BY <1>14 DEF TurnStart, TurnAsk, TurnRaise, TurnPlace, TurnQuiet, ClearRead, ClearWrite,
               cardVars, cardHistory
<1>. QED
  <2>1. CASE UNCHANGED cardVars
    BY <1>6, <2>1 DEF cardVars, cardHistory
  <2>2. CASE \E t \in CardTurns : \/ TurnStart(t) \/ TurnRaise(t) \/ TurnPlace(t) \/ TurnQuiet(t)
                                  \/ \E title \in CardTitles : TurnAsk(t, title)
    BY <1>6, <2>2 DEF TurnStart, TurnAsk, TurnRaise, TurnPlace, TurnQuiet, cardHistory
  <2>3. CASE \E k \in Clearers : ClearRead(k) \/ ClearWrite(k)
    BY <1>6, <2>3 DEF ClearRead, ClearWrite, cardHistory
  <2>. QED
    BY <1>8, <1>9, <1>10, <1>11, <1>12, <1>13, <2>1, <2>2, <2>3 DEF CardNext

(* A yes acts once, for any cards, requests and turns: again only after    *)
(* two requests overlapped on a row, a direct answer to a closed card, or  *)
(* a cut between the effect and its commit.                                *)
THEOREM OneYesOneAction == CardSpec => []YesActsOnce
<1>1. YesInv => YesActsOnce
  BY DEF YesInv
<1>. QED
  BY <1>1, CardInitType, CardStepType, HeldInit, HeldStep, YesInit, YesStep, PTL
     DEF CardSpec

(* What waits for an answer is still to be done.                           *)
THEOREM OpenMeansUndone == CardSpec => []OpenIsUndone
<1>1. YesInv => OpenIsUndone
  BY DEF YesInv
<1>. QED
  BY <1>1, CardInitType, CardStepType, HeldInit, HeldStep, YesInit, YesStep, PTL
     DEF CardSpec

-----------------------------------------------------------------------------
(* Asks that are seen.                                                     *)

(* Every step keeps it. *)
LEMMA SeenStep ==
  /\ CardTypeOK /\ AnswersHaveCards /\ HeldIsRaised /\ AskIsSeen /\ [CardNext]_cardVars
  => AskIsSeen'
<1>. SUFFICES ASSUME CardTypes, AnswersHaveCards, HeldIsRaised, AskIsSeen, [CardNext]_cardVars,
                     NEW c \in Cards, IsOpen(c)', ~cardStale', ~cardDirect'
              PROVE  \/ card'[c].shown
                     \/ cardTurn'[card'[c].bundle].at \in {"working", "asking", "quiet"}
  BY CardTypeIs DEF AskIsSeen, OpenCards
<1>1. CardsMove
  BY HeldStep, CardTypeIs
<1>2. /\ card \in [Cards -> CardRows] /\ cardTurn \in [CardTurns -> TurnRows]
      /\ Raised(c) => card[c].bundle \in CardTurns
  BY DEF CardTypes, HeldIsRaised
<1>. DEFINE Busy(t) == cardTurn[t].at \in {"working", "asking", "quiet"}
<1>3. CASE Raised(c)
  <2>1. /\ IsOpen(c) /\ card'[c].bundle = card[c].bundle /\ (card[c].shown => card'[c].shown)
        /\ ~cardStale /\ ~cardDirect
    BY <1>1, <1>3 DEF CardsMove
  <2>2. card[c].shown \/ Busy(card[c].bundle)
    BY <2>1 DEF AskIsSeen, OpenCards
  <2>3. ASSUME ~card[c].shown, ~card'[c].shown, Busy(card[c].bundle)
        PROVE  cardTurn'[card[c].bundle].at \in {"working", "asking", "quiet"}
    <3>0. PICK t \in CardTurns : t = card[c].bundle
      BY <1>2, <1>3
    <3>. DEFINE After == cardTurn'[t].at \in {"working", "asking", "quiet"}
    <3>1. ASSUME TurnPlace(t) PROVE FALSE
      BY <1>2, <2>1, <2>3, <3>0, <3>1 DEF TurnPlace, CardRows
    <3>2. ASSUME NEW u \in CardTurns, \/ TurnStart(u) \/ TurnRaise(u) \/ TurnQuiet(u)
                                       \/ \E title \in CardTitles : TurnAsk(u, title)
          PROVE  After
      <4>1. \A v \in CardTurns : v # u => cardTurn'[v] = cardTurn[v]
        BY <1>2, <3>2 DEF TurnStart, TurnRaise, TurnQuiet, TurnAsk
      <4>2. cardTurn'[u].at \in {"working", "asking", "quiet"}
        BY <1>2, <3>2 DEF TurnStart, TurnRaise, TurnQuiet, TurnAsk, TurnAway, TurnRows
      <4>. QED
        BY <2>3, <3>0, <4>1, <4>2
    <3>3. ASSUME NEW u \in CardTurns, TurnPlace(u), u # t PROVE After
      BY <1>2, <2>3, <3>0, <3>3 DEF TurnPlace
    <3>4. ASSUME UNCHANGED cardTurn PROVE After
      BY <2>3, <3>0, <3>4
    <3>. QED
      BY <3>0, <3>1, <3>2, <3>3, <3>4
         DEF CardNext, AnswerRead, AnswerClose, AnswerAct, AnswerCommit, AnswerSettle,
             AnswerFail, AnswerLost, ClearRead, ClearWrite, cardVars
  <2>. QED
    BY <2>1, <2>2, <2>3
<1>4. CASE ~Raised(c)
  BY <1>1, <1>4 DEF CardsMove, Raised, IsOpen
<1>. QED
  BY <1>3, <1>4

(* A turn that spoke leaves no open card unseen, unless a direct answer or *)
(* a write on an old copy reopened it.                                     *)
THEOREM AsksAreSeen == CardSpec => []AskIsSeen
<1>1. CardInit => AskIsSeen
  BY DEF CardInit, AskIsSeen, OpenCards, IsOpen
<1>. QED
  BY <1>1, CardInitType, CardStepType, HeldInit, HeldStep, SeenStep, PTL DEF CardSpec
=============================================================================
