-------------------------- MODULE ScheduleProofs ---------------------------
(***************************************************************************)
(* Proofs about what the clock sets off: Triggers for any number of loops, *)
(* rescans and manual runs, and Outbound for every number of ticks, undos  *)
(* and messages.                                                           *)
(***************************************************************************)
EXTENDS Triggers, Outbound, TLAPS

-----------------------------------------------------------------------------
(* Triggers and the schedule.                                              *)

(* Types.                                                                  *)

(* The moments, and what the clock may show. *)
LEMMA ClockMoments ==
  /\ MaxTrigClock \in Nat /\ Never \in Moments
  /\ \A n \in 0..MaxTrigClock : n \in Moments /\ n + 1 \in Moments /\ n \in Nat
BY TrigConstants DEF Moments, Never

(* A rule that was advanced or passed is a rule. *)
LEMMA NextRuleType ==
  ASSUME TrigTypeOK, NEW p \in TrigActors, NEW now \in 0..MaxTrigClock
  PROVE  Advanced(p, now) \in RuleRows /\ Passed(p, now) \in RuleRows
<1>1. trigPass[p].copy \in RuleRows
  BY DEF TrigTypeOK
<1>2. ComputeNext(trigPass[p].copy, now) \in Moments
  BY ClockMoments DEF ComputeNext
<1>. QED
  BY <1>1, <1>2 DEF Advanced, Passed, RuleRows

(* A rule has a date that is a moment. *)
LEMMA MirrorType == ASSUME NEW r \in RuleRows PROVE Mirror(r) \in Moments
BY ClockMoments DEF Mirror, RuleRows

(* What a pass writes is a rule. *)
LEMMA WritesType ==
  ASSUME TrigTypeOK, NEW p \in TrigActors, NEW rule \in RuleRows, PassWrites(p, rule)
  PROVE  trigRule' \in RuleRows /\ trigStale' \in BOOLEAN
<1>1. trigRule \in RuleRows
  BY DEF TrigTypeOK
<1>2. trigRule' \in RuleRows
  BY <1>1 DEF PassWrites, RuleRows
<1>. QED
  BY <1>2 DEF PassWrites

(* Marking a moment as run keeps the history well typed. *)
LEMMA MarkType ==
  ASSUME TrigTypeOK, NEW p \in TrigActors, MarkRun(p)
  PROVE  trigDone' \subseteq Moments /\ trigTwice' \in BOOLEAN
<1>1. trigPass[p].copy.next \in Moments
  BY DEF TrigTypeOK, RuleRows
<1>2. trigDone' \subseteq Moments
  BY <1>1 DEF MarkRun, TrigTypeOK
<1>3. trigTwice' \in BOOLEAN
  BY DEF MarkRun, TrigTypeOK
<1>. QED
  BY <1>2, <1>3

PassRows == [at : {"idle", "read", "working"}, copy : RuleRows,
             read : 0..MaxTrigClock, now : 0..MaxTrigClock]

(* Nothing in hand. *)
LEMMA IdleType == PassIdle \in PassRows
<1>1. NoRule \in RuleRows
  BY ClockMoments DEF NoRule, RuleRows
<1>2. 0 \in 0..MaxTrigClock
  BY TrigConstants
<1>. QED
  BY <1>1, <1>2 DEF PassIdle, PassRows

(* The initial state is well typed. *)
LEMMA TrigInitType == TrigInit => TrigTypeOK
<1>. SUFFICES ASSUME TrigInit PROVE TrigTypeOK
  OBVIOUS
<1>1. trigRule \in RuleRows
  BY TrigConstants DEF TrigInit, RuleRows, Moments
<1>2. trigDate \in Moments
  BY <1>1, MirrorType DEF TrigInit
<1>3. trigPass \in [TrigActors -> PassRows]
  BY IdleType DEF TrigInit
<1>4. trigClock \in 1..MaxTrigClock /\ trigEdits \in 0..MaxTrigEdits
      /\ trigFaults \in 0..MaxTrigFaults
  BY TrigConstants DEF TrigInit
<1>. QED
  BY <1>1, <1>2, <1>3, <1>4 DEF TrigTypeOK, TrigInit, PassRows

(* A step that fires, skips or fails for p keeps the types. *)
LEMMA FireType ==
  ASSUME TrigTypeOK, NEW p \in TrigActors, NEW rule \in RuleRows, NEW date \in Moments,
         PassWrites(p, rule), trigDate' = date,
         trigPass' = [trigPass EXCEPT ![p] = PassIdle],
         UNCHANGED <<trigClock, trigEdits, trigFaults>>,
         MarkRun(p) \/ UNCHANGED <<trigDone, trigTwice>>
  PROVE  TrigTypeOK'
<1>1. trigRule' \in RuleRows /\ trigStale' \in BOOLEAN
  BY WritesType
<1>2. trigPass' \in [TrigActors -> PassRows]
  BY IdleType DEF TrigTypeOK, PassRows
<1>3. trigDone' \subseteq Moments /\ trigTwice' \in BOOLEAN
  BY MarkType DEF TrigTypeOK
<1>. QED
  BY <1>1, <1>2, <1>3 DEF TrigTypeOK, PassRows

(* Every step keeps the types. *)
LEMMA TrigStepType == TrigTypeOK /\ [TrigNext]_trigVars => TrigTypeOK'
<1>. SUFFICES ASSUME TrigTypeOK, [TrigNext]_trigVars PROVE TrigTypeOK'
  OBVIOUS
<1>0. /\ trigPass \in [TrigActors -> PassRows] /\ trigRule \in RuleRows
      /\ trigClock \in 0..MaxTrigClock /\ trigDate \in Moments
  BY TrigConstants DEF TrigTypeOK, PassRows
<1>1. CASE TrigTime
  BY <1>1, TrigConstants DEF TrigTime, TrigTypeOK
<1>2. ASSUME NEW p \in TrigActors, PassRead(p) \/ RunNow(p) PROVE TrigTypeOK'
  <2>1. 0 \in 0..MaxTrigClock
    BY TrigConstants
  <2>2. trigPass' \in [TrigActors -> PassRows]
    BY <1>0, <1>2, <2>1 DEF PassRead, RunNow, PassRows
  <2>3. trigEdits' \in 0..MaxTrigEdits
    BY <1>2, TrigConstants DEF PassRead, RunNow, TrigTypeOK
  <2>. QED
    BY <1>2, <2>2, <2>3 DEF PassRead, RunNow, TrigTypeOK, PassRows
<1>3. ASSUME NEW p \in TrigActors, FireStart(p) PROVE TrigTypeOK'
  <2>1. trigPass' \in [TrigActors -> PassRows]
    BY <1>0, <1>3 DEF FireStart, PassRows
  <2>2. trigDate' \in Moments
    BY <1>0, <1>3, MirrorType DEF FireStart, PassRows
  <2>. QED
    BY <1>3, <2>1, <2>2 DEF FireStart, TrigTypeOK, PassRows
<1>4. ASSUME NEW p \in TrigActors, FireReminder(p) PROVE TrigTypeOK'
  <2>1. Advanced(p, trigClock) \in RuleRows
    BY <1>0, NextRuleType
  <2>. QED
    BY <1>4, <2>1, MirrorType, FireType DEF FireReminder
<1>5. ASSUME NEW p \in TrigActors, FireSkip(p) PROVE TrigTypeOK'
  <2>1. Passed(p, trigClock) \in RuleRows
    BY <1>0, NextRuleType
  <2>. QED
    BY <1>5, <2>1, MirrorType, FireType DEF FireSkip
<1>6. ASSUME NEW p \in TrigActors, FireEnd(p) PROVE TrigTypeOK'
  <2>1. Advanced(p, trigPass[p].now) \in RuleRows
    BY <1>0, NextRuleType DEF PassRows
  <2>2. DateAfter(p, Advanced(p, trigPass[p].now)) \in Moments
    BY <1>0, <2>1, MirrorType DEF DateAfter
  <2>. QED
    BY <1>6, <2>1, <2>2, FireType DEF FireEnd
<1>7. ASSUME NEW p \in TrigActors, FireFail(p) PROVE TrigTypeOK'
  <2>1. Passed(p, trigPass[p].read) \in RuleRows /\ Passed(p, trigPass[p].now) \in RuleRows
    BY <1>0, NextRuleType DEF PassRows
  <2>2. DateAfter(p, Passed(p, trigPass[p].now)) \in Moments
    BY <1>0, <2>1, MirrorType DEF DateAfter
  <2>. QED
    BY <1>7, <2>1, <2>2, FireType DEF FireFail
<1>8. ASSUME NEW p \in TrigActors, WakeDated(p) PROVE TrigTypeOK'
  BY <1>8, ClockMoments DEF WakeDated, TrigTypeOK
<1>9. ASSUME NEW r \in RuleRows, NEW date \in Moments, Edit(r, date) PROVE TrigTypeOK'
  BY <1>9, TrigConstants DEF Edit, TrigTypeOK
<1>10. CASE PauseRule \/ ResumeRule \/ ClearRule
  <2>1. Paused \in RuleRows /\ Resumed \in RuleRows
    BY <1>0, ClockMoments DEF Paused, Resumed, RuleRows
  <2>2. [trigRule EXCEPT !.enabled = FALSE, !.deleted = TRUE] \in RuleRows
    BY <1>0 DEF RuleRows
  <2>. QED
    BY <1>9, <1>10, <2>1, <2>2, MirrorType, ClockMoments
       DEF PauseRule, ResumeRule, ClearRule
<1>11. ASSUME NEW kind \in {"once", "interval"}, NEW at \in Moments, SetRule(kind, at)
       PROVE  TrigTypeOK'
  <2>1. [trigRule EXCEPT !.kind = kind, !.enabled = TRUE, !.next = at] \in RuleRows
    BY <1>0 DEF RuleRows
  <2>. QED
    BY <1>9, <1>11, <2>1, MirrorType DEF SetRule
<1>12. CASE TrigCrash
  <2>1. trigPass' \in [TrigActors -> PassRows]
    BY <1>12, IdleType DEF TrigCrash
  <2>. QED
    BY <1>12, <2>1, TrigConstants DEF TrigCrash, TrigTypeOK, PassRows
<1>13. CASE UNCHANGED trigVars
  BY <1>13 DEF trigVars, TrigTypeOK
<1>. QED
  BY <1>1, <1>2, <1>3, <1>4, <1>5, <1>6, <1>7, <1>8, <1>10, <1>11, <1>12, <1>13
     DEF TrigNext, TrigRun, TrigOther, TrigActors

(* The rule, the date and what the passes hold stay well typed.            *)
THEOREM TrigTypeCorrect == TrigSpec => []TrigTypeOK
<1>. QED
  BY TrigInitType, TrigStepType, PTL DEF TrigSpec

-----------------------------------------------------------------------------
(* What a pass has in hand was due when it read it, and time goes on.      *)
InHandOK(p) ==
  LET h == trigPass[p] IN
  /\ h.at # "idle" =>
       /\ h.copy.enabled /\ ~h.copy.deleted
       /\ h.copy.next # Never /\ h.copy.next <= h.read /\ h.read <= trigClock
  /\ h.at = "working" => h.read <= h.now /\ h.now <= trigClock

HandsOK == \A p \in TrigPasses : InHandOK(p)

(* Every step keeps it. *)
LEMMA HandsStep == TrigTypeOK /\ HandsOK /\ [TrigNext]_trigVars => HandsOK'
<1>. SUFFICES ASSUME TrigTypeOK, HandsOK, [TrigNext]_trigVars PROVE HandsOK'
  OBVIOUS
<1>0. /\ trigPass \in [TrigActors -> PassRows] /\ trigClock \in Nat
      /\ TrigPasses \subseteq TrigActors
      /\ \A x \in PassRows : x.read \in Nat /\ x.now \in Nat
  BY TrigConstants DEF TrigTypeOK, PassRows, TrigActors
<1>. USE DEF HandsOK, InHandOK
<1>1. CASE TrigTime
  BY <1>0, <1>1 DEF TrigTime, PassRows, RuleRows, Moments
<1>2. ASSUME NEW q \in TrigActors, PassRead(q) \/ RunNow(q) PROVE HandsOK'
  <2>1. \A p \in TrigActors : p # q => trigPass'[p] = trigPass[p]
    BY <1>0, <1>2 DEF PassRead, RunNow
  <2>2. q \in TrigPasses => InHandOK(q)'
    <3>1. q \in TrigPasses => PassRead(q)
      BY <1>2, TrigConstants DEF RunNow, TrigPasses
    <3>. QED
      BY <1>0, <3>1 DEF PassRead, IsDue
  <2>. QED
    BY <1>2, <2>1, <2>2 DEF PassRead, RunNow, TrigActors
<1>3. ASSUME NEW q \in TrigActors, FireStart(q) PROVE HandsOK'
  <2>1. \A p \in TrigActors : p # q => trigPass'[p] = trigPass[p]
    BY <1>0, <1>3 DEF FireStart
  <2>2. q \in TrigPasses => InHandOK(q)'
    BY <1>0, <1>3 DEF FireStart
  <2>. QED
    BY <1>3, <2>1, <2>2 DEF FireStart, TrigActors
<1>4. ASSUME NEW q \in TrigActors, trigPass' = [trigPass EXCEPT ![q] = PassIdle],
             UNCHANGED trigClock
      PROVE  HandsOK'
  BY <1>0, <1>4 DEF PassIdle, TrigActors
<1>5. ASSUME UNCHANGED <<trigPass, trigClock>> PROVE HandsOK'
  BY <1>5
<1>6. CASE TrigCrash
  BY <1>6 DEF TrigCrash, PassIdle, TrigActors
<1>. QED
  BY <1>1, <1>2, <1>3, <1>4, <1>5, <1>6
     DEF TrigNext, TrigRun, TrigOther, TrigActors, FireReminder, FireSkip, FireEnd, FireFail,
         WakeDated, PauseRule, ResumeRule, ClearRule, SetRule, Edit, trigVars

-----------------------------------------------------------------------------
(* As long as no pass wrote from a copy the row had left, no moment ran    *)
(* twice, and the next moment comes after all those that were run.         *)
Fresh(r) == r.enabled /\ r.next # Never => \A m \in trigDone : m < r.next

RunsOnce == ~trigStale => ~trigTwice /\ Fresh(trigRule)

(* A write that is not stale puts the new moment into the row it read. *)
LEMMA WritesIs ==
  ASSUME TrigTypeOK, NEW p \in TrigActors, NEW rule \in RuleRows, PassWrites(p, rule),
         ~trigStale'
  PROVE  /\ ~trigStale /\ trigRule = trigPass[p].copy
         /\ trigRule'.next = rule.next /\ trigRule'.enabled = rule.enabled
         /\ trigRule'.deleted = trigRule.deleted
<1>1. trigRule \in RuleRows /\ ~trigStale /\ trigRule = trigPass[p].copy
  BY DEF PassWrites, TrigTypeOK
<1>2. trigRule' = [trigRule EXCEPT
        !.next = IF rule.next # trigRule.next THEN rule.next ELSE @,
        !.enabled = IF rule.enabled # trigRule.enabled THEN rule.enabled ELSE @]
  BY <1>1 DEF PassWrites
<1>. QED
  BY <1>1, <1>2 DEF RuleRows

(* A pass that writes a moment after its own, or none, keeps RunsOnce. *)
LEMMA WriteRunsOnce ==
  ASSUME TrigTypeOK, HandsOK, RunsOnce, NEW p \in TrigActors, trigPass[p].at # "idle",
         NEW rule \in RuleRows, PassWrites(p, rule),
         MarkRun(p) \/ UNCHANGED <<trigDone, trigTwice>>,
         IsManual(p) => rule = trigPass[p].copy,
         ~IsManual(p) /\ rule.enabled =>
           rule.next = Never \/ rule.next > trigPass[p].copy.next
  PROVE  RunsOnce'
<1>. DEFINE copy == trigPass[p].copy
<1>. SUFFICES ASSUME ~trigStale' PROVE ~trigTwice' /\ Fresh(trigRule)'
  BY DEF RunsOnce
<1>1. /\ ~trigStale /\ trigRule = copy
      /\ trigRule'.next = rule.next /\ trigRule'.enabled = rule.enabled
  BY WritesIs
<1>2. ~trigTwice /\ Fresh(copy)
  BY <1>1 DEF RunsOnce
<1>3. trigDone \subseteq Nat /\ copy.next \in Nat /\ rule.next \in Nat
  BY TrigConstants DEF TrigTypeOK, RuleRows, Moments
<1>4. CASE IsManual(p)
  BY <1>1, <1>2, <1>4 DEF MarkRun, Fresh
<1>5. CASE ~IsManual(p)
  <2>1. copy.enabled /\ copy.next # Never
    BY <1>5 DEF HandsOK, InHandOK, IsManual, TrigActors
  <2>2. \A m \in trigDone : m < copy.next
    BY <1>2, <2>1 DEF Fresh
  <2>3. copy.next \notin trigDone
    BY <1>3, <2>2
  <2>4. ~trigTwice'
    BY <1>2, <1>5, <2>3 DEF MarkRun
  <2>5. trigDone' \subseteq trigDone \cup {copy.next}
    BY <1>5 DEF MarkRun
  <2>6. Fresh(trigRule)'
    BY <1>1, <1>3, <1>5, <2>2, <2>5 DEF Fresh
  <2>. QED
    BY <2>4, <2>6
<1>. QED
  BY <1>4, <1>5

(* The next moment of an advanced rule comes after the one it had. *)
LEMMA NextIsLater ==
  ASSUME TrigTypeOK, NEW p \in TrigActors, NEW now \in 0..MaxTrigClock,
         trigPass[p].copy.next <= now
  PROVE  \A rule \in {Advanced(p, now), Passed(p, now)} :
           /\ IsManual(p) => rule = trigPass[p].copy
           /\ ~IsManual(p) /\ rule.enabled =>
                rule.next = Never \/ rule.next > trigPass[p].copy.next
<1>1. trigPass[p].copy \in RuleRows /\ trigPass[p].copy.next \in Nat /\ now \in Nat
  BY TrigConstants DEF TrigTypeOK, RuleRows, Moments
<1>2. ComputeNext(trigPass[p].copy, now) \in {Never, now + 1}
  BY DEF ComputeNext
<1>3. CASE IsManual(p)
  BY <1>3 DEF Advanced, Passed
<1>4. CASE ~IsManual(p)
  <2>1. \A rule \in {Advanced(p, now), Passed(p, now)} :
          rule.next = ComputeNext(trigPass[p].copy, now)
    BY <1>1, <1>4 DEF Advanced, Passed, RuleRows
  <2>. QED
    BY <1>1, <1>2, <1>4, <2>1
<1>. QED
  BY <1>3, <1>4

(* Every step keeps RunsOnce. *)
LEMMA RunsOnceStep ==
  TrigTypeOK /\ HandsOK /\ RunsOnce /\ [TrigNext]_trigVars => RunsOnce'
<1>. SUFFICES ASSUME TrigTypeOK, HandsOK, RunsOnce, [TrigNext]_trigVars PROVE RunsOnce'
  OBVIOUS
<1>0. /\ trigPass \in [TrigActors -> PassRows] /\ trigClock \in 0..MaxTrigClock
      /\ trigRule \in RuleRows
  BY TrigConstants DEF TrigTypeOK, PassRows
<1>1. ASSUME NEW p \in TrigActors, FireStart(p) PROVE RunsOnce'
  BY <1>1 DEF FireStart, RunsOnce, Fresh
<1>2. ASSUME NEW p \in TrigActors, NEW now \in 0..MaxTrigClock,
             trigPass[p].at # "idle", ~IsManual(p) => trigPass[p].copy.next <= now,
             \/ PassWrites(p, Advanced(p, now))
             \/ PassWrites(p, Passed(p, now)),
             MarkRun(p) \/ UNCHANGED <<trigDone, trigTwice>>
      PROVE  RunsOnce'
  <2>1. Advanced(p, now) \in RuleRows /\ Passed(p, now) \in RuleRows
    BY NextRuleType
  <2>2. CASE IsManual(p)
    <3>1. Advanced(p, now) = trigPass[p].copy /\ Passed(p, now) = trigPass[p].copy
      BY <2>2 DEF Advanced, Passed
    <3>. QED
      BY <1>2, <2>1, <2>2, <3>1, WriteRunsOnce
  <2>3. CASE ~IsManual(p)
    BY <1>2, <2>1, <2>3, WriteRunsOnce, NextIsLater
  <2>. QED
    BY <2>2, <2>3
<1>3. \A p \in TrigActors :
        trigPass[p].at # "idle" /\ ~IsManual(p) =>
          /\ trigPass[p].copy.next <= trigPass[p].read
          /\ trigPass[p].copy.next <= trigClock
          /\ trigPass[p].at = "working" => trigPass[p].copy.next <= trigPass[p].now
  <2>1. \A x \in PassRows : x.read \in Nat /\ x.now \in Nat /\ x.copy.next \in Nat
    BY TrigConstants DEF PassRows, RuleRows, Moments
  <2>2. trigClock \in Nat
    BY <1>0
  <2>. QED
    BY <1>0, <2>1, <2>2 DEF HandsOK, InHandOK, IsManual, TrigActors
<1>4. ASSUME NEW p \in TrigActors, FireReminder(p) \/ FireSkip(p) PROVE RunsOnce'
  BY <1>0, <1>2, <1>3, <1>4 DEF FireReminder, FireSkip
<1>5. ASSUME NEW p \in TrigActors, FireEnd(p) PROVE RunsOnce'
  BY <1>0, <1>2, <1>3, <1>5 DEF FireEnd, PassRows
<1>6. ASSUME NEW p \in TrigActors, FireFail(p) PROVE RunsOnce'
  BY <1>0, <1>2, <1>3, <1>6 DEF FireFail, PassRows
<1>7. ASSUME NEW r, NEW date, Edit(r, date) PROVE RunsOnce'
  BY <1>7 DEF Edit, RunsOnce, Fresh
<1>8. ASSUME UNCHANGED <<trigRule, trigDone, trigTwice, trigStale>> PROVE RunsOnce'
  BY <1>8 DEF RunsOnce, Fresh
<1>. QED
  BY <1>1, <1>4, <1>5, <1>6, <1>7, <1>8
     DEF TrigNext, TrigRun, TrigOther, PauseRule, ResumeRule, ClearRule, SetRule, TrigTime,
         PassRead, RunNow, WakeDated, TrigCrash, trigVars

(* A moment runs twice only after a pass wrote from a copy the row had     *)
(* left: failures, slow runs, manual runs and crashes alone do not do it.  *)
THEOREM MomentRunsOnce == TrigSpec => []MomentOnce
<1>1. TrigInit => HandsOK
  BY DEF TrigInit, HandsOK, InHandOK, PassIdle, TrigActors
<1>2. TrigInit => RunsOnce
  BY DEF TrigInit, RunsOnce, Fresh
<1>3. RunsOnce => MomentOnce
  BY DEF RunsOnce, MomentOnce
<1>. QED
  BY <1>1, <1>2, <1>3, TrigInitType, TrigStepType, HandsStep, RunsOnceStep, PTL DEF TrigSpec

-----------------------------------------------------------------------------
(* As long as no pass wrote from a copy the row had left, a removed rule   *)
(* is disabled, and the thread shows a date only if its rule has one.      *)
DateOK(rule, date) ==
  /\ rule.deleted => ~rule.enabled
  /\ date # Never => rule.enabled /\ ~rule.deleted /\ rule.next # Never

DatesAgree == ~trigStale => DateOK(trigRule, trigDate)

(* The date of a rule that is not removed agrees with it. *)
LEMMA MirrorOK ==
  ASSUME NEW r, r.deleted => ~r.enabled
  PROVE  DateOK(r, Mirror(r))
BY DEF DateOK, Mirror

(* DateOK speaks of three fields of a rule. *)
LEMMA DateOKSame ==
  ASSUME NEW r, NEW q, NEW date, DateOK(q, date), r.next = q.next,
         r.enabled = q.enabled, r.deleted = q.deleted
  PROVE  DateOK(r, date)
BY DEF DateOK

(* What a pass writes may only disable a rule. *)
LEMMA AdvancedIs ==
  ASSUME TrigTypeOK, NEW p \in TrigActors, NEW now \in 0..MaxTrigClock
  PROVE  /\ \A rule \in {Advanced(p, now), Passed(p, now)} :
              /\ rule.enabled => trigPass[p].copy.enabled
              /\ rule.deleted = trigPass[p].copy.deleted
<1>1. trigPass[p].copy \in RuleRows
  BY DEF TrigTypeOK
<1>. QED
  BY <1>1 DEF Advanced, Passed, RuleRows

(* A pass that writes a rule, and the date of one that has a date when it  *)
(* has, keeps DatesAgree.                                                  *)
LEMMA WriteDates ==
  ASSUME TrigTypeOK, DatesAgree, NEW p \in TrigActors, NEW rule \in RuleRows,
         NEW seen \in RuleRows, PassWrites(p, rule),
         rule.enabled => trigPass[p].copy.enabled,
         rule.deleted = trigPass[p].copy.deleted,
         (Mirror(seen) = Never) <=> (Mirror(rule) = Never),
         trigDate' = Mirror(seen) \/ trigDate' = DateAfter(p, seen)
  PROVE  DatesAgree'
<1>. SUFFICES ASSUME ~trigStale' PROVE DateOK(trigRule, trigDate)'
  BY DEF DatesAgree
<1>1. /\ ~trigStale /\ trigRule = trigPass[p].copy
      /\ trigRule'.next = rule.next /\ trigRule'.enabled = rule.enabled
      /\ trigRule'.deleted = rule.deleted
  BY WritesIs
<1>2. DateOK(trigRule, trigDate)
  BY <1>1 DEF DatesAgree
<1>3. rule.deleted => ~rule.enabled
  BY <1>1, <1>2 DEF DateOK
<1>4. trigDate' # Never => Mirror(rule) # Never
  <2>1. CASE trigDate' = Mirror(seen)
    BY <2>1
  <2>2. CASE trigDate' = trigDate /\ Mirror(seen) = Mirror(trigRule)
    BY <1>1, <1>2, <2>2 DEF DateOK, Mirror
  <2>. QED
    BY <1>1, <2>1, <2>2 DEF DateAfter
<1>5. DateOK(rule, trigDate')
  BY <1>3, <1>4 DEF DateOK, Mirror
<1>. QED
  BY <1>1, <1>5, DateOKSame

(* The rule that follows a failed run has a date, whatever the time. *)
LEMMA PassedDates ==
  ASSUME TrigTypeOK, NEW p \in TrigActors, NEW now \in 0..MaxTrigClock,
         NEW then \in 0..MaxTrigClock
  PROVE  (Mirror(Passed(p, now)) = Never) <=> (Mirror(Passed(p, then)) = Never)
<1>1. trigPass[p].copy \in RuleRows /\ now \in Nat /\ then \in Nat
  BY TrigConstants DEF TrigTypeOK
<1>2. CASE IsManual(p)
  BY <1>2 DEF Passed
<1>3. CASE ~IsManual(p)
  <2>1. \A t \in {now, then} :
          /\ Passed(p, t).next = ComputeNext(trigPass[p].copy, t)
          /\ Passed(p, t).enabled = trigPass[p].copy.enabled
    BY <1>1, <1>3 DEF Passed, RuleRows
  <2>. QED
    BY <1>1, <2>1 DEF Mirror, ComputeNext, Never
<1>. QED
  BY <1>2, <1>3

(* Every step keeps DatesAgree. *)
LEMMA DatesStep == TrigTypeOK /\ DatesAgree /\ [TrigNext]_trigVars => DatesAgree'
<1>. SUFFICES ASSUME TrigTypeOK, DatesAgree, [TrigNext]_trigVars PROVE DatesAgree'
  OBVIOUS
<1>0. /\ trigPass \in [TrigActors -> PassRows] /\ trigClock \in 0..MaxTrigClock
      /\ trigRule \in RuleRows
  BY TrigConstants DEF TrigTypeOK, PassRows
<1>1. ASSUME NEW p \in TrigActors, FireStart(p) PROVE DatesAgree'
  <2>. SUFFICES ASSUME ~trigStale' PROVE DateOK(trigRule, trigDate)'
    BY DEF DatesAgree
  <2>1. ~trigStale /\ trigRule' = trigRule /\ trigDate' = Mirror(trigRule)
    BY <1>1 DEF FireStart
  <2>. QED
    BY <2>1, MirrorOK DEF DatesAgree, DateOK
<1>2. ASSUME NEW p \in TrigActors, FireReminder(p) \/ FireSkip(p) PROVE DatesAgree'
  BY <1>0, <1>2, NextRuleType, AdvancedIs, WriteDates DEF FireReminder, FireSkip
<1>3. ASSUME NEW p \in TrigActors, FireEnd(p) PROVE DatesAgree'
  BY <1>0, <1>3, NextRuleType, AdvancedIs, WriteDates DEF FireEnd, PassRows
<1>4. ASSUME NEW p \in TrigActors, FireFail(p) PROVE DatesAgree'
  <2>1. trigPass[p].now \in 0..MaxTrigClock /\ trigPass[p].read \in 0..MaxTrigClock
    BY <1>0 DEF PassRows
  <2>. QED
    BY <1>4, <2>1, NextRuleType, AdvancedIs, PassedDates, WriteDates DEF FireFail
<1>5. ASSUME NEW p \in TrigActors, WakeDated(p) PROVE DatesAgree'
  BY <1>5 DEF WakeDated, DatesAgree, DateOK
<1>6. CASE PauseRule
  BY <1>0, <1>6 DEF PauseRule, Edit, Paused, Mirror, DatesAgree, DateOK, RuleRows
<1>7. CASE ResumeRule
  <2>1. trigRule' = Resumed /\ trigDate' = Mirror(Resumed) /\ ~trigRule.deleted
    BY <1>7 DEF ResumeRule, Edit
  <2>2. Resumed.deleted = trigRule.deleted
    BY <1>0 DEF Resumed, RuleRows
  <2>. QED
    BY <2>1, <2>2, MirrorOK DEF DatesAgree
<1>8. ASSUME NEW kind \in {"once", "interval"}, NEW at \in Moments, SetRule(kind, at)
      PROVE  DatesAgree'
  <2>1. trigDate' = Mirror(trigRule)' /\ ~trigRule'.deleted
    BY <1>0, <1>8 DEF SetRule, Edit, RuleRows
  <2>. QED
    BY <2>1, MirrorOK DEF DatesAgree
<1>9. CASE ClearRule
  BY <1>0, <1>9 DEF ClearRule, Edit, DatesAgree, DateOK, RuleRows
<1>10. ASSUME UNCHANGED <<trigRule, trigDate, trigStale>> PROVE DatesAgree'
  BY <1>10 DEF DatesAgree
<1>. QED
  BY <1>1, <1>2, <1>3, <1>4, <1>5, <1>6, <1>7, <1>8, <1>9, <1>10
     DEF TrigNext, TrigRun, TrigOther, TrigTime, PassRead, RunNow, TrigCrash, trigVars

(* A paused or removed rule leaves no date on its thread, which would      *)
(* bring it back as a plain date, unless a pass wrote an older copy.       *)
THEOREM DateNeedsRule == TrigSpec => []DateHasRule
<1>1. TrigInit => DatesAgree
  <2>. SUFFICES ASSUME TrigInit PROVE DateOK(trigRule, trigDate)
    BY DEF DatesAgree
  <2>. QED
    BY MirrorOK DEF TrigInit
<1>2. DatesAgree => DateHasRule
  BY DEF DatesAgree, DateOK, DateHasRule, HasRule
<1>. QED
  BY <1>1, <1>2, TrigInitType, TrigStepType, DatesStep, PTL DEF TrigSpec

-----------------------------------------------------------------------------
(* Scheduled sends.                                                        *)

(* The initial state is well typed. *)
LEMMA OutInitType == OutInit => OutTypeOK
<1>. SUFFICES ASSUME OutInit PROVE OutTypeOK
  OBVIOUS
<1>. USE OutConstants DEF OutInit, Messages
<1>1. outTick \in [OutTicks -> [at : {"idle", "next", "tried"}, todo : SUBSET Messages,
                               result : {"none", "sent", "failed"}]]
  BY DEF TickIdle
<1>2. outUndo \in [OutUndos -> 0..MaxOut] /\ outNow \in 0..MaxOut
  BY DEF Nothing
<1>3. outFaults \in 0..MaxOutFaults
  OBVIOUS
<1>4. outRow \in [Messages -> {"none", "scheduled", "sent", "failed", "gone"}]
  OBVIOUS
<1>. QED
  BY <1>1, <1>2, <1>3, <1>4 DEF OutTypeOK

(* Every step keeps the types. *)
LEMMA OutStepType == OutTypeOK /\ [OutNext]_outVars => OutTypeOK'
<1>. SUFFICES ASSUME OutTypeOK, [OutNext]_outVars PROVE OutTypeOK'
  OBVIOUS
<1>. USE OutConstants DEF OutTypeOK, outHistory, Messages
<1>1. ASSUME NEW m \in Messages, OutSchedule(m) PROVE OutTypeOK'
  BY <1>1 DEF OutSchedule
<1>2. CASE OutClock
  BY <1>2 DEF OutClock
<1>3. ASSUME NEW k \in OutTicks, OutRead(k) PROVE OutTypeOK'
  BY <1>3 DEF OutRead, Batch, Due
<1>4. ASSUME NEW k \in OutTicks, OutDone(k) PROVE OutTypeOK'
  BY <1>4 DEF OutDone, TickIdle
<1>5. ASSUME NEW k \in OutTicks, NEW m \in Messages, OutWrite(k, m) PROVE OutTypeOK'
  BY <1>5 DEF OutWrite, TickIdle
<1>6. ASSUME NEW k \in OutTicks, NEW m \in Messages, NEW result \in {"sent", "failed"},
             OutDeliver(k, m, result)
      PROVE  OutTypeOK'
  BY <1>6 DEF OutDeliver
<1>7. ASSUME NEW u \in OutUndos, UndoDelete(u) PROVE OutTypeOK'
  <2>1. outUndo[u] \in Messages
    BY <1>7 DEF UndoDelete, Nothing
  <2>2. outRow' \in [Messages -> {"none", "scheduled", "sent", "failed", "gone"}]
    BY <1>7 DEF UndoDelete
  <2>3. outUndo' \in [OutUndos -> 0..MaxOut]
    BY <1>7 DEF UndoDelete, Nothing
  <2>4. outUndone' \subseteq Messages /\ outLate' \subseteq Messages
    BY <1>7, <2>1 DEF UndoDelete
  <2>. QED
    BY <1>7, <2>2, <2>3, <2>4 DEF UndoDelete
<1>8. ASSUME NEW u \in OutUndos, NEW m \in Messages, UndoRead(u, m) PROVE OutTypeOK'
  BY <1>8 DEF UndoRead
<1>9. CASE OutCrash
  BY <1>9 DEF OutCrash, TickIdle, Nothing
<1>10. CASE UNCHANGED outVars
  BY <1>10 DEF outVars
<1>. QED
  BY <1>1, <1>2, <1>3, <1>4, <1>5, <1>6, <1>7, <1>8, <1>9, <1>10
     DEF OutNext, OutRun, OutOther

(* The state of scheduled replies stays well typed, whatever ticks, undos  *)
(* and crashes do.                                                         *)
THEOREM OutTypeCorrect == OutSpec => []OutTypeOK
<1>. QED
  BY OutInitType, OutStepType, PTL DEF OutSpec

-----------------------------------------------------------------------------
(* A message that was undone is gone for good, and unless it was late it   *)
(* is on nobody's list and was not sent.                                   *)
UndoneIsGone ==
  \A m \in outUndone :
    /\ outRow[m] = "gone"
    /\ m \in outLate \/ (m \notin outSent /\ \A k \in OutTicks : m \notin outTick[k].todo)

(* Every step keeps UndoneIsGone. *)
LEMMA UndoneStep == OutTypeOK /\ UndoneIsGone /\ [OutNext]_outVars => UndoneIsGone'
<1>. SUFFICES ASSUME OutTypeOK, UndoneIsGone, [OutNext]_outVars PROVE UndoneIsGone'
  OBVIOUS
<1>. USE OutConstants DEF OutTypeOK, UndoneIsGone, outHistory, Messages
<1>1. ASSUME NEW m \in Messages, OutSchedule(m) PROVE UndoneIsGone'
  BY <1>1 DEF OutSchedule
<1>2. CASE OutClock
  BY <1>2 DEF OutClock
<1>3. ASSUME NEW k \in OutTicks, OutRead(k) PROVE UndoneIsGone'
  BY <1>3 DEF OutRead, Batch, Due
<1>4. ASSUME NEW k \in OutTicks, OutDone(k) PROVE UndoneIsGone'
  BY <1>4 DEF OutDone, TickIdle
<1>5. ASSUME NEW k \in OutTicks, NEW m \in Messages, OutWrite(k, m) PROVE UndoneIsGone'
  <2>1. \A l \in Messages : outRow[l] = "gone" => outRow'[l] = "gone"
    BY <1>5 DEF OutWrite
  <2>2. \A j \in OutTicks : outTick'[j].todo \subseteq outTick[j].todo
    <3>. DEFINE rest == [at |-> "next", todo |-> outTick[k].todo \ {m}, result |-> "none"]
    <3>1. outTick' = [outTick EXCEPT ![k] = TickIdle] \/ outTick' = [outTick EXCEPT ![k] = rest]
      BY <1>5 DEF OutWrite
    <3>2. TickIdle.todo = {} /\ rest.todo \subseteq outTick[k].todo
      BY DEF TickIdle
    <3>. HIDE DEF rest
    <3>3. \A j \in OutTicks : j # k => outTick'[j] = outTick[j]
      BY <3>1 DEF OutTypeOK
    <3>4. outTick'[k] = TickIdle \/ outTick'[k] = rest
      BY <3>1 DEF OutTypeOK
    <3>. QED
      BY <3>2, <3>3, <3>4
  <2>3. UNCHANGED <<outUndone, outLate, outSent>>
    BY <1>5 DEF OutWrite
  <2>. QED
    BY <2>1, <2>2, <2>3
<1>6. ASSUME NEW k \in OutTicks, NEW m \in Messages, NEW result \in {"sent", "failed"},
             OutDeliver(k, m, result)
      PROVE  UndoneIsGone'
  BY <1>6 DEF OutDeliver, IsInHand
<1>7. ASSUME NEW u \in OutUndos, UndoDelete(u) PROVE UndoneIsGone'
  BY <1>7 DEF UndoDelete, Nothing
<1>8. ASSUME NEW u \in OutUndos, NEW m \in Messages, UndoRead(u, m) PROVE UndoneIsGone'
  BY <1>8 DEF UndoRead
<1>9. CASE OutCrash
  BY <1>9 DEF OutCrash, TickIdle
<1>10. CASE UNCHANGED outVars
  BY <1>10 DEF outVars
<1>. QED
  BY <1>1, <1>2, <1>3, <1>4, <1>5, <1>6, <1>7, <1>8, <1>9, <1>10
     DEF OutNext, OutRun, OutOther

(* An undo that came before any tick had its message holds: the message is *)
(* never sent, however ticks overlap, break off and die.                   *)
THEOREM UndoIsFinal == OutSpec => []UndoHolds
<1>1. OutInit => UndoneIsGone
  BY DEF OutInit, UndoneIsGone
<1>2. UndoneIsGone => UndoHolds
  BY DEF UndoneIsGone, UndoHolds
<1>. QED
  BY <1>1, <1>2, OutInitType, OutStepType, UndoneStep, PTL DEF OutSpec

-----------------------------------------------------------------------------
(* While ticks do not overlap and nobody is killed between a delivery and  *)
(* its write, one tick is active, and a message that was sent is recorded  *)
(* and on nobody's list, or is just being recorded.                        *)
IsActive(k) == outTick[k].at # "idle"

IsRecorded(m) ==
  outRow[m] \in {"sent", "gone"} /\ \A k \in OutTicks : m \notin outTick[k].todo

IsRecording(k, m) ==
  outTick[k].at = "tried" /\ outTick[k].result = "sent" /\ IsInHand(k, m)

IsIdleEmpty == \A k \in OutTicks : ~IsActive(k) => outTick[k].todo = {}
IsAlone     == \A j, k \in OutTicks : IsActive(j) /\ IsActive(k) => j = k
IsKnown     == \A m \in outSent : IsRecorded(m) \/ \E k \in OutTicks : IsRecording(k, m)

SentIsKnown ==
  IsIdleEmpty /\ (~outOverlap /\ ~outCut => outAgain = {} /\ IsAlone /\ IsKnown)

(* Every step keeps SentIsKnown. *)
LEMMA SentStep == OutTypeOK /\ SentIsKnown /\ [OutNext]_outVars => SentIsKnown'
<1>. SUFFICES ASSUME OutTypeOK, SentIsKnown, [OutNext]_outVars PROVE SentIsKnown'
  OBVIOUS
<1>. DEFINE Calm == ~outOverlap /\ ~outCut
<1>0. /\ IsIdleEmpty
      /\ Calm => outAgain = {} /\ IsAlone /\ IsKnown
      /\ outTick \in [OutTicks -> [at : {"idle", "next", "tried"}, todo : SUBSET Messages,
                                   result : {"none", "sent", "failed"}]]
      /\ outSent \subseteq Messages
      /\ outRow \in [Messages -> {"none", "scheduled", "sent", "failed", "gone"}]
  BY DEF SentIsKnown, OutTypeOK
<1>. USE <1>0 DEF SentIsKnown, IsIdleEmpty, IsAlone, IsKnown, IsActive, outHistory
<1>1. ASSUME NEW m \in Messages, OutSchedule(m) PROVE SentIsKnown'
  BY <1>1 DEF OutSchedule, IsRecorded, IsRecording, IsInHand
<1>2. CASE OutClock
  BY <1>2 DEF OutClock, IsRecorded, IsRecording, IsInHand
<1>3. ASSUME NEW k \in OutTicks, OutRead(k) PROVE SentIsKnown'
  <2>1. \A j \in OutTicks : j # k => outTick'[j] = outTick[j]
    BY <1>3 DEF OutRead
  <2>2. IsActive(k)' /\ outTick'[k].todo \subseteq {m \in Messages : outRow[m] = "scheduled"}
    BY <1>3 DEF OutRead, Batch, Due
  <2>3. Calm' => Calm /\ \A j \in OutTicks : ~IsActive(j)
    BY <1>3 DEF OutRead
  <2>4. Calm' => IsKnown'
    BY <1>3, <2>1, <2>2, <2>3 DEF OutRead, IsRecorded, IsRecording
  <2>. QED
    BY <1>3, <2>1, <2>2, <2>3, <2>4 DEF OutRead
<1>4. ASSUME NEW k \in OutTicks, OutDone(k) PROVE SentIsKnown'
  <2>1. /\ outTick'[k] = TickIdle /\ outTick[k].todo = {}
        /\ \A j \in OutTicks : j # k => outTick'[j] = outTick[j]
    BY <1>4 DEF OutDone
  <2>2. Calm' => IsKnown'
    BY <1>4, <2>1 DEF OutDone, IsRecorded, IsRecording, IsInHand, TickIdle
  <2>. QED
    BY <1>4, <2>1, <2>2 DEF OutDone, TickIdle
<1>5. ASSUME NEW k \in OutTicks, NEW m \in Messages, OutWrite(k, m) PROVE SentIsKnown'
  <2>1. /\ outTick[k].at = "tried" /\ IsInHand(k, m)
        /\ \A j \in OutTicks : j # k => outTick'[j] = outTick[j]
        /\ outTick'[k].at # "tried"
        /\ outTick'[k].todo = {} \/ outTick'[k].todo = outTick[k].todo \ {m}
        /\ outTick'[k].at = "idle" => outTick'[k].todo = {}
        /\ UNCHANGED <<outSent, outAgain, outOverlap, outCut>>
    BY <1>5 DEF OutWrite, TickIdle
  <2>2. \A l \in Messages : l # m => outRow'[l] = outRow[l]
    BY <1>5 DEF OutWrite
  <2>3. outRow'[m] = "gone" \/ outRow'[m] = outTick[k].result
    BY <1>5 DEF OutWrite
  <2>4. ASSUME Calm, NEW l \in outSent
        PROVE  IsRecorded(l)' \/ \E j \in OutTicks : IsRecording(j, l)'
    <3>1. \A j \in OutTicks : j # k => ~IsActive(j) /\ outTick[j].todo = {}
      BY <2>1, <2>4
    <3>2. CASE l = m
      <4>1. IsRecording(k, m)
        BY <2>1, <2>4, <3>1, <3>2 DEF IsRecorded, IsRecording, IsInHand
      <4>2. outRow'[m] \in {"sent", "gone"}
        BY <2>3, <4>1 DEF IsRecording
      <4>3. \A j \in OutTicks : m \notin outTick'[j].todo
        BY <2>1, <3>1
      <4>. QED
        BY <3>2, <4>2, <4>3 DEF IsRecorded
    <3>3. CASE l # m
      <4>1. IsRecorded(l)
        <5>1. l \in Nat /\ m \in Nat
          BY <2>4, OutConstants DEF Messages
        <5>. QED
          BY <2>1, <2>4, <3>1, <3>3, <5>1 DEF IsRecording, IsInHand
      <4>2. outRow'[l] \in {"sent", "gone"}
        BY <2>2, <3>3, <4>1 DEF IsRecorded
      <4>3. \A j \in OutTicks : l \notin outTick'[j].todo
        BY <2>1, <4>1 DEF IsRecorded
      <4>. QED
        BY <4>2, <4>3 DEF IsRecorded
    <3>. QED
      BY <3>2, <3>3
  <2>5. Calm' => IsKnown'
    BY <2>1, <2>4
  <2>. QED
    BY <2>1, <2>5
<1>6. ASSUME NEW k \in OutTicks, NEW m \in Messages, NEW result \in {"sent", "failed"},
             OutDeliver(k, m, result)
      PROVE  SentIsKnown'
  <2>1. /\ outTick[k].at = "next" /\ IsInHand(k, m)
        /\ \A j \in OutTicks : j # k => outTick'[j] = outTick[j]
        /\ outTick'[k].at = "tried" /\ outTick'[k].result = result
        /\ outTick'[k].todo = outTick[k].todo
        /\ UNCHANGED <<outRow, outOverlap, outCut>>
    BY <1>6 DEF OutDeliver
  <2>2. Calm => m \notin outSent
    BY <2>1 DEF IsRecorded, IsRecording, IsInHand
  <2>3. Calm => outAgain' = {}
    BY <1>6, <2>2 DEF OutDeliver
  <2>4. result = "sent" => IsRecording(k, m)'
    BY <2>1 DEF IsRecording, IsInHand
  <2>5. ASSUME NEW l \in outSent, Calm PROVE IsRecorded(l)'
    BY <2>1, <2>5 DEF IsRecorded, IsRecording
  <2>6. outSent' \subseteq outSent \cup {m} /\ (result = "failed" => outSent' = outSent)
    BY <1>6 DEF OutDeliver
  <2>7. Calm' => IsKnown'
    BY <2>1, <2>4, <2>5, <2>6
  <2>. QED
    BY <2>1, <2>3, <2>7
<1>7. ASSUME NEW u \in OutUndos, UndoDelete(u) PROVE SentIsKnown'
  <2>1. \A m \in Messages : outRow'[m] \in {outRow[m], "gone"}
    BY <1>7 DEF UndoDelete
  <2>. QED
    BY <1>7, <2>1 DEF UndoDelete, IsRecorded, IsRecording, IsInHand
<1>8. ASSUME NEW u \in OutUndos, NEW m \in Messages, UndoRead(u, m) PROVE SentIsKnown'
  BY <1>8 DEF UndoRead, IsRecorded, IsRecording, IsInHand
<1>9. CASE OutCrash
  <2>1. Calm' => Calm /\ \A k \in OutTicks : outTick[k].at # "tried"
    BY <1>9 DEF OutCrash
  <2>. QED
    BY <1>9, <2>1 DEF OutCrash, TickIdle, IsRecorded, IsRecording
<1>10. CASE UNCHANGED outVars
  BY <1>10 DEF outVars, IsRecorded, IsRecording, IsInHand
<1>. QED
  BY <1>1, <1>2, <1>3, <1>4, <1>5, <1>6, <1>7, <1>8, <1>9, <1>10
     DEF OutNext, OutRun, OutOther

(* A scheduled reply goes out twice only after two ticks overlapped or a   *)
(* process was killed between a delivery and its write.                    *)
THEOREM SentOnceOnly == OutSpec => []SentOnce
<1>1. OutInit => SentIsKnown
  BY DEF OutInit, SentIsKnown, IsIdleEmpty, IsAlone, IsKnown, IsActive, TickIdle
<1>2. SentIsKnown => SentOnce
  BY DEF SentIsKnown, SentOnce
<1>. QED
  BY <1>1, <1>2, OutInitType, OutStepType, SentStep, PTL DEF OutSpec
=============================================================================
