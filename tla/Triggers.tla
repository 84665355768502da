------------------------------ MODULE Triggers ------------------------------
(***************************************************************************)
(* The schedule of one thread: its rule (services/triggers.py), the date   *)
(* the thread shows and the requests that change them                      *)
(* (services/thread_schedule.py), and the loop of                          *)
(* services/trigger_scheduler.py.                                          *)
(*                                                                         *)
(* A pass reads the due rules in one go and fires them one by one.  It     *)
(* keeps the row it read while the agent works, and writes the next moment *)
(* at the end, from that copy.  Nothing claims a rule, so two passes may   *)
(* fire the same moment, and a killed process leaves the rule due.         *)
(*                                                                         *)
(* Abstractions: the interval is one unit of time, and cron counts as an   *)
(* interval; a rule that was removed stays removed (a new one is another   *)
(* row); check-ups, recurring tickets, canvases and flows fire elsewhere;  *)
(* an exception is one of the agent's run.                                 *)
(***************************************************************************)
EXTENDS Naturals

CONSTANTS
  TrigLoops,       \* trigger_scheduler_loop, one for each process
  TrigRescans,     \* force_rescan requests
  TrigManuals,     \* run_thread_schedule requests (Run now)
  MaxTrigClock,    \* bound: moments
  MaxTrigEdits,    \* bound: changes by people
  MaxTrigFaults    \* bound: killed processes

ASSUME TrigConstants ==
  /\ TrigManuals \cap (TrigLoops \cup TrigRescans) = {}
  /\ MaxTrigClock \in Nat \ {0}
  /\ {MaxTrigEdits, MaxTrigFaults} \subseteq Nat

VARIABLES
  trigClock,
  trigRule,     \* the row of triggers
  trigDate,     \* signal.next_at
  trigPass,     \* what each pass or request does, with the copy it read
  trigEdits,
  trigFaults,
  trigDone,     \* history: moments run since people last set the rule
  trigTwice,    \* history: one of them ran again
  trigStale     \* history: a pass wrote from a copy the row had left

trigVars == <<trigClock, trigRule, trigDate, trigPass, trigEdits, trigFaults,
              trigDone, trigTwice, trigStale>>

Never      == 0
Moments    == 0..(MaxTrigClock + 1)
TrigPasses == TrigLoops \cup TrigRescans
TrigActors == TrigPasses \cup TrigManuals
RuleRows   == [kind : {"once", "interval"}, enabled : BOOLEAN, deleted : BOOLEAN,
               next : Moments]
NoRule     == [kind |-> "once", enabled |-> FALSE, deleted |-> TRUE, next |-> Never]
PassIdle   == [at |-> "idle", copy |-> NoRule, read |-> 0, now |-> 0]

TrigTypeOK ==
  /\ trigClock \in 1..MaxTrigClock
  /\ trigRule \in RuleRows
  /\ trigDate \in Moments
  /\ trigPass \in [TrigActors -> [at : {"idle", "read", "working"}, copy : RuleRows,
                                  read : 0..MaxTrigClock, now : 0..MaxTrigClock]]
  /\ trigEdits \in 0..MaxTrigEdits
  /\ trigFaults \in 0..MaxTrigFaults
  /\ trigDone \subseteq Moments
  /\ trigTwice \in BOOLEAN /\ trigStale \in BOOLEAN

(* mirror_next_at: the rule owns the date of its thread.                   *)
Mirror(rule) == IF rule.enabled THEN rule.next ELSE Never

(* Slip: the interval is added twice.                                      *)
ComputeAfterNext(rule, now) ==
  IF rule.enabled /\ rule.kind = "interval" THEN now + 2 ELSE Never

(* compute_next_run: a once rule has no other moment.                      *)
ComputeNext(rule, now) ==
  IF rule.enabled /\ rule.kind = "interval" THEN now + 1 ELSE Never

TrigInit ==
  /\ trigClock = 1
  /\ \E kind \in {"once", "interval"} :
       trigRule = [kind |-> kind, enabled |-> TRUE, deleted |-> FALSE, next |-> 2]
  /\ trigDate = Mirror(trigRule)
  /\ trigPass = [p \in TrigActors |-> PassIdle]
  /\ trigEdits = 0 /\ trigFaults = 0
  /\ trigDone = {}
  /\ trigTwice = FALSE /\ trigStale = FALSE

TrigTime ==
  /\ trigClock < MaxTrigClock
  /\ trigClock' = trigClock + 1
  /\ UNCHANGED <<trigRule, trigDate, trigPass, trigEdits, trigFaults, trigDone,
                 trigTwice, trigStale>>

-----------------------------------------------------------------------------
IsDue(rule) ==
  rule.enabled /\ ~rule.deleted /\ rule.next # Never /\ rule.next <= trigClock

(* process_due_triggers: the read.                                         *)
PassRead(p) ==
  /\ p \in TrigPasses /\ trigPass[p].at = "idle"
  /\ IsDue(trigRule)
  /\ trigPass' = [trigPass EXCEPT ![p] = [at |-> "read", copy |-> trigRule,
                                          read |-> trigClock, now |-> 0]]
  /\ UNCHANGED <<trigClock, trigRule, trigDate, trigEdits, trigFaults, trigDone,
                 trigTwice, trigStale>>

(* run_thread_schedule: its task reads the row and fires it.               *)
RunNow(x) ==
  /\ x \in TrigManuals /\ trigPass[x].at = "idle"
  /\ trigEdits < MaxTrigEdits /\ trigEdits' = trigEdits + 1
  /\ ~trigRule.deleted
  /\ trigPass' = [trigPass EXCEPT ![x] = [at |-> "read", copy |-> trigRule,
                                          read |-> trigClock, now |-> 0]]
  /\ UNCHANGED <<trigClock, trigRule, trigDate, trigFaults, trigDone, trigTwice,
                 trigStale>>

IsManual(p) == p \in TrigManuals

(* What a pass writes: of the row only what it changed in its copy.        *)
PassWrites(p, rule) ==
  LET copy == trigPass[p].copy
      changed == [trigRule EXCEPT
        !.next = IF rule.next # copy.next THEN rule.next ELSE @,
        !.enabled = IF rule.enabled # copy.enabled THEN rule.enabled ELSE @]
  IN
  /\ trigRule' = changed
  /\ trigStale' = (trigStale \/ trigRule # copy)

(* The moment of this pass has been run.                                   *)
MarkRun(p) ==
  LET m == trigPass[p].copy.next IN
  IF IsManual(p) THEN UNCHANGED <<trigDone, trigTwice>>
  ELSE /\ trigTwice' = (trigTwice \/ m \in trigDone)
       /\ trigDone' = trigDone \cup {m}

(* Slip: a once rule stays as it is.                                       *)
AdvancedIfRepeats(p, now) ==
  LET copy == trigPass[p].copy IN
  IF IsManual(p) \/ copy.kind = "once" THEN copy
  ELSE [copy EXCEPT !.next = ComputeNext(copy, now)]

(* _advance, and the same lines in _fire_reminder.                         *)
Advanced(p, now) ==
  LET copy == trigPass[p].copy IN
  IF IsManual(p) THEN copy
  ELSE [copy EXCEPT !.next = ComputeNext(copy, now),
                    !.enabled = IF copy.kind = "once" THEN FALSE ELSE @]

(* Slip: a rule that was skipped or failed is tried again at once.         *)
NotPassed(p, now) == trigPass[p].copy

(* Skipped or failed: the next moment, but a once rule stays enabled.      *)
Passed(p, now) ==
  LET copy == trigPass[p].copy IN
  IF IsManual(p) THEN copy ELSE [copy EXCEPT !.next = ComputeNext(copy, now)]

(* fire_trigger with an agent: the wake line is committed, the agent       *)
(* works.                                                                  *)
FireStart(p) ==
  /\ trigPass[p].at = "read"
  /\ trigPass' = [trigPass EXCEPT ![p].at = "working", ![p].now = trigClock]
  /\ trigDate' = Mirror(trigPass[p].copy)
  /\ trigStale' = (trigStale \/ trigRule # trigPass[p].copy)
  /\ UNCHANGED <<trigClock, trigRule, trigEdits, trigFaults, trigDone, trigTwice>>

(* _fire_reminder: the thread comes back unread.                           *)
FireReminder(p) ==
  /\ trigPass[p].at = "read"
  /\ PassWrites(p, Advanced(p, trigClock))
  /\ trigDate' = Mirror(Advanced(p, trigClock))
  /\ MarkRun(p)
  /\ trigPass' = [trigPass EXCEPT ![p] = PassIdle]
  /\ UNCHANGED <<trigClock, trigEdits, trigFaults>>

(* No agent, or the workspace is blocked.                                  *)
FireSkip(p) ==
  /\ trigPass[p].at = "read"
  /\ PassWrites(p, Passed(p, trigClock))
  /\ trigDate' = Mirror(Passed(p, trigClock))
  /\ trigPass' = [trigPass EXCEPT ![p] = PassIdle]
  /\ UNCHANGED <<trigClock, trigEdits, trigFaults, trigDone, trigTwice>>

(* The agent is done.  The thread is a copy too, of which only a change is *)
(* written.                                                                *)
DateAfter(p, rule) ==
  IF Mirror(rule) = Mirror(trigPass[p].copy) THEN trigDate ELSE Mirror(rule)

FireEnd(p) ==
  /\ trigPass[p].at = "working"
  /\ PassWrites(p, Advanced(p, trigPass[p].now))
  /\ trigDate' = DateAfter(p, Advanced(p, trigPass[p].now))
  /\ MarkRun(p)
  /\ trigPass' = [trigPass EXCEPT ![p] = PassIdle]
  /\ UNCHANGED <<trigClock, trigEdits, trigFaults>>

(* The agent's run failed: fire_trigger writes the next moment and raises, *)
(* and the pass writes it again, from the time it read the rules at.       *)
FireFail(p) ==
  /\ trigPass[p].at = "working"
  /\ PassWrites(p, Passed(p, trigPass[p].read))
  /\ trigDate' = DateAfter(p, Passed(p, trigPass[p].now))
  /\ trigPass' = [trigPass EXCEPT ![p] = PassIdle]
  /\ UNCHANGED <<trigClock, trigEdits, trigFaults, trigDone, trigTwice>>

(* wake_due_threads: a date that passed and has no rule brings the thread  *)
(* back as a plain date.                                                   *)
HasRule == trigRule.enabled /\ ~trigRule.deleted /\ trigRule.next # Never

WakeDated(p) ==
  /\ p \in TrigLoops /\ trigPass[p].at = "idle"
  /\ trigDate # Never /\ trigDate <= trigClock
  /\ ~HasRule
  /\ trigDate' = Never
  /\ UNCHANGED <<trigClock, trigRule, trigPass, trigEdits, trigFaults, trigDone,
                 trigTwice, trigStale>>

-----------------------------------------------------------------------------
Edit(rule, date) ==
  /\ trigEdits < MaxTrigEdits /\ trigEdits' = trigEdits + 1
  /\ ~trigRule.deleted
  /\ trigRule' = rule
  /\ trigDate' = date
  /\ trigDone' = {}
  /\ UNCHANGED <<trigClock, trigPass, trigFaults, trigTwice, trigStale>>

(* set_rule_enabled: pause and resume.                                     *)
Paused == [trigRule EXCEPT !.enabled = FALSE, !.next = Never]

Resumed ==
  LET next == IF trigRule.kind = "interval" THEN trigClock + 1
              ELSE IF trigRule.next # Never THEN trigRule.next ELSE trigClock
  IN [trigRule EXCEPT !.enabled = TRUE, !.next = next]

PauseRule  == Edit(Paused, Mirror(Paused))
ResumeRule == Edit(Resumed, Mirror(Resumed))

(* apply_thread_schedule with a moment that is now or in the future.       *)
SetRule(kind, at) ==
  LET rule == [trigRule EXCEPT !.kind = kind, !.enabled = TRUE, !.next = at] IN
  /\ at \in {trigClock, trigClock + 1}
  /\ kind = "interval" => at = trigClock + 1
  /\ Edit(rule, Mirror(rule))

(* Slip: the thread keeps the date of the rule that is removed.            *)
ClearRuleOnly == Edit([trigRule EXCEPT !.enabled = FALSE, !.deleted = TRUE], trigDate)

(* clear_thread_schedule.                                                  *)
ClearRule == Edit([trigRule EXCEPT !.enabled = FALSE, !.deleted = TRUE], Never)

TrigCrash ==
  /\ trigFaults < MaxTrigFaults /\ trigFaults' = trigFaults + 1
  /\ trigPass' = [p \in TrigActors |-> PassIdle]
  /\ UNCHANGED <<trigClock, trigRule, trigDate, trigEdits, trigDone, trigTwice, trigStale>>

TrigRun ==
  \E p \in TrigActors :
    \/ PassRead(p) \/ FireStart(p) \/ FireReminder(p) \/ FireSkip(p)
    \/ FireEnd(p) \/ FireFail(p) \/ WakeDated(p)

TrigOther ==
  \/ TrigTime
  \/ \E x \in TrigManuals : RunNow(x)
  \/ PauseRule \/ ResumeRule \/ ClearRule
  \/ \E kind \in {"once", "interval"}, at \in Moments : SetRule(kind, at)
  \/ TrigCrash

TrigNext == TrigRun \/ TrigOther

TrigSpec == TrigInit /\ [][TrigNext]_trigVars

-----------------------------------------------------------------------------
(* A moment is run twice only after a pass wrote from a copy the row had   *)
(* left (two passes overlapped, or people changed the rule under it): a    *)
(* failed run, a slow one or a killed process alone never repeats one that *)
(* was run, nor does Run now.                                              *)
MomentOnce == trigTwice => trigStale

(* The thread shows a date only while its rule has one, so a rule that was *)
(* paused or removed does not come back as a plain date: unless a pass     *)
(* wrote the date from a copy older than the pause.                        *)
DateHasRule == trigDate # Never => HasRule \/ trigStale

(* A rule that is due is fired, skipped, paused or removed: it does not    *)
(* stay due, whatever fails or is killed.                                  *)
DueMomentPasses == IsDue(trigRule) ~> ~IsDue(trigRule)
=============================================================================
