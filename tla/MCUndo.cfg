SPECIFICATION Spec
CONSTANTS
  Parts = {"outbound"}
  e1 = e1
  e2 = e2
  HookEndpoints = {e1, e2}
  HookApiSlots = {a1}
  HookWorkSlots = {w1}
  HookTries = 2
  HookKeep = 1
  MaxHookRows <- MCHookRows
  MaxHookToggles = 1
  MaxHookFaults = 1
  LogTurns = {t1}
  MaxLogDeltas = 1
  MaxLogFaults = 2
  SubParents = {p1}
  SubSlots = {x1}
  SubLimit = 1
  SubBehavior = "queue"
  MaxSubs = 3
  MaxSubKills = 1
  MaxSubFaults = 1
  TaskCallers = {c1, c2}
  TaskSlots = {s1, s2}
  TaskApiSlots = {s1}
  TaskRetries = 1
  MaxTaskCalls = 2
  MaxTaskFaults = 1
  TrigLoops = {l1}
  TrigRescans = {r1}
  TrigManuals = {m1}
  MaxTrigClock = 3
  MaxTrigEdits = 2
  MaxTrigFaults = 1
  CarefulAnswers = {n1}
  DirectAnswers = {d1}
  Clearers = {k1}
  CardTurns = {t1, t2}
  CardTitles = {x, y}
  MaxCards = 2
  MaxAnswers = 2
  MaxCardFaults = 1
  OutTicks = {o1, o2}
  OutUndos = {u1}
  OutBatch = 2
  MaxOut = 3
  MaxOutFaults = 1
INVARIANT UndoneIsUnsent
CHECK_DEADLOCK FALSE
