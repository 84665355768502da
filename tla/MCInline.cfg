SPECIFICATION Spec
CONSTANTS
  a1 = a1  a2 = a2  p1 = p1  p2 = p2  w1 = w1  w2 = w2
  Agents = {a1}  Nobody = Nobody
  Procs = {p1, p2}  Slots = {w1, w2}  Home <- TwoHomes
  MaxTurns = 2  MaxAsks = 0  MaxMessages = 1  MaxMinutes = 1
  MaxAttempts = 2  MaxEpisodeTurns = 2  MaxPairRepeats = 1  EpisodeTokenBudget = 1
  MaxDrain = 1  Spends = {0}  Replies = {"spoke"}  OrgRules = FALSE  MaxFaults = 0
  Events = {"ask", "intercom", "system", "retry", "lease"}
INVARIANTS KeysUnique QueuedIsRunnable
SYMMETRY Swap
CHECK_DEADLOCK FALSE
