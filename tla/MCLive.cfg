SPECIFICATION FairSpec
CONSTANTS
  a1 = a1  a2 = a2  p1 = p1  p2 = p2  w1 = w1  w2 = w2
  Agents = {a1}  Nobody = Nobody
  Procs = {p1}  Slots = {w1}  Home <- LoneHome
  MaxTurns = 2  MaxAsks = 0  MaxMessages = 1  MaxMinutes = 0
  MaxAttempts = 2  MaxEpisodeTurns = 2  MaxPairRepeats = 1  EpisodeTokenBudget = 1
  MaxDrain = 1  Spends = {0}  Replies = {"spoke", "stalled"}  OrgRules = FALSE  MaxFaults = 2
  Events = {"message", "stop", "lease", "age"}
PROPERTIES QueuedTurnEnds
CHECK_DEADLOCK FALSE
