SPECIFICATION Spec
CONSTANTS
  a1 = a1  a2 = a2  p1 = p1  p2 = p2  w1 = w1  w2 = w2
  Agents = {a1, a2}  Nobody = Nobody
  Procs = {p1}  Slots = {w1}  Home <- LoneHome
  MaxTurns = 5  MaxAsks = 2  MaxMessages = 2  MaxMinutes = 0
  MaxAttempts = 2  MaxEpisodeTurns = 3  MaxPairRepeats = 1  EpisodeTokenBudget = 3
  MaxDrain = 1  Spends = {1}  Replies = {"spoke"}  OrgRules = TRUE  MaxFaults = 0
  Events = {"message"}
INVARIANTS  EpisodeBudget
SYMMETRY AgentSwap
CHECK_DEADLOCK FALSE
