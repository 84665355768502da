SPECIFICATION FairSpec
CONSTANTS
  a1 = a1  a2 = a2  p1 = p1  p2 = p2  w1 = w1  w2 = w2
  Agents = {a1, a2}  Nobody = Nobody
  Procs = {p1}  Slots = {w1}  Home <- LoneHome
  MaxTurns = 3  MaxAsks = 1  MaxMessages = 1  MaxMinutes = 0
  MaxAttempts = 2  MaxEpisodeTurns = 3  MaxPairRepeats = 1  EpisodeTokenBudget = 1
  MaxDrain = 3  Spends = {0}  Replies = {"spoke"}  OrgRules = FALSE  MaxFaults = 0
  Events = {"message"}
PROPERTIES AskSettles
CHECK_DEADLOCK FALSE
