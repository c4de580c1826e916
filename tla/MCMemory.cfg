CONSTANTS
  Ids = {e1, e2}
  Outcomes = {"success", "failed"}
  Ages = {0, 3}
  MaxAccess = 1
  Changes = {0, 1}
  Sessions = {s1}
  MaxTurns = 1
  Threshold = 20
  MinAge = 1
  MaxEpisodes = 1
  MinEpisodes = 1
SPECIFICATION MemoryFairSpec
PROPERTIES OnlyForgotten TableShrinks
