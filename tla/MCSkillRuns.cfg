CONSTANTS
  c1 = c1
  c2 = c2
  Runs = {c1, c2}
  Cron = {c2}
  Definition <- AllSkills
  FromFiles <- FileNames
  Offered <- UserAndCron
  MaxDepth = 2
SPECIFICATION SkillFairSpec
INVARIANTS OwnInputs
PROPERTIES EveryRunEnds
