CONSTANTS
  c1 = c1
  c2 = c2
  Runs = {c1}
  Cron = {}
  Definition <- AllSkills
  FromFiles <- FileNames
  Offered <- EachSkill
  MaxDepth = 1
SPECIFICATION SkillSpec
INVARIANTS RenewalRenews
