CONSTANTS
  Rules = {r1}
  WithCooldown = {r1}
  ActionCount <- OneAction
  Events = {e1, e2}
  ChanCap = 1
  NoRule = NoRule
  NumMasters = 2
  Priority <- SecondPreferred
  ConfigActive = {1}
  Keep = 1
  Reporters = {g1, g2}
SPECIFICATION AgentFairSpec
INVARIANTS AgentTypeOK EventInOnePlace
PROPERTIES CooldownKept EventsKept FailsOver EventsReported
