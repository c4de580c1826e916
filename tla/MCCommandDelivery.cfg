CONSTANTS
  m1 = m1
  m2 = m2
  a1 = a1
  r1 = r1
  r2 = r2
  Masters = {m1, m2}
  Agents = {a1}
  Requests = {r1, r2}
  Entry <- ShellAndHTTP
  Origin <- AtM1
  Target <- ForA1
  WSMaster <- AgentOnM1
  Ids <- AllIds
  NsId <- OwnNs
  MsId <- OneMs
  NoId = NoId
  NoToken = NoToken
SPECIFICATION FairSpec
INVARIANTS TypeOK AtMostOnce OutputHasItsId
PROPERTIES ContractHolds EveryRequestLeaves QueueIsEmptied
