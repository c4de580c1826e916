CONSTANTS
  a1 = a1
  Agents = {a1}
  Conns = {c1, c2}
  Callers = {s1}
  Owner <- OneAgent
  SendCap = 1
  ChanCap = 2
  NoConn = NoConn
SPECIFICATION HubFairSpec
INVARIANTS HubTypeOK NoOrphanConnection
PROPERTIES EntryRemovedByItself BrokenLinkLeavesHub
