CONSTANTS
  a1 = a1
  Agents = {a1}
  Conns = {c1, c2}
  Callers = {}
  Owner <- OneAgent
  SendCap = 1
  ChanCap = 1
  NoConn = NoConn
  NoRecord = NoRecord
SPECIFICATION ServerFairSpec
INVARIANTS ServerTypeOK
PROPERTIES OnlineIsAlive ConnectedHeals
