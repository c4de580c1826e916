CONSTANTS
  Conns = {c1, c2}
  Writers = {w1, w2, w3}
  SendCap = 2
  NoConn = NoConn
SPECIFICATION ClientFairSpec
INVARIANTS ClientTypeOK ReaderMatchesConn NoSocketLeaks
PROPERTIES BrokenLinkNoticed StopTerminates Reconnects
