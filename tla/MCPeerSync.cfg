CONSTANTS
  Masters = {m1, m2}
  Agents = {a1}
  Peers <- EachOther
  NoRecord = NoRecord
  Nobody = Nobody
  Reported = {"online"}
  MaxBeats = 2
SPECIFICATION PeerFairSpec
PROPERTIES NewestHeartbeatKept PeersCatchUp GoneIsNotOnline
