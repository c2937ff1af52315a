SPECIFICATION FairSpec
CONSTANTS
  Macs = {m1, m2}
  Broadcast = Broadcast
  NoMac = NoMac
  Governors = {"rate", "power"}
  HitsNeeded = 6
  HitsCap = 7
  RestoreTries = 10
  MaxAsked = 2
INVARIANTS TypeOK SocketCounted WindowConsistent BroadcastExplained PairModeLeft
PROPERTIES PersistOnlyCommitted KeepsPromise WindowCloses
