SPECIFICATION FairSpec
CONSTANTS
  MaxReplies = 2
  MaxRequests = 2
  Count = 3
  Valid <- MCValid
  Saved = 2
  Macs = {m1}
  HitsNeeded = 2
INVARIANTS
  TypeOK
  TunedAsAsked
  StaysInBand
  MeasuredOnItsChannel
  RateHandedBack
  PairModeLeft
  LockedPeerHit
PROPERTIES
  CadenceReturns
