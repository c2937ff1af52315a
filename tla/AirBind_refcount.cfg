SPECIFICATION Spec
CONSTANTS
  Macs = {m1, m2}
  Broadcast = Broadcast
  NoMac = NoMac
  Governors = {"rate", "power"}
  HitsNeeded = 6
  HitsCap = 7
  RestoreTries = 10
  MaxAsked = 2
PROPERTY ClosedOnlyUnheld
