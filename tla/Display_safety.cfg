SPECIFICATION FairSpec
CONSTANTS
  Frames = {f1, f2, f3, f4}
  None = None
  Idle = Idle
  Off = Off
  SplashEdges = 2
  ParkEdges = 4
  EventSpace = 2
INVARIANTS TypeOK PoolWhole ScanoutHeld
PROPERTY MailboxDrains
