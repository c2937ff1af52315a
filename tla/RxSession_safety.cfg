SPECIFICATION FairSpec
CONSTANTS
  NoGate = FALSE
  Levered = TRUE
  Menu = TRUE
INVARIANTS LossForgets CameraCarried
PROPERTIES SessionReturns SessionHolds
