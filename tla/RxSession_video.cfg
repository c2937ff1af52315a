SPECIFICATION FairSpec
CONSTANTS
  NoGate = FALSE
  Levered = TRUE
  Menu = FALSE
PROPERTY VideoReturns
