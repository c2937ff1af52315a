SPECIFICATION Spec
CONSTANTS
  Buf = {b1, b2}
  RecPool = 2
  QMax = 1
  EncDepth = 1
  MaxFaults = 1
INVARIANT PinsAccounted StreamYields
PROPERTY RestreamFollows
