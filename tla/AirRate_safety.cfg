SPECIFICATION Spec
CONSTANTS
  Indexes = {0, 1, 2}
  Throughputs <- MCThroughputs
  Caps = {5000, 10000}
  RiseTicks = 3
INVARIANTS DropsAtOnce CapInForce RateInRange
PROPERTY RiseIsSteady
