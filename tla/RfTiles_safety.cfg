SPECIFICATION Spec
CONSTANTS
  Pool = 5
  Holds = 1
  Margin = 2
  MinWindow = 2
  Slack = 1
  Depth = 2
  T1Hold = 2
  T0Hold = 2
  QueueMax = 3
  DrainMax = 1
  Irap = {0, 3}
  Lead = 0
  LastFid <- MCLastFid
  LastLoss = 1
  LastSwap = 1
INVARIANTS TypeOK Bounded SameFrame FewPairsLost
PROPERTY ShownInOrder
CHECK_DEADLOCK FALSE
