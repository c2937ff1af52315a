SPECIFICATION FairSpec
CONSTANTS
  Dbm = {5, 20}
  IdleDbm = 5
  NoDbm = NoDbm
  ReportMax = 2
  MayRestart = TRUE
INVARIANTS TypeOK BeliefIsReal
PROPERTIES WrittenOnlyInManual SettlesOnTable
