SPECIFICATION FairSpec
CONSTANTS
  Dbm = {5, 20}
  IdleDbm = 5
  NoDbm = NoDbm
  ReportMax = 1
  MayRestart = FALSE
PROPERTY FeederSettlesOnTable
