CONSTANTS
  MaxLoad = 2
  MaxCommit = 2
  MaxExec = 1
  MaxLevel = 1
  CtrlCap = 2
  DataCap = 1
SPECIFICATION FairSpec
INVARIANTS NoOrphan ReadersGone
PROPERTIES EngineNeverStalls ShutdownCompletes DeliversNewest
CHECK_DEADLOCK FALSE
