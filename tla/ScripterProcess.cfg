CONSTANTS
  MaxStart = 2
  MaxExec = 2
  MaxKeySeq = 1
  MaxPending = 1
  Defs = 2
  DataCap = 1
  MsgCap = 1
SPECIFICATION FairSpec
INVARIANTS CommittedWhole StartGoesFirst AdHocInItsSetting
PROPERTIES QuitEnds
CHECK_DEADLOCK FALSE
