CONSTANTS
  MaxSync = 2
  MaxAction = 2
  MaxDepth = 2
  MaxMail = 2
SPECIFICATION FairSpec
INVARIANTS SyncSeenUnlessCutShort LockStateFollows
PROPERTIES SequenceSeesOneState ShutdownUnparks
CHECK_DEADLOCK FALSE
