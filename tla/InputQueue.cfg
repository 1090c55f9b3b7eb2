CONSTANTS
  Hook = Hook
  Mayu = Mayu
  Producer <- MCProducer
  UI = Mayu
  Engine = Engine
  NoThread = NoThread
  NoEvent = NoEvent
  Torn = Torn
  Phantom = Phantom
  MaxEvent = 3
  MaxRequest = 1
SPECIFICATION FairSpec
INVARIANTS ResyncNeverStranded OrderUnlessRaced QueueMutexExcludes
PROPERTY ResyncServed
CHECK_DEADLOCK FALSE
