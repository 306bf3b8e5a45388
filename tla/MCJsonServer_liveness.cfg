SPECIFICATION BoundedSpec
CONSTANTS
  Tasks = {t1, t2}
  Connections = {c1, c2, c3, c4}
  Stalling = {c1}
  CoreThreads = 1
  MaxThreads = 2
  QueueSize = 2
  MaxRequest = 1
  MaxCommands = 3
  None = None
INVARIANTS
  TypeOK
  HeaderCutRight
  ServerIsThere
PROPERTIES
  EveryRequestEnds
  ImplementsRequestPool
  PortIsFreed
CHECK_DEADLOCK FALSE
