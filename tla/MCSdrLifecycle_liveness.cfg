SPECIFICATION BoundedSpec
CONSTANTS
  Readers = {r1, r2}
  Restarts = {t1}
  NoReader = NoReader
  ReaderGone = ReaderGone
  PoolSize = 2
  MaxReadTimeouts = 1
  Commands = {"startNative", "stopSdr"}
  MaxCommands = 3
PROPERTIES
  StoppedReaderEnds
  LostReaderIsRetried
  HandlersReturn
CHECK_DEADLOCK FALSE
