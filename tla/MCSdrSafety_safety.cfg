SPECIFICATION Spec
SYMMETRY ReaderSymmetry
CONSTANTS
  Readers = {r1, r2}
  Restarts = {t1}
  NoReader = NoReader
  ReaderGone = ReaderGone
  PoolSize = 2
  MaxReadTimeouts = 2
  Commands = {"start", "startNative", "switchProfile", "stopSdr", "detached", "stop", "timeout", "sbsServerEnds"}
INVARIANTS
  TypeOK
  FlagsMatchReader
  CurrentReaderIsLive
  SupersededReaderIsStopping
  ServiceStopIsNeverRetried
  LeakOnlyAfterServiceStop
PROPERTIES
  ImplementsReaderSlot
CHECK_DEADLOCK FALSE
