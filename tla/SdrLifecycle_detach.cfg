SPECIFICATION Spec
CONSTANTS
  Readers = {r1, r2}
  Restarts = {t1}
  NoReader = NoReader
  ReaderGone = ReaderGone
  PoolSize = 2
  MaxReadTimeouts = 1
  Commands = {"startNative", "detached"}
INVARIANT
  DetachIsSurvived
CHECK_DEADLOCK FALSE
