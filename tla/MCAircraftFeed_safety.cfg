SPECIFICATION Spec
SYMMETRY ReaderSymmetry
CONSTANTS
  Addrs = {a1}
  Ttl = 2
  RateHold = 1
  Grace = 1
  JumpFactor = 2
  DefaultSpeed = 1
  TrueSpeed = 3
  Flown = {3}
  FarPlace = 50
  MaxTime = 3
  NoTime = NoTime
  NoPlace = NoPlace
  Readers = {r1, r2}
  NoReader = NoReader
  MaxLines = 1
  MaxFailures = 1
INVARIANTS
  TypeOK
  RateShownIsRecent
  
  LateLinesBounded
  RetryDelayInRange
