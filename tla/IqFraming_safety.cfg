SPECIFICATION Spec
CONSTANTS
  TailMax = 4
  FrameSamples = 2
  MaxMessages = 4
  BlockLengths = {1, 2, 5, 7}
  MaxPairs = 4
  MaxBytes = 16
  MaxLate = 1
  NoByte = NoByte
  Foreign = Foreign
INVARIANTS
  TypeOK
  StreamInStep
  NoFrameLost
  DecodedAtMostTwice
