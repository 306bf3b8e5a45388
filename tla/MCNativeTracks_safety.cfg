SPECIFICATION Spec
SYMMETRY AddrSymmetry
CONSTANTS
  Addrs = {a1, a2, a3}
  NoAddr = NoAddr
  FilterSize = 2
  MaxAircraft = 1
  StateTtl = 1
  PruneInterval = 1
  PairWindow = 1
  MaxTime = 2
  NoTime = NoTime
  NoLine = NoLine
INVARIANTS
  TypeOK
  TracksAnnounced
  FilterKeepsNewest
  TableBounded
  SilentTracksGo
  PositionFromFreshPair
