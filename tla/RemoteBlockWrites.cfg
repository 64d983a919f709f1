CONSTANTS
  MaxSeq = 2
  Messages = {m1}
  Bare = Bare
  Garbage = Garbage
  NoBlock = NoBlock
  RetryMax = 1
  MaxBroken = 1
SPECIFICATION Spec
INVARIANTS
  TypeOK
  CacheIsLatestArrival
PROPERTIES
  SettlesOnce
  EveryWritePassed
  UnracedMergeLosesNothing
CHECK_DEADLOCK FALSE
