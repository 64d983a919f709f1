CONSTANTS
  Clients = {a, b}
  Chars = {x}
  Keys = {k}
  Ignored = {}
  NoRoot = NoRoot
  MaxSaves = 2
  MaxBroken = 1
SPECIFICATION Spec
SYMMETRY Symmetry
CONSTRAINT BreaksWithoutCharacters
INVARIANTS
  TypeOK
  CacheFollowsFile
PROPERTIES
  NoDeletionInvented
  RemovalsReported
CHECK_DEADLOCK FALSE
