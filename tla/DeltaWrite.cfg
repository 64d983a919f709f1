SPECIFICATION Spec
CONSTANTS
  RootFields = {n}
  CharFields = {c, n}
  Nulls = {n}
  Ptr = Ptr
  NoBlock = NoBlock
  MaxEdits = 2
  MaxSaves = 3
  MaxFaults = 1
  WriteMaxRetries = 1
INVARIANTS
  TypeOK
  BaselineIsStored
  CacheIsTheFile
  CharacterIsTold
PROPERTY SavesEnd
CHECK_DEADLOCK FALSE
