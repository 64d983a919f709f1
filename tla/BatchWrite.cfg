SPECIFICATION Spec
CONSTANTS
  NumWrites = 2
  Files = {f, g}
  Sizes = {1, 2}
  ChunkMaxBytes = 2
  RetryMaxAttempts = 1
  WriteMaxRetries = 1
  MaxFaults = 1
INVARIANTS
  TypeOK
  SavedIsStored
  NobodyIsForgotten
PROPERTY EveryWriteIsAnswered
CHECK_DEADLOCK FALSE
