SPECIFICATION Spec
CONSTANTS
  NumCalls = 2
  Readers = {r1}
  MaxChunks = 2
  Hashes = {h1, h2}
INVARIANTS
  TypeOK
  FollowersSeeTheAnswer
  OneEndWithTheText
  RegistriesFollowCalls
  OpenIsOwned
PROPERTIES
  FinishedIsFrozen
CHECK_DEADLOCK FALSE
