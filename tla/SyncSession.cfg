CONSTANTS
  MaxLogEntries = 2
  MaxVersion = 3
  Changes = {"char"}
  MaxConns = 2
  MaxRequests = 2
  MaxReturns = 1
  MaxFailures = 1
SPECIFICATION Spec
INVARIANTS
  TypeOK
  CharactersComplete
  NoEcho
  RegistrationLasts
CHECK_DEADLOCK FALSE
