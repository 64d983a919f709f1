CONSTANTS
  MaxLogEntries = 2
  MaxVersion = 3
  Changes = {"char"}
  MaxConns = 2
  MaxRequests = 2
  MaxReturns = 0
  MaxFailures = 1
SPECIFICATION Spec
PROPERTY EventuallyTold
CHECK_DEADLOCK FALSE
