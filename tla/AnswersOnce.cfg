SPECIFICATION Spec
CONSTANTS
  NumStreams = 2
  FullText = 1
  MaxSaves = 1
  MaxReturns = 1
  MaxFetches = 2
  MaxWire = 3
PROPERTIES AnswersOnce
CHECK_DEADLOCK FALSE
