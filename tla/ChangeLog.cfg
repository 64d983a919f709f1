CONSTANTS
  MaxLogEntries = 2
  MaxVersion = 5
  Clients = {c1, c2}
  NoClient = NoClient
  Changes = {x}
SPECIFICATION Spec
INVARIANTS
  TypeOK
  LogIsNewest
  AnswersAreComplete
  RecentClientsNeedNoReload
CHECK_DEADLOCK FALSE
