SPECIFICATION FairSpec
CONSTANTS
  Call = {c1, c2}
  NoCall = NoCall
  MaxId = 2
  InCap = 1
  MaxIn = 2
INVARIANTS
  AnswersMatch
  PendingExact
PROPERTIES
  DisconnectIsLast
  CallReturns
  TasksEnd
CHECK_DEADLOCK FALSE
