SPECIFICATION FairSpec
CONSTANTS
  Call = {c1, c2}
  NoCall = NoCall
  MaxPort = 3
INVARIANTS
  LinkExact
  AnswersWithinConnection
PROPERTIES
  Reattaches
CHECK_DEADLOCK FALSE
