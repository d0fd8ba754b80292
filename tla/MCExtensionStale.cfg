SPECIFICATION Spec
CONSTANTS
  Call = {c1, c2}
  NoCall = NoCall
  MaxPort = 2
INVARIANT AnswersOwnCall
CHECK_DEADLOCK FALSE
