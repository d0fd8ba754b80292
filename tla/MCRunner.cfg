SPECIFICATION FairSpec
CONSTANTS
  Wanted = {k1, k2}
  Foreign = {k3}
  NoKeyType = NoKeyType
  MaxSteps = 5
  Models = 2
  FailuresBeforeEscalation = 3
  IdleLimit = 3
INVARIANTS
  OutcomeHonest
  AtMostOneLateCall
  ReplyNotLost
  BrowserReleased
PROPERTIES
  NothingStoredAfterAbort
  ImplementsLifecycle
  AbortEnds
  RunEnds
