SPECIFICATION Spec
CONSTANTS
  Request = {q1, q2}
  Click = {c1, c2}
  NoRequest = NoRequest
  Slot = {s1, s2}
  Value = {v1}
  NoValue = NoValue
  Ttl = {3}
  MinTtl = 1
  MaxTtl = 1
  PresenceSettings = {TRUE}
  MaxTime = 1
  MaxReads = 1
SYMMETRY Symmetry
INVARIANTS
  SessionWasApproved
  PresenceBehindSession
  ReadsGrantedAndAudited
  NoOrphanPrompt
PROPERTIES
  DeadSessionsStayDead
