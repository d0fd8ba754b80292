SPECIFICATION FairSpec
CONSTANTS
  Call = {q1, r1}
  Report = {r1}
  NoCall = NoCall
  Click = {k1}
INVARIANTS
  RotationsApproved
  PromptsShown
PROPERTIES
  PromptsEnd
  IdleVaultLocks
