SPECIFICATION Spec
CONSTANTS
  Flow = {f1, f2}
  Slot = {s1, s2}
  Value = {v1, v2}
  RowId = {r1, r2, r3}
  NoValue = NoValue
  NoRow = NoRow
  MaxSalt = 3
  MaxCode = 3
SYMMETRY Symmetry
INVARIANTS
  SecretsOpenWithVerifier
  MemoryKeyIsVerified
  OwnerCanUnlock
PROPERTIES
  ImplementsStore
