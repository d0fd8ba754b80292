SPECIFICATION Spec
CONSTANTS
  Proc = {p1, p2}
  NoProc = NoProc
  Key = {A, B}
  Value = {v1, v2}
  Quoted = {v1}
  OldValue = OldValue
  NoKey = NoKey
  NoValue = NoValue
  MaxLines = 3
SYMMETRY Symmetry
INVARIANTS InjectedValuesRead OthersPreserved
CHECK_DEADLOCK FALSE
