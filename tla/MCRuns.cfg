SPECIFICATION Spec
CONSTANTS
  Run = {r1, r2}
  NoRun = NoRun
  Conn = {p1, p2}
  NoConn = NoConn
  Caller = {c1, c2}
  Op = {"collect"}
  Wanted = {}
SYMMETRY Symmetry
INVARIANTS
  OneDriver
  DisconnectSparesNewRuns
CHECK_DEADLOCK FALSE
