SPECIFICATION FairSpec
CONSTANTS
  Run = {r1}
  NoRun = NoRun
  Conn = {p1, p2}
  NoConn = NoConn
  Caller = {c1}
  Op = {"collect", "rotate", "report"}
  Wanted = {k1}
INVARIANTS WaitersServed
PROPERTIES
  BrowserLossEndsRun
CHECK_DEADLOCK FALSE
