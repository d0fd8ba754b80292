SPECIFICATION SocketSpec
CONSTANTS
  App = {a1, a2}
  Client = {k1, k2}
  MaxFile = 4
  MaxTries = 1
INVARIANTS
  ServingReachable
CHECK_DEADLOCK FALSE
