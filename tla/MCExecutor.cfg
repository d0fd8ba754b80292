SPECIFICATION Spec
CONSTANTS
  Run = {r1, r2}
  Task = {k1, k2}
  NoTask = NoTask
  NoRun = NoRun
SYMMETRY Symmetry
INVARIANTS EverythingDestroyed AbortsAreReal LaterCallsRefused AttachedExact
CHECK_DEADLOCK FALSE
