SPECIFICATION Spec
CONSTANTS
  Servers = {s1}
  Operators = {o1}
  MaxId = 3
  Contents = {c1}
  NoContent = NoContent
  Pointers = {}
  Layers = {"episodic", "semantic"}
  Pruning = FALSE
  MaxCrashes = 1
INVARIANT OnlyTargetPurged
CHECK_DEADLOCK FALSE
