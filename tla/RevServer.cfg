SPECIFICATION Spec
CONSTANTS
  Servers = {s1}
  Operators = {o1}
  MaxId = 3
  Contents = {c1, c2}
  NoContent = NoContent
  Pointers = {}
  Layers = {"episodic", "semantic"}
  Pruning = TRUE
  MaxCrashes = 1
SYMMETRY Symmetric
INVARIANT OneCurrentRevision
PROPERTY HistoryPreserved
CHECK_DEADLOCK FALSE
