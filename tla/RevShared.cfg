SPECIFICATION Spec
CONSTANTS
  Servers = {s1, s2}
  Operators = {o1}
  MaxId = 3
  Contents = {c1}
  NoContent = NoContent
  Pointers = {c1}
  Layers = {"episodic", "semantic"}
  Pruning = FALSE
  MaxCrashes = 1
SYMMETRY SymmetricShared
INVARIANT SuccessorTracked
INVARIANT ContentStored
INVARIANT FactSurvivesUpdates
CHECK_DEADLOCK FALSE
