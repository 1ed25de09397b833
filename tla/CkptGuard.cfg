SPECIFICATION CheckpointsSpec
CONSTANTS
  Servers = {s1, s2}
  Pruners = {d1}
  Plans = {p1, p2}
  NoPlan = NoPlan
  MaxId = 3
  MaxCrashes = 1
SYMMETRY Symmetric
INVARIANT PlanKeepsCheckpoint
INVARIANT ProjectKeepsCheckpoint
