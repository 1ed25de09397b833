SPECIFICATION Spec
CONSTANTS
  RunIds = {r1, r2}
  NoRun = NoRun
  Clis = {c1}
  Gap = 2
  Idle = 1
  FaultKinds = {"insert", "fetch", "mark"}
  MaxFaults = 2
  MaxRestarts = 1
PROPERTY PendingRunServed
PROPERTY SlotReleased
