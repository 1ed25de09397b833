SPECIFICATION Safety
CONSTANTS
  RunIds = {r1, r2, r3, r4}
  NoRun = NoRun
  Clis = {}
  Gap = 2
  Idle = 1
  FaultKinds = {"insert", "fetch"}
  MaxFaults = 2
  MaxRestarts = 2
SYMMETRY Symmetric
INVARIANT AtMostOnePending
INVARIANT SlotAccountedFor
INVARIANT NoDoubleExecution
PROPERTY ImplementsSerialRuns
PROPERTY PollHonoursGap
