SPECIFICATION Spec
CONSTANTS
  Sessions = {s1}
  Operators = {o1, o2}
  Callers <- SomeCallers
  Layers = {"episodic", "semantic"}
  Scopes <- SomeScopes
  Payloads <- SomePayloads
  Canonical = "p"
  Everyone = "all"
  FixSpans = TRUE
  Extractor = TRUE
  MaxId = 3
  MaxSources = 2
  MaxEvents = 2
SYMMETRY Symmetric
INVARIANT LeastTrust
INVARIANT AudienceKept
INVARIANT QuarantineHeld
INVARIANT ProtectionEarned
INVARIANT ReviewsTakeEffect
CHECK_DEADLOCK FALSE
