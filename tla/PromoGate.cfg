SPECIFICATION Spec
CONSTANTS
  Servers = {s1, s2}
  Dreamers = {d1}
  Authors = {a1, a2}
  NoAuthor = NoAuthor
  K = 2
  Stc = TRUE
  CallersCorroborate = TRUE
  MaxId = 3
  MaxCrashes = 1
SYMMETRY Symmetric
INVARIANT AdmissionsLogged
INVARIANT WindowKeepsOut
INVARIANT IndependentSources
INVARIANT LeastTrust
CHECK_DEADLOCK FALSE
