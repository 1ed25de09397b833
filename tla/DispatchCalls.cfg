SPECIFICATION Spec
CONSTANTS
  Projects = {p}
  Canonical = p
  NoProject = NoProject
  Classes = {All, c}
  All = All
  NoClass = NoClass
  Limit = 3
  MaxSize = 1
  ActiveOnly = TRUE
  Others = TRUE
  MaxId = 2
INVARIANT RefusedOnlyWhenBusy
INVARIANT NoCommitMissed
INVARIANT AnswersFit
PROPERTY RefusedUnwritten
