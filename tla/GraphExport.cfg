\* An export beside commits, updates, merges, drift marks and forgets.
CONSTANTS
  MaxId = 3
  Profiles <- MCProfiles
  Authors <- MCAuthors
  Requests <- MCRequests
  Similarity = 80
  DriftSimilarity = 70
  MaxWrites = 1
  MaxBeside = 2
SPECIFICATION Spec
INVARIANTS NothingHidden HygieneAccounts LineageComplete
CHECK_DEADLOCK FALSE
