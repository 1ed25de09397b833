SPECIFICATION Spec
CONSTANTS
  prior = prior
  c1 = c1
  c2 = c2
  Ids = {prior, c1, c2}
  Servers = {s1}
  Dreamers = {d1, d2}
  TierOf <- MCTierOf
  Similar <- MCSimilar
  Configs <- MCConfigs
  DynamicsPatches <- MCDynamicsPatches
  UtilityPatches <- MCUtilityPatches
  Outcomes <- MCOutcomes
  PruneLayers <- MCPruneLayers
  PruneThreshold <- MCPruneThreshold
  EvbPercent = 50
  FloorRatio = 3385
  ResurfaceRatio = 1542
  InitialStability = 2
  LapseStability = 1
  BoostFactor = 2
  MaxStability = 4
  TickDays = 8
  MaxAge = 1
  MaxHits = 1
  MaxBegun = 3
SYMMETRY Symmetric
INVARIANT ValuableSurvive
INVARIANT DriftAccounted
PROPERTY OnlyTimeForgets
PROPERTY KeysKept
CHECK_DEADLOCK FALSE
