SPECIFICATION Spec
CONSTANTS
  KRrf = 10
  SlotOrder <- MCSlotOrder
  SlotCap <- MCSlotCap
  TotalCap = 6
  Crystals <- MCCrystals
  LayerOrder <- MCLayerOrder
  Worlds <- MCWorlds
  Tables <- MCTables
  Requests <- MCRequests
  Garbage = Garbage
  KDefault = 3
  KMax = 5
  AssembleWidth = 4
  FetchFactor = 1
  FetchFloor = 1
  TopUpCeiling = 8
  Alpha = 1
  WalkHops = 2
  SeedCredit = FALSE
  MaxWrites = 1
INVARIANT AnswersOnceCurrent
INVARIANT ExplainBalances
INVARIANT BudgetHeld
INVARIANT LayersNotStarved
INVARIANT AssembledWithinBands
INVARIANT FetchesBounded
