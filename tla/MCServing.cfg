SPECIFICATION AllSpec
CONSTANTS
  k1 = k1
  k2 = k2
  k3 = k3
  Owner = "owner"
  Stranger = "stranger"
  MaxFrames = 3
  Servers <- MCServers
  AutoAllow = {"a", "c"}
  Offers <- MCOffers
  Namespaced <- MCNamespaced
  Native = {"n"}
  Keys = {k1, k2, k3}
  PerMinute <- MCPerMinute
  MaxBuckets = 2
  Minute = 3
  MaxClock = 5
  Budgets <- MCBudgets
  Costs = {0, 1, 2}
  Scores = {1, 2}
  MaxBuffer = 3
  MaxHits = 2
INVARIANTS
  PartsTypeOK
  TurnsInOrder
  FinalizedAfterTurns
  NothingAfterClose
  OpenIsOwned
  NamesReachTheirServer
  RateHolds
  KeepsRecent
  BudgetHolds
  EvictionIsLeast
PROPERTIES
  GoneEnds
CHECK_DEADLOCK FALSE
