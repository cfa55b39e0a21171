CONSTANTS
  Parts = {"bmp", "bioris"}
  Connections = {"c1", "c2"}
  Names = {"x"}
  PrefixSet = {"p"}
  Address <- MCAddress
  Keep = 2
  MessageBuffer = 1
  MaxMessages = 3
  RisInstances <- MCRisInstances
  FirstRouters <- MCFirstRouters
  LpmAnswers <- MCLpmAnswers
  Routers = {"x", "y"}
  RisWorkers = {"w1"}
  MaxRisChanges = 1
SPECIFICATION MCFairSpec
INVARIANTS RoutesRight RisRight
PROPERTIES RoutingProgress
CHECK_DEADLOCK FALSE
