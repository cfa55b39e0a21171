CONSTANTS
  Parts = {"bmp"}
  Connections = {"c1", "c2"}
  Names = {"x"}
  PrefixSet = {"p"}
  Address <- MCSameAddress
  Keep = 1
  MessageBuffer = 1
  MaxMessages = 2
  RisInstances <- MCRisInstances
  FirstRouters <- MCFirstRouters
  LpmAnswers <- MCLpmAnswers
  Routers = {"x", "y"}
  RisWorkers = {"w1"}
  MaxRisChanges = 1
SPECIFICATION MCFairSpec
PROPERTIES ExpiredAreTerminated
CHECK_DEADLOCK FALSE
