CONSTANTS
  MinWorkers = 2
  MaxWorkers = 6
  IncreaseRateLimit = 1
  DecreaseRateLimit = 2
  MaxHistory = 4
  Remotes = {"nms", "cmdb"}
  Pagination <- MCPagination
  Pages <- MCPages
  StaticExporters <- MCStaticExporters
  Exporters = {"e1", "e2", "e3"}
  MaxRemoteVersion = 1
  GnmiExporters = {"x", "y"}
  Queriers = {"g1", "g2"}
  MaxGnmiVersion = 2
  Components <- MCComponents
  DependsOn <- MCDependsOn
  Tracked = {"http", "kafka", "flow"}
  UdpWorkers = {"w1"}
  Buffers = {1, 2, 3}
  QueueSize = 1
  SocketSize = 1
  MaxFlows = 1
  MaxInletPackets = 3
  ExportWorkers = {"w1", "w2"}
  MaxBuffered = 1
  MaxExported = 3
SPECIFICATION MCSpec
CHECK_DEADLOCK FALSE
INVARIANTS ScalerRight StaticRight GnmiRight LifecycleRight InletRight ExportRight
PROPERTIES ScaleDownJustified ServicesProgress
