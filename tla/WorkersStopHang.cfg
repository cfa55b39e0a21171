CONSTANTS
  Parts = {"workers"}
  MinWorkers = 1
  MaxWorkers = 1
  FlowsPerRecord = 2
  FullBatch = 2
  minimumBatchSize = 1
  Events = {"signal"}
  p1 = p1
  p2 = p2
  w1 = w1
  w2 = w2
  NoPartition = NoPartition
  NoWorker = NoWorker
  Partitions = {p1}
  Workers = {w1, w2}
  MaximumBatchSize = 2
  MaxFlows = 1
  FlowsOf <- OneEach
  MaxOffset = 1
  BadRecords <- NoBad
  Faults = {}
  MaxEvents = 0
SPECIFICATION MCStopSpec
PROPERTIES StopReturns
CHECK_DEADLOCK FALSE
