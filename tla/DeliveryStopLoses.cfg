SPECIFICATION MCSpec
CONSTANTS
  Parts = {"delivery"}
  MinWorkers = 1
  MaxWorkers = 1
  FlowsPerRecord = 1
  FullBatch = 1
  minimumBatchSize = 0
  Events = {}
  p1 = p1
  p2 = p2
  w1 = w1
  w2 = w2
  NoPartition = NoPartition
  NoWorker = NoWorker
  Partitions = {p1, p2}
  Workers = {w1, w2}
  MaximumBatchSize = 2
  MaxFlows = 1
  FlowsOf <- OneEach
  MaxOffset = 2
  BadRecords <- NoBad
  Faults = {"failedInsert"}
  MaxEvents = 2
SYMMETRY Symmetry
INVARIANTS StopLosesNothing
CHECK_DEADLOCK FALSE
