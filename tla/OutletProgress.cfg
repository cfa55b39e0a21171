CONSTANTS
  Parts = {"delivery", "workers"}
  MinWorkers = 1
  MaxWorkers = 2
  FlowsPerRecord = 2
  FullBatch = 2
  minimumBatchSize = 1
  Events = {}
  p1 = p1
  p2 = p2
  w1 = w1
  w2 = w2
  NoPartition = NoPartition
  NoWorker = NoWorker
  Partitions = {p1}
  Workers = {w1, w2}
  MaximumBatchSize = 2
  MaxFlows = 2
  FlowsOf <- FirstNone
  MaxOffset = 3
  BadRecords <- OneBad
  Faults = {"commit", "fetchError"}
  MaxEvents = 1
SPECIFICATION MCProgressSpec
PROPERTIES RecordsCatchUp ScalingProgress
CHECK_DEADLOCK FALSE
