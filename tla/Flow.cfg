CONSTANTS
  MinWorkers = 1
  MaxWorkers = 2
  FlowsPerRecord = 1
  FullBatch = 2
  minimumBatchSize = 1
  Events = {"signal", "startupDelay", "startError", "clientError", "fetchError", "badPayload"}
  Queries = {"q1"}
  Lookers = {"w1", "w2"}
  CacheDuration = 1
  CacheRefresh = 2
  QueryTimeout = 1
  ErrorThreshold = 2
  BreakerTimeout = 1
  MaxVersion = 1
  MaxClock = 5
  MaxCacheEvents = 2
  MaxFrame = 6
  Columns <- MCColumns
  NetflowRecords <- MCNetflowRecords
  SflowSamples <- MCSflowSamples
  BatchDecaps = {"none", "vxlan"}
  SampledHeaders <- MCSampledHeaders
  MaxRecords = 2
  NfExporters = {"x"}
  NfDomains = {1, 2}
  NfWorkers = {"w1", "w2"}
  MaxLayout = 2
  MaxPackets = 3
  MaxOutages = 1
  Seconds = {1, 2, 3}
  RateLimit = 2
  MaxLimited = 7
  Metadata <- MCExporterMetadata
  ExporterRules <- MCExporterRules
  InterfaceRules <- MCInterfaceRules
  ASNProviders <- MCASNProviders
  NetProviders <- MCNetProviders
  DefaultRate <- MCDefaultRate
  OverrideRate <- MCOverrideRate
  EnrichedFlows <- MCEnrichedFlows
SPECIFICATION MCSpec
CHECK_DEADLOCK FALSE
INVARIANTS PoolRight CacheRight DecodersRight BatchRight RatesRight EnrichmentRight
PROPERTIES TemplatesRight
