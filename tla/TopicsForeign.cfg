CONSTANTS
  MigConfigs <- MCMigConfigs
  MaxExecFailures = 1
  MaxMigRestarts = 2
  TopicConfigs <- MCTopicConfigs
  ClusterTopics <- MCClusterTopics
  ForeignOverrides <- MCForeignOverrides
  MaxStarts = 3
  MaxForeign = 1
  Contents <- MCContents
  MaxWrites = 3
  RawConfigs <- MCRawConfigs
  HealthChecks = {"core", "kafka"}
  MaxHealthRequests = 2
  GnmiEvents <- MCGnmiEvents
  SnmpFields <- MCSnmpFields
  MaxCommunities = 2
  ZeroTime = 18
  FlowsSent <- MCFlows
  Inventories <- MCInventories
  Requests <- MCRequests
  FilterColumns <- MCFilterColumns
  RowsOf <- MCRowsOf
  FixedValues <- MCFixedValues
  Operators <- MCOperators
  Starts <- MCStarts
  StartsExactly <- MCStartsExactly
  Occurs <- MCOccurs
  CompletionRequests <- MCCompletionRequests
  Limit = 2
  Endpoint <- MCEndpoint
  HttpRequests <- MCHttpRequests
  HttpClients = {"u", "v"}
  Ttl = 1
  MaxTime = 2
  Consoles = {"c1", "c2"}
  BuiltinFilters <- MCBuiltinFilters
  Users = {"u"}
  MaxFilters = 4
  StaticColumns <- MCStaticColumns
  StaticNames <- MCStaticNames
  PrimaryKeys <- MCPrimaryKeys
  DefaultIndexes <- MCDefaultIndexes
  SchemaConfigs <- MCSchemaConfigs
  MaxSchemas = 3
SPECIFICATION MCSpec
CHECK_DEADLOCK FALSE
PROPERTIES ForeignKept
