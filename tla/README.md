# Akvorado in TLA+

This directory holds a formal model of the parts of Akvorado where ordering,
concurrency and failure matter: TLA+ modules translated from the Go sources,
configurations that check them with TLC on small instances, and proofs that
TLAPS checks for all values of the constants. `PROJECT.json` tells, for each
definition, the lines of the source it models.

## The system

Akvorado is a set of services that share a configuration:

| Service | What it does | Talks to |
|---|---|---|
| inlet | receives NetFlow, IPFIX and sFlow packets over UDP or from files and sends them, undecoded, to Kafka | Kafka |
| outlet | reads packets from Kafka, decodes them, adds metadata, routing, GeoIP and network attributes, and inserts batches of flows in ClickHouse (and sends them to a second topic) | Kafka, ClickHouse, exporters (SNMP, gNMI, BMP) |
| orchestrator | serves the configuration to the other services, migrates the database, manages the Kafka topics | ClickHouse, Kafka |
| console | turns what users ask into SQL | ClickHouse |
| demo exporter | generates traffic | inlet, outlet |

A packet goes inlet → Kafka → outlet → ClickHouse. Kafka is what keeps the
flows when the outlet is late, stopped or down: the outlet commits the offsets
of what it has handled. The components of a service are started in order and
stopped in reverse order by `cmd/akvorado/components.go`. In the outlet: HTTP,
ClickHouse, flow decoders, metadata, routing, Kafka input, Kafka output, GeoIP,
networks, then core. Most of them have a tomb (a group of goroutines with a
dying state) that the daemon component watches: when one dies, the service ends.

### Components

State, operations, what is hard, and what makes each component correct:

- **outlet/kafkainput** — a pool of workers, each with its own Kafka client in
  the same consumer group. State: `workers`, `workerMu`, the channel of scale
  requests, the state of the scaler and its history of requests, what each
  client fetched and marked. Operations: start and stop a worker, start and stop
  the component, process the fetches, commit on revocation and on stop, handle a
  scale request. Hard: a worker reports its load to the scaler that may be
  stopping it, the stop holds the lock the scaler needs, offsets are committed
  apart from the batches they stand for. Correct when: the number of workers
  stays within its limits and follows the load, stopping ends, no goroutine
  escapes, no record is lost or counted twice.
- **outlet/clickhouse** — for each worker, a batch and a connection. State: the
  columns of the batch, the time of the last send. Operations: finalize a flow,
  flush with retries until the context is done. Hard: inserts whose answer is
  lost, a flush that is canceled. Correct when: what was batched is inserted, or
  still in the batch.
- **outlet/core** — the callback that decodes a record and enriches its flows,
  the rate limit of the exporters, the classifiers. It asks metadata, routing and
  networks for each flow. Hard: flows dropped in the middle of a record.
- **outlet/networks**, **outlet/geoip**, **common/remotedatasource** — a prefix
  tree with the attributes of networks, merged from GeoIP databases, remote
  sources and the configuration. State: the published databases, the content of
  each source, two flags for rebuilds that are coalesced, the tree. Operations:
  open and replace a database, fetch a source, rebuild, look up, start, stop.
  Hard: memory-mapped files that are closed while they are walked, rebuilds that
  are skipped because another one is said to see the change. Correct when: the
  tree ends with the latest content of everything, and each attribute is the one
  of the most specific network that sets it.
- **outlet/routing/provider/bmp**, **common/helpers/intern** — a RIB fed by BMP
  connections. State: peers and their references, stale peers and one timer, a
  tree of prefixes that is read without a lock, shards with routes, interned
  values and free lists. Operations: connection up and down, peer up and down,
  route monitoring, removal of the stale peers, add, remove and flush routes,
  look up. Hard: indexes and references that are used again, lookups that read
  an older tree, connections that end while their messages are processed.
  Correct when: the RIB has the routes that were announced, and no other.
- **outlet/metadata** and its providers (SNMP, gNMI, static) — a cache of the
  names of the exporters and of their interfaces. State: the cache with two
  times for each entry, calls in flight, a breaker for each exporter. Hard:
  refreshes that overtake each other, negative answers, expiration.
- **outlet/flow** — the parsers of NetFlow, IPFIX and sFlow, and of the headers
  of a sampled frame. State: the templates and the sampling rates they learn,
  shared by the workers and saved at the stop; the flow message of each worker,
  whose values are appended to the columns of the batch as they are decoded.
  Hard: data before its template, observation domains, packets of an exporter
  handled by two workers, a panic or a sample that is given up in the middle of
  a flow, headers nested in any order or cut anywhere. Correct when: a row has
  the values of one record, decoded with what its own exporter announced.
- **inlet/flow**, **inlet/kafka** — UDP workers and a file input, a pool of
  buffers shared with the Kafka client. Hard: a buffer must not go back to the
  pool before the client is done, and the workers block when the client is full,
  at the stop too. **outlet/kafkaoutput** — a producer that must never block.
- **outlet/routing/provider/bioris** — lookups in remote RIBs over gRPC, under a
  lock that a refresh takes to publish the routers it found.
- **common/daemon**, **cmd/akvorado/components** — start in order, stop in the
  reverse order, a component that fails ends the service.
- **common/reporter** — the health checks: all of them at once, with a deadline,
  through channels that the goroutines of the components may be slow to read.
- **common/httpserver** — a cache of the answers, with a sweeper.
- **common/schema** — the columns, altered by the configuration and by custom
  dictionaries, with a global map of names that survives a restart of the
  orchestrator in the same process; the batch of flows being built. Correct when:
  the sorting key is stored, the fields of the Protobuf messages never move, and
  names lead to their columns.
- **orchestrator**, **cmd/akvorado/orchestrator.go** — the configuration file is
  parsed, watched, parsed again, and the orchestrator starts over in the same
  process when it changes. Hard: what is written in between.
- **orchestrator/clickhouse**, **orchestrator/kafka** — migrations that can be
  interrupted and run again, also with a newer configuration, and the alignment
  of the topics, whose requests may fail after they had an effect, or be answered
  with a refusal that nobody looks at.
- **console** — graphs and completions: which table has the data, how the axes
  are aligned, what is offered. **console/database** — saved filters, shared by
  several consoles that start and stop.
- **demoexporter**, configuration, SQL and HTTP helpers — sequential code with
  little state.

`PROJECT.json` lists them all with what is modelled, and the hazards of each.

## Modules

| Module | Models | Extends or instantiates |
|---|---|---|
| `WorkerCount` | the number of workers, and the requests that change it through `nextWorkerCount` | |
| `Scaler` | the goroutine of `scaler.go`: rate limits, history of requests | extends `WorkerCount` |
| `KafkaWorkers` | the pool of workers, the channel of scale requests, `workerMu`, the tomb, start and stop | extends `WorkerCount` |
| `Delivery` | offsets, rebalances, batches, inserts, stops and crashes, from Kafka to ClickHouse | |
| `DeliveryProofs` | theorems about `Delivery` | extends `Delivery` |
| `NetworkTree` | merging tables of networks, flattening them in a tree, looking up | |
| `Networks` | GeoIP databases, remote sources, coalesced rebuilds, start and stop | extends `NetworkTree` |
| `Intern` | pools of interned values with counted references | |
| `InternProofs` | lemmas about the pools: chains, counts, values that are used again | extends `Intern` |
| `RouteStore` | what the RIB promises: a set of routes | |
| `Rib` | the RIB: tree, shards, indexes with generations, pools, concurrent lookups | extends `Intern`, implements `RouteStore` |
| `RibProofs` | theorems about `Rib`, the refinement of `RouteStore` included | extends `Rib`, `InternProofs` |
| `Bmp` | connections, message channels, peers, stale peers, updates of the RIB | instantiates `RouteStore` for the RIB |
| `BioRis` | instances, the refresh of their routers, lookups and their lock | |
| `RoutingProofs` | theorems about `Networks` and its tree, `Bmp` and `BioRis` | extends the three |
| `MetadataCache` | the metadata component: lookups, coalesced calls, breaker, refresh, expiration, the file of the cache | |
| `StaticProvider` | the static provider and the remote sources it merges | |
| `Gnmi` | the collectors of the gNMI provider, the channel of the refreshes, the queries that wait | |
| `MetadataPolls` | what gNMI events and SNMP answers become | |
| `Frames` | the parsers of a frame, with decapsulation | |
| `FlowBatch` | the flow message and the columns of the batch, NetFlow and sFlow records | what the parsers give is a constant, which `MCFlow` takes from `Frames` |
| `NetFlow` | templates and sampling rates, workers, stop, crash, restoration | |
| `RateLimiter` | the limit on the flows of an exporter | |
| `Enrichment` | what is added to a flow: metadata, rules with their caches, sources of AS numbers and prefixes | |
| `FlowProofs` | theorems about `MetadataCache`, `NetFlow`, `RateLimiter`, `Enrichment` and `FlowBatch` | extends the five |
| `KafkaOutput` | the producer of the enriched flows and their encoding | |
| `Inlet` | sockets, UDP workers, file input, buffers, Kafka client, stop | |
| `Lifecycle` | components of a service, tombs, signals | |
| `ServicesProofs` | theorems about `WorkerCount`, `Scaler`, `KafkaWorkers`, `StaticProvider`, `Gnmi`, `Lifecycle`, `Inlet` and `KafkaOutput` | extends them |
| `Health` | a request of the health checks, the checks, the components | |
| `Orchestrator` | the file, its watcher, the two parses, restarts, requests of the services | |
| `ConfigMigration` | the hooks that migrate an older configuration | |
| `Topics` | the topics and their alignment | |
| `Migrations` | the tables and views of ClickHouse, and the statements of each step | |
| `Schema` | the columns, as a configuration alters them | |
| `Charts` | the choice of a table and of an interval, line and Sankey graphs | |
| `Completion` | the completions of a filter, and the answers that are kept for a while | |
| `SavedFilters` | the filters of users and of the configuration | |
| `ManagementProofs` | theorems about `Topics`, `SavedFilters`, `Health` and the answers that `Completion` keeps | extends the four |

Each `MC` module gives a module the values TLC needs. Definitions that follow a
comment that starts with "Mistake:" are not part of any specification: they are
plausible errors that a property must catch. Small components that do not
interact share a run: its `MC` module (`MCManagement`, `MCServices`, `MCFlow`,
`MCOutlet`, `MCRouting`) has a variable `part` that never changes, and the state
spaces of the parts add up instead of being multiplied.

`KafkaWorkers` and `Delivery` are two views of the same goroutines. The first
one has locks, channels and the life of the workers, and counts the rows of a
batch; the second one has the records themselves, and takes starting and
stopping a worker as given. `Rib` and `Bmp` compose through `RouteStore`: `Rib`
implements it, step by step, and `Bmp` uses it.

### From the code to the modules

**Kafka workers.** A worker is an index in `c.workers`; its program counter is
where `startOneWorker` is: polling, processing the flows of a record, flushing,
sending a scale request, shutting down. `startOneWorker` and `getWorkerCount`
are single steps, as they do not block with `workerMu` held; stopping a worker
is not, and keeps `muOwner`. The scaler takes a request, gets the count, then
scales one worker at a time while another goroutine drains the channel.
`exiting` is what the tomb learns of a goroutine that returned, which may come
later than what `StopWorkers` waits for.

**Delivery.** `next` and `limit` are what is left of the fetch of a partition,
`marked` is what `MarkCommitOffsets` was called with. Automatic commits happen
at any time; the worker commits when partitions are revoked and when it closes.
A record has up to `MaxFlows` flows: the callback appends the row of each one
(`AppendRow`), sends the batch when it is full or old, goes on with the next flow
also when a flush was canceled, and returns (`EndRecord`); `given` counts the
rows of the record so far. The rows of a record are taken to be the same each
time it is read (`FlowsOf`): those that decoding, the rate limit and the
enrichment keep are in other modules. `batch` counts the copies of each row in
the batch of a worker, `stored` those in ClickHouse. A partition moves only when
its owner polls (`BlockRebalanceOnPoll`). `lost` is a history variable: the rows
of the batches of those that crashed or gave up.

**Networks.** `content` has what each database opened so far contains,
`databases` the one that is published for each path, `closing` those to be
closed in the background. `opening` is the step `openDatabase` is at. The
program counter of each source, of the GeoIP goroutine and of the start follows
`rebuild`: set `rebuildWanted`, take the lock, skip or read the databases under
their own lock, publish. `built` has what the tree was made from; the tree is a
function of it and of the order of a Go map, which is why properties about
lookups are checked for all orders.

**RIB.** A route has references to interned values, in a shard. The tree is
read in one step and the routes in another, with the generation that tells
whether the index is still the one of the prefix. Adding a route is two steps
(the tree is published before the route is there, with the lock of the shard
held). Flushing a peer takes the locks of all the shards, one after the other.
A next hop stands for the next hop and the attributes, which are handled alike;
a prefix is a sequence of bits.

**BMP.** Each connection has a reader, a channel, a processor and a cleaner, as
`serve.go` does. A route monitoring message takes the reference of the peer,
then updates the RIB, in two steps. Times are relative: each stale peer has what
is left of its delay, and a tick lowers them all with the timer. The timer is
urgent: time does not pass when it is due.

**Metadata.** In `MetadataCache`, the calls for an entry are in slots: slot 0 is
the call that lookups share, the others are refreshes, which are not in the same
singleflight, so that the answers of both may cross. An item has the times of the code; the breaker
is the one of the library, with its three states. `StaticProvider` follows
`UpdateSource` with its lock released between the merge and the publication;
what `initStaticExporters` leaves out is left out. `Gnmi` has one state machine
per collector, and offers on the unbuffered channels as they are. `MetadataPolls`
and `Completion` compute: each state is an input with its output.

**Flow.** A value in `FlowBatch` is the record it comes from and a number, so that
a value in the wrong row or the wrong column shows. `decodeRecord` and
`decodeSample` follow the order of the code, with the calls to `appendUint` and
the like that change columns at once, `Undo` and `Finalize`; `DecoderPanics`
stops them after any of their fields. `NetFlow` parses a packet with the templates known at that time and
decodes its records with the rates known later. `Enrichment` is `enrichFlow` with
the caches of the classifiers as variables. `RateLimiter` counts flows and keeps
the factor as a fraction, as the code has a float.

**Inlet, daemon.** The workers of `Inlet` are at the call they are blocked in;
`inFlight` is what the Kafka client has, `payloads` what is in the buffers. In
`Lifecycle`, `terminated` is the channel that the watchers of the tombs and the one
of the signals close. A component whose start fails may have started goroutines
before (`inlet/flow/root.go:111-123`): nothing stops them until the process ends,
while what they use is stopped (`failedToStart`).

**Orchestrator.** `Migrations` has one step per `migrateStep`, planned from what
is in the database at that time, then executed statement after statement: the
database is a function from names to tables and views with their columns,
indexes, settings and sorting key. `Topics` has the requests to the brokers, each
of which may succeed, fail, succeed without an answer, or be refused for the topic
it is about: the errors of the topics are in the answers, which the code drops
(`kafka/root.go:128,141,181`), so that the orchestrator goes on as if it was done
(`TopicRefused`); a description that is refused is one without overrides.
`refused` is a history variable. `Orchestrator` has the
events of the watched directories in a queue, and reads the file when it handles
them, which is later. `Schema` computes a schema from a configuration with the
global map the previous ones left, from names to keys and back; a dictionary that
is refused leaves the names of those that came before it. Panics are a state: the
mirror of a column that is missing, and a key of a previous schema, out of the
index of this one.

**Console.** Times in `Charts` are numbers of seconds that are small enough
for TLC to have all the rows of a table: a flow has its columns and a time, and
the tables are what ClickHouse would have aggregated. The console resolves a
request with the tables it found at its last look (`known`), ClickHouse answers
with what is left of them. In `Completion`, custom columns and communities are
looked for with their case, the other texts without, and only the queries on the
flows for AS, ports and networks leave out empty values. `SavedFilters` has one
statement per step, from several consoles.

## What the runs check

| Run | Question | Bounds |
|---|---|---|
| `delivery_faults` | what is lost and what is duplicated, with all the faults | 2 partitions of 2 records, the first record not decodable and the second of two rows, 2 workers, batches of 2, 2 faults or stops |
| `delivery_stop_loses` | does a stop lose nothing (it may lose a batch) | as `delivery_faults`, with one row per record and inserts that fail on stop |
| `outlet_progress` | does each record end in a batch; does scaling ever block, or leave the tomb dead | 1 partition of 3 records: no row, not decodable, two rows; 2 workers, 1 event; a pool of 1 to 2 workers, 2 flows per record, batches of 2 |
| `workers_stop_hang` | does a stop always end (it does not) | 1 worker |
| `networks` | are databases closed once and not while walked, do coalesced rebuilds see each change, does a file that changes end in the tree, do lookups merge as they should | 1 database, 2 sources, 2 tables each, 1 change, addresses of 2 bits |
| `rib` | is the RIB the set of routes that updates describe, are pools and indexes exact, are late lookups right | 2 peers, 1 NLRI, 2 next hops with the same hash, 3 nested prefixes in 2 shards, 2 routes, 3 prefixes added |
| `routing` | do BMP connections that end at any time leave routes behind, or remove routes of others; do lookups in a RIS that changes ask where the answer is, and end | 2 exporters, 1 peer name and 1 prefix each, 3 messages each, a channel of 1, a delay of 2; 2 instances, 2 routers, 1 worker, 1 change |
| `bmp_reconnect` | are the peers that expire the ones of terminated connections (not when the exporter is back on the same port) | 2 connections from the same address, 2 messages each |
| `flow` | the pool with all the faults; frames, batches, templates, rates, enrichment; the cache of the metadata | 1 to 2 workers, batches of 2; frames of 6 headers; 2 records of each decoder out of 3; 3 packets, 2 domains, 2 workers, 1 outage; 7 flows over 3 seconds; 2 exporters with 2 interfaces, 5 interface rules; 1 entry, 2 lookups at once, 5 ticks, 2 errors or restarts |
| `services` | the scaler, the static provider, gNMI, the life of a service, the inlet, the producer of the outlet, with their liveness | 2 to 6 workers, windows of 1 and 2 ticks, 4 recorded requests; 2 sources with 1 change each; 2 exporters, 2 queries; 5 components, 3 of them with a tomb; 3 packets, 3 buffers, a client of 1 record; 2 workers, 3 flows, 1 buffered |
| `management` | the orchestrator, the console, the health checks and what pollers compute | 3 successive configurations of the database on a single server and on a cluster with shards, 1 failed statement, 2 restarts; 3 starts for topics, 3 configurations; 3 writes of the file among 5 contents; 2 checks, 2 requests; 2 communities; tables of 2 resolutions over three days of small length; 2 consoles, 4 filters; 37 schema configurations, 3 after one another in a process |
| `topics_foreign` | are overrides of others kept when the synchronization is not strict (they are not) | 3 starts, 1 override |

### The properties

Properties of a component are conjoined under one name, with each part stated
and commented in its module:

| Property | Parts |
|---|---|
| `PoolRight` (`KafkaWorkers`) | types; a goroutine that runs is listed; nothing runs after the stop; the maximum is exceeded by `MinWorkers - 1` at most |
| `ScalingProgress` | a worker that reports its load, and a scaling, are not blocked for ever; no panic as long as nothing stops |
| `ScalerRight`, `ScaleDownJustified` (`Scaler`) | types and limits; a scale down is justified by the requests of the window, and only then |
| `StoredOnce`, `LossIsABatch`, `RecordsCatchUp` (`Delivery`) | no duplicate without a fault that explains it; what is lost is the batch of a worker that crashed or gave up, and a batch is larger than the size at which it is sent only with a worker that is being stopped; each flow ends in a batch |
| `NetworksRight`, `LookupsMergeAll`, `FilesRefreshed` | databases closed once, and not while walked; what is built is complete once wanted rebuilds are done; lookups merge the tables; a file that changes ends in the tree |
| `RibSound`, `LookupsRight`, `ImplementsRouteStore` | routes distinct, pools and indexes exact; a late lookup gives no route of another prefix; refinement |
| `RoutesRight` (`Bmp`) | the RIB has what each exporter announced, each route has an owner |
| `RisRight` | a lookup asks an instance that knows the router, the exporter itself if one does |
| `RoutingProgress` | peers of terminated connections, and only they, go away; lookups in a RIS and its refreshes end |
| `CacheRight` | what is cached was true at its time; it is not stale for longer than the refresh; what is not used leaves |
| `DecodersRight` | the length of layer 3 is the one of the header the columns come from; with a tunnel, only inner columns (`FramesRight`); the row of the reverse direction is the mirror (`ReverseIsMirror`) |
| `BatchRight` | columns aligned; a row is the one its record gives alone; what is left behind comes from a panic or a sample that was skipped |
| `TemplatesRight` | templates and rates are those of the exporter, domain and sampler; only a crash forgets them |
| `RatesRight` | the limit holds for each second; the factor makes up for the drops |
| `EnrichmentRight` | caches change nothing; the first rule and the first source win |
| `StaticRight`, `GnmiRight`, `PollsRight` | the configuration wins; no answer before a poll; the order of the events and the split between communities do not matter |
| `LifecycleRight`, `InletRight`, `ExportRight` | dependencies are up, components are stopped once, and what runs at the exit is what a component that could not start had started; payloads intact, each packet has one fate, nothing is sent after the stop; messages are whole, each flow has one fate |
| `ServicesProgress` | a lasting overload leads to the maximum of workers; each subnet of the sources of the static provider ends up with what they serve now; a gNMI query is answered; a failure ends the service; the inlet stops; the workers are never blocked by the producer |
| `HealthRight`, `MigrationKeeps` | an answer is about all the checks, of this request; an older configuration keeps its meaning or is refused when it is ambiguous |
| `ManagementProgress` | migrations end; the file that is left alone is served; a health request is answered |
| `TopicsRight`, `MigrationsRight` | partitions and overrides as wanted whatever failed, but for what a broker refused to this start; the schema is the wanted one, a second run has nothing to do, raw tables of others are kept |
| `ColumnsRight` | the sorting key is stored; Protobuf fields never move; groups are disabled as a whole; the columns and their keys are those of a process that starts with this configuration (`SameAsFresh`); custom columns are the ones the configuration wants, under their names; reversing a direction twice changes nothing in a process that built one schema |
| `ConsoleRight`, `AnswersRight`, `FiltersRight` | each point is the traffic of its interval, the best table is used, a graph lacks nothing but what expired since the tables were looked at, percentiles, links conserve traffic; completions match and none is missing, cached answers are for the same request and fresh; filters of the configuration are exact, those of users stay |

### Why the bounds are enough

Each bound is the smallest one with which the mistakes the properties are for
do show up; the mistakes in the modules are the evidence.

- *Workers.* Two make one that is stopped and one that remains, or an owner of a
  partition and its next owner. Two records in a batch of two make a batch that
  is full, one that is not, and a partition that ends in the middle of it. A
  window of two ticks separates the increase limit from the decrease limit, and
  a maximum of 6 makes the dichotomy take several steps from 2. A record of two rows
  makes a batch that is sent in the middle of a record. With batches of two
  rows a worker asks for more workers or for less; what it says in between is
  handled as a request for less, that the rate limit may drop.
- *RIB, BMP, RIS.* Three prefixes in a tree of which two share a shard make an
  index that is freed and used for another prefix while a lookup that read the
  old tree is on its way. Two next hops with the same hash make a chain with a
  value in its middle. Two exporters make timers that overlap. Two instances of
  which one knows a router the other does not make the choice matter.
- *Metadata.* A query and two lookups at once share a call, and a refresh
  overtakes it. Five ticks are longer than the refresh and the expiration
  together. Two sources that know the same subnet, one with two pages, make the
  merges overlap. Two communities make one that answers part of what is asked.
- *Flows.* Frames of six headers hold a tunnel of each kind with what it carries,
  or labels and tags before an address, and `MaxFrame` cuts them anywhere. Two
  records in a batch, the first of which may be stopped anywhere, make the second
  inherit what is left. Two domains, two layouts of a template and three packets
  make data that come before, between and after two announcements, on either
  worker and across one outage. Seven flows over three seconds, with a limit of
  two, fill a second, go to the next and come back.
- *Orchestrator.* Three configurations make a column added, one that changes of
  type, one that is stored instead of computed, indexes and settings that come,
  change and go, a dictionary that gets an attribute, and a raw table left to
  another version. One statement that fails and two restarts stop a migration
  anywhere, also the one that repairs it. Three starts make a topic that is
  created, aligned, and aligned again after a request without an answer, or that
  the broker refused, once or each time.
- *Console.* The tables have resolutions of 2 and 7 with periods that do not
  contain one another and ages that differ. Three times of requests, with two
  numbers of points, select each of them. Two consoles start and stop while they
  update the same filters.
- *Schema.* Each configuration follows any other, and any other follows it: what
  matters is what the previous ones left in the global map, also when they put a
  name at two keys. Keys that a dictionary no longer has, and that another one has
  now, are among them.

Counters and inputs that the code does not bound are capped by a named constant
in the guard of the action that would exceed it: `MaxHistory`, `FlowsPerRecord`,
`MaxOffset`, `MaxFlows`, `MaxEvents` (workers and offsets); `MaxChanges` (networks);
`MaxRoutes`, `MaxAdded`, `MaxMessages`, `MaxRisChanges` (routing); `MaxVersion`,
`MaxClock`, `MaxCacheEvents`, `MaxRemoteVersion`, `MaxGnmiVersion`,
`MaxCommunities` (metadata); `MaxFrame`, `MaxRecords`, `MaxLayout`, `MaxPackets`,
`MaxOutages`, `MaxLimited` (flows); `MaxInletPackets`, `MaxFlows`, `MaxExported`
(inlet, output); `MaxExecFailures`, `MaxMigRestarts`, `MaxStarts`, `MaxForeign`,
`MaxSchemas`, `MaxWrites`, `MaxHealthRequests`, `MaxTime`, `MaxFilters` (orchestrator, console).

Deadlock is checked in `networks` and `rib`, whose goroutines never all stop.
The other runs have parts that really end: after a stop or a crash with nothing
left to do (workers, offsets, inlet, services, BMP sessions that are over), or
because a part is a computation (a frame, a batch, a graph, a configuration) that
ends with its result. There, that everybody does not wait for everybody is what
the liveness properties say.

### Fairness

In general: goroutines that can run do run, and strong fairness is only for what
waits on a Go mutex or on a channel, which the runtime hands over in the order of
arrival. Exporters, users, files, signals and the network owe nothing. In a run
with parts, fairness is that of the part that runs.

- `Scaler`: ticks happen, and requests to increase keep coming with their
  workers starting. `OverloadReachesMax` is about this load only.
- `KafkaWorkers`: each goroutine that can run runs. Strong fairness is given to
  those that wait for `workerMu` or for the channel. Nothing is assumed of Kafka,
  of ClickHouse, nor of the signals.
- `Delivery`: goroutines run, rebalances end, an outlet that stopped is started
  again, and a worker is not always deprived of its partitions just before it
  polls.
- `Networks`: goroutines run and file events are delivered. The rebuild of the
  GeoIP goroutine gets strong fairness for the lock it competes for. Fetches may
  fail forever.
- `Bmp`: goroutines run, time passes, a processor that returned closes its
  connection. Exporters may stay silent forever.
- `BioRis`: a call that no instance answers ends at its deadline, the refresh
  ends the same way, and a lookup that waits for the read lock gets it.
- `StaticProvider`: tickers and goroutines run; a page that is asked for again
  and again is answered in the end (strong), without which no source is ever
  complete.
- `Gnmi`: collectors run, their polls end one way or the other; a query that
  offers to receive again and again on the shared channel is served (strong).
- `Lifecycle`, `Inlet`, `KafkaOutput`: goroutines run, and the Kafka client calls
  its callbacks. Neither the signals nor new packets are assumed.
- `Migrations`: statements end, with or without an error, and a migration that
  failed is tried again. `Orchestrator`: events of the file are delivered and
  handled. `Health`: the deadline of a request passes; a component may be slow for
  ever.

## What does not hold

These are disagreements between the code and what it or the documentation says,
found while modelling. The first four have a run.

1. **Stopping the outlet may hang** (`workers_stop_hang`). `StopWorkers` holds
   `workerMu` while it waits for a worker. The scaler may be waiting for the
   same lock in `getWorkerCount`, and does not drain its channel then. A worker
   that still has flows of its record to process, with a batch that cannot be
   sent, sends one request per flow and blocks when the channel is full.
2. **A stop may lose a batch** (`delivery_stop_loses`). A worker commits its
   offsets, then has 10 seconds to send its batch. If ClickHouse does not answer
   meanwhile, the rows are lost while `80-design.md` says that flows are not.
3. **Routes of an exporter that came back may be removed**
   (`bmp_reconnect`). `staleUntil` is never cleared: when an exporter connects
   again from the same address and port before the delay ends, its peers are
   removed with their routes while its connection is established. In the same
   situation, a route that is being added when the peer is removed stays without
   an owner, as the reference of the peer was taken earlier: `RoutesRight` only
   holds because connections have distinct addresses in `routing`.
4. **Overrides of others are removed without strict synchronization**
   (`topics_foreign`). `config-entries-strict-sync` only decides whether the
   topic has to be altered: when another entry is wrong, the overrides that are
   not listed are deleted as well (`orchestrator/kafka/root.go:172`).

And without a run of their own. In the outlet:

- `increaseWorkers` may take `workerMu` after `StopWorkers` stopped the last
  worker: the tomb is dead, and asking it for a goroutine panics (`NoPanic` holds
  while scaling only).
- When no worker was ever started, `Stop` waits for a tomb that never dies.
- When `MinWorkers` is above 1, `StartWorkers` and the scaler may both add
  workers and exceed the maximum, by `MinWorkers - 1` at most (`WorkersCapped`).
  The run has `MinWorkers = 1`, as configured by default; with two, a third worker is
  reached. For all values, it is the theorem `PoolIsRight`.
- The age of a batch is only looked at when a flow comes
  (`clickhouse/worker.go:94`): `maximum-wait-time` is not a maximum when flows
  stop.
- A consumer group without committed offsets starts at the end of the
  partitions, and so skips what was sent before it is first assigned them. An
  offset of zero is marked when the context ends before the first record of a
  fetch (`consumer.go:85`); the client ignores it.
- A GeoIP file that is replaced between its opening and the moment its directory
  is watched is not seen (`missed` in `Networks`; `FilesRefreshed` excludes it).
- When two remote sources of networks set the same field of the same prefix, the
  order of a Go map decides at each rebuild (`networks/root.go:255`);
  `LookupsMergeAll` is about all the orders.
- The row that follows a panic in a decoder may have columns of the flow that was
  being decoded (`flow/decoder.go:60`); `RowsFromOneFlow` sets it aside.
- A lookup that read the tree before the prefix it found was removed gives no
  route, even when a less specific prefix has one (`LookupsRight` says so).
- BMP errors to be treated as withdrawals are ignored: the previous route stays.
- The prefix length and the next hop are chosen apart, each from the first source
  that has one (`core/enricher.go:235-265`): they may be those of two different
  routes, while `50-configuration.md:667` has one value taken from one source.
- Once a remote source is updated, the exporters of the configuration lose the
  region, role, tenant, site, group and `skip-missing-interfaces` they were given
  (`metadata/provider/static/source.go:53`); `StaticRight` is about the rest.
- When all the providers are skipped, the negative answer replaces what the cache
  knows until the next refresh (`metadata/root.go:250`).
- A speed in bits per second that exceeds 32 bits is refused by the gNMI
  collector: an interface above 4.2 Gbps has no speed (`gnmi/utils.go:35`).

In the orchestrator and the console:

- On a cluster, the view that is dropped before its table is altered has the name
  of the local table (`migrations_helpers.go:564`), which is not the one it is
  created under (lines 730-731): the view is there while its table changes.
  `MigrationsRight` holds, as the view is created again in its own step when its
  query changes.
- Two orchestrators that start together may both add partitions to a topic; two
  consoles that start together may add the same filter twice. `Topics` has one
  orchestrator; `FiltersRight` allows duplicates until a console starts alone.
- A topic that a broker refuses to create, to extend or to alter is logged as done,
  and the start succeeds (`orchestrator/kafka/root.go:128,141,181`): `TopicsAligned`
  is about what was not refused. A start that finds no topic creates it as it is
  wanted, or leaves the one that somebody else has just created, unaligned until
  the next start.
- Whether the file is watched is decided by the first parse only: a file that is
  written between the two parses is watched, or not, as its previous content said.
- Disabling a column that another one depends on is checked the wrong way round
  (`schema/root.go:70`): `DstASPath` may be disabled alone, although `Dst1stAS`
  reads it.
- A custom dictionary attached to one direction only panics
  (`schema/definition.go:583`). After a restart in the same process, the names of
  the columns that were removed still resolve (`schema/root.go:178`). The schema
  that is built is the one of a new process (`SameAsFresh`), with two exceptions:
  a configuration that still names a removed column in its options panics with an
  index out of range (`schema/generic.go:19`), and one that no process can start
  with, as a mirror is missing, is accepted by the orchestrator when a previous
  configuration had this mirror, and served to services that panic. Reversing the
  direction of a column may then go out of the index too, or lead to an unrelated
  column, but only the console, which builds its schema once, reverses columns:
  `ReversedTwice` is about it.
- An index below zero in the path of a configuration panics
  (`orchestrator/http.go:31`), which the server turns into an error.
- A line graph of one point panics (`console/line.go:405`). A completion that
  fails answers 200 with nothing, and this answer is kept by the cache. A port
  that is both in the flows and in the dictionary is offered twice.

Some hazards have no property: the age of a batch and the width of a speed, two
orchestrators or two consoles at once, which are told above; the rows that are
sent to a raw table while it has no view (`migrations_helpers.go:354`); a table
setting that ClickHouse would report otherwise than it was given, and that each
start would modify (`migrations_helpers.go:68`); the records that are left in
the Kafka client when the inlet closes it without a flush (`inlet/kafka/root.go:94`;
their end is one of the fates of `InletRight`); a gRPC deadline
that counts as an error of the instance (`bioris`).

## What is proved

Each theorem is about all the values of the constants that the named assumption
of its module allows. The invariant it rests on was checked with TLC first, then
proved to hold initially and to be kept by each action; the modules have a lemma
for each action, or for each part of the invariant that an action disturbs.

Induction over data is done by hand, as the induction theorems of the library
cannot be instantiated: a recursive function over `0..n` is given with its
equation, and what it computes is proved by looking at the least index where it
would be something else (`Least`, itself from the well-foundedness of the
natural numbers). Where an order between data is needed, it is one over a number
(the length of a prefix, an age, a position).

### The workers and the services

`ServicesProofs` is about `WorkerCount` and `Scaler`, for all limits
(`WorkersAssumption`) and all rate limits (`RateLimitAssumption`), about
`KafkaWorkers`, for all sizes of records and batches and all the combinations of
faults (`PoolAssumption`), and about the other modules of the `services` run.

- `CountBounded`: the number of workers stays within its limits. The inductive
  invariant is `LimitsInv`: the bounds themselves, with the types of the two
  variables. The bounds alone are not inductive, as `nextWorkerCount` on a
  number that is not natural says nothing. It rests on `IncreaseBounds` and
  `DecreaseBounds`, which say what `nextWorkerCount` returns.
- `ScalerIsRight`: `ScalerRight`, the limits and the type of the state. What needs an
  argument is the loop that trims the history: it is a `CHOOSE` of where to stop,
  and `TrimType` shows that there is such a place.
- `ScaleDownIsJustified`: `ScaleDownJustified`. The history is sorted by age
  (`ByAge`), so that the loop, which stops at the first request that is young
  enough, keeps exactly the recent ones; their indexes before and after the trim
  are in bijection, and the counts are the same.
- `DichotomyHalves`, a lemma: each overload halves the distance to the maximum.
- `PoolIsRight`: `PoolRight`, that is that goroutines are listed, that nothing
  runs after the stop, and the bound on the workers. `CountInv` counts those there
  are, those that `StartWorkers` has still to start and those the scaler has decided
  on: the scaler decides after the first one was started, which is where the
  `MinWorkers - 1` comes from. `ScalerInv` says who has `workerMu`, `DeadInv` what
  a dead tomb excludes.
- `StaticIsRight`: `StaticRight`, for all subnets that are, as prefixes are, nested
  or disjoint, and all pages of the sources (`StaticProviderAssumption`).
  `StaticInv` says that what is published, and what is merged and not yet
  published, has the subnets of the configuration with the configuration as their
  origin. A query finds one: among the finitely many subnets that contain an
  exporter, one is in all the others (`MostSpecific`), and it has a configuration.
- `GnmiIsRight`: `GnmiRight`. A collector that offers its channel has a state that was
  polled, and so has the one of a query that received from it (`GnmiInv`).
- `LifecycleIsRight`: `LifecycleRight`, for all components whose dependencies come
  before them (`LifecycleAssumption`), wherever a start fails, with or without
  goroutines. What is started is a beginning of the list, the last one first
  (`Order`): removing its head leaves a beginning of the list, in which all the
  dependencies are. A component that failed to start is not in it, and is never
  stopped.
- `InletIsRight`: `InletRight`, for all sockets, workers, buffers and room in the
  client (`InletAssumption`). `PacketsInv` spreads the packets over four places
  (sockets, workers, client, fates) that are disjoint and have them all; the
  others say that a packet is once at its place, and `BuffersInv` that a buffer is
  free, with the worker that filled it, or in the client, with one of them only.
- `ExportIsRight`: `ExportRight`. `EncodersInv`: what a worker has encoded is of the
  flow it encodes and of no other, and two workers do not have the same flow;
  `OutcomesInv`: a finalized flow is in the producer or has a fate, once.

### From Kafka to ClickHouse

`DeliveryProofs` is about `Delivery`, for all sets of partitions and workers, all
batch sizes, all numbers of flows in the records, all records that cannot be
decoded and all combinations of faults (`DeliveryAssumption`). TLC checks the same
three invariants with two partitions of two records and two faults.

- `DeliveryTypeOK`: the type of the state. A batch exceeds the size at which it is
  sent by the rows of a record, but one, at most (`MaxBatch`): the worker goes on
  with the record it is at when a flush is canceled. The bound is not inductive:
  `TypeInv` adds `FullInv` (a full batch is about to be sent, or its worker is
  canceled and processes no other record; within a record, the excess is at most
  the rows it gave), `CurrentInv` (the partition a worker processes is one of its
  own) and `GivenInv` (rows are counted for the record that is processed only).
- `DeliveryLosesBatches`: `LossIsABatch`. `LossInv` adds `MarkedInv`: what is
  marked for a partition is not above what its owner read. It makes `CommitPasses`
  hold: a commit, at any time, passes no record that was not already read. Then a
  flow is passed when it is read only, and gets to the batch in the same step, and
  the end of a record passes nothing more than its last flow did.
- `DeliveryStoresOnce`: `StoredOnce`. `OnceInv` says, as long as there was no
  crash, failed commit or lost answer, that no flow was read from where the owner
  of a partition is (`Fresh(p, next[p], given[p])`), and, unless it is processing
  this very partition, none from where the next owner would start. The last part
  is why `Revoke` and `Close` have to happen between two fetches, and why the
  commit comes before the partition is released.

### The RIB

`RibProofs` is about `Rib`, for all prefixes, shards, peers, readers and addresses
(`RibAssumption`), whatever is interned and whatever its hash is. It uses
`InternProofs`, which is about the pools.

- `LookupsAreRight`: `LookupsRight`. In `IndexInv`, `TreeInv` says that an index is
  free or the one of a single prefix, which has its generation; `AddingInv` that a
  prefix without routes is being added by a peer that has the lock; `LookupInv`
  that a reference a lookup holds is the one of the tree, or that the generation
  of its index is past it. The generations only grow, and are what makes an index
  that came back to another prefix visible. `FlushedFacts`, `FreedFacts` and
  `GrownFacts` say what the operations do to the indexes of a shard, `Longest` that
  a lookup finds a longest prefix.
- `IndexesAreExact`: `IndexesExact`, the part of `RibSound` about indexes.
- `RibIsSound`: `RibSound`. `RibInv` adds `ValuesInv` to `IndexInv`: the routes of an
  index are distinct, and a pool counts each value as many times as it is used by
  routes, the one that is being added included (`Used`). A pool that is sound (`Sound`) has
  the live values of each hash in its chain, once each, no value twice, and the
  other references free, once each. Its links lead to values that were put later
  (`Ranked`): chains end, and the recursive function that walks one gives the path
  from its head; what `Put` and `Take` change is then about paths, not about recursion.
  `LocksInv` says who may be in a shard: two peers that add in the same shard
  would count a value once for two routes.
- `RibIsRouteStore`: `ImplementsRouteStore`. The routes of the shards are the set of
  `RouteStore`; adding, replacing, removing and flushing a peer change this set as
  `RouteStore` does, and releasing a lock, publishing a tree, reading, do not.

### Networks, BMP and RIS

`RoutingProofs` is about `Networks`, for all sources, tables and orders of the
files (`NetworksAssumption`), about `Bmp`, for all finite sets of connections,
from distinct addresses (`Distinct`), and about `BioRis`, for all instances and
routers (`RisAssumption`). The finding about connections that come back shows that
neither theorem about `Bmp` holds without `Distinct`.

- `NetworksAreRight`: `NetworksRight`. `SeenInv` and `SourcesInv` are what makes
  coalescing correct: whatever was published is in the tree, or a goroutine that
  will read it is on its way, or `rebuildWanted` is set and a goroutine will
  take the lock. `HandlesInv` has each open database in one place, published, being
  replaced, or to be closed; `LocksInv` and `OrderInv` say who may walk it.
- `LookupsAreMerged`: `LookupsMergeAll`, for all tables that have a prefix once
  (`TablesAssumption`), whatever order the sources are merged in. The walk has the
  networks in the order of CIDRs, in which what lies between a prefix and one of
  those it contains is contained as well (`BeforeBetween`): the chain of ancestors
  is then exactly the networks that contain the last prefix that was walked, and
  each has all that it inherits. Merging two networks is what the reference
  definition says (`GivenBy`), table after table.
- `RoutesAreRight`: `RoutesRight`. `AnnouncedInv` says what the queue of a
  connection will make of the RIB: a prefix is announced when the last message
  that decides says so, and what is applied already when no message does. A
  reference is given once, and one message adds one peer at most
  (`ReferenceInv`); `PendingInv` keeps the peer of a route that is about to change.
- `ExpiredWereTerminated`: only connections that ended lose their peers.
- `RisIsRight`: `RisRight`, also when no instance is configured. What is known is
  `Holders` of what the instances answered to the last refresh, and what the refresh
  that runs has found is `Holders` of what they answered to it (`RefreshInv`);
  routers are not published while a lookup waits for an answer.

### Flows

`FlowProofs` is about `MetadataCache`, for all durations, with the one of the cache
at most the one of the refresh (`CacheAssumption`); about `NetFlow`, for all
exporters, domains and workers; about `RateLimiter`, for all limits and all
seconds (`RateAssumption`); about `Enrichment`, for all rules and all lists of
sources (`EnrichmentAssumption`); and about `FlowBatch`, for all records, samples
and tunnels, of the types the decoders know (`BatchAssumption`), whatever the
parsers find in the headers.

- `CacheIsRight`: `CacheRight`. Staleness is the hard part: `FreshInv` says that an
  entry that is older than the refresh has a call that started soon enough, and
  `RefreshesInv` that two checks do not share a call. `EntriesInv` bounds what
  calls will bring, also when they end in another order.
- `TemplatesAreRight`: `TemplatesRight`, with its action property. What is in memory,
  in the file, in the packets and in what a worker found was announced by the
  source it is known for (`AnnouncedInv`), and the file has all that was known
  when the outlet is down after a stop (`DownInv`).
- `RatesAreRight`: `RatesRight`. `CountersInv` relates the counters to what was
  received and accepted in the second they are about; at least one flow of each
  second is accepted, without which the factor would divide by zero.
- `EnrichmentIsRight`: `EnrichmentRight`. The caches have what the rules give without
  them (`ExportersKept`, `InterfacesKept`), as their keys have all that the rules
  look at. The rules and the sources are folded one after the other: that the
  first rule which sets an attribute decides it, and that the first source which
  knows a value gives it, is shown at the least index where it would not be so.
- `BatchIsRight`: `BatchRight`. `GoodRows` is the inductive invariant. Each operation on
  the message keeps the columns aligned (`Message`), does not touch the rows that are
  finished (`RowsKept`), and does to a message on top of one batch what it does on top
  of another (`Same`): a row is then the one its record gives alone. A pass over the
  fields of a record is a recursive function, followed index by index (`UpTo`).

### Topics, filters and health

`ManagementProofs` is about `Topics`, for all configurations and all clusters
(`TopicsAssumption`), about `SavedFilters`, for all consoles and all filters
(`FiltersAssumption`), about `Health`, for all sets of checks, and about the answers
that `Completion` keeps, for all requests and all durations (`CacheAssumption`).

- `TopicsAreRight`: `TopicsRight`. `DoneInv` says that topics that are done stay
  aligned while the others are dealt with, but for what was refused for them,
  unless somebody else changed them; `StepInv` that what was listed and described
  is not stale when it is used, or that it was refused.
- `FiltersAreRight`: `FiltersRight`, which has action properties. `AloneInv` follows a
  console that starts alone: what it has still to insert, and what it has to remove.
  `RemovedInv` is why a filter of a user is never removed: identifiers are not used
  again.
- `HealthIsRight`: `HealthRight`. What a check has reported, and what was collected,
  is for the request that runs (`HealthInv`): a component that answers an earlier
  request finds nobody. A check that is missing when the answer is made is an error,
  and the worst status is then not below an error.
- `AnswersAreRight`: `AnswersRight`, which has an action property. An answer that is
  stored (`StoreInv`), or that a client is about to get (`ClientsInv`), is what the handler
  said of that very request; it expires `Ttl` after it was stored, at most.

### What is only model-checked

- Liveness (`RecordsCatchUp`, `ScalingProgress`, `FilesRefreshed`,
  `RoutingProgress`, `ServicesProgress`, `ManagementProgress`): it rests on fairness,
  which TLAPS does not handle.
- What parsers, graphs and configurations compute, for every input: `DecodersRight`,
  `ConsoleRight` (`GraphsRight` and `OffersRight`), `ColumnsRight`, `MigrationKeeps` and
  `PollsRight`. The parsers of `Frames` call each other
  (recursive operators, which the provers do not support); the others compose folds
  over sets and sequences. They are compared with definitions by quantifiers, for
  the inputs of the runs.
- `MigrationsRight` is about the tables and views of three configurations, through
  statements whose effect is computed in the same way.
- `ExpiredAreTerminated`, in `RoutingProgress`, is the theorem `ExpiredWereTerminated`
  for connections from distinct addresses.
- That two specifications of the same goroutines agree (`KafkaWorkers` and
  `Delivery`) is an argument about the code, not a theorem.

## What is not modelled

`PROJECT.json` lists the components with the reason for each. In short:

- wire formats: the bytes of NetFlow, sFlow, BGP, BMP, protobuf, SQL, YAML and
  MaxMind databases. The parsers are modelled from the fields they find, in the
  order they find them. NetFlow v5, the timestamps of the records and ICMP types
  are left out, and the gob encoding of what is saved;
- wrappers of libraries (HTTP, logs, metrics, gRPC, SNMP sessions, ClickHouse
  connections, the Redis store of the cache): input and output, with the state in
  the library;
- the language of the classifiers, the grammar of the filters, the construction of
  SQL: the rules and the filters are modelled by what they select;
- the eBPF program that spreads the packets over the sockets;
- the frontend, authentication, the documentation pages, the demo exporter and
  the helpers: no state that several actors share.

Kafka, franz-go, ClickHouse, the file notifications, the exporters and the BMP
and RIS peers are external: they are modelled from how the code uses them.

## What could come next

The modules that were planned are written, and the safety of the components that
run concurrently is proved. What would come next, in this order:

- to prove: that polls do not depend on the order of the events (`PollsRight`); that
  the second run of the migrations has nothing to do (`MigrationsRight`);
- to model, if the code around them grows: several orchestrators at once (`Topics`,
  `Migrations`), and the store of the cache that consoles would share.
