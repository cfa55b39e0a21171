---------------------------- MODULE MCManagement ---------------------------
(***************************************************************************)
(* The orchestrator and the console, each part on its own: the migrations  *)
(* of the database, the topics, the configuration and its migration, the   *)
(* health checks, the graphs, the completions, the cache of the responses, *)
(* the saved filters; and the pollers of the metadata.  Their state spaces *)
(* add up: a behaviour is one of a single part, the others stay as they    *)
(* were.                                                                   *)
(***************************************************************************)
EXTENDS Migrations, Topics, Orchestrator, ConfigMigration, Health, MetadataPolls, Charts,
        Completion, SavedFilters, Schema

VARIABLE part

----------------------------------------------------------------------------
(* Migrations: a column is added, then another one is stored instead of    *)
(* computed.                                                               *)
Col(n, t) ==
  [name |-> n, type |-> t, alias |-> FALSE, mainOnly |-> FALSE, notSortingKey |-> FALSE,
   primary |-> FALSE]
Time == [Col("TimeReceived", "time") EXCEPT !.primary = TRUE]
Addr == [Col("SrcAddr", "ip") EXCEPT !.mainOnly = TRUE]
Prefix == [Col("SrcNetPrefix", "string") EXCEPT !.alias = TRUE, !.notSortingKey = TRUE]
StoredPrefix == Col("SrcNetPrefix", "string")
Role == Col("ExporterRole", "string")
Bytes32 == [Col("Bytes", "uint32") EXCEPT !.notSortingKey = TRUE]
Bytes64 == [Bytes32 EXCEPT !.type = "uint64"]

MCMigConfigs ==
  <<[columns |-> <<Time, Addr, Prefix, Bytes32>>, hash |-> 11, ttl |-> 10, settings |-> <<>>,
     indexes |-> "SrcAddr" :> "bloom", url |-> "u1", exporters |-> {"ExporterName"}],
    [columns |-> <<Time, Addr, Prefix, Role, Bytes64>>, hash |-> 12, ttl |-> 20,
     settings |-> "x" :> 1, indexes |-> "SrcAddr" :> "minmax" @@ "Bytes" :> "minmax",
     url |-> "u2", exporters |-> {"ExporterName", "ExporterRole"}],
    [columns |-> <<Time, Addr, StoredPrefix, Role, Bytes64>>, hash |-> 13, ttl |-> 20,
     settings |-> "x" :> 2, indexes |-> "SrcNetPrefix" :> "minmax",
     url |-> "u2", exporters |-> {"ExporterName", "ExporterRole"}]>>

(* Topics: the input topic is managed or not, the output topic is strict   *)
(* or not; the cluster is empty, or has both.                              *)
TopicOf(name, n, entries, strict) ==
  [name |-> name, partitions |-> n, replicas |-> 1, entries |-> entries, strict |-> strict]
InputTopic(n, strict) == TopicOf("flows-v5", n, "retention" :> 1, strict)
MCTopicConfigs ==
  {[manage |-> TRUE, input |-> InputTopic(2, TRUE), output |-> <<>>],
   [manage |-> TRUE, input |-> InputTopic(3, FALSE),
    output |-> TopicOf("enriched-h1", 2, "retention" :> 2 @@ "segment" :> 1, FALSE)],
   [manage |-> FALSE, input |-> InputTopic(4, TRUE), output |-> TopicOf("enriched-h2", 1, <<>>, TRUE)]}
Existing(n, overrides) == [partitions |-> n, replicas |-> 2, overrides |-> overrides]
MCClusterTopics ==
  {<<>>, "flows-v5" :> Existing(1, "policy" :> "delete")
         @@ "enriched-h1" :> Existing(5, "retention" :> 2 @@ "segment" :> 2)}
MCForeignOverrides == {"policy" :> "compact"}

(* The orchestrator: valid files, one that does not parse, one that is not *)
(* valid, one that does not want the restarts.                             *)
Content(syntax, valid, restart, inlets) ==
  [syntax |-> syntax, valid |-> valid, restart |-> restart, inlets |-> inlets]
MCContents ==
  {Content(TRUE, TRUE, TRUE, <<"none">>), Content(TRUE, TRUE, TRUE, <<"b1", "none">>),
   Content(FALSE, FALSE, TRUE, <<>>), Content(TRUE, FALSE, TRUE, <<"none">>),
   Content(TRUE, TRUE, FALSE, <<"b2", "b1">>)}

(* The configurations of older versions: where each migrated key may be,   *)
(* in one of the inlets, in an outlet, at the top, or in several of them.  *)
Snmp == "workers" :> 2 @@ "cache-duration" :> 30 @@ "ports" :> 161
MCInlets ==
  {"none" :> 0, "flow" :> 1, "core" :> 3, "snmp" :> Snmp @@ "flow" :> 1, "geoip" :> "g1",
   "core" :> 3 @@ "geoip" :> "g2", "bmp" :> ("listen" :> 179),
   "bmp" :> ("listen" :> 179) @@ "routing" :> ("provider" :> ("type" :> "bioris"))}
MCOutlets ==
  {<<"core" :> 4>>, <<"core" :> 4, "networks" :> ("networks" :> "n2")>>,
   <<"geoip" :> "g3", "snmp" :> Snmp>>}
Option(key, values) == {<<>>} \cup {key :> v : v \in values}
MCRawConfigs ==
  {inlet @@ outlet @@ geoip @@ clickhouse @@ shared :
     inlet \in Option("inlet", {<<i>> : i \in MCInlets} \cup {<<i, "geoip" :> "g4">> : i \in MCInlets}),
     outlet \in Option("outlet", MCOutlets), geoip \in Option("geoip", {"g5"}),
     clickhouse \in Option("clickhouse",
       {"servers" :> "s1", "networks" :> "n1" @@ "resolutions" :> "r",
        "servers" :> "s1" @@ "networks" :> "n1"}),
     shared \in Option("clickhousedb", {"servers" :> "s2"})}

(* The metadata: the events of a gNMI exporter, the answers of SNMP.       *)
Update(kind, keys, value) == [kind |-> kind, keys |-> keys, value |-> value]
MCGnmiEvents ==
  {Update("system", <<>>, "r1"), Update("index", <<"eth0", "unit0">>, 1),
   Update("name", <<"eth0", "unit0">>, "eth0.0"), Update("description", <<"eth0", "unit0">>, "core"),
   Update("speed", <<"eth0">>, 10), Update("index", <<"eth1">>, 2)}
MCSnmpFields ==
  [system : {"missing", "", "r1"}, descr : {"missing", "x", "y"}, name : {"missing", "x"},
   alias : {"missing", "x", "y"}, speed : {"missing", "10"}]

(* The graphs: the bytes are multiples of the intervals, so that what is   *)
(* lost shows.                                                             *)
Sent(at, src, dst, port, bytes) ==
  [time |-> at, SrcAS |-> src, DstAS |-> dst, SrcPort |-> port, bytes |-> bytes]
MCFlows ==
  {Sent(33, <<"x">>, <<"y">>, <<"1">>, 84), Sent(35, <<"y">>, <<"x">>, <<"2">>, 168),
   Sent(43, <<"y">>, <<"z">>, <<"1">>, 84), Sent(50, <<"x">>, <<"y">>, <<"1">>, 336),
   Sent(54, <<"x">>, <<"y">>, <<"2">>, 168), Sent(56, <<"y">>, <<"x">>, <<"1">>, 420),
   Sent(57, <<"y">>, <<"z">>, <<"1">>, 84)}
TableOf(name, interval, oldest) == [name |-> name, resolution |-> interval, oldest |-> oldest]
MCInventories ==
  {<<>>, <<TableOf("flows", 0, 33)>>,
   <<TableOf("flows", 0, 50), TableOf("flows_2s", 2, 42), TableOf("flows_7s", 7, 28)>>,
   <<TableOf("flows_7s", 7, 42), TableOf("flows", 0, 54)>>}
Graph(kind, start, points, dimensions, filter, limitType, both, previous) ==
  [kind |-> kind, start |-> start, end |-> 57, points |-> points, dimensions |-> dimensions,
   filter |-> filter, limit |-> 1, limitType |-> limitType, bidirectional |-> both,
   previousPeriod |-> previous]
MCRequests ==
  {Graph("line", start, points, dimensions, filter, limitType, both, previous) :
     start \in {43, 50}, points \in {2, 5}, dimensions \in {<<>>, <<"SrcAS", "DstAS">>, <<"Nope">>},
     filter \in {<<>>, <<"SrcAS", <<"y">>>>}, limitType \in {"avg", "last"},
     both \in BOOLEAN, previous \in BOOLEAN}
  \cup
  {Graph("line", 43, points, <<"SrcAS", "SrcPort">>, <<>>, "max", TRUE, FALSE) : points \in {2, 5}}
  \cup
  {Graph("sankey", start, 1, dimensions, <<>>, "avg", both, FALSE) :
     start \in {43, 50}, both \in BOOLEAN,
     dimensions \in {<<>>, <<"SrcAS", "DstAS", "SrcPort">>, <<"DstAS">>}}

(* The completions: texts and the letters they start with, or have.        *)
ColumnOf(name, parser, disabled, kind) ==
  [name |-> name, parser |-> parser, disabled |-> disabled, kind |-> kind]
MCFilterColumns ==
  <<ColumnOf("DstAS", "asn", FALSE, "as"), ColumnOf("ExporterName", "string", FALSE, "exporters"),
    ColumnOf("InIfBoundary", "", FALSE, "fixed"), ColumnOf("SrcAS", "asn", FALSE, "as"),
    ColumnOf("SrcCommunities", "", FALSE, "communities"),
    ColumnOf("SrcNetName", "string", TRUE, "network"), ColumnOf("SrcPort", "uint", FALSE, "port"),
    ColumnOf("Tenant", "string", FALSE, "custom")>>
MCRowsOf ==
  [as |-> [flows |-> <<Entry("AS2", "Google"), Entry("AS3", "Src inc")>>,
           dictionary |-> <<Entry("AS1", "DstNet"), Entry("AS2", "Google")>>],
   exporters |-> [flows |-> <<Entry("edge", "exporter name"), Entry("mtedge", "exporter name"),
                              Entry("tower", "exporter name"), Entry("", "exporter name")>>,
                 dictionary |-> <<>>],
   port |-> [flows |-> <<Entry("443", "https"), Entry("9999", "")>>,
             dictionary |-> <<Entry("80", "http"), Entry("443", "https")>>],
   communities |-> [flows |-> <<Entry("2:1", "community"), Entry("1:2:3", "large community")>>,
                    dictionary |-> <<>>],
   network |-> [flows |-> <<Entry("", "network name")>>, dictionary |-> <<>>],
   custom |-> [flows |-> <<Entry("", ""), Entry("Edge", ""), Entry("edge", "")>>, dictionary |-> <<>>]]
MCFixedValues ==
  "InIfBoundary" :> <<Entry("internal", "network boundary"), Entry("external", "network boundary")>>
MCOperators ==
  [p \in {"", "asn", "string", "uint"} |-> IF p = "uint" THEN <<"=", "!=", "<">> ELSE <<"=", "!=">>]
Texts ==
  {c.name : c \in Range(MCFilterColumns)} \cup {o : o \in UNION {Range(p) : p \in Range(MCOperators)}}
  \cup UNION {{e.label, e.detail} : e \in Range(MCFixedValues["InIfBoundary"])
                \cup UNION {Range(r.flows) \cup Range(r.dictionary) : r \in Range(MCRowsOf)}}
  \cup {"column name", "comparison operator"}
MCStartsExactly ==
  [t \in Texts |->
     CASE t = "DstAS" -> {"D"} [] t = "DstNet" -> {"D"} [] t \in {"ExporterName", "Edge"} -> {"E"}
       [] t \in {"edge", "external"} -> {"e"}
       [] t \in {"SrcAS", "SrcPort", "SrcCommunities", "SrcNetName", "Src inc"} -> {"S"}
       [] t = "Tenant" -> {"T"} [] t = "tower" -> {"t"} [] t \in {"https", "http"} -> {"h"}
       [] t = "Google" -> {"G"} [] t = "2:1" -> {"2"} [] t = "1:2:3" -> {"1"} [] OTHER -> {}]
Lower == [p \in {"D", "E", "S", "T", "H", "G"} |->
            CASE p = "D" -> "d" [] p = "E" -> "e" [] p = "S" -> "s" [] p = "T" -> "t"
              [] p = "H" -> "h" [] p = "G" -> "g"]
AnyCase(prefixes) ==
  prefixes \cup {Lower[p] : p \in prefixes \cap DOMAIN Lower}
  \cup {p \in DOMAIN Lower : Lower[p] \in prefixes}
MCStarts == [t \in Texts |-> AnyCase(MCStartsExactly[t])]
MCOccurs ==
  [t \in Texts |-> MCStarts[t] \cup AnyCase(
     CASE t = "mtedge" -> {"t", "e", "d", "g"} [] t \in {"edge", "Edge"} -> {"d", "g"}
       [] t = "tower" -> {"e"}
       [] t \in {"https", "http"} -> {"t"} [] t = "DstNet" -> {"s", "t", "e"} [] t = "Google" -> {"e"}
       [] t \in {"2:1", "1:2:3"} -> {"1", "2"} [] OTHER -> {})]
Editing(what, column, operator, prefix) ==
  [what |-> what, column |-> column, operator |-> operator, prefix |-> prefix]
MCCompletionRequests ==
  {Editing("value", c.name, o, p) : c \in Range(MCFilterColumns), o \in {"=", "<"},
                                    p \in {"", "d", "s", "e", "E", "t", "h", "g", "1", "2"}}
  \cup {Editing("column", "", "", p) : p \in {"", "d", "S"}}
  \cup {Editing("operator", c, "", "") : c \in {"SrcAS", "SrcPort"}}

(* The cache: a completion, a graph, and a graph with one point, for which *)
(* the handler panics.                                                     *)
MCHttpRequests ==
  {[endpoint |-> "complete", body |-> Editing("value", "SrcAS", "=", "g")],
   [endpoint |-> "graph", body |-> "week"], [endpoint |-> "graph", body |-> "point"]}
MCEndpoint(asked, up) ==
  IF asked.endpoint = "complete" THEN filterCompleteHandlerFunc(asked.body, up) @@ [panics |-> FALSE]
  ELSE [status |-> IF up /\ asked.body # "point" THEN 200 ELSE 500,
        body |-> IF up THEN <<Entry(asked.body, "points")>> ELSE <<>>,
        panics |-> asked.body = "point"]

(* The saved filters: "a" changes with the configuration, "b" goes.        *)
Filter(description, content) == [description |-> description, content |-> content]
MCBuiltinFilters == <<<<Filter("a", 1), Filter("b", 1)>>, <<Filter("a", 2)>>>>

(* The columns: one of each kind, in both directions when it has one; the  *)
(* dictionaries match in every way, and both directions when they match a  *)
(* source or an input interface.                                           *)
Way(way, words) == [way |-> way, rest |-> words]
MCStaticNames ==
  <<Way("", <<"TimeReceived">>), Way("Src", <<"Addr">>), Way("Dst", <<"Addr">>),
    Way("Src", <<"NetPrefix">>), Way("Dst", <<"NetPrefix">>), Way("Src", <<"AS">>),
    Way("Dst", <<"AS">>), Way("Dst", <<"ASPath">>), Way("Dst", <<"1stAS">>),
    Way("Src", <<"Vlan">>), Way("Dst", <<"Vlan">>), Way("", <<"PacketSize">>),
    Way("", <<"Bytes">>), Way("InIf", <<"Name">>), Way("OutIf", <<"Name">>),
    Way("", <<"IPTTL">>)>>
SentColumn(key) == Column(key, "sent", {})
MCStaticColumns ==
  <<[SentColumn(1) EXCEPT !.noDisable = TRUE], [SentColumn(2) EXCEPT !.mainOnly = TRUE],
    [Column(4, "alias", {MCStaticNames[2]}) EXCEPT !.mainOnly = TRUE], SentColumn(6),
    [SentColumn(8) EXCEPT !.mainOnly = TRUE],
    [Column(9, "generated", {MCStaticNames[8]}) EXCEPT !.depends = {8}],
    [SentColumn(10) EXCEPT !.disabled = TRUE, !.group = 1],
    [SentColumn(13) EXCEPT !.noDisable = TRUE, !.notSortingKey = TRUE],
    [Column(12, "alias", {MCStaticNames[13]}) EXCEPT !.depends = {13}], SentColumn(14),
    [SentColumn(16) EXCEPT !.disabled = TRUE, !.group = 2]>>

MCPrimaryKeys == <<1, 6, 14, 7, 15>>
MCDefaultIndexes == 2 :> "bloom" @@ 3 :> "bloom"

Attached(keys, layout, attributes, dimensions) ==
  [keys |-> keys, layout |-> layout, attributes |-> attributes, dimensions |-> dimensions]
KeyOfDict(match, suffix, string) == [match |-> match, suffix |-> suffix, string |-> string]
AnyKey == KeyOfDict(NoName, <<>>, TRUE)
Roles(attributes) ==
  Attached(<<AnyKey>>, "ip_trie", attributes, <<Way("Dst", <<"Addr">>), Way("Src", <<"Addr">>)>>)
SourceRoles == Attached(<<AnyKey>>, "hashed", <<"Site">>, <<Way("Src", <<"Addr">>)>>)
DestinationRoles == [SourceRoles EXCEPT !.dimensions = <<Way("Dst", <<"Addr">>)>>]
IfInfo ==
  Attached(<<KeyOfDict(Way("", <<"Exporter">>), <<>>, TRUE), KeyOfDict(NoName, <<"Name">>, TRUE)>>,
           "complex_key_hashed", <<"Info">>, <<Way("OutIf", <<>>), Way("InIf", <<>>)>>)
IfInfo2 == [IfInfo EXCEPT !.keys = <<AnyKey, AnyKey>>]
Exporters == Attached(<<AnyKey>>, "hashed", <<"Site">>, <<Way("", <<"Exporter">>)>>)

DefaultSchemaConfig ==
  [materialize |-> {}, enabled |-> {}, disabled |-> {}, mainTableOnly |-> {},
   notMainTableOnly |-> {}, indexes |-> <<>>, noIndexes |-> {}, customDictionaries |-> {}]
MCSchemaConfigs ==
  {[DefaultSchemaConfig EXCEPT !.materialize = keys, !.mainTableOnly = moved[1],
                               !.notMainTableOnly = moved[2]] :
     keys \in {{}, {4, 5}, {12}, {13}},
     moved \in {<<{}, {}>>, <<{12}, {4, 5}>>, <<{6}, {}>>, <<{10, 11}, {2, 3}>>, <<{1}, {}>>}}
  \cup
  {[DefaultSchemaConfig EXCEPT !.enabled = changed[1], !.disabled = changed[2],
                               !.notMainTableOnly = {2}] :
     changed \in {<<{10}, {}>>, <<{10, 11, 16}, {8, 9}>>, <<{}, {9}>>, <<{16}, {6}>>, <<{}, {3, 8}>>}}
  \cup
  {[DefaultSchemaConfig EXCEPT !.enabled = {10}, !.customDictionaries = dictionaries] :
     dictionaries \in {{Roles(<<"Role">>)}, {SourceRoles}, {Roles(<<"Site", "Role">>), IfInfo}, {Exporters},
                       {Exporters, SourceRoles}, {DestinationRoles}, {Exporters, DestinationRoles},
                       {IfInfo, Exporters}, {IfInfo2}}}
  \cup
  {[DefaultSchemaConfig EXCEPT !.enabled = {10, 17}],
   [DefaultSchemaConfig EXCEPT !.indexes = 6 :> "minmax", !.noIndexes = {2}],
   [DefaultSchemaConfig EXCEPT !.indexes = 99 :> "minmax"]}
----------------------------------------------------------------------------
(* The parts, and the initial states of each, one standing for all those   *)
(* it does not look at.                                                    *)
MCInit ==
  /\ part \in {"migrations", "topics", "orchestrator", "configuration", "health", "polls",
               "charts", "completion", "cache", "filters", "schema"}
  /\ HealthInit /\ PollInit /\ CompletionInit /\ FiltersInit /\ SchemaInit
  /\ MigInit /\ (part = "migrations" \/ ~sharded)
  /\ OrcInit /\ (part = "orchestrator" \/ file.inlets = <<>>)
  /\ ChartsInit /\ (part = "charts" \/ database = <<>>)
  /\ CacheInit /\ (part = "cache" \/ databaseUp)
  /\ TopicsInit /\ (part = "topics" \/ (topics = <<>> /\ ~topicConfig.manage))
  /\ ConfigInit /\ (part = "configuration" \/ raw = <<>>)

OtherParts(name) ==
  /\ name = "migrations" \/ UNCHANGED migVars
  /\ name = "topics" \/ UNCHANGED topicVars
  /\ name = "orchestrator" \/ UNCHANGED orcVars
  /\ name = "configuration" \/ UNCHANGED migrationVars
  /\ name = "health" \/ UNCHANGED healthVars
  /\ name = "polls" \/ UNCHANGED pollVars
  /\ name = "charts" \/ UNCHANGED chartVars
  /\ name = "completion" \/ UNCHANGED completed
  /\ name = "cache" \/ UNCHANGED cacheVars
  /\ name = "filters" \/ UNCHANGED filterVars
  /\ name = "schema" \/ UNCHANGED schemaVars

MCNext ==
  /\ UNCHANGED part /\ OtherParts(part)
  /\ \/ part = "migrations" /\ MigNext
     \/ part = "topics" /\ TopicsNext
     \/ part = "orchestrator" /\ OrcNext
     \/ part = "configuration" /\ Hook
     \/ part = "health" /\ HealthNext
     \/ part = "polls" /\ PollNext
     \/ part = "charts" /\ ChartsNext
     \/ part = "completion" /\ Complete
     \/ part = "cache" /\ CacheNext
     \/ part = "filters" /\ FiltersNext
     \/ part = "schema" /\ SchemaNext

MCSpec ==
  /\ MCInit
  /\ [][MCNext]_<<part, migVars, topicVars, orcVars, migrationVars, healthVars, pollVars,
                  chartVars, completed, cacheVars, filterVars, schemaVars>>
  /\ WF_migVars(part = "migrations" /\ MigProgress)
  /\ WF_orcVars(part = "orchestrator" /\ OrcProgress)
  /\ WF_healthVars(part = "health" /\ HealthProgress)

----------------------------------------------------------------------------
(* Migrations: the database becomes what the configuration wants, without  *)
(* touching the raw tables of the others.                                  *)
MigrationsRight == [](MigratedIsWanted /\ NothingLeftToDo) /\ OldRawKept

(* Migrations end, the file that is there in the end is served, health     *)
(* requests are answered.                                                  *)
ManagementProgress ==
  /\ part = "migrations" => MigrationsEventuallyDone
  /\ part = "orchestrator" => FileServedInTheEnd
  /\ HealthRequestsEnd

(* What the console computes from the flows: the graphs, also from tables  *)
(* that changed since it looked at them, and what the editor of filters    *)
(* offers, which goes on with what was typed.                              *)
ConsoleRight == GraphsRight /\ OffersRight
============================================================================
