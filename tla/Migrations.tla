----------------------------- MODULE Migrations -----------------------------
(***************************************************************************)
(* orchestrator/clickhouse: the migrations of the ClickHouse database, run *)
(* by the orchestrator when it starts, again after a delay when one of the *)
(* steps fails, and again from the beginning when it restarts, with the    *)
(* same configuration or a newer one.                                      *)
(*                                                                         *)
(* A step reads the database, plans its statements, and executes them one  *)
(* at a time.  A statement is a record with what it does ("op") to the     *)
(* table or view it is about, its effect is the one ClickHouse gives it.   *)
(***************************************************************************)
EXTENDS Naturals, Sequences, FiniteSets, SequencesExt, TLC

CONSTANTS
  MigConfigs,             \* configurations, from the oldest to the newest
  MaxExecFailures,        \* bound on the statements that fail
  MaxMigRestarts          \* bound on the restarts of the orchestrator

VARIABLES
  db,                     \* what ClickHouse has, by name
  mig,                    \* the migration: configuration, state, step, statements to do
  sharded,                \* a cluster with several shards; never changes
  execFailures, migRestarts

migVars == <<db, mig, sharded, execFailures, migRestarts>>

Resolutions == {0, 1}     \* the main table and an aggregated one

----------------------------------------------------------------------------
(* Names: the key is a resolution, or the hash of a schema.                *)
Name(base, key) == [base |-> base, key |-> key, local |-> FALSE, consumer |-> FALSE]
Flows(r) == Name("flows", r)
RawFlows(hash) == Name("raw", hash)
Consumer(table) == [table EXCEPT !.consumer = TRUE]

localTable(table) == [table EXCEPT !.local = sharded]
distributedTable(table) == table

(* The columns of a table: aggregated ones do not have all of them.        *)
WantedColumns(cfg, r) == SelectSeq(cfg.columns, LAMBDA c : r = 0 \/ ~c.mainOnly)
ColumnNames(columns) == {columns[i].name : i \in DOMAIN columns}
Definition(c) == [type |-> c.type, alias |-> c.alias]
Definitions(columns) ==
  [n \in ColumnNames(columns) |->
     Definition(CHOOSE c \in Range(columns) : c.name = n)]

ClickHouseSortingKeys(cfg) ==
  {c.name : c \in {d \in Range(cfg.columns) : ~d.mainOnly /\ ~d.notSortingKey}}
ClickHousePrimaryKeys(cfg) == {c.name : c \in {d \in Range(cfg.columns) : d.primary}}

(* What a column of a consumer view is: aliases are not inserted.          *)
SelectedColumns(columns) == {c.name : c \in {d \in Range(columns) : ~d.alias}}

tableSettings(cfg) == ("index_granularity" :> 8192) @@ cfg.settings

WantedIndexes(cfg, r) ==
  LET names == DOMAIN cfg.indexes \cap ColumnNames(WantedColumns(cfg, r))
  IN [n \in names |-> cfg.indexes[n]]

----------------------------------------------------------------------------
(* Statements, and what ClickHouse does with them                          *)

CreateOrReplace(name, def) == [op |-> "replace", name |-> name, def |-> def]
Create(name, def) == [op |-> "create", name |-> name, def |-> def]
DropTable(name) == [op |-> "drop", name |-> name]
DropColumn(name, column) == [op |-> "dropColumn", name |-> name, column |-> column]
ModifyColumns(name, add, modify, keys) ==
  [op |-> "columns", name |-> name, add |-> add, modify |-> modify, keys |-> keys]
Modify(name, field, value) == [op |-> "modify", name |-> name, field |-> field, value |-> value]
DropIndexes(name, indexes) == [op |-> "dropIndexes", name |-> name, indexes |-> indexes]
AddIndexes(name, indexes) == [op |-> "addIndexes", name |-> name, indexes |-> indexes]
Refuse == [op |-> "refuse"]

(* A column of the sorting key cannot be dropped, and only new columns can *)
(* be added to the sorting key.                                            *)
Valid(s) ==
  CASE s.op = "create" -> s.name \notin DOMAIN db
    [] s.op = "dropColumn" -> s.column \in DOMAIN db[s.name].columns \ db[s.name].keys
    [] s.op = "columns" ->
         /\ DOMAIN s.add \cap DOMAIN db[s.name].columns = {}
         /\ s.keys \subseteq db[s.name].keys \cup DOMAIN s.add
    [] s.op = "addIndexes" -> DOMAIN s.indexes \cap DOMAIN db[s.name].indexes = {}
    [] s.op = "refuse" -> FALSE
    [] OTHER -> TRUE

Effect(s) ==
  CASE s.op \in {"replace", "create"} -> (s.name :> s.def) @@ db
    [] s.op = "drop" -> [n \in DOMAIN db \ {s.name} |-> db[n]]
    [] s.op = "dropColumn" ->
         [db EXCEPT ![s.name].columns = [c \in DOMAIN @ \ {s.column} |-> @[c]]]
    [] s.op = "columns" ->
         [db EXCEPT ![s.name].columns = s.add @@ s.modify @@ @, ![s.name].keys = s.keys]
    [] s.op = "modify" -> [db EXCEPT ![s.name][s.field] = s.value @@ @]
    [] s.op = "dropIndexes" ->
         [db EXCEPT ![s.name].indexes = [i \in DOMAIN @ \ s.indexes |-> @[i]]]
    [] s.op = "addIndexes" -> [db EXCEPT ![s.name].indexes = s.indexes @@ @]

----------------------------------------------------------------------------
(* Steps                                                                   *)

tableAlreadyExists(name, def) == name \in DOMAIN db /\ db[name] = def

createDictionary(cfg) ==
  IF tableAlreadyExists(Name("dictionary", 0), [def |-> cfg.url]) THEN <<>>
  ELSE <<CreateOrReplace(Name("dictionary", 0), [def |-> cfg.url])>>

(* A new table has everything but its indexes.                             *)
NewFlowsTable(cfg, r) ==
  [columns |-> Definitions(WantedColumns(cfg, r)),
   keys |-> IF r = 0 THEN {} ELSE ClickHouseSortingKeys(cfg),
   primary |-> IF r = 0 THEN {} ELSE ClickHousePrimaryKeys(cfg),
   settings |-> tableSettings(cfg), ttl |-> [ttl |-> cfg.ttl], indexes |-> <<>>]

(* It has to be dropped before it is added to the sorting key.            *)
NeedsReorder(cfg, r, c, table) == r > 0 /\ ~c.notSortingKey /\ c.name \notin table.keys

(* What is planned for a column, after the ones before it: "now" has the   *)
(* statements that are executed at once, up to an error.                   *)
PlanColumn(plan, cfg, r, c, table, name) ==
  LET primary == c.name \in ClickHousePrimaryKeys(cfg)
      existing == table.columns[c.name]
      realias == c.alias # existing.alias
      reorder == NeedsReorder(cfg, r, c, table)
      drops == (IF realias THEN <<DropColumn(name, c.name)>> ELSE <<>>)
                 \o (IF reorder THEN <<DropColumn(name, c.name)>> ELSE <<>>)
  IN IF plan.failed THEN plan
     ELSE IF c.name \notin DOMAIN table.columns THEN
            IF r > 0 /\ primary THEN [plan EXCEPT !.failed = TRUE]
            ELSE [plan EXCEPT !.add = (c.name :> Definition(c)) @@ @]
     ELSE IF c.type # existing.type /\ primary THEN [plan EXCEPT !.failed = TRUE]
     ELSE IF r > 0 /\ primary /\ c.name \notin table.primary THEN
            [plan EXCEPT !.failed = TRUE,
                         !.now = IF realias THEN Append(@, DropColumn(name, c.name)) ELSE @]
     ELSE IF drops # <<>> THEN
            [plan EXCEPT !.now = @ \o drops, !.add = (c.name :> Definition(c)) @@ @]
     ELSE IF c.type # existing.type THEN [plan EXCEPT !.modify = (c.name :> Definition(c)) @@ @]
     ELSE plan

(* The consumer of an aggregated table is dropped before an ALTER.         *)
DropsView(r, name) == IF r = 0 THEN <<>> ELSE <<DropTable(Consumer(name))>>

AlterColumns(cfg, r) ==
  LET name == localTable(Flows(r))
      plan == FoldLeft(LAMBDA acc, c : PlanColumn(acc, cfg, r, c, db[name], name),
                       [now |-> <<>>, add |-> <<>>, modify |-> <<>>, failed |-> FALSE],
                       WantedColumns(cfg, r))
      keys == IF r = 0 THEN db[name].keys ELSE ClickHouseSortingKeys(cfg)
  IN IF plan.failed THEN Append(plan.now, Refuse)
     ELSE IF DOMAIN plan.add \cup DOMAIN plan.modify = {} THEN <<>>
     ELSE plan.now \o DropsView(r, name)
                     \o <<ModifyColumns(name, plan.add, plan.modify, keys)>>

createOrUpdateFlowsTable(cfg, r) ==
  IF localTable(Flows(r)) \notin DOMAIN db
  THEN <<Create(localTable(Flows(r)), NewFlowsTable(cfg, r))>>
  ELSE AlterColumns(cfg, r)

matchTableSettings(existing, wanted) == existing = wanted

UpdateSettings(cfg, r) ==
  LET name == localTable(Flows(r))
  IN IF matchTableSettings(db[name].settings, tableSettings(cfg)) THEN <<>>
     ELSE <<Modify(name, "settings", tableSettings(cfg))>>

UpdateTTL(cfg, r) ==
  LET name == localTable(Flows(r))
  IN IF db[name].ttl.ttl = cfg.ttl THEN <<>> ELSE <<Modify(name, "ttl", [ttl |-> cfg.ttl])>>

StaleIndexes(existing, wanted) ==
  {n \in DOMAIN existing : n \notin DOMAIN wanted \/ existing[n] # wanted[n]}

applySkipIndexes(cfg, r) ==
  LET name == localTable(Flows(r))
      existing == db[name].indexes
      wanted == WantedIndexes(cfg, r)
      toDrop == StaleIndexes(existing, wanted)
      toAdd == {n \in DOMAIN wanted : n \notin DOMAIN existing \/ existing[n] # wanted[n]}
  IN (IF toDrop = {} THEN <<>> ELSE <<DropIndexes(name, toDrop)>>)
       \o (IF toAdd = {} THEN <<>> ELSE <<AddIndexes(name, [n \in toAdd |-> wanted[n]])>>)

(* Mistake: a distributed table that exists is kept.                       *)
createDistributedTableOnce(r) ==
  IF ~sharded \/ distributedTable(Flows(r)) \in DOMAIN db THEN <<>>
  ELSE <<Create(distributedTable(Flows(r)), [distributes |-> db[localTable(Flows(r))].columns])>>

(* The columns of the local table are copied.                              *)
createDistributedTable(r) ==
  LET def == [distributes |-> db[localTable(Flows(r))].columns]
  IN IF ~sharded \/ tableAlreadyExists(distributedTable(Flows(r)), def) THEN <<>>
     ELSE <<CreateOrReplace(distributedTable(Flows(r)), def)>>

(* A view that differs is dropped and created again.                       *)
RecreateView(name, def) ==
  IF tableAlreadyExists(name, def) THEN <<>> ELSE <<DropTable(name), Create(name, def)>>

createFlowsConsumerView(cfg, r) ==
  IF r = 0 THEN <<>>
  ELSE RecreateView(Consumer(Flows(r)),
                    [from |-> localTable(Flows(0)), to |-> localTable(Flows(r)),
                     select |-> SelectedColumns(WantedColumns(cfg, r))])

createExportersTable(cfg) ==
  IF tableAlreadyExists(Name("exporters", 0), [def |-> cfg.exporters]) THEN <<>>
  ELSE <<CreateOrReplace(Name("exporters", 0), [def |-> cfg.exporters])>>

createExportersConsumerView(cfg) ==
  RecreateView(Consumer(Name("exporters", 0)),
               [from |-> distributedTable(Flows(0)), to |-> Name("exporters", 0),
                select |-> cfg.exporters])

RawDefinition(cfg) == [raw |-> SelectedColumns(cfg.columns)]

RawDependents(cfg) == <<Consumer(RawFlows(cfg.hash)), RawFlows(cfg.hash)>>

createRawFlowsTable(cfg) ==
  IF tableAlreadyExists(RawFlows(cfg.hash), RawDefinition(cfg)) THEN <<>>
  ELSE LET dropped == RawDependents(cfg)
       IN [i \in DOMAIN dropped |-> DropTable(dropped[i])]
            \o <<Create(RawFlows(cfg.hash), RawDefinition(cfg))>>

createRawFlowsConsumerView(cfg) ==
  RecreateView(Consumer(RawFlows(cfg.hash)),
               [from |-> RawFlows(cfg.hash), to |-> distributedTable(Flows(0)),
                select |-> SelectedColumns(cfg.columns)])

(* The steps, in the order of migrateDatabase.                             *)
StepsOf(r) ==
  <<<<"columns", r>>, <<"settings", r>>, <<"ttl", r>>, <<"indexes", r>>,
    <<"distributed", r>>, <<"consumer", r>>>>
Steps ==
  <<<<"dictionary", 0>>>> \o StepsOf(0) \o StepsOf(1)
    \o <<<<"exporters", 0>>, <<"exportersView", 0>>, <<"raw", 0>>, <<"rawView", 0>>>>

Plan(cfg, step) ==
  CASE step[1] = "dictionary" -> createDictionary(cfg)
    [] step[1] = "columns" -> createOrUpdateFlowsTable(cfg, step[2])
    [] step[1] = "settings" -> UpdateSettings(cfg, step[2])
    [] step[1] = "ttl" -> UpdateTTL(cfg, step[2])
    [] step[1] = "indexes" -> applySkipIndexes(cfg, step[2])
    [] step[1] = "distributed" -> createDistributedTable(step[2])
    [] step[1] = "consumer" -> createFlowsConsumerView(cfg, step[2])
    [] step[1] = "exporters" -> createExportersTable(cfg)
    [] step[1] = "exportersView" -> createExportersConsumerView(cfg)
    [] step[1] = "raw" -> createRawFlowsTable(cfg)
    [] step[1] = "rawView" -> createRawFlowsConsumerView(cfg)

----------------------------------------------------------------------------
Starting(c) == [cfg |-> c, state |-> "running", step |-> 0, todo |-> <<>>]
Config == MigConfigs[mig.cfg]

MigInit ==
  /\ db = <<>> /\ mig = Starting(1)
  /\ sharded \in BOOLEAN
  /\ execFailures = 0 /\ migRestarts = 0

(* The next step starts once the statements of the previous one are done.  *)
NextStep ==
  /\ mig.state = "running" /\ mig.todo = <<>> /\ mig.step < Len(Steps)
  /\ mig' = [mig EXCEPT !.step = @ + 1, !.todo = Plan(Config, Steps[mig.step + 1])]
  /\ UNCHANGED <<db, sharded, execFailures, migRestarts>>

MigrationDone ==
  /\ mig.state = "running" /\ mig.todo = <<>> /\ mig.step = Len(Steps)
  /\ mig' = [mig EXCEPT !.state = "done"]
  /\ UNCHANGED <<db, sharded, execFailures, migRestarts>>

GiveUp == mig' = [mig EXCEPT !.state = "backoff", !.todo = <<>>]

ExecOnCluster ==
  /\ mig.state = "running" /\ mig.todo # <<>>
  /\ IF Valid(Head(mig.todo))
     THEN db' = Effect(Head(mig.todo)) /\ mig' = [mig EXCEPT !.todo = Tail(@)]
     ELSE GiveUp /\ UNCHANGED db
  /\ UNCHANGED <<sharded, execFailures, migRestarts>>

(* The statement is applied or not, the orchestrator gets an error.        *)
ExecFails ==
  /\ mig.state = "running" /\ mig.todo # <<>> /\ execFailures < MaxExecFailures
  /\ db' \in {db} \cup (IF Valid(Head(mig.todo)) THEN {Effect(Head(mig.todo))} ELSE {})
  /\ GiveUp
  /\ execFailures' = execFailures + 1
  /\ UNCHANGED <<sharded, migRestarts>>

(* The whole migration is attempted again.                                 *)
RetryMigration ==
  /\ mig.state = "backoff"
  /\ mig' = Starting(mig.cfg)
  /\ UNCHANGED <<db, sharded, execFailures, migRestarts>>

(* The orchestrator restarts, possibly with the next configuration.        *)
RestartOrchestrator ==
  /\ migRestarts < MaxMigRestarts
  /\ \E c \in {mig.cfg, mig.cfg + 1} \cap DOMAIN MigConfigs : mig' = Starting(c)
  /\ migRestarts' = migRestarts + 1
  /\ UNCHANGED <<db, sharded, execFailures>>

MigNext ==
  \/ NextStep \/ MigrationDone \/ ExecOnCluster \/ ExecFails \/ RetryMigration
  \/ RestartOrchestrator

(* The orchestrator goes on.                                               *)
MigProgress == NextStep \/ MigrationDone \/ ExecOnCluster \/ RetryMigration

----------------------------------------------------------------------------
(* Properties                                                              *)

(* Whatever was interrupted before, once the migration is done, the tables *)
(* of the flows have the columns that are wanted, the aggregated ones are  *)
(* sorted as wanted, the distributed tables have the columns of the local  *)
(* ones, and every flow that is inserted gets where it should.             *)
MigratedIsWanted ==
  mig.state = "done" =>
    /\ \A r \in Resolutions :
         LET table == db[localTable(Flows(r))]
         IN /\ \A i \in DOMAIN WantedColumns(Config, r) :
                 LET c == WantedColumns(Config, r)[i]
                 IN c.name \in DOMAIN table.columns /\ table.columns[c.name] = Definition(c)
            /\ r > 0 => table.keys = ClickHouseSortingKeys(Config)
            /\ table.indexes = WantedIndexes(Config, r)
            /\ \A s \in DOMAIN Config.settings : table.settings[s] = Config.settings[s]
            /\ table.ttl.ttl = Config.ttl
            /\ sharded => db[Flows(r)].distributes = table.columns
    /\ \A v \in {Consumer(RawFlows(Config.hash)), Consumer(Flows(1)), Consumer(Name("exporters", 0))} :
         /\ v \in DOMAIN db
         /\ db[v].from \in DOMAIN db /\ db[v].to \in DOMAIN db

(* Once the migration is done, doing it again has nothing to do.           *)
NothingLeftToDo ==
  mig.state = "done" => \A i \in DOMAIN Steps : Plan(Config, Steps[i]) = <<>>

(* "Older tables should be kept, especially during rolling upgrades": the  *)
(* raw tables of other schemas and their consumers are left alone.         *)
OldRawKept ==
  [][\A n \in DOMAIN db :
       (n.base = "raw" /\ n.key # Config.hash) => (n \in DOMAIN db' /\ db'[n] = db[n])]_migVars

(* When the statements stop failing and the orchestrator stops restarting, *)
(* the migration comes to its end.                                         *)
MigrationsEventuallyDone == <>[](mig.state = "done")
=============================================================================
