------------------------------- MODULE Schema -------------------------------
(***************************************************************************)
(* common/schema: the columns of the flows, as a configuration alters the  *)
(* static ones.  The orchestrator builds the schema again, in the same     *)
(* process, each time its configuration changes; the map of the names is   *)
(* global, it keeps the custom columns of the previous schemas.  The other *)
(* services build it once.                                                 *)
(*                                                                         *)
(* A name is its direction ("Src", "OutIf"...) and the words after it.  An *)
(* SQL expression is reduced to the names of the columns it reads.         *)
(***************************************************************************)
EXTENDS Integers, Sequences, FiniteSets, SequencesExt, TLC

CONSTANTS
  StaticColumns,          \* the columns of flows(), before their expansion
  StaticNames,            \* per key, from 1, the name of a static column
  PrimaryKeys,            \* keys of the primary key, in order
  DefaultIndexes,         \* per key, the type of the skip index
  SchemaConfigs,          \* configurations of the schema
  MaxSchemas              \* bound: schemas a process builds

VARIABLES
  nameKeys, keyNames,     \* columnNameMap: per name the last key it was given, and per key
                          \* the last name
  schema                  \* the last schema: state, configuration, columns, indexes, groups,
                          \* and two ghosts: how many the process built before, the order of
                          \* its dictionaries

schemaVars == <<nameKeys, keyNames, schema>>

----------------------------------------------------------------------------
(* Columns.  One that is "sent" comes from the outlet, a "generated" one   *)
(* is computed when it is stored, an "alias" when it is queried.           *)
NoName == [way |-> "", rest |-> <<>>]
Column(key, kind, reads) ==
  [key |-> key, name |-> NoName, disabled |-> FALSE, noDisable |-> FALSE, group |-> 0,
   depends |-> {}, mainOnly |-> FALSE, notSortingKey |-> FALSE, kind |-> kind, reads |-> reads,
   exportable |-> TRUE, index |-> 0]

shouldProvideValue(c) == c.kind = "sent"
LookupColumnByKey(columns, key) == CHOOSE c \in Range(columns) : c.key = key
KeysOf(columns) == {c.key : c \in Range(columns)}
EnabledColumns(columns) == SelectSeq(columns, LAMBDA c : ~c.disabled)

(* The names of the other direction.                                       *)
Directions == [Src |-> "Dst", Dst |-> "Src", InIf |-> "OutIf", OutIf |-> "InIf"]
Mirrors(name) == name.way \in {"Src", "InIf"}
Mirror(name) ==
  IF name.way \in DOMAIN Directions THEN [name EXCEPT !.way = Directions[@]] ELSE name
SwapPrefix(name, way) == IF name.way = way THEN Mirror(name) ELSE name

(* Mistake: an alias of all the tables is in the sorting key.              *)
NamedColumnSortable(c) == [c EXCEPT !.name = IF @ = NoName THEN StaticNames[c.key] ELSE @]

(* An alias of all the tables is not in their sorting key.                 *)
NamedColumn(c) ==
  [c EXCEPT !.name = IF @ = NoName THEN StaticNames[c.key] ELSE @,
            !.notSortingKey = @ \/ (~c.mainOnly /\ c.kind = "alias")]

(* A column gets its mirror, unless a column has its key already.          *)
LacksMirror(c, columns, names) ==
  /\ Mirrors(c.name)
  /\ ~(Mirror(c.name) \in DOMAIN names /\ names[Mirror(c.name)] \in KeysOf(columns))
Expanded(columns, names) ==
  FlattenSeq([i \in DOMAIN columns |->
    LET c == NamedColumn(columns[i])
    IN IF ~LacksMirror(c, columns, names) THEN <<c>>
       ELSE <<c, [c EXCEPT !.name = Mirror(@), !.key = names[Mirror(c.name)],
                           !.reads = {SwapPrefix(n, c.name.way) : n \in @}]>>])

(* Protobuf fields: a column keeps the one it has.                         *)
Numbered(columns) ==
  LET Fresh(i) == shouldProvideValue(columns[i]) /\ columns[i].index = 0
  IN [i \in DOMAIN columns |->
       [columns[i] EXCEPT !.index =
          IF ~shouldProvideValue(columns[i]) \/ ~columns[i].exportable THEN -1
          ELSE IF Fresh(i) THEN Cardinality({j \in 1..i : Fresh(j)})
          ELSE @]]

(* It panics when the name of a mirror is not known.                       *)
Panics(columns, names) ==
  \E c \in Range(columns) :
    LET name == NamedColumn(c).name IN Mirrors(name) /\ Mirror(name) \notin DOMAIN names
finalize(columns, names) == Numbered(Expanded(columns, names))

disabledGroups(columns) ==
  {g \in {c.group : c \in Range(columns)} \ {0} :
     \A c \in Range(columns) : c.group = g => c.disabled}

----------------------------------------------------------------------------
(* What a configuration changes in the static columns, in this order.      *)
Materialized(c, cfg) ==
  IF c.key \in cfg.materialize THEN [c EXCEPT !.kind = "generated"] ELSE c
Available(c, cfg) ==
  [c EXCEPT !.disabled = (@ /\ c.key \notin cfg.enabled) \/ c.key \in cfg.disabled]
Placed(c, cfg) ==
  [c EXCEPT !.mainOnly = (@ /\ c.key \notin cfg.notMainTableOnly) \/ c.key \in cfg.mainTableOnly]
Configured(columns, cfg) ==
  [i \in DOMAIN columns |-> Placed(Available(Materialized(columns[i], cfg), cfg), cfg)]

effective(cfg) ==
  [k \in (DOMAIN DefaultIndexes \cup DOMAIN cfg.indexes) \ cfg.noIndexes |->
     (cfg.indexes @@ DefaultIndexes)[k]]

CannotMoveOrDisable(c, cfg) ==
  /\ c.key \in cfg.disabled \cup cfg.mainTableOnly
  /\ c.noDisable \/ c.key \in Range(PrimaryKeys)

(* A column is not disabled when one it depends on is not.                 *)
Refused(columns, cfg) ==
  \/ \E c \in Range(columns) :
       \/ c.key \in cfg.materialize /\ c.kind # "alias"
       \/ CannotMoveOrDisable(c, cfg)
       \/ c.key \in cfg.disabled
            /\ \E k \in c.depends : ~Available(LookupColumnByKey(columns, k), cfg).disabled
  \/ ~(DOMAIN effective(cfg) \subseteq KeysOf(columns))

(* Custom dictionaries: a key matches the dimension, a named one, or the   *)
(* dimension with a suffix.                                                *)
HasMatch(k) == k.match # NoName \/ k.suffix # <<>>
RefusedDictionary(d) ==
  /\ d.dimensions # <<>>
  /\ \/ d.keys = <<>>
     \/ d.layout = "ip_trie" /\ (Len(d.keys) > 1 \/ ~d.keys[1].string)
     \/ Len(d.keys) > 1 /\ \E k \in Range(d.keys) : ~HasMatch(k)

Followed(dimension, words) == [dimension EXCEPT !.rest = @ \o words]

MatchingList(d, dimension) ==
  LET keys == {k \in Range(d.keys) : HasMatch(k)}
  IN IF keys = {} THEN {dimension}
     ELSE {IF k.match # NoName THEN k.match ELSE Followed(dimension, k.suffix) : k \in keys}

(* One column per dimension and attribute, with the next key.              *)
CustomOf(d) ==
  FlattenSeq([i \in DOMAIN d.dimensions |->
    [j \in DOMAIN d.attributes |->
      [name |-> Followed(d.dimensions[i], <<d.attributes[j]>>),
       reads |-> MatchingList(d, d.dimensions[i])]]])

customDictColumns(dicts) ==
  LET customs == FlattenSeq([i \in DOMAIN dicts |-> CustomOf(dicts[i])])
  IN [i \in DOMAIN customs |->
       [Column(Len(StaticNames) + i, "generated", customs[i].reads) EXCEPT !.name = customs[i].name]]

(* Insert: the names of the previous schemas are kept.                     *)
InsertedIn(columns, names) ==
  [n \in {c.name : c \in Range(columns)} |->
     columns[SelectLastInSeq(columns, LAMBDA c : c.name = n)].key] @@ names
Inserted(columns) == InsertedIn(columns, nameKeys)
InsertNames(columns) ==
  /\ nameKeys' = Inserted(columns)
  /\ keyNames' = [k \in KeysOf(columns) |-> LookupColumnByKey(columns, k).name] @@ keyNames

----------------------------------------------------------------------------
NoSchema(state) ==
  [state |-> state, config |-> <<>>, columns |-> <<>>, indexes |-> <<>>, groups |-> {},
   before |-> 0, order |-> <<>>]
StaticKeys ==
  [n \in Range(StaticNames) |-> SelectInSeq(StaticNames, LAMBDA other : other = n)]

Ready == schema.state = "ready"

SchemaInit == nameKeys = StaticKeys /\ keyNames = StaticNames /\ schema = NoSchema("none")

(* All the columns are finalized, the static ones for the second time.     *)
Built(cfg, static, custom, names) ==
  LET columns == finalize(Configured(static, cfg) \o custom, names)
  IN [state |-> "ready", config |-> cfg, columns |-> columns,
      indexes |-> effective(cfg), groups |-> disabledGroups(columns),
      before |-> IF Ready THEN schema.before + 1 ELSE 0, order |-> <<>>]

(* UnmarshalText: a column is named in the configuration by a name that is *)
(* in the map, one of a previous schema maybe.                             *)
Altering(cfg) ==
  cfg.materialize \cup cfg.enabled \cup cfg.disabled \cup cfg.notMainTableOnly \cup cfg.mainTableOnly
Decodes(cfg) == Altering(cfg) \subseteq Range(nameKeys)

(* LookupColumnByKey goes out of the index of the static columns.          *)
OutOfIndex(cfg) == ~(Altering(cfg) \subseteq DOMAIN StaticNames)

(* The dictionaries are a map, they come in any order; the names of those  *)
(* before the one that is refused are kept.                                *)
New(cfg) ==
  /\ schema.state = "none" \/ (Ready /\ schema.before + 1 < MaxSchemas)
  /\ Decodes(cfg)
  /\ \E dicts \in SetToSeqs(cfg.customDictionaries) :
       LET static == finalize(StaticColumns, nameKeys)
           refusedAt == SelectInSeq(dicts, RefusedDictionary)
           custom == customDictColumns(dicts)
           names == Inserted(custom)
       IN \/ /\ OutOfIndex(cfg)
             /\ schema' = NoSchema("panic") /\ UNCHANGED <<nameKeys, keyNames>>
          \/ /\ Refused(static, cfg)
             /\ schema' = NoSchema("refused") /\ UNCHANGED <<nameKeys, keyNames>>
          \/ /\ ~OutOfIndex(cfg) /\ ~Refused(static, cfg) /\ refusedAt # 0
             /\ schema' = NoSchema("refused") /\ InsertNames(customDictColumns(SubSeq(dicts, 1, refusedAt - 1)))
          \/ /\ ~OutOfIndex(cfg) /\ ~Refused(static, cfg) /\ refusedAt = 0
             /\ InsertNames(custom)
             /\ schema' = IF Panics(Configured(static, cfg) \o custom, names) THEN NoSchema("panic")
                          ELSE [Built(cfg, static, custom, names) EXCEPT !.order = dicts]

(* The process starts again: the names are the static ones.                *)
NewProcess ==
  /\ schema.state # "none"
  /\ nameKeys' = StaticKeys /\ keyNames' = StaticNames /\ schema' = NoSchema("none")

SchemaNext == NewProcess \/ \E cfg \in SchemaConfigs : New(cfg)

----------------------------------------------------------------------------
(* Who uses the columns                                                    *)

(* The key that the map has for the name of the other direction may be out *)
(* of the index of this schema, which panics.                              *)
ReversalPanics == 0
ReverseColumnDirection(columns, key) ==
  LET name == keyNames[key]
      candidate == nameKeys[Mirror(name)]
  IN IF name.way \notin DOMAIN Directions \/ Mirror(name) \notin DOMAIN nameKeys THEN key
     ELSE IF \A k \in KeysOf(columns) : k < candidate THEN ReversalPanics
     ELSE IF candidate \in KeysOf(EnabledColumns(columns)) THEN candidate ELSE key

ClickHousePrimaryKeyNames == {StaticNames[k] : k \in Range(PrimaryKeys)}
ClickHouseSortingKeyNames(columns) ==
  ClickHousePrimaryKeyNames
    \cup {c.name : c \in {d \in Range(EnabledColumns(columns)) : ~d.notSortingKey /\ ~d.mainOnly}}

(* The columns of the tables: the raw one, and the one with aggregates.    *)
RawColumns(columns) == {c \in Range(EnabledColumns(columns)) : c.kind = "sent"}
AggregatedColumns(columns) == {c \in Range(EnabledColumns(columns)) : ~c.mainOnly}

(* The aggregated tables have all of their sorting key, whatever is        *)
(* disabled, moved to the main table or back, or materialized, and         *)
(* ClickHouse stores it: none of it is an alias.                           *)
SortingKeyStored ==
  Ready => ClickHouseSortingKeyNames(schema.columns)
             \subseteq {c.name : c \in {d \in AggregatedColumns(schema.columns) : d.kind # "alias"}}

(* The fields of the Protobuf messages are those of the columns that are   *)
(* in the raw table, distinct, and never depend on the configuration: a    *)
(* consumer of the enriched flows still understands what it knows.         *)
FieldsKept ==
  Ready =>
    /\ \A c \in RawColumns(schema.columns) : c.exportable =>
         /\ c.index > 0
         /\ c.index = LookupColumnByKey(finalize(StaticColumns, StaticKeys), c.key).index
    /\ \A c, d \in RawColumns(schema.columns) : c.index = d.index /\ c.index > 0 => c = d

(* Decoders skip what belongs to a group when it is disabled: a group with *)
(* an enabled column is not, and one without is.                           *)
GroupsExact ==
  Ready =>
    schema.groups = {c.group : c \in Range(schema.columns)}
                      \ ({0} \cup {c.group : c \in Range(EnabledColumns(schema.columns))})

(* What a process that builds no other schema has for the same dictionaries *)
(* in the same order; it panics when the mirror of a column is missing.    *)
FreshNames == InsertedIn(customDictColumns(schema.order), StaticKeys)
FreshColumns == Configured(finalize(StaticColumns, StaticKeys), schema.config)
                  \o customDictColumns(schema.order)
BuiltAfresh == ~Panics(FreshColumns, FreshNames)

(* Whatever was configured before in this process, the columns are those   *)
(* of a process that starts with this configuration, and have the same     *)
(* keys: the orchestrator creates for the tables what the outlets fill and *)
(* the consoles query.  It goes without a configuration that no process    *)
(* can start with, that the orchestrator takes nonetheless.                *)
SameAsFresh ==
  Ready /\ BuiltAfresh =>
    /\ schema.columns = finalize(FreshColumns, FreshNames)
    /\ \A c \in Range(schema.columns) :
         nameKeys[c.name] = FreshNames[c.name] /\ keyNames[c.key] = c.name

(* The dictionaries add a column per dimension and attribute, that looks   *)
(* up the dimension itself or what the keys say and is found by its name,  *)
(* and no other but their mirrors.                                         *)
CustomColumnsRight ==
  Ready /\ BuiltAfresh =>
    LET custom == {c \in Range(schema.columns) : c.key > Len(StaticNames)}
        wanted == UNION {Range(CustomOf(d)) : d \in schema.config.customDictionaries}
    IN /\ wanted \subseteq {[name |-> c.name, reads |-> c.reads] : c \in custom}
       /\ \A c \in custom : {c.name, Mirror(c.name)} \cap {w.name : w \in wanted} # {}
       /\ \A c, d \in custom : c.key = d.key => c = d
       /\ \A c \in custom : nameKeys[c.name] = c.key

(* Graphs in both directions, in a console, that builds its schema once:   *)
(* the other direction of a column is one the console has, and going back  *)
(* is where we come from.                                                  *)
ReversedTwice ==
  Ready /\ schema.before = 0 =>
    \A c \in Range(EnabledColumns(schema.columns)) :
      LET other == ReverseColumnDirection(schema.columns, c.key)
      IN /\ other \in KeysOf(EnabledColumns(schema.columns))
         /\ ReverseColumnDirection(schema.columns, other) = c.key

(* The schema is consistent for all its users, whatever is configured.     *)
ColumnsRight ==
  SortingKeyStored /\ FieldsKept /\ GroupsExact /\ SameAsFresh /\ CustomColumnsRight /\ ReversedTwice
=============================================================================
