-------------------------- MODULE ConfigMigration --------------------------
(***************************************************************************)
(* The hooks of cmd/akvorado that migrate the configuration of the         *)
(* orchestrator from the places its settings used to have.  They run one   *)
(* after the other when the top level is decoded, then the one of the      *)
(* outlet runs for each outlet.                                            *)
(*                                                                         *)
(* A map is a function from its keys to its values; there are maps at the  *)
(* top level, in "clickhouse" and "clickhousedb", in each inlet and in     *)
(* each outlet.                                                            *)
(***************************************************************************)
EXTENDS Naturals, Sequences, FiniteSets, TLC, SequencesExt

CONSTANT RawConfigs       \* what users may have in their file

VARIABLES raw, migrated, hook

migrationVars == <<raw, migrated, hook>>

Rejected == "error" :> TRUE

Only(map, keys) == [k \in DOMAIN map \cap keys |-> map[k]]
Without(map, keys) == [k \in DOMAIN map \ keys |-> map[k]]
Has(map, key) == key \in DOMAIN map

ClickHouseFields == {"servers", "cluster", "database"}
InletFields == {"metadata", "routing", "core", "schema", "bmp", "snmp"}
NetworksFields == {"networks", "network-sources"}

orchestratorClickHouseMigration(from) ==
  LET fields == IF Has(from, "clickhouse") THEN Only(from["clickhouse"], ClickHouseFields) ELSE <<>>
  IN IF fields = <<>> THEN from
     ELSE IF Has(from, "clickhousedb") THEN Rejected
     ELSE [from EXCEPT !["clickhouse"] = Without(@, ClickHouseFields)]
                   @@ "clickhousedb" :> fields

(* Only when there is no outlet and a single inlet.                        *)
orchestratorInletToOutletMigration(from) ==
  LET found == IF Has(from, "inlet")
               THEN {i \in DOMAIN from["inlet"] : Only(from["inlet"][i], InletFields) # <<>>} ELSE {}
  IN IF found = {} THEN from
     ELSE IF Has(from, "outlet") \/ Len(from["inlet"]) > 1 THEN Rejected
     ELSE [from EXCEPT !["inlet"] = <<Without(@[1], InletFields)>>]
                   @@ "outlet" :> <<Only(from["inlet"][1], InletFields)>>

(* Mistake: the first outlet gets it.                                      *)
orchestratorMigrateToOutletFirst(from, name, value) ==
  IF ~Has(from, "outlet") THEN from @@ "outlet" :> <<name :> value>>
  ELSE IF \E i \in DOMAIN from["outlet"] : Has(from["outlet"][i], name) THEN Rejected
  ELSE [from EXCEPT !["outlet"] =
                   [i \in DOMAIN @ |-> IF i = 1 THEN @[i] @@ name :> value ELSE @[i]]]

orchestratorMigrateToOutlet(from, name, value) ==
  IF ~Has(from, "outlet") THEN from @@ "outlet" :> <<name :> value>>
  ELSE IF \E i \in DOMAIN from["outlet"] : Has(from["outlet"][i], name) THEN Rejected
  ELSE [from EXCEPT !["outlet"] = [i \in DOMAIN @ |-> @[i] @@ name :> value]]

(* The first one of the inlets, the others are deleted.                    *)
orchestratorGeoIPMigration(from) ==
  LET inlets == IF Has(from, "inlet") THEN from["inlet"] ELSE <<>>
      given == SelectSeq(inlets, LAMBDA i : Has(i, "geoip"))
  IN IF given # <<>> /\ Has(from, "geoip") THEN Rejected
     ELSE IF given # <<>> THEN
            orchestratorMigrateToOutlet(
              [from EXCEPT !["inlet"] = [i \in DOMAIN @ |-> Without(@[i], {"geoip"})]],
              "geoip", given[1]["geoip"])
     ELSE IF Has(from, "geoip") THEN
            orchestratorMigrateToOutlet(Without(from, {"geoip"}), "geoip", from["geoip"])
     ELSE from

orchestratorNetworksMigration(from) ==
  LET fields == IF Has(from, "clickhouse") THEN Only(from["clickhouse"], NetworksFields) ELSE <<>>
  IN IF fields = <<>> THEN from
     ELSE orchestratorMigrateToOutlet([from EXCEPT !["clickhouse"] = Without(@, NetworksFields)],
                                      "networks", fields)

(* Settings of the component, and not of the provider.                     *)
MetadataFields == {"cache-duration", "query-timeout"}

(* snmp or bmp becomes the provider of metadata or routing; two settings   *)
(* of SNMP are no more.                                                    *)
Renamed(outlet, key, name, fields) ==
  IF ~Has(outlet, key) THEN outlet
  ELSE IF Has(outlet, name) THEN Rejected
  ELSE
         LET map == Without(outlet[key], IF key = "snmp" THEN {"poller-coalesce", "workers"} ELSE {})
         IN Without(outlet, {key}) @@
              name :> (Only(map, fields) @@ "provider" :> (Without(map, fields) @@ "type" :> key))

OutletConfiguration(outlet) ==
  LET snmp == Renamed(outlet, "snmp", "metadata", MetadataFields)
  IN IF snmp = Rejected THEN Rejected ELSE Renamed(snmp, "bmp", "routing", {})

OutletsDecoded(from) ==
  LET outlets == IF Has(from, "outlet") THEN from["outlet"] ELSE <<>>
      decoded == [i \in DOMAIN outlets |-> OutletConfiguration(outlets[i])]
  IN IF outlets = <<>> THEN from
     ELSE IF Rejected \in Range(decoded) THEN Rejected
     ELSE [from EXCEPT !["outlet"] = decoded]

ConfigInit == raw \in RawConfigs /\ migrated = raw /\ hook = 1

Apply(order) ==
  /\ hook <= 5 /\ migrated # Rejected
  /\ hook' = hook + 1
  /\ migrated' =
       CASE order[hook] = "clickhouse" -> orchestratorClickHouseMigration(migrated)
         [] order[hook] = "inlet" -> orchestratorInletToOutletMigration(migrated)
         [] order[hook] = "geoip" -> orchestratorGeoIPMigration(migrated)
         [] order[hook] = "networks" -> orchestratorNetworksMigration(migrated)
         [] OTHER -> OutletsDecoded(migrated)
  /\ UNCHANGED raw

(* In the order they are registered.                                       *)
Hook == Apply(<<"clickhouse", "inlet", "geoip", "networks", "outlet">>)

----------------------------------------------------------------------------
(* Properties                                                              *)

Maps(from, key) == IF Has(from, key) THEN from[key] ELSE <<>>

(* A setting is where the outlet looks for it.                             *)
Holds(outlet, key, value) ==
  LET kept(name, setting) ==
        LET map == Maps(outlet, name)
            all == map @@ Maps(map, "provider")
        IN Has(all, setting) /\ all[setting] = value[setting]
  IN CASE key = "snmp" ->
            \A s \in DOMAIN value \ {"poller-coalesce", "workers"} : kept("metadata", s)
       [] key = "bmp" -> \A s \in DOMAIN value : kept("routing", s)
       [] OTHER -> Has(outlet, key) /\ outlet[key] = value

(* What was given at a former place, and has to be in all the outlets.     *)
Former ==
  UNION {{<<k, map[k]>> : k \in DOMAIN map \cap InletFields} : map \in Range(Maps(raw, "inlet"))}
  \cup (LET given == SelectSeq(Append(Maps(raw, "inlet"), raw), LAMBDA map : Has(map, "geoip"))
        IN IF given = <<>> THEN {} ELSE {<<"geoip", given[1]["geoip"]>>})
  \cup {<<"networks", fields>> : fields \in {Only(Maps(raw, "clickhouse"), NetworksFields)} \ {<<>>}}

(* When the configuration is accepted, each setting is where it belongs,   *)
(* for all the outlets, whatever the combination of hooks that moved it,   *)
(* and nothing is left where nobody looks any more.                        *)
NothingLost ==
  hook = 6 /\ migrated # Rejected =>
    /\ Former # {} => Maps(migrated, "outlet") # <<>>
    /\ \A o \in Range(Maps(migrated, "outlet")), f \in Former : Holds(o, f[1], f[2])
    /\ \A i \in DOMAIN Maps(raw, "outlet") : \A k \in DOMAIN raw["outlet"][i] :
         Holds(migrated["outlet"][i], k, raw["outlet"][i][k])
    /\ \A i \in DOMAIN Maps(raw, "inlet") :
         Maps(migrated, "inlet")[i] = Without(Maps(raw, "inlet")[i], InletFields \cup {"geoip"})
    /\ Has(raw, "clickhouse") =>
         /\ migrated["clickhouse"] = Without(raw["clickhouse"], ClickHouseFields \cup NetworksFields)
         /\ \A f \in DOMAIN raw["clickhouse"] \cap ClickHouseFields :
              migrated["clickhousedb"][f] = raw["clickhouse"][f]

(* The same setting at two places, or an inlet that cannot become the      *)
(* outlet.                                                                 *)
Conflict ==
  LET inlets == Maps(raw, "inlet") outlets == Maps(raw, "outlet")
      moved == {i \in DOMAIN inlets : DOMAIN inlets[i] \cap InletFields # {}}
      all == IF moved = {} THEN outlets ELSE outlets \o inlets
  IN \/ Has(raw, "clickhousedb") /\ Only(Maps(raw, "clickhouse"), ClickHouseFields) # <<>>
     \/ moved # {} /\ (Has(raw, "outlet") \/ Len(inlets) > 1)
     \/ Has(raw, "geoip") /\ \E i \in Range(inlets) : Has(i, "geoip")
     \/ \E o \in Range(outlets) :
          \/ Has(o, "geoip") /\ \E m \in Range(inlets) \cup {raw} : Has(m, "geoip")
          \/ Has(o, "networks") /\ Only(Maps(raw, "clickhouse"), NetworksFields) # <<>>
     \/ \E m \in Range(all) : {"snmp", "metadata"} \subseteq DOMAIN m \/ {"bmp", "routing"} \subseteq DOMAIN m

(* A configuration without a conflict is accepted, and no other one is.    *)
ConflictsOnly ==
  /\ migrated = Rejected => Conflict
  /\ hook = 6 /\ migrated # Rejected => ~Conflict

(* An older configuration keeps its meaning, or is refused.                *)
MigrationKeeps == NothingLost /\ ConflictsOnly
=============================================================================
