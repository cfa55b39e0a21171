--------------------------- MODULE StaticProvider --------------------------
(***************************************************************************)
(* The static provider of metadata and the remote data sources it merges   *)
(* with its own configuration: one goroutine per source fetches the pages  *)
(* of its source, merges what all the sources gave under a lock, and       *)
(* publishes the result after it released the lock.                        *)
(*                                                                         *)
(* A subnet is the set of the exporters it covers.  The configuration of   *)
(* an exporter tells where it comes from: a source and its version, or the *)
(* configuration file.                                                     *)
(***************************************************************************)
EXTENDS Integers, FiniteSets, Sequences, SequencesExt

CONSTANTS Remotes,         \* remote data sources
          Pagination,      \* how the pages of each source are linked
          Pages,           \* pages of each source: its subnets, its links
          StaticExporters, \* subnet -> configuration
          Exporters,
          MaxRemoteVersion \* bound on the changes of a source

StaticConfigs == [from : {"static"}, version : Nat, attributes : BOOLEAN, skip : BOOLEAN]

(* A page: its subnets, and the links to the next one, 0 without a link.   *)
RemotePages == [subnets : Seq(SUBSET Exporters), rel : Nat, link : Nat]

(* All the subnets: prefixes, one is in the other or they are disjoint.    *)
Subnets ==
  DOMAIN StaticExporters
    \cup UNION {Range(page.subnets) : page \in UNION {Range(Pages[s]) : s \in Remotes}}

ASSUME StaticProviderAssumption ==
  /\ Remotes \cap {"none", "static"} = {}
  /\ Pagination \in [Remotes -> {"none", "rel-next", "link-next", "auto"}]
  /\ MaxRemoteVersion \in Nat
  /\ Pages \in [Remotes -> Seq(RemotePages)]
  /\ \A s \in Remotes :
       /\ Pages[s] # <<>>
       /\ \A page \in Range(Pages[s]) : {page.rel, page.link} \subseteq 0..Len(Pages[s])
  /\ IsFiniteSet(Exporters)
  /\ \A n \in DOMAIN StaticExporters :
       n \subseteq Exporters /\ StaticExporters[n] \in StaticConfigs
  /\ \A m, n \in Subnets : m \subseteq n \/ n \subseteq m \/ m \cap n = {}

NoFetch == [page |-> 0, mode |-> "none", results |-> <<>>]
NoConfig == [from |-> "none"]

VARIABLES
  version,     \* version of what each remote source serves
  updater,     \* stage of the goroutine of each source
  fetch,       \* what it fetched so far
  exportersMap,\* last results of each source
  finalMap,    \* what each updater has merged and did not publish yet
  exporters,   \* what lookups use
  loaded       \* sources that were updated once

staticVars == <<version, updater, fetch, exportersMap, finalMap, exporters, loaded>>

(* What initStaticExporters keeps of a configuration: neither the region,  *)
(* the role, the tenant, the site and the group, nor the flag to skip the  *)
(* interfaces that are missing.                                            *)
StaticResults ==
  [n \in DOMAIN StaticExporters |->
     [StaticExporters[n] EXCEPT !.attributes = FALSE, !.skip = FALSE]]

StaticInit ==
  /\ version = [s \in Remotes |-> 0]
  /\ updater = [s \in Remotes |-> "idle"]
  /\ fetch = [s \in Remotes |-> NoFetch]
  /\ exportersMap = [s \in Remotes |-> <<>>]
  /\ finalMap = [s \in Remotes |-> <<>>]
  /\ exporters = StaticExporters
  /\ loaded = {}

(***************************************************************************)
(* The remote data sources.                                                *)
(***************************************************************************)
(* The link to the next page, 0 without one, and the pagination that is    *)
(* used from then on.                                                      *)
nextPageURL(page, mode) ==
  IF mode \in {"rel-next", "auto"} /\ page.rel # 0 THEN <<page.rel, "rel-next">>
  ELSE IF mode \in {"link-next", "auto"} /\ page.link # 0 THEN <<page.link, "link-next">>
  ELSE <<0, mode>>

(* A regular tick, or a tick of the retries.                               *)
StartFetch(s) ==
  /\ updater[s] = "idle"
  /\ updater' = [updater EXCEPT ![s] = "fetching"]
  /\ fetch' = [fetch EXCEPT ![s] = [page |-> 1, mode |-> Pagination[s], results |-> <<>>]]
  /\ UNCHANGED <<version, exportersMap, finalMap, exporters, loaded>>

RemoteConfig(s, subnet) ==
  [subnet |-> subnet,
   config |-> [from |-> s, version |-> version[s], attributes |-> TRUE, skip |-> FALSE]]

FetchPage(s) ==
  /\ updater[s] = "fetching" /\ fetch[s].page # 0
  /\ LET page == Pages[s][fetch[s].page]
         next == nextPageURL(page, fetch[s].mode)
         got == [i \in 1..Len(page.subnets) |-> RemoteConfig(s, page.subnets[i])]
     IN  fetch' = [fetch EXCEPT ![s] = [page |-> next[1], mode |-> next[2],
                                        results |-> @.results \o got]]
  /\ UNCHANGED <<version, updater, exportersMap, finalMap, exporters, loaded>>

(* Any page that fails, or a result that is empty: nothing is kept.        *)
FetchFails(s) ==
  /\ updater[s] = "fetching" /\ (fetch[s].page # 0 \/ fetch[s].results = <<>>)
  /\ updater' = [updater EXCEPT ![s] = "idle"]
  /\ fetch' = [fetch EXCEPT ![s] = NoFetch]
  /\ UNCHANGED <<version, exportersMap, finalMap, exporters, loaded>>

RemoteChanges(s) ==
  /\ version[s] < MaxRemoteVersion
  /\ version' = [version EXCEPT ![s] = @ + 1]
  /\ UNCHANGED <<updater, fetch, exportersMap, finalMap, exporters, loaded>>

(***************************************************************************)
(* UpdateSource.                                                           *)
(***************************************************************************)
(* The last configuration of a subnet in results wins.                     *)
LastOf(results, n) ==
  LET S == {i \in 1..Len(results) : results[i].subnet = n}
  IN  results[CHOOSE i \in S : \A j \in S : j <= i].config

SubnetsIn(results) == {results[i].subnet : i \in 1..Len(results)}

(* Mistake: the remote sources are last.                                   *)
MergedRemoteLast(map, pick) ==
  LET remote == UNION {SubnetsIn(map[s]) : s \in Remotes}
  IN  [n \in remote \cup DOMAIN StaticResults |->
         IF n \in remote THEN LastOf(map[pick[n]], n) ELSE StaticResults[n]]

(* The sources are read in any order, the static configuration is last.    *)
Merged(map, pick) ==
  LET remote == UNION {SubnetsIn(map[s]) : s \in Remotes}
  IN  [n \in remote \cup DOMAIN StaticResults |->
         IF n \in DOMAIN StaticResults THEN StaticResults[n] ELSE LastOf(map[pick[n]], n)]

Merge(s) ==
  /\ updater[s] = "fetching" /\ fetch[s].page = 0 /\ fetch[s].results # <<>>
  /\ exportersMap' = [exportersMap EXCEPT ![s] = fetch[s].results]
  /\ LET subnets == UNION {SubnetsIn(exportersMap'[t]) : t \in Remotes}
     IN  \E pick \in [subnets -> Remotes] :
           /\ \A n \in subnets : n \in SubnetsIn(exportersMap'[pick[n]])
           /\ finalMap' = [finalMap EXCEPT ![s] = Merged(exportersMap', pick)]
  /\ fetch' = [fetch EXCEPT ![s] = NoFetch]
  /\ updater' = [updater EXCEPT ![s] = "merged"]
  /\ UNCHANGED <<version, exporters, loaded>>

Publish(s) ==
  /\ updater[s] = "merged"
  /\ exporters' = finalMap[s]
  /\ finalMap' = [finalMap EXCEPT ![s] = <<>>]
  /\ updater' = [updater EXCEPT ![s] = "idle"]
  /\ loaded' = loaded \cup {s}
  /\ UNCHANGED <<version, fetch, exportersMap>>

(***************************************************************************)
(* Queries.                                                                *)
(***************************************************************************)
(* The most specific subnet.                                               *)
Lookup(map, e) ==
  LET S == {n \in DOMAIN map : e \in n}
  IN  IF S = {} THEN NoConfig
      ELSE map[CHOOSE n \in S : \A other \in S : n \subseteq other]

(* What a query about an interface gets from the configuration.            *)
StaticQuery(map, e, iface) ==
  LET config == Lookup(map, e)
  IN  IF config = NoConfig THEN "skip"
      ELSE IF iface = "known" THEN "found"
      ELSE IF config.skip THEN "skip" ELSE "default"

StaticNext ==
  \E s \in Remotes :
    \/ StartFetch(s) \/ FetchPage(s) \/ FetchFails(s)
    \/ Merge(s) \/ Publish(s) \/ RemoteChanges(s)

StaticSpec == StaticInit /\ [][StaticNext]_staticVars

-----------------------------------------------------------------------------
(* Whatever the remote sources say of its subnet, and in whatever order    *)
(* they are updated, an exporter of the configuration stays there, and the *)
(* interfaces it names are answered.                                       *)
StaticRight ==
  \A n \in DOMAIN StaticExporters :
    /\ n \in DOMAIN exporters /\ exporters[n].from = "static"
    /\ \A e \in n : StaticQuery(exporters, e, "known") = "found"

(* The pages of a source that the links of the others lead to.             *)
FollowedPages(s) ==
  LET at[k \in 0..Len(Pages[s])] ==
        IF k = 0 THEN <<1, Pagination[s]>>
        ELSE IF at[k - 1][1] = 0 THEN at[k - 1]
        ELSE nextPageURL(Pages[s][at[k - 1][1]], at[k - 1][2])
  IN  {at[k][1] : k \in 0..Len(Pages[s])} \ {0}

(* When the sources stop changing, each subnet they serve, on any of their *)
(* pages, ends up being in what lookups use, as one of the sources has it  *)
(* now, although an update may publish an older map than the one it        *)
(* replaces.                                                               *)
UpToDate ==
  \A s \in Remotes : \A p \in FollowedPages(s) :
    \A n \in Range(Pages[s][p].subnets) \ DOMAIN StaticExporters :
      n \in DOMAIN exporters /\ exporters[n].version = version[exporters[n].from]

StaticCatchesUp == <>[]UpToDate
============================================================================
