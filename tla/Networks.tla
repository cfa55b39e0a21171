------------------------------ MODULE Networks ------------------------------
(***************************************************************************)
(* The networks component of the outlet, the GeoIP databases and the       *)
(* remote sources it is built from.                                        *)
(*                                                                         *)
(*  - GeoIP databases are files that are opened when the component starts  *)
(*    and each time a file event says they changed.  The previous one is   *)
(*    closed in the background, never while it is walked.                  *)
(*  - A goroutine per remote source fetches it, and rebuilds the tree when *)
(*    its content changed.  Another one rebuilds it when a GeoIP database  *)
(*    changed.  Concurrent calls to rebuild are coalesced.                 *)
(*  - Start waits for the sources, not longer than a timeout.              *)
(***************************************************************************)
EXTENDS NetworkTree

CONSTANTS GeoDatabases,  \* sequences of the configured paths
          ASNDatabases,
          Sources,       \* configured remote sources
          FileTables,    \* tables that a file may hold
          SourceTables,  \* tables that a remote source may answer
          Broken,        \* a file that cannot be opened
          Static,        \* networks of the configuration
          Addresses,     \* addresses that are looked up
          MaxChanges     \* bound on the changes of the files and of the sources

Databases == ToSet(ASNDatabases) \cup ToSet(GeoDatabases)

NoTable == {}

(* Databases are optional, and a path is in one list only.                 *)
ASSUME NetworksAssumption ==
  /\ ToSet(ASNDatabases) \cap ToSet(GeoDatabases) = {}
  /\ IsFiniteSet(Sources)
  /\ {"start", "geoip", "free"} \cap Sources = {}
  /\ Broken \notin FileTables \cup {NoTable}
  /\ NoTable \notin SourceTables
  /\ MaxChanges \in Nat

(* A table has a prefix once: what a source gives twice for one is merged. *)
ASSUME TablesAssumption ==
  /\ ASNDatabases \in Seq(ToSet(ASNDatabases)) /\ GeoDatabases \in Seq(ToSet(GeoDatabases))
  /\ \A table \in FileTables \cup SourceTables \cup {Static} : IsTable(table)
  /\ Addresses \subseteq CIDRs

VARIABLES
  file,            \* content of each file
  remote,          \* what each remote source would answer
  changes,         \* number of changes of the files and of the sources
  fileEvents,      \* files with an event the watcher did not receive yet
  missed,          \* files that changed after they were opened, unwatched
  toOpen,          \* databases Start has still to open
  watcher,         \* "none", "running" or "exited"
  opening,         \* openDatabase in progress
  content,         \* content of each database opened so far
  databases,       \* the database published for each path, or zero
  closing,         \* databases to be closed in the background
  closes,          \* number of times each database was closed
  iterLock,        \* who holds this lock, or "free"
  walking,         \* databases being walked
  geoipUpdate,     \* there is a notification in this channel
  networkSources,  \* what was fetched from each source
  fetched,         \* results of the fetch in progress
  ready,           \* sources that are ready
  timedOut,        \* Start did not wait for all the sources
  rebuildWanted,
  rebuildLock,     \* who holds this lock, or "free"
  merged,          \* contents of the databases in the rebuild in progress
  built,           \* what the tree was built from, see networks
  pc               \* program counter of each goroutine

fileVars == <<file, remote, changes, missed>>
geoVars == <<toOpen, watcher, opening, content, databases, closing, closes>>
walkVars == <<iterLock, walking, merged>>
sourceVars == <<networkSources, fetched, ready>>
vars == <<fileVars, fileEvents, geoVars, walkVars, geoipUpdate, sourceVars, timedOut,
          rebuildWanted, rebuildLock, built, pc>>

Goroutines == Sources \cup {"start", "geoip"}

NotOpening == [step |-> "none"]

(* Content of the database published for each path.                        *)
Published ==
  [d \in Databases |-> IF databases[d] = 0 THEN NoTable ELSE content[databases[d]]]

(* The sources are walked in the order of a Go map: any.                   *)
Orders == {order \in [1..Cardinality(Sources) -> Sources] : IsInjective(order)}

(* Tables of the tree in the order they were merged, and the tree.         *)
Tables(order) ==
  [i \in DOMAIN ASNDatabases |-> built.databases[ASNDatabases[i]]]
    \o [i \in DOMAIN GeoDatabases |-> built.databases[GeoDatabases[i]]]
    \o [i \in DOMAIN order |-> built.sources[order[i]]]
    \o <<Static>>

networks(order) == BuildTree(Tables(order))

-----------------------------------------------------------------------------
Init ==
  /\ file \in [Databases -> FileTables \cup {Broken}]
  /\ remote \in [Sources -> SourceTables]
  /\ changes = 0
  /\ fileEvents = {} /\ missed = {}
  /\ toOpen = Databases
  /\ watcher = "none"
  /\ opening = NotOpening
  /\ content = <<>>
  /\ databases = [d \in Databases |-> 0]
  /\ closing = {} /\ closes = <<>>
  /\ iterLock = "free" /\ walking = {}
  /\ geoipUpdate = FALSE
  /\ networkSources = [s \in Sources |-> NoTable]
  /\ fetched = [s \in Sources |-> NoTable]
  /\ ready = {}
  /\ timedOut = FALSE
  /\ rebuildWanted = FALSE /\ rebuildLock = "free"
  /\ merged = [d \in Databases |-> NoTable]
  /\ built = [databases |-> merged, sources |-> networkSources]
  /\ pc = [g \in Goroutines |-> IF g = "start" THEN "open" ELSE "none"]

(***************************************************************************)
(* Files and remote sources.                                               *)
(***************************************************************************)
ChangeFile(d) ==
  /\ changes < MaxChanges
  /\ changes' = changes + 1
  /\ \E table \in (FileTables \cup {Broken}) \ {file[d]} :
       file' = [file EXCEPT ![d] = table]
  /\ IF watcher # "none"
     THEN fileEvents' = fileEvents \cup {d} /\ missed' = missed \ {d}
     ELSE /\ missed' = IF d \in toOpen THEN missed ELSE missed \cup {d}
          /\ UNCHANGED fileEvents
  /\ UNCHANGED <<remote, geoVars, walkVars, geoipUpdate, sourceVars, timedOut,
                 rebuildWanted, rebuildLock, built, pc>>

ChangeRemote(s) ==
  /\ changes < MaxChanges
  /\ changes' = changes + 1
  /\ \E table \in SourceTables \ {remote[s]} : remote' = [remote EXCEPT ![s] = table]
  /\ UNCHANGED <<file, missed, fileEvents, geoVars, walkVars, geoipUpdate, sourceVars,
                 timedOut, rebuildWanted, rebuildLock, built, pc>>

(***************************************************************************)
(* Opening and closing a GeoIP database.                                   *)
(***************************************************************************)
GoTo(g, label) == pc' = [pc EXCEPT ![g] = label]

openDatabase(d) ==
  /\ opening = NotOpening
  /\ IF file[d] = Broken
     THEN UNCHANGED <<content, closes, opening>>
     ELSE /\ content' = Append(content, file[d])
          /\ closes' = Append(closes, 0)
          /\ opening' = [step |-> "store", path |-> d, new |-> Len(content) + 1, old |-> 0]

StoreDatabase ==
  /\ opening.step = "store"
  /\ databases' = [databases EXCEPT ![opening.path] = opening.new]
  /\ opening' = [opening EXCEPT !.step = "notify", !.old = databases[opening.path]]
  /\ UNCHANGED <<fileVars, fileEvents, toOpen, watcher, content, closing, closes, walkVars,
                 geoipUpdate, sourceVars, timedOut, rebuildWanted, rebuildLock,
                 built, pc>>

notify ==
  /\ opening.step = "notify"
  /\ geoipUpdate' = TRUE
  /\ closing' = closing \cup ({opening.old} \ {0})
  /\ opening' = NotOpening
  /\ UNCHANGED <<fileVars, fileEvents, toOpen, watcher, content, databases, closes,
                 walkVars, sourceVars, timedOut, rebuildWanted, rebuildLock, built, pc>>

CloseOld(h) ==
  /\ h \in closing
  /\ iterLock = "free"
  /\ closing' = closing \ {h}
  /\ closes' = [closes EXCEPT ![h] = @ + 1]
  /\ UNCHANGED <<fileVars, fileEvents, toOpen, watcher, opening, content, databases,
                 walkVars, geoipUpdate, sourceVars, timedOut, rebuildWanted,
                 rebuildLock, built, pc>>

(* Start opens the databases, then sets up the watcher.                    *)
StartOpen(d) ==
  /\ pc["start"] = "open"
  /\ d \in toOpen
  /\ openDatabase(d)
  /\ toOpen' = toOpen \ {d}
  /\ UNCHANGED <<fileVars, fileEvents, watcher, databases, closing, walkVars, geoipUpdate,
                 sourceVars, timedOut, rebuildWanted, rebuildLock, built, pc>>

StartWatcher ==
  /\ pc["start"] = "open"
  /\ toOpen = {} /\ opening = NotOpening
  /\ watcher' = "running"
  /\ GoTo("start", "drain")
  /\ UNCHANGED <<fileVars, fileEvents, toOpen, opening, content, databases, closing, closes,
                 walkVars, geoipUpdate, sourceVars, timedOut, rebuildWanted,
                 rebuildLock, built>>

WatcherEvent(d) ==
  /\ watcher = "running"
  /\ d \in fileEvents
  /\ fileEvents' = fileEvents \ {d}
  /\ openDatabase(d)
  /\ UNCHANGED <<fileVars, toOpen, watcher, databases, closing, walkVars, geoipUpdate,
                 sourceVars, timedOut, rebuildWanted, rebuildLock, built, pc>>

(***************************************************************************)
(* rebuild, by any goroutine g.                                            *)
(***************************************************************************)
Want(g) ==
  /\ pc[g] = "rebuild"
  /\ rebuildWanted' = TRUE
  /\ GoTo(g, "lock")
  /\ UNCHANGED <<fileVars, fileEvents, geoVars, walkVars, geoipUpdate, sourceVars, timedOut,
                 rebuildLock, built>>

(* Mistake: somebody else's rebuild is said to see the changes.            *)
LockSkip(g) ==
  /\ pc[g] = "lock"
  /\ IF rebuildWanted /\ rebuildLock = "free"
     THEN /\ rebuildWanted' = FALSE
          /\ rebuildLock' = g
          /\ GoTo(g, "asn")
     ELSE /\ GoTo(g, "rebuilt")
          /\ UNCHANGED <<rebuildWanted, rebuildLock>>
  /\ UNCHANGED <<fileVars, fileEvents, geoVars, walkVars, geoipUpdate, sourceVars, timedOut,
                 built>>

(* Somebody else's rebuild has seen the changes, or else this one will.    *)
Lock(g) ==
  /\ pc[g] = "lock"
  /\ rebuildLock = "free"
  /\ IF rebuildWanted
     THEN /\ rebuildWanted' = FALSE
          /\ rebuildLock' = g
          /\ GoTo(g, "asn")
     ELSE /\ GoTo(g, "rebuilt")
          /\ UNCHANGED <<rebuildWanted, rebuildLock>>
  /\ UNCHANGED <<fileVars, fileEvents, geoVars, walkVars, geoipUpdate, sourceVars, timedOut,
                 built>>

(* IterASNDatabases and IterGeoDatabases load the databases under their    *)
(* lock, and keep it while they walk them.                                 *)
Iter(g, paths) ==
  /\ iterLock = "free"
  /\ iterLock' = g
  /\ walking' = {databases[d] : d \in paths} \ {0}
  /\ merged' = [d \in Databases |-> IF d \in paths THEN Published[d] ELSE merged[d]]
  /\ UNCHANGED <<fileVars, fileEvents, geoVars, geoipUpdate, sourceVars, timedOut,
                 rebuildWanted, rebuildLock, built>>

IterASNDatabases(g) == pc[g] = "asn" /\ Iter(g, ToSet(ASNDatabases)) /\ GoTo(g, "asn walk")

IterGeoDatabases(g) == pc[g] = "geo" /\ Iter(g, ToSet(GeoDatabases)) /\ GoTo(g, "geo walk")

Walked(g) ==
  /\ pc[g] \in {"asn walk", "geo walk"}
  /\ iterLock' = "free"
  /\ walking' = {}
  /\ GoTo(g, IF pc[g] = "asn walk" THEN "geo" ELSE "publish")
  /\ UNCHANGED <<fileVars, fileEvents, geoVars, geoipUpdate, sourceVars, timedOut, merged,
                 rebuildWanted, rebuildLock, built>>

Publish(g) ==
  /\ pc[g] = "publish"
  /\ built' = [databases |-> merged, sources |-> networkSources]
  /\ rebuildLock' = "free"
  /\ GoTo(g, "rebuilt")
  /\ UNCHANGED <<fileVars, fileEvents, geoVars, walkVars, geoipUpdate, sourceVars, timedOut,
                 rebuildWanted>>

rebuild(g) ==
  Want(g) \/ Lock(g) \/ IterASNDatabases(g) \/ IterGeoDatabases(g) \/ Walked(g) \/ Publish(g)

(***************************************************************************)
(* Starting the component.                                                 *)
(***************************************************************************)
(* Notifications of the databases opened on start are dropped.             *)
Drain ==
  /\ pc["start"] = "drain"
  /\ geoipUpdate' = FALSE
  /\ GoTo("start", "rebuild")
  /\ UNCHANGED <<fileVars, fileEvents, geoVars, walkVars, sourceVars, timedOut, rebuildWanted,
                 rebuildLock, built>>

(* Mistake: those that came during the first rebuild are dropped too.      *)
StartGoroutinesDrain ==
  /\ pc["start"] = "rebuilt"
  /\ geoipUpdate' = FALSE
  /\ pc' = [g \in Goroutines |-> CASE g = "start" -> "wait ready"
                                   [] g = "geoip" -> "wait"
                                   [] OTHER -> "fetch"]
  /\ UNCHANGED <<fileVars, fileEvents, geoVars, walkVars, sourceVars, timedOut, rebuildWanted,
                 rebuildLock, built>>

StartGoroutines ==
  /\ pc["start"] = "rebuilt"
  /\ pc' = [g \in Goroutines |-> CASE g = "start" -> "wait ready"
                                   [] g = "geoip" -> "wait"
                                   [] OTHER -> "fetch"]
  /\ UNCHANGED <<fileVars, fileEvents, geoVars, walkVars, geoipUpdate, sourceVars, timedOut,
                 rebuildWanted, rebuildLock, built>>

Started ==
  /\ pc["start"] = "wait ready"
  /\ timedOut' = (ready # Sources)
  /\ GoTo("start", "started")
  /\ UNCHANGED <<fileVars, fileEvents, geoVars, walkVars, geoipUpdate, sourceVars,
                 rebuildWanted, rebuildLock, built>>

(***************************************************************************)
(* The goroutines.                                                         *)
(***************************************************************************)
GeoIPUpdate ==
  \/ /\ pc["geoip"] = "wait"
     /\ geoipUpdate
     /\ geoipUpdate' = FALSE
     /\ GoTo("geoip", "rebuild")
     /\ UNCHANGED <<fileVars, fileEvents, geoVars, walkVars, sourceVars, timedOut,
                    rebuildWanted, rebuildLock, built>>
  \/ /\ pc["geoip"] = "rebuilt"
     /\ GoTo("geoip", "wait")
     /\ UNCHANGED <<fileVars, fileEvents, geoVars, walkVars, geoipUpdate, sourceVars, timedOut,
                    rebuildWanted, rebuildLock, built>>

(* A fetch that succeeds; those that fail leave everything as it is.       *)
Fetch(s) ==
  /\ pc[s] = "fetch"
  /\ fetched' = [fetched EXCEPT ![s] = remote[s]]
  /\ GoTo(s, "update")
  /\ UNCHANGED <<fileVars, fileEvents, geoVars, walkVars, geoipUpdate, networkSources, ready,
                 timedOut, rebuildWanted, rebuildLock, built>>

updateSource(s) ==
  /\ pc[s] = "update"
  /\ rebuildLock = "free"
  /\ networkSources' = [networkSources EXCEPT ![s] = fetched[s]]
  /\ GoTo(s, IF networkSources[s] = fetched[s] THEN "rebuilt" ELSE "rebuild")
  /\ UNCHANGED <<fileVars, fileEvents, geoVars, walkVars, geoipUpdate, fetched, ready, timedOut,
                 rebuildWanted, rebuildLock, built>>

SourceReady(s) ==
  /\ pc[s] = "rebuilt"
  /\ ready' = ready \cup {s}
  /\ fetched' = [fetched EXCEPT ![s] = NoTable]
  /\ GoTo(s, "fetch")
  /\ UNCHANGED <<fileVars, fileEvents, geoVars, walkVars, geoipUpdate, networkSources,
                 timedOut, rebuildWanted, rebuildLock, built>>

(***************************************************************************)
(* Stopping: networks first, then GeoIP.                                   *)
(***************************************************************************)
Dying == pc["start"] \in {"stop networks", "stop geoip", "stopped"}

StopNetworks ==
  /\ pc["start"] = "started"
  /\ GoTo("start", "stop networks")
  /\ UNCHANGED <<fileVars, fileEvents, geoVars, walkVars, geoipUpdate, sourceVars, timedOut,
                 rebuildWanted, rebuildLock, built>>

Exit(g) ==
  /\ Dying
  /\ pc[g] \in {"wait", "fetch"}
  /\ GoTo(g, "exited")
  /\ UNCHANGED <<fileVars, fileEvents, geoVars, walkVars, geoipUpdate, sourceVars, timedOut,
                 rebuildWanted, rebuildLock, built>>

NetworksStopped ==
  /\ pc["start"] = "stop networks"
  /\ \A g \in Goroutines \ {"start"} : pc[g] = "exited"
  /\ GoTo("start", "stop geoip")
  /\ UNCHANGED <<fileVars, fileEvents, geoVars, walkVars, geoipUpdate, sourceVars, timedOut,
                 rebuildWanted, rebuildLock, built>>

WatcherExit ==
  /\ pc["start"] = "stop geoip"
  /\ watcher = "running"
  /\ opening = NotOpening
  /\ watcher' = "exited"
  /\ UNCHANGED <<fileVars, fileEvents, toOpen, opening, content, databases, closing, closes,
                 walkVars, geoipUpdate, sourceVars, timedOut, rebuildWanted, rebuildLock,
                 built, pc>>

(* Once the goroutines have exited, what is still published is closed.     *)
GeoIPStopped ==
  /\ pc["start"] = "stop geoip"
  /\ watcher = "exited" /\ closing = {}
  /\ iterLock = "free"
  /\ databases' = [d \in Databases |-> 0]
  /\ closes' = [h \in DOMAIN closes |->
                  IF \E d \in Databases : databases[d] = h THEN closes[h] + 1 ELSE closes[h]]
  /\ GoTo("start", "stopped")
  /\ UNCHANGED <<fileVars, fileEvents, toOpen, watcher, opening, content, closing, walkVars,
                 geoipUpdate, sourceVars, timedOut, rebuildWanted, rebuildLock, built>>

Stopped ==
  /\ pc["start"] = "stopped"
  /\ UNCHANGED vars

-----------------------------------------------------------------------------
GoroutineStep(g) == rebuild(g) \/ Exit(g)

SourceStep(s) == Fetch(s) \/ updateSource(s) \/ SourceReady(s)

StartStep ==
  \/ \E d \in Databases : StartOpen(d)
  \/ StartWatcher \/ Drain \/ StartGoroutines \/ Started
  \/ NetworksStopped \/ GeoIPStopped

OpenStep == StoreDatabase \/ notify

Next ==
  \/ \E d \in Databases : ChangeFile(d) \/ WatcherEvent(d)
  \/ \E s \in Sources : ChangeRemote(s) \/ SourceStep(s)
  \/ \E g \in Goroutines : GoroutineStep(g)
  \/ \E h \in closing : CloseOld(h)
  \/ OpenStep \/ StartStep \/ GeoIPUpdate
  \/ WatcherExit \/ StopNetworks \/ Stopped

Spec == Init /\ [][Next]_vars

(* Goroutines run, and the lock that the sources release again and again   *)
(* does not starve the one that waits for GeoIP updates.  Fetches may fail *)
(* forever, and nothing makes the component stop.                          *)
FairSpec ==
  /\ Spec
  /\ WF_vars(StartStep) /\ WF_vars(OpenStep) /\ WF_vars(GeoIPUpdate)
  /\ \A d \in Databases : WF_vars(WatcherEvent(d))
  /\ \A g \in Goroutines : WF_vars(rebuild(g))
  /\ SF_vars(rebuild("geoip"))

-----------------------------------------------------------------------------
Steps == {"none", "open", "drain", "rebuild", "lock", "asn", "asn walk", "geo",
          "geo walk", "publish", "rebuilt", "wait", "wait ready", "fetch", "update",
          "started", "stop networks", "stop geoip", "stopped", "exited"}

TypeOK ==
  /\ file \in [Databases -> FileTables \cup {Broken}]
  /\ remote \in [Sources -> SourceTables]
  /\ changes \in 0..MaxChanges
  /\ fileEvents \subseteq Databases /\ missed \subseteq Databases
  /\ toOpen \subseteq Databases
  /\ watcher \in {"none", "running", "exited"}
  /\ opening \in {NotOpening} \cup [step : {"store", "notify"}, path : Databases,
                                    new : DOMAIN content, old : 0..Len(content)]
  /\ content \in Seq(FileTables)
  /\ databases \in [Databases -> 0..Len(content)]
  /\ closing \subseteq DOMAIN content /\ walking \subseteq DOMAIN content
  /\ closes \in [DOMAIN content -> Nat]
  /\ iterLock \in Goroutines \cup {"free"}
  /\ rebuildLock \in Goroutines \cup {"free"}
  /\ geoipUpdate \in BOOLEAN /\ rebuildWanted \in BOOLEAN /\ timedOut \in BOOLEAN
  /\ networkSources \in [Sources -> SourceTables \cup {NoTable}]
  /\ fetched \in [Sources -> SourceTables \cup {NoTable}]
  /\ ready \subseteq Sources
  /\ merged \in [Databases -> FileTables \cup {NoTable}]
  /\ pc \in [Goroutines -> Steps]

(* A database is never closed while it is walked (it is memory-mapped: the *)
(* process would crash), nor twice, and none is left open in the end.      *)
DatabasesClosedOnce ==
  /\ \A h \in walking : closes[h] = 0
  /\ \A h \in DOMAIN closes : closes[h] <= 1
  /\ pc["start"] = "stopped" => \A h \in DOMAIN closes : closes[h] = 1

(* A source whose update is over has its networks in the tree, whoever did *)
(* the rebuild: this is what coalescing must not break.                    *)
SourcesBuilt ==
  \A s \in Sources :
    pc[s] \in {"fetch", "update", "rebuilt", "exited"} =>
      built.sources[s] = networkSources[s]

(* A source that is ready has been built: a start that did not time out    *)
(* leaves no flow to be enriched without the networks of a source.         *)
StartedWithSources ==
  pc["start"] = "started" /\ ~timedOut =>
    \A s \in Sources : built.sources[s] # NoTable

(* Without a notification to handle, the tree is the one of the databases  *)
(* that are published.                                                     *)
DatabasesBuilt ==
  pc["geoip"] = "wait" /\ ~geoipUpdate /\ opening.step # "notify" =>
    built.databases = Published

(* Looking up the tree gives each attribute of an address from the most    *)
(* specific prefix that sets it, and from the last table for this prefix.  *)
LookupsMerge ==
  \A order \in Orders :
    LET tree == networks(order)
    IN  \A ip \in Addresses : Lookup(tree, ip) = AttributesOf(Tables(order), ip)

(* Each tree that is published does, whatever the databases, the sources   *)
(* and the configuration have for the prefixes that contain the address.   *)
LookupsMergeAll == (\E g \in Goroutines : pc[g] = "rebuilt") => LookupsMerge

(* docs: files updated while the outlet runs are automatically refreshed.  *)
(* Those that change between their opening and the watcher are missed.     *)
FilesRefreshed ==
  \A d \in Databases :
    <>[](Dying \/ file[d] = Broken \/ d \in missed \/ built.databases[d] = file[d])

(* All that is above, at every step: databases are open while they are     *)
(* used, and the tree has what is published, whoever rebuilt it.           *)
NetworksRight ==
  TypeOK /\ DatabasesClosedOnce /\ DatabasesBuilt /\ SourcesBuilt /\ StartedWithSources
=============================================================================
