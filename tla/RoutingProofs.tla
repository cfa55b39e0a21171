--------------------------- MODULE RoutingProofs ----------------------------
(***************************************************************************)
(* Proofs about what the outlet learns of networks and routes: the         *)
(* networks, for all databases, sources and tables, and the lookups in     *)
(* their tree, for all addresses; the BMP connections, for all exporters,  *)
(* peers and prefixes; the lookups at an RIS, for all instances, routers   *)
(* and workers.                                                            *)
(***************************************************************************)
EXTENDS Networks, Bmp, BioRis, Integers, FiniteSetTheorems, SequenceTheorems, NaturalsInduction,
        WellFoundedInduction, TLAPS

(* The networks component: who holds each lock.                            *)
WalkSteps == {"asn walk", "geo walk"}

RebuildSteps == {"asn", "asn walk", "geo", "geo walk", "publish"}

LocksInv ==
  /\ \A g \in Goroutines : pc[g] \in WalkSteps <=> iterLock = g
  /\ \A g \in Goroutines : pc[g] \in RebuildSteps <=> rebuildLock = g
  /\ iterLock = "free" => walking = {}

(* The start is alone until its rebuild is over, and all the others are    *)
(* over when the GeoIP component stops.                                    *)
StartSteps == {"open", "drain", "rebuild", "lock", "rebuilt"} \cup RebuildSteps

OrderInv ==
  /\ pc["start"] \in StartSteps \cup {"wait ready", "started", "stop networks", "stop geoip", "stopped"}
  /\ pc["start"] \in StartSteps => \A g \in Goroutines \ {"start"} : pc[g] = "none"
  /\ pc["start"] \in {"stop geoip", "stopped"} => \A g \in Goroutines \ {"start"} : pc[g] = "exited"
  /\ pc["geoip"] \in {"none", "wait", "rebuild", "lock", "rebuilt", "exited"} \cup RebuildSteps
  /\ pc["start"] \notin StartSteps => \A g \in Goroutines \ {"start"} : pc[g] # "none"
  /\ watcher = "none" <=> pc["start"] = "open"
  /\ watcher = "exited" => opening = NotOpening /\ pc["start"] \in {"stop geoip", "stopped"}
  /\ pc["start"] = "stopped" =>
       watcher = "exited" /\ closing = {} /\ \A d \in Databases : databases[d] = 0

(* A database that is open is in one place.                                *)
HandlesInv ==
  /\ \A d \in Databases : databases[d] # 0 => closes[databases[d]] = 0 /\ databases[d] \notin closing
  /\ \A d, e \in Databases : databases[d] # 0 /\ databases[d] = databases[e] => d = e
  /\ \A h \in closing : closes[h] = 0
  /\ opening.step = "store" =>
       /\ closes[opening.new] = 0 /\ opening.new \notin closing
       /\ \A d \in Databases : databases[d] # opening.new
  /\ opening.step = "notify" /\ opening.old # 0 =>
       /\ closes[opening.old] = 0 /\ opening.old \notin closing
       /\ \A d \in Databases : databases[d] # opening.old
  /\ \A h \in DOMAIN content :
       \/ closes[h] = 1 \/ h \in closing
       \/ \E d \in Databases : databases[d] = h
       \/ opening.step = "store" /\ opening.new = h
       \/ opening.step = "notify" /\ opening.old = h

(* A change of the databases is still to be seen by a rebuild.             *)
ToBeSeen ==
  \/ geoipUpdate \/ opening.step = "notify"
  \/ pc["geoip"] = "rebuild"
  \/ pc["geoip"] = "lock" /\ rebuildWanted
  \/ pc["start"] \in {"open", "drain", "rebuild", "stopped"}
  \/ pc["start"] = "lock" /\ rebuildWanted

SeenInv ==
  ToBeSeen \/
    /\ rebuildLock = "free" => built.databases = Published
    /\ pc["geoip"] \in {"wait", "rebuilt", "exited"} => built.databases = Published
    /\ \A g \in Goroutines :
         /\ pc[g] \in {"asn walk", "geo"} => \A d \in ToSet(ASNDatabases) : merged[d] = Published[d]
         /\ pc[g] \in {"geo walk", "publish"} => merged = Published

(* What a source has published is in the tree, or a rebuild that will read *)
(* it was asked for.                                                       *)
SourcesInv ==
  /\ \A s \in Sources :
       \/ built.sources[s] = networkSources[s]
       \/ pc[s] = "rebuild"
       \/ pc[s] = "lock" /\ (rebuildWanted \/ rebuildLock # "free")
       \/ rebuildLock = s
  /\ \A s \in Sources :
       /\ pc[s] = "update" => fetched[s] \in SourceTables
       /\ pc[s] \in {"rebuild", "lock", "rebuilt"} \cup RebuildSteps => networkSources[s] \in SourceTables
       /\ s \in ready => networkSources[s] \in SourceTables /\ built.sources[s] \in SourceTables
       /\ pc[s] \in {"none", "fetch", "update", "rebuild", "lock", "rebuilt", "exited"} \cup RebuildSteps
  /\ pc["start"] = "started" /\ ~timedOut => ready = Sources

BuiltType ==
  built \in [databases : [Databases -> FileTables \cup {NoTable}],
             sources : [Sources -> SourceTables \cup {NoTable}]]

NetInv == TypeOK /\ BuiltType /\ LocksInv /\ OrderInv /\ HandlesInv /\ SeenInv /\ SourcesInv /\ DatabasesClosedOnce

-----------------------------------------------------------------------------
LEMMA NamesDiffer ==
  /\ Sources \subseteq Goroutines /\ "start" \in Goroutines /\ "geoip" \in Goroutines
  /\ "start" \notin Sources /\ "geoip" \notin Sources /\ "free" \notin Goroutines
BY NetworksAssumption DEF Goroutines

LEMMA HandlesFrame ==
  ASSUME HandlesInv, UNCHANGED <<opening, content, databases, closing, closes>>
  PROVE  HandlesInv'
BY DEF HandlesInv

LEMMA OpeningType ==
  ASSUME TypeOK
  PROVE  /\ opening # NotOpening <=> opening.step # "none"
         /\ opening # NotOpening =>
              /\ opening = [step |-> opening.step, path |-> opening.path,
                            new |-> opening.new, old |-> opening.old]
              /\ opening.step \in {"store", "notify"} /\ opening.path \in Databases
              /\ opening.new \in DOMAIN content /\ opening.old \in 0..Len(content)
<1>1. CASE opening = NotOpening
  BY <1>1 DEF NotOpening
<1>2. CASE opening \in [step : {"store", "notify"}, path : Databases,
                        new : DOMAIN content, old : 0..Len(content)]
  BY <1>2 DEF NotOpening
<1> QED
  BY <1>1, <1>2 DEF TypeOK

LEMMA PublishedType ==
  ASSUME TypeOK
  PROVE  Published \in [Databases -> FileTables \cup {NoTable}]
<1>1. \A d \in Databases : databases[d] # 0 => content[databases[d]] \in FileTables
  BY DEF TypeOK
<1> QED
  BY <1>1 DEF Published

(* A database that is opened is a new one, it is not published yet.        *)
LEMMA Opens ==
  ASSUME TypeOK, NEW d \in Databases, openDatabase(d)
  PROVE  /\ content' \in Seq(FileTables) /\ Len(content) <= Len(content')
         /\ closes' \in [DOMAIN content' -> Nat]
         /\ \A h \in DOMAIN content :
              h \in DOMAIN content' /\ content'[h] = content[h] /\ closes'[h] = closes[h]
         /\ \/ opening' = NotOpening /\ content' = content
            \/ /\ opening' = [step |-> "store", path |-> d, new |-> Len(content'), old |-> 0]
               /\ Len(content') \in DOMAIN content' /\ closes'[Len(content')] = 0
               /\ \A h \in DOMAIN content' : h \in DOMAIN content \/ h = Len(content')
               /\ Len(content') \notin DOMAIN content
<1>1. content \in Seq(FileTables) /\ closes \in [1..Len(content) -> Nat]
  BY DEF TypeOK
<1>2. CASE file[d] = Broken
  BY <1>1, <1>2 DEF openDatabase
<1>3. CASE file[d] # Broken
  <2>1. file[d] \in FileTables
    BY <1>3 DEF TypeOK
  <2>2. closes \in Seq(Nat) /\ Len(closes) = Len(content)
    BY <1>1
  <2>3. content' = Append(content, file[d]) /\ closes' = Append(closes, 0)
    BY <1>3 DEF openDatabase
  <2>4. /\ content' \in Seq(FileTables) /\ Len(content') = Len(content) + 1
        /\ \A h \in 1..Len(content) : content'[h] = content[h]
    BY <1>1, <2>1, <2>3
  <2>5. /\ closes' \in Seq(Nat) /\ Len(closes') = Len(content) + 1
        /\ \A h \in 1..Len(content) : closes'[h] = closes[h]
        /\ closes'[Len(content) + 1] = 0
    BY <1>1, <2>2, <2>3
  <2>6. opening' = [step |-> "store", path |-> d, new |-> Len(content) + 1, old |-> 0]
    BY <1>3 DEF openDatabase
  <2>7. closes' \in [1..(Len(content) + 1) -> Nat]
    BY <2>5, <1>1
  <2>8. DOMAIN content = 1..Len(content) /\ DOMAIN content' = 1..(Len(content) + 1)
    BY <1>1, <2>4
  <2> QED
    BY <1>1, <2>4, <2>5, <2>6, <2>7, <2>8
<1> QED
  BY <1>2, <1>3

(* Each step keeps the invariant.                                          *)
LEMMA ChangeFileKeeps ==
  ASSUME NetInv, NEW d \in Databases, ChangeFile(d)
  PROVE  NetInv'
<1>1. /\ TypeOK /\ BuiltType /\ LocksInv /\ OrderInv /\ HandlesInv
      /\ SeenInv /\ SourcesInv /\ DatabasesClosedOnce
  BY DEF NetInv
<1>2. pc \in [Goroutines -> Steps]
  BY <1>1 DEF TypeOK
<1>3. /\ Sources \subseteq Goroutines /\ "start" \in Goroutines /\ "geoip" \in Goroutines
      /\ "start" \notin Sources /\ "geoip" \notin Sources /\ "free" \notin Goroutines
  BY NamesDiffer
<1>4. TypeOK'
  BY <1>1, NetworksAssumption DEF ChangeFile, geoVars, walkVars, sourceVars, TypeOK
<1>5. BuiltType'
  BY <1>1 DEF ChangeFile, geoVars, walkVars, sourceVars, BuiltType
<1>6. LocksInv'
  BY <1>1, <1>2, <1>3 DEF ChangeFile, geoVars, walkVars, sourceVars, LocksInv, WalkSteps,
     RebuildSteps
<1>7. OrderInv'
  BY <1>1, <1>2, <1>3 DEF ChangeFile, geoVars, walkVars, sourceVars, OrderInv, StartSteps,
     RebuildSteps, WalkSteps
<1>8. HandlesInv'
  BY <1>1, HandlesFrame DEF ChangeFile, geoVars, walkVars, sourceVars
<1>9. SeenInv'
  <2>1. Published' = Published
    BY DEF ChangeFile, geoVars, walkVars, sourceVars, Published
  <2> QED
    BY <1>1, <1>2, <1>3, <2>1 DEF ChangeFile, geoVars, walkVars, sourceVars, SeenInv, ToBeSeen,
       OrderInv, LocksInv, StartSteps, RebuildSteps, WalkSteps
<1>10. SourcesInv'
  BY <1>1, <1>2, <1>3 DEF ChangeFile, geoVars, walkVars, sourceVars, SourcesInv, RebuildSteps,
     LocksInv
<1>11. DatabasesClosedOnce'
  BY <1>1, <1>2, <1>3 DEF ChangeFile, geoVars, walkVars, sourceVars, DatabasesClosedOnce
<1> QED
  BY <1>4, <1>5, <1>6, <1>7, <1>8, <1>9, <1>10, <1>11 DEF NetInv

LEMMA ChangeRemoteKeeps ==
  ASSUME NetInv, NEW s \in Sources, ChangeRemote(s)
  PROVE  NetInv'
<1>1. /\ TypeOK /\ BuiltType /\ LocksInv /\ OrderInv /\ HandlesInv
      /\ SeenInv /\ SourcesInv /\ DatabasesClosedOnce
  BY DEF NetInv
<1>2. pc \in [Goroutines -> Steps]
  BY <1>1 DEF TypeOK
<1>3. /\ Sources \subseteq Goroutines /\ "start" \in Goroutines /\ "geoip" \in Goroutines
      /\ "start" \notin Sources /\ "geoip" \notin Sources /\ "free" \notin Goroutines
  BY NamesDiffer
<1>4. TypeOK'
  BY <1>1, NetworksAssumption DEF ChangeRemote, geoVars, walkVars, sourceVars, TypeOK
<1>5. BuiltType'
  BY <1>1 DEF ChangeRemote, geoVars, walkVars, sourceVars, BuiltType
<1>6. LocksInv'
  BY <1>1, <1>2, <1>3 DEF ChangeRemote, geoVars, walkVars, sourceVars, LocksInv, WalkSteps,
     RebuildSteps
<1>7. OrderInv'
  BY <1>1, <1>2, <1>3 DEF ChangeRemote, geoVars, walkVars, sourceVars, OrderInv, StartSteps,
     RebuildSteps, WalkSteps
<1>8. HandlesInv'
  BY <1>1, HandlesFrame DEF ChangeRemote, geoVars, walkVars, sourceVars
<1>9. SeenInv'
  <2>1. Published' = Published
    BY DEF ChangeRemote, geoVars, walkVars, sourceVars, Published
  <2> QED
    BY <1>1, <1>2, <1>3, <2>1 DEF ChangeRemote, geoVars, walkVars, sourceVars, SeenInv,
       ToBeSeen, OrderInv, LocksInv, StartSteps, RebuildSteps, WalkSteps
<1>10. SourcesInv'
  BY <1>1, <1>2, <1>3 DEF ChangeRemote, geoVars, walkVars, sourceVars, SourcesInv, RebuildSteps,
     LocksInv
<1>11. DatabasesClosedOnce'
  BY <1>1, <1>2, <1>3 DEF ChangeRemote, geoVars, walkVars, sourceVars, DatabasesClosedOnce
<1> QED
  BY <1>4, <1>5, <1>6, <1>7, <1>8, <1>9, <1>10, <1>11 DEF NetInv

LEMMA StartOpenKeeps ==
  ASSUME NetInv, NEW d \in Databases, StartOpen(d)
  PROVE  NetInv'
<1>1. /\ TypeOK /\ BuiltType /\ LocksInv /\ OrderInv /\ HandlesInv
      /\ SeenInv /\ SourcesInv /\ DatabasesClosedOnce
  BY DEF NetInv
<1>2. pc \in [Goroutines -> Steps]
  BY <1>1 DEF TypeOK
<1>3. /\ Sources \subseteq Goroutines /\ "start" \in Goroutines /\ "geoip" \in Goroutines
      /\ "start" \notin Sources /\ "geoip" \notin Sources /\ "free" \notin Goroutines
  BY NamesDiffer
<1>4. TypeOK'
  <2>1. openDatabase(d) /\ UNCHANGED <<databases, closing, walking>>
    BY DEF StartOpen, walkVars
  <2>2. /\ content' \in Seq(FileTables) /\ closes' \in [DOMAIN content' -> Nat]
        /\ closing' \subseteq DOMAIN content' /\ walking' \subseteq DOMAIN content'
    BY <1>1, <2>1, Opens DEF TypeOK
  <2>3. databases' \in [Databases -> 0..Len(content')]
    <3>1. Len(content) \in Nat /\ Len(content') \in Nat /\ Len(content) <= Len(content')
      BY <1>1, <2>1, <2>2, Opens DEF TypeOK
    <3>2. databases \in [Databases -> 0..Len(content)]
      BY <1>1 DEF TypeOK
    <3> QED
      BY <2>1, <3>1, <3>2
  <2>4. opening' \in {NotOpening} \cup [step : {"store", "notify"}, path : Databases,
                                          new : DOMAIN content', old : 0..Len(content')]
    <3>1. Len(content') \in Nat
      BY <2>2
    <3> QED
      BY <1>1, <2>1, <3>1, Opens
  <2> QED
    BY <1>1, <2>2, <2>3, <2>4 DEF StartOpen, fileVars, walkVars, sourceVars, TypeOK
<1>5. BuiltType'
  BY <1>1 DEF StartOpen, openDatabase, NotOpening, fileVars, walkVars, sourceVars, BuiltType
<1>6. LocksInv'
  BY <1>1, <1>2, <1>3 DEF StartOpen, openDatabase, NotOpening, fileVars, walkVars, sourceVars,
     LocksInv, WalkSteps, RebuildSteps
<1>7. OrderInv'
  BY <1>1, <1>2, <1>3 DEF StartOpen, openDatabase, NotOpening, fileVars, walkVars, sourceVars,
     OrderInv, StartSteps, RebuildSteps, WalkSteps
<1>8. HandlesInv'
  <2>1. opening.step = "none" /\ openDatabase(d) /\ UNCHANGED <<databases, closing>>
    BY DEF StartOpen, openDatabase, NotOpening
  <2>2. \A e \in Databases : databases[e] # 0 => databases[e] \in DOMAIN content
    BY <1>1 DEF TypeOK
  <2>3. closing \subseteq DOMAIN content
    BY <1>1 DEF TypeOK
  <2>4. CASE opening' = NotOpening /\ content' = content
    BY <1>1, <2>1, <2>2, <2>3, <2>4, Opens DEF HandlesInv, NotOpening
  <2>5. CASE opening' # NotOpening
    <3>1. /\ opening'.step = "store" /\ opening'.new = Len(content')
          /\ closes'[Len(content')] = 0 /\ Len(content') \notin DOMAIN content
          /\ \A h \in DOMAIN content' : h \in DOMAIN content \/ h = Len(content')
          /\ \A h \in DOMAIN content : closes'[h] = closes[h]
      BY <1>1, <2>1, <2>5, Opens
    <3>2. \A e \in Databases : databases[e] # Len(content')
      <4>1. content' \in Seq(FileTables) /\ Len(content') \in DOMAIN content'
        BY <1>1, <2>1, <2>5, Opens
      <4>2. Len(content') # 0
        BY <4>1
      <4> QED
        BY <2>2, <3>1, <4>2
    <3> QED
      BY <1>1, <2>1, <2>2, <2>3, <3>1, <3>2 DEF HandlesInv
  <2> QED
    BY <1>1, <2>1, <2>4, <2>5, Opens DEF NotOpening
<1>9. SeenInv'
  <2>1. openDatabase(d) /\ databases' = databases /\ opening.step = "none"
    BY DEF StartOpen, openDatabase, NotOpening
  <2>2. Published' = Published
    <3>1. \A e \in Databases : databases[e] # 0 => content'[databases[e]] = content[databases[e]]
      BY <1>1, <2>1, Opens DEF TypeOK
    <3> QED
      BY <2>1, <3>1 DEF Published
  <2>3. opening'.step # "notify"
    BY <1>1, <2>1, Opens DEF NotOpening
  <2> QED
    BY <1>1, <2>1, <2>2, <2>3 DEF StartOpen, walkVars, SeenInv, ToBeSeen
<1>10. SourcesInv'
  BY <1>1, <1>2, <1>3 DEF StartOpen, openDatabase, NotOpening, fileVars, walkVars, sourceVars,
     SourcesInv, RebuildSteps, LocksInv
<1>11. DatabasesClosedOnce'
  <2>1. openDatabase(d) /\ UNCHANGED <<walking, pc>> /\ pc["start"] # "stopped"
    BY <1>1 DEF StartOpen, walkVars, OrderInv
  <2>2. walking \subseteq DOMAIN content /\ DOMAIN closes' = DOMAIN content' /\ DOMAIN closes = DOMAIN content
    BY <1>1, <2>1, Opens DEF TypeOK
  <2> QED
    BY <1>1, <2>1, <2>2, Opens DEF DatabasesClosedOnce
<1> QED
  BY <1>4, <1>5, <1>6, <1>7, <1>8, <1>9, <1>10, <1>11 DEF NetInv

LEMMA WatcherEventKeeps ==
  ASSUME NetInv, NEW d \in Databases, WatcherEvent(d)
  PROVE  NetInv'
<1>1. /\ TypeOK /\ BuiltType /\ LocksInv /\ OrderInv /\ HandlesInv
      /\ SeenInv /\ SourcesInv /\ DatabasesClosedOnce
  BY DEF NetInv
<1>2. pc \in [Goroutines -> Steps]
  BY <1>1 DEF TypeOK
<1>3. /\ Sources \subseteq Goroutines /\ "start" \in Goroutines /\ "geoip" \in Goroutines
      /\ "start" \notin Sources /\ "geoip" \notin Sources /\ "free" \notin Goroutines
  BY NamesDiffer
<1>4. TypeOK'
  <2>1. openDatabase(d) /\ UNCHANGED <<databases, closing, walking>>
    BY DEF WatcherEvent, walkVars
  <2>2. /\ content' \in Seq(FileTables) /\ closes' \in [DOMAIN content' -> Nat]
        /\ closing' \subseteq DOMAIN content' /\ walking' \subseteq DOMAIN content'
    BY <1>1, <2>1, Opens DEF TypeOK
  <2>3. databases' \in [Databases -> 0..Len(content')]
    <3>1. Len(content) \in Nat /\ Len(content') \in Nat /\ Len(content) <= Len(content')
      BY <1>1, <2>1, <2>2, Opens DEF TypeOK
    <3>2. databases \in [Databases -> 0..Len(content)]
      BY <1>1 DEF TypeOK
    <3> QED
      BY <2>1, <3>1, <3>2
  <2>4. opening' \in {NotOpening} \cup [step : {"store", "notify"}, path : Databases,
                                          new : DOMAIN content', old : 0..Len(content')]
    <3>1. Len(content') \in Nat
      BY <2>2
    <3> QED
      BY <1>1, <2>1, <3>1, Opens
  <2> QED
    BY <1>1, <2>2, <2>3, <2>4 DEF WatcherEvent, fileVars, walkVars, sourceVars, TypeOK
<1>5. BuiltType'
  BY <1>1 DEF WatcherEvent, openDatabase, NotOpening, fileVars, walkVars, sourceVars, BuiltType
<1>6. LocksInv'
  BY <1>1, <1>2, <1>3 DEF WatcherEvent, openDatabase, NotOpening, fileVars, walkVars,
     sourceVars, LocksInv, WalkSteps, RebuildSteps
<1>7. OrderInv'
  BY <1>1, <1>2, <1>3 DEF WatcherEvent, openDatabase, NotOpening, fileVars, walkVars,
     sourceVars, OrderInv, StartSteps, RebuildSteps, WalkSteps
<1>8. HandlesInv'
  <2>1. opening.step = "none" /\ openDatabase(d) /\ UNCHANGED <<databases, closing>>
    BY DEF WatcherEvent, openDatabase, NotOpening
  <2>2. \A e \in Databases : databases[e] # 0 => databases[e] \in DOMAIN content
    BY <1>1 DEF TypeOK
  <2>3. closing \subseteq DOMAIN content
    BY <1>1 DEF TypeOK
  <2>4. CASE opening' = NotOpening /\ content' = content
    BY <1>1, <2>1, <2>2, <2>3, <2>4, Opens DEF HandlesInv, NotOpening
  <2>5. CASE opening' # NotOpening
    <3>1. /\ opening'.step = "store" /\ opening'.new = Len(content')
          /\ closes'[Len(content')] = 0 /\ Len(content') \notin DOMAIN content
          /\ \A h \in DOMAIN content' : h \in DOMAIN content \/ h = Len(content')
          /\ \A h \in DOMAIN content : closes'[h] = closes[h]
      BY <1>1, <2>1, <2>5, Opens
    <3>2. \A e \in Databases : databases[e] # Len(content')
      <4>1. content' \in Seq(FileTables) /\ Len(content') \in DOMAIN content'
        BY <1>1, <2>1, <2>5, Opens
      <4>2. Len(content') # 0
        BY <4>1
      <4> QED
        BY <2>2, <3>1, <4>2
    <3> QED
      BY <1>1, <2>1, <2>2, <2>3, <3>1, <3>2 DEF HandlesInv
  <2> QED
    BY <1>1, <2>1, <2>4, <2>5, Opens DEF NotOpening
<1>9. SeenInv'
  <2>1. openDatabase(d) /\ databases' = databases /\ opening.step = "none"
    BY DEF WatcherEvent, openDatabase, NotOpening
  <2>2. Published' = Published
    <3>1. \A e \in Databases : databases[e] # 0 => content'[databases[e]] = content[databases[e]]
      BY <1>1, <2>1, Opens DEF TypeOK
    <3> QED
      BY <2>1, <3>1 DEF Published
  <2>3. opening'.step # "notify"
    BY <1>1, <2>1, Opens DEF NotOpening
  <2> QED
    BY <1>1, <2>1, <2>2, <2>3 DEF WatcherEvent, walkVars, SeenInv, ToBeSeen
<1>10. SourcesInv'
  BY <1>1, <1>2, <1>3 DEF WatcherEvent, openDatabase, NotOpening, fileVars, walkVars,
     sourceVars, SourcesInv, RebuildSteps, LocksInv
<1>11. DatabasesClosedOnce'
  <2>1. openDatabase(d) /\ UNCHANGED <<walking, pc>> /\ pc["start"] # "stopped"
    BY <1>1 DEF WatcherEvent, walkVars, OrderInv
  <2>2. walking \subseteq DOMAIN content /\ DOMAIN closes' = DOMAIN content' /\ DOMAIN closes = DOMAIN content
    BY <1>1, <2>1, Opens DEF TypeOK
  <2> QED
    BY <1>1, <2>1, <2>2, Opens DEF DatabasesClosedOnce
<1> QED
  BY <1>4, <1>5, <1>6, <1>7, <1>8, <1>9, <1>10, <1>11 DEF NetInv

(* The new database is published before the old one is given up.           *)
LEMMA StoreDatabaseKeeps ==
  ASSUME NetInv, StoreDatabase
  PROVE  NetInv'
<1>1. /\ TypeOK /\ BuiltType /\ LocksInv /\ OrderInv /\ HandlesInv
      /\ SeenInv /\ SourcesInv /\ DatabasesClosedOnce
  BY DEF NetInv
<1>2. pc \in [Goroutines -> Steps]
  BY <1>1 DEF TypeOK
<1>3. /\ Sources \subseteq Goroutines /\ "start" \in Goroutines /\ "geoip" \in Goroutines
      /\ "start" \notin Sources /\ "geoip" \notin Sources /\ "free" \notin Goroutines
  BY NamesDiffer
<1>4. /\ opening.step = "store" /\ opening # NotOpening
      /\ opening.path \in Databases /\ opening.new \in DOMAIN content
      /\ databases' = [databases EXCEPT ![opening.path] = opening.new]
      /\ databases[opening.path] \in 0..Len(content)
      /\ opening' = [step |-> "notify", path |-> opening.path, new |-> opening.new,
                     old |-> databases[opening.path]]
  <2>1. opening.step = "store" /\ opening # NotOpening
    BY DEF StoreDatabase, NotOpening
  <2>2. opening = [step |-> opening.step, path |-> opening.path, new |-> opening.new, old |-> opening.old]
    BY <1>1, <2>1, OpeningType
  <2>3. opening' = [step |-> "notify", path |-> opening.path, new |-> opening.new,
                    old |-> databases[opening.path]]
    <3> DEFINE o == [step |-> opening.step, path |-> opening.path, new |-> opening.new, old |-> opening.old]
               old == databases[opening.path]
    <3>1. opening' = [o EXCEPT !.step = "notify", !.old = old]
      BY <2>2 DEF StoreDatabase
    <3>2. [o EXCEPT !.step = "notify"]
            = [step |-> "notify", path |-> opening.path, new |-> opening.new, old |-> opening.old]
      OBVIOUS
    <3> QED
      BY <3>1, <3>2
  <2> QED
    BY <1>1, <2>1, <2>3, OpeningType DEF StoreDatabase, TypeOK
<1>5. TypeOK'
  <2>1. /\ databases' \in [Databases -> 0..Len(content)]
        /\ opening' \in [step : {"store", "notify"}, path : Databases,
                         new : DOMAIN content, old : 0..Len(content)]
    <3>1. DOMAIN content \subseteq 0..Len(content) /\ databases \in [Databases -> 0..Len(content)]
      BY <1>1 DEF TypeOK
    <3> QED
      BY <1>4, <3>1
  <2> QED
    BY <1>1, <2>1 DEF StoreDatabase, fileVars, walkVars, sourceVars, TypeOK
<1>6. BuiltType'
  BY <1>1 DEF StoreDatabase, fileVars, walkVars, sourceVars, BuiltType
<1>7. LocksInv'
  BY <1>1, <1>2, <1>3 DEF StoreDatabase, fileVars, walkVars, sourceVars, LocksInv, WalkSteps,
     RebuildSteps
<1>8. OrderInv'
  BY <1>1, <1>4 DEF StoreDatabase, OrderInv
<1>9. HandlesInv'
  <2>1. /\ opening.new # 0 /\ DOMAIN content' = DOMAIN content
        /\ \A e \in Databases : databases'[e] = IF e = opening.path THEN opening.new ELSE databases[e]
    BY <1>1, <1>4 DEF TypeOK, StoreDatabase
  <2>2. UNCHANGED <<content, closing, closes>>
    BY DEF StoreDatabase
  <2>3. \A e \in Databases : databases[e] # opening.new
    BY <1>1, <1>4 DEF HandlesInv
  <2> QED
    BY <1>1, <1>4, <2>1, <2>2, <2>3 DEF HandlesInv
<1>10. SeenInv'
  BY <1>4 DEF SeenInv, ToBeSeen
<1>11. SourcesInv'
  BY <1>1, <1>2, <1>3 DEF StoreDatabase, fileVars, walkVars, sourceVars, SourcesInv,
     RebuildSteps, LocksInv
<1>12. DatabasesClosedOnce'
  BY <1>1, <1>2, <1>3 DEF StoreDatabase, fileVars, walkVars, sourceVars, DatabasesClosedOnce
<1> QED
  BY <1>5, <1>6, <1>7, <1>8, <1>9, <1>10, <1>11, <1>12 DEF NetInv

LEMMA NotifyKeeps ==
  ASSUME NetInv, notify
  PROVE  NetInv'
<1>1. /\ TypeOK /\ BuiltType /\ LocksInv /\ OrderInv /\ HandlesInv
      /\ SeenInv /\ SourcesInv /\ DatabasesClosedOnce
  BY DEF NetInv
<1>2. pc \in [Goroutines -> Steps]
  BY <1>1 DEF TypeOK
<1>3. /\ Sources \subseteq Goroutines /\ "start" \in Goroutines /\ "geoip" \in Goroutines
      /\ "start" \notin Sources /\ "geoip" \notin Sources /\ "free" \notin Goroutines
  BY NamesDiffer
<1>4. TypeOK'
  <2>1. opening.step = "notify" /\ opening # NotOpening
    BY DEF notify, NotOpening
  <2>2. closing' \subseteq DOMAIN content
    <3>1. opening.old \in 0..Len(content) /\ content \in Seq(FileTables) /\ closing \subseteq DOMAIN content
      BY <1>1, <2>1, OpeningType DEF TypeOK
    <3> QED
      BY <3>1 DEF notify
  <2> QED
    BY <1>1, <2>2 DEF notify, fileVars, walkVars, sourceVars, TypeOK
<1>5. BuiltType'
  BY <1>1 DEF notify, NotOpening, fileVars, walkVars, sourceVars, BuiltType
<1>6. LocksInv'
  BY <1>1, <1>2, <1>3 DEF notify, NotOpening, fileVars, walkVars, sourceVars, LocksInv,
     WalkSteps, RebuildSteps
<1>7. OrderInv'
  <2>1. watcher # "exited"
    <3>1. opening # NotOpening
      BY DEF notify, NotOpening
    <3> QED
      BY <1>1, <3>1 DEF OrderInv
  <2> QED
    BY <1>1, <2>1 DEF notify, OrderInv
<1>8. HandlesInv'
  BY <1>1 DEF notify, NotOpening, fileVars, walkVars, sourceVars, HandlesInv, TypeOK
<1>9. SeenInv'
  <2>1. Published' = Published
    BY DEF notify, NotOpening, fileVars, walkVars, sourceVars, Published
  <2> QED
    BY <1>1, <1>2, <1>3, <2>1 DEF notify, NotOpening, fileVars, walkVars, sourceVars, SeenInv,
       ToBeSeen, OrderInv, LocksInv, StartSteps, RebuildSteps, WalkSteps
<1>10. SourcesInv'
  BY <1>1, <1>2, <1>3 DEF notify, NotOpening, fileVars, walkVars, sourceVars, SourcesInv,
     RebuildSteps, LocksInv
<1>11. DatabasesClosedOnce'
  BY <1>1, <1>2, <1>3 DEF notify, NotOpening, fileVars, walkVars, sourceVars,
     DatabasesClosedOnce
<1> QED
  BY <1>4, <1>5, <1>6, <1>7, <1>8, <1>9, <1>10, <1>11 DEF NetInv

LEMMA CloseOldKeeps ==
  ASSUME NetInv, NEW h \in closing, CloseOld(h)
  PROVE  NetInv'
<1>1. /\ TypeOK /\ BuiltType /\ LocksInv /\ OrderInv /\ HandlesInv
      /\ SeenInv /\ SourcesInv /\ DatabasesClosedOnce
  BY DEF NetInv
<1>2. pc \in [Goroutines -> Steps]
  BY <1>1 DEF TypeOK
<1>3. /\ Sources \subseteq Goroutines /\ "start" \in Goroutines /\ "geoip" \in Goroutines
      /\ "start" \notin Sources /\ "geoip" \notin Sources /\ "free" \notin Goroutines
  BY NamesDiffer
<1>4. TypeOK'
  <2>1. h \in DOMAIN content /\ closes[h] \in Nat
    BY <1>1 DEF TypeOK
  <2>2. closes' \in [DOMAIN content -> Nat] /\ closing' \subseteq DOMAIN content
    BY <1>1, <2>1 DEF CloseOld, TypeOK
  <2> QED
    BY <1>1, <2>2 DEF CloseOld, fileVars, walkVars, sourceVars, TypeOK
<1>5. BuiltType'
  BY <1>1 DEF CloseOld, fileVars, walkVars, sourceVars, BuiltType
<1>6. LocksInv'
  BY <1>1, <1>2, <1>3 DEF CloseOld, fileVars, walkVars, sourceVars, LocksInv, WalkSteps,
     RebuildSteps
<1>7. OrderInv'
  BY <1>1, <1>2, <1>3 DEF CloseOld, fileVars, walkVars, sourceVars, OrderInv, StartSteps,
     RebuildSteps, WalkSteps
<1>8. HandlesInv'
  BY <1>1 DEF CloseOld, fileVars, walkVars, sourceVars, HandlesInv, TypeOK
<1>9. SeenInv'
  <2>1. Published' = Published
    BY DEF CloseOld, fileVars, walkVars, sourceVars, Published
  <2> QED
    BY <1>1, <1>2, <1>3, <2>1 DEF CloseOld, fileVars, walkVars, sourceVars, SeenInv, ToBeSeen,
       OrderInv, LocksInv, StartSteps, RebuildSteps, WalkSteps
<1>10. SourcesInv'
  BY <1>1, <1>2, <1>3 DEF CloseOld, fileVars, walkVars, sourceVars, SourcesInv, RebuildSteps,
     LocksInv
<1>11. DatabasesClosedOnce'
  <2>1. walking = {} /\ closes[h] = 0 /\ pc["start"] # "stopped"
    BY <1>1 DEF CloseOld, LocksInv, HandlesInv, OrderInv
  <2>2. h \in DOMAIN closes
    BY <1>1 DEF TypeOK
  <2> QED
    BY <1>1, <2>1, <2>2 DEF CloseOld, walkVars, DatabasesClosedOnce
<1> QED
  BY <1>4, <1>5, <1>6, <1>7, <1>8, <1>9, <1>10, <1>11 DEF NetInv

LEMMA StartWatcherKeeps ==
  ASSUME NetInv, StartWatcher
  PROVE  NetInv'
<1>1. /\ TypeOK /\ BuiltType /\ LocksInv /\ OrderInv /\ HandlesInv
      /\ SeenInv /\ SourcesInv /\ DatabasesClosedOnce
  BY DEF NetInv
<1>2. pc \in [Goroutines -> Steps]
  BY <1>1 DEF TypeOK
<1>3. /\ Sources \subseteq Goroutines /\ "start" \in Goroutines /\ "geoip" \in Goroutines
      /\ "start" \notin Sources /\ "geoip" \notin Sources /\ "free" \notin Goroutines
  BY NamesDiffer
<1>4. TypeOK' /\ BuiltType'
  <2>1. TypeOK'
    BY <1>1, <1>3 DEF StartWatcher, NotOpening, GoTo, fileVars, walkVars, sourceVars, TypeOK,
       Steps
  <2>2. BuiltType'
    BY <1>1, <1>3 DEF StartWatcher, NotOpening, GoTo, fileVars, walkVars, sourceVars, BuiltType
  <2> QED
    BY <2>1, <2>2
<1>5. LocksInv' /\ OrderInv'
  <2>1. LocksInv'
    BY <1>1, <1>2, <1>3 DEF StartWatcher, NotOpening, GoTo, fileVars, walkVars, sourceVars,
       LocksInv, RebuildSteps, WalkSteps
  <2>2. OrderInv'
    BY <1>1, <1>2, <1>3 DEF StartWatcher, NotOpening, GoTo, fileVars, walkVars, sourceVars,
       OrderInv, StartSteps, RebuildSteps, WalkSteps
  <2> QED
    BY <2>1, <2>2
<1>6. HandlesInv'
  BY <1>1, HandlesFrame DEF StartWatcher, NotOpening, fileVars, walkVars, sourceVars
<1>7. SeenInv'
  <2>1. Published' = Published
    BY DEF StartWatcher, NotOpening, fileVars, walkVars, sourceVars, Published
  <2> QED
    BY <1>1, <1>2, <1>3, <2>1 DEF StartWatcher, NotOpening, GoTo, fileVars, walkVars,
       sourceVars, SeenInv, ToBeSeen, OrderInv, LocksInv, StartSteps, RebuildSteps, WalkSteps
<1>8. SourcesInv'
  BY <1>1, <1>2, <1>3 DEF StartWatcher, NotOpening, GoTo, fileVars, walkVars, sourceVars,
     SourcesInv, RebuildSteps, LocksInv
<1>9. DatabasesClosedOnce'
  BY <1>1, <1>2, <1>3 DEF StartWatcher, NotOpening, GoTo, fileVars, walkVars, sourceVars,
     DatabasesClosedOnce
<1> QED
  BY <1>4, <1>5, <1>6, <1>7, <1>8, <1>9 DEF NetInv

LEMMA DrainKeeps ==
  ASSUME NetInv, Drain
  PROVE  NetInv'
<1>1. /\ TypeOK /\ BuiltType /\ LocksInv /\ OrderInv /\ HandlesInv
      /\ SeenInv /\ SourcesInv /\ DatabasesClosedOnce
  BY DEF NetInv
<1>2. pc \in [Goroutines -> Steps]
  BY <1>1 DEF TypeOK
<1>3. /\ Sources \subseteq Goroutines /\ "start" \in Goroutines /\ "geoip" \in Goroutines
      /\ "start" \notin Sources /\ "geoip" \notin Sources /\ "free" \notin Goroutines
  BY NamesDiffer
<1>4. TypeOK' /\ BuiltType'
  <2>1. TypeOK'
    BY <1>1, <1>3 DEF Drain, GoTo, fileVars, geoVars, walkVars, sourceVars, TypeOK, Steps
  <2>2. BuiltType'
    BY <1>1, <1>3 DEF Drain, GoTo, fileVars, geoVars, walkVars, sourceVars, BuiltType
  <2> QED
    BY <2>1, <2>2
<1>5. LocksInv' /\ OrderInv'
  <2>1. LocksInv'
    BY <1>1, <1>2, <1>3 DEF Drain, GoTo, fileVars, geoVars, walkVars, sourceVars, LocksInv,
       RebuildSteps, WalkSteps
  <2>2. OrderInv'
    BY <1>1, <1>2, <1>3 DEF Drain, GoTo, fileVars, geoVars, walkVars, sourceVars, OrderInv,
       StartSteps, RebuildSteps, WalkSteps
  <2> QED
    BY <2>1, <2>2
<1>6. HandlesInv'
  BY <1>1, HandlesFrame DEF Drain, fileVars, geoVars, walkVars, sourceVars
<1>7. SeenInv'
  <2>1. Published' = Published
    BY DEF Drain, fileVars, geoVars, walkVars, sourceVars, Published
  <2> QED
    BY <1>1, <1>2, <1>3, <2>1 DEF Drain, GoTo, fileVars, geoVars, walkVars, sourceVars, SeenInv,
       ToBeSeen, OrderInv, LocksInv, StartSteps, RebuildSteps, WalkSteps
<1>8. SourcesInv'
  BY <1>1, <1>2, <1>3 DEF Drain, GoTo, fileVars, geoVars, walkVars, sourceVars, SourcesInv,
     RebuildSteps, LocksInv
<1>9. DatabasesClosedOnce'
  BY <1>1, <1>2, <1>3 DEF Drain, GoTo, fileVars, geoVars, walkVars, sourceVars,
     DatabasesClosedOnce
<1> QED
  BY <1>4, <1>5, <1>6, <1>7, <1>8, <1>9 DEF NetInv

LEMMA StartGoroutinesKeeps ==
  ASSUME NetInv, StartGoroutines
  PROVE  NetInv'
<1>1. /\ TypeOK /\ BuiltType /\ LocksInv /\ OrderInv /\ HandlesInv
      /\ SeenInv /\ SourcesInv /\ DatabasesClosedOnce
  BY DEF NetInv
<1>2. pc \in [Goroutines -> Steps]
  BY <1>1 DEF TypeOK
<1>3. /\ Sources \subseteq Goroutines /\ "start" \in Goroutines /\ "geoip" \in Goroutines
      /\ "start" \notin Sources /\ "geoip" \notin Sources /\ "free" \notin Goroutines
  BY NamesDiffer
<1>4. /\ pc["start"] = "rebuilt" /\ \A g \in Goroutines \ {"start"} : pc[g] = "none"
      /\ pc' \in [Goroutines -> Steps]
      /\ pc'["start"] = "wait ready" /\ pc'["geoip"] = "wait" /\ \A s \in Sources : pc'[s] = "fetch"
      /\ \A g \in Goroutines : pc'[g] \in {"wait ready", "wait", "fetch"}
  BY <1>1, <1>3 DEF StartGoroutines, OrderInv, StartSteps, Steps
<1>5. rebuildLock = "free" /\ iterLock = "free"
  BY <1>1, <1>4 DEF LocksInv, TypeOK, WalkSteps, RebuildSteps
<1>6. TypeOK'
  BY <1>1, <1>4 DEF StartGoroutines, fileVars, geoVars, walkVars, sourceVars, TypeOK
<1>7. BuiltType'
  BY <1>1 DEF StartGoroutines, fileVars, geoVars, walkVars, sourceVars, BuiltType
<1>8. LocksInv'
  BY <1>1, <1>3, <1>4, <1>5 DEF StartGoroutines, walkVars, LocksInv, WalkSteps, RebuildSteps
<1>9. OrderInv'
  BY <1>1, <1>2, <1>3 DEF StartGoroutines, fileVars, geoVars, walkVars, sourceVars, OrderInv,
     StartSteps, RebuildSteps, WalkSteps
<1>10. HandlesInv'
  BY <1>1, HandlesFrame DEF StartGoroutines, fileVars, geoVars, walkVars, sourceVars
<1>11. SeenInv'
  <2>1. Published' = Published
    BY DEF StartGoroutines, geoVars, Published
  <2> QED
    BY <1>1, <1>3, <1>4, <1>5, <2>1 DEF StartGoroutines, walkVars, geoVars, SeenInv, ToBeSeen
<1>12. SourcesInv'
  <2>1. \A s \in Sources : pc[s] = "none" /\ pc'[s] = "fetch" /\ rebuildLock # s
    BY <1>3, <1>4, <1>5
  <2>2. UNCHANGED <<networkSources, fetched, ready, built>> /\ pc'["start"] # "started"
    BY <1>4 DEF StartGoroutines, sourceVars
  <2>3. \A s \in Sources : built.sources[s] = networkSources[s]
    BY <1>1, <2>1 DEF SourcesInv
  <2> QED
    BY <1>1, <2>1, <2>2, <2>3 DEF SourcesInv, RebuildSteps
<1>13. DatabasesClosedOnce'
  BY <1>1, <1>2, <1>3 DEF StartGoroutines, fileVars, geoVars, walkVars, sourceVars,
     DatabasesClosedOnce
<1> QED
  BY <1>6, <1>7, <1>8, <1>9, <1>10, <1>11, <1>12, <1>13 DEF NetInv

LEMMA StartedKeeps ==
  ASSUME NetInv, Started
  PROVE  NetInv'
<1>1. /\ TypeOK /\ BuiltType /\ LocksInv /\ OrderInv /\ HandlesInv
      /\ SeenInv /\ SourcesInv /\ DatabasesClosedOnce
  BY DEF NetInv
<1>2. pc \in [Goroutines -> Steps]
  BY <1>1 DEF TypeOK
<1>3. /\ Sources \subseteq Goroutines /\ "start" \in Goroutines /\ "geoip" \in Goroutines
      /\ "start" \notin Sources /\ "geoip" \notin Sources /\ "free" \notin Goroutines
  BY NamesDiffer
<1>4. TypeOK' /\ BuiltType'
  <2>1. TypeOK'
    BY <1>1, <1>3 DEF Started, GoTo, fileVars, geoVars, walkVars, sourceVars, TypeOK, Steps
  <2>2. BuiltType'
    BY <1>1, <1>3 DEF Started, GoTo, fileVars, geoVars, walkVars, sourceVars, BuiltType
  <2> QED
    BY <2>1, <2>2
<1>5. LocksInv' /\ OrderInv'
  <2>1. LocksInv'
    BY <1>1, <1>2, <1>3 DEF Started, GoTo, fileVars, geoVars, walkVars, sourceVars, LocksInv,
       RebuildSteps, WalkSteps
  <2>2. OrderInv'
    BY <1>1, <1>2, <1>3 DEF Started, GoTo, fileVars, geoVars, walkVars, sourceVars, OrderInv,
       StartSteps, RebuildSteps, WalkSteps
  <2> QED
    BY <2>1, <2>2
<1>6. HandlesInv'
  BY <1>1, HandlesFrame DEF Started, fileVars, geoVars, walkVars, sourceVars
<1>7. SeenInv'
  <2>1. Published' = Published
    BY DEF Started, fileVars, geoVars, walkVars, sourceVars, Published
  <2> QED
    BY <1>1, <1>2, <1>3, <2>1 DEF Started, GoTo, fileVars, geoVars, walkVars, sourceVars,
       SeenInv, ToBeSeen, OrderInv, LocksInv, StartSteps, RebuildSteps, WalkSteps
<1>8. SourcesInv'
  BY <1>1, <1>2, <1>3 DEF Started, GoTo, fileVars, geoVars, walkVars, sourceVars, SourcesInv,
     RebuildSteps, LocksInv
<1>9. DatabasesClosedOnce'
  BY <1>1, <1>2, <1>3 DEF Started, GoTo, fileVars, geoVars, walkVars, sourceVars,
     DatabasesClosedOnce
<1> QED
  BY <1>4, <1>5, <1>6, <1>7, <1>8, <1>9 DEF NetInv

LEMMA StopNetworksKeeps ==
  ASSUME NetInv, StopNetworks
  PROVE  NetInv'
<1>1. /\ TypeOK /\ BuiltType /\ LocksInv /\ OrderInv /\ HandlesInv
      /\ SeenInv /\ SourcesInv /\ DatabasesClosedOnce
  BY DEF NetInv
<1>2. pc \in [Goroutines -> Steps]
  BY <1>1 DEF TypeOK
<1>3. /\ Sources \subseteq Goroutines /\ "start" \in Goroutines /\ "geoip" \in Goroutines
      /\ "start" \notin Sources /\ "geoip" \notin Sources /\ "free" \notin Goroutines
  BY NamesDiffer
<1>4. TypeOK' /\ BuiltType'
  <2>1. TypeOK'
    BY <1>1, <1>3 DEF StopNetworks, GoTo, fileVars, geoVars, walkVars, sourceVars, TypeOK, Steps
  <2>2. BuiltType'
    BY <1>1, <1>3 DEF StopNetworks, GoTo, fileVars, geoVars, walkVars, sourceVars, BuiltType
  <2> QED
    BY <2>1, <2>2
<1>5. LocksInv' /\ OrderInv'
  <2>1. LocksInv'
    BY <1>1, <1>2, <1>3 DEF StopNetworks, GoTo, fileVars, geoVars, walkVars, sourceVars,
       LocksInv, RebuildSteps, WalkSteps
  <2>2. OrderInv'
    BY <1>1, <1>2, <1>3 DEF StopNetworks, GoTo, fileVars, geoVars, walkVars, sourceVars,
       OrderInv, StartSteps, RebuildSteps, WalkSteps
  <2> QED
    BY <2>1, <2>2
<1>6. HandlesInv'
  BY <1>1, HandlesFrame DEF StopNetworks, fileVars, geoVars, walkVars, sourceVars
<1>7. SeenInv'
  <2>1. Published' = Published
    BY DEF StopNetworks, fileVars, geoVars, walkVars, sourceVars, Published
  <2> QED
    BY <1>1, <1>2, <1>3, <2>1 DEF StopNetworks, GoTo, fileVars, geoVars, walkVars, sourceVars,
       SeenInv, ToBeSeen, OrderInv, LocksInv, StartSteps, RebuildSteps, WalkSteps
<1>8. SourcesInv'
  BY <1>1, <1>2, <1>3 DEF StopNetworks, GoTo, fileVars, geoVars, walkVars, sourceVars,
     SourcesInv, RebuildSteps, LocksInv
<1>9. DatabasesClosedOnce'
  BY <1>1, <1>2, <1>3 DEF StopNetworks, GoTo, fileVars, geoVars, walkVars, sourceVars,
     DatabasesClosedOnce
<1> QED
  BY <1>4, <1>5, <1>6, <1>7, <1>8, <1>9 DEF NetInv

LEMMA NetworksStoppedKeeps ==
  ASSUME NetInv, NetworksStopped
  PROVE  NetInv'
<1>1. /\ TypeOK /\ BuiltType /\ LocksInv /\ OrderInv /\ HandlesInv
      /\ SeenInv /\ SourcesInv /\ DatabasesClosedOnce
  BY DEF NetInv
<1>2. pc \in [Goroutines -> Steps]
  BY <1>1 DEF TypeOK
<1>3. /\ Sources \subseteq Goroutines /\ "start" \in Goroutines /\ "geoip" \in Goroutines
      /\ "start" \notin Sources /\ "geoip" \notin Sources /\ "free" \notin Goroutines
  BY NamesDiffer
<1>4. TypeOK' /\ BuiltType'
  <2>1. TypeOK'
    BY <1>1, <1>3 DEF NetworksStopped, GoTo, fileVars, geoVars, walkVars, sourceVars, TypeOK,
       Steps
  <2>2. BuiltType'
    BY <1>1, <1>3 DEF NetworksStopped, GoTo, fileVars, geoVars, walkVars, sourceVars, BuiltType
  <2> QED
    BY <2>1, <2>2
<1>5. LocksInv' /\ OrderInv'
  <2>1. LocksInv'
    BY <1>1, <1>2, <1>3 DEF NetworksStopped, GoTo, fileVars, geoVars, walkVars, sourceVars,
       LocksInv, RebuildSteps, WalkSteps
  <2>2. OrderInv'
    BY <1>1, <1>2, <1>3 DEF NetworksStopped, GoTo, fileVars, geoVars, walkVars, sourceVars,
       OrderInv, StartSteps, RebuildSteps, WalkSteps
  <2> QED
    BY <2>1, <2>2
<1>6. HandlesInv'
  BY <1>1, HandlesFrame DEF NetworksStopped, fileVars, geoVars, walkVars, sourceVars
<1>7. SeenInv'
  <2>1. Published' = Published
    BY DEF NetworksStopped, fileVars, geoVars, walkVars, sourceVars, Published
  <2> QED
    BY <1>1, <1>2, <1>3, <2>1 DEF NetworksStopped, GoTo, fileVars, geoVars, walkVars,
       sourceVars, SeenInv, ToBeSeen, OrderInv, LocksInv, StartSteps, RebuildSteps, WalkSteps
<1>8. SourcesInv'
  BY <1>1, <1>2, <1>3 DEF NetworksStopped, GoTo, fileVars, geoVars, walkVars, sourceVars,
     SourcesInv, RebuildSteps, LocksInv
<1>9. DatabasesClosedOnce'
  BY <1>1, <1>2, <1>3 DEF NetworksStopped, GoTo, fileVars, geoVars, walkVars, sourceVars,
     DatabasesClosedOnce
<1> QED
  BY <1>4, <1>5, <1>6, <1>7, <1>8, <1>9 DEF NetInv

LEMMA WatcherExitKeeps ==
  ASSUME NetInv, WatcherExit
  PROVE  NetInv'
<1>1. /\ TypeOK /\ BuiltType /\ LocksInv /\ OrderInv /\ HandlesInv
      /\ SeenInv /\ SourcesInv /\ DatabasesClosedOnce
  BY DEF NetInv
<1>2. pc \in [Goroutines -> Steps]
  BY <1>1 DEF TypeOK
<1>3. /\ Sources \subseteq Goroutines /\ "start" \in Goroutines /\ "geoip" \in Goroutines
      /\ "start" \notin Sources /\ "geoip" \notin Sources /\ "free" \notin Goroutines
  BY NamesDiffer
<1>4. TypeOK' /\ BuiltType'
  <2>1. TypeOK'
    BY <1>1, <1>3 DEF WatcherExit, NotOpening, fileVars, walkVars, sourceVars, TypeOK, Steps
  <2>2. BuiltType'
    BY <1>1, <1>3 DEF WatcherExit, NotOpening, fileVars, walkVars, sourceVars, BuiltType
  <2> QED
    BY <2>1, <2>2
<1>5. LocksInv' /\ OrderInv'
  <2>1. LocksInv'
    BY <1>1, <1>2, <1>3 DEF WatcherExit, NotOpening, fileVars, walkVars, sourceVars, LocksInv,
       RebuildSteps, WalkSteps
  <2>2. OrderInv'
    BY <1>1, <1>2, <1>3 DEF WatcherExit, NotOpening, fileVars, walkVars, sourceVars, OrderInv,
       StartSteps, RebuildSteps, WalkSteps
  <2> QED
    BY <2>1, <2>2
<1>6. HandlesInv'
  BY <1>1, HandlesFrame DEF WatcherExit, NotOpening, fileVars, walkVars, sourceVars
<1>7. SeenInv'
  <2>1. Published' = Published
    BY DEF WatcherExit, NotOpening, fileVars, walkVars, sourceVars, Published
  <2> QED
    BY <1>1, <1>2, <1>3, <2>1 DEF WatcherExit, NotOpening, fileVars, walkVars, sourceVars,
       SeenInv, ToBeSeen, OrderInv, LocksInv, StartSteps, RebuildSteps, WalkSteps
<1>8. SourcesInv'
  BY <1>1, <1>2, <1>3 DEF WatcherExit, NotOpening, fileVars, walkVars, sourceVars, SourcesInv,
     RebuildSteps, LocksInv
<1>9. DatabasesClosedOnce'
  BY <1>1, <1>2, <1>3 DEF WatcherExit, NotOpening, fileVars, walkVars, sourceVars,
     DatabasesClosedOnce
<1> QED
  BY <1>4, <1>5, <1>6, <1>7, <1>8, <1>9 DEF NetInv

LEMMA GeoIPStoppedKeeps ==
  ASSUME NetInv, GeoIPStopped
  PROVE  NetInv'
<1>1. /\ TypeOK /\ BuiltType /\ LocksInv /\ OrderInv /\ HandlesInv
      /\ SeenInv /\ SourcesInv /\ DatabasesClosedOnce
  BY DEF NetInv
<1>2. pc \in [Goroutines -> Steps]
  BY <1>1 DEF TypeOK
<1>3. /\ Sources \subseteq Goroutines /\ "start" \in Goroutines /\ "geoip" \in Goroutines
      /\ "start" \notin Sources /\ "geoip" \notin Sources /\ "free" \notin Goroutines
  BY NamesDiffer
<1>4. /\ opening = NotOpening /\ closing = {} /\ walking = {}
      /\ \A d \in Databases : databases'[d] = 0
  BY <1>1 DEF GeoIPStopped, OrderInv, LocksInv
<1>5. DOMAIN closes = DOMAIN content
  BY <1>1 DEF TypeOK
<1>6. \A h \in DOMAIN content : closes'[h] = 1
  <2> SUFFICES ASSUME NEW h \in DOMAIN content PROVE closes'[h] = 1
    OBVIOUS
  <2>1. closes'[h] = IF \E d \in Databases : databases[d] = h THEN closes[h] + 1 ELSE closes[h]
    BY <1>5 DEF GeoIPStopped
  <2>2. h # 0
    BY <1>1 DEF TypeOK
  <2>3. CASE \E d \in Databases : databases[d] = h
    <3>1. closes[h] = 0
      BY <1>1, <2>2, <2>3 DEF HandlesInv
    <3> QED
      BY <2>1, <2>3, <3>1
  <2>4. CASE ~ \E d \in Databases : databases[d] = h
    <3>1. closes[h] = 1
      BY <1>1, <1>4, <2>4 DEF HandlesInv, NotOpening
    <3> QED
      BY <2>1, <2>4, <3>1
  <2> QED
    BY <2>3, <2>4
<1>7. TypeOK'
  <2>1. closes' \in [DOMAIN content -> Nat]
    <3>1. DOMAIN closes' = DOMAIN closes /\ closes' = [h \in DOMAIN closes |-> closes'[h]]
      BY DEF GeoIPStopped
    <3> QED
      BY <1>5, <1>6, <3>1
  <2>2. databases' \in [Databases -> 0..Len(content)]
    <3>1. 0 \in 0..Len(content)
      BY <1>1 DEF TypeOK
    <3> QED
      BY <3>1 DEF GeoIPStopped
  <2> QED
    BY <1>1, <1>2, <1>3, <2>1, <2>2 DEF GeoIPStopped, GoTo, fileVars, walkVars, sourceVars,
       TypeOK, Steps
<1>8. BuiltType'
  BY <1>1 DEF GeoIPStopped, fileVars, walkVars, sourceVars, BuiltType
<1>9. LocksInv'
  BY <1>1, <1>2, <1>3 DEF GeoIPStopped, GoTo, fileVars, walkVars, sourceVars, LocksInv,
     WalkSteps, RebuildSteps
<1>10. OrderInv'
  BY <1>1, <1>2, <1>3 DEF GeoIPStopped, GoTo, fileVars, walkVars, sourceVars, OrderInv,
     StartSteps, RebuildSteps, WalkSteps
<1>11. HandlesInv'
  BY <1>4, <1>6 DEF GeoIPStopped, HandlesInv, NotOpening
<1>12. SeenInv'
  BY <1>1, <1>2, <1>3 DEF GeoIPStopped, GoTo, fileVars, walkVars, sourceVars, SeenInv,
     Published, ToBeSeen, OrderInv, StartSteps, RebuildSteps, WalkSteps
<1>13. SourcesInv'
  BY <1>1, <1>2, <1>3 DEF GeoIPStopped, GoTo, fileVars, walkVars, sourceVars, SourcesInv,
     RebuildSteps, LocksInv
<1>14. DatabasesClosedOnce'
  <2>1. DOMAIN closes' = DOMAIN content /\ walking' = {}
    BY <1>4, <1>5 DEF GeoIPStopped, walkVars
  <2> QED
    BY <1>6, <2>1 DEF DatabasesClosedOnce
<1> QED
  BY <1>7, <1>8, <1>9, <1>10, <1>11, <1>12, <1>13, <1>14 DEF NetInv

LEMMA WantKeeps ==
  ASSUME NetInv, NEW g \in Goroutines, Want(g)
  PROVE  NetInv'
<1>1. /\ TypeOK /\ BuiltType /\ LocksInv /\ OrderInv /\ HandlesInv
      /\ SeenInv /\ SourcesInv /\ DatabasesClosedOnce
  BY DEF NetInv
<1>2. pc \in [Goroutines -> Steps]
  BY <1>1 DEF TypeOK
<1>3. /\ Sources \subseteq Goroutines /\ "start" \in Goroutines /\ "geoip" \in Goroutines
      /\ "start" \notin Sources /\ "geoip" \notin Sources /\ "free" \notin Goroutines
  BY NamesDiffer
<1>4. TypeOK' /\ BuiltType'
  <2>1. TypeOK'
    BY <1>1, <1>3 DEF Want, GoTo, fileVars, geoVars, walkVars, sourceVars, TypeOK, Steps
  <2>2. BuiltType'
    BY <1>1, <1>3 DEF Want, GoTo, fileVars, geoVars, walkVars, sourceVars, BuiltType
  <2> QED
    BY <2>1, <2>2
<1>5. LocksInv' /\ OrderInv'
  <2>1. LocksInv'
    BY <1>1, <1>2, <1>3 DEF Want, GoTo, fileVars, geoVars, walkVars, sourceVars, LocksInv,
       RebuildSteps, WalkSteps
  <2>2. OrderInv'
    BY <1>1, <1>2, <1>3 DEF Want, GoTo, fileVars, geoVars, walkVars, sourceVars, OrderInv,
       StartSteps, RebuildSteps, WalkSteps
  <2> QED
    BY <2>1, <2>2
<1>6. HandlesInv'
  BY <1>1, HandlesFrame DEF Want, fileVars, geoVars, walkVars, sourceVars
<1>7. SeenInv'
  <2>1. Published' = Published
    BY DEF Want, fileVars, geoVars, walkVars, sourceVars, Published
  <2> QED
    BY <1>1, <1>2, <1>3, <2>1 DEF Want, GoTo, fileVars, geoVars, walkVars, sourceVars, SeenInv,
       ToBeSeen, OrderInv, LocksInv, StartSteps, RebuildSteps, WalkSteps
<1>8. SourcesInv'
  BY <1>1, <1>2, <1>3 DEF Want, GoTo, fileVars, geoVars, walkVars, sourceVars, SourcesInv,
     RebuildSteps, LocksInv
<1>9. DatabasesClosedOnce'
  BY <1>1, <1>2, <1>3 DEF Want, GoTo, fileVars, geoVars, walkVars, sourceVars,
     DatabasesClosedOnce
<1> QED
  BY <1>4, <1>5, <1>6, <1>7, <1>8, <1>9 DEF NetInv

(* The rebuild that is skipped, or taken over for all those that wanted it.*)
LEMMA LockKeeps ==
  ASSUME NetInv, NEW g \in Goroutines, Lock(g)
  PROVE  NetInv'
<1>1. /\ TypeOK /\ BuiltType /\ LocksInv /\ OrderInv /\ HandlesInv
      /\ SeenInv /\ SourcesInv /\ DatabasesClosedOnce
  BY DEF NetInv
<1>2. pc \in [Goroutines -> Steps]
  BY <1>1 DEF TypeOK
<1>3. /\ Sources \subseteq Goroutines /\ "start" \in Goroutines /\ "geoip" \in Goroutines
      /\ "start" \notin Sources /\ "geoip" \notin Sources /\ "free" \notin Goroutines
  BY NamesDiffer
<1>4. /\ pc[g] = "lock" /\ rebuildLock = "free" /\ g # "free"
      /\ \A x \in Goroutines : pc'[x] = IF x # g THEN pc[x] ELSE IF rebuildWanted THEN "asn" ELSE "rebuilt"
      /\ rebuildWanted' = FALSE
      /\ rebuildLock' = IF rebuildWanted THEN g ELSE "free"
  BY <1>1, <1>2, <1>3 DEF Lock, GoTo, TypeOK
<1>5. UNCHANGED <<fileVars, fileEvents, geoVars, walkVars, geoipUpdate, sourceVars, timedOut, built>>
  BY DEF Lock
<1>6. TypeOK'
  BY <1>1, <1>3 DEF Lock, GoTo, fileVars, geoVars, walkVars, sourceVars, TypeOK, Steps
<1>7. BuiltType'
  BY <1>1 DEF Lock, fileVars, geoVars, walkVars, sourceVars, BuiltType
<1>8. LocksInv'
  <2>1. \A x \in Goroutines : pc[x] \notin RebuildSteps
    BY <1>1, <1>3, <1>4 DEF LocksInv
  <2>2. \A x \in Goroutines : pc'[x] \in WalkSteps <=> pc[x] \in WalkSteps
    BY <1>4 DEF WalkSteps
  <2>3. \A x \in Goroutines : pc'[x] \in RebuildSteps <=> rebuildLock' = x
    BY <1>3, <1>4, <2>1 DEF RebuildSteps
  <2> QED
    BY <1>1, <1>5, <2>2, <2>3 DEF walkVars, LocksInv
<1>9. OrderInv'
  BY <1>1, <1>3, <1>4, <1>5 DEF geoVars, OrderInv, StartSteps, RebuildSteps
<1>10. HandlesInv'
  BY <1>1, HandlesFrame DEF Lock, fileVars, geoVars, walkVars, sourceVars
<1>11. SeenInv'
  <2>1. Published' = Published /\ UNCHANGED <<geoipUpdate, opening, merged, built>>
    BY <1>5 DEF geoVars, walkVars, Published
  <2>2. \A x \in Goroutines : pc[x] \notin RebuildSteps
    BY <1>1, <1>3, <1>4 DEF LocksInv
  <2>3. \A x \in Goroutines : pc'[x] \notin {"asn walk", "geo", "geo walk", "publish"}
    BY <1>4, <2>2 DEF RebuildSteps
  <2>4. CASE rebuildWanted /\ pc["geoip"] \in {"wait", "rebuilt", "exited"}
    <3>1. pc["start"] \notin StartSteps
      <4>1. pc["geoip"] # "none" /\ "geoip" \in Goroutines \ {"start"}
        BY <1>3, <2>4
      <4> QED
        BY <1>1, <4>1 DEF OrderInv
    <3>2. pc'["geoip"] = pc["geoip"] /\ pc'["start"] = pc["start"] /\ rebuildLock' = g
      BY <1>3, <1>4, <2>4, <3>1 DEF StartSteps
    <3> QED
      BY <1>1, <1>3, <1>4, <2>1, <2>3, <2>4, <3>1, <3>2 DEF SeenInv, ToBeSeen, StartSteps
  <2>5. CASE rebuildWanted /\ pc["geoip"] \notin {"wait", "rebuilt", "exited"}
    <3>1. rebuildLock' # "free" /\ pc'["geoip"] \notin {"wait", "rebuilt", "exited"}
      BY <1>3, <1>4, <2>5
    <3> QED
      BY <2>3, <3>1 DEF SeenInv
  <2>6. CASE ~ rebuildWanted
    <3>1. CASE ToBeSeen
      <4>1. ToBeSeen'
        BY <1>3, <1>4, <2>1, <2>6, <3>1 DEF ToBeSeen
      <4> QED
        BY <4>1 DEF SeenInv
    <3>2. CASE ~ ToBeSeen
      <4>1. built.databases = Published
        BY <1>1, <1>4, <3>2 DEF SeenInv
      <4> QED
        BY <2>1, <2>3, <4>1 DEF SeenInv
    <3> QED
      BY <3>1, <3>2
  <2> QED
    BY <1>1, <2>4, <2>5, <2>6 DEF TypeOK
<1>12. SourcesInv'
  BY <1>1, <1>3, <1>4, <1>5 DEF sourceVars, SourcesInv, RebuildSteps, TypeOK
<1>13. DatabasesClosedOnce'
  BY <1>1, <1>2, <1>3 DEF Lock, GoTo, fileVars, geoVars, walkVars, sourceVars,
     DatabasesClosedOnce
<1> QED
  BY <1>6, <1>7, <1>8, <1>9, <1>10, <1>11, <1>12, <1>13 DEF NetInv

LEMMA IterASNDatabasesKeeps ==
  ASSUME NetInv, NEW g \in Goroutines, IterASNDatabases(g)
  PROVE  NetInv'
<1>1. /\ TypeOK /\ BuiltType /\ LocksInv /\ OrderInv /\ HandlesInv
      /\ SeenInv /\ SourcesInv /\ DatabasesClosedOnce
  BY DEF NetInv
<1>2. pc \in [Goroutines -> Steps]
  BY <1>1 DEF TypeOK
<1>3. /\ Sources \subseteq Goroutines /\ "start" \in Goroutines /\ "geoip" \in Goroutines
      /\ "start" \notin Sources /\ "geoip" \notin Sources /\ "free" \notin Goroutines
  BY NamesDiffer
<1>4. Published \in [Databases -> FileTables \cup {NoTable}]
  BY <1>1, PublishedType
<1>5. /\ pc[g] = "asn" /\ iterLock = "free" /\ rebuildLock = g
      /\ \A x \in Goroutines : pc'[x] = IF x = g THEN "asn walk" ELSE pc[x]
      /\ merged' = [d \in Databases |-> IF d \in ToSet(ASNDatabases) THEN Published[d] ELSE merged[d]]
      /\ UNCHANGED <<fileVars, fileEvents, geoVars, geoipUpdate, sourceVars, timedOut,
                     rebuildWanted, rebuildLock, built>>
  BY <1>1, <1>2 DEF IterASNDatabases, Iter, GoTo, LocksInv, RebuildSteps
<1>6. TypeOK'
  <2>1. merged' \in [Databases -> FileTables \cup {NoTable}]
    BY <1>1, <1>4, <1>5 DEF TypeOK
  <2>2. walking' \subseteq DOMAIN content
    <3>1. walking' \subseteq {databases[d] : d \in Databases} \ {0}
      BY DEF IterASNDatabases, Iter, Databases
    <3> QED
      BY <1>1, <3>1 DEF TypeOK
  <2>3. pc' \in [Goroutines -> Steps] /\ iterLock' = g
    BY <1>2 DEF IterASNDatabases, Iter, GoTo, Steps
  <2> QED
    BY <1>1, <1>5, <2>1, <2>2, <2>3 DEF fileVars, geoVars, sourceVars, TypeOK
<1>7. BuiltType'
  BY <1>1 DEF IterASNDatabases, Iter, fileVars, geoVars, sourceVars, BuiltType
<1>8. LocksInv'
  BY <1>1, <1>2, <1>3 DEF IterASNDatabases, Iter, GoTo, fileVars, geoVars, sourceVars, LocksInv,
     WalkSteps, RebuildSteps
<1>9. OrderInv'
  BY <1>1, <1>2, <1>3 DEF IterASNDatabases, Iter, GoTo, fileVars, geoVars, sourceVars, OrderInv,
     StartSteps, RebuildSteps, WalkSteps
<1>10. HandlesInv'
  BY <1>1, HandlesFrame DEF IterASNDatabases, Iter, fileVars, geoVars, sourceVars
<1>11. SeenInv'
  <2>1. Published' = Published
    BY <1>5 DEF geoVars, Published
  <2>2. \A x \in Goroutines : x # g => pc[x] \notin RebuildSteps
    BY <1>1, <1>5 DEF LocksInv
  <2>3. ToBeSeen' <=> ToBeSeen
    BY <1>3, <1>5 DEF ToBeSeen, geoVars
  <2>4. CASE ToBeSeen
    BY <2>3, <2>4 DEF SeenInv
  <2>5. CASE ~ ToBeSeen
    <3>1. TRUE
      BY <1>1, <1>5, <2>5 DEF SeenInv
    <3>2. \A d \in ToSet(ASNDatabases) : merged'[d] = Published[d]
      BY <1>4, <1>5, <3>1 DEF Databases
    <3>3. \A x \in Goroutines : pc'[x] \in RebuildSteps => x = g
      BY <1>5, <2>2
    <3>4. rebuildLock' # "free" /\ built' = built
      BY <1>3, <1>5
    <3>5. pc'["geoip"] \in {"wait", "rebuilt", "exited"} => built.databases = Published
      BY <1>1, <1>3, <1>5, <2>5 DEF SeenInv
    <3> QED
      BY <1>5, <2>1, <3>2, <3>3, <3>4, <3>5 DEF SeenInv, RebuildSteps
  <2> QED
    BY <2>4, <2>5
<1>12. SourcesInv'
  BY <1>1, <1>2, <1>3 DEF IterASNDatabases, Iter, GoTo, fileVars, geoVars, sourceVars,
     SourcesInv, RebuildSteps, LocksInv
<1>13. DatabasesClosedOnce'
  <2>1. walking' \subseteq {databases[d] : d \in Databases} \ {0}
    BY DEF IterASNDatabases, Iter, Databases
  <2>2. \A h \in walking' : closes[h] = 0
    BY <1>1, <2>1 DEF HandlesInv
  <2>3. closes' = closes /\ pc'["start"] = "stopped" => pc["start"] = "stopped"
    BY <1>3, <1>5 DEF geoVars
  <2>4. closes' = closes
    BY <1>5 DEF geoVars
  <2>5. pc'["start"] # "stopped" \/ pc["start"] = "stopped"
    BY <1>3, <1>5
  <2> QED
    BY <1>1, <2>2, <2>4, <2>5 DEF DatabasesClosedOnce
<1> QED
  BY <1>6, <1>7, <1>8, <1>9, <1>10, <1>11, <1>12, <1>13 DEF NetInv

LEMMA IterGeoDatabasesKeeps ==
  ASSUME NetInv, NEW g \in Goroutines, IterGeoDatabases(g)
  PROVE  NetInv'
<1>1. /\ TypeOK /\ BuiltType /\ LocksInv /\ OrderInv /\ HandlesInv
      /\ SeenInv /\ SourcesInv /\ DatabasesClosedOnce
  BY DEF NetInv
<1>2. pc \in [Goroutines -> Steps]
  BY <1>1 DEF TypeOK
<1>3. /\ Sources \subseteq Goroutines /\ "start" \in Goroutines /\ "geoip" \in Goroutines
      /\ "start" \notin Sources /\ "geoip" \notin Sources /\ "free" \notin Goroutines
  BY NamesDiffer
<1>4. Published \in [Databases -> FileTables \cup {NoTable}]
  BY <1>1, PublishedType
<1>5. /\ pc[g] = "geo" /\ iterLock = "free" /\ rebuildLock = g
      /\ \A x \in Goroutines : pc'[x] = IF x = g THEN "geo walk" ELSE pc[x]
      /\ merged' = [d \in Databases |-> IF d \in ToSet(GeoDatabases) THEN Published[d] ELSE merged[d]]
      /\ UNCHANGED <<fileVars, fileEvents, geoVars, geoipUpdate, sourceVars, timedOut,
                     rebuildWanted, rebuildLock, built>>
  BY <1>1, <1>2 DEF IterGeoDatabases, Iter, GoTo, LocksInv, RebuildSteps
<1>6. TypeOK'
  <2>1. merged' \in [Databases -> FileTables \cup {NoTable}]
    BY <1>1, <1>4, <1>5 DEF TypeOK
  <2>2. walking' \subseteq DOMAIN content
    <3>1. walking' \subseteq {databases[d] : d \in Databases} \ {0}
      BY DEF IterGeoDatabases, Iter, Databases
    <3> QED
      BY <1>1, <3>1 DEF TypeOK
  <2>3. pc' \in [Goroutines -> Steps] /\ iterLock' = g
    BY <1>2 DEF IterGeoDatabases, Iter, GoTo, Steps
  <2> QED
    BY <1>1, <1>5, <2>1, <2>2, <2>3 DEF fileVars, geoVars, sourceVars, TypeOK
<1>7. BuiltType'
  BY <1>1 DEF IterGeoDatabases, Iter, fileVars, geoVars, sourceVars, BuiltType
<1>8. LocksInv'
  BY <1>1, <1>2, <1>3 DEF IterGeoDatabases, Iter, GoTo, fileVars, geoVars, sourceVars, LocksInv,
     WalkSteps, RebuildSteps
<1>9. OrderInv'
  BY <1>1, <1>2, <1>3 DEF IterGeoDatabases, Iter, GoTo, fileVars, geoVars, sourceVars, OrderInv,
     StartSteps, RebuildSteps, WalkSteps
<1>10. HandlesInv'
  BY <1>1, HandlesFrame DEF IterGeoDatabases, Iter, fileVars, geoVars, sourceVars
<1>11. SeenInv'
  <2>1. Published' = Published
    BY <1>5 DEF geoVars, Published
  <2>2. \A x \in Goroutines : x # g => pc[x] \notin RebuildSteps
    BY <1>1, <1>5 DEF LocksInv
  <2>3. ToBeSeen' <=> ToBeSeen
    BY <1>3, <1>5 DEF ToBeSeen, geoVars
  <2>4. CASE ToBeSeen
    BY <2>3, <2>4 DEF SeenInv
  <2>5. CASE ~ ToBeSeen
    <3>1. \A d \in ToSet(ASNDatabases) : merged[d] = Published[d]
      BY <1>1, <1>5, <2>5 DEF SeenInv
    <3>2. merged' = Published
      BY <1>4, <1>5, <3>1 DEF Databases
    <3>3. \A x \in Goroutines : pc'[x] \in RebuildSteps => x = g
      BY <1>5, <2>2
    <3>4. rebuildLock' # "free" /\ built' = built
      BY <1>3, <1>5
    <3>5. pc'["geoip"] \in {"wait", "rebuilt", "exited"} => built.databases = Published
      BY <1>1, <1>3, <1>5, <2>5 DEF SeenInv
    <3> QED
      BY <1>5, <2>1, <3>2, <3>3, <3>4, <3>5 DEF SeenInv, RebuildSteps
  <2> QED
    BY <2>4, <2>5
<1>12. SourcesInv'
  BY <1>1, <1>2, <1>3 DEF IterGeoDatabases, Iter, GoTo, fileVars, geoVars, sourceVars,
     SourcesInv, RebuildSteps, LocksInv
<1>13. DatabasesClosedOnce'
  <2>1. walking' \subseteq {databases[d] : d \in Databases} \ {0}
    BY DEF IterGeoDatabases, Iter, Databases
  <2>2. \A h \in walking' : closes[h] = 0
    BY <1>1, <2>1 DEF HandlesInv
  <2>3. closes' = closes /\ pc'["start"] = "stopped" => pc["start"] = "stopped"
    BY <1>3, <1>5 DEF geoVars
  <2>4. closes' = closes
    BY <1>5 DEF geoVars
  <2>5. pc'["start"] # "stopped" \/ pc["start"] = "stopped"
    BY <1>3, <1>5
  <2> QED
    BY <1>1, <2>2, <2>4, <2>5 DEF DatabasesClosedOnce
<1> QED
  BY <1>6, <1>7, <1>8, <1>9, <1>10, <1>11, <1>12, <1>13 DEF NetInv

LEMMA WalkedKeeps ==
  ASSUME NetInv, NEW g \in Goroutines, Walked(g)
  PROVE  NetInv'
<1>1. /\ TypeOK /\ BuiltType /\ LocksInv /\ OrderInv /\ HandlesInv
      /\ SeenInv /\ SourcesInv /\ DatabasesClosedOnce
  BY DEF NetInv
<1>2. pc \in [Goroutines -> Steps]
  BY <1>1 DEF TypeOK
<1>3. /\ Sources \subseteq Goroutines /\ "start" \in Goroutines /\ "geoip" \in Goroutines
      /\ "start" \notin Sources /\ "geoip" \notin Sources /\ "free" \notin Goroutines
  BY NamesDiffer
<1>4. TypeOK' /\ BuiltType'
  <2>1. TypeOK'
    BY <1>1, <1>3 DEF Walked, GoTo, fileVars, geoVars, sourceVars, TypeOK, Steps
  <2>2. BuiltType'
    BY <1>1, <1>3 DEF Walked, GoTo, fileVars, geoVars, sourceVars, BuiltType
  <2> QED
    BY <2>1, <2>2
<1>5. LocksInv' /\ OrderInv'
  <2>1. LocksInv'
    BY <1>1, <1>2, <1>3 DEF Walked, GoTo, fileVars, geoVars, sourceVars, LocksInv, RebuildSteps,
       WalkSteps
  <2>2. OrderInv'
    BY <1>1, <1>2, <1>3 DEF Walked, GoTo, fileVars, geoVars, sourceVars, OrderInv, StartSteps,
       RebuildSteps, WalkSteps
  <2> QED
    BY <2>1, <2>2
<1>6. HandlesInv'
  BY <1>1, HandlesFrame DEF Walked, fileVars, geoVars, sourceVars
<1>7. SeenInv'
  <2>1. Published' = Published
    BY DEF Walked, fileVars, geoVars, sourceVars, Published
  <2> QED
    BY <1>1, <1>2, <1>3, <2>1 DEF Walked, GoTo, fileVars, geoVars, sourceVars, SeenInv,
       ToBeSeen, OrderInv, LocksInv, StartSteps, RebuildSteps, WalkSteps
<1>8. SourcesInv'
  BY <1>1, <1>2, <1>3 DEF Walked, GoTo, fileVars, geoVars, sourceVars, SourcesInv, RebuildSteps,
     LocksInv
<1>9. DatabasesClosedOnce'
  BY <1>1, <1>2, <1>3 DEF Walked, GoTo, fileVars, geoVars, sourceVars, DatabasesClosedOnce
<1> QED
  BY <1>4, <1>5, <1>6, <1>7, <1>8, <1>9 DEF NetInv

LEMMA PublishKeeps ==
  ASSUME NetInv, NEW g \in Goroutines, Publish(g)
  PROVE  NetInv'
<1>1. /\ TypeOK /\ BuiltType /\ LocksInv /\ OrderInv /\ HandlesInv
      /\ SeenInv /\ SourcesInv /\ DatabasesClosedOnce
  BY DEF NetInv
<1>2. pc \in [Goroutines -> Steps]
  BY <1>1 DEF TypeOK
<1>3. /\ Sources \subseteq Goroutines /\ "start" \in Goroutines /\ "geoip" \in Goroutines
      /\ "start" \notin Sources /\ "geoip" \notin Sources /\ "free" \notin Goroutines
  BY NamesDiffer
<1>4. TypeOK' /\ BuiltType'
  <2>1. TypeOK'
    BY <1>1, <1>3 DEF Publish, GoTo, fileVars, geoVars, walkVars, sourceVars, TypeOK, Steps
  <2>2. BuiltType'
    BY <1>1, <1>3 DEF Publish, GoTo, fileVars, geoVars, walkVars, sourceVars, TypeOK, Steps,
       BuiltType
  <2> QED
    BY <2>1, <2>2
<1>5. LocksInv' /\ OrderInv'
  <2>1. LocksInv'
    BY <1>1, <1>2, <1>3 DEF Publish, GoTo, fileVars, geoVars, walkVars, sourceVars, LocksInv,
       RebuildSteps, WalkSteps
  <2>2. OrderInv'
    BY <1>1, <1>2, <1>3 DEF Publish, GoTo, fileVars, geoVars, walkVars, sourceVars, OrderInv,
       StartSteps, RebuildSteps, WalkSteps
  <2> QED
    BY <2>1, <2>2
<1>6. HandlesInv'
  BY <1>1, HandlesFrame DEF Publish, fileVars, geoVars, walkVars, sourceVars
<1>7. SeenInv'
  <2>1. Published' = Published
    BY DEF Publish, fileVars, geoVars, walkVars, sourceVars, Published
  <2> QED
    BY <1>1, <1>2, <1>3, <2>1 DEF Publish, GoTo, fileVars, geoVars, walkVars, sourceVars,
       SeenInv, ToBeSeen, OrderInv, LocksInv, StartSteps, RebuildSteps, WalkSteps
<1>8. SourcesInv'
  BY <1>1, <1>2, <1>3 DEF Publish, GoTo, fileVars, geoVars, walkVars, sourceVars, SourcesInv,
     RebuildSteps, LocksInv
<1>9. DatabasesClosedOnce'
  BY <1>1, <1>2, <1>3 DEF Publish, GoTo, fileVars, geoVars, walkVars, sourceVars,
     DatabasesClosedOnce
<1> QED
  BY <1>4, <1>5, <1>6, <1>7, <1>8, <1>9 DEF NetInv

LEMMA GeoIPUpdateKeeps ==
  ASSUME NetInv, GeoIPUpdate
  PROVE  NetInv'
<1>1. /\ TypeOK /\ BuiltType /\ LocksInv /\ OrderInv /\ HandlesInv
      /\ SeenInv /\ SourcesInv /\ DatabasesClosedOnce
  BY DEF NetInv
<1>2. pc \in [Goroutines -> Steps]
  BY <1>1 DEF TypeOK
<1>3. /\ Sources \subseteq Goroutines /\ "start" \in Goroutines /\ "geoip" \in Goroutines
      /\ "start" \notin Sources /\ "geoip" \notin Sources /\ "free" \notin Goroutines
  BY NamesDiffer
<1>4. TypeOK' /\ BuiltType'
  <2>1. TypeOK'
    BY <1>1, <1>3 DEF GeoIPUpdate, GoTo, fileVars, geoVars, walkVars, sourceVars, TypeOK, Steps
  <2>2. BuiltType'
    BY <1>1, <1>3 DEF GeoIPUpdate, GoTo, fileVars, geoVars, walkVars, sourceVars, BuiltType
  <2> QED
    BY <2>1, <2>2
<1>5. LocksInv' /\ OrderInv'
  <2>1. LocksInv'
    BY <1>1, <1>2, <1>3 DEF GeoIPUpdate, GoTo, fileVars, geoVars, walkVars, sourceVars,
       LocksInv, RebuildSteps, WalkSteps
  <2>2. OrderInv'
    BY <1>1, <1>2, <1>3 DEF GeoIPUpdate, GoTo, fileVars, geoVars, walkVars, sourceVars,
       OrderInv, StartSteps, RebuildSteps, WalkSteps
  <2> QED
    BY <2>1, <2>2
<1>6. HandlesInv'
  BY <1>1, HandlesFrame DEF GeoIPUpdate, fileVars, geoVars, walkVars, sourceVars
<1>7. SeenInv'
  <2>1. Published' = Published
    BY DEF GeoIPUpdate, fileVars, geoVars, walkVars, sourceVars, Published
  <2> QED
    BY <1>1, <1>2, <1>3, <2>1 DEF GeoIPUpdate, GoTo, fileVars, geoVars, walkVars, sourceVars,
       SeenInv, ToBeSeen, OrderInv, LocksInv, StartSteps, RebuildSteps, WalkSteps
<1>8. SourcesInv'
  <2>1. /\ pc["geoip"] # "lock" /\ \A s \in Sources : pc'[s] = pc[s]
        /\ pc'["start"] = pc["start"]
        /\ UNCHANGED <<sourceVars, timedOut, rebuildWanted, rebuildLock, built>>
    BY <1>2, <1>3 DEF GeoIPUpdate, GoTo
  <2> QED
    BY <1>1, <2>1 DEF sourceVars, SourcesInv
<1>9. DatabasesClosedOnce'
  BY <1>1, <1>2, <1>3 DEF GeoIPUpdate, GoTo, fileVars, geoVars, walkVars, sourceVars,
     DatabasesClosedOnce
<1> QED
  BY <1>4, <1>5, <1>6, <1>7, <1>8, <1>9 DEF NetInv

LEMMA FetchKeeps ==
  ASSUME NetInv, NEW s \in Sources, Fetch(s)
  PROVE  NetInv'
<1>1. /\ TypeOK /\ BuiltType /\ LocksInv /\ OrderInv /\ HandlesInv
      /\ SeenInv /\ SourcesInv /\ DatabasesClosedOnce
  BY DEF NetInv
<1>2. pc \in [Goroutines -> Steps]
  BY <1>1 DEF TypeOK
<1>3. /\ Sources \subseteq Goroutines /\ "start" \in Goroutines /\ "geoip" \in Goroutines
      /\ "start" \notin Sources /\ "geoip" \notin Sources /\ "free" \notin Goroutines
  BY NamesDiffer
<1>4. /\ \A x \in Goroutines : pc'[x] = IF x # s THEN pc[x] ELSE "update"
      /\ s \in Goroutines /\ s # "start" /\ s # "free" /\ pc'["start"] = pc["start"]
  BY <1>2, <1>3 DEF Fetch, GoTo
<1>5. /\ fetched \in [Sources -> SourceTables \cup {NoTable}]
      /\ networkSources \in [Sources -> SourceTables \cup {NoTable}]
      /\ remote[s] \in SourceTables
  BY <1>1 DEF TypeOK
<1>6. TypeOK' /\ BuiltType'
  <2>1. TypeOK'
    BY <1>1, <1>3 DEF Fetch, GoTo, fileVars, geoVars, walkVars, TypeOK, Steps
  <2>2. BuiltType'
    BY <1>1, <1>3 DEF Fetch, GoTo, fileVars, geoVars, walkVars, BuiltType
  <2> QED
    BY <2>1, <2>2
<1>7. LocksInv' /\ OrderInv'
  <2>1. LocksInv'
    BY <1>1, <1>2, <1>3 DEF Fetch, GoTo, fileVars, geoVars, walkVars, LocksInv, RebuildSteps,
       WalkSteps
  <2>2. OrderInv'
    BY <1>1, <1>2, <1>3 DEF Fetch, GoTo, fileVars, geoVars, walkVars, OrderInv, StartSteps,
       RebuildSteps, WalkSteps
  <2> QED
    BY <2>1, <2>2
<1>8. HandlesInv'
  BY <1>1, HandlesFrame DEF Fetch, fileVars, geoVars, walkVars
<1>9. SeenInv'
  <2>1. Published' = Published
    BY DEF Fetch, fileVars, geoVars, walkVars, Published
  <2> QED
    BY <1>1, <1>2, <1>3, <2>1 DEF Fetch, GoTo, fileVars, geoVars, walkVars, SeenInv, ToBeSeen,
       OrderInv, LocksInv, StartSteps, RebuildSteps, WalkSteps
<1>10. SourcesInv'
  <2>1. \A x \in Sources : fetched'[x] = IF x = s THEN remote[s] ELSE fetched[x]
    BY <1>5 DEF Fetch
  <2>2. UNCHANGED <<networkSources, ready, timedOut, rebuildWanted, rebuildLock, built>> /\ pc[s] = "fetch"
    BY DEF Fetch
  <2>3. built.sources[s] = networkSources[s]
    BY <1>1, <1>4, <2>2 DEF SourcesInv, LocksInv, RebuildSteps
  <2> QED
    BY <1>1, <1>3, <1>4, <1>5, <2>1, <2>2, <2>3 DEF SourcesInv, RebuildSteps
<1>11. DatabasesClosedOnce'
  BY <1>1, <1>2, <1>3 DEF Fetch, GoTo, fileVars, geoVars, walkVars, DatabasesClosedOnce
<1> QED
  BY <1>6, <1>7, <1>8, <1>9, <1>10, <1>11 DEF NetInv

LEMMA UpdateSourceKeeps ==
  ASSUME NetInv, NEW s \in Sources, updateSource(s)
  PROVE  NetInv'
<1>1. /\ TypeOK /\ BuiltType /\ LocksInv /\ OrderInv /\ HandlesInv
      /\ SeenInv /\ SourcesInv /\ DatabasesClosedOnce
  BY DEF NetInv
<1>2. pc \in [Goroutines -> Steps]
  BY <1>1 DEF TypeOK
<1>3. /\ Sources \subseteq Goroutines /\ "start" \in Goroutines /\ "geoip" \in Goroutines
      /\ "start" \notin Sources /\ "geoip" \notin Sources /\ "free" \notin Goroutines
  BY NamesDiffer
<1>4. /\ \A x \in Goroutines : pc'[x] = IF x # s THEN pc[x] ELSE IF networkSources[s] = fetched[s] THEN "rebuilt" ELSE "rebuild"
      /\ s \in Goroutines /\ s # "start" /\ s # "free" /\ pc'["start"] = pc["start"]
  BY <1>2, <1>3 DEF updateSource, GoTo
<1>5. /\ fetched \in [Sources -> SourceTables \cup {NoTable}]
      /\ networkSources \in [Sources -> SourceTables \cup {NoTable}]
      /\ remote[s] \in SourceTables
  BY <1>1 DEF TypeOK
<1>6. TypeOK' /\ BuiltType'
  <2>1. TypeOK'
    BY <1>1, <1>3 DEF updateSource, GoTo, fileVars, geoVars, walkVars, TypeOK, Steps
  <2>2. BuiltType'
    BY <1>1, <1>3 DEF updateSource, GoTo, fileVars, geoVars, walkVars, BuiltType
  <2> QED
    BY <2>1, <2>2
<1>7. LocksInv' /\ OrderInv'
  <2>1. LocksInv'
    BY <1>1, <1>2, <1>3 DEF updateSource, GoTo, fileVars, geoVars, walkVars, LocksInv,
       RebuildSteps, WalkSteps
  <2>2. OrderInv'
    BY <1>1, <1>2, <1>3 DEF updateSource, GoTo, fileVars, geoVars, walkVars, OrderInv,
       StartSteps, RebuildSteps, WalkSteps
  <2> QED
    BY <2>1, <2>2
<1>8. HandlesInv'
  BY <1>1, HandlesFrame DEF updateSource, fileVars, geoVars, walkVars
<1>9. SeenInv'
  <2>1. Published' = Published /\ UNCHANGED <<geoipUpdate, opening, merged, built, rebuildWanted, rebuildLock>>
    BY DEF updateSource, geoVars, walkVars, Published
  <2>2. pc'["geoip"] = pc["geoip"] /\ pc'["start"] = pc["start"]
    BY <1>3, <1>4
  <2>3. \A x \in Goroutines : pc'[x] \in RebuildSteps => pc'[x] = pc[x]
    BY <1>4 DEF RebuildSteps
  <2> QED
    BY <1>1, <2>1, <2>2, <2>3 DEF SeenInv, ToBeSeen, RebuildSteps
<1>10. SourcesInv'
  <2>1. \A x \in Sources : networkSources'[x] = IF x = s THEN fetched[s] ELSE networkSources[x]
    BY <1>5 DEF updateSource
  <2>2. UNCHANGED <<fetched, ready, timedOut, rebuildWanted, rebuildLock, built>> /\ pc[s] = "update"
    BY DEF updateSource
  <2>3. built.sources[s] = networkSources[s] /\ fetched[s] \in SourceTables
    BY <1>1, <1>4, <2>2 DEF SourcesInv, LocksInv, RebuildSteps
  <2> QED
    BY <1>1, <1>3, <1>4, <1>5, <2>1, <2>2, <2>3 DEF SourcesInv, RebuildSteps
<1>11. DatabasesClosedOnce'
  BY <1>1, <1>2, <1>3 DEF updateSource, GoTo, fileVars, geoVars, walkVars, DatabasesClosedOnce
<1> QED
  BY <1>6, <1>7, <1>8, <1>9, <1>10, <1>11 DEF NetInv

LEMMA SourceReadyKeeps ==
  ASSUME NetInv, NEW s \in Sources, SourceReady(s)
  PROVE  NetInv'
<1>1. /\ TypeOK /\ BuiltType /\ LocksInv /\ OrderInv /\ HandlesInv
      /\ SeenInv /\ SourcesInv /\ DatabasesClosedOnce
  BY DEF NetInv
<1>2. pc \in [Goroutines -> Steps]
  BY <1>1 DEF TypeOK
<1>3. /\ Sources \subseteq Goroutines /\ "start" \in Goroutines /\ "geoip" \in Goroutines
      /\ "start" \notin Sources /\ "geoip" \notin Sources /\ "free" \notin Goroutines
  BY NamesDiffer
<1>4. /\ \A x \in Goroutines : pc'[x] = IF x # s THEN pc[x] ELSE "fetch"
      /\ s \in Goroutines /\ s # "start" /\ s # "free" /\ pc'["start"] = pc["start"]
  BY <1>2, <1>3 DEF SourceReady, GoTo
<1>5. /\ fetched \in [Sources -> SourceTables \cup {NoTable}]
      /\ networkSources \in [Sources -> SourceTables \cup {NoTable}]
      /\ remote[s] \in SourceTables
  BY <1>1 DEF TypeOK
<1>6. TypeOK' /\ BuiltType'
  <2>1. TypeOK'
    BY <1>1, <1>3 DEF SourceReady, GoTo, fileVars, geoVars, walkVars, TypeOK, Steps
  <2>2. BuiltType'
    BY <1>1, <1>3 DEF SourceReady, GoTo, fileVars, geoVars, walkVars, BuiltType
  <2> QED
    BY <2>1, <2>2
<1>7. LocksInv' /\ OrderInv'
  <2>1. LocksInv'
    BY <1>1, <1>2, <1>3 DEF SourceReady, GoTo, fileVars, geoVars, walkVars, LocksInv,
       RebuildSteps, WalkSteps
  <2>2. OrderInv'
    BY <1>1, <1>2, <1>3 DEF SourceReady, GoTo, fileVars, geoVars, walkVars, OrderInv,
       StartSteps, RebuildSteps, WalkSteps
  <2> QED
    BY <2>1, <2>2
<1>8. HandlesInv'
  BY <1>1, HandlesFrame DEF SourceReady, fileVars, geoVars, walkVars
<1>9. SeenInv'
  <2>1. Published' = Published
    BY DEF SourceReady, fileVars, geoVars, walkVars, Published
  <2> QED
    BY <1>1, <1>2, <1>3, <2>1 DEF SourceReady, GoTo, fileVars, geoVars, walkVars, SeenInv,
       ToBeSeen, OrderInv, LocksInv, StartSteps, RebuildSteps, WalkSteps
<1>10. SourcesInv'
  <2>1. \A x \in Sources : fetched'[x] = IF x = s THEN NoTable ELSE fetched[x]
    BY <1>5 DEF SourceReady
  <2>2. /\ UNCHANGED <<networkSources, timedOut, rebuildWanted, rebuildLock, built>> /\ pc[s] = "rebuilt"
        /\ ready' = ready \cup {s}
    BY DEF SourceReady
  <2>3. built.sources[s] = networkSources[s] /\ networkSources[s] \in SourceTables
    BY <1>1, <1>4, <2>2 DEF SourcesInv, LocksInv, RebuildSteps
  <2>4. ready \subseteq Sources
    BY <1>1 DEF TypeOK
  <2> QED
    BY <1>1, <1>3, <1>4, <1>5, <2>1, <2>2, <2>3, <2>4 DEF SourcesInv, RebuildSteps
<1>11. DatabasesClosedOnce'
  BY <1>1, <1>2, <1>3 DEF SourceReady, GoTo, fileVars, geoVars, walkVars, DatabasesClosedOnce
<1> QED
  BY <1>6, <1>7, <1>8, <1>9, <1>10, <1>11 DEF NetInv

LEMMA ExitKeeps ==
  ASSUME NetInv, NEW g \in Goroutines, Exit(g)
  PROVE  NetInv'
<1>1. /\ TypeOK /\ BuiltType /\ LocksInv /\ OrderInv /\ HandlesInv
      /\ SeenInv /\ SourcesInv /\ DatabasesClosedOnce
  BY DEF NetInv
<1>2. pc \in [Goroutines -> Steps]
  BY <1>1 DEF TypeOK
<1>3. /\ Sources \subseteq Goroutines /\ "start" \in Goroutines /\ "geoip" \in Goroutines
      /\ "start" \notin Sources /\ "geoip" \notin Sources /\ "free" \notin Goroutines
  BY NamesDiffer
<1>4. TypeOK' /\ BuiltType'
  <2>1. TypeOK'
    BY <1>1, <1>3 DEF Exit, Dying, GoTo, fileVars, geoVars, walkVars, sourceVars, TypeOK, Steps
  <2>2. BuiltType'
    BY <1>1, <1>3 DEF Exit, Dying, GoTo, fileVars, geoVars, walkVars, sourceVars, BuiltType
  <2> QED
    BY <2>1, <2>2
<1>5. LocksInv' /\ OrderInv'
  <2>1. LocksInv'
    BY <1>1, <1>2, <1>3 DEF Exit, Dying, GoTo, fileVars, geoVars, walkVars, sourceVars,
       LocksInv, RebuildSteps, WalkSteps
  <2>2. OrderInv'
    BY <1>1, <1>2, <1>3 DEF Exit, Dying, GoTo, fileVars, geoVars, walkVars, sourceVars,
       OrderInv, StartSteps, RebuildSteps, WalkSteps
  <2> QED
    BY <2>1, <2>2
<1>6. HandlesInv'
  BY <1>1, HandlesFrame DEF Exit, Dying, fileVars, geoVars, walkVars, sourceVars
<1>7. SeenInv'
  <2>1. Published' = Published
    BY DEF Exit, Dying, fileVars, geoVars, walkVars, sourceVars, Published
  <2> QED
    BY <1>1, <1>2, <1>3, <2>1 DEF Exit, Dying, GoTo, fileVars, geoVars, walkVars, sourceVars,
       SeenInv, ToBeSeen, OrderInv, LocksInv, StartSteps, RebuildSteps, WalkSteps
<1>8. SourcesInv'
  BY <1>1, <1>2, <1>3 DEF Exit, Dying, GoTo, fileVars, geoVars, walkVars, sourceVars,
     SourcesInv, RebuildSteps, LocksInv
<1>9. DatabasesClosedOnce'
  BY <1>1, <1>2, <1>3 DEF Exit, Dying, GoTo, fileVars, geoVars, walkVars, sourceVars,
     DatabasesClosedOnce
<1> QED
  BY <1>4, <1>5, <1>6, <1>7, <1>8, <1>9 DEF NetInv

LEMMA NetworksStart == Init => NetInv
<1> SUFFICES ASSUME Init PROVE NetInv
  OBVIOUS
<1>1. TypeOK /\ BuiltType
  <2>1. file \in [Databases -> FileTables \cup {Broken}] /\ remote \in [Sources -> SourceTables]
    BY DEF Init
  <2>2. /\ content = <<>> /\ closes = <<>> /\ content \in Seq(FileTables)
        /\ DOMAIN content = {} /\ Len(content) = 0
        /\ closes \in [DOMAIN content -> Nat]
    BY DEF Init
  <2>3. databases \in [Databases -> 0..Len(content)]
    BY <2>2 DEF Init
  <2>4. pc \in [Goroutines -> Steps]
    BY DEF Init, Steps
  <2>5. /\ merged \in [Databases -> FileTables \cup {NoTable}]
        /\ networkSources \in [Sources -> SourceTables \cup {NoTable}]
        /\ fetched \in [Sources -> SourceTables \cup {NoTable}]
        /\ built = [databases |-> merged, sources |-> networkSources]
    BY DEF Init
  <2>6. BuiltType
    BY <2>5 DEF BuiltType
  <2>7. /\ opening = NotOpening /\ changes \in 0..MaxChanges /\ ready = {} /\ toOpen = Databases
        /\ watcher = "none" /\ iterLock = "free" /\ rebuildLock = "free"
        /\ closing = {} /\ walking = {} /\ fileEvents = {} /\ missed = {}
        /\ geoipUpdate = FALSE /\ rebuildWanted = FALSE /\ timedOut = FALSE
    BY NetworksAssumption DEF Init
  <2> QED
    BY <2>1, <2>2, <2>3, <2>4, <2>5, <2>6, <2>7 DEF TypeOK
<1>2. LocksInv
  BY NamesDiffer DEF Init, LocksInv, WalkSteps, RebuildSteps
<1>3. OrderInv
  BY NamesDiffer DEF Init, OrderInv, StartSteps, RebuildSteps
<1>4. HandlesInv
  BY DEF Init, HandlesInv, NotOpening
<1>5. SeenInv
  BY NamesDiffer DEF Init, SeenInv, ToBeSeen
<1>6. SourcesInv
  BY NamesDiffer DEF Init, SourcesInv, RebuildSteps
<1>7. DatabasesClosedOnce
  BY NamesDiffer DEF Init, DatabasesClosedOnce
<1> QED
  BY <1>1, <1>2, <1>3, <1>4, <1>5, <1>6, <1>7 DEF NetInv

LEMMA NetworksSteps == NetInv /\ [Next]_vars => NetInv'
<1> SUFFICES ASSUME NetInv, [Next]_vars PROVE NetInv'
  OBVIOUS
<1>1. CASE UNCHANGED vars
  <2> USE <1>1 DEF vars, fileVars, geoVars, walkVars, sourceVars
  <2>1. TypeOK' /\ BuiltType'
    BY DEF NetInv, TypeOK, BuiltType
  <2>2. LocksInv' /\ OrderInv'
    BY DEF NetInv, LocksInv, OrderInv
  <2>3. HandlesInv' /\ DatabasesClosedOnce'
    BY DEF NetInv, HandlesInv, DatabasesClosedOnce
  <2>4. SeenInv'
    BY DEF NetInv, SeenInv, ToBeSeen, Published
  <2>5. SourcesInv'
    BY DEF NetInv, SourcesInv
  <2> QED
    BY <2>1, <2>2, <2>3, <2>4, <2>5 DEF NetInv
<1>2. ASSUME NEW d \in Databases, ChangeFile(d) \/ WatcherEvent(d) \/ StartOpen(d) PROVE NetInv'
  BY <1>2, ChangeFileKeeps, WatcherEventKeeps, StartOpenKeeps
<1>3. ASSUME NEW s \in Sources, ChangeRemote(s) \/ SourceStep(s) PROVE NetInv'
  BY <1>3, ChangeRemoteKeeps, FetchKeeps, UpdateSourceKeeps, SourceReadyKeeps DEF SourceStep
<1>4. ASSUME NEW g \in Goroutines, GoroutineStep(g) PROVE NetInv'
  BY <1>4, WantKeeps, LockKeeps, IterASNDatabasesKeeps, IterGeoDatabasesKeeps, WalkedKeeps,
     PublishKeeps, ExitKeeps DEF GoroutineStep, rebuild
<1>5. ASSUME NEW h \in closing, CloseOld(h) PROVE NetInv'
  BY <1>5, CloseOldKeeps
<1>6. CASE OpenStep
  BY <1>6, StoreDatabaseKeeps, NotifyKeeps DEF OpenStep
<1>7. CASE StartStep
  BY <1>2, <1>7, StartWatcherKeeps, DrainKeeps, StartGoroutinesKeeps, StartedKeeps,
     NetworksStoppedKeeps, GeoIPStoppedKeeps DEF StartStep
<1>8. CASE GeoIPUpdate \/ WatcherExit \/ StopNetworks
  BY <1>8, GeoIPUpdateKeeps, WatcherExitKeeps, StopNetworksKeeps
<1>9. CASE Stopped
  BY <1>1, <1>9 DEF Stopped
<1> QED
  BY <1>1, <1>2, <1>3, <1>4, <1>5, <1>6, <1>7, <1>8, <1>9 DEF Next

(* What is promised follows: without a notification, no change is still to *)
(* be seen.                                                                *)
LEMMA NetworksAsWanted == NetInv => NetworksRight
<1> SUFFICES ASSUME NetInv PROVE NetworksRight
  OBVIOUS
<1>1. TypeOK /\ BuiltType /\ LocksInv /\ OrderInv /\ SeenInv /\ SourcesInv /\ DatabasesClosedOnce
  BY DEF NetInv
<1>2. SourcesBuilt
  BY <1>1, NamesDiffer DEF SourcesBuilt, SourcesInv, LocksInv, RebuildSteps
<1>3. StartedWithSources
  BY <1>1, NetworksAssumption DEF StartedWithSources, SourcesInv
<1>4. DatabasesBuilt
  <2> SUFFICES ASSUME pc["geoip"] = "wait", ~ geoipUpdate, opening.step # "notify"
               PROVE  built.databases = Published
    BY DEF DatabasesBuilt
  <2>1. pc["start"] \notin StartSteps /\ pc["start"] # "stopped"
    <3>1. "geoip" \in Goroutines \ {"start"}
      BY NamesDiffer
    <3> QED
      BY <1>1, <3>1 DEF OrderInv
  <2>2. ~ ToBeSeen
    BY <2>1 DEF ToBeSeen, StartSteps
  <2> QED
    BY <1>1, <2>2 DEF SeenInv
<1> QED
  BY <1>1, <1>2, <1>3, <1>4 DEF NetworksRight

(* rebuild, GeoIP and the remote sources: for all databases, sources,      *)
(* contents and changes, no database is closed while it is walked, nor     *)
(* twice, none is left open, and each rebuild that is skipped is one that  *)
(* somebody else has done, or will do, with what it was wanted for.        *)
THEOREM NetworksAreRight == Spec => []NetworksRight
  BY NetworksStart, NetworksSteps, NetworksAsWanted, PTL DEF Spec

-----------------------------------------------------------------------------
(* The tree of the networks: merging the tables, then flattening the tree. *)

(* A set of numbers has a least one.                                       *)
LEMMA Least ==
  ASSUME NEW S \in SUBSET Nat, S # {}
  PROVE  \E m \in S : \A k \in S : m <= k
<1>1. PICK m \in S : \A k \in S : ~ (<<k, m>> \in OpToRel(<, Nat))
  BY NatLessThanWellFounded, WFMin
<1>2. ASSUME NEW k \in S PROVE m <= k
  <2>1. m \in Nat /\ k \in Nat
    OBVIOUS
  <2>2. ~ (k < m)
    BY <1>1, <2>1 DEF OpToRel
  <2>. QED  BY <2>1, <2>2
<1>. QED  BY <1>2

(* What holds of 0, and of a number when it does of the one before.        *)
LEMMA UpTo ==
  ASSUME NEW n \in Nat, NEW S, 0 \in S, \A i \in 1..n : i - 1 \in S => i \in S
  PROVE  \A i \in 0..n : i \in S
<1> DEFINE Bad == {i \in 0..n : i \notin S}
<1>1. SUFFICES ASSUME Bad # {} PROVE FALSE
  OBVIOUS
<1>2. Bad \in SUBSET Nat
  OBVIOUS
<1>3. PICK m \in Bad : \A k \in Bad : m <= k
  <2> HIDE DEF Bad
  <2>. QED  BY <1>1, <1>2, Least
<1>4. m \in 1..n /\ m \notin S /\ m - 1 \in 0..n /\ ~ (m <= m - 1)
  OBVIOUS
<1>5. m - 1 \in S
  BY <1>3, <1>4
<1>. QED  BY <1>4, <1>5

-----------------------------------------------------------------------------
(* Prefixes, and the order they are walked in.                             *)
(* The bits of p up to n are those of q.                                   *)
SameBits(p, q, n) == \A i \in 1..n : p[i] = q[i]

LEMMA PrefixIs ==
  ASSUME NEW p \in CIDRs, NEW q \in CIDRs
  PROVE  IsPrefix(p, q) <=> Len(p) <= Len(q) /\ SameBits(p, q, Len(p))
<1>1. Len(p) \in Nat /\ Len(q) \in Nat
  BY DEF CIDRs
<1>2. SubSeq(p, 1, Len(p)) = [i \in 1..Len(p) |-> p[i]]
  BY <1>1, SubSeqProperties DEF CIDRs
<1>3. ASSUME Len(p) <= Len(q) PROVE SubSeq(q, 1, Len(p)) = [i \in 1..Len(p) |-> q[i]]
  BY <1>1, <1>3, SubSeqProperties DEF CIDRs
<1>. QED  BY <1>1, <1>2, <1>3 DEF IsPrefix, SameBits

LEMMA SamePrefix ==
  ASSUME NEW p \in CIDRs, NEW q \in CIDRs, Len(p) = Len(q), SameBits(p, q, Len(p))
  PROVE  p = q
  BY SeqEqual DEF CIDRs, SameBits

(* Where two prefixes differ first.                                        *)
Splits(p, q, i) == i \in 1..Len(p) /\ i \in 1..Len(q) /\ p[i] # q[i] /\ SameBits(p, q, i - 1)

LEMMA BitsDiffer ==
  ASSUME NEW p \in CIDRs, NEW q \in CIDRs, ~ IsPrefix(p, q), ~ IsPrefix(q, p)
  PROVE  \E i : Splits(p, q, i)
<1> DEFINE D == {i \in 1..Len(p) : i <= Len(q) /\ p[i] # q[i]}
<1>1. Len(p) \in Nat /\ Len(q) \in Nat
  BY DEF CIDRs
<1>2. D # {}
  BY <1>1, PrefixIs DEF SameBits
<1>3. D \in SUBSET Nat
  BY <1>1
<1>4. PICK i \in D : \A k \in D : i <= k
  <2> HIDE DEF D
  <2>. QED  BY <1>2, <1>3, Least
<1>5. i \in 1..Len(p) /\ i \in 1..Len(q) /\ p[i] # q[i]
  BY <1>1
<1>6. ASSUME NEW j \in 1..(i - 1) PROVE p[j] = q[j]
  <2>1. j \notin D
    <3>1. j \in Int /\ i \in Int /\ ~ (i <= j)
      BY <1>1
    <3> HIDE DEF D
    <3>. QED  BY <1>4, <3>1
  <2>2. j \in 1..Len(p) /\ j <= Len(q)
    BY <1>1, <1>5
  <2>. QED  BY <2>1, <2>2
<1>. QED  BY <1>5, <1>6 DEF Splits, SameBits

LEMMA BeforeIs ==
  ASSUME NEW p \in CIDRs, NEW q \in CIDRs
  PROVE  CIDRBefore(p, q) <=> \/ IsPrefix(p, q) /\ p # q
                              \/ \E i : Splits(p, q, i) /\ p[i] < q[i]
<1>1. DOMAIN p = 1..Len(p) /\ DOMAIN q = 1..Len(q)
  BY DEF CIDRs
<1>2. \A i \in 1..Len(p) : i \in 1..Len(q) /\ p[i] < q[i] => p[i] # q[i]
  BY DEF CIDRs
<1>. QED  BY <1>1, <1>2 DEF CIDRBefore, IsStrictPrefix, Splits, SameBits

LEMMA BeforeTotal ==
  ASSUME NEW p \in CIDRs, NEW q \in CIDRs, p # q
  PROVE  CIDRBefore(p, q) \/ CIDRBefore(q, p)
<1>1. CASE IsPrefix(p, q) \/ IsPrefix(q, p)
  BY <1>1, BeforeIs
<1>2. CASE ~ IsPrefix(p, q) /\ ~ IsPrefix(q, p)
  <2>1. PICK i : Splits(p, q, i)
    BY <1>2, BitsDiffer
  <2>2. p[i] < q[i] \/ q[i] < p[i]
    <3>1. p[i] \in {0, 1} /\ q[i] \in {0, 1}
      BY <2>1 DEF Splits, CIDRs
    <3>. QED  BY <2>1, <3>1 DEF Splits
  <2>3. Splits(q, p, i)
    BY <2>1 DEF Splits, SameBits
  <2>. QED  BY <2>1, <2>2, <2>3, BeforeIs
<1>. QED  BY <1>1, <1>2

(* Prefixes of the same one are prefixes of each other.                    *)
LEMMA PrefixesNest ==
  ASSUME NEW p \in CIDRs, NEW q \in CIDRs, NEW r \in CIDRs,
         IsPrefix(p, r), IsPrefix(q, r), Len(p) <= Len(q)
  PROVE  IsPrefix(p, q)
<1>1. Len(p) \in Nat /\ Len(q) \in Nat
  BY DEF CIDRs
<1>2. SameBits(p, r, Len(p)) /\ SameBits(q, r, Len(q))
  BY PrefixIs
<1>3. SameBits(p, q, Len(p))
  BY <1>1, <1>2 DEF SameBits
<1>. QED  BY <1>3, PrefixIs

LEMMA PrefixTrans ==
  ASSUME NEW p \in CIDRs, NEW q \in CIDRs, NEW r \in CIDRs, IsPrefix(p, q), IsPrefix(q, r)
  PROVE  IsPrefix(p, r)
<1>1. Len(p) \in Nat /\ Len(q) \in Nat /\ Len(r) \in Nat
  BY DEF CIDRs
<1>2. SameBits(p, q, Len(p)) /\ SameBits(q, r, Len(q)) /\ Len(p) <= Len(q) /\ Len(q) <= Len(r)
  BY PrefixIs
<1>3. SameBits(p, r, Len(p)) /\ Len(p) <= Len(r)
  BY <1>1, <1>2 DEF SameBits
<1>. QED  BY <1>3, PrefixIs

LEMMA PrefixSelf == \A p \in CIDRs : IsPrefix(p, p)
  BY PrefixIs DEF SameBits, CIDRs

LEMMA PrefixLonger ==
  ASSUME NEW p \in CIDRs, NEW q \in CIDRs, IsPrefix(p, q), p # q
  PROVE  Len(p) < Len(q)
<1>1. Len(p) \in Nat /\ Len(q) \in Nat
  BY DEF CIDRs
<1>. QED  BY <1>1, PrefixIs, SamePrefix

(* A prefix and another do not split at two places.                        *)
LEMMA SplitsOnce ==
  ASSUME NEW p \in CIDRs, NEW q \in CIDRs, NEW i, NEW j, Splits(p, q, i), Splits(q, p, j)
  PROVE  i = j
<1>1. i \in Nat /\ j \in Nat /\ i >= 1 /\ j >= 1
  BY DEF Splits, CIDRs
<1>2. ASSUME i < j PROVE FALSE
  <2>1. i \in 1..(j - 1)
    BY <1>1, <1>2
  <2>. QED  BY <2>1 DEF Splits, SameBits
<1>3. ASSUME j < i PROVE FALSE
  <2>1. j \in 1..(i - 1)
    BY <1>1, <1>3
  <2>. QED  BY <2>1 DEF Splits, SameBits
<1>. QED  BY <1>1, <1>2, <1>3

LEMMA SplitNotPrefix ==
  ASSUME NEW p \in CIDRs, NEW q \in CIDRs, NEW i, Splits(p, q, i)
  PROVE  ~ IsPrefix(p, q) /\ ~ IsPrefix(q, p)
  BY PrefixIs DEF Splits, SameBits

LEMMA BeforeNotAfter ==
  ASSUME NEW p \in CIDRs, NEW q \in CIDRs, CIDRBefore(p, q)
  PROVE  ~ CIDRBefore(q, p)
<1>1. CASE IsPrefix(p, q) /\ p # q
  <2>1. ~ IsPrefix(q, p)
    <3>1. Len(p) < Len(q) /\ Len(p) \in Nat /\ Len(q) \in Nat
      BY <1>1, PrefixLonger DEF CIDRs
    <3>. QED  BY <3>1, PrefixIs
  <2>2. \A i : ~ Splits(q, p, i)
    BY <1>1, SplitNotPrefix
  <2>. QED  BY <2>1, <2>2, BeforeIs
<1>2. CASE \E i : Splits(p, q, i) /\ p[i] < q[i]
  <2>1. PICK i : Splits(p, q, i) /\ p[i] < q[i]
    BY <1>2
  <2>2. ~ IsPrefix(q, p)
    BY <2>1, SplitNotPrefix
  <2>3. ASSUME NEW j, Splits(q, p, j), q[j] < p[j] PROVE FALSE
    <3>1. i = j
      BY <2>1, <2>3, SplitsOnce
    <3>2. p[i] \in {0, 1} /\ q[i] \in {0, 1}
      BY <2>1 DEF Splits, CIDRs
    <3>. QED  BY <2>1, <2>3, <3>1, <3>2
  <2>. QED  BY <2>2, <2>3, BeforeIs
<1>. QED  BY <1>1, <1>2, BeforeIs

(* The networks that are walked between a prefix and another that it       *)
(* contains are contained in it too.                                       *)
LEMMA BeforeBetween ==
  ASSUME NEW m \in CIDRs, NEW y \in CIDRs, NEW x \in CIDRs,
         IsPrefix(m, x), CIDRBefore(m, y), CIDRBefore(y, x)
  PROVE  IsPrefix(m, y)
<1>1. SUFFICES ASSUME ~ IsPrefix(m, y) PROVE FALSE
  OBVIOUS
<1>2. PICK i : Splits(m, y, i) /\ m[i] < y[i]
  BY <1>1, BeforeIs
<1>3. Len(m) \in Nat /\ Len(x) \in Nat /\ Len(y) \in Nat /\ Len(m) <= Len(x) /\ SameBits(m, x, Len(m))
  BY PrefixIs DEF CIDRs
<1>4. i \in 1..Len(m) /\ i \in 1..Len(y) /\ SameBits(m, y, i - 1)
  BY <1>2 DEF Splits
<1>5. x[i] = m[i] /\ i \in 1..Len(x)
  BY <1>3, <1>4 DEF SameBits
<1>6. SameBits(x, y, i - 1)
  <2>1. \A j \in 1..(i - 1) : j \in 1..Len(m)
    BY <1>3, <1>4
  <2>. QED  BY <1>3, <1>4, <2>1 DEF SameBits
<1>7. x[i] < y[i] /\ Splits(x, y, i)
  BY <1>2, <1>4, <1>5, <1>6 DEF Splits
<1>8. CIDRBefore(x, y)
  BY <1>7, BeforeIs
<1>. QED  BY <1>8, BeforeNotAfter

LEMMA BeforeTrans ==
  ASSUME NEW p \in CIDRs, NEW q \in CIDRs, NEW r \in CIDRs, CIDRBefore(p, q), CIDRBefore(q, r)
  PROVE  CIDRBefore(p, r)
<1>1. p # r
  BY BeforeNotAfter
<1>2. SUFFICES ASSUME CIDRBefore(r, p) PROVE FALSE
  BY <1>1, BeforeTotal
<1>3. CASE IsPrefix(p, q)
  <2>1. CASE IsPrefix(q, r)
    <3>1. IsPrefix(p, r)
      BY <1>3, <2>1, PrefixTrans
    <3>2. CIDRBefore(p, r)
      BY <1>1, <3>1, BeforeIs
    <3>. QED  BY <1>2, <3>2, BeforeNotAfter
  <2>2. CASE ~ IsPrefix(q, r)
    <3>1. PICK i : Splits(q, r, i) /\ q[i] < r[i]
      BY <2>2, BeforeIs
    <3>2. /\ Len(p) \in Nat /\ Len(q) \in Nat /\ Len(r) \in Nat
          /\ Len(p) <= Len(q) /\ SameBits(p, q, Len(p))
      BY <1>3, PrefixIs DEF CIDRs
    <3>3. i \in 1..Len(q) /\ i \in 1..Len(r) /\ q[i] # r[i] /\ SameBits(q, r, i - 1)
      BY <3>1 DEF Splits
    <3>4. CASE i <= Len(p)
      <4>1. i \in 1..Len(p) /\ p[i] = q[i]
        BY <3>2, <3>3, <3>4 DEF SameBits
      <4>2. SameBits(p, r, i - 1)
        <5>1. \A j \in 1..(i - 1) : j \in 1..Len(p)
          BY <3>2, <3>3, <3>4
        <5>. QED  BY <3>2, <3>3, <5>1 DEF SameBits
      <4>3. Splits(p, r, i) /\ p[i] < r[i]
        BY <3>1, <3>3, <4>1, <4>2 DEF Splits
      <4>4. CIDRBefore(p, r)
        BY <4>3, BeforeIs
      <4>. QED  BY <1>2, <4>4, BeforeNotAfter
    <3>5. CASE ~ (i <= Len(p))
      <4>1. Len(p) <= Len(r) /\ SameBits(p, r, Len(p))
        <5>1. \A j \in 1..Len(p) : j \in 1..(i - 1)
          BY <3>2, <3>3, <3>5
        <5>2. Len(p) <= Len(r)
          BY <3>2, <3>3, <3>5
        <5>. QED  BY <3>2, <3>3, <5>1, <5>2 DEF SameBits
      <4>2. IsPrefix(p, r)
        BY <4>1, PrefixIs
      <4>3. CIDRBefore(p, r)
        BY <1>1, <4>2, BeforeIs
      <4>. QED  BY <1>2, <4>3, BeforeNotAfter
    <3>. QED  BY <3>4, <3>5
  <2>. QED  BY <2>1, <2>2
<1>4. CASE ~ IsPrefix(p, q)
  <2>1. PICK i : Splits(p, q, i) /\ p[i] < q[i]
    BY <1>4, BeforeIs
  <2>2. i \in 1..Len(p) /\ i \in 1..Len(q) /\ SameBits(p, q, i - 1)
    BY <2>1 DEF Splits
  <2>3. Len(p) \in Nat /\ Len(q) \in Nat /\ Len(r) \in Nat
    BY DEF CIDRs
  <2>4. CASE IsPrefix(r, p)
    <3>1. Len(r) <= Len(p) /\ SameBits(r, p, Len(r))
      BY <2>4, PrefixIs
    <3>2. CASE i <= Len(r)
      <4>1. i \in 1..Len(r) /\ r[i] = p[i]
        BY <2>2, <2>3, <3>1, <3>2 DEF SameBits
      <4>2. SameBits(r, q, i - 1)
        <5>1. \A k \in 1..(i - 1) : k \in 1..Len(r)
          BY <2>2, <2>3, <3>2
        <5>. QED  BY <2>2, <3>1, <5>1 DEF SameBits
      <4>3. Splits(r, q, i) /\ r[i] < q[i]
        BY <2>1, <2>2, <4>1, <4>2 DEF Splits
      <4>4. CIDRBefore(r, q)
        BY <4>3, BeforeIs
      <4>. QED  BY <4>4, BeforeNotAfter
    <3>3. CASE ~ (i <= Len(r))
      <4>1. \A k \in 1..Len(r) : k \in 1..(i - 1)
        BY <2>2, <2>3, <3>3
      <4>2. Len(r) <= Len(q) /\ SameBits(r, q, Len(r))
        BY <2>2, <2>3, <3>1, <3>3, <4>1 DEF SameBits
      <4>3. IsPrefix(r, q)
        BY <4>2, PrefixIs
      <4>4. CIDRBefore(r, q) \/ r = q
        BY <4>3, BeforeIs
      <4>. QED  BY <4>4, BeforeNotAfter
    <3>. QED  BY <3>2, <3>3
  <2>5. CASE ~ IsPrefix(r, p)
    <3>1. PICK j : Splits(r, p, j) /\ r[j] < p[j]
      BY <1>2, <2>5, BeforeIs
    <3>2. j \in 1..Len(r) /\ j \in 1..Len(p) /\ SameBits(r, p, j - 1)
      BY <3>1 DEF Splits
    <3>3. CASE j <= i
      <4>1. j \in 1..Len(q)
        BY <2>2, <2>3, <3>2, <3>3
      <4>2. p[j] = q[j] \/ j = i
        BY <2>2, <2>3, <3>2, <3>3 DEF SameBits
      <4>3. r[j] < q[j]
        <5>1. r[j] \in {0, 1} /\ p[j] \in {0, 1} /\ q[j] \in {0, 1}
          BY <3>2, <4>1 DEF CIDRs
        <5>. QED  BY <2>1, <3>1, <4>2, <5>1
      <4>4. SameBits(r, q, j - 1)
        <5>1. \A k \in 1..(j - 1) : k \in 1..(i - 1)
          BY <2>2, <2>3, <3>2, <3>3
        <5>. QED  BY <2>2, <3>2, <5>1 DEF SameBits
      <4>5. Splits(r, q, j)
        <5>1. r[j] \in {0, 1} /\ q[j] \in {0, 1}
          BY <3>2, <4>1 DEF CIDRs
        <5>2. r[j] # q[j]
          BY <4>3, <5>1
        <5>. QED  BY <3>2, <4>1, <4>4, <5>2 DEF Splits
      <4>6. CIDRBefore(r, q)
        BY <4>3, <4>5, BeforeIs
      <4>. QED  BY <4>6, BeforeNotAfter
    <3>4. CASE ~ (j <= i)
      <4>1. i \in 1..Len(r) /\ i \in 1..(j - 1)
        BY <2>2, <2>3, <3>2, <3>4
      <4>2. r[i] = p[i] /\ r[i] < q[i]
        BY <2>1, <3>2, <4>1 DEF SameBits
      <4>3. SameBits(r, q, i - 1)
        <5>1. \A k \in 1..(i - 1) : k \in 1..(j - 1)
          BY <2>2, <2>3, <3>2, <3>4
        <5>. QED  BY <2>2, <3>2, <5>1 DEF SameBits
      <4>4. Splits(r, q, i)
        BY <2>1, <2>2, <4>1, <4>2, <4>3 DEF Splits
      <4>5. CIDRBefore(r, q)
        BY <4>2, <4>4, BeforeIs
      <4>. QED  BY <4>5, BeforeNotAfter
    <3>. QED  BY <3>3, <3>4
  <2>. QED  BY <2>4, <2>5
<1>. QED  BY <1>3, <1>4

-----------------------------------------------------------------------------
IsLast(n, S) == n \in S /\ \A m \in S \ {n} : CIDRBefore(m.prefix, n.prefix)

LEMMA SubTable ==
  ASSUME NEW S, IsTable(S), NEW T \in SUBSET S
  PROVE  IsTable(T) /\ Cardinality(T) \in Nat
  BY FS_Subset, FS_CardinalityType DEF IsTable

(* Of n and x, which are both the last of the others, one is the last.     *)
LEMMA LastOfTwo ==
  ASSUME NEW T, IsTable(T), NEW x \in T, NEW n, IsLast(n, T \ {x})
  PROVE  \E l : IsLast(l, T)
<1>1. /\ n \in T /\ n # x /\ n.prefix \in CIDRs /\ x.prefix \in CIDRs /\ n.prefix # x.prefix
      /\ \A m \in T : m.prefix \in CIDRs
      /\ \A m \in T : m # x /\ m # n => CIDRBefore(m.prefix, n.prefix)
  BY DEF IsLast, IsTable
<1>2. CASE CIDRBefore(n.prefix, x.prefix)
  <2>1. ASSUME NEW m \in T \ {x} PROVE CIDRBefore(m.prefix, x.prefix)
    <3>1. CASE m = n
      BY <1>2, <3>1
    <3>2. CASE m # n
      BY <1>1, <1>2, <3>2, BeforeTrans
    <3>. QED  BY <3>1, <3>2
  <2>. QED  BY <2>1 DEF IsLast
<1>3. CASE CIDRBefore(x.prefix, n.prefix)
  BY <1>1, <1>3 DEF IsLast
<1>. QED  BY <1>1, <1>2, <1>3, BeforeTotal

LEMMA SomeLast ==
  ASSUME NEW S, IsTable(S), S # {}
  PROVE  \E n : IsLast(n, S)
<1> DEFINE c == Cardinality(S)
           K == {i \in Nat : \A T \in SUBSET S : T # {} /\ Cardinality(T) = i => \E n : IsLast(n, T)}
<1>1. c \in Nat
  BY FS_CardinalityType DEF IsTable
<1>2. 0 \in K
  <2>1. ASSUME NEW T \in SUBSET S, Cardinality(T) = 0 PROVE T = {}
    BY <2>1, SubTable, FS_EmptySet DEF IsTable
  <2>. QED  BY <2>1
<1>3. ASSUME NEW i \in 1..c, i - 1 \in K PROVE i \in K
  <2>1. ASSUME NEW T \in SUBSET S, T # {}, Cardinality(T) = i PROVE \E n : IsLast(n, T)
    <3>1. PICK x : x \in T
      BY <2>1
    <3>2. IsTable(T)
      BY SubTable
    <3>3. Cardinality(T \ {x}) = i - 1 /\ T \ {x} \in SUBSET S
      BY <1>1, <2>1, <3>1, <3>2, FS_RemoveElement DEF IsTable
    <3>4. CASE T \ {x} = {}
      BY <3>1, <3>4 DEF IsLast
    <3>5. CASE T \ {x} # {}
      <4>1. PICK n : IsLast(n, T \ {x})
        BY <1>3, <3>3, <3>5
      <4>. QED  BY <3>1, <3>2, <4>1, LastOfTwo
    <3>. QED  BY <3>4, <3>5
  <2>. QED  BY <2>1
<1> HIDE DEF K
<1>4. c \in K
  <2>1. c \in 0..c
    BY <1>1
  <2> HIDE DEF c
  <2>. QED  BY <1>1, <1>2, <1>3, <2>1, UpTo
<1>. QED  BY <1>4 DEF K

LEMMA LastWalkedIs ==
  ASSUME NEW S, IsTable(S), S # {}
  PROVE  IsLast(LastWalked(S), S)
<1>1. PICK n : IsLast(n, S)
  BY SomeLast
<1>. QED  BY <1>1 DEF IsLast, LastWalked

-----------------------------------------------------------------------------
(* What Flatten does, network after network.                               *)
NoWalk == [ancestors |-> <<>>, tree |-> {}]

WalksIn(walk, M) ==
  /\ walk[{}] = NoWalk
  /\ \A S \in SUBSET M :
       S # {} => walk[S] = FlattenOne(walk[S \ {LastWalked(S)}], LastWalked(S))

LEMMA FlattenSteps ==
  ASSUME NEW M, IsTable(M)
  PROVE  \E walk : Flatten(M) = walk[M].tree /\ WalksIn(walk, M)
<1> DEFINE c == Cardinality(M)
           Of(m) == {S \in SUBSET M : Cardinality(S) <= m}
           Step(g, S) == IF S = {} THEN [ancestors |-> <<>>, tree |-> {}]
                         ELSE FlattenOne(g[S \ {LastWalked(S)}], LastWalked(S))
           Def(D, g) == [S \in D |-> Step(g, S)]
           walk == CHOOSE g : g = Def(SUBSET M, g)
           K == {m \in Nat : \E g : g = Def(Of(m), g)}
<1>1. c \in Nat /\ \A S \in SUBSET M : Cardinality(S) \in Nat /\ Cardinality(S) <= c
  BY FS_CardinalityType, FS_Subset DEF IsTable
<1>2. ASSUME NEW S \in SUBSET M, S # {}
      PROVE  /\ S \ {LastWalked(S)} \in SUBSET M
             /\ Cardinality(S \ {LastWalked(S)}) = Cardinality(S) - 1
  BY <1>2, SubTable, LastWalkedIs, FS_RemoveElement DEF IsTable, IsLast
<1>3. 0 \in K
  <2>1. ASSUME NEW S \in Of(0) PROVE S = {}
    BY <1>1, SubTable, FS_EmptySet DEF IsTable
  <2> DEFINE g == [S \in Of(0) |-> [ancestors |-> <<>>, tree |-> {}]]
  <2> HIDE DEF Of
  <2>2. g = Def(Of(0), g)
    BY <2>1
  <2> HIDE DEF g, Def
  <2>. QED  BY <2>2
<1>4. ASSUME NEW m \in 1..c, m - 1 \in K PROVE m \in K
  <2>1. PICK h : h = Def(Of(m - 1), h)
    <3> HIDE DEF Def
    <3>. QED  BY <1>4
  <2>2. \A S \in Of(m - 1) : h[S] = Step(h, S)
    <3> HIDE DEF Step, Of
    <3>. QED  BY <2>1
  <2> DEFINE g == [S \in Of(m) |-> Step(h, S)]
  <2>3. m \in Nat /\ \A S \in Of(m - 1) : S \in Of(m)
    BY <1>1
  <2>4. ASSUME NEW S \in Of(m), S # {} PROVE S \ {LastWalked(S)} \in Of(m - 1) /\ S \in SUBSET M
    BY <1>1, <1>2, <2>4
  <2>5. \A S \in Of(m - 1) : g[S] = h[S]
    <3> HIDE DEF Step, Of
    <3>. QED  BY <2>2, <2>3
  <2>6. ASSUME NEW S \in Of(m) PROVE g[S] = Step(g, S)
    <3>1. g[S] = Step(h, S)
      <4> HIDE DEF Step, Of
      <4>. QED  OBVIOUS
    <3>2. CASE S = {}
      BY <3>1, <3>2
    <3>3. CASE S # {}
      <4>1. g[S \ {LastWalked(S)}] = h[S \ {LastWalked(S)}]
        <5> HIDE DEF g, Of
        <5>. QED  BY <2>4, <2>5, <3>3
      <4> HIDE DEF g, Of
      <4>. QED  BY <3>1, <3>3, <4>1
    <3>. QED  BY <3>2, <3>3
  <2>7. g = [S \in Of(m) |-> g[S]]
    <3> HIDE DEF Step, Of
    <3>. QED  OBVIOUS
  <2>8. g = Def(Of(m), g)
    <3> HIDE DEF Step, Of, g
    <3>. QED  BY <2>6, <2>7
  <2> HIDE DEF Def, g
  <2>. QED  BY <2>3, <2>8
<1>5. Of(c) = SUBSET M
  BY <1>1
<1>6. c \in K
  <2>1. c \in 0..c
    BY <1>1
  <2> HIDE DEF c, K
  <2>. QED  BY <1>1, <1>3, <1>4, <2>1, UpTo
<1>7. walk = Def(SUBSET M, walk)
  <2> HIDE DEF Def, Of, c
  <2>. QED  BY <1>5, <1>6
<1>8. Flatten(M) = walk[M].tree
  BY DEF Flatten
<1> HIDE DEF walk
<1>9. \A S \in SUBSET M : walk[S] = Step(walk, S)
  <2> HIDE DEF Step
  <2>. QED  BY <1>7
<1>10. WalksIn(walk, M)
  BY <1>9 DEF WalksIn, NoWalk
<1>. QED  BY <1>8, <1>10

(* A set of numbers that are not above n has a greatest one.               *)
LEMMA Greatest ==
  ASSUME NEW n \in Nat, NEW S \in SUBSET 0..n, S # {}
  PROVE  \E m \in S : \A k \in S : k <= m
<1> DEFINE D == {i \in 0..n : n - i \in S}
<1>1. D \in SUBSET Nat
  OBVIOUS
<1>2. D # {}
  <2>1. PICK k \in S : TRUE
    OBVIOUS
  <2>2. n - (n - k) = k /\ n - k \in 0..n
    OBVIOUS
  <2>. QED  BY <2>1, <2>2
<1>3. PICK i \in D : \A k \in D : i <= k
  <2> HIDE DEF D
  <2>. QED  BY <1>1, <1>2, Least
<1>4. n - i \in S /\ i \in 0..n
  OBVIOUS
<1>5. ASSUME NEW k \in S PROVE k <= n - i
  <2>1. k \in 0..n /\ n - k \in 0..n /\ n - (n - k) = k
    OBVIOUS
  <2>2. n - k \in D
    BY <2>1
  <2>3. i <= n - k
    <3> HIDE DEF D
    <3>. QED  BY <1>3, <2>2
  <2>. QED  BY <1>4, <2>1, <2>3
<1>. QED  BY <1>4, <1>5

(* Sequences, whatever they hold.                                          *)
List(q) == q \in Seq({q[i] : i \in DOMAIN q})

LEMMA ListFacts ==
  ASSUME NEW q, List(q)
  PROVE  /\ Len(q) \in Nat /\ DOMAIN q = 1..Len(q)
         /\ q = [i \in 1..Len(q) |-> q[i]]
         /\ q = <<>> <=> Len(q) = 0
<1> DEFINE S == {q[i] : i \in DOMAIN q}
<1>1. q \in Seq(S)
  BY DEF List
<1> HIDE DEF S
<1>. QED  BY <1>1

LEMMA ListIs ==
  ASSUME NEW n \in Nat, NEW q, q = [i \in 1..n |-> q[i]]
  PROVE  List(q) /\ Len(q) = n
<1> DEFINE S == {q[i] : i \in DOMAIN q}
<1>1. DOMAIN q = 1..n
  OBVIOUS
<1>2. q \in [1..n -> S]
  BY <1>1
<1>3. q \in Seq(S) /\ Len(q) = n
  <2> HIDE DEF S
  <2>. QED  BY <1>2
<1>. QED  BY <1>1, <1>3 DEF List

LEMMA ListAppend ==
  ASSUME NEW q, NEW e, List(q)
  PROVE  /\ List(Append(q, e)) /\ Len(Append(q, e)) = Len(q) + 1
         /\ Append(q, e)[Len(q) + 1] = e
         /\ \A i \in 1..Len(q) : Append(q, e)[i] = q[i]
<1> DEFINE S == {q[i] : i \in DOMAIN q} \cup {e}
           a == Append(q, e)
<1>1. q \in Seq(S) /\ e \in S /\ Len(q) \in Nat
  <2>1. Len(q) \in Nat /\ q = [i \in 1..Len(q) |-> q[i]]
    BY ListFacts
  <2>2. \A i \in 1..Len(q) : q[i] \in S
    BY <2>1
  <2> HIDE DEF S
  <2>3. q \in [1..Len(q) -> S]
    BY <2>1, <2>2
  <2>4. q \in Seq(S)
    BY <2>1, <2>3
  <2>. QED  BY <2>1, <2>4 DEF S
<1>2. /\ Len(a) = Len(q) + 1 /\ a[Len(q) + 1] = e /\ Len(q) \in Nat
      /\ \A i \in 1..Len(q) : a[i] = q[i]
      /\ a \in Seq(S)
  <2> HIDE DEF S
  <2>. QED  BY <1>1
<1>3. a = [i \in 1..Len(a) |-> a[i]] /\ Len(a) \in Nat
  <2> HIDE DEF S, a
  <2>. QED  BY <1>2
<1> HIDE DEF S, a
<1>4. List(a)
  BY <1>3, ListIs
<1>. QED  BY <1>2, <1>4 DEF a

LEMMA ListCut ==
  ASSUME NEW q, NEW k \in Nat, List(q), k <= Len(q)
  PROVE  List(SubSeq(q, 1, k)) /\ Len(SubSeq(q, 1, k)) = k /\ \A i \in 1..k : SubSeq(q, 1, k)[i] = q[i]
<1> DEFINE S == {q[i] : i \in DOMAIN q}
           c == SubSeq(q, 1, k)
<1>1. q \in Seq(S) /\ Len(q) \in Nat
  BY ListFacts DEF List
<1>2. c = [i \in 1..k |-> q[i]]
  <2> HIDE DEF S
  <2>. QED  BY <1>1, SubSeqProperties
<1>3. c = [i \in 1..k |-> c[i]] /\ \A i \in 1..k : c[i] = q[i]
  <2> HIDE DEF c
  <2>. QED  BY <1>2
<1> HIDE DEF c
<1>4. List(c) /\ Len(c) = k
  BY <1>3, ListIs
<1>. QED  BY <1>3, <1>4 DEF c

-----------------------------------------------------------------------------
(* What a prefix inherits from the networks that contain it.               *)

(* Each attribute is from the most specific one that sets it.              *)
Overridden(S, p, m, a) ==
  \E k \in S : IsPrefix(k.prefix, p) /\ Len(k.prefix) > Len(m.prefix) /\ \E b \in k.attributes : b[1] = a[1]

Inherits(S, p, a) == \E m \in S : IsPrefix(m.prefix, p) /\ a \in m.attributes /\ ~ Overridden(S, p, m, a)

(* The same networks of S contain p and q.                                 *)
Alike(S, p, q) == \A m \in S : IsPrefix(m.prefix, p) <=> IsPrefix(m.prefix, q)

LEMMA InheritsAlike ==
  ASSUME NEW S, NEW p, NEW q, NEW a, Alike(S, p, q)
  PROVE  Inherits(S, p, a) <=> Inherits(S, q, a)
  BY DEF Alike, Inherits, Overridden

(* x is added to T, and it does not contain p.                             *)
LEMMA InheritsKept ==
  ASSUME NEW S, NEW x \in S, NEW p, NEW a, ~ IsPrefix(x.prefix, p)
  PROVE  Inherits(S, p, a) <=> Inherits(S \ {x}, p, a)
<1>1. ASSUME NEW m PROVE Overridden(S, p, m, a) <=> Overridden(S \ {x}, p, m, a)
  BY DEF Overridden
<1>. QED  BY <1>1 DEF Inherits

Sets(attributes, a) == \E b \in attributes : b[1] = a[1]

(* x is added to T, and it is the network of p.                            *)
LEMMA InheritsMore ==
  ASSUME NEW S, IsTable(S), NEW x \in S, NEW a
  PROVE  Inherits(S, x.prefix, a) <=>
           \/ a \in x.attributes
           \/ Inherits(S \ {x}, x.prefix, a) /\ ~ Sets(x.attributes, a)
<1> DEFINE T == S \ {x}
           p == x.prefix
<1>1. /\ p \in CIDRs /\ IsPrefix(p, p) /\ Len(p) \in Nat
      /\ \A k \in S : k.prefix \in CIDRs /\ Len(k.prefix) \in Nat
  BY PrefixSelf DEF IsTable, CIDRs
<1>2. \A k \in S : IsPrefix(k.prefix, p) => ~ (Len(k.prefix) > Len(p))
  BY <1>1, PrefixIs
<1>3. \A k \in T : IsPrefix(k.prefix, p) => Len(k.prefix) < Len(p)
  BY <1>1, PrefixLonger DEF IsTable
<1>4. ~ Overridden(S, p, x, a)
  BY <1>2 DEF Overridden
<1>5. ASSUME NEW m \in T, IsPrefix(m.prefix, p)
      PROVE  Overridden(S, p, m, a) <=> Overridden(T, p, m, a) \/ Sets(x.attributes, a)
  <2>1. Len(p) > Len(m.prefix)
    BY <1>1, <1>3, <1>5
  <2>. QED  BY <1>1, <2>1 DEF Overridden, Sets
<1>6. ASSUME Inherits(S, p, a), a \notin x.attributes PROVE Inherits(T, p, a) /\ ~ Sets(x.attributes, a)
  <2>1. PICK m \in S : IsPrefix(m.prefix, p) /\ a \in m.attributes /\ ~ Overridden(S, p, m, a)
    BY <1>6 DEF Inherits
  <2>2. m \in T
    BY <1>6, <2>1
  <2>. QED  BY <1>5, <2>1, <2>2 DEF Inherits
<1>7. ASSUME Inherits(T, p, a), ~ Sets(x.attributes, a) PROVE Inherits(S, p, a)
  <2>1. PICK m \in T : IsPrefix(m.prefix, p) /\ a \in m.attributes /\ ~ Overridden(T, p, m, a)
    BY <1>7 DEF Inherits
  <2>. QED  BY <1>5, <1>7, <2>1 DEF Inherits
<1>8. ASSUME a \in x.attributes PROVE Inherits(S, p, a)
  BY <1>1, <1>4, <1>8 DEF Inherits
<1>. QED  BY <1>6, <1>7, <1>8

-----------------------------------------------------------------------------
(* f is the network n of S with all that it inherits.                      *)
Flat(S, n, f) ==
  /\ f = Network(n.prefix, f.attributes) /\ f.prefix = n.prefix
  /\ \A a : a \in f.attributes <=> Inherits(S, n.prefix, a)

(* x is the last one to be added to S: the others do not change.           *)
LEMMA FlatKept ==
  ASSUME NEW S, IsTable(S), NEW x, IsLast(x, S), NEW n \in S \ {x}, NEW f
  PROVE  Flat(S, n, f) <=> Flat(S \ {x}, n, f)
<1>1. CIDRBefore(n.prefix, x.prefix) /\ n.prefix \in CIDRs /\ x.prefix \in CIDRs /\ x \in S
      /\ n.prefix # x.prefix
  BY DEF IsLast, IsTable
<1>2. ~ IsPrefix(x.prefix, n.prefix)
  <2>1. ~ CIDRBefore(x.prefix, n.prefix)
    BY <1>1, BeforeNotAfter
  <2>. QED  BY <1>1, <2>1, BeforeIs
<1>. QED  BY <1>1, <1>2, InheritsKept DEF Flat

(* The chain of the networks of T that contain p, each one with all that   *)
(* it inherits, from the least to the most specific.                       *)
Chain(T, p, chain) ==
  /\ List(chain)
  /\ \A i \in 1..Len(chain) : \E n \in T : Flat(T, n, chain[i]) /\ IsPrefix(n.prefix, p)
  /\ \A n \in T : IsPrefix(n.prefix, p) => \E i \in 1..Len(chain) : chain[i].prefix = n.prefix
  /\ \A i, j \in 1..Len(chain) : i < j => Len(chain[i].prefix) < Len(chain[j].prefix)

LEMMA ChainFacts ==
  ASSUME NEW T, IsTable(T), NEW p \in CIDRs, NEW chain, Chain(T, p, chain)
  PROVE  /\ Len(chain) \in Nat /\ DOMAIN chain = 1..Len(chain)
         /\ \A i \in 1..Len(chain) :
              chain[i].prefix \in CIDRs /\ IsPrefix(chain[i].prefix, p) /\ Len(chain[i].prefix) \in Nat
<1>1. ASSUME NEW i \in 1..Len(chain) PROVE chain[i].prefix \in CIDRs /\ IsPrefix(chain[i].prefix, p)
  <2>1. PICK n \in T : Flat(T, n, chain[i]) /\ IsPrefix(n.prefix, p)
    BY DEF Chain
  <2>. QED  BY <2>1 DEF Flat, IsTable
<1>. QED  BY <1>1, ListFacts DEF Chain, CIDRs

Containing(chain, p) == {i \in DOMAIN chain : IsPrefix(chain[i].prefix, p)}

(* Going down to a prefix keeps the start of the chain.                    *)
LEMMA ChainStart ==
  ASSUME NEW T, IsTable(T), NEW p \in CIDRs, NEW q \in CIDRs, NEW chain, Chain(T, q, chain)
  PROVE  \E k \in 0..Len(chain) :
           /\ PopAncestors(chain, p) = SubSeq(chain, 1, k)
           /\ \A i \in 1..Len(chain) : IsPrefix(chain[i].prefix, p) <=> i <= k
<1> DEFINE C == Containing(chain, p)
<1>1. /\ Len(chain) \in Nat /\ DOMAIN chain = 1..Len(chain)
      /\ \A i \in 1..Len(chain) :
              chain[i].prefix \in CIDRs /\ IsPrefix(chain[i].prefix, q) /\ Len(chain[i].prefix) \in Nat
  BY ChainFacts
<1>2. CASE C = {}
  <2>1. PopAncestors(chain, p) = SubSeq(chain, 1, 0)
    BY <1>2 DEF PopAncestors, Containing
  <2>2. \A i \in 1..Len(chain) : ~ IsPrefix(chain[i].prefix, p) /\ ~ (i <= 0)
    BY <1>1, <1>2 DEF Containing
  <2>. QED  BY <1>1, <2>1, <2>2
<1>3. CASE C # {}
  <2> DEFINE k == Max(C)
  <2>1. C \in SUBSET 0..Len(chain)
    BY <1>1 DEF Containing
  <2>2. k \in C /\ \A i \in C : k >= i
    <3>1. PICK m \in C : \A i \in C : i <= m
      <4> HIDE DEF C
      <4>. QED  BY <1>1, <1>3, <2>1, Greatest
    <3>2. \A i \in C : m >= i
      BY <1>1, <2>1, <3>1
    <3> HIDE DEF C
    <3>. QED  BY <3>2 DEF Max
  <2>3. PopAncestors(chain, p) = SubSeq(chain, 1, k)
    BY <1>3 DEF PopAncestors, Containing
  <2> HIDE DEF k
  <2>4. k \in 1..Len(chain) /\ IsPrefix(chain[k].prefix, p) /\ k \in 0..Len(chain)
    BY <1>1, <2>2 DEF Containing
  <2>5. ASSUME NEW i \in 1..Len(chain), i <= k PROVE IsPrefix(chain[i].prefix, p)
    <3>1. Len(chain[i].prefix) <= Len(chain[k].prefix)
      <4>1. CASE i = k
        BY <1>1, <2>4, <4>1
      <4>2. CASE i < k
        <5>1. Len(chain[i].prefix) < Len(chain[k].prefix)
          BY <2>4, <4>2 DEF Chain
        <5>. QED  BY <1>1, <2>4, <5>1
      <4>. QED  BY <1>1, <2>4, <2>5, <4>1, <4>2
    <3>2. IsPrefix(chain[i].prefix, chain[k].prefix)
      BY <1>1, <2>4, <3>1, PrefixesNest
    <3>. QED  BY <1>1, <2>4, <3>2, PrefixTrans
  <2>6. ASSUME NEW i \in 1..Len(chain), IsPrefix(chain[i].prefix, p) PROVE i <= k
    <3>1. i \in C
      BY <1>1, <2>6 DEF Containing
    <3>. QED  BY <1>1, <2>2, <2>4, <3>1
  <2>. QED  BY <2>3, <2>4, <2>5, <2>6
<1>. QED  BY <1>2, <1>3

LEMMA PopChain ==
  ASSUME NEW T, IsTable(T), NEW p \in CIDRs, NEW q \in CIDRs, NEW chain, Chain(T, q, chain),
         \A m \in T : IsPrefix(m.prefix, p) => IsPrefix(m.prefix, q)
  PROVE  Chain(T, p, PopAncestors(chain, p))
<1>1. /\ Len(chain) \in Nat /\ DOMAIN chain = 1..Len(chain)
      /\ \A i \in 1..Len(chain) :
              chain[i].prefix \in CIDRs /\ IsPrefix(chain[i].prefix, q) /\ Len(chain[i].prefix) \in Nat
  BY ChainFacts
<1>2. PICK k \in 0..Len(chain) :
        /\ PopAncestors(chain, p) = SubSeq(chain, 1, k)
        /\ \A i \in 1..Len(chain) : IsPrefix(chain[i].prefix, p) <=> i <= k
  BY ChainStart
<1> DEFINE cut == SubSeq(chain, 1, k)
<1>3. List(cut) /\ Len(cut) = k /\ \A i \in 1..k : cut[i] = chain[i] /\ i \in 1..Len(chain) /\ i <= k
  BY <1>1, <1>2, ListCut DEF Chain
<1> HIDE DEF cut
<1>4. ASSUME NEW i \in 1..k PROVE \E n \in T : Flat(T, n, cut[i]) /\ IsPrefix(n.prefix, p)
  <2>1. PICK n \in T : Flat(T, n, chain[i])
    BY <1>3 DEF Chain
  <2>2. IsPrefix(chain[i].prefix, p) /\ chain[i].prefix = n.prefix
    BY <1>2, <1>3, <2>1 DEF Flat
  <2>. QED  BY <1>3, <2>1, <2>2
<1>5. ASSUME NEW n \in T, IsPrefix(n.prefix, p) PROVE \E i \in 1..k : cut[i].prefix = n.prefix
  <2>1. PICK i \in 1..Len(chain) : chain[i].prefix = n.prefix
    BY <1>5 DEF Chain
  <2>2. i \in 1..k
    BY <1>1, <1>2, <1>5, <2>1
  <2>. QED  BY <1>3, <2>1, <2>2
<1>6. ASSUME NEW i \in 1..k, NEW j \in 1..k, i < j PROVE Len(cut[i].prefix) < Len(cut[j].prefix)
  BY <1>3, <1>6 DEF Chain
<1>7. Chain(T, p, cut)
  BY <1>3, <1>4, <1>5, <1>6 DEF Chain
<1>. QED  BY <1>2, <1>7 DEF cut

(* The last of the chain is the most specific network that contains p, and *)
(* it has all that p inherits.                                             *)
LEMMA ChainLast ==
  ASSUME NEW T, IsTable(T), NEW p \in CIDRs, NEW chain, Chain(T, p, chain), NEW a
  PROVE  IF chain = <<>> THEN ~ Inherits(T, p, a)
         ELSE a \in chain[Len(chain)].attributes <=> Inherits(T, p, a)
<1>1. /\ Len(chain) \in Nat /\ DOMAIN chain = 1..Len(chain)
      /\ \A i \in 1..Len(chain) :
           chain[i].prefix \in CIDRs /\ IsPrefix(chain[i].prefix, p) /\ Len(chain[i].prefix) \in Nat
  BY ChainFacts
<1>2. chain = <<>> <=> Len(chain) = 0
  BY ListFacts DEF Chain
<1>3. CASE chain = <<>>
  <2>1. \A m \in T : ~ IsPrefix(m.prefix, p)
    BY <1>2, <1>3 DEF Chain
  <2>. QED  BY <1>3, <2>1 DEF Inherits
<1>4. CASE chain # <<>>
  <2> DEFINE l == Len(chain)
  <2>1. l \in 1..Len(chain)
    BY <1>1, <1>2, <1>4
  <2>2. PICK n \in T : Flat(T, n, chain[l]) /\ IsPrefix(n.prefix, p)
    BY <2>1 DEF Chain
  <2>3. n.prefix \in CIDRs /\ chain[l].prefix = n.prefix
    BY <2>2 DEF IsTable, Flat
  <2>4. ASSUME NEW m \in T, IsPrefix(m.prefix, p) PROVE IsPrefix(m.prefix, n.prefix)
    <3>1. PICK i \in 1..Len(chain) : chain[i].prefix = m.prefix
      BY <2>4 DEF Chain
    <3>2. i = l \/ Len(chain[i].prefix) < Len(chain[l].prefix)
      <4>1. i = l \/ i < l
        <5>1. Len(chain) \in Nat
          BY <1>1
        <5>. QED  BY <5>1
      <4>. QED  BY <2>1, <4>1 DEF Chain
    <3>3. Len(m.prefix) <= Len(n.prefix)
      <4>1. Len(chain[i].prefix) \in Nat /\ Len(chain[l].prefix) \in Nat
        BY <1>1, <2>1
      <4>2. Len(chain[i].prefix) <= Len(chain[l].prefix)
        BY <3>2, <4>1
      <4>. QED  BY <2>3, <3>1, <4>2
    <3>. QED  BY <2>2, <2>3, <2>4, <3>3, PrefixesNest DEF IsTable
  <2>5. ASSUME NEW m \in T, IsPrefix(m.prefix, n.prefix) PROVE IsPrefix(m.prefix, p)
    BY <2>2, <2>3, <2>5, PrefixTrans DEF IsTable
  <2>6. Inherits(T, p, a) <=> Inherits(T, n.prefix, a)
    <3>1. Alike(T, p, n.prefix)
      BY <2>4, <2>5 DEF Alike
    <3>. QED  BY <3>1, InheritsAlike
  <2>. QED  BY <1>4, <2>2, <2>6 DEF Flat
<1>. QED  BY <1>3, <1>4

(* The network x with what it gets from the last of the chain.             *)
Flattened(chain, x) ==
  Network(x.prefix, mergeNetworkAttrs(IF chain = <<>> THEN {} ELSE Last(chain).attributes, x.attributes))

LEMMA FlattenedIs ==
  ASSUME NEW S, IsTable(S), NEW x, IsLast(x, S), NEW chain, Chain(S \ {x}, x.prefix, chain)
  PROVE  Flat(S, x, Flattened(chain, x))
<1> DEFINE T == S \ {x}
           f == Flattened(chain, x)
           inherited == IF chain = <<>> THEN {} ELSE Last(chain).attributes
<1>1. x \in S /\ x.prefix \in CIDRs /\ IsTable(T)
  BY SubTable DEF IsLast, IsTable
<1>2. f = Network(x.prefix, f.attributes) /\ f.prefix = x.prefix
      /\ f.attributes = mergeNetworkAttrs(inherited, x.attributes)
  BY DEF Flattened, Network
<1>3. ASSUME NEW a PROVE a \in inherited <=> Inherits(T, x.prefix, a)
  <2>1. IF chain = <<>> THEN ~ Inherits(T, x.prefix, a)
        ELSE a \in chain[Len(chain)].attributes <=> Inherits(T, x.prefix, a)
    BY <1>1, ChainLast
  <2>. QED  BY <2>1 DEF Last
<1>4. ASSUME NEW a PROVE a \in f.attributes <=> Inherits(S, x.prefix, a)
  <2>1. a \in f.attributes <=> a \in x.attributes \/ (a \in inherited /\ ~ Sets(x.attributes, a))
    <3> HIDE DEF f, inherited
    <3>. QED  BY <1>2 DEF mergeNetworkAttrs, Sets
  <2>2. Inherits(S, x.prefix, a) <=> \/ a \in x.attributes
                                     \/ Inherits(T, x.prefix, a) /\ ~ Sets(x.attributes, a)
    BY <1>1, InheritsMore
  <2>. QED  BY <1>3, <2>1, <2>2
<1>. QED  BY <1>2, <1>4 DEF Flat

LEMMA ChainIs ==
  ASSUME NEW S, NEW p, NEW chain, List(chain),
         \A i \in 1..Len(chain) : \E n \in S : Flat(S, n, chain[i]) /\ IsPrefix(n.prefix, p),
         \A n \in S : IsPrefix(n.prefix, p) => \E i \in 1..Len(chain) : chain[i].prefix = n.prefix,
         \A i, j \in 1..Len(chain) : i < j => Len(chain[i].prefix) < Len(chain[j].prefix)
  PROVE  Chain(S, p, chain)
  BY DEF Chain

LEMMA ChainMore ==
  ASSUME NEW S, IsTable(S), NEW x, IsLast(x, S), NEW chain, Chain(S \ {x}, x.prefix, chain)
  PROVE  Chain(S, x.prefix, Append(chain, Flattened(chain, x)))
<1> DEFINE T == S \ {x}
           p == x.prefix
           f == Flattened(chain, x)
           more == Append(chain, f)
           l == Len(chain)
<1>1. x \in S /\ p \in CIDRs /\ IsTable(T) /\ IsPrefix(p, p) /\ Len(p) \in Nat
  BY SubTable, PrefixSelf DEF IsLast, IsTable, CIDRs
<1>2. /\ l \in Nat
      /\ \A i \in 1..l :
           chain[i].prefix \in CIDRs /\ IsPrefix(chain[i].prefix, p) /\ Len(chain[i].prefix) \in Nat
  BY <1>1, ChainFacts
<1>3. Flat(S, x, f)
  BY FlattenedIs
<1> HIDE DEF f
<1>4. /\ List(more) /\ Len(more) = l + 1 /\ more[l + 1] = f
      /\ \A i \in 1..l : more[i] = chain[i]
  BY ListAppend DEF Chain
<1> HIDE DEF more
<1>5. \A i \in 1..(l + 1) : i \in 1..l \/ i = l + 1
  BY <1>2
<1>6. ASSUME NEW i \in 1..l PROVE /\ \E n \in T : Flat(S, n, chain[i]) /\ IsPrefix(n.prefix, p)
                                  /\ Len(chain[i].prefix) < Len(p)
  <2>1. PICK n \in T : Flat(T, n, chain[i]) /\ IsPrefix(n.prefix, p)
    BY DEF Chain
  <2>2. Flat(S, n, chain[i])
    BY <2>1, FlatKept
  <2>3. n.prefix \in CIDRs /\ n.prefix # p /\ chain[i].prefix = n.prefix
    BY <1>1, <2>1 DEF IsTable, Flat
  <2>4. Len(n.prefix) < Len(p)
    BY <1>1, <2>1, <2>3, PrefixLonger
  <2>. QED  BY <2>1, <2>2, <2>3, <2>4
<1>7. ASSUME NEW i \in 1..(l + 1) PROVE \E n \in S : Flat(S, n, more[i]) /\ IsPrefix(n.prefix, p)
  BY <1>1, <1>3, <1>4, <1>5, <1>6
<1>8. ASSUME NEW n \in S, IsPrefix(n.prefix, p) PROVE \E i \in 1..(l + 1) : more[i].prefix = n.prefix
  <2>1. CASE n = x
    <3>1. l + 1 \in 1..(l + 1) /\ more[l + 1].prefix = p
      BY <1>2, <1>3, <1>4 DEF Flat
    <3>. QED  BY <2>1, <3>1
  <2>2. CASE n # x
    <3>1. PICK i \in 1..l : chain[i].prefix = n.prefix
      BY <1>8, <2>2 DEF Chain
    <3>2. i \in 1..(l + 1)
      BY <1>2
    <3>. QED  BY <1>4, <3>1, <3>2
  <2>. QED  BY <2>1, <2>2
<1>9. ASSUME NEW i \in 1..(l + 1), NEW j \in 1..(l + 1), i < j PROVE Len(more[i].prefix) < Len(more[j].prefix)
  <2>1. i \in 1..l
    BY <1>2, <1>9
  <2>2. CASE j \in 1..l
    BY <1>4, <1>9, <2>1, <2>2 DEF Chain
  <2>3. CASE j = l + 1
    BY <1>3, <1>4, <1>6, <2>1, <2>3 DEF Flat
  <2>. QED  BY <1>5, <2>2, <2>3
<1>10. Chain(S, p, more)
  <2>1. Len(more) = l + 1 /\ List(more)
    BY <1>4
  <2>2. \A i \in 1..Len(more) : \E n \in S : Flat(S, n, more[i]) /\ IsPrefix(n.prefix, p)
    BY <1>7, <2>1
  <2>3. \A n \in S : IsPrefix(n.prefix, p) => \E i \in 1..Len(more) : more[i].prefix = n.prefix
    BY <1>8, <2>1
  <2>4. \A i, j \in 1..Len(more) : i < j => Len(more[i].prefix) < Len(more[j].prefix)
    BY <1>9, <2>1
  <2>. QED  BY <2>1, <2>2, <2>3, <2>4, ChainIs
<1>. QED  BY <1>10 DEF more, f

-----------------------------------------------------------------------------
(* The tree has each network of S once, with all that it inherits.         *)
TreeIs(S, tree) ==
  /\ \A f \in tree : \E n \in S : Flat(S, n, f)
  /\ \A n \in S : \E f \in tree : Flat(S, n, f)

(* Once the networks of S are walked.                                      *)
AllWalked(S, w) ==
  /\ TreeIs(S, w.tree)
  /\ \E q \in CIDRs : Chain(S, q, w.ancestors) /\ (S # {} => q = LastWalked(S).prefix)

LEMMA NothingWalked == AllWalked({}, NoWalk)
<1>1. TreeIs({}, {})
  BY DEF TreeIs
<1>2. Chain({}, <<>>, <<>>)
  BY DEF Chain, List
<1>3. <<>> \in CIDRs
  BY DEF CIDRs
<1>. QED  BY <1>1, <1>2, <1>3 DEF AllWalked, NoWalk

LEMMA WalkOne ==
  ASSUME NEW S, IsTable(S), S # {}, NEW w, AllWalked(S \ {LastWalked(S)}, w)
  PROVE  AllWalked(S, FlattenOne(w, LastWalked(S)))
<1> DEFINE x == LastWalked(S)
           T == S \ {x}
           p == x.prefix
           chain == PopAncestors(w.ancestors, p)
           f == Flattened(chain, x)
<1>1. IsLast(x, S)
  BY LastWalkedIs
<1>2. AllWalked(T, w)
  OBVIOUS
<1>3. FlattenOne(w, x) = [ancestors |-> Append(chain, f), tree |-> w.tree \cup {f}]
  BY DEF FlattenOne, Flattened
<1> HIDE DEF x
<1>4. p \in CIDRs /\ x \in S /\ IsTable(T)
  BY <1>1, SubTable DEF IsLast, IsTable
<1>5. PICK q \in CIDRs : Chain(T, q, w.ancestors) /\ (T # {} => q = LastWalked(T).prefix)
  BY <1>2 DEF AllWalked
<1>6. ASSUME NEW m \in T, IsPrefix(m.prefix, p) PROVE IsPrefix(m.prefix, q)
  <2>1. IsLast(LastWalked(T), T) /\ q = LastWalked(T).prefix
    BY <1>4, <1>5, LastWalkedIs
  <2>2. LastWalked(T) \in T /\ CIDRBefore(q, p)
    BY <1>1, <2>1 DEF IsLast
  <2>3. CASE m = LastWalked(T)
    BY <1>5, <2>1, <2>3, PrefixSelf
  <2>4. CASE m # LastWalked(T)
    <3>1. CIDRBefore(m.prefix, q)
      BY <2>1, <2>4 DEF IsLast
    <3>2. m.prefix \in CIDRs
      BY <1>4 DEF IsTable
    <3>. QED  BY <1>4, <1>5, <1>6, <2>2, <3>1, <3>2, BeforeBetween
  <2>. QED  BY <2>3, <2>4
<1>7. Chain(T, p, chain)
  BY <1>4, <1>5, <1>6, PopChain
<1> HIDE DEF chain
<1>8. Flat(S, x, f)
  BY <1>1, <1>7, FlattenedIs
<1>9. Chain(S, p, Append(chain, f))
  BY <1>1, <1>7, ChainMore
<1> HIDE DEF f
<1>10. TreeIs(S, w.tree \cup {f})
  <2>1. \A n \in T, g \in w.tree : Flat(T, n, g) <=> Flat(S, n, g)
    BY <1>1, FlatKept
  <2>2. TreeIs(T, w.tree)
    BY <1>2 DEF AllWalked
  <2>. QED  BY <1>4, <1>8, <2>1, <2>2 DEF TreeIs
<1> DEFINE v == [ancestors |-> Append(chain, f), tree |-> w.tree \cup {f}]
<1>11. v.ancestors = Append(chain, f) /\ v.tree = w.tree \cup {f}
  OBVIOUS
<1> HIDE DEF v
<1>12. AllWalked(S, v)
  BY <1>4, <1>9, <1>10, <1>11 DEF AllWalked, x
<1>. QED  BY <1>3, <1>12 DEF v, x

LEMMA FlattenIs ==
  ASSUME NEW M, IsTable(M)
  PROVE  TreeIs(M, Flatten(M))
<1>1. PICK walk : Flatten(M) = walk[M].tree /\ WalksIn(walk, M)
  BY FlattenSteps
<1> DEFINE c == Cardinality(M)
           K == {i \in Nat : \A S \in SUBSET M : Cardinality(S) = i => AllWalked(S, walk[S])}
<1>2. c \in Nat
  BY FS_CardinalityType DEF IsTable
<1>3. 0 \in K
  <2>1. ASSUME NEW S \in SUBSET M, Cardinality(S) = 0 PROVE AllWalked(S, walk[S])
    <3>1. S = {}
      BY <2>1, SubTable, FS_EmptySet DEF IsTable
    <3>. QED  BY <1>1, <3>1, NothingWalked DEF WalksIn
  <2>. QED  BY <2>1
<1>4. ASSUME NEW i \in 1..c, i - 1 \in K PROVE i \in K
  <2>1. ASSUME NEW S \in SUBSET M, Cardinality(S) = i PROVE AllWalked(S, walk[S])
    <3>1. IsTable(S)
      BY SubTable
    <3>2. S # {}
      BY <1>2, <2>1, FS_EmptySet
    <3>3. LastWalked(S) \in S
      BY <3>1, <3>2, LastWalkedIs DEF IsLast
    <3>4. Cardinality(S \ {LastWalked(S)}) = i - 1 /\ S \ {LastWalked(S)} \in SUBSET M
      BY <2>1, <3>1, <3>3, FS_RemoveElement DEF IsTable
    <3>5. AllWalked(S \ {LastWalked(S)}, walk[S \ {LastWalked(S)}])
      BY <1>4, <3>4
    <3>6. walk[S] = FlattenOne(walk[S \ {LastWalked(S)}], LastWalked(S))
      BY <1>1, <3>2 DEF WalksIn
    <3>. QED  BY <3>1, <3>2, <3>5, <3>6, WalkOne
  <2>. QED  BY <1>2, <2>1
<1> HIDE DEF K
<1>5. c \in K
  <2>1. c \in 0..c
    BY <1>2
  <2> HIDE DEF c
  <2>. QED  BY <1>2, <1>3, <1>4, <2>1, UpTo
<1>6. AllWalked(M, walk[M])
  BY <1>5 DEF K
<1>. QED  BY <1>1, <1>6 DEF AllWalked

(* A lookup in the tree gives all that the address inherits.               *)
LEMMA FlattenLookup ==
  ASSUME NEW M, IsTable(M), NEW ip \in CIDRs, NEW a
  PROVE  a \in Lookup(Flatten(M), ip) <=> Inherits(M, ip, a)
<1> DEFINE tree == Flatten(M)
           C == {n \in tree : IsPrefix(n.prefix, ip)}
           IsLongest(n) == \A m \in C : Len(m.prefix) <= Len(n.prefix)
           l == CHOOSE n \in C : IsLongest(n)
<1>1. TreeIs(M, tree)
  BY FlattenIs
<1>2. Lookup(tree, ip) = IF C = {} THEN {} ELSE l.attributes
  BY DEF Lookup
<1> HIDE DEF tree
<1>3. CASE C = {}
  <2>1. ASSUME NEW n \in M, IsPrefix(n.prefix, ip) PROVE FALSE
    <3>1. PICK f \in tree : Flat(M, n, f)
      BY <1>1 DEF TreeIs
    <3>2. f \in C
      BY <2>1, <3>1 DEF Flat
    <3>. QED  BY <1>3, <3>2
  <2>. QED  BY <1>2, <1>3, <2>1 DEF Inherits, tree
<1>4. CASE C # {}
  <2>1. \A f \in C : f.prefix \in CIDRs /\ IsPrefix(f.prefix, ip) /\ Len(f.prefix) \in 0..Len(ip) /\ Len(ip) \in Nat
    <3>1. ASSUME NEW f \in C PROVE f.prefix \in CIDRs /\ IsPrefix(f.prefix, ip)
      <4>1. PICK n \in M : Flat(M, n, f)
        BY <1>1 DEF TreeIs
      <4>. QED  BY <4>1 DEF Flat, IsTable
    <3>2. ASSUME NEW f \in C PROVE Len(f.prefix) \in 0..Len(ip) /\ Len(ip) \in Nat
      BY <3>1, PrefixIs DEF CIDRs
    <3>. QED  BY <3>1, <3>2
  <2> DEFINE lengths == {Len(f.prefix) : f \in C}
  <2>2. PICK m \in lengths : \A k \in lengths : k <= m
    <3>1. lengths # {} /\ lengths \in SUBSET 0..Len(ip)
      BY <1>4, <2>1
    <3>2. Len(ip) \in Nat
      BY DEF CIDRs
    <3> HIDE DEF lengths
    <3>. QED  BY <3>1, <3>2, Greatest
  <2>3. \E o \in C : IsLongest(o)
    <3> HIDE DEF C
    <3>1. PICK o \in C : Len(o.prefix) = m
      OBVIOUS
    <3>. QED  BY <2>2, <3>1
  <2>4. l \in C /\ IsLongest(l)
    <3> HIDE DEF C, IsLongest
    <3>. QED  BY <2>3
  <2> HIDE DEF l
  <2>5. PICK n \in M : Flat(M, n, l)
    BY <1>1, <2>4 DEF TreeIs
  <2>6. /\ n.prefix \in CIDRs /\ l.prefix = n.prefix /\ IsPrefix(n.prefix, ip)
        /\ \A k \in M : k.prefix \in CIDRs
    BY <2>4, <2>5 DEF Flat, IsTable
  <2>7. ASSUME NEW k \in M, IsPrefix(k.prefix, ip) PROVE IsPrefix(k.prefix, n.prefix)
    <3>1. PICK f \in tree : Flat(M, k, f)
      BY <1>1 DEF TreeIs
    <3>2. f \in C /\ f.prefix = k.prefix
      BY <2>7, <3>1 DEF Flat
    <3>3. Len(k.prefix) <= Len(n.prefix)
      BY <2>4, <2>6, <3>2
    <3>. QED  BY <2>6, <2>7, <3>3, PrefixesNest
  <2>8. ASSUME NEW k \in M, IsPrefix(k.prefix, n.prefix) PROVE IsPrefix(k.prefix, ip)
    BY <2>6, <2>8, PrefixTrans
  <2>9. Alike(M, ip, n.prefix)
    BY <2>7, <2>8 DEF Alike
  <2>10. Inherits(M, ip, a) <=> Inherits(M, n.prefix, a)
    BY <2>9, InheritsAlike
  <2>11. Lookup(tree, ip) = l.attributes
    BY <1>2, <1>4
  <2>12. a \in l.attributes <=> Inherits(M, n.prefix, a)
    BY <2>5 DEF Flat
  <2>. QED  BY <2>10, <2>11, <2>12 DEF tree
<1>. QED  BY <1>3, <1>4

-----------------------------------------------------------------------------
(* The tables that are merged.                                             *)
LEMMA AttributesInIs ==
  ASSUME NEW M, IsTable(M)
  PROVE  /\ \A n \in M : AttributesIn(M, n.prefix) = n.attributes
         /\ \A p, a : a \in AttributesIn(M, p) <=> \E n \in M : n.prefix = p /\ a \in n.attributes
<1>1. \A p, a : a \in AttributesIn(M, p) <=> \E n \in M : n.prefix = p /\ a \in n.attributes
  BY DEF AttributesIn
<1>2. ASSUME NEW n \in M PROVE AttributesIn(M, n.prefix) = n.attributes
  <2>1. \A m \in M : m.prefix = n.prefix => m = n
    BY DEF IsTable
  <2>2. \A a : a \in AttributesIn(M, n.prefix) <=> a \in n.attributes
    BY <1>1, <2>1
  <2>. QED  BY <2>2
<1>. QED  BY <1>1, <1>2

LEMMA MergeIs ==
  ASSUME NEW M, IsTable(M), NEW t, IsTable(t)
  PROVE  /\ IsTable(MergeTable(M, t))
         /\ \A p : AttributesIn(MergeTable(M, t), p)
                     = mergeNetworkAttrs(AttributesIn(M, p), AttributesIn(t, p))
<1> DEFINE both(n) == Network(n.prefix, mergeNetworkAttrs(AttributesIn(M, n.prefix), n.attributes))
           kept == {n \in M : \A m \in t : m.prefix # n.prefix}
           new == {both(n) : n \in t}
           all == MergeTable(M, t)
<1>1. all = kept \cup new
  BY DEF MergeTable
<1>2. \A n : both(n).prefix = n.prefix
             /\ both(n).attributes = mergeNetworkAttrs(AttributesIn(M, n.prefix), n.attributes)
             /\ both(n) = Network(both(n).prefix, both(n).attributes)
  BY DEF Network
<1>3. IsFiniteSet(all)
  <2>1. IsFiniteSet(kept)
    BY FS_Subset DEF IsTable
  <2>2. IsFiniteSet(new)
    <3>1. IsFiniteSet(t)
      BY DEF IsTable
    <3> HIDE DEF both
    <3> DEFINE g == [n \in t |-> both(n)]
    <3>2. g \in [t -> new] /\ \A m \in new : \E n \in t : g[n] = m
      OBVIOUS
    <3> HIDE DEF g, new
    <3>3. g \in Surjection(t, new)
      BY <3>2 DEF Surjection
    <3>. QED  BY <3>1, <3>3, FS_Surjection
  <2> HIDE DEF kept, new, all
  <2>. QED  BY <1>1, <2>1, <2>2, FS_Union
<1> HIDE DEF both, all
<1>4. ASSUME NEW n \in all PROVE n = Network(n.prefix, n.attributes) /\ n.prefix \in CIDRs
  <2>1. CASE n \in kept
    BY <2>1 DEF IsTable
  <2>2. CASE n \in new
    <3>1. PICK o \in t : n = both(o)
      BY <2>2
    <3>. QED  BY <1>2, <3>1 DEF IsTable
  <2>. QED  BY <1>1, <2>1, <2>2
<1>5. ASSUME NEW m \in all, NEW n \in all, m.prefix = n.prefix PROVE m = n
  <2>1. CASE m \in kept /\ n \in kept
    BY <1>5, <2>1 DEF IsTable
  <2>2. CASE m \in kept /\ n \in new
    BY <1>2, <1>5, <2>2
  <2>3. CASE m \in new /\ n \in kept
    BY <1>2, <1>5, <2>3
  <2>4. CASE m \in new /\ n \in new
    <3>1. PICK o \in t : m = both(o)
      BY <2>4
    <3>2. PICK r \in t : n = both(r)
      BY <2>4
    <3>3. o = r
      BY <1>2, <1>5, <3>1, <3>2 DEF IsTable
    <3>. QED  BY <3>1, <3>2, <3>3
  <2>. QED  BY <1>1, <2>1, <2>2, <2>3, <2>4
<1>6. IsTable(all)
  BY <1>3, <1>4, <1>5 DEF IsTable
<1>7. ASSUME NEW p PROVE AttributesIn(all, p) = mergeNetworkAttrs(AttributesIn(M, p), AttributesIn(t, p))
  <2>1. CASE \E n \in t : n.prefix = p
    <3>1. PICK n \in t : n.prefix = p
      BY <2>1
    <3>2. AttributesIn(t, p) = n.attributes
      BY <3>1, AttributesInIs
    <3>3. both(n) \in all /\ both(n).prefix = p
      BY <1>1, <1>2, <3>1
    <3>4. AttributesIn(all, p) = both(n).attributes
      BY <1>6, <3>3, AttributesInIs
    <3>. QED  BY <1>2, <3>1, <3>2, <3>4
  <2>2. CASE ~ \E n \in t : n.prefix = p
    <3>1. AttributesIn(t, p) = {}
      BY <2>2 DEF AttributesIn
    <3>2. mergeNetworkAttrs(AttributesIn(M, p), {}) = AttributesIn(M, p)
      BY DEF mergeNetworkAttrs
    <3>3. ASSUME NEW n, n.prefix = p PROVE n \in all <=> n \in M
      BY <1>1, <1>2, <2>2, <3>3
    <3>4. AttributesIn(all, p) = AttributesIn(M, p)
      BY <3>3 DEF AttributesIn
    <3>. QED  BY <3>1, <3>2, <3>4
  <2>. QED  BY <2>1, <2>2
<1>. QED  BY <1>6, <1>7 DEF all

AreTables(tables) == List(tables) /\ \A i \in 1..Len(tables) : IsTable(tables[i])

(* What the first n tables give to the prefix p: a later one hides what it *)
(* sets too.                                                               *)
GivenBy(tables, n, p, a) ==
  \E j \in 1..n : /\ a \in AttributesIn(tables[j], p)
                  /\ \A k \in 1..n : k > j => ~ Sets(AttributesIn(tables[k], p), a)

(* M is what the first n tables give, and hides what they all set.         *)
MergeOf(M, tables, n) ==
  /\ IsTable(M)
  /\ \A p, a : a \in AttributesIn(M, p) <=> GivenBy(tables, n, p, a)
  /\ \A p, a : (\E j \in 1..n : Sets(AttributesIn(tables[j], p), a)) => Sets(AttributesIn(M, p), a)

LEMMA NothingMerged == ASSUME NEW tables PROVE MergeOf({}, tables, 0)
<1>1. IsTable({})
  BY FS_EmptySet DEF IsTable
<1>2. \A p : AttributesIn({}, p) = {}
  BY DEF AttributesIn
<1>. QED  BY <1>1, <1>2 DEF MergeOf, GivenBy

LEMMA GivenByOne ==
  ASSUME NEW tables, NEW n \in Nat, n > 0, NEW p, NEW a
  PROVE  GivenBy(tables, n, p, a) <=>
           \/ a \in AttributesIn(tables[n], p)
           \/ GivenBy(tables, n - 1, p, a) /\ ~ Sets(AttributesIn(tables[n], p), a)
<1> DEFINE I == 1..n
           J == 1..(n - 1)
           Later(j) == {k \in I : k > j}
<1>1. n \in I /\ Later(n) = {}
  OBVIOUS
<1>2. \A j \in I : j = n \/ j \in J
  OBVIOUS
<1>3. \A j \in J : j \in I /\ Later(j) = {k \in J : k > j} \cup {n}
  OBVIOUS
<1>4. GivenBy(tables, n, p, a) <=>
        \E j \in I : a \in AttributesIn(tables[j], p) /\ \A k \in Later(j) : ~ Sets(AttributesIn(tables[k], p), a)
  BY DEF GivenBy
<1>5. GivenBy(tables, n - 1, p, a) <=>
        \E j \in J : a \in AttributesIn(tables[j], p)
                     /\ \A k \in {i \in J : i > j} : ~ Sets(AttributesIn(tables[k], p), a)
  BY DEF GivenBy
<1> DEFINE Before(j) == {i \in J : i > j}
<1>6. \A j \in J : Later(j) = Before(j) \cup {n}
  BY <1>3
<1>7. GivenBy(tables, n - 1, p, a) <=>
        \E j \in J : a \in AttributesIn(tables[j], p)
                     /\ \A k \in Before(j) : ~ Sets(AttributesIn(tables[k], p), a)
  BY <1>5
<1> HIDE DEF I, J, Later, Before
<1>8. ASSUME GivenBy(tables, n, p, a), a \notin AttributesIn(tables[n], p)
      PROVE  GivenBy(tables, n - 1, p, a) /\ ~ Sets(AttributesIn(tables[n], p), a)
  <2>1. PICK j \in I : a \in AttributesIn(tables[j], p) /\ \A k \in Later(j) : ~ Sets(AttributesIn(tables[k], p), a)
    BY <1>4, <1>8
  <2>2. j \in J
    BY <1>2, <1>8, <2>1
  <2>. QED  BY <1>6, <1>7, <2>1, <2>2
<1>9. ASSUME GivenBy(tables, n - 1, p, a), ~ Sets(AttributesIn(tables[n], p), a)
      PROVE  GivenBy(tables, n, p, a)
  <2>1. PICK j \in J : a \in AttributesIn(tables[j], p) /\ \A k \in Before(j) : ~ Sets(AttributesIn(tables[k], p), a)
    BY <1>7, <1>9
  <2>. QED  BY <1>3, <1>4, <1>6, <1>9, <2>1
<1>. QED  BY <1>1, <1>4, <1>8, <1>9

LEMMA MergeOne ==
  ASSUME NEW tables, AreTables(tables), NEW n \in 1..Len(tables), NEW M, MergeOf(M, tables, n - 1)
  PROVE  MergeOf(MergeTable(M, tables[n]), tables, n)
<1> DEFINE t == tables[n]
           all == MergeTable(M, t)
<1>1. IsTable(t) /\ IsTable(M) /\ n \in Nat /\ n > 0
  BY ListFacts DEF AreTables, MergeOf
<1>2. IsTable(all) /\ \A p : AttributesIn(all, p) = mergeNetworkAttrs(AttributesIn(M, p), AttributesIn(t, p))
  BY <1>1, MergeIs
<1> HIDE DEF all
<1>3. \A p, a : a \in AttributesIn(all, p) <=>
                  a \in AttributesIn(t, p) \/ (a \in AttributesIn(M, p) /\ ~ Sets(AttributesIn(t, p), a))
  BY <1>2 DEF mergeNetworkAttrs, Sets
<1>4. ASSUME NEW p, NEW a PROVE a \in AttributesIn(all, p) <=> GivenBy(tables, n, p, a)
  <2>1. GivenBy(tables, n, p, a) <=>
          \/ a \in AttributesIn(t, p)
          \/ GivenBy(tables, n - 1, p, a) /\ ~ Sets(AttributesIn(t, p), a)
    BY <1>1, GivenByOne
  <2>2. a \in AttributesIn(M, p) <=> GivenBy(tables, n - 1, p, a)
    BY DEF MergeOf
  <2>. QED  BY <1>3, <2>1, <2>2
<1>5. ASSUME NEW p, NEW a, NEW j \in 1..n, Sets(AttributesIn(tables[j], p), a)
      PROVE  Sets(AttributesIn(all, p), a)
  <2>1. CASE Sets(AttributesIn(t, p), a)
    BY <1>3, <2>1 DEF Sets
  <2>2. CASE ~ Sets(AttributesIn(t, p), a)
    <3>1. j \in 1..(n - 1)
      <4>1. j # n
        BY <1>5, <2>2
      <4>. QED  BY <1>1, <4>1
    <3>2. Sets(AttributesIn(M, p), a)
      BY <1>5, <3>1 DEF MergeOf
    <3>3. PICK b \in AttributesIn(M, p) : b[1] = a[1]
      BY <3>2 DEF Sets
    <3>4. ~ Sets(AttributesIn(t, p), b)
      BY <2>2, <3>3 DEF Sets
    <3>. QED  BY <1>3, <3>3, <3>4 DEF Sets
  <2>. QED  BY <2>1, <2>2
<1>. QED  BY <1>2, <1>4, <1>5 DEF MergeOf, all

(* What BuildTree does, table after table.                                 *)
MergesIn(partial, tables) ==
  partial[0] = {} /\ \A i \in 1..Len(tables) : partial[i] = MergeTable(partial[i - 1], tables[i])

LEMMA BuildSteps ==
  ASSUME NEW tables, List(tables)
  PROVE  \E partial : BuildTree(tables) = Flatten(partial[Len(tables)]) /\ MergesIn(partial, tables)
<1> DEFINE n == Len(tables)
           Step(g, i) == IF i = 0 THEN {} ELSE MergeTable(g[i - 1], tables[i])
           Def(m, g) == [i \in 0..m |-> Step(g, i)]
           partial == CHOOSE g : g = Def(n, g)
           K == {m \in Nat : \E g : g = Def(m, g)}
<1>1. n \in Nat
  BY ListFacts
<1>2. 0 \in K
  <2> DEFINE g == [i \in 0..0 |-> {}]
  <2>1. \A i \in 0..0 : i = 0
    OBVIOUS
  <2>2. g = Def(0, g)
    BY <2>1
  <2> HIDE DEF g, Def
  <2>. QED  BY <2>2
<1>3. ASSUME NEW m \in 1..n, m - 1 \in K PROVE m \in K
  <2>1. PICK h : h = Def(m - 1, h)
    <3> HIDE DEF Def
    <3>. QED  BY <1>3
  <2> DEFINE I == 0..m
             J == 0..(m - 1)
  <2>2. m \in Nat /\ \A i \in J : i \in I
    BY <1>1
  <2>3. \A i \in I : i = 0 \/ i - 1 \in J
    BY <1>1
  <2>4. \A i \in J : h[i] = Step(h, i)
    <3> HIDE DEF Step
    <3>. QED  BY <2>1
  <2> DEFINE g == [i \in I |-> Step(h, i)]
  <2> HIDE DEF I, J
  <2>5. \A i \in J : g[i] = h[i]
    <3> HIDE DEF Step
    <3>. QED  BY <2>2, <2>4
  <2>6. ASSUME NEW i \in I PROVE g[i] = Step(g, i)
    <3>1. g[i] = Step(h, i)
      <4> HIDE DEF Step
      <4>. QED  OBVIOUS
    <3> HIDE DEF g
    <3>2. CASE i = 0
      BY <3>1, <3>2
    <3>3. CASE i # 0
      BY <2>3, <2>5, <3>1, <3>3
    <3>. QED  BY <3>2, <3>3
  <2>7. g = [i \in I |-> g[i]]
    <3> HIDE DEF Step
    <3>. QED  OBVIOUS
  <2>8. g = Def(m, g)
    <3> HIDE DEF Step, g
    <3>. QED  BY <2>6, <2>7 DEF I
  <2> HIDE DEF Def, g
  <2>. QED  BY <2>2, <2>8
<1>4. n \in K
  <2>1. n \in 0..n
    BY <1>1
  <2> HIDE DEF n, K
  <2>. QED  BY <1>1, <1>2, <1>3, <2>1, UpTo
<1>5. partial = Def(n, partial)
  <2> HIDE DEF Def, n
  <2>. QED  BY <1>4
<1>6. BuildTree(tables) = Flatten(partial[n])
  BY DEF BuildTree
<1> HIDE DEF partial
<1>7. \A i \in 0..n : partial[i] = Step(partial, i)
  <2> HIDE DEF Step, n
  <2>. QED  BY <1>5
<1>8. MergesIn(partial, tables)
  <2>1. 0 \in 0..n /\ \A i \in 1..n : i \in 0..n /\ i # 0
    BY <1>1
  <2> HIDE DEF n
  <2>2. partial[0] = {} /\ \A i \in 1..n : partial[i] = MergeTable(partial[i - 1], tables[i])
    BY <1>7, <2>1
  <2>. QED  BY <2>2 DEF MergesIn, n
<1>. QED  BY <1>6, <1>8

LEMMA BuildTreeIs ==
  ASSUME NEW tables, AreTables(tables)
  PROVE  \E M : BuildTree(tables) = Flatten(M) /\ MergeOf(M, tables, Len(tables))
<1> DEFINE n == Len(tables)
<1>1. n \in Nat
  BY ListFacts DEF AreTables
<1>2. PICK partial : BuildTree(tables) = Flatten(partial[n]) /\ MergesIn(partial, tables)
  BY BuildSteps DEF AreTables
<1> DEFINE K == {i \in 0..n : MergeOf(partial[i], tables, i)}
<1>3. 0 \in K
  BY <1>1, <1>2, NothingMerged DEF MergesIn
<1>4. ASSUME NEW i \in 1..n, i - 1 \in K PROVE i \in K
  <2>1. partial[i] = MergeTable(partial[i - 1], tables[i])
    BY <1>2 DEF MergesIn
  <2>2. MergeOf(partial[i], tables, i)
    BY <1>4, <2>1, MergeOne
  <2>. QED  BY <1>1, <2>2
<1>5. n \in K
  <2>1. n \in 0..n
    BY <1>1
  <2> HIDE DEF n, K
  <2>. QED  BY <1>1, <1>3, <1>4, <2>1, UpTo
<1>. QED  BY <1>2, <1>5

(* What an address inherits, from the attributes of the prefixes.          *)
InheritsIn(M, p, q, a) ==
  /\ IsPrefix(q, p) /\ a \in AttributesIn(M, q)
  /\ \A r \in CIDRs : IsPrefix(r, p) /\ Len(r) > Len(q) => ~ Sets(AttributesIn(M, r), a)

LEMMA InheritsIs ==
  ASSUME NEW M, IsTable(M), NEW p \in CIDRs, NEW a
  PROVE  Inherits(M, p, a) <=> \E q \in CIDRs : InheritsIn(M, p, q, a)
<1>1. \A q, b : b \in AttributesIn(M, q) <=> \E n \in M : n.prefix = q /\ b \in n.attributes
  BY AttributesInIs
<1>2. \A n \in M : n.prefix \in CIDRs
  BY DEF IsTable
<1>3. ASSUME NEW m \in M
      PROVE  Overridden(M, p, m, a) <=>
               \E r \in CIDRs : IsPrefix(r, p) /\ Len(r) > Len(m.prefix) /\ Sets(AttributesIn(M, r), a)
  BY <1>1, <1>2 DEF Overridden, Sets
<1>4. ASSUME Inherits(M, p, a) PROVE \E q \in CIDRs : InheritsIn(M, p, q, a)
  <2>1. PICK m \in M : IsPrefix(m.prefix, p) /\ a \in m.attributes /\ ~ Overridden(M, p, m, a)
    BY <1>4 DEF Inherits
  <2>2. InheritsIn(M, p, m.prefix, a)
    BY <1>1, <1>3, <2>1 DEF InheritsIn
  <2>. QED  BY <1>2, <2>2
<1>5. ASSUME NEW q \in CIDRs, InheritsIn(M, p, q, a) PROVE Inherits(M, p, a)
  <2>1. PICK m \in M : m.prefix = q /\ a \in m.attributes
    BY <1>1, <1>5 DEF InheritsIn
  <2>2. ~ Overridden(M, p, m, a)
    BY <1>3, <1>5, <2>1 DEF InheritsIn
  <2>. QED  BY <1>5, <2>1, <2>2 DEF InheritsIn, Inherits
<1>. QED  BY <1>4, <1>5

(* What the tables give to an address, and what hides it.                  *)
Given(tables, ip, l, i, a) ==
  /\ i \in DOMAIN tables
  /\ \E n \in tables[i] : IsPrefix(n.prefix, ip) /\ Len(n.prefix) = l /\ a \in n.attributes

Hidden(tables, ip, l, i, a) ==
  \E k, j, b : Given(tables, ip, k, j, b) /\ b[1] = a[1] /\ (k > l \/ (k = l /\ j > i))

LEMMA AttributesOfIs ==
  ASSUME NEW tables, NEW ip, NEW a
  PROVE  a \in AttributesOf(tables, ip) <=>
           \E l, i : Given(tables, ip, l, i, a) /\ ~ Hidden(tables, ip, l, i, a)
<1> DEFINE given(i) == UNION {{<<Len(n.prefix), i, c>> : c \in n.attributes} :
                                n \in {m \in tables[i] : IsPrefix(m.prefix, ip)}}
           attributes == UNION {given(i) : i \in DOMAIN tables}
           Hides(y, x) == /\ y[3][1] = x[3][1]
                          /\ y[1] > x[1] \/ (y[1] = x[1] /\ y[2] > x[2])
<1>1. AttributesOf(tables, ip) = {x[3] : x \in {z \in attributes : \A y \in attributes : ~ Hides(y, z)}}
  BY DEF AttributesOf
<1>2. \A x : x \in attributes <=>
               \E i \in DOMAIN tables : \E n \in tables[i] : \E c \in n.attributes :
                 IsPrefix(n.prefix, ip) /\ x = <<Len(n.prefix), i, c>>
  OBVIOUS
<1> HIDE DEF attributes
<1>3. \A x : x \in attributes => Given(tables, ip, x[1], x[2], x[3]) /\ x = <<x[1], x[2], x[3]>>
  BY <1>2 DEF Given
<1>4. \A l, i, b : Given(tables, ip, l, i, b) => <<l, i, b>> \in attributes
  BY <1>2 DEF Given
<1>5. ASSUME NEW x \in attributes
      PROVE  (\E y \in attributes : Hides(y, x)) <=> Hidden(tables, ip, x[1], x[2], x[3])
  <2>1. ASSUME NEW y \in attributes, Hides(y, x) PROVE Hidden(tables, ip, x[1], x[2], x[3])
    BY <1>3, <2>1 DEF Hidden
  <2>2. ASSUME Hidden(tables, ip, x[1], x[2], x[3]) PROVE \E y \in attributes : Hides(y, x)
    <3>1. PICK k, j, b : /\ Given(tables, ip, k, j, b)
                         /\ b[1] = x[3][1] /\ (k > x[1] \/ (k = x[1] /\ j > x[2]))
      BY <2>2 DEF Hidden
    <3> DEFINE y == <<k, j, b>>
    <3>2. y \in attributes /\ y[1] = k /\ y[2] = j /\ y[3] = b
      BY <1>4, <3>1
    <3> HIDE DEF y
    <3>. QED  BY <3>1, <3>2
  <2>. QED  BY <2>1, <2>2
<1> HIDE DEF Hides
<1>6. ASSUME a \in AttributesOf(tables, ip)
      PROVE  \E l, i : Given(tables, ip, l, i, a) /\ ~ Hidden(tables, ip, l, i, a)
  <2>1. PICK x \in attributes : a = x[3] /\ \A y \in attributes : ~ Hides(y, x)
    BY <1>1, <1>6
  <2>. QED  BY <1>3, <1>5, <2>1
<1>7. ASSUME NEW l, NEW i, Given(tables, ip, l, i, a), ~ Hidden(tables, ip, l, i, a)
      PROVE  a \in AttributesOf(tables, ip)
  <2> DEFINE x == <<l, i, a>>
  <2>1. x \in attributes /\ x[1] = l /\ x[2] = i /\ x[3] = a
    BY <1>4, <1>7
  <2> HIDE DEF x
  <2>2. \A y \in attributes : ~ Hides(y, x)
    BY <1>5, <1>7, <2>1
  <2>. QED  BY <1>1, <2>1, <2>2
<1>. QED  BY <1>6, <1>7

(* Both say the same.                                                      *)
LEMMA GivenIs ==
  ASSUME NEW tables, AreTables(tables), NEW ip \in CIDRs, NEW l, NEW i, NEW a
  PROVE  Given(tables, ip, l, i, a) <=>
           /\ i \in 1..Len(tables)
           /\ \E q \in CIDRs : IsPrefix(q, ip) /\ Len(q) = l /\ a \in AttributesIn(tables[i], q)
<1>1. DOMAIN tables = 1..Len(tables)
  BY ListFacts DEF AreTables
<1>2. ASSUME i \in 1..Len(tables)
      PROVE  /\ \A n \in tables[i] : n.prefix \in CIDRs
             /\ \A q, b : b \in AttributesIn(tables[i], q) <=> \E n \in tables[i] : n.prefix = q /\ b \in n.attributes
  BY <1>2, AttributesInIs DEF AreTables, IsTable
<1>. QED  BY <1>1, <1>2 DEF Given

LEMMA LookupIs ==
  ASSUME NEW tables, AreTables(tables), NEW ip \in CIDRs
  PROVE  Lookup(BuildTree(tables), ip) = AttributesOf(tables, ip)
<1> DEFINE n == Len(tables)
           In(i, q) == AttributesIn(tables[i], q)
<1>1. n \in Nat
  BY ListFacts DEF AreTables
<1>2. PICK M : BuildTree(tables) = Flatten(M) /\ MergeOf(M, tables, n)
  BY BuildTreeIs
<1>3. /\ IsTable(M)
      /\ \A p, a : a \in AttributesIn(M, p) <=> GivenBy(tables, n, p, a)
      /\ \A p, a : (\E j \in 1..n : Sets(In(j, p), a)) => Sets(AttributesIn(M, p), a)
  BY <1>2 DEF MergeOf
<1>4. \A q \in CIDRs : Len(q) \in Nat
  BY DEF CIDRs
<1>5. ASSUME NEW a, NEW q \in CIDRs, InheritsIn(M, ip, q, a)
      PROVE  \E l, i : Given(tables, ip, l, i, a) /\ ~ Hidden(tables, ip, l, i, a)
  <2>1. PICK j \in 1..n : a \in In(j, q) /\ \A k \in 1..n : k > j => ~ Sets(In(k, q), a)
    BY <1>3, <1>5 DEF InheritsIn, GivenBy
  <2>2. Given(tables, ip, Len(q), j, a)
    BY <1>5, <2>1, GivenIs DEF InheritsIn
  <2>3. ASSUME NEW k, NEW i, NEW b, Given(tables, ip, k, i, b), b[1] = a[1], k > Len(q) \/ (k = Len(q) /\ i > j)
        PROVE  FALSE
    <3>1. PICK r \in CIDRs : i \in 1..n /\ IsPrefix(r, ip) /\ Len(r) = k /\ b \in In(i, r)
      BY <2>3, GivenIs
    <3>2. Sets(In(i, r), a)
      BY <2>3, <3>1 DEF Sets
    <3>3. CASE k > Len(q)
      <4>1. Sets(AttributesIn(M, r), a)
        BY <1>3, <3>1, <3>2
      <4>. QED  BY <1>5, <3>1, <3>3, <4>1 DEF InheritsIn
    <3>4. CASE k = Len(q) /\ i > j
      <4>1. r = q
        <5>1. SameBits(r, ip, Len(r)) /\ SameBits(q, ip, Len(q))
          BY <1>5, <3>1, PrefixIs DEF InheritsIn
        <5>2. SameBits(r, q, Len(r))
          BY <3>1, <3>4, <5>1 DEF SameBits
        <5>. QED  BY <3>1, <3>4, <5>2, SamePrefix
      <4>. QED  BY <2>1, <3>1, <3>2, <3>4, <4>1
    <3>. QED  BY <2>3, <3>3, <3>4
  <2>4. ~ Hidden(tables, ip, Len(q), j, a)
    BY <2>3 DEF Hidden
  <2>. QED  BY <2>2, <2>4
<1>6. ASSUME NEW a, NEW l, NEW i, Given(tables, ip, l, i, a), ~ Hidden(tables, ip, l, i, a)
      PROVE  \E q \in CIDRs : InheritsIn(M, ip, q, a)
  <2>1. PICK q \in CIDRs : i \in 1..n /\ IsPrefix(q, ip) /\ Len(q) = l /\ a \in In(i, q)
    BY <1>6, GivenIs
  <2>2. ASSUME NEW k \in 1..n, k > i, Sets(In(k, q), a) PROVE FALSE
    <3>1. PICK b \in In(k, q) : b[1] = a[1]
      BY <2>2 DEF Sets
    <3>2. Given(tables, ip, l, k, b)
      BY <2>1, <3>1, GivenIs
    <3>. QED  BY <1>6, <2>2, <3>1, <3>2 DEF Hidden
  <2>3. a \in AttributesIn(M, q)
    <3>1. GivenBy(tables, n, q, a)
      BY <2>1, <2>2 DEF GivenBy
    <3>. QED  BY <1>3, <3>1
  <2>4. ASSUME NEW r \in CIDRs, IsPrefix(r, ip), Len(r) > Len(q), Sets(AttributesIn(M, r), a) PROVE FALSE
    <3>1. PICK b \in AttributesIn(M, r) : b[1] = a[1]
      BY <2>4 DEF Sets
    <3>2. PICK j \in 1..n : b \in In(j, r)
      BY <1>3, <3>1 DEF GivenBy
    <3>3. Given(tables, ip, Len(r), j, b)
      BY <2>4, <3>2, GivenIs
    <3>. QED  BY <1>6, <2>1, <2>4, <3>1, <3>3 DEF Hidden
  <2>5. InheritsIn(M, ip, q, a)
    BY <2>1, <2>3, <2>4 DEF InheritsIn
  <2>. QED  BY <2>5
<1>7. ASSUME NEW a PROVE a \in Lookup(BuildTree(tables), ip) <=> a \in AttributesOf(tables, ip)
  <2>1. a \in Lookup(BuildTree(tables), ip) <=> Inherits(M, ip, a)
    BY <1>2, <1>3, FlattenLookup
  <2>2. Inherits(M, ip, a) <=> \E q \in CIDRs : InheritsIn(M, ip, q, a)
    BY <1>3, InheritsIs
  <2>. QED  BY <1>5, <1>6, <2>1, <2>2, AttributesOfIs
<1>8. \A S, T : (\A a : a \in S <=> a \in T) => S = T
  OBVIOUS
<1>. QED  BY <1>7, <1>8

-----------------------------------------------------------------------------
(* The tables of the tree that is published.                               *)
LEMMA SeqIsList ==
  ASSUME NEW S, NEW q \in Seq(S)
  PROVE  List(q)
<1>1. Len(q) \in Nat /\ q = [i \in 1..Len(q) |-> q[i]]
  OBVIOUS
<1>. QED  BY <1>1, ListIs

LEMMA TablesAreTables ==
  ASSUME NetInv, NEW order \in Orders
  PROVE  AreTables(Tables(order))
<1> DEFINE All == FileTables \cup SourceTables \cup {NoTable, Static}
           asn == [i \in DOMAIN ASNDatabases |-> built.databases[ASNDatabases[i]]]
           geo == [i \in DOMAIN GeoDatabases |-> built.databases[GeoDatabases[i]]]
           src == [i \in DOMAIN order |-> built.sources[order[i]]]
<1>1. \A table \in All : IsTable(table)
  BY TablesAssumption, FS_EmptySet DEF IsTable, NoTable
<1>2. /\ \A d \in Databases : built.databases[d] \in FileTables \cup {NoTable}
      /\ \A s \in Sources : built.sources[s] \in SourceTables \cup {NoTable}
  BY DEF NetInv, BuiltType
<1>3. Len(ASNDatabases) \in Nat /\ Len(GeoDatabases) \in Nat /\ Cardinality(Sources) \in Nat
  BY TablesAssumption, NetworksAssumption, FS_CardinalityType
<1>4. asn \in Seq(All)
  <2>1. DOMAIN ASNDatabases = 1..Len(ASNDatabases)
        /\ \A i \in 1..Len(ASNDatabases) : ASNDatabases[i] \in Databases
    BY TablesAssumption DEF Databases
  <2>2. asn \in [1..Len(ASNDatabases) -> All]
    BY <1>2, <2>1
  <2> HIDE DEF asn, All
  <2>. QED  BY <1>3, <2>2
<1>5. geo \in Seq(All)
  <2>1. DOMAIN GeoDatabases = 1..Len(GeoDatabases)
        /\ \A i \in 1..Len(GeoDatabases) : GeoDatabases[i] \in Databases
    BY TablesAssumption DEF Databases
  <2>2. geo \in [1..Len(GeoDatabases) -> All]
    BY <1>2, <2>1
  <2> HIDE DEF geo, All
  <2>. QED  BY <1>3, <2>2
<1>6. src \in Seq(All)
  <2>1. DOMAIN order = 1..Cardinality(Sources) /\ \A i \in DOMAIN order : order[i] \in Sources
    BY DEF Orders
  <2>2. src \in [1..Cardinality(Sources) -> All]
    BY <1>2, <2>1
  <2> HIDE DEF src, All
  <2>. QED  BY <1>3, <2>2
<1>7. <<Static>> \in Seq(All)
  OBVIOUS
<1>8. Tables(order) = asn \o geo \o src \o <<Static>>
  BY DEF Tables
<1> HIDE DEF All, asn, geo, src
<1>9. Tables(order) \in Seq(All)
  BY <1>4, <1>5, <1>6, <1>7, <1>8
<1>10. List(Tables(order)) /\ \A i \in 1..Len(Tables(order)) : Tables(order)[i] \in All
  BY <1>9, SeqIsList
<1>. QED  BY <1>1, <1>10 DEF AreTables

LEMMA LookupsAlwaysMerge == NetInv => LookupsMerge
<1> SUFFICES ASSUME NetInv, NEW order \in Orders, NEW ip \in Addresses
             PROVE  Lookup(networks(order), ip) = AttributesOf(Tables(order), ip)
  BY DEF LookupsMerge
<1>1. AreTables(Tables(order))
  BY TablesAreTables
<1>2. ip \in CIDRs
  BY TablesAssumption
<1>3. networks(order) = BuildTree(Tables(order))
  BY DEF networks
<1>. QED  BY <1>1, <1>2, <1>3, LookupIs

(* The tree that BuildTree makes of what was merged: for all tables, of    *)
(* any size, and for all addresses, a lookup gives each attribute from the *)
(* most specific prefix that sets it, and from the last table for it.      *)
THEOREM LookupsAreMerged == Spec => []LookupsMergeAll
<1>1. LookupsMerge => LookupsMergeAll
  BY DEF LookupsMergeAll
<1>. QED  BY <1>1, NetworksStart, NetworksSteps, LookupsAlwaysMerge, PTL DEF Spec

-----------------------------------------------------------------------------
(* The BMP connections.                                                    *)
(* Each connection comes from its own address and port.                    *)
Distinct == \A c, d \in Connections : Address[c] = Address[d] => c = d

Pending(c) == processor[c].step \in {"reach", "unreach"}

ProcessorStates ==
  {Idle} \cup [step : {"done"}]
    \cup [step : {"reach", "unreach"}, reference : References, prefix : PrefixSet]

PeerStates == {NoPeer} \cup [reference : References, left : {NoTime} \cup 0..Keep]

TypeInv ==
  /\ reader \in [Connections -> {"none", "reading", "exited"}]
  /\ queue \in [Connections -> Seq(Messages)]
  /\ \A c \in Connections : Len(queue[c]) <= MessageBuffer
  /\ processor \in [Connections -> ProcessorStates]
  /\ cleaner \in [Connections -> {"none", "waiting", "done"}]
  /\ sent \in [Connections -> 0..MaxMessages]
  /\ announced \in [Connections -> SUBSET (Names \X PrefixSet)]

PeersType ==
  /\ peers \in [PeerKeys -> PeerStates]
  /\ lastPeerReference \in 0..(MaxMessages * Cardinality(Connections))
  /\ staleTimer \in {NoTime} \cup 0..Keep
  /\ removing \in BOOLEAN
  /\ routes \subseteq RIB!Routes

(* The messages that were processed: each has added one peer at most.      *)
Processed ==
  {p \in Connections \X (1..MaxMessages) : p[2] <= sent[p[1]] - Len(queue[p[1]])}

ReferenceInv ==
  /\ lastPeerReference <= Cardinality(Processed)
  /\ \A c \in Connections : Len(queue[c]) <= sent[c]
  /\ \A k \in PeerKeys : peers[k].reference <= lastPeerReference
  /\ \A j, k \in PeerKeys :
       peers[k] # NoPeer /\ peers[j].reference = peers[k].reference => j = k

(* Only the peers of a connection that is over, messages included, are     *)
(* going to be removed.                                                    *)
KeptInv ==
  /\ \A c \in Connections :
       cleaner[c] = "done" => reader[c] = "exited" /\ processor[c].step = "done"
  /\ \A k \in PeerKeys, c \in Connections :
       k[1] = Address[c] /\ peers[k] # NoPeer /\ peers[k].left # NoTime => cleaner[c] = "done"

(* The peer whose route is about to change is still there.                 *)
PendingInv ==
  \A c \in Connections :
    Pending(c) => \E name \in Names : peers[Key(c, name)].reference = processor[c].reference

(* A message that decides whether a prefix is announced.                   *)
Decides(m, a) ==
  /\ m.name = a[1]
  /\ m.type # "up"
  /\ m.type # "down" => m.prefix = a[2]

(* Whether a prefix is announced once the messages q are processed, from   *)
(* whether it is before.                                                   *)
After(q, a, before) ==
  \/ \E i \in 1..Len(q) :
       /\ Decides(q[i], a) /\ q[i].type = "reach"
       /\ \A j \in (i + 1)..Len(q) : ~ Decides(q[j], a)
  \/ before /\ \A i \in 1..Len(q) : ~ Decides(q[i], a)

InRIB(prefix, reference) == \E r \in routes : r.prefix = prefix /\ r.peer = reference

(* The route is in the RIB once the change in progress is made.            *)
Applied(c, a) ==
  LET reference == peers[Key(c, a[1])].reference
  IN  IF Pending(c) /\ processor[c].reference = reference /\ processor[c].prefix = a[2]
        THEN processor[c].step = "reach"
        ELSE InRIB(a[2], reference)

AnnouncedInv ==
  \A c \in Connections :
    reader[c] # "exited" /\ processor[c].step # "done" =>
      \A a \in Names \X PrefixSet : a \in announced[c] <=> After(queue[c], a, Applied(c, a))

IInv == TypeInv /\ PeersType /\ ReferenceInv /\ KeptInv /\ RoutesOwned /\ PendingInv /\ AnnouncedInv

-----------------------------------------------------------------------------
LEMMA ReferencesType == MaxMessages * Cardinality(Connections) \in Nat /\ References \subseteq Nat \ {0}
<1>1. Cardinality(Connections) \in Nat /\ MaxMessages \in Nat
  BY BmpAssumption, FS_CardinalityType
<1> QED
  BY <1>1 DEF References

(* Sequences of messages.                                                  *)
LEMMA AfterAppend ==
  ASSUME NEW q \in Seq(Messages), NEW m \in Messages, NEW a, NEW before \in BOOLEAN
  PROVE  After(Append(q, m), a, before) <=>
           IF Decides(m, a) THEN m.type = "reach" ELSE After(q, a, before)
<1> DEFINE p == Append(q, m)
<1>1. /\ Len(q) \in Nat /\ Len(p) = Len(q) + 1 /\ p[Len(q) + 1] = m
      /\ \A i \in 1..Len(q) : p[i] = q[i]
  OBVIOUS
<1> HIDE DEF p
<1>2. CASE Decides(m, a)
  <2>1. After(p, a, before) => m.type = "reach"
    <3> SUFFICES ASSUME After(p, a, before) PROVE m.type = "reach"
      OBVIOUS
    <3>1. Len(q) + 1 \in 1..Len(p) /\ Decides(p[Len(q) + 1], a)
      BY <1>1, <1>2
    <3>2. PICK i \in 1..Len(p) : /\ Decides(p[i], a) /\ p[i].type = "reach"
                                 /\ \A j \in (i + 1)..Len(p) : ~ Decides(p[j], a)
      BY <3>1 DEF After
    <3>3. i = Len(q) + 1
      <4>1. ~ (Len(q) + 1 \in (i + 1)..Len(p))
        BY <3>1, <3>2
      <4> QED
        BY <1>1, <4>1
    <3> QED
      BY <1>1, <3>2, <3>3
  <2>2. m.type = "reach" => After(p, a, before)
    <3> SUFFICES ASSUME m.type = "reach" PROVE After(p, a, before)
      OBVIOUS
    <3> DEFINE i == Len(q) + 1
    <3>1. i \in 1..Len(p) /\ (i + 1)..Len(p) = {} /\ p[i] = m
      BY <1>1
    <3> HIDE DEF i
    <3> QED
      BY <1>2, <3>1 DEF After
  <2> QED
    BY <1>2, <2>1, <2>2 DEF p
<1>3. CASE ~ Decides(m, a)
  <2>1. \A i \in 1..Len(p) : Decides(p[i], a) => i \in 1..Len(q) /\ p[i] = q[i]
    <3> SUFFICES ASSUME NEW i \in 1..Len(p), Decides(p[i], a) PROVE i \in 1..Len(q) /\ p[i] = q[i]
      OBVIOUS
    <3>1. i # Len(q) + 1
      BY <1>1, <1>3
    <3> QED
      BY <1>1, <3>1
  <2>2. \A i \in 1..Len(q) : i \in 1..Len(p) /\ p[i] = q[i]
    BY <1>1
  <2>3. (\A i \in 1..Len(p) : ~ Decides(p[i], a)) <=> (\A i \in 1..Len(q) : ~ Decides(q[i], a))
    BY <2>1, <2>2
  <2>4. ASSUME NEW i \in 1..Len(q)
        PROVE  (\A j \in (i + 1)..Len(p) : ~ Decides(p[j], a)) <=> (\A j \in (i + 1)..Len(q) : ~ Decides(q[j], a))
    <3>1. \A j \in (i + 1)..Len(q) : j \in (i + 1)..Len(p) /\ p[j] = q[j]
      BY <1>1
    <3>2. \A j \in (i + 1)..Len(p) : j \in 1..Len(p) /\ (j \in 1..Len(q) => j \in (i + 1)..Len(q))
      BY <1>1
    <3> QED
      BY <2>1, <3>1, <3>2
  <2>5. After(p, a, before) <=> After(q, a, before)
    <3>1. (\E i \in 1..Len(p) : /\ Decides(p[i], a) /\ p[i].type = "reach"
                                /\ \A j \in (i + 1)..Len(p) : ~ Decides(p[j], a))
          <=> (\E i \in 1..Len(q) : /\ Decides(q[i], a) /\ q[i].type = "reach"
                                    /\ \A j \in (i + 1)..Len(q) : ~ Decides(q[j], a))
      BY <2>1, <2>2, <2>4
    <3> QED
      BY <2>3, <3>1 DEF After
  <2> QED
    BY <1>3, <2>5 DEF p
<1> QED
  BY <1>2, <1>3

LEMMA AfterTail ==
  ASSUME NEW q \in Seq(Messages), q # <<>>, NEW a, NEW before \in BOOLEAN, NEW then \in BOOLEAN,
         then <=> IF Decides(Head(q), a) THEN Head(q).type = "reach" ELSE before
  PROVE  After(q, a, before) <=> After(Tail(q), a, then)
<1> DEFINE p == Tail(q)
<1>1. /\ Len(p) \in Nat /\ Len(q) = Len(p) + 1 /\ q[1] = Head(q)
      /\ \A i \in 1..Len(p) : p[i] = q[i + 1]
  OBVIOUS
<1> HIDE DEF p
<1>2. \A i \in 1..Len(p) : i + 1 \in 1..Len(q) /\ i + 1 \in 2..Len(q) /\ q[i + 1] = p[i]
  BY <1>1
<1>3. \A i \in 1..Len(q) : i # 1 => i - 1 \in 1..Len(p) /\ p[i - 1] = q[i]
  <2> SUFFICES ASSUME NEW i \in 1..Len(q), i # 1 PROVE i - 1 \in 1..Len(p) /\ p[i - 1] = q[i]
    OBVIOUS
  <2>1. i - 1 \in 1..Len(p) /\ (i - 1) + 1 = i
    BY <1>1
  <2> QED
    BY <1>1, <2>1
<1>4. ASSUME NEW i \in 1..Len(p)
      PROVE  (\A j \in (i + 1)..Len(p) : ~ Decides(p[j], a))
             <=> (\A j \in ((i + 1) + 1)..Len(q) : ~ Decides(q[j], a))
  <2>1. \A j \in (i + 1)..Len(p) : j + 1 \in ((i + 1) + 1)..Len(q) /\ q[j + 1] = p[j]
    BY <1>1
  <2>2. \A j \in ((i + 1) + 1)..Len(q) : j - 1 \in (i + 1)..Len(p) /\ p[j - 1] = q[j]
    <3> SUFFICES ASSUME NEW j \in ((i + 1) + 1)..Len(q)
                 PROVE  j - 1 \in (i + 1)..Len(p) /\ p[j - 1] = q[j]
      OBVIOUS
    <3>1. j \in 1..Len(q) /\ j # 1 /\ j - 1 \in (i + 1)..Len(p)
      BY <1>1
    <3> QED
      BY <1>3, <3>1
  <2> QED
    BY <2>1, <2>2
<1> DEFINE Ends(s, i) == /\ Decides(s[i], a) /\ s[i].type = "reach"
                         /\ \A j \in (i + 1)..Len(s) : ~ Decides(s[j], a)
<1>5. \A i \in 1..Len(p) : Ends(p, i) <=> Ends(q, i + 1)
  BY <1>2, <1>4
<1>6. (\A i \in 1..Len(p) : ~ Decides(p[i], a)) <=> (\A i \in 2..Len(q) : ~ Decides(q[i], a))
  <2>1. \A i \in 2..Len(q) : i \in 1..Len(q) /\ i # 1
    BY <1>1
  <2> QED
    BY <1>2, <1>3, <2>1
<1>7. 1 \in 1..Len(q) /\ 1 + 1 = 2
  BY <1>1
<1>8. Ends(q, 1) <=> /\ Decides(q[1], a) /\ q[1].type = "reach"
                     /\ \A i \in 2..Len(q) : ~ Decides(q[i], a)
  BY <1>7
<1>9. \A i \in 1..Len(q) : i = 1 \/ i \in 2..Len(q)
  BY <1>1
<1>10. \A i \in 2..Len(q) : i \in 1..Len(q) /\ i # 1 /\ (i - 1) + 1 = i
  BY <1>1
<1>11. (\E i \in 1..Len(q) : Ends(q, i)) <=> Ends(q, 1) \/ \E i \in 1..Len(p) : Ends(p, i)
  <2>1. ASSUME NEW i \in 2..Len(q), Ends(q, i) PROVE \E j \in 1..Len(p) : Ends(p, j)
    <3>1. i - 1 \in 1..Len(p) /\ (i - 1) + 1 = i
      BY <1>3, <1>10
    <3>2. Ends(p, i - 1)
      <4> HIDE DEF Ends
      <4> QED
        BY <1>5, <2>1, <3>1
    <3> QED
      BY <3>1, <3>2
  <2>2. ASSUME NEW i \in 1..Len(p), Ends(p, i) PROVE \E j \in 1..Len(q) : Ends(q, j)
    <3> HIDE DEF Ends
    <3> QED
      BY <1>2, <1>5, <2>2
  <2> HIDE DEF Ends
  <2> QED
    BY <1>7, <1>9, <2>1, <2>2
<1>12. After(q, a, before) <=> \/ \E i \in 1..Len(q) : Ends(q, i)
                               \/ before /\ \A i \in 1..Len(q) : ~ Decides(q[i], a)
  BY DEF After
<1>13. After(p, a, then) <=> \/ \E i \in 1..Len(p) : Ends(p, i)
                             \/ then /\ \A i \in 1..Len(p) : ~ Decides(p[i], a)
  BY DEF After
<1>14. (\A i \in 1..Len(q) : ~ Decides(q[i], a))
       <=> ~ Decides(q[1], a) /\ \A i \in 2..Len(q) : ~ Decides(q[i], a)
  BY <1>7, <1>9, <1>10
<1> HIDE DEF Ends
<1>15. After(q, a, before) <=> After(p, a, then)
  BY <1>1, <1>6, <1>8, <1>11, <1>12, <1>13, <1>14
<1> QED
  BY <1>15 DEF p

-----------------------------------------------------------------------------
LEMMA ProcessedFinite ==
  ASSUME NEW some \in SUBSET (Connections \X (1..MaxMessages))
  PROVE  /\ IsFiniteSet(some) /\ Cardinality(some) \in Nat
         /\ Cardinality(some) <= MaxMessages * Cardinality(Connections)
<1> DEFINE All == Connections \X (1..MaxMessages)
<1>1. IsFiniteSet(1..MaxMessages) /\ Cardinality(1..MaxMessages) = MaxMessages
  BY BmpAssumption, FS_Interval
<1>2. IsFiniteSet(All) /\ Cardinality(All) = Cardinality(Connections) * MaxMessages
  BY <1>1, BmpAssumption, FS_Product
<1>3. some \in SUBSET All
  OBVIOUS
<1> HIDE DEF All
<1>4. IsFiniteSet(some) /\ Cardinality(some) <= Cardinality(All)
  BY <1>2, <1>3, FS_Subset
<1>5. Cardinality(some) \in Nat
  BY <1>4, FS_CardinalityType
<1>6. Cardinality(Connections) * MaxMessages = MaxMessages * Cardinality(Connections)
  BY BmpAssumption, FS_CardinalityType
<1> QED
  BY <1>2, <1>4, <1>5, <1>6

LEMMA InvRight == ASSUME IInv PROVE RoutesRight
<1>1. BmpTypeOK
  BY DEF IInv, TypeInv, PeersType, BmpTypeOK, ProcessorStates, PeerStates
<1>2. RoutesAnnounced
  <2> SUFFICES ASSUME NEW c \in Connections,
                      reader[c] = "reading", queue[c] = <<>>, processor[c] = Idle
               PROVE  announced[c] = {a \in Names \X PrefixSet :
                        \E r \in RIB!RoutesOf(a[2]) : r.peer = peers[Key(c, a[1])].reference}
    BY DEF RoutesAnnounced
  <2>1. announced[c] \subseteq Names \X PrefixSet
    BY DEF IInv, TypeInv
  <2>2. ~ Pending(c) /\ processor[c].step # "done"
    BY DEF Pending, Idle
  <2>3. ASSUME NEW a \in Names \X PrefixSet
        PROVE  a \in announced[c] <=>
                 \E r \in RIB!RoutesOf(a[2]) : r.peer = peers[Key(c, a[1])].reference
    <3>1. a \in announced[c] <=> After(<<>>, a, Applied(c, a))
      BY <2>2 DEF IInv, AnnouncedInv
    <3>2. After(<<>>, a, Applied(c, a)) <=> Applied(c, a)
      BY DEF After
    <3>3. Applied(c, a) <=> InRIB(a[2], peers[Key(c, a[1])].reference)
      BY <2>2 DEF Applied
    <3> QED
      BY <3>1, <3>2, <3>3 DEF InRIB, RIB!RoutesOf
  <2> QED
    BY <2>1, <2>3
<1> QED
  BY <1>1, <1>2 DEF RoutesRight, IInv

LEMMA InitInv == ASSUME BmpInit PROVE IInv
<1>1. TypeInv
  <2>1. \A c \in Connections : queue[c] = <<>>
    BY DEF BmpInit
  <2>2. \A c \in Connections : Len(queue[c]) <= MessageBuffer
    BY <2>1, BmpAssumption
  <2>3. 0 \in 0..MaxMessages
    BY BmpAssumption
  <2> QED
    BY <2>2, <2>3 DEF BmpInit, TypeInv, ProcessorStates
<1>2. PeersType
  <2>1. 0 \in 0..(MaxMessages * Cardinality(Connections))
    BY ReferencesType
  <2> QED
    BY <2>1 DEF BmpInit, PeersType, PeerStates, RIB!StoreInit
<1>3. ReferenceInv
  <2>1. Processed = {}
    <3> SUFFICES ASSUME NEW p \in Processed PROVE FALSE
      OBVIOUS
    <3>1. p[1] \in Connections /\ p[2] \in 1..MaxMessages /\ p[2] <= sent[p[1]] - Len(queue[p[1]])
      BY DEF Processed
    <3>2. sent[p[1]] = 0 /\ Len(queue[p[1]]) = 0
      BY <3>1 DEF BmpInit
    <3> QED
      BY <3>1, <3>2, BmpAssumption
  <2>2. Cardinality(Processed) = 0
    BY <2>1, FS_EmptySet
  <2>3. \A c \in Connections : Len(queue[c]) = 0 /\ sent[c] = 0
    BY DEF BmpInit
  <2> QED
    BY <2>2, <2>3 DEF BmpInit, ReferenceInv, NoPeer
<1>4. KeptInv /\ PendingInv /\ RoutesOwned
  BY DEF BmpInit, KeptInv, PendingInv, RoutesOwned, Pending, Idle, RIB!StoreInit
<1>5. AnnouncedInv
  <2> SUFFICES ASSUME NEW c \in Connections, NEW a \in Names \X PrefixSet
               PROVE  a \in announced[c] <=> After(queue[c], a, Applied(c, a))
    BY DEF AnnouncedInv
  <2>1. a \notin announced[c] /\ queue[c] = <<>> /\ ~ Pending(c) /\ routes = {}
    BY DEF BmpInit, Pending, Idle, RIB!StoreInit
  <2>2. ~ Applied(c, a)
    BY <2>1 DEF Applied, InRIB
  <2> QED
    BY <2>1, <2>2 DEF After
<1> QED
  BY <1>1, <1>2, <1>3, <1>4, <1>5 DEF IInv

-----------------------------------------------------------------------------
(* What is announced does not change when nothing that decides it does.    *)
LEMMA AnnouncedFrame ==
  ASSUME IInv,
         \A c \in Connections :
           reader'[c] # "exited" /\ processor'[c].step # "done" =>
             /\ reader[c] # "exited" /\ processor[c].step # "done"
             /\ queue'[c] = queue[c] /\ announced'[c] = announced[c]
             /\ \A a \in Names \X PrefixSet : Applied(c, a)' <=> Applied(c, a)
  PROVE  AnnouncedInv'
<1> SUFFICES ASSUME NEW c \in Connections, reader'[c] # "exited", processor'[c].step # "done",
                    NEW a \in Names \X PrefixSet
             PROVE  a \in announced'[c] <=> After(queue[c], a, Applied(c, a))'
  BY DEF AnnouncedInv
<1>1. a \in announced[c] <=> After(queue[c], a, Applied(c, a))
  BY DEF IInv, AnnouncedInv
<1>2. /\ queue'[c] = queue[c] /\ announced'[c] = announced[c]
      /\ Applied(c, a)' <=> Applied(c, a)
  OBVIOUS
<1> QED
  BY <1>1, <1>2 DEF After

(* No message is processed.                                                *)
LEMMA ReferenceFrame ==
  ASSUME IInv, UNCHANGED <<peers, lastPeerReference>>,
         \A c \in Connections :
           /\ Len(queue'[c]) <= sent'[c]
           /\ sent'[c] - Len(queue'[c]) = sent[c] - Len(queue[c])
  PROVE  ReferenceInv'
<1>1. Processed' = Processed
  BY DEF Processed
<1> QED
  BY <1>1 DEF IInv, ReferenceInv

LEMMA LengthsType ==
  ASSUME IInv, NEW c \in Connections
  PROVE  /\ queue[c] \in Seq(Messages) /\ Len(queue[c]) \in Nat /\ sent[c] \in Nat
         /\ Len(queue[c]) <= sent[c] /\ sent[c] \in 0..MaxMessages /\ MaxMessages \in Nat
<1>1. queue[c] \in Seq(Messages) /\ sent[c] \in 0..MaxMessages /\ Len(queue[c]) <= sent[c]
  BY DEF IInv, TypeInv, ReferenceInv
<1> QED
  BY <1>1, BmpAssumption

LEMMA AcceptInv ==
  ASSUME IInv, NEW c \in Connections, Accept(c)
  PROVE  IInv'
<1>1. /\ UNCHANGED <<queue, processor, peers, lastPeerReference, staleTimer, removing, routes,
                     sent, announced>>
      /\ reader[c] = "none"
      /\ reader' = [reader EXCEPT ![c] = "reading"]
      /\ cleaner' = [cleaner EXCEPT ![c] = "waiting"]
  BY DEF Accept, exporterVars
<1>2. TypeInv' /\ PeersType'
  BY <1>1 DEF IInv, TypeInv, PeersType
<1>3. ReferenceInv'
  BY <1>1, LengthsType, ReferenceFrame
<1>4. \A d \in Connections :
        /\ reader'[d] = IF d = c THEN "reading" ELSE reader[d]
        /\ cleaner'[d] = IF d = c THEN "waiting" ELSE cleaner[d]
  BY <1>1 DEF IInv, TypeInv
<1>5. KeptInv'
  BY <1>1, <1>4 DEF IInv, KeptInv
<1>6. RoutesOwned' /\ PendingInv'
  BY <1>1 DEF IInv, RoutesOwned, PendingInv, Pending
<1>7. AnnouncedInv'
  BY <1>1, <1>4, AnnouncedFrame DEF Applied, InRIB, Pending
<1> QED
  BY <1>2, <1>3, <1>5, <1>6, <1>7 DEF IInv

LEMMA ExitsInv ==
  ASSUME IInv, NEW c \in Connections, ReaderExit(c) \/ ProcessorExit(c)
  PROVE  IInv'
<1>1. /\ UNCHANGED <<queue, cleaner, peers, lastPeerReference, staleTimer, removing, routes,
                     sent, announced>>
      /\ reader' \in {reader, [reader EXCEPT ![c] = "exited"]}
      /\ \/ processor' = processor
         \/ processor[c] = Idle /\ processor' = [processor EXCEPT ![c] = [step |-> "done"]]
  BY DEF ReaderExit, ProcessorExit, exporterVars
<1>2. TypeInv' /\ PeersType'
  <2>1. [step |-> "done"] \in ProcessorStates
    BY DEF ProcessorStates
  <2>2. processor' \in [Connections -> ProcessorStates]
    BY <1>1, <2>1 DEF IInv, TypeInv
  <2>3. reader' \in [Connections -> {"none", "reading", "exited"}]
    BY <1>1 DEF IInv, TypeInv
  <2> QED
    BY <1>1, <2>2, <2>3 DEF IInv, TypeInv, PeersType
<1>3. ReferenceInv'
  BY <1>1, LengthsType, ReferenceFrame
<1>4. \A d \in Connections :
        /\ reader'[d] \in {reader[d], "exited"}
        /\ processor'[d] = processor[d] \/ processor'[d].step = "done"
  BY <1>1 DEF IInv, TypeInv
<1>5. KeptInv'
  <2>1. \A d \in Connections :
          reader[d] = "exited" /\ processor[d].step = "done" =>
            reader'[d] = "exited" /\ processor'[d].step = "done"
    BY <1>4
  <2> QED
    BY <1>1, <2>1 DEF IInv, KeptInv
<1>6. RoutesOwned' /\ PendingInv'
  <2>1. \A d \in Connections : Pending(d)' => processor'[d] = processor[d]
    BY <1>4 DEF Pending
  <2> QED
    BY <1>1, <2>1 DEF IInv, RoutesOwned, PendingInv, Pending
<1>7. AnnouncedInv'
  <2>1. \A d \in Connections :
          reader'[d] # "exited" /\ processor'[d].step # "done" =>
            reader'[d] = reader[d] /\ processor'[d] = processor[d]
    BY <1>4
  <2> QED
    BY <1>1, <2>1, AnnouncedFrame DEF Applied, InRIB, Pending
<1> QED
  BY <1>2, <1>3, <1>5, <1>6, <1>7 DEF IInv

(* What a message makes of what its exporter announces.                    *)
LEMMA AnnouncedDecides ==
  ASSUME NEW before, NEW m \in Messages, NEW a \in Names \X PrefixSet
  PROVE  a \in Announced(before, m) <=> IF Decides(m, a) THEN m.type = "reach" ELSE a \in before
<1>1. a = <<a[1], a[2]>> /\ m.type \in {"up", "down", "reach", "unreach"}
  BY DEF Messages
<1>2. CASE m.type = "reach"
  <2>1. Announced(before, m) = before \cup {<<m.name, m.prefix>>}
    BY <1>2 DEF Announced
  <2>2. Decides(m, a) <=> a = <<m.name, m.prefix>>
    BY <1>1, <1>2 DEF Decides
  <2> QED
    BY <1>2, <2>1, <2>2
<1>3. CASE m.type = "unreach"
  <2>1. Announced(before, m) = before \ {<<m.name, m.prefix>>}
    BY <1>3 DEF Announced
  <2>2. Decides(m, a) <=> a = <<m.name, m.prefix>>
    BY <1>1, <1>3 DEF Decides
  <2> QED
    BY <1>3, <2>1, <2>2
<1>4. CASE m.type = "down"
  <2>1. Announced(before, m) = {b \in before : b[1] # m.name}
    BY <1>4 DEF Announced
  <2>2. Decides(m, a) <=> a[1] = m.name
    BY <1>4 DEF Decides
  <2> QED
    BY <1>4, <2>1, <2>2
<1>5. CASE m.type = "up"
  BY <1>5 DEF Announced, Decides
<1> QED
  BY <1>1, <1>2, <1>3, <1>4, <1>5

LEMMA ReadInv ==
  ASSUME IInv, NEW c \in Connections, NEW m \in Messages, Read(c, m)
  PROVE  IInv'
<1>1. /\ UNCHANGED <<reader, processor, cleaner, peers, lastPeerReference, staleTimer, removing,
                     routes>>
      /\ sent' = [sent EXCEPT ![c] = sent[c] + 1]
      /\ announced' = [announced EXCEPT ![c] = Announced(announced[c], m)]
      /\ queue' = [queue EXCEPT ![c] = Append(queue[c], m)]
      /\ sent[c] < MaxMessages /\ Len(queue[c]) < MessageBuffer
  BY DEF Read
<1>2. \A d \in Connections :
        /\ sent'[d] = IF d = c THEN sent[c] + 1 ELSE sent[d]
        /\ announced'[d] = IF d = c THEN Announced(announced[c], m) ELSE announced[d]
        /\ queue'[d] = IF d = c THEN Append(queue[c], m) ELSE queue[d]
  BY <1>1 DEF IInv, TypeInv
<1>3. /\ Append(queue[c], m) \in Seq(Messages) /\ Len(Append(queue[c], m)) = Len(queue[c]) + 1
      /\ Len(queue[c]) + 1 <= MessageBuffer /\ sent[c] + 1 \in 0..MaxMessages
      /\ sent[c] \in Nat /\ Len(queue[c]) \in Nat /\ Len(queue[c]) <= sent[c]
  BY <1>1, LengthsType, BmpAssumption
<1>4. TypeInv'
  <2>1. Announced(announced[c], m) \in SUBSET (Names \X PrefixSet)
    <3>1. announced[c] \in SUBSET (Names \X PrefixSet)
      BY DEF IInv, TypeInv
    <3>2. m.type = "reach" => m.name \in Names /\ m.prefix \in PrefixSet
      BY DEF Messages
    <3> QED
      BY <3>1, <3>2 DEF Announced
  <2>2. \A d \in Connections : Len(queue'[d]) <= MessageBuffer
    BY <1>2, <1>3 DEF IInv, TypeInv
  <2>3. /\ sent' \in [Connections -> 0..MaxMessages] /\ queue' \in [Connections -> Seq(Messages)]
        /\ announced' \in [Connections -> SUBSET (Names \X PrefixSet)]
    BY <1>1, <1>3, <2>1 DEF IInv, TypeInv
  <2> QED
    BY <1>1, <2>2, <2>3 DEF IInv, TypeInv
<1>5. PeersType' /\ KeptInv' /\ RoutesOwned' /\ PendingInv'
  BY <1>1 DEF IInv, PeersType, KeptInv, RoutesOwned, PendingInv, Pending
<1>6. ReferenceInv'
  <2>1. \A d \in Connections :
          /\ Len(queue'[d]) <= sent'[d]
          /\ sent'[d] - Len(queue'[d]) = sent[d] - Len(queue[d])
    <3> SUFFICES ASSUME NEW d \in Connections
                 PROVE  /\ Len(queue'[d]) <= sent'[d]
                        /\ sent'[d] - Len(queue'[d]) = sent[d] - Len(queue[d])
      OBVIOUS
    <3>1. CASE d = c
      <4>1. sent'[d] = sent[c] + 1 /\ Len(queue'[d]) = Len(queue[c]) + 1
        BY <1>2, <1>3, <3>1
      <4>2. sent[c] \in Nat /\ Len(queue[c]) \in Nat /\ Len(queue[c]) <= sent[c]
        BY <1>3
      <4> QED
        BY <3>1, <4>1, <4>2
    <3>2. CASE d # c
      BY <1>2, <3>2, LengthsType
    <3> QED
      BY <3>1, <3>2
  <2> QED
    BY <1>1, <2>1, ReferenceFrame
<1>7. AnnouncedInv'
  <2> SUFFICES ASSUME NEW d \in Connections, reader[d] # "exited", processor[d].step # "done",
                      NEW a \in Names \X PrefixSet
               PROVE  a \in announced'[d] <=> After(queue[d], a, Applied(d, a))'
    BY <1>1 DEF AnnouncedInv
  <2>1. a \in announced[d] <=> After(queue[d], a, Applied(d, a))
    BY DEF IInv, AnnouncedInv
  <2>2. Applied(d, a)' = Applied(d, a)
    BY <1>1 DEF Applied, Pending, InRIB
  <2>3. After(queue[d], a, Applied(d, a))' = After(queue'[d], a, Applied(d, a))
    BY <2>2 DEF After
  <2>4. CASE d # c
    BY <1>2, <2>1, <2>3, <2>4
  <2>5. CASE d = c
    <3>1. Applied(c, a) \in BOOLEAN /\ queue[c] \in Seq(Messages)
      BY LengthsType DEF Applied, InRIB
    <3>2. After(queue'[c], a, Applied(c, a)) <=>
            IF Decides(m, a) THEN m.type = "reach" ELSE After(queue[c], a, Applied(c, a))
      BY <1>2, <3>1, AfterAppend
    <3>3. a \in announced'[c] <=> IF Decides(m, a) THEN m.type = "reach" ELSE a \in announced[c]
      BY <1>2, AnnouncedDecides
    <3> QED
      BY <2>1, <2>3, <2>5, <3>2, <3>3
  <2> QED
    BY <2>4, <2>5
<1> QED
  BY <1>4, <1>5, <1>6, <1>7 DEF IInv

-----------------------------------------------------------------------------
LEMMA TimerFiresInv ==
  ASSUME IInv, TimerFires
  PROVE  IInv'
<1>1. /\ UNCHANGED <<reader, queue, processor, cleaner, peers, lastPeerReference, routes, sent,
                     announced>>
      /\ staleTimer' = NoTime /\ removing' = TRUE
  BY DEF TimerFires, connectionVars, exporterVars
<1>2. TypeInv' /\ PeersType'
  BY <1>1 DEF IInv, TypeInv, PeersType
<1>3. ReferenceInv'
  BY <1>1, LengthsType, ReferenceFrame
<1>4. KeptInv' /\ RoutesOwned' /\ PendingInv'
  BY <1>1 DEF IInv, KeptInv, RoutesOwned, PendingInv, Pending
<1>5. AnnouncedInv'
  BY <1>1, AnnouncedFrame DEF Applied, InRIB, Pending
<1> QED
  BY <1>2, <1>3, <1>4, <1>5 DEF IInv

(* The peers keep their reference, but their time changes.                 *)
LEMMA TimesInv ==
  ASSUME IInv,
         UNCHANGED <<reader, queue, processor, lastPeerReference, routes, sent, announced>>,
         \A k \in PeerKeys : /\ peers[k] = NoPeer <=> peers'[k] = NoPeer
                             /\ peers'[k].reference = peers[k].reference,
         TypeInv', PeersType', KeptInv'
  PROVE  IInv'
<1>1. ReferenceInv'
  <2>1. Processed' = Processed
    BY DEF Processed
  <2> QED
    BY <2>1 DEF IInv, ReferenceInv
<1>2. RoutesOwned'
  BY DEF IInv, RoutesOwned
<1>3. \A c \in Connections, name \in Names : Key(c, name) \in PeerKeys
  BY DEF Key, PeerKeys
<1>4. PendingInv'
  BY <1>3 DEF IInv, PendingInv, Pending
<1>5. AnnouncedInv'
  <2>1. \A c \in Connections, a \in Names \X PrefixSet : Applied(c, a)' <=> Applied(c, a)
    <3> SUFFICES ASSUME NEW c \in Connections, NEW a \in Names \X PrefixSet
                 PROVE  Applied(c, a)' <=> Applied(c, a)
      OBVIOUS
    <3>1. peers'[Key(c, a[1])].reference = peers[Key(c, a[1])].reference
      BY <1>3
    <3> QED
      BY <3>1 DEF Applied, InRIB, Pending
  <2> QED
    BY <2>1, AnnouncedFrame
<1> QED
  BY <1>1, <1>2, <1>4, <1>5 DEF IInv

(* The timer is set to the time of a peer, or to none.                     *)
LEMMA ScheduleType ==
  ASSUME NEW known, \A k \in PeerKeys : known[k] # NoPeer => known[k].left \in {NoTime} \cup 0..Keep,
         scheduleStalePeersRemoval(known)
  PROVE  staleTimer' \in {NoTime} \cup 0..Keep
<1> DEFINE times == StaleTimes(known) \cup {NoTime}
<1>1. times \subseteq {NoTime} \cup 0..Keep
  BY DEF StaleTimes
<1>2. times \subseteq Nat /\ NoTime \in times
  BY <1>1, BmpAssumption DEF NoTime
<1>3. PICK t \in times : \A u \in times : ~ (<<u, t>> \in OpToRel(<, Nat))
  <2>1. IsWellFoundedOn(OpToRel(<, Nat), Nat)
    BY NatLessThanWellFounded
  <2> HIDE DEF times
  <2> QED
    BY <1>2, <2>1, WFMin
<1>4. \A u \in times : t <= u
  <2> SUFFICES ASSUME NEW u \in times PROVE t <= u
    OBVIOUS
  <2>1. u \in Nat /\ t \in Nat
    BY <1>2
  <2>2. ~ (u < t)
    BY <1>3, <2>1 DEF OpToRel
  <2> QED
    BY <2>1, <2>2
<1>5. staleTimer' \in times
  BY <1>3, <1>4 DEF scheduleStalePeersRemoval
<1> QED
  BY <1>1, <1>5

LEMMA KnownPeer ==
  ASSUME IInv, NEW k \in PeerKeys, peers[k] # NoPeer
  PROVE  /\ peers[k] \in [reference : References, left : {NoTime} \cup 0..Keep]
         /\ peers[k].reference \in Nat \ {0}
<1>1. peers[k] \in [reference : References, left : {NoTime} \cup 0..Keep]
  BY DEF IInv, PeersType, PeerStates
<1> QED
  BY <1>1, ReferencesType

(* A peer given another time is the same peer.                             *)
LEMMA SamePeer ==
  ASSUME IInv, NEW k \in PeerKeys, peers[k] # NoPeer, NEW t \in {NoTime} \cup 0..Keep
  PROVE  LET peer == [peers[k] EXCEPT !.left = t]
         IN  /\ peer \in [reference : References, left : {NoTime} \cup 0..Keep]
             /\ peer # NoPeer /\ peer.reference = peers[k].reference /\ peer.left = t
<1>1. peers[k] \in [reference : References, left : {NoTime} \cup 0..Keep]
  BY KnownPeer
<1> DEFINE peer == [peers[k] EXCEPT !.left = t]
<1>2. peer \in [reference : References, left : {NoTime} \cup 0..Keep]
  BY <1>1
<1>3. peer.reference = peers[k].reference /\ peer.left = t
  BY <1>1
<1>4. NoPeer.reference = 0 /\ peer.reference # 0
  BY <1>3, KnownPeer DEF NoPeer
<1>5. peer # NoPeer
  BY <1>4
<1> QED
  BY <1>2, <1>3, <1>5

LEMMA TickInv ==
  ASSUME IInv, Tick
  PROVE  IInv'
<1>1. /\ UNCHANGED <<reader, queue, processor, cleaner, lastPeerReference, removing, routes, sent,
                     announced>>
      /\ staleTimer' = Less(staleTimer)
      /\ peers' = [k \in PeerKeys |-> IF peers[k] = NoPeer THEN NoPeer
                                      ELSE [peers[k] EXCEPT !.left = Less(peers[k].left)]]
  BY DEF Tick, connectionVars, exporterVars
<1>2. \A t \in {NoTime} \cup 0..Keep :
        Less(t) \in {NoTime} \cup 0..Keep /\ (Less(t) # NoTime => t # NoTime)
  BY BmpAssumption DEF Less, NoTime
<1>3. ASSUME NEW k \in PeerKeys, peers[k] # NoPeer
      PROVE  /\ peers'[k] \in PeerStates /\ peers'[k] # NoPeer
             /\ peers'[k].reference = peers[k].reference
             /\ peers'[k].left # NoTime => peers[k].left # NoTime
  <2>1. Less(peers[k].left) \in {NoTime} \cup 0..Keep
    BY <1>2, <1>3, KnownPeer
  <2>2. peers'[k] = [peers[k] EXCEPT !.left = Less(peers[k].left)]
    BY <1>1, <1>3
  <2>3. /\ peers'[k] \in [reference : References, left : {NoTime} \cup 0..Keep]
        /\ peers'[k] # NoPeer /\ peers'[k].reference = peers[k].reference
        /\ peers'[k].left = Less(peers[k].left)
    BY <1>3, <2>1, <2>2, SamePeer
  <2> QED
    BY <1>2, <1>3, <2>3, KnownPeer DEF PeerStates
<1>4. ASSUME NEW k \in PeerKeys, peers[k] = NoPeer PROVE peers'[k] = NoPeer
  BY <1>1, <1>4
<1>5. PeersType'
  <2>1. peers' \in [PeerKeys -> PeerStates]
    <3>1. \A k \in PeerKeys : peers'[k] \in PeerStates
      BY <1>3, <1>4 DEF PeerStates
    <3> QED
      BY <1>1, <3>1
  <2>2. staleTimer' \in {NoTime} \cup 0..Keep
    BY <1>1, <1>2 DEF IInv, PeersType
  <2> QED
    BY <1>1, <2>1, <2>2 DEF IInv, PeersType
<1>6. TypeInv'
  BY <1>1 DEF IInv, TypeInv
<1>7. KeptInv'
  BY <1>1, <1>3, <1>4 DEF IInv, KeptInv
<1> QED
  BY <1>1, <1>3, <1>4, <1>5, <1>6, <1>7, TimesInv

LEMMA handleConnectionDownInv ==
  ASSUME IInv, Distinct, NEW c \in Connections, handleConnectionDown(c)
  PROVE  IInv'
<1>1. /\ UNCHANGED <<reader, queue, processor, lastPeerReference, removing, routes, sent, announced>>
      /\ cleaner' = [cleaner EXCEPT ![c] = "done"]
      /\ reader[c] = "exited" /\ processor[c].step = "done"
      /\ scheduleStalePeersRemoval(peers')
      /\ peers' = [k \in PeerKeys |-> IF k[1] = Address[c] /\ peers[k] # NoPeer
                                      THEN [peers[k] EXCEPT !.left = Keep]
                                      ELSE peers[k]]
  BY DEF handleConnectionDown, markExporterAsStale, exporterVars
<1>2. Keep \in {NoTime} \cup 0..Keep
  BY BmpAssumption
<1>3. ASSUME NEW k \in PeerKeys
      PROVE  /\ peers'[k] \in PeerStates /\ (peers[k] = NoPeer <=> peers'[k] = NoPeer)
             /\ peers'[k].reference = peers[k].reference
             /\ k[1] # Address[c] => peers'[k] = peers[k]
  <2>1. CASE k[1] = Address[c] /\ peers[k] # NoPeer
    <3>1. peers'[k] = [peers[k] EXCEPT !.left = Keep]
      BY <1>1, <2>1
    <3> QED
      BY <1>2, <2>1, <3>1, SamePeer DEF PeerStates
  <2>2. CASE ~ (k[1] = Address[c] /\ peers[k] # NoPeer)
    BY <1>1, <2>2 DEF IInv, PeersType
  <2> QED
    BY <2>1, <2>2
<1>4. PeersType'
  <2>1. peers' \in [PeerKeys -> PeerStates]
    BY <1>1, <1>3
  <2>2. \A k \in PeerKeys : peers'[k] # NoPeer => peers'[k].left \in {NoTime} \cup 0..Keep
    BY <1>3 DEF PeerStates
  <2>3. staleTimer' \in {NoTime} \cup 0..Keep
    BY <1>1, <2>2, ScheduleType
  <2> QED
    BY <1>1, <2>1, <2>3 DEF IInv, PeersType
<1>5. TypeInv'
  BY <1>1 DEF IInv, TypeInv
<1>6. \A d \in Connections : cleaner'[d] = IF d = c THEN "done" ELSE cleaner[d]
  BY <1>1 DEF IInv, TypeInv
<1>7. KeptInv'
  <2>1. ASSUME NEW k \in PeerKeys, NEW d \in Connections,
               k[1] = Address[d], peers'[k] # NoPeer, peers'[k].left # NoTime
        PROVE  cleaner'[d] = "done"
    <3>1. CASE d = c
      BY <1>6, <3>1
    <3>2. CASE d # c
      <4>1. peers'[k] = peers[k]
        BY <1>3, <2>1, <3>2 DEF Distinct
      <4> QED
        BY <1>6, <2>1, <4>1 DEF IInv, KeptInv
    <3> QED
      BY <3>1, <3>2
  <2> QED
    BY <1>1, <1>6, <2>1 DEF IInv, KeptInv
<1> QED
  BY <1>1, <1>3, <1>4, <1>5, <1>7, TimesInv

-----------------------------------------------------------------------------
(* Peers that go leave the routes of the others alone.                     *)
LEMMA RemovePeersKeeps ==
  ASSUME IInv, NEW keys \in SUBSET PeerKeys, removePeers(keys)
  PROVE  /\ \A k \in PeerKeys : peers'[k] = IF k \in keys THEN NoPeer ELSE peers[k]
         /\ peers' \in [PeerKeys -> PeerStates] /\ routes' \subseteq RIB!Routes
         /\ RoutesOwned'
         /\ lastPeerReference' = lastPeerReference =>
              /\ \A k \in PeerKeys : peers'[k].reference <= lastPeerReference'
              /\ \A j, k \in PeerKeys :
                   peers'[k] # NoPeer /\ peers'[j].reference = peers'[k].reference => j = k
         /\ \A k \in PeerKeys \ keys, prefix \in PrefixSet :
              InRIB(prefix, peers[k].reference)' <=> InRIB(prefix, peers[k].reference)
         /\ \A k \in keys, prefix \in PrefixSet : ~ InRIB(prefix, 0)'
<1>1. /\ peers' = [k \in PeerKeys |-> IF k \in keys THEN NoPeer ELSE peers[k]]
      /\ routes' = {r \in routes : \A k \in keys : r.peer # peers[k].reference}
  BY DEF removePeers
<1>2. \A k \in PeerKeys : peers'[k] = IF k \in keys THEN NoPeer ELSE peers[k]
  BY <1>1
<1>3. peers' \in [PeerKeys -> PeerStates] /\ routes' \subseteq RIB!Routes
  BY <1>1 DEF IInv, PeersType, PeerStates
<1>4. \A r \in routes : r.peer \in Nat \ {0}
  BY ReferencesType DEF IInv, PeersType, RIB!Routes
<1>5. NoPeer.reference = 0
  BY DEF NoPeer
<1>6. RoutesOwned'
  <2> SUFFICES ASSUME NEW r \in routes' PROVE \E k \in PeerKeys : peers'[k].reference = r.peer
    BY DEF RoutesOwned
  <2>1. PICK k \in PeerKeys : peers[k].reference = r.peer
    BY <1>1 DEF IInv, RoutesOwned
  <2>2. k \notin keys
    BY <1>1, <2>1
  <2> QED
    BY <1>2, <2>1, <2>2
<1>7. ASSUME lastPeerReference' = lastPeerReference
      PROVE  /\ \A k \in PeerKeys : peers'[k].reference <= lastPeerReference'
             /\ \A j, k \in PeerKeys :
                  peers'[k] # NoPeer /\ peers'[j].reference = peers'[k].reference => j = k
  <2>1. \A k \in PeerKeys : peers'[k].reference <= lastPeerReference'
    <3>1. 0 <= lastPeerReference
      BY DEF IInv, PeersType
    <3> QED
      BY <1>2, <1>5, <1>7, <3>1 DEF IInv, ReferenceInv
  <2>2. ASSUME NEW j \in PeerKeys, NEW k \in PeerKeys,
               peers'[k] # NoPeer, peers'[j].reference = peers'[k].reference
        PROVE  j = k
    <3>1. peers'[k] = peers[k] /\ peers[k].reference # 0
      BY <1>2, <2>2, KnownPeer
    <3>2. peers'[j] = peers[j]
      BY <1>2, <1>5, <2>2, <3>1
    <3> QED
      BY <2>2, <3>1, <3>2 DEF IInv, ReferenceInv
  <2> QED
    BY <2>1, <2>2
<1>8. ASSUME NEW k \in PeerKeys \ keys, NEW prefix \in PrefixSet
      PROVE  InRIB(prefix, peers[k].reference)' <=> InRIB(prefix, peers[k].reference)
  <2>1. ASSUME NEW r \in routes, r.peer = peers[k].reference PROVE r \in routes'
    <3> SUFFICES ASSUME NEW j \in keys, r.peer = peers[j].reference PROVE FALSE
      BY <1>1
    <3>1. peers[k] # NoPeer
      BY <1>4, <1>5, <2>1
    <3> QED
      BY <2>1, <3>1 DEF IInv, ReferenceInv
  <2>2. routes' \subseteq routes
    BY <1>1
  <2>3. peers[k].reference = peers'[k].reference
    BY <1>2
  <2> QED
    BY <2>1, <2>2, <2>3 DEF InRIB
<1>9. \A prefix \in PrefixSet : ~ InRIB(prefix, 0)'
  BY <1>1, <1>4 DEF InRIB
<1> QED
  BY <1>2, <1>3, <1>6, <1>7, <1>8, <1>9

LEMMA KeysOf ==
  ASSUME NEW c \in Connections, NEW name \in Names
  PROVE  Key(c, name) \in PeerKeys /\ Key(c, name)[1] = Address[c] /\ Key(c, name)[2] = name
BY DEF Key, PeerKeys

LEMMA removeStalePeersInv ==
  ASSUME IInv, removeStalePeers
  PROVE  IInv'
<1> DEFINE keys == {k \in PeerKeys : Expired(k)}
<1>1. /\ UNCHANGED <<reader, queue, processor, cleaner, lastPeerReference, sent, announced>>
      /\ removing' = FALSE /\ removePeers(keys) /\ scheduleStalePeersRemoval(peers')
  BY DEF removeStalePeers, connectionVars, exporterVars
<1>2. ASSUME NEW c \in Connections, NEW k \in keys, k[1] = Address[c]
      PROVE  reader[c] = "exited" /\ processor[c].step = "done"
  <2>1. k \in PeerKeys /\ peers[k] # NoPeer /\ peers[k].left # NoTime
    BY BmpAssumption DEF Expired, NoTime
  <2> QED
    BY <1>2, <2>1 DEF IInv, KeptInv
<1>3. keys \in SUBSET PeerKeys
  OBVIOUS
<1> HIDE DEF keys
<1>4. /\ \A k \in PeerKeys : peers'[k] = IF k \in keys THEN NoPeer ELSE peers[k]
      /\ peers' \in [PeerKeys -> PeerStates] /\ routes' \subseteq RIB!Routes /\ RoutesOwned'
  BY <1>1, <1>3, RemovePeersKeeps
<1>5. PeersType'
  <2>1. \A k \in PeerKeys : peers'[k] # NoPeer => peers'[k].left \in {NoTime} \cup 0..Keep
    BY <1>4 DEF PeerStates
  <2>2. staleTimer' \in {NoTime} \cup 0..Keep
    BY <1>1, <2>1, ScheduleType
  <2> QED
    BY <1>1, <1>4, <2>2 DEF IInv, PeersType
<1>6. ReferenceInv'
  <2>1. Processed' = Processed
    BY <1>1 DEF Processed
  <2>2. /\ \A k \in PeerKeys : peers'[k].reference <= lastPeerReference'
        /\ \A j, k \in PeerKeys :
             peers'[k] # NoPeer /\ peers'[j].reference = peers'[k].reference => j = k
    BY <1>1, <1>3, RemovePeersKeeps
  <2> QED
    BY <1>1, <2>1, <2>2 DEF IInv, ReferenceInv
<1>7. KeptInv'
  BY <1>1, <1>4 DEF IInv, KeptInv
<1>8. PendingInv'
  <2> SUFFICES ASSUME NEW c \in Connections, Pending(c)
               PROVE  \E name \in Names : peers'[Key(c, name)].reference = processor[c].reference
    BY <1>1 DEF PendingInv, Pending
  <2>1. PICK name \in Names : peers[Key(c, name)].reference = processor[c].reference
    BY DEF IInv, PendingInv
  <2>2. Key(c, name) \notin keys
    BY <1>2, KeysOf DEF Pending
  <2> QED
    BY <1>4, <2>1, <2>2, KeysOf
<1>9. AnnouncedInv'
  <2>1. ASSUME NEW c \in Connections, reader[c] # "exited", NEW a \in Names \X PrefixSet
        PROVE  Applied(c, a)' <=> Applied(c, a)
    <3>1. a[1] \in Names /\ a[2] \in PrefixSet
      OBVIOUS
    <3>2. Key(c, a[1]) \in PeerKeys \ keys
      BY <1>2, <2>1, <3>1, KeysOf
    <3>3. peers'[Key(c, a[1])] = peers[Key(c, a[1])]
      BY <1>4, <3>2
    <3>4. InRIB(a[2], peers[Key(c, a[1])].reference)' <=> InRIB(a[2], peers[Key(c, a[1])].reference)
      <4> DEFINE k == Key(c, a[1])
      <4>1. k \in PeerKeys \ keys
        BY <3>2
      <4>2. k' = k
        BY DEF Key
      <4> HIDE DEF k
      <4>3. InRIB(a[2], peers[k].reference)' <=> InRIB(a[2], peers[k].reference)
        BY <1>1, <1>3, <3>1, <4>1, RemovePeersKeeps
      <4> QED
        BY <4>3 DEF k
    <3> QED
      BY <1>1, <3>3, <3>4 DEF Applied, Pending
  <2> QED
    BY <1>1, <2>1, AnnouncedFrame
<1>10. TypeInv'
  BY <1>1 DEF IInv, TypeInv
<1> QED
  BY <1>4, <1>5, <1>6, <1>7, <1>8, <1>9, <1>10 DEF IInv

-----------------------------------------------------------------------------
(* A message is taken from the queue of its connection.                    *)
LEMMA ReceiveFacts ==
  ASSUME IInv, NEW c \in Connections, NEW type, Receive(c, type), UNCHANGED sent
  PROVE  /\ queue[c] \in Seq(Messages) /\ queue[c] # <<>>
         /\ Head(queue[c]) \in Messages /\ Head(queue[c]).type = type
         /\ \A d \in Connections : queue'[d] = IF d = c THEN Tail(queue[c]) ELSE queue[d]
         /\ queue' \in [Connections -> Seq(Messages)]
         /\ \A d \in Connections : Len(queue'[d]) <= MessageBuffer /\ Len(queue'[d]) <= sent'[d]
         /\ Cardinality(Processed') = Cardinality(Processed) + 1
         /\ processor[c] = Idle
<1>1. /\ queue[c] # <<>> /\ Head(queue[c]).type = type /\ processor[c] = Idle
      /\ queue' = [queue EXCEPT ![c] = Tail(queue[c])]
  BY DEF Receive
<1>2. /\ queue[c] \in Seq(Messages) /\ Len(queue[c]) \in Nat /\ sent[c] \in 0..MaxMessages
      /\ sent[c] \in Nat /\ Len(queue[c]) <= sent[c] /\ MaxMessages \in Nat
  BY LengthsType
<1>3. /\ Head(queue[c]) \in Messages /\ Tail(queue[c]) \in Seq(Messages)
      /\ Len(Tail(queue[c])) = Len(queue[c]) - 1 /\ Len(queue[c]) > 0
  BY <1>1, <1>2
<1>4. \A d \in Connections : queue'[d] = IF d = c THEN Tail(queue[c]) ELSE queue[d]
  BY <1>1 DEF IInv, TypeInv
<1>5. queue' \in [Connections -> Seq(Messages)]
  BY <1>1, <1>3 DEF IInv, TypeInv
<1>6. ASSUME NEW d \in Connections
      PROVE  Len(queue'[d]) <= MessageBuffer /\ Len(queue'[d]) <= sent'[d]
  <2>1. Len(queue[d]) <= MessageBuffer /\ Len(queue[d]) <= sent[d] /\ Len(queue[d]) \in Nat
        /\ sent[d] \in Nat /\ MessageBuffer \in Nat
    BY LengthsType, BmpAssumption DEF IInv, TypeInv
  <2>2. Len(queue'[d]) \in {Len(queue[d]), Len(queue[d]) - 1}
    BY <1>3, <1>4
  <2> QED
    BY <2>1, <2>2
<1> DEFINE added == <<c, sent[c] - Len(queue[c]) + 1>>
<1>7. sent[c] - Len(queue[c]) + 1 \in 1..MaxMessages
  BY <1>2, <1>3
<1>8. added \notin Processed
  <2>1. ~ (sent[c] - Len(queue[c]) + 1 <= sent[c] - Len(queue[c]))
    BY <1>2
  <2> QED
    BY <2>1 DEF Processed
<1>9. Processed' = Processed \cup {added}
  <2>1. ASSUME NEW p \in Connections \X (1..MaxMessages)
        PROVE  p \in Processed' <=> p \in Processed \/ p = added
    <3>1. p = <<p[1], p[2]>> /\ p[1] \in Connections /\ p[2] \in Nat
      OBVIOUS
    <3>2. p \in Processed' <=> p[2] <= sent[p[1]] - Len(queue'[p[1]])
      BY DEF Processed
    <3>3. p \in Processed <=> p[2] <= sent[p[1]] - Len(queue[p[1]])
      BY DEF Processed
    <3>4. CASE p[1] # c
      BY <1>4, <3>1, <3>2, <3>3, <3>4
    <3>5. CASE p[1] = c
      <4>1. Len(queue'[c]) = Len(queue[c]) - 1
        BY <1>3, <1>4
      <4>2. p \in Processed' <=> p[2] <= sent[c] - (Len(queue[c]) - 1)
        BY <3>2, <3>5, <4>1
      <4>3. p = added <=> p[2] = sent[c] - Len(queue[c]) + 1
        BY <3>1, <3>5
      <4>4. p \in Processed <=> p[2] <= sent[c] - Len(queue[c])
        BY <3>3, <3>5
      <4> DEFINE x == p[2]
                 s == sent[c]
                 l == Len(queue[c])
      <4>5. x \in Nat /\ s \in Nat /\ l \in Nat
        BY <1>2, <3>1
      <4> HIDE DEF x, s, l
      <4>6. x <= s - (l - 1) <=> x <= s - l \/ x = s - l + 1
        BY <4>5
      <4> QED
        BY <4>2, <4>3, <4>4, <4>6 DEF x, s, l
    <3> QED
      BY <3>4, <3>5
  <2>2. Processed' \subseteq Connections \X (1..MaxMessages)
    BY DEF Processed
  <2>3. Processed \cup {added} \subseteq Connections \X (1..MaxMessages)
    BY <1>7 DEF Processed
  <2> HIDE DEF added
  <2> QED
    BY <2>1, <2>2, <2>3
<1>10. Cardinality(Processed') = Cardinality(Processed) + 1
  <2> HIDE DEF added
  <2>1. Processed \in SUBSET (Connections \X (1..MaxMessages))
    BY DEF Processed
  <2> QED
    BY <1>8, <1>9, <2>1, ProcessedFinite, FS_AddElement
<1> QED
  BY <1>1, <1>2, <1>3, <1>4, <1>5, <1>6, <1>10

LEMMA ReceiveAnnounced ==
  ASSUME IInv, NEW c \in Connections, NEW type, Receive(c, type), UNCHANGED <<sent, reader, announced>>,
         \A d \in Connections : d # c => processor'[d] = processor[d],
         \A d \in Connections, a \in Names \X PrefixSet :
           d # c => (Applied(d, a)' <=> Applied(d, a)),
         \A a \in Names \X PrefixSet :
           Applied(c, a)' <=> IF Decides(Head(queue[c]), a) THEN Head(queue[c]).type = "reach"
                                                            ELSE Applied(c, a)
  PROVE  AnnouncedInv'
<1> SUFFICES ASSUME NEW d \in Connections, reader'[d] # "exited", processor'[d].step # "done",
                    NEW a \in Names \X PrefixSet
             PROVE  a \in announced'[d] <=> After(queue[d], a, Applied(d, a))'
  BY DEF AnnouncedInv
<1>1. a \in announced[d] <=> After(queue[d], a, Applied(d, a))
  <2>1. reader[d] # "exited" /\ processor[d].step # "done"
    BY ReceiveFacts DEF Idle
  <2> QED
    BY <2>1 DEF IInv, AnnouncedInv
<1>2. queue[c] \in Seq(Messages) /\ queue[c] # <<>>
      /\ queue'[d] = IF d = c THEN Tail(queue[c]) ELSE queue[d]
  BY ReceiveFacts
<1>3. After(queue[d], a, Applied(d, a))' = After(queue'[d], a, Applied(d, a)')
  BY DEF After
<1>4. CASE d # c
  <2>1. Applied(d, a)' <=> Applied(d, a)
    BY <1>4
  <2>2. After(queue[d], a, Applied(d, a)') <=> After(queue[d], a, Applied(d, a))
    BY <2>1 DEF After
  <2> QED
    BY <1>1, <1>2, <1>3, <1>4, <2>2
<1>5. CASE d = c
  <2>1. Applied(c, a) \in BOOLEAN /\ Applied(c, a)' \in BOOLEAN
    BY DEF Applied, InRIB
  <2>2. Applied(c, a)' <=> IF Decides(Head(queue[c]), a) THEN Head(queue[c]).type = "reach"
                                                        ELSE Applied(c, a)
    OBVIOUS
  <2>3. After(queue[c], a, Applied(c, a)) <=> After(Tail(queue[c]), a, Applied(c, a)')
    BY <1>2, <2>1, <2>2, AfterTail
  <2> QED
    BY <1>1, <1>2, <1>3, <1>5, <2>3
<1> QED
  BY <1>4, <1>5

(* A peer that was not known gets a reference that no route has.           *)
LEMMA AddPeerFacts ==
  ASSUME IInv, NEW k \in PeerKeys, addPeer(k), UNCHANGED routes,
         Cardinality(Processed') = Cardinality(Processed) + 1
  PROVE  /\ peers' \in [PeerKeys -> PeerStates] /\ peers'[k] # NoPeer
         /\ \A j \in PeerKeys : j # k => peers'[j] = peers[j]
         /\ peers[k] # NoPeer => peers'[k] = peers[k]
         /\ peers[k] = NoPeer => peers'[k].left = NoTime
         /\ lastPeerReference' \in 0..(MaxMessages * Cardinality(Connections))
         /\ lastPeerReference' <= Cardinality(Processed')
         /\ \A j \in PeerKeys : peers'[j].reference <= lastPeerReference'
         /\ \A i, j \in PeerKeys :
              peers'[j] # NoPeer /\ peers'[i].reference = peers'[j].reference => i = j
         /\ \A j \in PeerKeys, prefix \in PrefixSet :
              InRIB(prefix, peers'[j].reference) <=> InRIB(prefix, peers[j].reference)
<1>1. /\ Cardinality(Processed) \in Nat /\ Cardinality(Processed') <= MaxMessages * Cardinality(Connections)
      /\ MaxMessages * Cardinality(Connections) \in Nat /\ lastPeerReference \in Nat
      /\ lastPeerReference <= Cardinality(Processed)
  <2>1. Processed \in SUBSET (Connections \X (1..MaxMessages))
    BY DEF Processed
  <2>2. Processed' \in SUBSET (Connections \X (1..MaxMessages))
    BY DEF Processed
  <2>3. lastPeerReference \in Nat /\ lastPeerReference <= Cardinality(Processed)
    BY ReferencesType DEF IInv, PeersType, ReferenceInv
  <2> QED
    BY <2>1, <2>2, <2>3, ProcessedFinite, ReferencesType
<1>2. CASE peers[k] # NoPeer
  <2>1. UNCHANGED <<lastPeerReference, peers>>
    BY <1>2 DEF addPeer
  <2>2. lastPeerReference' <= Cardinality(Processed')
    BY <1>1, <2>1
  <2> QED
    BY <1>2, <2>1, <2>2 DEF IInv, PeersType, ReferenceInv
<1>3. CASE peers[k] = NoPeer
  <2> DEFINE peer == [reference |-> lastPeerReference + 1, left |-> NoTime]
  <2>1. lastPeerReference' = lastPeerReference + 1 /\ peers' = [peers EXCEPT ![k] = peer]
    BY <1>3 DEF addPeer
  <2>2. /\ lastPeerReference + 1 <= Cardinality(Processed')
        /\ lastPeerReference + 1 \in References
        /\ lastPeerReference + 1 \in 0..(MaxMessages * Cardinality(Connections))
    BY <1>1 DEF References
  <2>3. peer \in PeerStates /\ peer # NoPeer
    <3>1. peer \in [reference : References, left : {NoTime} \cup 0..Keep]
      BY <2>2
    <3>2. peer.reference # NoPeer.reference
      BY <1>1 DEF NoPeer
    <3> QED
      BY <3>1, <3>2 DEF PeerStates
  <2>4. \A j \in PeerKeys : peers'[j] = IF j = k THEN peer ELSE peers[j]
    BY <2>1 DEF IInv, PeersType
  <2>5. peers' \in [PeerKeys -> PeerStates]
    BY <2>1, <2>3 DEF IInv, PeersType
  <2>6. \A j \in PeerKeys : peers[j].reference \in Nat /\ peers[j].reference <= lastPeerReference
    <3> SUFFICES ASSUME NEW j \in PeerKeys
                 PROVE  peers[j].reference \in Nat /\ peers[j].reference <= lastPeerReference
      OBVIOUS
    <3>1. peers[j].reference <= lastPeerReference
      BY DEF IInv, ReferenceInv
    <3>2. CASE peers[j] = NoPeer
      BY <3>1, <3>2 DEF NoPeer
    <3>3. CASE peers[j] # NoPeer
      BY <3>1, <3>3, KnownPeer
    <3> QED
      BY <3>2, <3>3
  <2>7. \A j \in PeerKeys : peers'[j].reference <= lastPeerReference'
    <3> SUFFICES ASSUME NEW j \in PeerKeys PROVE peers'[j].reference <= lastPeerReference + 1
      BY <2>1
    <3>1. CASE j = k
      BY <1>1, <2>4, <3>1
    <3>2. CASE j # k
      BY <1>1, <2>4, <2>6, <3>2
    <3> QED
      BY <3>1, <3>2
  <2>8. ASSUME NEW i \in PeerKeys, NEW j \in PeerKeys,
               peers'[j] # NoPeer, peers'[i].reference = peers'[j].reference
        PROVE  i = j
    <3>1. \A h \in PeerKeys : peers[h].reference # lastPeerReference + 1
      BY <1>1, <2>6
    <3>2. CASE i = k
      BY <2>4, <2>8, <3>1, <3>2
    <3>3. CASE j = k
      BY <2>4, <2>8, <3>1, <3>3
    <3>4. CASE i # k /\ j # k
      BY <2>4, <2>8, <3>4 DEF IInv, ReferenceInv
    <3> QED
      BY <3>2, <3>3, <3>4
  <2>9. ASSUME NEW j \in PeerKeys, NEW prefix \in PrefixSet
        PROVE  InRIB(prefix, peers'[j].reference) <=> InRIB(prefix, peers[j].reference)
    <3>1. CASE j = k
      <4>1. \A r \in routes : r.peer # lastPeerReference + 1 /\ r.peer # 0
        <5> SUFFICES ASSUME NEW r \in routes PROVE r.peer # lastPeerReference + 1 /\ r.peer # 0
          OBVIOUS
        <5>1. \E h \in PeerKeys : peers[h].reference = r.peer
          BY DEF IInv, RoutesOwned
        <5>2. r.peer \in Nat \ {0}
          BY ReferencesType DEF IInv, PeersType, RIB!Routes
        <5> QED
          BY <1>1, <2>6, <5>1, <5>2
      <4> QED
        BY <1>3, <2>4, <3>1, <4>1 DEF InRIB, NoPeer
    <3>2. CASE j # k
      BY <2>4, <3>2
    <3> QED
      BY <3>1, <3>2
  <2>10. peers'[k] = peer
    BY <2>4
  <2> QED
    BY <1>3, <2>1, <2>2, <2>3, <2>4, <2>5, <2>7, <2>8, <2>9, <2>10
<1> QED
  BY <1>2, <1>3

(* The parts of the invariant that hold whatever becomes of the routes.    *)
LEMMA ReceivePeer ==
  ASSUME IInv, NEW c \in Connections, NEW type, Receive(c, type), NEW name \in Names,
         addPeer(Key(c, name)), Distinct,
         UNCHANGED <<reader, cleaner, staleTimer, removing, routes, sent, announced>>
  PROVE  /\ PeersType' /\ ReferenceInv' /\ RoutesOwned'
         /\ \A k \in PeerKeys, d \in Connections :
              k[1] = Address[d] /\ peers'[k] # NoPeer /\ peers'[k].left # NoTime => cleaner'[d] = "done"
         /\ \A k \in PeerKeys : peers[k] # NoPeer => peers'[k] = peers[k]
         /\ \A d \in Connections, other \in Names :
              peers'[Key(d, other)] = peers[Key(d, other)] \/ (d = c /\ other = name)
<1> DEFINE k == Key(c, name)
<1>1. k \in PeerKeys /\ k[1] = Address[c]
  BY KeysOf
<1>2. Cardinality(Processed') = Cardinality(Processed) + 1
  BY ReceiveFacts
<1>3. addPeer(k)
  OBVIOUS
<1>a. \A d \in Connections, other \in Names : Key(d, other) = k => d = c /\ other = name
  BY DEF Key, Distinct
<1> HIDE DEF k
<1>4. PeersType'
  BY <1>1, <1>2, <1>3, AddPeerFacts DEF IInv, PeersType
<1>5. ReferenceInv'
  BY <1>1, <1>2, <1>3, AddPeerFacts, ReceiveFacts DEF ReferenceInv
<1>6. \A j \in PeerKeys : peers[j] # NoPeer => peers'[j] = peers[j]
  BY <1>1, <1>2, <1>3, AddPeerFacts
<1>7. RoutesOwned'
  <2> SUFFICES ASSUME NEW r \in routes PROVE \E j \in PeerKeys : peers'[j].reference = r.peer
    BY DEF RoutesOwned
  <2>1. PICK j \in PeerKeys : peers[j].reference = r.peer
    BY DEF IInv, RoutesOwned
  <2>2. r.peer \in Nat \ {0} /\ NoPeer.reference = 0
    BY ReferencesType DEF IInv, PeersType, RIB!Routes, NoPeer
  <2> QED
    BY <1>6, <2>1, <2>2
<1>8. ASSUME NEW j \in PeerKeys, NEW d \in Connections,
             j[1] = Address[d], peers'[j] # NoPeer, peers'[j].left # NoTime
      PROVE  cleaner'[d] = "done"
  <2>1. peers'[j] = peers[j]
    BY <1>1, <1>2, <1>3, <1>8, AddPeerFacts
  <2> QED
    BY <1>8, <2>1 DEF IInv, KeptInv
<1>9. \A d \in Connections, other \in Names :
        peers'[Key(d, other)] = peers[Key(d, other)] \/ (d = c /\ other = name)
  BY <1>1, <1>2, <1>3, <1>a, AddPeerFacts, KeysOf
<1> QED
  BY <1>4, <1>5, <1>6, <1>7, <1>8, <1>9

LEMMA NotPendingApplied ==
  ASSUME NEW c \in Connections, ~ Pending(c), NEW a
  PROVE  Applied(c, a) <=> InRIB(a[2], peers[Key(c, a[1])].reference)
BY DEF Applied

(* A change in progress is about a peer that is known.                     *)
LEMMA PendingKnown ==
  ASSUME IInv, NEW c \in Connections, Pending(c)
  PROVE  /\ processor[c].reference \in References /\ processor[c].prefix \in PrefixSet
         /\ \E name \in Names : /\ peers[Key(c, name)].reference = processor[c].reference
                                /\ Key(c, name) \in PeerKeys /\ peers[Key(c, name)] # NoPeer
<1>1. processor[c] \in [step : {"reach", "unreach"}, reference : References, prefix : PrefixSet]
  BY DEF IInv, TypeInv, ProcessorStates, Pending, Idle
<1>2. processor[c].reference \in References /\ processor[c].prefix \in PrefixSet
  BY <1>1
<1>3. PICK name \in Names : peers[Key(c, name)].reference = processor[c].reference
  BY DEF IInv, PendingInv
<1>4. peers[Key(c, name)] # NoPeer
  BY <1>2, <1>3, ReferencesType DEF NoPeer
<1> QED
  BY <1>2, <1>3, <1>4, KeysOf

LEMMA handlePeerUpInv ==
  ASSUME IInv, Distinct, NEW c \in Connections, handlePeerUpNotification(c)
  PROVE  IInv'
<1> DEFINE name == Head(queue[c]).name
<1>1. /\ UNCHANGED <<reader, processor, cleaner, staleTimer, removing, routes, sent, announced>>
      /\ Receive(c, "up") /\ addPeer(Key(c, name))
  BY DEF handlePeerUpNotification, exporterVars
<1>2. name \in Names /\ Head(queue[c]).type = "up" /\ ~ Pending(c) /\ Cardinality(Processed') = Cardinality(Processed) + 1
  BY <1>1, ReceiveFacts DEF Messages, Pending, Idle
<1>3. TypeInv'
  BY <1>1, ReceiveFacts DEF IInv, TypeInv
<1> HIDE DEF name
<1>4. PeersType' /\ ReferenceInv' /\ RoutesOwned'
  BY <1>1, <1>2, ReceivePeer
<1>5. KeptInv'
  <2>1. \A k \in PeerKeys, d \in Connections :
          k[1] = Address[d] /\ peers'[k] # NoPeer /\ peers'[k].left # NoTime => cleaner'[d] = "done"
    BY <1>1, <1>2, ReceivePeer
  <2> QED
    BY <1>1, <2>1 DEF IInv, KeptInv
<1>6. PendingInv'
  <2> SUFFICES ASSUME NEW d \in Connections, Pending(d)
               PROVE  \E other \in Names : peers'[Key(d, other)].reference = processor[d].reference
    BY <1>1 DEF PendingInv, Pending
  <2>1. \A k \in PeerKeys : peers[k] # NoPeer => peers'[k] = peers[k]
    BY <1>1, <1>2, ReceivePeer
  <2> QED
    BY <2>1, PendingKnown
<1>7. \A d \in Connections, a \in Names \X PrefixSet : Applied(d, a)' <=> Applied(d, a)
  <2> SUFFICES ASSUME NEW d \in Connections, NEW a \in Names \X PrefixSet
               PROVE  Applied(d, a)' <=> Applied(d, a)
    OBVIOUS
  <2>1. a[1] \in Names /\ a[2] \in PrefixSet
    OBVIOUS
  <2>2. CASE peers'[Key(d, a[1])] = peers[Key(d, a[1])]
    BY <1>1, <2>2 DEF Applied, InRIB, Pending
  <2>3. CASE d = c
    <3>1. InRIB(a[2], peers'[Key(c, a[1])].reference) <=> InRIB(a[2], peers[Key(c, a[1])].reference)
      BY <1>1, <1>2, <2>1, AddPeerFacts, KeysOf
    <3> QED
      BY <1>1, <1>2, <2>3, <3>1 DEF Applied, InRIB, Pending
  <2> QED
    BY <1>1, <1>2, <2>1, <2>2, <2>3, ReceivePeer
<1>8. AnnouncedInv'
  <2>1. \A a \in Names \X PrefixSet : ~ Decides(Head(queue[c]), a)
    BY <1>2 DEF Decides
  <2> QED
    BY <1>1, <1>7, <2>1, ReceiveAnnounced
<1> QED
  BY <1>3, <1>4, <1>5, <1>6, <1>8 DEF IInv

LEMMA handleRouteMonitoringInv ==
  ASSUME IInv, Distinct, NEW c \in Connections, handleRouteMonitoring(c)
  PROVE  IInv'
<1> DEFINE m == Head(queue[c])
           name == m.name
           k == Key(c, name)
           pending == [step |-> m.type, reference |-> peers'[k].reference, prefix |-> m.prefix]
<1>1. /\ UNCHANGED <<reader, cleaner, staleTimer, removing, routes, sent, announced>>
      /\ addPeer(k) /\ processor' = [processor EXCEPT ![c] = pending]
  BY DEF handleRouteMonitoring, exporterVars
<1>2. PICK type \in {"reach", "unreach"} : Receive(c, type)
  BY DEF handleRouteMonitoring
<1>3. m \in Messages /\ m.type = type /\ ~ Pending(c)
      /\ Cardinality(Processed') = Cardinality(Processed) + 1
  BY <1>1, <1>2, ReceiveFacts DEF Pending, Idle
<1>4. name \in Names /\ m.prefix \in PrefixSet
  BY <1>2, <1>3 DEF Messages
<1>5. k \in PeerKeys
  BY <1>4, KeysOf
<1>6. /\ peers'[k] # NoPeer
      /\ \A i, j \in PeerKeys :
           peers'[j] # NoPeer /\ peers'[i].reference = peers'[j].reference => i = j
      /\ \A j \in PeerKeys, prefix \in PrefixSet :
           InRIB(prefix, peers'[j].reference) <=> InRIB(prefix, peers[j].reference)
  BY <1>1, <1>3, <1>5, AddPeerFacts
<1>7. /\ PeersType' /\ ReferenceInv' /\ RoutesOwned'
      /\ \A j \in PeerKeys, d \in Connections :
           j[1] = Address[d] /\ peers'[j] # NoPeer /\ peers'[j].left # NoTime => cleaner'[d] = "done"
      /\ \A j \in PeerKeys : peers[j] # NoPeer => peers'[j] = peers[j]
      /\ \A d \in Connections, other \in Names :
           peers'[Key(d, other)] = peers[Key(d, other)] \/ (d = c /\ other = name)
  BY <1>1, <1>2, <1>4, ReceivePeer
<1>8. pending \in ProcessorStates
  <2>1. peers'[k].reference \in References
    BY <1>5, <1>6, <1>7 DEF PeersType, PeerStates
  <2> QED
    BY <1>2, <1>3, <1>4, <2>1 DEF ProcessorStates
<1>9. /\ processor' \in [Connections -> ProcessorStates]
      /\ \A d \in Connections : processor'[d] = IF d = c THEN pending ELSE processor[d]
  BY <1>1, <1>8 DEF IInv, TypeInv
<1>10. TypeInv'
  BY <1>1, <1>2, <1>9, ReceiveFacts DEF IInv, TypeInv
<1>11. KeptInv'
  <2>1. \A d \in Connections : cleaner[d] = "done" => d # c
    BY <1>1, <1>2, ReceiveFacts DEF IInv, KeptInv, Idle
  <2> QED
    BY <1>1, <1>7, <1>9, <2>1 DEF IInv, KeptInv
<1>12. PendingInv'
  <2> SUFFICES ASSUME NEW d \in Connections, Pending(d)'
               PROVE  \E other \in Names : peers'[Key(d, other)].reference = processor'[d].reference
    BY DEF PendingInv
  <2>1. CASE d = c
    BY <1>4, <1>9, <2>1
  <2>2. CASE d # c
    <3>1. processor'[d] = processor[d] /\ Pending(d)
      BY <1>9, <2>2 DEF Pending
    <3> QED
      BY <1>7, <3>1, PendingKnown
  <2> QED
    BY <2>1, <2>2
<1>13. ASSUME NEW d \in Connections, d # c, NEW a \in Names \X PrefixSet
       PROVE  Applied(d, a)' <=> Applied(d, a)
  <2>1. peers'[Key(d, a[1])] = peers[Key(d, a[1])] /\ processor'[d] = processor[d]
    BY <1>7, <1>9, <1>13
  <2> QED
    BY <1>1, <2>1 DEF Applied, InRIB, Pending
<1>14. ASSUME NEW a \in Names \X PrefixSet
       PROVE  Applied(c, a)' <=> IF Decides(m, a) THEN m.type = "reach" ELSE Applied(c, a)
  <2>1. /\ a[1] \in Names /\ a[2] \in PrefixSet /\ Key(c, a[1]) \in PeerKeys
        /\ Key(c, a[1]) = k <=> a[1] = name
    BY <1>4, KeysOf DEF Key
  <2>2. Decides(m, a) <=> a[1] = name /\ a[2] = m.prefix
    BY <1>2, <1>3 DEF Decides
  <2>3. /\ processor'[c].step = m.type /\ processor'[c].prefix = m.prefix
        /\ processor'[c].reference = peers'[k].reference
    BY <1>9
  <2>4. peers'[Key(c, a[1])].reference = peers'[k].reference <=> a[1] = name
    BY <1>5, <1>6, <2>1
  <2>5. Applied(c, a)' <=> IF processor'[c].reference = peers'[Key(c, a[1])].reference /\ m.prefix = a[2]
                             THEN m.type = "reach"
                             ELSE InRIB(a[2], peers'[Key(c, a[1])].reference)
    BY <1>1, <1>2, <1>3, <2>3 DEF Applied, Pending, InRIB
  <2>6. InRIB(a[2], peers'[Key(c, a[1])].reference) <=> Applied(c, a)
    BY <1>3, <1>6, <2>1, NotPendingApplied
  <2> HIDE DEF m, name, k, pending
  <2> QED
    BY <2>2, <2>3, <2>4, <2>5, <2>6
<1>15. AnnouncedInv'
  BY <1>1, <1>2, <1>9, <1>13, <1>14, ReceiveAnnounced
<1> QED
  BY <1>7, <1>10, <1>11, <1>12, <1>15 DEF IInv

LEMMA handlePeerDownInv ==
  ASSUME IInv, Distinct, NEW c \in Connections, handlePeerDownNotification(c)
  PROVE  IInv'
<1> DEFINE m == Head(queue[c])
           k == Key(c, m.name)
<1>1. /\ UNCHANGED <<reader, processor, cleaner, lastPeerReference, staleTimer, removing, sent,
                     announced>>
      /\ Receive(c, "down") /\ removePeers({k})
  BY DEF handlePeerDownNotification, exporterVars
<1>2. /\ m \in Messages /\ m.type = "down" /\ m.name \in Names /\ ~ Pending(c)
      /\ Cardinality(Processed') = Cardinality(Processed) + 1
  BY <1>1, ReceiveFacts DEF Messages, Pending, Idle
<1>3. k \in PeerKeys /\ {k} \in SUBSET PeerKeys
  BY <1>2, KeysOf
<1>4. \A d \in Connections, other \in Names : Key(d, other) = k <=> d = c /\ other = m.name
  BY DEF Key, Distinct
<1>5. TypeInv'
  BY <1>1, ReceiveFacts DEF IInv, TypeInv
<1> HIDE DEF k
<1>6. /\ \A j \in PeerKeys : peers'[j] = IF j = k THEN NoPeer ELSE peers[j]
      /\ peers' \in [PeerKeys -> PeerStates] /\ routes' \subseteq RIB!Routes /\ RoutesOwned'
  BY <1>1, <1>3, RemovePeersKeeps
<1>7. /\ \A j \in PeerKeys : peers'[j].reference <= lastPeerReference'
      /\ \A i, j \in PeerKeys :
           peers'[j] # NoPeer /\ peers'[i].reference = peers'[j].reference => i = j
  BY <1>1, <1>3, RemovePeersKeeps
<1>8. /\ \A j \in PeerKeys : j # k =>
           \A prefix \in PrefixSet :
             InRIB(prefix, peers[j].reference)' <=> InRIB(prefix, peers[j].reference)
      /\ \A prefix \in PrefixSet : ~ InRIB(prefix, 0)'
  BY <1>1, <1>3, RemovePeersKeeps
<1>9. PeersType'
  BY <1>1, <1>6 DEF IInv, PeersType
<1>10. ReferenceInv'
  <2>1. lastPeerReference \in Nat /\ lastPeerReference <= Cardinality(Processed)
    BY ReferencesType DEF IInv, PeersType, ReferenceInv
  <2>2. Cardinality(Processed) \in Nat
    <3>1. Processed \in SUBSET (Connections \X (1..MaxMessages))
      BY DEF Processed
    <3> QED
      BY <3>1, ProcessedFinite
  <2>3. lastPeerReference' <= Cardinality(Processed')
    BY <1>1, <1>2, <2>1, <2>2
  <2> QED
    BY <1>1, <1>7, <2>3, ReceiveFacts DEF ReferenceInv
<1>11. KeptInv'
  BY <1>1, <1>6 DEF IInv, KeptInv
<1>12. PendingInv'
  <2> SUFFICES ASSUME NEW d \in Connections, Pending(d)
               PROVE  \E other \in Names : peers'[Key(d, other)].reference = processor[d].reference
    BY <1>1 DEF PendingInv, Pending
  <2>1. PICK other \in Names : /\ peers[Key(d, other)].reference = processor[d].reference
                               /\ Key(d, other) \in PeerKeys
    BY PendingKnown
  <2>2. Key(d, other) # k
    BY <1>2, <1>4
  <2> QED
    BY <1>6, <2>1, <2>2
<1>13. ASSUME NEW d \in Connections, NEW a \in Names \X PrefixSet, Key(d, a[1]) # k
       PROVE  Applied(d, a)' <=> Applied(d, a)
  <2> DEFINE j == Key(d, a[1])
  <2>1. a[2] \in PrefixSet /\ j \in PeerKeys /\ j # k /\ j' = j
    BY <1>13, KeysOf DEF Key
  <2>2. peers'[j] = peers[j]
    BY <1>6, <2>1
  <2>3. InRIB(a[2], peers[j].reference)' <=> InRIB(a[2], peers[j].reference)
    <3> HIDE DEF j
    <3> QED
      BY <1>8, <2>1
  <2> QED
    BY <1>1, <2>2, <2>3 DEF Applied, Pending
<1>14. ASSUME NEW a \in Names \X PrefixSet
       PROVE  Applied(c, a)' <=> IF Decides(m, a) THEN m.type = "reach" ELSE Applied(c, a)
  <2>1. Decides(m, a) <=> Key(c, a[1]) = k
    BY <1>2, <1>4 DEF Decides
  <2>2. CASE Key(c, a[1]) = k
    <3>1. peers'[Key(c, a[1])].reference = 0
      BY <1>3, <1>6, <2>2 DEF NoPeer
    <3>2. ~ InRIB(a[2], 0)'
      BY <1>8
    <3>3. ~ Applied(c, a)'
      BY <1>1, <1>2, <3>1, <3>2 DEF Applied, Pending, InRIB
    <3> QED
      BY <1>2, <2>1, <2>2, <3>3
  <2>3. CASE Key(c, a[1]) # k
    BY <1>13, <2>1, <2>3
  <2> QED
    BY <2>2, <2>3
<1>15. AnnouncedInv'
  <2>1. \A d \in Connections, a \in Names \X PrefixSet : d # c => (Applied(d, a)' <=> Applied(d, a))
    BY <1>4, <1>13
  <2> QED
    BY <1>1, <1>14, <2>1, ReceiveAnnounced
<1> QED
  BY <1>5, <1>6, <1>9, <1>10, <1>11, <1>12, <1>15 DEF IInv

(* The RIB is changed for the prefix and the reference of the processor.   *)
LEMMA ChangeRouteInv ==
  ASSUME IInv, Distinct, NEW c \in Connections, AddRoute(c) \/ RemoveRoute(c)
  PROVE  IInv'
<1> DEFINE prefix == processor[c].prefix
           reference == processor[c].reference
<1>1. /\ UNCHANGED <<reader, queue, cleaner, peers, lastPeerReference, staleTimer, removing, sent,
                     announced>>
      /\ processor' = [processor EXCEPT ![c] = Idle] /\ Pending(c)
  BY DEF AddRoute, RemoveRoute, exporterVars, Pending
<1>2. reference \in References /\ prefix \in PrefixSet
  BY <1>1, PendingKnown
<1>3. PICK name \in Names : /\ peers[Key(c, name)].reference = reference
                            /\ Key(c, name) \in PeerKeys /\ peers[Key(c, name)] # NoPeer
  BY <1>1, PendingKnown
<1> DEFINE route == RIB!Route(prefix, reference, "nlri", "nh")
           same == {r \in routes : r.prefix = prefix /\ r.peer = reference /\ r.nlri = "nlri"}
<1>4. \/ processor[c].step = "reach" /\ routes' = (routes \ same) \cup {route}
      \/ processor[c].step = "unreach" /\ routes' = routes \ same
  BY DEF AddRoute, RemoveRoute, RIB!AddRoute, RIB!RemoveRoute, RIB!Same
<1>5. /\ route \in RIB!Routes /\ route.prefix = prefix /\ route.peer = reference
      /\ \A r \in routes : r.nlri = "nlri"
  BY <1>2 DEF RIB!Route, RIB!Routes, IInv, PeersType
<1>6. \A d \in Connections : processor'[d] = IF d = c THEN Idle ELSE processor[d]
  BY <1>1 DEF IInv, TypeInv
<1>7. TypeInv' /\ PeersType'
  <2>1. processor' \in [Connections -> ProcessorStates]
    BY <1>1 DEF IInv, TypeInv, ProcessorStates
  <2>2. routes' \subseteq RIB!Routes
    <3> HIDE DEF route
    <3> QED
      BY <1>4, <1>5 DEF IInv, PeersType
  <2> QED
    BY <1>1, <2>1, <2>2 DEF IInv, TypeInv, PeersType
<1>8. ReferenceInv'
  BY <1>1, LengthsType, ReferenceFrame
<1>9. KeptInv'
  BY <1>1, <1>6 DEF IInv, KeptInv, Pending
<1>10. RoutesOwned'
  <2> HIDE DEF route
  <2> QED
    BY <1>1, <1>3, <1>4, <1>5 DEF IInv, RoutesOwned
<1>11. PendingInv'
  <2>1. \A d \in Connections : Pending(d)' => processor'[d] = processor[d] /\ Pending(d)
    BY <1>6 DEF Pending, Idle
  <2> QED
    BY <1>1, <2>1 DEF IInv, PendingInv
<1>12. \A p, ref : InRIB(p, ref)' <=> IF p = prefix /\ ref = reference
                                        THEN processor[c].step = "reach" ELSE InRIB(p, ref)
  <2> SUFFICES ASSUME NEW p, NEW ref
               PROVE  (\E r \in routes' : r.prefix = p /\ r.peer = ref)
                        <=> IF p = prefix /\ ref = reference THEN processor[c].step = "reach"
                                                             ELSE InRIB(p, ref)
    BY DEF InRIB
  <2> HIDE DEF route
  <2>1. CASE p = prefix /\ ref = reference
    BY <1>4, <1>5, <2>1
  <2>2. CASE ~ (p = prefix /\ ref = reference)
    BY <1>4, <1>5, <2>2 DEF InRIB
  <2> QED
    BY <2>1, <2>2
<1>13. ASSUME NEW d \in Connections, NEW a \in Names \X PrefixSet
       PROVE  Applied(d, a)' <=> Applied(d, a)
  <2> DEFINE ref == peers[Key(d, a[1])].reference
  <2>1. ref' = ref
    BY <1>1 DEF Key
  <2>2. CASE d = c
    <3>1. Applied(c, a)' <=> InRIB(a[2], ref)'
      BY <1>6, <2>1, <2>2 DEF Applied, Pending, Idle
    <3>2. InRIB(a[2], ref)' <=> IF a[2] = prefix /\ ref = reference THEN processor[c].step = "reach"
                                                                   ELSE InRIB(a[2], ref)
      <4> DEFINE p == a[2]
      <4> HIDE DEF ref, prefix, reference
      <4>1. InRIB(p, ref)' <=> (\E r \in routes' : r.prefix = p /\ r.peer = ref)
        BY <2>1 DEF InRIB
      <4> QED
        BY <1>12, <2>1, <4>1 DEF InRIB
    <3>3. Applied(c, a) <=> IF a[2] = prefix /\ ref = reference THEN processor[c].step = "reach"
                                                               ELSE InRIB(a[2], ref)
      BY <1>1, <2>2 DEF Applied
    <3> QED
      BY <2>2, <3>1, <3>2, <3>3
  <2>3. CASE d # c
    <3>1. ref # reference
      <4>1. a[1] \in Names /\ Key(d, a[1]) \in PeerKeys
        BY KeysOf
      <4>2. Key(d, a[1]) # Key(c, name)
        BY <2>3 DEF Key, Distinct
      <4> QED
        BY <1>3, <4>1, <4>2 DEF IInv, ReferenceInv
    <3>2. InRIB(a[2], ref)' <=> InRIB(a[2], ref)
      <4> DEFINE p == a[2]
      <4> HIDE DEF ref, prefix, reference
      <4>1. InRIB(p, ref)' <=> (\E r \in routes' : r.prefix = p /\ r.peer = ref)
        BY <2>1 DEF InRIB
      <4> QED
        BY <1>12, <2>1, <3>1, <4>1 DEF InRIB
    <3>3. processor'[d] = processor[d]
      BY <1>6, <2>3
    <3> QED
      BY <1>1, <2>1, <3>2, <3>3 DEF Applied, Pending
  <2> QED
    BY <2>2, <2>3
<1>14. AnnouncedInv'
  <2>1. \A d \in Connections : processor'[d].step # "done" => processor[d].step # "done"
    BY <1>1, <1>6 DEF Pending
  <2> QED
    BY <1>1, <1>13, <2>1, AnnouncedFrame
<1> QED
  BY <1>7, <1>8, <1>9, <1>10, <1>11, <1>14 DEF IInv

-----------------------------------------------------------------------------
LEMMA StepInv ==
  ASSUME IInv, Distinct, [BmpNext]_bmpVars
  PROVE  IInv'
<1>1. CASE UNCHANGED bmpVars
  BY <1>1 DEF bmpVars, connectionVars, exporterVars, IInv, TypeInv, PeersType, ReferenceInv,
              Processed, KeptInv, RoutesOwned, PendingInv, Pending, AnnouncedInv, Applied, InRIB,
              After
<1>2. ASSUME NEW c \in Connections,
             \/ Accept(c) \/ ReaderExit(c) \/ Process(c) \/ handleConnectionDown(c)
             \/ \E m \in Messages : Read(c, m)
      PROVE  IInv'
  BY <1>2, AcceptInv, ExitsInv, ReadInv, handlePeerUpInv, handlePeerDownInv,
     handleRouteMonitoringInv, ChangeRouteInv, handleConnectionDownInv DEF Process
<1>3. CASE removeStalePeers \/ TimerFires \/ Tick
  BY <1>3, removeStalePeersInv, TimerFiresInv, TickInv
<1> QED
  BY <1>1, <1>2, <1>3 DEF BmpNext, Quiet

(* As long as no exporter connects again from the same address and port,   *)
(* however the goroutines of the connections, their ends and the timer     *)
(* interleave: every route of the RIB has a peer that will remove it, and  *)
(* once the messages of a connection are processed, the RIB has exactly    *)
(* the routes that its exporter announced.                                 *)
THEOREM RoutesAreRight ==
  ASSUME Distinct
  PROVE  BmpSpec => []RoutesRight
<1>1. BmpInit => IInv
  BY InitInv
<1>2. IInv /\ [BmpNext]_bmpVars => IInv'
  BY StepInv
<1>3. IInv => RoutesRight
  BY InvRight
<1> QED
  BY <1>1, <1>2, <1>3, PTL DEF BmpSpec

(* The timer only removes peers of connections that are over, even when it *)
(* had fired before the removal was rescheduled.                           *)
THEOREM ExpiredWereTerminated ==
  ASSUME Distinct
  PROVE  BmpSpec => ExpiredAreTerminated
<1> DEFINE Terminated ==
      \A k \in PeerKeys :
        removing /\ ~removing' /\ peers[k] # NoPeer /\ peers'[k] = NoPeer =>
          \A c \in Connections : reader[c] = "reading" => Address[c] # k[1]
<1>1. BmpInit => IInv
  BY InitInv
<1>2. IInv /\ [BmpNext]_bmpVars => IInv'
  BY StepInv
<1>3. IInv /\ [BmpNext]_bmpVars => [Terminated]_bmpVars
  <2> SUFFICES ASSUME IInv, BmpNext, removing, ~removing',
                      NEW k \in PeerKeys, peers[k] # NoPeer, peers'[k] = NoPeer,
                      NEW c \in Connections, reader[c] = "reading", Address[c] = k[1]
               PROVE  FALSE
    OBVIOUS
  <2>1. removeStalePeers
    <3>1. ASSUME NEW d \in Connections,
                 \/ Accept(d) \/ ReaderExit(d) \/ handleConnectionDown(d)
                 \/ \E m \in Messages : Read(d, m)
          PROVE  removing' = removing
      BY <3>1 DEF Accept, ReaderExit, handleConnectionDown, Read
    <3>2. ASSUME NEW d \in Connections, Process(d) PROVE removing' = removing
      BY <3>2 DEF Process, handlePeerUpNotification, handlePeerDownNotification,
                  handleRouteMonitoring, AddRoute, RemoveRoute, ProcessorExit
    <3>3. CASE TimerFires \/ Tick \/ Quiet
      BY <3>3 DEF TimerFires, Tick, Quiet, bmpVars
    <3> QED
      BY <3>1, <3>2, <3>3 DEF BmpNext
  <2>2. Expired(k)
    BY <2>1 DEF removeStalePeers, removePeers
  <2>3. peers[k].left # NoTime
    BY <2>2, BmpAssumption DEF Expired, NoTime
  <2> QED
    BY <2>3 DEF IInv, KeptInv
<1> HIDE DEF Terminated
<1>4. BmpSpec => [][Terminated]_bmpVars
  BY <1>1, <1>2, <1>3, PTL DEF BmpSpec
<1> QED
  BY <1>4 DEF ExpiredAreTerminated, Terminated

-----------------------------------------------------------------------------
(* The routers of the RIS: what is known is what was answered, by the last *)
(* refresh, and by the one that runs.                                      *)
Holders(said) == [r \in Routers |-> {i \in Instances : r \in said[i]}]

Refreshes ==
  [step : {"ask", "lock", "wait", "ended"}, next : Nat, found : [Routers -> SUBSET Instances],
   answers : [Instances -> SUBSET Routers], first : BOOLEAN]

RefreshInv ==
  /\ refreshing \in Refreshes
  /\ refreshing.step = "ask" => refreshing.next \in DOMAIN RisInstances
  /\ refreshing.step \in {"ask", "lock"} => refreshing.found = Holders(refreshing.answers)

RisInv ==
  /\ ris \in [Instances -> SUBSET Routers]
  /\ published \in [Instances -> SUBSET Routers]
  /\ routers = Holders(published)
  /\ RefreshInv
  /\ looking = [w \in RisWorkers |-> looking[w]]
  /\ \A w \in RisWorkers : looking[w].step = "lock" => looking[w].agent \in Routers
  /\ RisRight

-----------------------------------------------------------------------------
(* The lookups at an RIS                                                   *)

LEMMA StepAtAsks ==
  ASSUME NEW k \in Nat \ {0}
  PROVE  /\ StepAt(k) \in {"ask", "lock"}
         /\ StepAt(k) = "ask" => k \in DOMAIN RisInstances
<1>1. Len(RisInstances) \in Nat /\ DOMAIN RisInstances = 1..Len(RisInstances)
  BY RisAssumption
<1>2. CASE k <= Len(RisInstances)
  BY <1>1, <1>2 DEF StepAt
<1>3. CASE ~(k <= Len(RisInstances))
  BY <1>1, <1>3 DEF StepAt
<1> QED
  BY <1>2, <1>3

LEMMA NothingHeld == Holders([i \in Instances |-> {}]) = NoRouters
BY DEF Holders, NoRouters

LEMMA NewRefresh ==
  ASSUME NEW f \in BOOLEAN,
         refreshing' = [step |-> StepAt(1), next |-> 1, found |-> NoRouters,
                        answers |-> [i \in Instances |-> {}], first |-> f]
  PROVE  RefreshInv'
<1>1. StepAt(1) \in {"ask", "lock"} /\ (StepAt(1) = "ask" => 1 \in DOMAIN RisInstances)
  BY StepAtAsks
<1>2. NoRouters \in [Routers -> SUBSET Instances] /\ [i \in Instances |-> {}] \in [Instances -> SUBSET Routers]
  BY DEF NoRouters
<1> QED
  BY <1>1, <1>2, NothingHeld DEF RefreshInv, Refreshes

(* The instance that answers is added to the ones of each of its routers.  *)
LEMMA AnswerIsHeld ==
  ASSUME RisInv, GetRouters
  PROVE  RefreshInv'
<1> DEFINE i == Asked  old == refreshing
<1>1. old \in Refreshes /\ old.found = Holders(old.answers) /\ old.next \in DOMAIN RisInstances
  BY DEF RisInv, RefreshInv, GetRouters
<1>2. i \in Instances
  BY <1>1 DEF Asked, Instances, Range
<1>3. ris[i] \in SUBSET Routers
  BY <1>2 DEF RisInv
<1>4. old.next + 1 \in Nat \ {0}
  BY <1>1 DEF Refreshes
<1>5. PICK sayings : sayings = [old.answers EXCEPT ![i] = @ \cup ris[i]]
  OBVIOUS
<1>6. PICK held : held = [r \in Routers |-> old.found[r] \cup {j \in {i} : r \in ris[j]}]
  OBVIOUS
<1>7. sayings \in [Instances -> SUBSET Routers]
  BY <1>1, <1>3, <1>5 DEF Refreshes
<1>8. held = Holders(sayings)
  <2>1. ASSUME NEW r \in Routers
        PROVE  old.found[r] \cup {j \in {i} : r \in ris[j]} = {j \in Instances : r \in sayings[j]}
    <3>1. old.found[r] = {j \in Instances : r \in old.answers[j]}
      BY <1>1 DEF Holders
    <3>2. \A j \in Instances : sayings[j] = IF j = i THEN old.answers[i] \cup ris[i] ELSE old.answers[j]
      BY <1>1, <1>2, <1>5 DEF Refreshes
    <3> QED
      BY <1>2, <3>1, <3>2
  <2> QED
    BY <1>6, <2>1 DEF Holders
<1>9. held \in [Routers -> SUBSET Instances]
  BY <1>8 DEF Holders
<1>10. /\ refreshing'.step = StepAt(old.next + 1) /\ refreshing'.next = old.next + 1
       /\ refreshing'.found = held /\ refreshing'.answers = sayings
  BY <1>1, <1>5, <1>6 DEF GetRouters, AfterAsked, Refreshes
<1>11. StepAt(old.next + 1) \in {"ask", "lock"}
       /\ (StepAt(old.next + 1) = "ask" => old.next + 1 \in DOMAIN RisInstances)
  BY <1>4, StepAtAsks
<1>12. refreshing' = [step |-> StepAt(old.next + 1), next |-> old.next + 1, found |-> held,
                      answers |-> sayings, first |-> old.first]
  BY <1>1, <1>5, <1>6 DEF GetRouters, AfterAsked, Refreshes
<1>13. refreshing' \in Refreshes
  BY <1>1, <1>4, <1>7, <1>9, <1>11, <1>12 DEF Refreshes
<1> QED
  BY <1>8, <1>10, <1>11, <1>13 DEF RefreshInv

(* A worker chooses among the routers that are known.                      *)
LEMMA ChosenIsKnown ==
  ASSUME RisInv, NEW agent \in Routers, NEW r \in chooseRouter(agent), NEW i \in routers[r]
  PROVE  /\ r \in published[i]
         /\ (\E j \in Instances : agent \in published[j]) => r = agent
<1>1. r \in Routers
  BY DEF chooseRouter, Known
<1>2. \A a \in Routers : routers[a] = {j \in Instances : a \in published[j]}
  BY DEF RisInv, Holders
<1>3. r \in published[i]
  BY <1>1, <1>2
<1>4. ASSUME NEW j \in Instances, agent \in published[j] PROVE r = agent
  <2>1. routers[agent] # {}
    BY <1>2, <1>4
  <2> QED
    BY <2>1 DEF chooseRouter, Known
<1> QED
  BY <1>3, <1>4

(* An instance is asked only for a router that it had at the last refresh, *)
(* the exporter of the flow if an instance has it, whatever was refreshed  *)
(* meanwhile.                                                              *)
THEOREM RisIsRight == RisSpec => []RisRight
<1>1. RisInit => RisInv
  <2> SUFFICES ASSUME RisInit PROVE RisInv
    OBVIOUS
  <2>1. StepAt(1) \in {"ask", "lock"} /\ (StepAt(1) = "ask" => 1 \in DOMAIN RisInstances)
    BY StepAtAsks
  <2>2. NoRouters \in [Routers -> SUBSET Instances] /\ [i \in Instances |-> {}] \in [Instances -> SUBSET Routers]
    BY DEF NoRouters
  <2>3. RefreshInv
    BY <2>1, <2>2, NothingHeld DEF RisInit, RefreshInv, Refreshes
  <2>4. looking = [w \in RisWorkers |-> looking[w]] /\ \A w \in RisWorkers : looking[w].step = "idle"
    BY DEF RisInit, NoLookup
  <2> QED
    BY <2>2, <2>3, <2>4, NothingHeld, RisAssumption DEF RisInit, RisInv, RisRight, Readers
<1>2. RisInv /\ [RisNext]_risVars => RisInv'
  <2> SUFFICES ASSUME RisInv, [RisNext]_risVars PROVE RisInv'
    OBVIOUS
  <2>0. UNCHANGED <<looking, published>> => RisRight'
    BY DEF RisInv, RisRight, Readers, AskedWhereKnown
  <2>1. UNCHANGED refreshing => RefreshInv'
    BY DEF RisInv, RefreshInv
  <2>2. CASE RisChanges
    <3>1. PICK i \in Instances, s \in SUBSET Routers : ris' = [ris EXCEPT ![i] = s]
      BY <2>2 DEF RisChanges
    <3>2. ris' \in [Instances -> SUBSET Routers]
      BY <3>1 DEF RisInv
    <3> QED
      BY <2>0, <2>1, <2>2, <3>2 DEF RisChanges, RisInv
  <2>3. CASE StartRefresh
    <3>1. RefreshInv'
      BY <2>3, NewRefresh DEF StartRefresh, RefreshStarts
    <3> QED
      BY <2>0, <2>3, <3>1 DEF StartRefresh, RisInv
  <2>4. CASE GetRouters
    BY <2>0, <2>4, AnswerIsHeld DEF GetRouters, RisInv
  <2>5. CASE GetRoutersFails
    <3>1. refreshing.next + 1 \in Nat \ {0}
      BY DEF RisInv, RefreshInv, Refreshes
    <3>2. AfterAsked \in {"ask", "lock"} /\ (AfterAsked = "ask" => refreshing.next + 1 \in DOMAIN RisInstances)
      BY <3>1, StepAtAsks DEF AfterAsked
    <3>3. RefreshInv'
      BY <2>5, <3>1, <3>2 DEF GetRoutersFails, RisInv, RefreshInv, Refreshes
    <3> QED
      BY <2>0, <2>5, <3>3 DEF GetRoutersFails, RisInv
  <2>6. CASE PublishRouters
    <3>1. RefreshInv'
      BY <2>6 DEF PublishRouters, RisInv, RefreshInv, Refreshes
    <3>2. routers' = Holders(published') /\ published' \in [Instances -> SUBSET Routers]
      BY <2>6 DEF PublishRouters, RisInv, RefreshInv, Refreshes
    <3>3. RisRight'
      BY <2>6 DEF PublishRouters, RisRight, Readers
    <3> QED
      BY <2>6, <3>1, <3>2, <3>3 DEF PublishRouters, RisInv
  <2>7. CASE RefreshEnds
    <3>1. RefreshInv'
      BY <2>7 DEF RefreshEnds, RisInv, RefreshInv, Refreshes
    <3> QED
      BY <2>0, <2>7, <3>1 DEF RefreshEnds, RisInv
  <2>8. CASE StopRis
    BY <2>0, <2>1, <2>8 DEF StopRis, RisInv
  <2>9. ASSUME NEW w \in RisWorkers, StartLookup(w) \/ LPM(w) \/ LookupStep(w)
        PROVE  RisInv'
    <3>0. UNCHANGED <<ris, routers, refreshing, published>> /\ RefreshInv'
      BY <2>1, <2>9 DEF StartLookup, LPM, LookupStep, Choose, LPMFails, EndLookup
    <3>1. PICK new : looking' = [looking EXCEPT ![w] = new]
      BY <2>9 DEF StartLookup, LPM, LookupStep, Choose, LPMFails, EndLookup, Answered
    <3>2. /\ new.step = "lock" => new.agent \in Routers
          /\ new.step = "asked" =>
               /\ new.router \in published[new.instance]
               /\ (\E i \in Instances : new.agent \in published[i]) => new.router = new.agent
      <4>0. looking'[w] = new
        BY <3>1 DEF RisInv
      <4>1. CASE StartLookup(w)
        <5>1. PICK agent \in Routers : looking' = [looking EXCEPT ![w] = [step |-> "lock", agent |-> agent]]
          BY <4>1 DEF StartLookup
        <5>2. new = [step |-> "lock", agent |-> agent]
          BY <4>0, <5>1 DEF RisInv
        <5> QED
          BY <5>2
      <4>2. CASE LPM(w) \/ LPMFails(w)
        <5>1. PICK result : Answered(w, result)
          BY <4>2 DEF LPM, LPMFails
        <5>2. new = [step |-> "done", result |-> result]
          BY <4>0, <5>1 DEF Answered, RisInv
        <5> QED
          BY <5>2
      <4>3. CASE EndLookup(w)
        <5>1. new = NoLookup
          BY <4>0, <4>3 DEF EndLookup, RisInv
        <5> QED
          BY <5>1 DEF NoLookup
      <4>4. CASE Choose(w)
        <5>1. CASE Known = {}
          <6>1. new = NoLookup
            BY <4>0, <4>4, <5>1 DEF Choose, RisInv
          <6> QED
            BY <6>1 DEF NoLookup
        <5>2. CASE Known # {}
          <6>1. PICK agent : agent = looking[w].agent
            OBVIOUS
          <6>2. agent \in Routers
            BY <4>4, <6>1 DEF Choose, RisInv
          <6>3. PICK r \in chooseRouter(agent) : \E i \in routers[r] :
                  looking' = [looking EXCEPT ![w] = [step |-> "asked", agent |-> @.agent, router |-> r, instance |-> i]]
            BY <4>4, <5>2, <6>1 DEF Choose
          <6>4. PICK i \in routers[r] :
                  looking' = [looking EXCEPT ![w] = [step |-> "asked", agent |-> @.agent, router |-> r, instance |-> i]]
            BY <6>3
          <6>5. new = [step |-> "asked", agent |-> agent, router |-> r, instance |-> i]
            BY <4>0, <6>1, <6>4 DEF RisInv
          <6> QED
            BY <6>2, <6>5, ChosenIsKnown
        <5> QED
          BY <5>1, <5>2
      <4> QED
        BY <2>9, <4>1, <4>2, <4>3, <4>4 DEF LookupStep
    <3>3. \A v \in RisWorkers : looking'[v] = IF v = w THEN new ELSE looking[v]
      BY <3>1 DEF RisInv
    <3>4. RisRight'
      BY <3>0, <3>2, <3>3 DEF RisInv, RisRight, Readers, AskedWhereKnown
    <3>5. looking' = [v \in RisWorkers |-> looking'[v]]
      BY <3>1 DEF RisInv
    <3>6. \A v \in RisWorkers : looking'[v].step = "lock" => looking'[v].agent \in Routers
      BY <3>2, <3>3 DEF RisInv
    <3> QED
      BY <3>0, <3>4, <3>5, <3>6 DEF RisInv
  <2>10. CASE UNCHANGED risVars
    BY <2>0, <2>1, <2>10 DEF RisInv, risVars
  <2> QED
    BY <2>2, <2>3, <2>4, <2>5, <2>6, <2>7, <2>8, <2>9, <2>10 DEF RisNext
<1>3. RisInv => RisRight
  BY DEF RisInv
<1> QED
  BY <1>1, <1>2, <1>3, PTL DEF RisSpec
=============================================================================
