-------------------------------- MODULE Bmp ---------------------------------
(***************************************************************************)
(* The BMP provider: connections from exporters, the peers they tell       *)
(* about, and the routes of these peers in the RIB (see RouteStore).       *)
(*                                                                         *)
(* Each connection has a goroutine that reads its messages, one that       *)
(* processes them, and one that marks its peers as stale once both are     *)
(* over.  A timer removes the stale peers, with their routes, after a      *)
(* delay.  An exporter is known by the address and the port it connects    *)
(* from.                                                                   *)
(***************************************************************************)
EXTENDS Naturals, Sequences, FiniteSets

CONSTANTS Connections,
          Names,          \* names of the peers of an exporter
          PrefixSet,
          Address,        \* source address and port of each connection
          Keep,           \* how long the peers are kept
          MessageBuffer,
          MaxMessages     \* bound on the messages of a connection

ASSUME BmpAssumption ==
  /\ IsFiniteSet(Connections)
  /\ Keep \in Nat \ {0} /\ MessageBuffer \in Nat \ {0} /\ MaxMessages \in Nat

VARIABLES
  reader,      \* goroutine that reads the messages of each connection
  queue,       \* messages it read
  processor,   \* goroutine that processes them
  cleaner,     \* goroutine that handles the end of the connection
  peers,       \* peer known under each key, or NoPeer
  lastPeerReference,
  staleTimer,  \* time left, or NoTime
  removing,    \* the timer has fired
  routes,      \* the RIB
  sent,        \* number of messages of each connection
  announced    \* prefixes that the exporter announced on each connection

connectionVars == <<reader, queue, processor, cleaner>>
exporterVars == <<sent, announced>>
bmpVars == <<connectionVars, peers, lastPeerReference, staleTimer, removing, routes, exporterVars>>

PeerKeys == {Address[c] : c \in Connections} \X Names

References == 1..(MaxMessages * Cardinality(Connections))

RIB == INSTANCE RouteStore WITH Peers <- References, NLRIs <- {"nlri"}, NextHops <- {"nh"}

NoPeer == [reference |-> 0]

NoTime == Keep + 1

Idle == [step |-> "idle"]

Key(c, name) == <<Address[c], name>>

Messages == [type : {"up", "down"}, name : Names]
              \cup [type : {"reach", "unreach"}, name : Names, prefix : PrefixSet]

BmpInit ==
  /\ reader = [c \in Connections |-> "none"]
  /\ queue = [c \in Connections |-> <<>>]
  /\ processor = [c \in Connections |-> Idle]
  /\ cleaner = [c \in Connections |-> "none"]
  /\ peers = [k \in PeerKeys |-> NoPeer]
  /\ lastPeerReference = 0
  /\ staleTimer = NoTime /\ removing = FALSE  \* the hour it is created with removes nothing
  /\ RIB!StoreInit
  /\ sent = [c \in Connections |-> 0]
  /\ announced = [c \in Connections |-> {}]

-----------------------------------------------------------------------------
(* Exporters.                                                              *)
Accept(c) ==
  /\ reader[c] = "none"
  /\ \A d \in Connections : reader[d] = "reading" => Address[d] # Address[c]
  /\ reader' = [reader EXCEPT ![c] = "reading"]
  /\ cleaner' = [cleaner EXCEPT ![c] = "waiting"]
  /\ UNCHANGED <<queue, processor, peers, lastPeerReference, staleTimer, removing, routes,
                 exporterVars>>

(* What the exporter has announced once it has sent the message.           *)
Announced(before, m) ==
  CASE m.type = "reach"   -> before \cup {<<m.name, m.prefix>>}
    [] m.type = "unreach" -> before \ {<<m.name, m.prefix>>}
    [] m.type = "down"    -> {a \in before : a[1] # m.name}
    [] OTHER              -> before

(* A message is read; the reader waits when the channel is full.           *)
Read(c, m) ==
  /\ reader[c] = "reading"
  /\ sent[c] < MaxMessages
  /\ Len(queue[c]) < MessageBuffer
  /\ sent' = [sent EXCEPT ![c] = @ + 1]
  /\ announced' = [announced EXCEPT ![c] = Announced(@, m)]
  /\ queue' = [queue EXCEPT ![c] = Append(@, m)]
  /\ UNCHANGED <<reader, processor, cleaner, peers, lastPeerReference, staleTimer, removing,
                 routes>>

(* The connection is closed, by either side, or fails.                     *)
ReaderExit(c) ==
  /\ reader[c] = "reading"
  /\ reader' = [reader EXCEPT ![c] = "exited"]
  /\ UNCHANGED <<queue, processor, cleaner, peers, lastPeerReference, staleTimer, removing,
                 routes, exporterVars>>

-----------------------------------------------------------------------------
(* Stale peers.                                                            *)
StaleTimes(known) == {known[k].left : k \in {j \in PeerKeys : known[j] # NoPeer}}

(* The timer is set for the peer that is to be removed first.              *)
scheduleStalePeersRemoval(known) ==
  LET times == StaleTimes(known) \cup {NoTime}
  IN  staleTimer' = CHOOSE t \in times : \A u \in times : t <= u

Expired(k) == peers[k] # NoPeer /\ peers[k].left = 0

(* A peer goes with its routes.                                            *)
removePeers(keys) ==
  /\ peers' = [k \in PeerKeys |-> IF k \in keys THEN NoPeer ELSE peers[k]]
  /\ routes' = {r \in routes : \A k \in keys : r.peer # peers[k].reference}

removeStalePeers ==
  /\ removing
  /\ removing' = FALSE
  /\ removePeers({k \in PeerKeys : Expired(k)})
  /\ scheduleStalePeersRemoval(peers')
  /\ UNCHANGED <<connectionVars, lastPeerReference, exporterVars>>

TimerFires ==
  /\ staleTimer = 0
  /\ staleTimer' = NoTime
  /\ removing' = TRUE
  /\ UNCHANGED <<connectionVars, peers, lastPeerReference, routes, exporterVars>>

Less(t) == IF t \in {NoTime, 0} THEN t ELSE t - 1

Tick ==
  /\ staleTimer # NoTime /\ staleTimer > 0
  /\ staleTimer' = Less(staleTimer)
  /\ peers' = [k \in PeerKeys |-> IF peers[k] = NoPeer THEN NoPeer
                                  ELSE [peers[k] EXCEPT !.left = Less(@)]]
  /\ UNCHANGED <<connectionVars, lastPeerReference, removing, routes, exporterVars>>

(* Mistake: it marks the peers of all the connections.                     *)
markAllAsStale(c) ==
  /\ peers' = [k \in PeerKeys |->
                 IF peers[k] # NoPeer THEN [peers[k] EXCEPT !.left = Keep] ELSE peers[k]]
  /\ scheduleStalePeersRemoval(peers')

(* The peers of the connection are kept for some time.                     *)
markExporterAsStale(c) ==
  /\ peers' = [k \in PeerKeys |->
                 IF k[1] = Address[c] /\ peers[k] # NoPeer
                 THEN [peers[k] EXCEPT !.left = Keep]
                 ELSE peers[k]]
  /\ scheduleStalePeersRemoval(peers')

(* The end of a connection, once its messages are processed.               *)
handleConnectionDown(c) ==
  /\ cleaner[c] = "waiting"
  /\ reader[c] = "exited"
  /\ processor[c].step = "done"
  /\ cleaner' = [cleaner EXCEPT ![c] = "done"]
  /\ markExporterAsStale(c)
  /\ UNCHANGED <<reader, queue, processor, lastPeerReference, removing, routes, exporterVars>>

-----------------------------------------------------------------------------
(* Processing the messages of a connection.                                *)
Receive(c, type) ==
  /\ processor[c] = Idle
  /\ queue[c] # <<>>
  /\ Head(queue[c]).type = type
  /\ queue' = [queue EXCEPT ![c] = Tail(@)]

addPeer(k) ==
  IF peers[k] = NoPeer
  THEN /\ lastPeerReference' = lastPeerReference + 1
       /\ peers' = [peers EXCEPT ![k] = [reference |-> lastPeerReference + 1, left |-> NoTime]]
  ELSE UNCHANGED <<lastPeerReference, peers>>

handlePeerUpNotification(c) ==
  /\ Receive(c, "up")
  /\ addPeer(Key(c, Head(queue[c]).name))
  /\ UNCHANGED <<reader, processor, cleaner, staleTimer, removing, routes, exporterVars>>

(* Mistake: the key of a peer does not tell its exporter.                  *)
handlePeerDownAnyExporter(c) ==
  /\ Receive(c, "down")
  /\ removePeers({k \in PeerKeys : k[2] = Head(queue[c]).name})
  /\ UNCHANGED <<reader, processor, cleaner, lastPeerReference, staleTimer, removing,
                 exporterVars>>

handlePeerDownNotification(c) ==
  /\ Receive(c, "down")
  /\ removePeers({Key(c, Head(queue[c]).name)})
  /\ UNCHANGED <<reader, processor, cleaner, lastPeerReference, staleTimer, removing,
                 exporterVars>>

(* The reference of the peer is taken under the lock of the peers, and the *)
(* RIB is updated without this lock.                                       *)
handleRouteMonitoring(c) ==
  LET m == Head(queue[c])
      k == Key(c, m.name)
  IN  /\ Receive(c, "reach") \/ Receive(c, "unreach")
      /\ addPeer(k)
      /\ processor' = [processor EXCEPT ![c] =
                         [step |-> m.type, reference |-> peers'[k].reference,
                          prefix |-> m.prefix]]
      /\ UNCHANGED <<reader, cleaner, staleTimer, removing, routes, exporterVars>>

AddRoute(c) ==
  /\ processor[c].step = "reach"
  /\ RIB!AddRoute(processor[c].prefix, processor[c].reference, "nlri", "nh")
  /\ processor' = [processor EXCEPT ![c] = Idle]
  /\ UNCHANGED <<reader, queue, cleaner, peers, lastPeerReference, staleTimer, removing,
                 exporterVars>>

RemoveRoute(c) ==
  /\ processor[c].step = "unreach"
  /\ RIB!RemoveRoute(processor[c].prefix, processor[c].reference, "nlri")
  /\ processor' = [processor EXCEPT ![c] = Idle]
  /\ UNCHANGED <<reader, queue, cleaner, peers, lastPeerReference, staleTimer, removing,
                 exporterVars>>

(* The end of the messages, a termination, or an error.                    *)
ProcessorExit(c) ==
  /\ processor[c] = Idle
  /\ reader[c] # "none"
  /\ queue[c] # <<>> \/ reader[c] = "exited"
  /\ processor' = [processor EXCEPT ![c] = [step |-> "done"]]
  /\ UNCHANGED <<reader, queue, cleaner, peers, lastPeerReference, staleTimer, removing,
                 routes, exporterVars>>

Quiet ==
  /\ \A c \in Connections : cleaner[c] = "done"
  /\ staleTimer = NoTime /\ ~removing
  /\ UNCHANGED bmpVars

-----------------------------------------------------------------------------
Process(c) ==
  \/ handlePeerUpNotification(c) \/ handlePeerDownNotification(c) \/ handleRouteMonitoring(c)
  \/ AddRoute(c) \/ RemoveRoute(c) \/ ProcessorExit(c)

BmpNext ==
  \/ \E c \in Connections :
       \/ Accept(c) \/ ReaderExit(c) \/ Process(c) \/ handleConnectionDown(c)
       \/ \E m \in Messages : Read(c, m)
  \/ removeStalePeers \/ TimerFires \/ Tick \/ Quiet

BmpSpec == BmpInit /\ [][BmpNext]_bmpVars

-----------------------------------------------------------------------------
BmpTypeOK ==
  /\ reader \in [Connections -> {"none", "reading", "exited"}]
  /\ queue \in [Connections -> Seq(Messages)]
  /\ \A c \in Connections : Len(queue[c]) <= MessageBuffer
  /\ processor \in [Connections ->
       {Idle} \cup [step : {"done"}]
         \cup [step : {"reach", "unreach"}, reference : References, prefix : PrefixSet]]
  /\ cleaner \in [Connections -> {"none", "waiting", "done"}]
  /\ peers \in [PeerKeys -> {NoPeer} \cup [reference : References, left : {NoTime} \cup 0..Keep]]
  /\ lastPeerReference \in 0..(MaxMessages * Cardinality(Connections))
  /\ staleTimer \in {NoTime} \cup 0..Keep
  /\ removing \in BOOLEAN
  /\ routes \subseteq RIB!Routes
  /\ sent \in [Connections -> 0..MaxMessages]
  /\ announced \in [Connections -> SUBSET (Names \X PrefixSet)]

(* A route belongs to a peer that is known: otherwise nothing would ever   *)
(* remove it.                                                              *)
RoutesOwned == \A r \in routes : \E k \in PeerKeys : peers[k].reference = r.peer

(* When all that was read from a connection is processed, the RIB has the  *)
(* routes that its exporter announced.                                     *)
RoutesAnnounced ==
  \A c \in Connections :
    reader[c] = "reading" /\ queue[c] = <<>> /\ processor[c] = Idle =>
      announced[c] =
        {a \in Names \X PrefixSet :
           \E r \in RIB!RoutesOf(a[2]) : r.peer = peers[Key(c, a[1])].reference}

(* docs: the routes that expire are the ones of a terminated connection,   *)
(* once they were kept long enough.                                        *)
ExpiredAreTerminated ==
  [][\A k \in PeerKeys :
       removing /\ ~removing' /\ peers[k] # NoPeer /\ peers'[k] = NoPeer =>
         \A c \in Connections : reader[c] = "reading" => Address[c] # k[1]]_bmpVars

(* The peers of a connection that has ended go in the end, with their      *)
(* routes, whatever the order of the ends of the connections.              *)
TerminatedForgotten ==
  \A c \in Connections :
    reader[c] = "exited" ~> \A name \in Names : peers[Key(c, name)] = NoPeer

(* The routes of the RIB are announced routes of peers that are known.     *)
RoutesRight == BmpTypeOK /\ RoutesOwned /\ RoutesAnnounced

(* Peers stay as long as they have to, and no longer: what is removed when *)
(* its time is over is terminated, what is terminated is removed.          *)
PeersForgotten == ExpiredAreTerminated /\ TerminatedForgotten
=============================================================================
