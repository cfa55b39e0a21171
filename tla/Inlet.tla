-------------------------------- MODULE Inlet -------------------------------
(***************************************************************************)
(* The inlet: the UDP workers and the file input (inlet/flow/input) send   *)
(* what they receive to Kafka (inlet/flow, inlet/kafka) in buffers from a  *)
(* pool, that are given back when the Kafka client is done with them.      *)
(*                                                                         *)
(* A packet is a number.  The client has room for QueueSize records and    *)
(* blocks its caller beyond, it reads the buffer of a record until it      *)
(* calls its finalizer.                                                    *)
(***************************************************************************)
EXTENDS Naturals, Sequences, FiniteSets, SequencesExt

CONSTANTS
  UdpWorkers,             \* workers of the UDP input
  Buffers,                \* payloads of the pool, created as needed
  QueueSize,              \* records buffered by the Kafka client
  SocketSize,             \* packets buffered by a socket
  MaxFlows,               \* flows the file input sends
  MaxInletPackets         \* bound on the packets

ASSUME InletAssumption ==
  "file" \notin UdpWorkers /\ {QueueSize, SocketSize, MaxFlows, MaxInletPackets} \subseteq Nat

VARIABLES
  inPhase,                \* "up", "dying", "flowStopped", "closed"
  sockets,                \* packets received by the sockets
  conns,                  \* sockets that are open
  inWorkers,              \* what the workers and the file input do
  freeBuffers,            \* buffers of the pool that are not in use
  payloads,               \* content of the buffers
  inFlight,               \* records in the Kafka client
  packets, fileFlows,     \* number of packets, of which the file input has read some
  fates                   \* ghost: what became of the packets

inletVars == <<inPhase, sockets, conns, inWorkers, freeBuffers, payloads, inFlight, packets,
               fileFlows, fates>>

InletWorkers == UdpWorkers \cup {"file"}
Waiting == [state |-> "idle"]
Stopped == [state |-> "stopped"]

(* The packets get this fate.                                              *)
Settled(ps, fate) == [p \in ps \cup DOMAIN fates |-> IF p \in ps THEN fate ELSE fates[p]]

InletInit ==
  /\ inPhase = "up" /\ conns = UdpWorkers
  /\ sockets = [w \in UdpWorkers |-> <<>>]
  /\ inWorkers = [w \in InletWorkers |-> Waiting]
  /\ freeBuffers = Buffers /\ payloads = [b \in Buffers |-> 0]
  /\ inFlight = {} /\ packets = 0 /\ fileFlows = 0 /\ fates = <<>>

(* The packets of an exporter go to any worker.                            *)
PacketArrives ==
  /\ packets < MaxInletPackets
  /\ \E w \in conns :
       IF Len(sockets[w]) < SocketSize
       THEN sockets' = [sockets EXCEPT ![w] = Append(@, packets + 1)] /\ UNCHANGED fates
       ELSE fates' = Settled({packets + 1}, "dropped") /\ UNCHANGED sockets
  /\ packets' = packets + 1
  /\ UNCHANGED <<inPhase, conns, inWorkers, freeBuffers, payloads, inFlight, fileFlows>>

ReadMsgUDP(w) ==
  /\ inWorkers[w].state = "idle" /\ w \in conns /\ sockets[w] # <<>>
  /\ inWorkers' = [inWorkers EXCEPT ![w] = [state |-> "send", packet |-> Head(sockets[w])]]
  /\ sockets' = [sockets EXCEPT ![w] = Tail(@)]
  /\ UNCHANGED <<inPhase, conns, freeBuffers, payloads, inFlight, packets, fileFlows, fates>>

(* net.ErrClosed.                                                          *)
ReadClosed(w) ==
  /\ inWorkers[w].state = "idle" /\ w \notin conns
  /\ inWorkers' = [inWorkers EXCEPT ![w] = Stopped]
  /\ UNCHANGED <<inPhase, sockets, conns, freeBuffers, payloads, inFlight, packets, fileFlows, fates>>

(* The next file, until MaxFlows have been sent; then the end is awaited.  *)
ReadFile ==
  /\ inWorkers["file"].state = "idle" /\ fileFlows < MaxFlows /\ packets < MaxInletPackets
  /\ inWorkers' = [inWorkers EXCEPT !["file"] = [state |-> "send", packet |-> packets + 1]]
  /\ packets' = packets + 1 /\ fileFlows' = fileFlows + 1
  /\ UNCHANGED <<inPhase, sockets, conns, freeBuffers, payloads, inFlight, fates>>

(* The tomb of the input is dying: the daemon will stop the inlet.         *)
ReadFileFails ==
  /\ inWorkers["file"].state = "idle" /\ fileFlows < MaxFlows
  /\ inWorkers' = [inWorkers EXCEPT !["file"] = Stopped]
  /\ UNCHANGED <<inPhase, sockets, conns, freeBuffers, payloads, inFlight, packets, fileFlows, fates>>

FileWaits ==
  /\ inWorkers["file"].state = "idle" /\ (fileFlows = MaxFlows \/ packets = MaxInletPackets)
  /\ inPhase # "up"
  /\ inWorkers' = [inWorkers EXCEPT !["file"] = Stopped]
  /\ UNCHANGED <<inPhase, sockets, conns, freeBuffers, payloads, inFlight, packets, fileFlows, fates>>

(* Send: the flow is marshalled to a buffer of the pool.                   *)
Marshal(w) ==
  /\ inWorkers[w].state = "send"
  /\ \E b \in freeBuffers :
       /\ freeBuffers' = freeBuffers \ {b}
       /\ payloads' = [payloads EXCEPT ![b] = inWorkers[w].packet]
       /\ inWorkers' = [inWorkers EXCEPT ![w] = [state |-> "produce", packet |-> @.packet, buffer |-> b]]
  /\ UNCHANGED <<inPhase, sockets, conns, inFlight, packets, fileFlows, fates>>

(* Mistake: the buffer is given back once the client has the record.       *)
ReleasedAtOnce(b) == {b}

(* The buffer is given back by the finalizer only.                         *)
Released(b) == {}

Produce(w) ==
  /\ inWorkers[w].state = "produce" /\ Cardinality(inFlight) < QueueSize
  /\ inFlight' = inFlight \cup {[buffer |-> inWorkers[w].buffer, packet |-> inWorkers[w].packet]}
  /\ freeBuffers' = freeBuffers \cup Released(inWorkers[w].buffer)
  /\ inWorkers' = [inWorkers EXCEPT ![w] = [state |-> "sent"]]
  /\ UNCHANGED <<inPhase, sockets, conns, payloads, packets, fileFlows, fates>>

AfterSend(w) ==
  /\ inWorkers[w].state = "sent"
  /\ inWorkers' = [inWorkers EXCEPT ![w] = IF inPhase = "up" THEN Waiting ELSE Stopped]
  /\ UNCHANGED <<inPhase, sockets, conns, freeBuffers, payloads, inFlight, packets, fileFlows, fates>>

(* The callback of a record that is sent, or that cannot be.               *)
Callback(record) ==
  /\ record \in inFlight
  /\ inFlight' = inFlight \ {record}
  /\ freeBuffers' = freeBuffers \cup {record.buffer}
  /\ fates' = Settled({payloads[record.buffer]}, "answered")
  /\ UNCHANGED <<inPhase, sockets, conns, inWorkers, payloads, packets, fileFlows>>

StopInlet ==
  /\ inPhase = "up" /\ inPhase' = "dying"
  /\ UNCHANGED <<sockets, conns, inWorkers, freeBuffers, payloads, inFlight, packets, fileFlows, fates>>

Closed(open) == open

ClosedPackets == UNION {Range(sockets[w]) : w \in Closed(conns)}

(* A socket that is closed loses the packets it has.                       *)
CloseConns ==
  /\ inPhase = "dying" /\ conns = UdpWorkers
  /\ conns' = conns \ Closed(conns)
  /\ fates' = Settled(ClosedPackets, "dropped")
  /\ sockets' = [w \in UdpWorkers |-> IF w \in Closed(conns) THEN <<>> ELSE sockets[w]]
  /\ UNCHANGED <<inPhase, inWorkers, freeBuffers, payloads, inFlight, packets, fileFlows>>

InputsDone == \A w \in InletWorkers : inWorkers[w] = Stopped

(* The tombs of the inputs are dead; a UDP input also has a goroutine that *)
(* closes its sockets.                                                     *)
FlowStops ==
  /\ inPhase = "dying" /\ conns # UdpWorkers /\ InputsDone
  /\ inPhase' = "flowStopped"
  /\ UNCHANGED <<sockets, conns, inWorkers, freeBuffers, payloads, inFlight, packets, fileFlows, fates>>

(* The records that the client still has fail, their finalizers are called.*)
KafkaStops ==
  /\ inPhase = "flowStopped" /\ inPhase' = "closed"
  /\ inFlight' = {} /\ freeBuffers' = freeBuffers \cup {r.buffer : r \in inFlight}
  /\ fates' = Settled({payloads[r.buffer] : r \in inFlight}, "answered")
  /\ UNCHANGED <<sockets, conns, inWorkers, payloads, packets, fileFlows>>

InletNext ==
  \/ PacketArrives \/ ReadFile \/ ReadFileFails \/ FileWaits
  \/ \E w \in UdpWorkers : ReadMsgUDP(w) \/ ReadClosed(w)
  \/ \E w \in InletWorkers : Marshal(w) \/ Produce(w) \/ AfterSend(w)
  \/ \E r \in inFlight : Callback(r)
  \/ StopInlet \/ CloseConns \/ FlowStops \/ KafkaStops

InletSpec == InletInit /\ [][InletNext]_inletVars

(* The goroutines that can run do, and the brokers answer: a Kafka that    *)
(* never answers is not in the model.                                      *)
InletProgress ==
  \/ ReadFile \/ FileWaits
  \/ \E w \in UdpWorkers : ReadClosed(w)
  \/ \E w \in InletWorkers : Marshal(w) \/ Produce(w) \/ AfterSend(w)
  \/ \E r \in inFlight : Callback(r)
  \/ CloseConns \/ FlowStops \/ KafkaStops

----------------------------------------------------------------------------
(* Properties                                                              *)

(* The buffer of a record has its packet until the client is done with it, *)
(* whatever the other workers send meanwhile.                              *)
PayloadsIntact == \A r \in inFlight : payloads[r.buffer] = r.packet

(* When Kafka is stopped, no input sends any more.                         *)
NothingSentAfterStop ==
  inPhase \in {"flowStopped", "closed"} =>
    \A w \in InletWorkers : inWorkers[w].state \notin {"send", "produce"}

(* Each packet is in a socket, in a worker, in the client, or its fate is  *)
(* known, and only one of them: none is lost without a trace, none is sent *)
(* twice.                                                                  *)
Places(p) ==
  {<<"socket", x>> : x \in {x \in UdpWorkers \X (1..SocketSize) :
                             x[2] <= Len(sockets[x[1]]) /\ sockets[x[1]][x[2]] = p}}
  \cup {<<"worker", w>> : w \in {w \in InletWorkers :
                             inWorkers[w].state \in {"send", "produce"} /\ inWorkers[w].packet = p}}
  \cup {<<"client", r>> : r \in {r \in inFlight : r.packet = p}}
  \cup {<<"fate", q>> : q \in {p} \cap DOMAIN fates}

PacketsAccounted == \A p \in 1..packets : \E place \in Places(p) : Places(p) = {place}

(* As long as the brokers answer, the inlet stops, even when the workers   *)
(* are blocked by the client when it is asked to.                          *)
InletStops == (inPhase = "dying") ~> (inPhase = "closed")

(* Packets are sent as they were received, or counted.                     *)
InletRight == PayloadsIntact /\ NothingSentAfterStop /\ PacketsAccounted
=============================================================================
