----------------------------- MODULE KafkaOutput ----------------------------
(***************************************************************************)
(* outlet/kafkaoutput: the enriched flows are also sent to Kafka, when     *)
(* there is room for them.  A worker encodes a flow while it is decoded    *)
(* (common/schema/protobuf.go), in a buffer it uses for all its flows.     *)
(***************************************************************************)
EXTENDS Naturals, Sequences, FiniteSets

CONSTANTS
  ExportWorkers,          \* workers of the core component
  MaxBuffered,            \* room in the producer
  MaxExported             \* bound on the flows

VARIABLES
  encoders,              \* per worker: the flow, what is encoded, the message
  buffered,               \* records in the producer
  handled,                \* flows the workers are done with, given up or finalized
  nextExported, exportFates, \* flows so far, and what became of the records
  exportPhase             \* "up", "flushing", "closed"

exportVars == <<encoders, buffered, handled, nextExported, exportFates, exportPhase>>

Parts == 2                \* columns of a flow
NoExport == [flow |-> 0, protobuf |-> <<>>, message |-> <<>>]

ExportInit ==
  /\ encoders = [w \in ExportWorkers |-> NoExport]
  /\ buffered = {} /\ handled = {} /\ nextExported = 1 /\ exportFates = {}
  /\ exportPhase = "up"

(* A column of the flow, the first one of a new flow when there is none.   *)
AppendProtobuf(w) ==
  LET e == encoders[w]
      flow == IF e.flow = 0 THEN nextExported ELSE e.flow
  IN /\ exportPhase = "up" /\ Len(e.protobuf) < Parts
     /\ e.flow = 0 => nextExported <= MaxExported
     /\ encoders' = [encoders EXCEPT ![w] = [e EXCEPT !.flow = flow, !.protobuf = Append(@, flow)]]
     /\ nextExported' = IF e.flow = 0 THEN nextExported + 1 ELSE nextExported
     /\ UNCHANGED <<buffered, handled, exportFates, exportPhase>>

(* Undo() and Finalize() start again with an empty buffer.                 *)
Discarded(protobuf) == <<>>

UndoExport(w) ==
  /\ encoders[w].flow # 0
  /\ handled' = handled \cup {<<encoders[w].flow, "given up">>}
  /\ encoders' = [encoders EXCEPT ![w].flow = 0, ![w].protobuf = Discarded(@)]
  /\ UNCHANGED <<buffered, nextExported, exportFates, exportPhase>>

(* Mistake: a producer that is full is waited for.                         *)
RoomBlocked == Cardinality(buffered) < MaxBuffered

(* TryProduce never blocks.                                                *)
Room == TRUE

(* The flow is finalized, its message is handed to the producer, which     *)
(* keeps it without a copy.                                                *)
SendExport(w) ==
  LET e == encoders[w]
      record == [worker |-> w, flow |-> e.flow, value |-> e.protobuf]
  IN /\ e.flow # 0 /\ Len(e.protobuf) >= Parts /\ Room
     /\ handled' = handled \cup {<<e.flow, "finalized">>}
     /\ encoders' = [encoders EXCEPT ![w] = [flow |-> 0, protobuf |-> Discarded(@.protobuf), message |-> e.protobuf]]
     /\ IF Cardinality(buffered) < MaxBuffered
        THEN buffered' = buffered \cup {record} /\ UNCHANGED exportFates
        ELSE exportFates' = exportFates \cup {<<e.flow, "dropped">>} /\ UNCHANGED buffered
     /\ UNCHANGED <<nextExported, exportPhase>>

(* Mistake: the record shares the buffer of the worker.                    *)
ValueShared(record) == encoders[record.worker].protobuf

(* The bytes of a record are those of the message, a slice of its own.     *)
Value(record) == record.value

(* A record is sent, or fails for good.                                    *)
BrokerAnswers ==
  /\ \E record \in buffered :
       /\ buffered' = buffered \ {record}
       /\ exportFates' = exportFates \cup {<<record.flow, "answered", Value(record)>>}
  /\ exportPhase # "closed"
  /\ UNCHANGED <<encoders, handled, nextExported, exportPhase>>

(* The core component, and its workers, are stopped before.                *)
StopExport ==
  /\ exportPhase = "up" /\ \A w \in ExportWorkers : encoders[w].flow = 0
  /\ exportPhase' = "flushing"
  /\ UNCHANGED <<encoders, buffered, handled, nextExported, exportFates>>

Flushed == buffered = {}

FlushDone ==
  /\ exportPhase = "flushing" /\ Flushed
  /\ exportPhase' = "closed"
  /\ UNCHANGED <<encoders, buffered, handled, nextExported, exportFates>>

(* ShutdownTimeout: the records that are left fail when the client closes. *)
FlushTimeout ==
  /\ exportPhase = "flushing" /\ buffered # {}
  /\ exportPhase' = "closed"
  /\ exportFates' = exportFates \cup {<<r.flow, "timeout">> : r \in buffered}
  /\ buffered' = {}
  /\ UNCHANGED <<encoders, handled, nextExported>>

ExportNext ==
  \/ \E w \in ExportWorkers : AppendProtobuf(w) \/ UndoExport(w) \/ SendExport(w)
  \/ BrokerAnswers \/ StopExport \/ FlushDone \/ FlushTimeout

ExportSpec == ExportInit /\ [][ExportNext]_exportVars

(* The workers go on, the brokers need not answer.                         *)
ExportProgress == \E w \in ExportWorkers : AppendProtobuf(w) \/ SendExport(w)

----------------------------------------------------------------------------
(* Properties                                                              *)

(* A message that is sent to Kafka has the columns of one flow, all of them.  *)
MessagesWhole ==
  \A f \in exportFates : f[2] = "answered" => f[3] = [i \in 1..Parts |-> f[1]]

(* A flow that is finalized is in the producer or has one fate, dropped    *)
(* included, a flow that is given up has none; in the end nothing is left. *)
Outcomes(f) ==
  {<<"fate", x>> : x \in {x \in exportFates : x[1] = f}}
    \cup {<<"buffered", r>> : r \in {r \in buffered : r.flow = f}}

ExportsAccounted ==
  /\ \A f \in 1..MaxExported :
       IF <<f, "finalized">> \in handled THEN \E x \in Outcomes(f) : Outcomes(f) = {x} ELSE Outcomes(f) = {}
  /\ exportPhase = "closed" => buffered = {}

(* "the flow worker — and the ClickHouse path — are never blocked": a flow *)
(* is handled even when no broker answers.                                 *)
NeverBlocked ==
  \A f \in 1..MaxExported : (\E w \in ExportWorkers : encoders[w].flow = f) ~> (f \in {h[1] : h \in handled})

(* Messages are whole and counted.                                         *)
ExportRight == MessagesWhole /\ ExportsAccounted
=============================================================================
