--------------------------- MODULE DeliveryProofs ---------------------------
(***************************************************************************)
(* Proofs about the delivery of records, for all sets of partitions and    *)
(* workers, all sizes of batches and all combinations of faults.           *)
(***************************************************************************)
EXTENDS Delivery, TLAPS

(* A batch that is full is about to be sent, or belongs to a worker that   *)
(* will not process another record; only such a worker has a larger one.   *)
FullInv ==
  \A w \in Workers :
    /\ size[w] >= MaximumBatchSize => pc[w] = "Flush" \/ w \in canceled
    /\ size[w] > MaximumBatchSize => w \in canceled
    /\ pc[w] \in {"callback", "Flush"} =>
         size[w] <= MaximumBatchSize - 1 + given[current[w]]

(* A worker that processes records does so on one of its partitions.       *)
CurrentInv ==
  \A w \in Workers :
    pc[w] \in {"process", "callback", "Flush"} =>
      /\ current[w] \in Partitions /\ owner[current[w]] = w
      /\ pc[w] # "process" => next[current[w]] < MaxOffset

(* The rows of a record are only counted while it is processed.            *)
GivenInv ==
  \A p \in Partitions :
    owner[p] # NoWorker /\ given[p] # 0 =>
      pc[owner[p]] \in {"callback", "Flush"} /\ current[owner[p]] = p

TypeInv == TypeOK /\ FullInv /\ CurrentInv /\ GivenInv

LEMMA MaxBatchType == MaxBatch \in Nat /\ MaximumBatchSize <= MaxBatch
BY DeliveryAssumption DEF MaxBatch

(* What a flow is made of.                                                 *)
LEMMA FlowParts ==
  ASSUME NEW f \in Flows
  PROVE  /\ f[1][1] \in Partitions
         /\ f[1][2] \in Offsets /\ f[1][2] \in Nat
         /\ f[1] = <<f[1][1], f[1][2]>>
         /\ f[2] \in 1..MaxFlows /\ f[2] <= FlowsOf[f[1]]
         /\ f[1] \notin BadRecords
         /\ f = <<f[1], f[2]>>
BY DEF Flows, Records, Offsets

LEMMA InitTypeInv == Init => TypeInv
<1> SUFFICES ASSUME Init PROVE TypeInv
  OBVIOUS
<1>1. TypeOK
  BY DeliveryAssumption, MaxBatchType DEF Init, TypeOK, NoRows, None
<1> QED
  BY <1>1, DeliveryAssumption DEF Init, TypeInv, FullInv, CurrentInv, GivenInv

(* A record whose callback is called, or that cannot be decoded.           *)
LEMMA ProcessTypeInv ==
  ASSUME TypeInv, NEW w \in Workers, NEW p \in Partitions, owner[p] = w,
         \/ pc[w] = "fetched"
         \/ pc[w] = "process" /\ current[w] = p,
         ProcessRecord(w, p)
  PROVE  TypeInv'
<1> USE DeliveryAssumption
<1>0. next[p] + 1 \in 0..MaxOffset
  BY DEF TypeInv, TypeOK, ProcessRecord
<1>1. CASE Callback(w, p)
  <2>1. TypeOK'
    BY <1>1 DEF TypeInv, TypeOK, ProcessRecord, Callback, GoTo, groupVars, fetchVars,
                batchVars, sinkVars, faultVars, MaxBatch
  <2>2. FullInv'
    <3> SUFFICES ASSUME NEW v \in Workers
                 PROVE  FullInv!(v)'
      BY DEF FullInv
    <3>1. CASE v = w
      <4>1. size[w] < MaximumBatchSize
        <5>1. size[w] \in Int
          BY DEF TypeInv, TypeOK, MaxBatch
        <5> QED
          BY <5>1 DEF TypeInv, FullInv, ProcessRecord
      <4>2. given[p] \in Nat /\ size[w] \in Nat
        BY DEF TypeInv, TypeOK, MaxBatch
      <4> QED
        BY <1>1, <3>1, <4>1, <4>2
        DEF TypeInv, TypeOK, Callback, GoTo, fetchVars, batchVars
    <3>2. CASE v # w
      BY <1>1, <3>2
      DEF TypeInv, TypeOK, FullInv, ProcessRecord, Callback, GoTo, fetchVars, batchVars
    <3> QED
      BY <3>1, <3>2
  <2>3. CurrentInv'
    BY <1>0, <1>1 DEF TypeInv, TypeOK, CurrentInv, ProcessRecord, Callback, GoTo,
                     groupVars, fetchVars
  <2>4. GivenInv'
    BY <1>1 DEF TypeInv, TypeOK, GivenInv, ProcessRecord, Callback, GoTo, groupVars,
                fetchVars
  <2> QED
    BY <2>1, <2>2, <2>3, <2>4 DEF TypeInv
<1>2. CASE CallbackError(w, p)
  <2>1. next' \in [Partitions -> 0..MaxOffset]
    BY <1>0, <1>2 DEF TypeInv, TypeOK, CallbackError
  <2>2. limit' \in [Partitions -> 0..MaxOffset]
    BY <1>2, <2>1 DEF TypeInv, TypeOK, CallbackError, DropFetch
  <2>3. TypeOK'
    BY <1>0, <1>2, <2>1, <2>2
    DEF TypeInv, TypeOK, ProcessRecord, CallbackError, Mark, GoTo, groupVars,
        batchVars, sinkVars, faultVars, MaxBatch
  <2>4. FullInv'
    BY <1>2 DEF TypeInv, TypeOK, FullInv, ProcessRecord, CallbackError, GoTo, batchVars
  <2>5. CurrentInv'
    BY <1>2 DEF TypeInv, TypeOK, CurrentInv, ProcessRecord, CallbackError, GoTo, groupVars
  <2>6. GivenInv'
    BY <1>2 DEF TypeInv, TypeOK, GivenInv, ProcessRecord, CallbackError, GoTo, groupVars
  <2> QED
    BY <2>3, <2>4, <2>5, <2>6 DEF TypeInv
<1> QED
  BY <1>1, <1>2 DEF ProcessRecord

(* A row of the record that a worker processes.                            *)
LEMMA AppendTypeInv ==
  ASSUME TypeInv, NEW w \in Workers, AppendRow(w)
  PROVE  TypeInv'
<1> USE DeliveryAssumption
<1> DEFINE p == current[w]
           flow == <<<<p, next[p]>>, given[p] + 1>>
<1>1. /\ p \in Partitions /\ owner[p] = w /\ pc[w] = "callback" /\ flow \in Flows
      /\ given' = [given EXCEPT ![p] = @ + 1]
      /\ batch' = [batch EXCEPT ![w][flow] = @ + 1]
      /\ size' = [size EXCEPT ![w] = @ + 1]
      /\ pc' \in {pc, [pc EXCEPT ![w] = "Flush"]}
      /\ size[w] + 1 < MaximumBatchSize \/ pc' = [pc EXCEPT ![w] = "Flush"]
      /\ UNCHANGED <<produced, committed, owner, next, limit, marked, current, canceled,
                     stored, lost, lostRows, suffered, events>>
  BY DEF AppendRow, GoTo, TypeInv, CurrentInv, groupVars, sinkVars, faultVars
<1>2. given[p] + 1 \in 0..MaxFlows
  <2>1. flow[2] \in 1..MaxFlows
    BY <1>1, FlowParts
  <2> QED
    BY <1>1, <2>1 DEF TypeInv, TypeOK
<1> HIDE DEF flow
<1>3. /\ size[w] \in Nat /\ given[p] \in Nat
      /\ size[w] + 1 <= MaximumBatchSize + given[p]
      /\ size[w] >= MaximumBatchSize => w \in canceled
  BY <1>1 DEF TypeInv, TypeOK, FullInv, MaxBatch
<1>4. batch' \in [Workers -> [Flows -> Nat]]
  BY <1>1 DEF TypeInv, TypeOK
<1>5. size' \in [Workers -> 0..MaxBatch]
  <2>1. size[w] + 1 \in 0..MaxBatch
    BY <1>2, <1>3 DEF MaxBatch
  <2> QED
    BY <1>1, <2>1 DEF TypeInv, TypeOK
<1>6. given' \in [Partitions -> 0..MaxFlows]
  BY <1>1, <1>2 DEF TypeInv, TypeOK
<1> HIDE DEF p
<1>7. TypeOK'
  BY <1>1, <1>4, <1>5, <1>6 DEF TypeInv, TypeOK
<1>8. FullInv'
  <2> SUFFICES ASSUME NEW v \in Workers
               PROVE  FullInv!(v)'
    BY DEF FullInv
  <2>1. CASE v = w
    <3>1. size'[w] = size[w] + 1 /\ given'[current'[w]] = given[p] + 1
      BY <1>1 DEF TypeInv, TypeOK, p
    <3>2. size'[w] < MaximumBatchSize \/ pc'[w] = "Flush"
      BY <1>1, <3>1 DEF TypeInv, TypeOK
    <3>3. canceled' = canceled
      BY <1>1
    <3> QED
      BY <1>3, <2>1, <3>1, <3>2, <3>3
  <2>2. CASE v # w
    <3>1. /\ size'[v] = size[v] /\ pc'[v] = pc[v]
          /\ current'[v] = current[v] /\ canceled' = canceled
      BY <1>1, <2>2 DEF TypeInv, TypeOK
    <3>2. pc[v] \in {"callback", "Flush"} => given'[current[v]] = given[current[v]]
      BY <1>1, <2>2 DEF TypeInv, TypeOK, CurrentInv
    <3> QED
      BY <3>1, <3>2 DEF TypeInv, FullInv
  <2> QED
    BY <2>1, <2>2
<1>9. CurrentInv'
  BY <1>1 DEF TypeInv, TypeOK, CurrentInv
<1>10. GivenInv'
  <2> SUFFICES ASSUME NEW q \in Partitions, owner'[q] # NoWorker, given'[q] # 0
               PROVE  pc'[owner'[q]] \in {"callback", "Flush"} /\ current'[owner'[q]] = q
    BY DEF GivenInv
  <2>1. owner'[q] = owner[q] /\ owner[q] \in Workers
    BY <1>1 DEF TypeInv, TypeOK
  <2>2. CASE q = p
    BY <1>1, <2>1, <2>2 DEF TypeInv, TypeOK, p
  <2>3. CASE q # p
    <3>1. given[q] # 0
      BY <1>1, <2>3 DEF TypeInv, TypeOK
    <3> QED
      BY <1>1, <2>1, <3>1 DEF TypeInv, TypeOK, GivenInv
  <2> QED
    BY <2>2, <2>3
<1> QED
  BY <1>7, <1>8, <1>9, <1>10 DEF TypeInv

(* The end of a record.                                                    *)
LEMMA EndRecordTypeInv ==
  ASSUME TypeInv, NEW w \in Workers, EndRecord(w)
  PROVE  TypeInv'
<1> USE DeliveryAssumption
<1> DEFINE p == current[w]
<1>1. /\ p \in Partitions /\ owner[p] = w /\ pc[w] = "callback"
      /\ given' = [given EXCEPT ![p] = 0]
      /\ next' = [next EXCEPT ![p] = @ + 1]
      /\ pc' = [pc EXCEPT ![w] = "process"]
      /\ UNCHANGED <<produced, committed, owner, limit, marked, current, canceled,
                     batch, size, stored, lost, lostRows, suffered, events>>
  BY DEF EndRecord, GoTo, TypeInv, CurrentInv, groupVars, batchVars, sinkVars, faultVars
<1>2. next[p] + 1 \in 0..MaxOffset
  BY <1>1 DEF TypeInv, TypeOK, CurrentInv
<1> HIDE DEF p
<1>3. TypeOK'
  BY <1>1, <1>2 DEF TypeInv, TypeOK
<1>4. FullInv'
  BY <1>1 DEF TypeInv, TypeOK, FullInv, CurrentInv, p
<1>5. CurrentInv'
  BY <1>1 DEF TypeInv, TypeOK, CurrentInv
<1>6. GivenInv'
  BY <1>1 DEF TypeInv, TypeOK, GivenInv, p
<1> QED
  BY <1>3, <1>4, <1>5, <1>6 DEF TypeInv

LEMMA LoseType ==
  ASSUME TypeInv, NEW w \in Workers, Lose(w)
  PROVE  lost' \subseteq Flows /\ lostRows' \in Nat
BY DeliveryAssumption DEF TypeInv, TypeOK, Lose

LEMMA InsertType ==
  ASSUME TypeInv, NEW w \in Workers, Insert(w)
  PROVE  stored' \in [Flows -> Nat]
BY DEF TypeInv, TypeOK, Insert

LEMMA FaultType ==
  ASSUME TypeInv, NEW kind, Fault(kind)
  PROVE  suffered' \subseteq Faults /\ events' \in 0..MaxEvents
BY DeliveryAssumption DEF TypeInv, TypeOK, Fault, Event

LEMMA ClearType ==
  ASSUME TypeInv, NEW w \in Workers, Clear(w)
  PROVE  /\ batch' \in [Workers -> [Flows -> Nat]]
         /\ size' \in [Workers -> 0..MaxBatch]
         /\ \A v \in Workers : size'[v] = IF v = w THEN 0 ELSE size[v]
BY DeliveryAssumption, MaxBatchType DEF TypeInv, TypeOK, Clear, NoRows

LEMMA CommitType ==
  ASSUME TypeInv, NEW w \in Workers, TryCommit(w)
  PROVE  /\ committed' \in [Partitions -> {None} \cup 0..MaxOffset]
         /\ suffered' \subseteq Faults /\ events' \in 0..MaxEvents
<1>1. CASE CommitMarkedOffsets(w) /\ UNCHANGED faultVars
  BY <1>1 DEF TypeInv, TypeOK, CommitMarkedOffsets, faultVars
<1>2. CASE Fault("commit") /\ UNCHANGED committed
  BY <1>2, FaultType DEF TypeInv, TypeOK
<1> QED
  BY <1>1, <1>2 DEF TryCommit

LEMMA DropFetchType ==
  ASSUME TypeInv, NEW w \in Workers, DropFetch(w), UNCHANGED next
  PROVE  limit' \in [Partitions -> 0..MaxOffset]
BY DEF TypeInv, TypeOK, DropFetch

(* Each step keeps the types, and with them the two facts they rest on.    *)
LEMMA TypeStep ==
  ASSUME TypeInv, [Next]_vars
  PROVE  TypeInv'
<1> USE DeliveryAssumption, MaxBatchType DEF TypeInv
<1> USE DEF groupVars, fetchVars, workerVars, batchVars, sinkVars, faultVars
<1>1. ASSUME NEW p \in Partitions, Produce(p)
      PROVE  TypeInv'
  BY <1>1 DEF Produce, TypeOK, FullInv, CurrentInv, GivenInv
<1>2. ASSUME NEW p \in Partitions, Revoke(p)
      PROVE  TypeInv'
  <2>1. owner[p] \in Workers
    BY <1>2 DEF Revoke, TypeOK
  <2>2. TypeOK'
    BY <1>2, <2>1, CommitType DEF Revoke, TypeOK
  <2>3. FullInv'
    BY <1>2 DEF Revoke, FullInv
  <2>4. CurrentInv'
    BY <1>2, <2>1 DEF Revoke, CurrentInv, TypeOK
  <2>5. GivenInv'
    BY <1>2, <2>1 DEF Revoke, GivenInv, TypeOK
  <2> QED
    BY <2>2, <2>3, <2>4, <2>5
<1>3. ASSUME NEW p \in Partitions, NEW w \in Workers, Assign(p, w)
      PROVE  TypeInv'
  <2> DEFINE start == IF committed[p] = None THEN produced[p] ELSE committed[p]
  <2>1. start \in 0..MaxOffset
    BY DEF TypeOK
  <2>2. next' = [next EXCEPT ![p] = start] /\ limit' = [limit EXCEPT ![p] = start]
    BY <1>3 DEF Assign
  <2>3. lost' \subseteq Flows
    BY <1>3 DEF Assign, TypeOK
  <2>4. TypeOK'
    BY <1>3, <2>1, <2>2, <2>3 DEF Assign, TypeOK
  <2>5. FullInv'
    BY <1>3 DEF Assign, FullInv, CurrentInv, TypeOK
  <2>6. CurrentInv'
    BY <1>3 DEF Assign, CurrentInv, TypeOK
  <2>7. GivenInv'
    BY <1>3 DEF Assign, GivenInv, TypeOK
  <2> QED
    BY <2>4, <2>5, <2>6, <2>7
<1>4. ASSUME NEW w \in Workers, AutoCommit(w)
      PROVE  TypeInv'
  BY <1>4 DEF AutoCommit, CommitMarkedOffsets, TypeOK, FullInv, CurrentInv, GivenInv
<1>5. ASSUME NEW w \in Workers, startOneWorker(w)
      PROVE  TypeInv'
  BY <1>5 DEF startOneWorker, GoTo, TypeOK, FullInv, CurrentInv, GivenInv
<1>6. ASSUME NEW w \in Workers, Cancel(w)
      PROVE  TypeInv'
  BY <1>6 DEF Cancel, Event, TypeOK, FullInv, CurrentInv, GivenInv
<1>7. ASSUME NEW w \in Workers, PollFetches(w)
      PROVE  TypeInv'
  <2>1. limit' \in [Partitions -> 0..MaxOffset]
    BY <1>7 DEF PollFetches, TypeOK
  <2> QED
    BY <1>7, <2>1 DEF PollFetches, GoTo, TypeOK, FullInv, CurrentInv, GivenInv
<1>8. ASSUME NEW w \in Workers, EndLoop(w)
      PROVE  TypeInv'
  <2>1. suffered' \subseteq Faults /\ events' \in 0..MaxEvents
    BY <1>8, FaultType DEF EndLoop, TypeOK
  <2> QED
    BY <1>8, <2>1 DEF EndLoop, GoTo, TypeOK, FullInv, CurrentInv, GivenInv
<1>9. ASSUME NEW w \in Workers, FirstRecord(w)
      PROVE  TypeInv'
  BY <1>9, ProcessTypeInv DEF FirstRecord, Fetched, Owned
<1>10. ASSUME NEW w \in Workers, NextRecord(w)
       PROVE  TypeInv'
  BY <1>10, ProcessTypeInv DEF NextRecord, CurrentInv
<1>11. ASSUME NEW w \in Workers, EndPartition(w)
       PROVE  TypeInv'
  BY <1>11 DEF EndPartition, Mark, GoTo, TypeOK, FullInv, CurrentInv, GivenInv
<1>12. ASSUME NEW w \in Workers, EndFetch(w)
       PROVE  TypeInv'
  BY <1>12 DEF EndFetch, GoTo, TypeOK, FullInv, CurrentInv, GivenInv
<1>13. ASSUME NEW w \in Workers, AbortFetch(w)
       PROVE  TypeInv'
  <2>1. limit' \in [Partitions -> 0..MaxOffset]
    BY <1>13, DropFetchType DEF AbortFetch
  <2>2. marked' \in [Partitions -> {None} \cup 0..MaxOffset]
    BY <1>13 DEF AbortFetch, Mark, TypeOK, CurrentInv
  <2> QED
    BY <1>13, <2>1, <2>2 DEF AbortFetch, GoTo, TypeOK, FullInv, CurrentInv, GivenInv
<1>14. ASSUME NEW w \in Workers, Flush(w)
       PROVE  TypeInv'
  BY <1>14, InsertType, ClearType DEF Flush, GoTo, TypeOK, FullInv, CurrentInv, GivenInv
<1>15. ASSUME NEW w \in Workers, Close(w)
       PROVE  TypeInv'
  <2>1. TypeOK'
    BY <1>15, CommitType DEF Close, Release, GoTo, TypeOK
  <2>2. FullInv'
    BY <1>15 DEF Close, GoTo, FullInv, TypeOK
  <2>3. CurrentInv'
    BY <1>15 DEF Close, Release, GoTo, CurrentInv, TypeOK
  <2>4. GivenInv'
    BY <1>15 DEF Close, Release, GoTo, GivenInv, TypeOK
  <2> QED
    BY <2>1, <2>2, <2>3, <2>4
<1>16. ASSUME NEW w \in Workers, shutdown(w)
       PROVE  TypeInv'
  <2>1. stored' \in [Flows -> Nat] /\ lost' \subseteq Flows /\ lostRows' \in Nat
    BY <1>16, InsertType, LoseType DEF shutdown, TypeOK
  <2>2. suffered' \subseteq Faults /\ events' \in 0..MaxEvents
    BY <1>16, FaultType DEF shutdown, TypeOK
  <2> QED
    BY <1>16, <2>1, <2>2, ClearType
    DEF shutdown, Leave, GoTo, TypeOK, FullInv, CurrentInv, GivenInv
<1>17. ASSUME NEW w \in Workers, FlushUnknown(w)
       PROVE  TypeInv'
  BY <1>17, InsertType, FaultType DEF FlushUnknown, TypeOK, FullInv, CurrentInv, GivenInv
<1>18. ASSUME NEW w \in Workers, FlushCanceled(w)
       PROVE  TypeInv'
  BY <1>18 DEF FlushCanceled, GoTo, TypeOK, FullInv, CurrentInv, GivenInv
<1>19. ASSUME NEW w \in Workers, Crash(w)
       PROVE  TypeInv'
  BY <1>19, LoseType, FaultType, ClearType
  DEF Crash, Leave, Release, GoTo, TypeOK, FullInv, CurrentInv, GivenInv
<1>20. ASSUME NEW w \in Workers, AppendRow(w)
       PROVE  TypeInv'
  BY <1>20, AppendTypeInv
<1>21. ASSUME NEW w \in Workers, EndRecord(w)
       PROVE  TypeInv'
  BY <1>21, EndRecordTypeInv
<1>22. CASE UNCHANGED vars
  BY <1>22 DEF vars, TypeOK, FullInv, CurrentInv, GivenInv
<1> QED
  BY <1>1, <1>2, <1>3, <1>4, <1>5, <1>6, <1>7, <1>8, <1>9, <1>10, <1>11, <1>12,
     <1>13, <1>14, <1>15, <1>16, <1>17, <1>18, <1>19, <1>20, <1>21, <1>22
  DEF Next, WorkerStep

(* The state always has its type: a batch never exceeds the size at which  *)
(* it is sent by more than the other rows of a record, that a worker that  *)
(* is stopped adds to a batch it could not send.                           *)
THEOREM DeliveryTypeOK == Spec => []TypeOK
<1>1. Init => TypeInv
  BY InitTypeInv
<1>2. TypeInv /\ [Next]_vars => TypeInv'
  BY TypeStep
<1>3. TypeInv => TypeOK
  BY DEF TypeInv
<1> QED
  BY <1>1, <1>2, <1>3, PTL DEF Spec

-----------------------------------------------------------------------------
(* What is marked has been given to a batch.                               *)
MarkedInv ==
  \A p \in Partitions : owner[p] # NoWorker => marked[p] <= next[p]

Covered(f) == Passed(f) => Kept(f) \/ f \in lost

LossInv ==
  /\ TypeInv
  /\ MarkedInv
  /\ \A f \in Flows : Covered(f)
  /\ lostRows <= events * MaxBatch

LEMMA InitLossInv == Init => LossInv
<1> SUFFICES ASSUME Init PROVE LossInv
  OBVIOUS
<1>1. TypeInv
  BY InitTypeInv
<1>2. MarkedInv
  BY DEF Init, MarkedInv
<1>3. ASSUME NEW f \in Flows
      PROVE  ~ Passed(f)
  BY FlowParts, DeliveryAssumption DEF Init, Passed, Before, None
<1>4. lostRows <= events * MaxBatch
  BY MaxBatchType DEF Init
<1> QED
  BY <1>1, <1>2, <1>3, <1>4 DEF LossInv, Covered

(* A batch is worth one event.                                             *)
LEMMA RowsStep ==
  ASSUME LossInv,
         \/ lostRows' = lostRows /\ events' \in {events, events + 1}
         \/ (\E w \in Workers : Lose(w)) /\ events' = events + 1
  PROVE  lostRows' <= events' * MaxBatch
<1> DEFINE allowed == events * MaxBatch
           allowedNext == events' * MaxBatch
<1>1. MaxBatch \in Nat /\ events \in Nat /\ lostRows \in Nat
  BY DeliveryAssumption, MaxBatchType DEF LossInv, TypeInv, TypeOK
<1>2. allowed \in Nat /\ lostRows <= allowed
  BY <1>1 DEF LossInv
<1>3. CASE lostRows' = lostRows /\ events' = events
  BY <1>2, <1>3
<1>4. CASE events' = events + 1 /\ (lostRows' = lostRows \/ \E w \in Workers : Lose(w))
  <2>1. allowedNext = allowed + MaxBatch
    BY <1>1, <1>4
  <2>2. lostRows' \in Nat /\ lostRows' <= lostRows + MaxBatch
    BY <1>1, <1>4 DEF Lose, LossInv, TypeInv, TypeOK
  <2> HIDE DEF allowed, allowedNext
  <2>3. lostRows' <= allowedNext
    BY <1>1, <1>2, <2>1, <2>2
  <2> QED
    BY <2>3 DEF allowedNext
<1> QED
  BY <1>3, <1>4

(* Flows that are not passed anew stay covered as long as no row leaves a  *)
(* batch for anywhere else than ClickHouse and lost.                       *)
LEMMA CoveredStep ==
  ASSUME LossInv,
         \A f \in Flows :
           /\ stored[f] > 0 => stored'[f] > 0
           /\ f \in lost => f \in lost'
           /\ Held(f) => Held(f)' \/ stored'[f] > 0 \/ f \in lost',
         NEW f \in Flows,
         Passed(f)' => Passed(f)
  PROVE  Covered(f)'
BY DEF LossInv, Covered, Kept

(* Committing what is marked passes no flow, nor does releasing.           *)
LEMMA CommitPasses ==
  ASSUME LossInv, NEW w \in Workers, TryCommit(w), UNCHANGED <<next, given>>,
         NEW f \in Flows,
         owner'[f[1][1]] # NoWorker => owner'[f[1][1]] = owner[f[1][1]],
         Passed(f)'
  PROVE  Passed(f)
<1> DEFINE p == f[1][1]
           offset == f[1][2]
<1>1. w # NoWorker
  BY DeliveryAssumption
<1>2. p \in Partitions /\ offset \in Nat
  BY FlowParts
<1>3. /\ committed[p] \in {None} \cup 0..MaxOffset
      /\ marked[p] \in {None} \cup 0..MaxOffset
      /\ next[p] \in 0..MaxOffset
  BY <1>2 DEF LossInv, TypeInv, TypeOK
<1>4. owner[p] # NoWorker => marked[p] <= next[p]
  BY <1>2 DEF LossInv, MarkedInv
<1>5. committed'[p] = committed[p] \/ (owner[p] = w /\ committed'[p] = marked[p])
  BY <1>2 DEF TryCommit, CommitMarkedOffsets, Owned, LossInv, TypeInv, TypeOK
<1>6. CASE offset < committed'[p]
  <2>1. CASE committed'[p] = committed[p]
    BY <1>6, <2>1 DEF Passed
  <2>2. CASE owner[p] = w /\ committed'[p] = marked[p]
    <3>1. offset < next[p]
      BY <1>1, <1>2, <1>3, <1>4, <1>6, <2>2 DEF None
    <3> QED
      BY <1>1, <2>2, <3>1 DEF Passed, Before
  <2> QED
    BY <1>5, <2>1, <2>2
<1>7. CASE owner'[p] # NoWorker /\ Before(f, next'[p], given'[p])
  BY <1>7 DEF Passed
<1> QED
  BY <1>6, <1>7 DEF Passed

(* A step that passes nothing and leaves the rows where they are.          *)
LEMMA QuietStep ==
  ASSUME LossInv, TypeInv', UNCHANGED <<batch, stored, lost, lostRows>>,
         events' \in {events, events + 1},
         MarkedInv',
         \A f \in Flows : Passed(f)' => Passed(f)
  PROVE  LossInv'
<1>1. ASSUME NEW f \in Flows
      PROVE  Covered(f)'
  BY CoveredStep DEF Held
<1>2. lostRows' <= events' * MaxBatch
  BY RowsStep
<1> QED
  BY <1>1, <1>2 DEF LossInv

(* A record is passed when it is processed, or cannot be decoded.          *)
LEMMA ProcessLossInv ==
  ASSUME LossInv, TypeInv', NEW w \in Workers, NEW p \in Partitions, owner[p] = w,
         \/ pc[w] = "fetched"
         \/ pc[w] = "process" /\ current[w] = p,
         ProcessRecord(w, p)
  PROVE  LossInv'
<1> USE DeliveryAssumption
<1>1. UNCHANGED <<committed, owner, given, batch, stored, lost, lostRows, events>>
  BY DEF ProcessRecord, Callback, CallbackError, groupVars, fetchVars, batchVars, sinkVars,
         faultVars
<1>2. CASE Callback(w, p)
  BY <1>1, <1>2, QuietStep DEF Callback, fetchVars, LossInv, MarkedInv, Passed
<1>3. CASE CallbackError(w, p) /\ <<p, next[p]>> \in BadRecords
  <2>1. next[p] \in 0..MaxOffset /\ next' = [next EXCEPT ![p] = next[p] + 1]
    BY <1>3 DEF LossInv, TypeInv, TypeOK, CallbackError
  <2>2. MarkedInv'
    <3> SUFFICES ASSUME NEW q \in Partitions, owner[q] # NoWorker
                 PROVE  marked'[q] <= next'[q]
      BY <1>1 DEF MarkedInv
    <3>1. /\ marked[q] <= next[q]
          /\ next[q] \in 0..MaxOffset
          /\ next'[q] = IF q = p THEN next[q] + 1 ELSE next[q]
          /\ marked'[q] = IF q = p THEN next[q] + 1 ELSE marked[q]
      BY <1>3, <2>1 DEF MarkedInv, LossInv, TypeInv, TypeOK, CallbackError, Mark
    <3> QED
      BY <3>1
  <2>3. given[p] = 0
    BY DEF LossInv, TypeInv, GivenInv
  <2>4. ASSUME NEW f \in Flows, Passed(f)'
        PROVE  Passed(f)
    <3>1. CASE f[1][1] # p
      BY <1>1, <2>1, <2>4, <3>1, FlowParts DEF Passed, Before, LossInv, TypeInv, TypeOK
    <3>2. CASE f[1][1] = p
      <4>1. f[1][2] # next[p]
        BY <1>3, <3>2, FlowParts
      <4>2. next'[p] = next[p] + 1 /\ f[1][2] \in Nat /\ f[2] \in 1..MaxFlows
        BY <2>1, FlowParts DEF LossInv, TypeInv, TypeOK
      <4> QED
        BY <1>1, <2>1, <2>3, <2>4, <3>2, <4>1, <4>2 DEF Passed, Before
    <3> QED
      BY <3>1, <3>2
  <2> QED
    BY <1>1, <2>2, <2>4, QuietStep
<1> QED
  BY <1>2, <1>3 DEF ProcessRecord

(* What a row that is given to a batch does to the batches.                *)
LEMMA AppendedRow ==
  ASSUME TypeInv, NEW w \in Workers, AppendRow(w)
  PROVE  \E row \in Flows :
           /\ row = <<<<current[w], next[current[w]]>>, given[current[w]] + 1>>
           /\ current[w] \in Partitions /\ owner[current[w]] = w
           /\ \A f \in Flows, v \in Workers :
                batch'[v][f] = IF v = w /\ f = row THEN batch[v][f] + 1 ELSE batch[v][f]
           /\ \A q \in Partitions :
                given'[q] = IF q = current[w] THEN given[q] + 1 ELSE given[q]
<1> DEFINE row == <<<<current[w], next[current[w]]>>, given[current[w]] + 1>>
<1>1. row \in Flows /\ batch' = [batch EXCEPT ![w][row] = @ + 1]
  BY DEF AppendRow
<1>2. current[w] \in Partitions /\ owner[current[w]] = w
  BY DEF AppendRow, TypeInv, CurrentInv
<1>3. \A q \in Partitions :
        given'[q] = IF q = current[w] THEN given[q] + 1 ELSE given[q]
  BY DEF AppendRow, TypeInv, TypeOK
<1> HIDE DEF row
<1>4. \A f \in Flows, v \in Workers :
        batch'[v][f] = IF v = w /\ f = row THEN batch[v][f] + 1 ELSE batch[v][f]
  BY <1>1 DEF TypeInv, TypeOK
<1> QED
  BY <1>1, <1>2, <1>3, <1>4 DEF row

(* What comes before the next row, once it has been given.                 *)
LEMMA BeforeRow ==
  ASSUME NEW f \in Flows, NEW offset \in Nat, NEW rows \in Nat
  PROVE  Before(f, offset, rows + 1) =>
           Before(f, offset, rows) \/ (f[1][2] = offset /\ f[2] = rows + 1)
BY FlowParts, DeliveryAssumption DEF Before

LEMMA AppendLossInv ==
  ASSUME LossInv, TypeInv', NEW w \in Workers, AppendRow(w)
  PROVE  LossInv'
<1> DEFINE p == current[w]
<1>1. UNCHANGED <<committed, owner, next, marked, stored, lost, lostRows, events>>
  BY DEF AppendRow, groupVars, sinkVars, faultVars
<1>2. PICK row \in Flows :
        /\ row = <<<<p, next[p]>>, given[p] + 1>>
        /\ p \in Partitions /\ owner[p] = w
        /\ \A f \in Flows, v \in Workers :
             batch'[v][f] = IF v = w /\ f = row THEN batch[v][f] + 1 ELSE batch[v][f]
        /\ \A q \in Partitions : given'[q] = IF q = p THEN given[q] + 1 ELSE given[q]
  BY AppendedRow DEF LossInv
<1>3. \A f \in Flows, v \in Workers : batch[v][f] \in Nat
  BY DEF LossInv, TypeInv, TypeOK
<1>4. \A f \in Flows : Held(f) => Held(f)'
  <2>1. \A f \in Flows, v \in Workers : batch[v][f] > 0 => batch'[v][f] > 0
    BY <1>2, <1>3
  <2> QED
    BY <2>1 DEF Held
<1>5. Held(row)'
  BY <1>2, <1>3 DEF Held
<1>6. ASSUME NEW f \in Flows
      PROVE  Covered(f)'
  <2>1. CASE f = row
    BY <1>5, <2>1 DEF Covered, Kept
  <2>2. CASE f # row
    <3>1. Passed(f)' => Passed(f)
      <4>1. f[1][1] \in Partitions /\ f = <<<<f[1][1], f[1][2]>>, f[2]>>
        BY FlowParts
      <4>2. next[f[1][1]] \in Nat /\ given[f[1][1]] \in Nat
        BY <4>1 DEF LossInv, TypeInv, TypeOK
      <4>3. CASE f[1][1] # p
        BY <1>1, <1>2, <4>1, <4>3 DEF Passed
      <4>4. CASE f[1][1] = p
        <5>1. given'[p] = given[p] + 1
          BY <1>2
        <5>2. ~ (f[1][2] = next[p] /\ f[2] = given[p] + 1)
          BY <1>2, <2>2, <4>1, <4>4
        <5> QED
          BY <1>1, <4>2, <4>4, <5>1, <5>2, BeforeRow DEF Passed
      <4> QED
        BY <4>3, <4>4
    <3> QED
      BY <1>1, <1>4, <3>1, CoveredStep
  <2> QED
    BY <2>1, <2>2
<1>7. MarkedInv'
  BY <1>1 DEF LossInv, MarkedInv
<1>8. lostRows' <= events' * MaxBatch
  BY <1>1, RowsStep
<1> QED
  BY <1>6, <1>7, <1>8 DEF LossInv

(* Going to the next record, when this one has no other row, passes none.  *)
LEMMA EndRecordBefore ==
  ASSUME TypeInv, NEW w \in Workers, EndRecord(w)
  PROVE  /\ current[w] \in Partitions /\ owner[current[w]] = w
         /\ \A q \in Partitions : next'[q] >= next[q]
         /\ \A q \in Partitions :
              q # current[w] => next'[q] = next[q] /\ given'[q] = given[q]
         /\ given'[current[w]] = 0 /\ next'[current[w]] = next[current[w]] + 1
         /\ \A f \in Flows :
              Before(f, next'[f[1][1]], given'[f[1][1]]) <=>
                Before(f, next[f[1][1]], given[f[1][1]])
<1> DEFINE p == current[w]
<1>1. p \in Partitions /\ owner[p] = w
  BY DEF EndRecord, TypeInv, CurrentInv
<1>2. /\ next' = [next EXCEPT ![p] = next[p] + 1]
      /\ given' = [given EXCEPT ![p] = 0]
      /\ given[p] = FlowsOf[<<p, next[p]>>]
  BY DEF EndRecord
<1>3. /\ \A q \in Partitions : next[q] \in Nat /\ given[q] \in Nat
      /\ \A q \in Partitions : next'[q] = IF q = p THEN next[q] + 1 ELSE next[q]
      /\ \A q \in Partitions : given'[q] = IF q = p THEN 0 ELSE given[q]
  BY <1>2 DEF TypeInv, TypeOK
<1>4. ASSUME NEW f \in Flows
      PROVE  Before(f, next'[f[1][1]], given'[f[1][1]]) <=>
               Before(f, next[f[1][1]], given[f[1][1]])
  <2>1. /\ f[1][1] \in Partitions /\ f[1][2] \in Nat /\ f[2] \in 1..MaxFlows
        /\ f[1] = <<f[1][1], f[1][2]>> /\ f[2] <= FlowsOf[f[1]]
    BY FlowParts
  <2>2. CASE f[1][1] # p
    BY <1>3, <2>1, <2>2
  <2>3. CASE f[1][1] = p
    <3>1. next'[p] = next[p] + 1 /\ given'[p] = 0 /\ next[p] \in Nat /\ given[p] \in Nat
      BY <1>1, <1>3
    <3>2. f[1][2] = next[p] => f[2] <= given[p]
      BY <1>2, <2>1, <2>3
    <3> QED
      BY <2>1, <2>3, <3>1, <3>2, DeliveryAssumption DEF Before
  <2> QED
    BY <2>2, <2>3
<1> QED
  BY <1>1, <1>3, <1>4

LEMMA EndRecordLossInv ==
  ASSUME LossInv, TypeInv', NEW w \in Workers, EndRecord(w)
  PROVE  LossInv'
<1>1. UNCHANGED <<committed, owner, marked, batch, stored, lost, lostRows, events>>
  BY DEF EndRecord, groupVars, batchVars, sinkVars, faultVars
<1>2. MarkedInv'
  <2>1. \A q \in Partitions : /\ next'[q] >= next[q]
                             /\ next[q] \in Int /\ next'[q] \in Int /\ marked[q] \in Int
    BY EndRecordBefore DEF LossInv, TypeInv, TypeOK, None
  <2> QED
    BY <1>1, <2>1 DEF LossInv, MarkedInv
<1>3. \A f \in Flows : Passed(f)' => Passed(f)
  BY <1>1, EndRecordBefore DEF Passed, LossInv
<1> QED
  BY <1>1, <1>2, <1>3, QuietStep

(* A worker that sends, loses or keeps its rows, but reads nothing.        *)
LEMMA RowsLossInv ==
  ASSUME LossInv, TypeInv', NEW w \in Workers,
         UNCHANGED <<committed, next, given, marked>>,
         \A p \in Partitions : owner'[p] \in {owner[p], NoWorker},
         batch' = batch \/ Clear(w),
         \/ Insert(w) /\ UNCHANGED <<lost, lostRows>> /\ events' \in {events, events + 1}
         \/ Lose(w) /\ UNCHANGED stored /\ events' = events + 1
  PROVE  LossInv'
<1>1. MarkedInv'
  BY DEF LossInv, MarkedInv
<1>2. ASSUME NEW f \in Flows
      PROVE  /\ stored[f] > 0 => stored'[f] > 0
             /\ f \in lost => f \in lost'
             /\ batch[w][f] > 0 => stored'[f] > 0 \/ f \in lost'
  BY DEF Insert, Lose, LossInv, TypeInv, TypeOK
<1>3. ASSUME NEW f \in Flows, Held(f)
      PROVE  Held(f)' \/ stored'[f] > 0 \/ f \in lost'
  <2>1. PICK v \in Workers : batch[v][f] > 0
    BY <1>3 DEF Held
  <2>2. CASE v = w
    BY <1>2, <2>1, <2>2
  <2>3. CASE v # w
    <3>1. batch'[v] = batch[v]
      BY <2>3 DEF Clear, LossInv, TypeInv, TypeOK
    <3> QED
      BY <2>1, <3>1 DEF Held
  <2> QED
    BY <2>2, <2>3
<1>4. ASSUME NEW f \in Flows
      PROVE  Covered(f)'
  <2>1. Passed(f)' => Passed(f)
    BY FlowParts DEF Passed
  <2> QED
    BY <1>2, <1>3, <2>1, CoveredStep
<1>5. lostRows' <= events' * MaxBatch
  BY RowsStep
<1> QED
  BY <1>1, <1>4, <1>5 DEF LossInv

LEMMA LossStep ==
  ASSUME LossInv, [Next]_vars
  PROVE  LossInv'
<1> USE DeliveryAssumption
<1> USE DEF groupVars, fetchVars, workerVars, batchVars, sinkVars, faultVars
<1>0. TypeInv /\ TypeInv' /\ MarkedInv
  BY TypeStep DEF LossInv
<1>1. ASSUME NEW p \in Partitions, Produce(p)
      PROVE  LossInv'
  BY <1>0, <1>1, QuietStep DEF Produce, MarkedInv, Passed
<1>2. ASSUME NEW p \in Partitions, Revoke(p)
      PROVE  LossInv'
  <2>1. owner[p] \in Workers /\ TryCommit(owner[p]) /\ UNCHANGED next
    BY <1>0, <1>2 DEF Revoke, TypeInv, TypeOK
  <2>2. \A q \in Partitions : owner'[q] # NoWorker => owner'[q] = owner[q]
    BY <1>0, <1>2 DEF Revoke, TypeInv, TypeOK
  <2>3. MarkedInv'
    BY <1>0, <1>2, <2>2 DEF Revoke, MarkedInv
  <2>4. \A f \in Flows : Passed(f)' => Passed(f)
    BY <1>2, <2>1, <2>2, CommitPasses, FlowParts DEF Revoke
  <2>5. events' \in {events, events + 1}
    BY <2>1 DEF TryCommit, Fault, Event
  <2> QED
    BY <1>0, <1>2, <2>3, <2>4, <2>5, QuietStep DEF Revoke
<1>3. ASSUME NEW p \in Partitions, NEW w \in Workers, Assign(p, w)
      PROVE  LossInv'
  <2>1. MarkedInv'
    <3> SUFFICES ASSUME NEW q \in Partitions, owner'[q] # NoWorker
                 PROVE  marked'[q] <= next'[q]
      BY DEF MarkedInv
    <3>1. CASE q = p
      <4>1. marked'[q] = None /\ next'[q] \in 0..MaxOffset
        BY <1>0, <1>3, <3>1 DEF Assign, TypeInv, TypeOK
      <4> QED
        BY <4>1 DEF None
    <3>2. CASE q # p
      BY <1>0, <1>3, <3>2 DEF Assign, MarkedInv, TypeInv, TypeOK
    <3> QED
      BY <3>1, <3>2
  <2>2. ASSUME NEW f \in Flows
        PROVE  Covered(f)'
    <3>1. CASE Passed(f)' => Passed(f)
      BY <1>3, <3>1, CoveredStep DEF Assign, Held
    <3>2. CASE Passed(f)' /\ ~ Passed(f)
      <4>1. f[1][1] = p /\ committed[p] = None /\ f[1][2] < produced[p]
        <5>1. f[1][1] \in Partitions /\ f[1][2] \in Nat /\ f[2] \in 1..MaxFlows
          BY FlowParts
        <5>2. CASE f[1][1] # p
          BY <1>0, <1>3, <3>2, <5>1, <5>2 DEF Assign, Passed, TypeInv, TypeOK
        <5>3. CASE f[1][1] = p
          <6>1. given'[p] = 0 /\ next'[p] = IF committed[p] = None THEN produced[p]
                                                              ELSE committed[p]
            BY <1>0, <1>3 DEF Assign, TypeInv, TypeOK
          <6>2. Before(f, next'[p], given'[p]) => f[1][2] < next'[p]
            BY <5>1, <6>1 DEF Before
          <6> QED
            BY <1>3, <3>2, <5>1, <5>3, <6>1, <6>2 DEF Assign, Passed
        <5> QED
          BY <5>2, <5>3
      <4> QED
        BY <1>3, <4>1 DEF Assign, Covered
    <3> QED
      BY <3>1, <3>2
  <2>3. lostRows' <= events' * MaxBatch
    BY <1>3, RowsStep DEF Assign
  <2> QED
    BY <1>0, <2>1, <2>2, <2>3 DEF LossInv
<1>4. ASSUME NEW w \in Workers, AutoCommit(w)
      PROVE  LossInv'
  <2>1. \A f \in Flows : Passed(f)' => Passed(f)
    BY <1>4, CommitPasses DEF AutoCommit, TryCommit
  <2> QED
    BY <1>0, <1>4, <2>1, QuietStep DEF AutoCommit, MarkedInv
<1>5. ASSUME NEW w \in Workers, startOneWorker(w)
      PROVE  LossInv'
  BY <1>0, <1>5, QuietStep DEF startOneWorker, MarkedInv, Passed
<1>6. ASSUME NEW w \in Workers, Cancel(w)
      PROVE  LossInv'
  BY <1>0, <1>6, QuietStep DEF Cancel, Event, MarkedInv, Passed
<1>7. ASSUME NEW w \in Workers, PollFetches(w)
      PROVE  LossInv'
  BY <1>0, <1>7, QuietStep DEF PollFetches, MarkedInv, Passed
<1>8. ASSUME NEW w \in Workers, EndLoop(w)
      PROVE  LossInv'
  BY <1>0, <1>8, QuietStep DEF EndLoop, Fault, Event, MarkedInv, Passed
<1>9. ASSUME NEW w \in Workers, FirstRecord(w)
      PROVE  LossInv'
  BY <1>0, <1>9, ProcessLossInv DEF FirstRecord, Fetched, Owned
<1>10. ASSUME NEW w \in Workers, NextRecord(w)
       PROVE  LossInv'
  BY <1>0, <1>10, ProcessLossInv DEF NextRecord, TypeInv, CurrentInv
<1>11. ASSUME NEW w \in Workers, EndPartition(w)
       PROVE  LossInv'
  <2>1. MarkedInv'
    <3>1. \A q \in Partitions :
            marked'[q] = marked[q] \/ marked'[q] = next[q]
      BY <1>0, <1>11 DEF EndPartition, Mark, TypeInv, TypeOK
    <3>2. \A q \in Partitions : next[q] \in Int
      BY <1>0 DEF TypeInv, TypeOK
    <3> QED
      BY <1>0, <1>11, <3>1, <3>2 DEF EndPartition, MarkedInv
  <2> QED
    BY <1>0, <1>11, <2>1, QuietStep DEF EndPartition, Passed
<1>12. ASSUME NEW w \in Workers, EndFetch(w)
       PROVE  LossInv'
  BY <1>0, <1>12, QuietStep DEF EndFetch, MarkedInv, Passed
<1>13. ASSUME NEW w \in Workers, AbortFetch(w)
       PROVE  LossInv'
  <2>1. MarkedInv'
    <3>1. \A q \in Partitions :
            marked'[q] = marked[q] \/ marked'[q] = next[q]
      BY <1>0, <1>13 DEF AbortFetch, Mark, TypeInv, TypeOK
    <3>2. \A q \in Partitions : next[q] \in Int
      BY <1>0 DEF TypeInv, TypeOK
    <3> QED
      BY <1>0, <1>13, <3>1, <3>2 DEF AbortFetch, MarkedInv
  <2> QED
    BY <1>0, <1>13, <2>1, QuietStep DEF AbortFetch, Passed
<1>14. ASSUME NEW w \in Workers, Flush(w)
       PROVE  LossInv'
  BY <1>0, <1>14, RowsLossInv DEF Flush
<1>15. ASSUME NEW w \in Workers, Close(w)
       PROVE  LossInv'
  <2>1. \A q \in Partitions : owner'[q] # NoWorker => owner'[q] = owner[q]
    BY <1>15 DEF Close, Release
  <2>2. MarkedInv'
    BY <1>0, <1>15, <2>1 DEF Close, MarkedInv
  <2>3. \A f \in Flows : Passed(f)' => Passed(f)
    BY <1>15, <2>1, CommitPasses, FlowParts DEF Close
  <2>4. events' \in {events, events + 1}
    BY <1>15 DEF Close, TryCommit, Fault, Event
  <2> QED
    BY <1>0, <1>15, <2>2, <2>3, <2>4, QuietStep DEF Close
<1>16. ASSUME NEW w \in Workers, shutdown(w)
       PROVE  LossInv'
  BY <1>0, <1>16, RowsLossInv DEF shutdown, Fault, Event
<1>17. ASSUME NEW w \in Workers, FlushUnknown(w)
       PROVE  LossInv'
  BY <1>0, <1>17, RowsLossInv DEF FlushUnknown, Fault, Event
<1>18. ASSUME NEW w \in Workers, FlushCanceled(w)
       PROVE  LossInv'
  BY <1>0, <1>18, QuietStep DEF FlushCanceled, MarkedInv, Passed
<1>19. ASSUME NEW w \in Workers, Crash(w)
       PROVE  LossInv'
  <2>1. \A p \in Partitions : owner'[p] \in {owner[p], NoWorker}
    BY <1>19 DEF Crash, Release
  <2> QED
    BY <1>0, <1>19, <2>1, RowsLossInv DEF Crash, Fault, Event
<1>20. ASSUME NEW w \in Workers, AppendRow(w)
       PROVE  LossInv'
  BY <1>0, <1>20, AppendLossInv
<1>21. ASSUME NEW w \in Workers, EndRecord(w)
       PROVE  LossInv'
  BY <1>0, <1>21, EndRecordLossInv
<1>22. CASE UNCHANGED vars
  BY <1>0, <1>22, QuietStep DEF vars, MarkedInv, Passed
<1> QED
  BY <1>1, <1>2, <1>3, <1>4, <1>5, <1>6, <1>7, <1>8, <1>9, <1>10, <1>11, <1>12,
     <1>13, <1>14, <1>15, <1>16, <1>17, <1>18, <1>19, <1>20, <1>21, <1>22
  DEF Next, WorkerStep

(* What the group has passed is stored or held, but for one batch for each *)
(* crash or final flush that fails, and what a group without a committed   *)
(* offset skips.  Only a worker that is stopped has more than a batch.     *)
THEOREM DeliveryLosesBatches == Spec => []LossIsABatch
<1>1. Init => LossInv
  BY InitLossInv
<1>2. LossInv /\ [Next]_vars => LossInv'
  BY LossStep
<1>3. LossInv => LossIsABatch
  BY DEF LossInv, LossIsABatch, Covered, TypeInv, FullInv
<1> QED
  BY <1>1, <1>2, <1>3, PTL DEF Spec

-----------------------------------------------------------------------------
(* Nothing happened that may give the same flow twice.                     *)
Clean == suffered \cap {"crash", "commit", "unknownInsert"} = {}

Absent(f) == stored[f] = 0 /\ \A w \in Workers : batch[w][f] = 0

(* No flow of the partition has been read from there.                      *)
Fresh(p, offset, rows) ==
  \A f \in Flows : f[1][1] = p /\ ~ Before(f, offset, rows) => Absent(f)

(* Where the next owner of the partition starts.                           *)
Restart(p) == IF committed[p] = None THEN produced[p] ELSE committed[p]

Processed(p) ==
  pc[owner[p]] \in {"process", "callback", "Flush"} /\ current[owner[p]] = p

(* Nothing has been read from where the owner is, nor, unless the owner is *)
(* processing the partition, from where it would leave it.                 *)
FreshInv(p) ==
  IF owner[p] = NoWorker
  THEN Fresh(p, Restart(p), 0)
  ELSE /\ Fresh(p, next[p], given[p])
       /\ \/ Processed(p)
          \/ marked[p] = next[p]
          \/ marked[p] = None /\ Fresh(p, Restart(p), 0)

Once(f) ==
  /\ stored[f] <= 1
  /\ \A w \in Workers :
       batch[w][f] > 0 =>
         /\ batch[w][f] = 1
         /\ stored[f] = 0
         /\ \A v \in Workers \ {w} : batch[v][f] = 0

OnceInv ==
  /\ TypeInv
  /\ Clean => /\ \A p \in Partitions : FreshInv(p)
              /\ \A f \in Flows : Once(f)

LEMMA InitOnceInv == Init => OnceInv
<1> SUFFICES ASSUME Init PROVE OnceInv
  OBVIOUS
<1>1. \A f \in Flows : Absent(f) /\ Once(f)
  BY DEF Init, Absent, Once, NoRows
<1>2. \A p \in Partitions : FreshInv(p)
  BY <1>1 DEF Init, FreshInv, Fresh
<1> QED
  BY <1>1, <1>2, InitTypeInv DEF OnceInv

(* A partition that is left alone, while no row appears in it.             *)
LEMMA FreshKept ==
  ASSUME NEW p \in Partitions, FreshInv(p),
         \A f \in Flows : f[1][1] = p /\ Absent(f) => Absent(f)',
         next'[p] = next[p], given'[p] = given[p], marked'[p] = marked[p],
         owner'[p] = owner[p], committed'[p] = committed[p], produced'[p] = produced[p],
         owner[p] # NoWorker /\ Processed(p) => Processed(p)'
  PROVE  FreshInv(p)'
<1>1. Fresh(p, next[p], given[p]) => Fresh(p, next[p], given[p])'
  BY DEF Fresh, Before
<1>2. Fresh(p, Restart(p), 0) => Fresh(p, Restart(p), 0)'
  BY DEF Fresh, Restart, Before
<1> QED
  BY <1>1, <1>2 DEF FreshInv

(* The commit of a worker that processes no partition, and that may then   *)
(* leave some of its partitions to others.                                 *)
LEMMA FreshCommit ==
  ASSUME OnceInv, Clean, NEW w \in Workers, CommitMarkedOffsets(w),
         UNCHANGED <<next, given, marked, produced, batch, stored>>,
         NEW p \in Partitions,
         \/ owner'[p] = owner[p]
         \/ owner[p] = w /\ owner'[p] = NoWorker /\ pc[w] \notin {"process", "callback", "Flush"},
         owner[p] # NoWorker /\ Processed(p) /\ owner'[p] = owner[p] => Processed(p)'
  PROVE  FreshInv(p)'
<1> USE DeliveryAssumption
<1>1. FreshInv(p) /\ w # NoWorker
  BY DEF OnceInv
<1>2. \A f \in Flows : Absent(f) => Absent(f)'
  BY DEF Absent
<1>3. committed'[p] = IF owner[p] = w /\ marked[p] # None THEN marked[p] ELSE committed[p]
  BY DEF CommitMarkedOffsets, Owned
<1>4. next[p] # None
  BY DEF OnceInv, TypeInv, TypeOK, None
<1>5. Fresh(p, next[p], given[p]) => Fresh(p, next[p], given[p])'
  BY <1>2 DEF Fresh, Before
<1>6. committed'[p] = committed[p] /\ Fresh(p, Restart(p), 0) => Fresh(p, Restart(p), 0)'
  BY <1>2 DEF Fresh, Restart, Before
<1>7. committed'[p] = next[p] /\ Fresh(p, next[p], 0) => Fresh(p, Restart(p), 0)'
  BY <1>2, <1>4 DEF Fresh, Restart, Before
<1>8. CASE owner[p] # w
  BY <1>1, <1>2, <1>3, <1>8, FreshKept
<1>9. CASE owner[p] = w /\ owner'[p] = w
  BY <1>1, <1>3, <1>4, <1>5, <1>6, <1>9 DEF FreshInv
<1>10. CASE owner[p] = w /\ owner'[p] = NoWorker
  <2>1. given[p] = 0
    BY <1>1, <1>10 DEF OnceInv, TypeInv, GivenInv
  <2> QED
    BY <1>1, <1>3, <1>4, <1>5, <1>6, <1>7, <1>10, <2>1 DEF FreshInv, Processed
<1> QED
  BY <1>8, <1>9, <1>10

(* A batch that is sent or lost.                                           *)
LEMMA OnceRows ==
  ASSUME OnceInv, Clean, NEW w \in Workers, Clear(w), Insert(w) \/ UNCHANGED stored,
         NEW f \in Flows
  PROVE  Once(f)' /\ (Absent(f) => Absent(f)')
<1>1. /\ stored[f] \in Nat
      /\ \A v \in Workers : batch[v][f] \in Nat
      /\ \A v \in Workers : batch'[v][f] = IF v = w THEN 0 ELSE batch[v][f]
      /\ stored'[f] = stored[f] \/ stored'[f] = stored[f] + batch[w][f]
  BY DEF Clear, Insert, NoRows, OnceInv, TypeInv, TypeOK
<1>2. Once(f)
  BY DEF OnceInv
<1>3. Absent(f) => Absent(f)'
  BY <1>1 DEF Absent
<1>4. CASE batch[w][f] = 0
  <2>1. stored'[f] = stored[f] /\ \A v \in Workers : batch'[v][f] = batch[v][f]
    BY <1>1, <1>4
  <2> QED
    BY <1>2, <1>3, <2>1 DEF Once
<1>5. CASE batch[w][f] > 0
  <2>1. batch[w][f] = 1 /\ stored[f] = 0 /\ \A v \in Workers \ {w} : batch[v][f] = 0
    BY <1>2, <1>5 DEF Once
  <2>2. \A v \in Workers : batch'[v][f] = 0
    BY <1>1, <2>1
  <2>3. stored'[f] <= 1
    BY <1>1, <2>1
  <2> QED
    BY <1>3, <2>2, <2>3 DEF Once
<1> QED
  BY <1>1, <1>4, <1>5

(* A record that is processed, or cannot be decoded.                       *)
LEMMA ProcessOnceInv ==
  ASSUME OnceInv, TypeInv', NEW w \in Workers, NEW p \in Partitions, owner[p] = w,
         \/ pc[w] = "fetched"
         \/ pc[w] = "process" /\ current[w] = p,
         ProcessRecord(w, p)
  PROVE  OnceInv'
<1> USE DeliveryAssumption
<1>1. /\ UNCHANGED <<produced, committed, owner, given, batch, stored, suffered>>
      /\ Clean' => Clean
      /\ Callback(w, p) \/ CallbackError(w, p)
  BY DEF ProcessRecord, Callback, CallbackError, fetchVars, batchVars, groupVars, sinkVars,
         faultVars, Clean
<1>2. ASSUME Clean, NEW q \in Partitions, q # p
      PROVE  FreshInv(q)'
  <2>1. next'[q] = next[q] /\ marked'[q] = marked[q]
    BY <1>1, <1>2 DEF Callback, CallbackError, Mark, fetchVars, OnceInv, TypeInv, TypeOK
  <2>2. owner[q] # NoWorker /\ Processed(q) => Processed(q)'
    BY <1>1, <1>2 DEF Processed, Callback, CallbackError, GoTo, OnceInv, TypeInv, TypeOK
  <2> QED
    BY <1>1, <1>2, <2>1, <2>2, FreshKept DEF OnceInv, Absent
<1>3. ASSUME Clean
      PROVE  FreshInv(p)'
  <2>1. Fresh(p, next[p], given[p]) /\ given[p] = 0 /\ next[p] \in Nat
    <3>1. owner[p] # NoWorker /\ FreshInv(p)
      BY <1>3 DEF OnceInv
    <3>2. given[p] = 0 /\ next[p] \in Nat
      BY <3>1 DEF OnceInv, TypeInv, TypeOK, GivenInv
    <3> QED
      BY <3>1, <3>2 DEF FreshInv
  <2>2. next'[p] \in {next[p], next[p] + 1}
    BY <1>1 DEF Callback, CallbackError, fetchVars, OnceInv, TypeInv, TypeOK
  <2>3. \A f \in Flows : Before(f, next[p], 0) => Before(f, next'[p], 0)
    BY <2>1, <2>2, FlowParts DEF Before
  <2>4. Fresh(p, next[p], given[p])'
    BY <1>1, <2>1, <2>3 DEF Fresh, Absent, Before
  <2>5. Processed(p)' \/ marked'[p] = next'[p]
    BY <1>1 DEF Callback, CallbackError, Mark, GoTo, Processed, OnceInv, TypeInv, TypeOK
  <2> QED
    BY <1>1, <2>4, <2>5 DEF FreshInv
<1> QED
  BY <1>1, <1>2, <1>3 DEF OnceInv, Once

(* A flow that is read for the first time.                                 *)
LEMMA AppendOnceInv ==
  ASSUME OnceInv, TypeInv', NEW w \in Workers, AppendRow(w)
  PROVE  OnceInv'
<1> USE DeliveryAssumption
<1> SUFFICES ASSUME Clean'
             PROVE  /\ \A q \in Partitions : FreshInv(q)'
                    /\ \A f \in Flows : Once(f)'
  BY DEF OnceInv
<1>p. PICK p \in Partitions : p = current[w]
  BY AppendedRow DEF OnceInv
<1>1. /\ UNCHANGED <<produced, committed, owner, next, marked, current, stored, suffered>>
      /\ Clean
      /\ pc[w] = "callback" /\ pc' \in {pc, [pc EXCEPT ![w] = "Flush"]}
  BY DEF AppendRow, GoTo, groupVars, sinkVars, faultVars, Clean
<1>2. PICK row \in Flows :
        /\ row = <<<<p, next[p]>>, given[p] + 1>>
        /\ p \in Partitions /\ owner[p] = w
        /\ \A f \in Flows, v \in Workers :
             batch'[v][f] = IF v = w /\ f = row THEN batch[v][f] + 1 ELSE batch[v][f]
        /\ \A q \in Partitions : given'[q] = IF q = p THEN given[q] + 1 ELSE given[q]
  BY <1>p, AppendedRow DEF OnceInv
<1>3. next[p] \in Nat /\ given[p] \in Nat
  BY <1>2 DEF OnceInv, TypeInv, TypeOK
<1>4. \A q \in Partitions : FreshInv(q)
  BY <1>1 DEF OnceInv
<1>5. Fresh(p, next[p], given[p])
  BY <1>2, <1>4 DEF FreshInv
<1>6. Absent(row)
  <2>1. row[1][1] = p /\ ~ Before(row, next[p], given[p])
    BY <1>2, <1>3 DEF Before
  <2> QED
    BY <1>5, <2>1 DEF Fresh
<1>7. \A f \in Flows : f # row /\ Absent(f) => Absent(f)'
  BY <1>1, <1>2 DEF Absent
<1>8. ASSUME NEW f \in Flows
      PROVE  Once(f)'
  <2>1. Once(f)
    BY <1>1 DEF OnceInv
  <2>2. CASE f = row
    BY <1>1, <1>2, <1>6, <2>2 DEF Once, Absent
  <2>3. CASE f # row
    <3>1. \A v \in Workers : batch'[v][f] = batch[v][f]
      BY <1>2, <2>3
    <3> QED
      BY <1>1, <2>1, <3>1 DEF Once
  <2> QED
    BY <2>2, <2>3
<1>9. ASSUME NEW q \in Partitions, q # p
      PROVE  FreshInv(q)'
  <2>1. given'[q] = given[q]
    BY <1>2, <1>9
  <2>2. owner[q] # NoWorker /\ Processed(q) => Processed(q)'
    BY <1>1 DEF Processed, OnceInv, TypeInv, TypeOK
  <2>3. \A f \in Flows : f[1][1] = q /\ Absent(f) => Absent(f)'
    BY <1>2, <1>7, <1>9
  <2> QED
    BY <1>1, <1>4, <1>9, <2>1, <2>2, <2>3, FreshKept
<1>10. FreshInv(p)'
  <2>1. given'[p] = given[p] + 1 /\ owner'[p] = w
    BY <1>1, <1>2
  <2>2. Fresh(p, next[p], given[p])'
    <3> SUFFICES ASSUME NEW f \in Flows, f[1][1] = p, ~ Before(f, next[p], given[p] + 1)
                 PROVE  Absent(f)'
      BY <1>1, <2>1 DEF Fresh, Before
    <3>1. ~ Before(f, next[p], given[p])
      BY <1>3, FlowParts DEF Before
    <3>2. f # row
      BY <1>2, <1>3 DEF Before
    <3> QED
      BY <1>5, <1>7, <3>1, <3>2 DEF Fresh
  <2>3. Processed(p)'
    BY <1>p, <1>1, <1>2, <2>1 DEF Processed, OnceInv, TypeInv, TypeOK
  <2> QED
    BY <2>1, <2>2, <2>3 DEF FreshInv
<1> QED
  BY <1>8, <1>9, <1>10

LEMMA EndRecordOnceInv ==
  ASSUME OnceInv, TypeInv', NEW w \in Workers, EndRecord(w)
  PROVE  OnceInv'
<1> USE DeliveryAssumption
<1>p. PICK p \in Partitions : p = current[w]
  BY EndRecordBefore DEF OnceInv
<1>1. /\ UNCHANGED <<produced, committed, owner, marked, current, batch, stored, suffered>>
      /\ Clean' => Clean
      /\ pc[w] = "callback" /\ pc' = [pc EXCEPT ![w] = "process"]
  BY DEF EndRecord, GoTo, groupVars, batchVars, sinkVars, faultVars, Clean
<1>2. TypeInv /\ p \in Partitions /\ owner[p] = w
  BY <1>p, EndRecordBefore DEF OnceInv
<1>3. \A q \in Partitions : owner[q] # NoWorker /\ Processed(q) => Processed(q)'
  BY <1>1, <1>2 DEF Processed, TypeInv, TypeOK
<1>4. ASSUME Clean, NEW q \in Partitions, q # p
      PROVE  FreshInv(q)'
  <2>1. next'[q] = next[q] /\ given'[q] = given[q]
    BY <1>p, <1>2, <1>4, EndRecordBefore
  <2> QED
    BY <1>1, <1>3, <1>4, <2>1, FreshKept DEF OnceInv, Absent
<1>5. ASSUME Clean
      PROVE  FreshInv(p)'
  <2>1. Fresh(p, next[p], given[p])
    BY <1>2, <1>5 DEF OnceInv, FreshInv
  <2>2. \A f \in Flows : f[1][1] = p =>
          (Before(f, next'[p], given'[p]) <=> Before(f, next[p], given[p]))
    BY <1>p, <1>2, EndRecordBefore
  <2>3. Fresh(p, next[p], given[p])'
    BY <1>1, <2>1, <2>2 DEF Fresh, Absent, Before
  <2>4. Processed(p)'
    BY <1>p, <1>1, <1>2 DEF Processed, TypeInv, TypeOK
  <2> QED
    BY <1>1, <1>2, <2>3, <2>4 DEF FreshInv
<1> QED
  BY <1>1, <1>4, <1>5 DEF OnceInv, Once

(* The other steps of a worker that read nothing and insert nothing.       *)
LEMMA QuietOnceInv ==
  ASSUME OnceInv, TypeInv', UNCHANGED <<batch, stored>>, suffered \subseteq suffered',
         ASSUME Clean, Clean', NEW p \in Partitions PROVE FreshInv(p)'
  PROVE  OnceInv'
BY DEF OnceInv, Clean, Once

(* A partition whose owner marks what it read.                             *)
LEMMA LeftMarked ==
  ASSUME TypeInv, NEW p \in Partitions, FreshInv(p), owner[p] # NoWorker,
         UNCHANGED <<batch, stored, next, given, owner>>,
         marked' = [marked EXCEPT ![p] = next[p]]
  PROVE  FreshInv(p)'
<1>1. Fresh(p, next[p], given[p])'
  BY DEF FreshInv, Fresh, Absent, Before
<1>2. marked'[p] = next'[p]
  BY DEF TypeInv, TypeOK
<1> QED
  BY <1>1, <1>2 DEF FreshInv

(* A worker that sends or loses its batch.                                 *)
LEMMA SendOnceInv ==
  ASSUME OnceInv, TypeInv', NEW w \in Workers, Clear(w), Insert(w) \/ UNCHANGED stored,
         UNCHANGED <<produced, committed, owner, next, given, marked>>,
         suffered \subseteq suffered',
         \A v \in Workers :
           pc[v] \in {"process", "callback", "Flush"} =>
             pc'[v] \in {"process", "callback", "Flush"} /\ current'[v] = current[v]
  PROVE  OnceInv'
<1> SUFFICES ASSUME Clean, Clean'
             PROVE  /\ \A p \in Partitions : FreshInv(p)'
                    /\ \A f \in Flows : Once(f)'
  BY DEF OnceInv, Clean
<1>1. \A f \in Flows : Once(f)' /\ (Absent(f) => Absent(f)')
  BY OnceRows
<1>2. ASSUME NEW p \in Partitions
      PROVE  FreshInv(p)'
  <2>1. owner[p] # NoWorker => owner[p] \in Workers
    BY DEF OnceInv, TypeInv, TypeOK
  <2> QED
    BY <1>1, <2>1, FreshKept DEF OnceInv, Processed
<1> QED
  BY <1>1, <1>2

LEMMA OnceStep ==
  ASSUME OnceInv, [Next]_vars
  PROVE  OnceInv'
<1> USE DeliveryAssumption
<1> USE DEF groupVars, fetchVars, workerVars, batchVars, sinkVars, faultVars
<1>0. TypeInv /\ TypeInv'
  BY TypeStep DEF OnceInv
<1>fresh. Clean => \A p \in Partitions : FreshInv(p)
  BY DEF OnceInv
<1>1. ASSUME NEW p \in Partitions, Produce(p)
      PROVE  OnceInv'
  <2>1. ASSUME Clean, NEW q \in Partitions
        PROVE  FreshInv(q)'
    <3>1. FreshInv(q)
      BY <1>fresh, <2>1
    <3>2. produced'[q] \in Int /\ produced[q] \in Int /\ produced'[q] >= produced[q]
      BY <1>0, <1>1 DEF Produce, TypeInv, TypeOK
    <3>3. Fresh(q, next[q], given[q]) => Fresh(q, next[q], given[q])'
      BY <1>1 DEF Produce, Fresh, Absent, Before
    <3>4. Fresh(q, Restart(q), 0) => Fresh(q, Restart(q), 0)'
      <4>1. \A f \in Flows : Before(f, produced[q], 0) => Before(f, produced'[q], 0)
        BY <3>2, FlowParts DEF Before
      <4> QED
        BY <1>1, <4>1 DEF Produce, Fresh, Restart, Absent, Before
    <3> QED
      BY <1>1, <3>1, <3>3, <3>4 DEF Produce, FreshInv, Processed
  <2> QED
    BY <1>0, <1>1, <2>1, QuietOnceInv DEF Produce
<1>2. ASSUME NEW p \in Partitions, Revoke(p)
      PROVE  OnceInv'
  <2>1. owner[p] \in Workers
    BY <1>0, <1>2 DEF Revoke, TypeInv, TypeOK
  <2>2. ASSUME Clean, Clean', NEW q \in Partitions
        PROVE  FreshInv(q)'
    <3>1. CommitMarkedOffsets(owner[p])
      BY <1>2, <2>2 DEF Revoke, TryCommit, Fault, Clean
    <3>2. owner'[q] = IF q = p THEN NoWorker ELSE owner[q]
      BY <1>0, <1>2 DEF Revoke, TypeInv, TypeOK
    <3> QED
      BY <1>2, <2>1, <2>2, <3>1, <3>2, FreshCommit DEF Revoke, Processed
  <2>3. suffered \subseteq suffered'
    BY <1>2 DEF Revoke, TryCommit, Fault
  <2> QED
    BY <1>0, <1>2, <2>2, <2>3, QuietOnceInv DEF Revoke
<1>3. ASSUME NEW p \in Partitions, NEW w \in Workers, Assign(p, w)
      PROVE  OnceInv'
  <2>1. ASSUME Clean, NEW q \in Partitions
        PROVE  FreshInv(q)'
    <3>1. FreshInv(q)
      BY <1>fresh, <2>1
    <3>2. CASE q = p
      <4>1. /\ owner[p] = NoWorker /\ owner'[p] = w /\ marked'[p] = None
            /\ next'[p] = Restart(p) /\ given'[p] = 0
        BY <1>0, <1>3 DEF Assign, Restart, TypeInv, TypeOK
      <4>2. Restart(p)' = Restart(p)
        BY <1>3 DEF Assign, Restart
      <4>3. Fresh(p, Restart(p), 0)
        BY <3>1, <3>2, <4>1 DEF FreshInv
      <4>4. Fresh(p, Restart(p), 0)' /\ Fresh(p, next[p], given[p])'
        BY <1>3, <4>1, <4>2, <4>3 DEF Assign, Fresh, Absent, Before
      <4> QED
        BY <3>2, <4>1, <4>4 DEF FreshInv
    <3>3. CASE q # p
      <4>1. /\ next'[q] = next[q] /\ given'[q] = given[q]
            /\ marked'[q] = marked[q] /\ owner'[q] = owner[q]
        BY <1>0, <1>3, <3>3 DEF Assign, TypeInv, TypeOK
      <4> QED
        BY <1>3, <3>1, <4>1, FreshKept DEF Assign, Processed, Absent
    <3> QED
      BY <3>2, <3>3
  <2> QED
    BY <1>0, <1>3, <2>1, QuietOnceInv DEF Assign
<1>4. ASSUME NEW w \in Workers, AutoCommit(w)
      PROVE  OnceInv'
  <2>1. ASSUME Clean, NEW q \in Partitions
        PROVE  FreshInv(q)'
    BY <1>4, <2>1, FreshCommit DEF AutoCommit, Processed
  <2> QED
    BY <1>0, <1>4, <2>1, QuietOnceInv DEF AutoCommit
<1>5. ASSUME NEW w \in Workers, startOneWorker(w)
      PROVE  OnceInv'
  <2>1. ASSUME Clean, NEW q \in Partitions
        PROVE  FreshInv(q)'
    BY <1>fresh, <1>0, <1>5, <2>1, FreshKept
    DEF startOneWorker, GoTo, Processed, Absent, TypeInv, TypeOK
  <2> QED
    BY <1>0, <1>5, <2>1, QuietOnceInv DEF startOneWorker
<1>6. ASSUME NEW w \in Workers, Cancel(w)
      PROVE  OnceInv'
  <2>1. ASSUME Clean, NEW q \in Partitions
        PROVE  FreshInv(q)'
    BY <1>fresh, <1>0, <1>6, <2>1, FreshKept
    DEF Cancel, Processed, Absent, TypeInv, TypeOK
  <2> QED
    BY <1>0, <1>6, <2>1, QuietOnceInv DEF Cancel
<1>7. ASSUME NEW w \in Workers, PollFetches(w)
      PROVE  OnceInv'
  <2>1. ASSUME Clean, NEW q \in Partitions
        PROVE  FreshInv(q)'
    BY <1>fresh, <1>0, <1>7, <2>1, FreshKept
    DEF PollFetches, GoTo, Processed, Absent, TypeInv, TypeOK
  <2> QED
    BY <1>0, <1>7, <2>1, QuietOnceInv DEF PollFetches
<1>8. ASSUME NEW w \in Workers, EndLoop(w)
      PROVE  OnceInv'
  <2>1. ASSUME Clean, NEW q \in Partitions
        PROVE  FreshInv(q)'
    BY <1>fresh, <1>0, <1>8, <2>1, FreshKept
    DEF EndLoop, GoTo, Processed, Absent, TypeInv, TypeOK
  <2> QED
    BY <1>0, <1>8, <2>1, QuietOnceInv DEF EndLoop, Fault
<1>9. ASSUME NEW w \in Workers, FirstRecord(w)
      PROVE  OnceInv'
  BY <1>0, <1>9, ProcessOnceInv DEF FirstRecord, Fetched, Owned
<1>10. ASSUME NEW w \in Workers, NextRecord(w)
       PROVE  OnceInv'
  BY <1>0, <1>10, ProcessOnceInv DEF NextRecord, TypeInv, CurrentInv
<1>11. ASSUME NEW w \in Workers, EndPartition(w)
       PROVE  OnceInv'
  <2>1. ASSUME Clean, NEW q \in Partitions
        PROVE  FreshInv(q)'
    <3>1. CASE q = current[w]
      <4>1. marked' = [marked EXCEPT ![q] = next[q]] /\ owner[q] # NoWorker
        <5>1. pc[w] = "process" /\ marked' = [marked EXCEPT ![q] = next[q]]
          BY <1>11, <3>1 DEF EndPartition, Mark
        <5>2. owner[q] = w
          BY <1>0, <3>1, <5>1 DEF TypeInv, CurrentInv
        <5> QED
          BY <1>0, <5>1, <5>2
      <4> QED
        BY <1>fresh, <1>0, <1>11, <2>1, <4>1, LeftMarked DEF EndPartition
    <3>2. CASE q # current[w]
      <4>1. marked'[q] = marked[q]
        BY <1>0, <1>11, <3>2 DEF EndPartition, Mark, TypeInv, TypeOK, CurrentInv
      <4>2. owner[q] # NoWorker /\ Processed(q) => Processed(q)'
        BY <1>0, <1>11, <3>2 DEF EndPartition, GoTo, Processed, TypeInv, TypeOK
      <4> QED
        BY <1>fresh, <1>11, <2>1, <4>1, <4>2, FreshKept DEF EndPartition, Absent
    <3> QED
      BY <3>1, <3>2
  <2> QED
    BY <1>0, <1>11, <2>1, QuietOnceInv DEF EndPartition
<1>12. ASSUME NEW w \in Workers, EndFetch(w)
       PROVE  OnceInv'
  <2>1. ASSUME Clean, NEW q \in Partitions
        PROVE  FreshInv(q)'
    BY <1>fresh, <1>0, <1>12, <2>1, FreshKept
    DEF EndFetch, GoTo, Processed, Absent, TypeInv, TypeOK
  <2> QED
    BY <1>0, <1>12, <2>1, QuietOnceInv DEF EndFetch
<1>13. ASSUME NEW w \in Workers, AbortFetch(w)
       PROVE  OnceInv'
  <2>1. ASSUME Clean, NEW q \in Partitions
        PROVE  FreshInv(q)'
    <3>1. CASE pc[w] = "process" /\ q = current[w]
      <4>1. marked' = [marked EXCEPT ![q] = next[q]] /\ owner[q] # NoWorker
        BY <1>0, <1>13, <3>1 DEF AbortFetch, Mark, TypeInv, CurrentInv
      <4> QED
        BY <1>fresh, <1>0, <1>13, <2>1, <4>1, LeftMarked DEF AbortFetch
    <3>2. CASE ~ (pc[w] = "process" /\ q = current[w])
      <4>1. marked'[q] = marked[q]
        BY <1>0, <1>13, <3>2 DEF AbortFetch, Mark, TypeInv, TypeOK, CurrentInv
      <4>2. owner[q] # NoWorker /\ Processed(q) => Processed(q)'
        BY <1>0, <1>13, <3>2 DEF AbortFetch, GoTo, Processed, TypeInv, TypeOK
      <4> QED
        BY <1>fresh, <1>13, <2>1, <4>1, <4>2, FreshKept DEF AbortFetch, Absent
    <3> QED
      BY <3>1, <3>2
  <2> QED
    BY <1>0, <1>13, <2>1, QuietOnceInv DEF AbortFetch
<1>14. ASSUME NEW w \in Workers, Flush(w)
       PROVE  OnceInv'
  BY <1>0, <1>14, SendOnceInv DEF Flush, GoTo, TypeInv, TypeOK
<1>15. ASSUME NEW w \in Workers, Close(w)
       PROVE  OnceInv'
  <2>1. ASSUME Clean, Clean', NEW q \in Partitions
        PROVE  FreshInv(q)'
    <3>1. CommitMarkedOffsets(w)
      BY <1>15, <2>1 DEF Close, TryCommit, Fault, Clean
    <3>2. owner'[q] = IF owner[q] = w THEN NoWorker ELSE owner[q]
      BY <1>0, <1>15 DEF Close, Release
    <3>3. owner'[q] = owner[q] /\ owner[q] # NoWorker /\ Processed(q) => Processed(q)'
      BY <1>0, <1>15, <3>2 DEF Close, GoTo, Processed, TypeInv, TypeOK
    <3>4. pc[w] \notin {"process", "callback", "Flush"}
      BY <1>15 DEF Close
    <3> QED
      BY <1>15, <2>1, <3>1, <3>2, <3>3, <3>4, FreshCommit DEF Close
  <2>2. suffered \subseteq suffered'
    BY <1>15 DEF Close, TryCommit, Fault
  <2> QED
    BY <1>0, <1>15, <2>1, <2>2, QuietOnceInv DEF Close
<1>16. ASSUME NEW w \in Workers, shutdown(w)
       PROVE  OnceInv'
  BY <1>0, <1>16, SendOnceInv DEF shutdown, Leave, GoTo, Fault, TypeInv, TypeOK
<1>17. ASSUME NEW w \in Workers, FlushUnknown(w)
       PROVE  OnceInv'
  BY <1>0, <1>17 DEF FlushUnknown, Fault, OnceInv, Clean
<1>18. ASSUME NEW w \in Workers, FlushCanceled(w)
       PROVE  OnceInv'
  <2>1. ASSUME Clean, NEW q \in Partitions
        PROVE  FreshInv(q)'
    BY <1>fresh, <1>0, <1>18, <2>1, FreshKept
    DEF FlushCanceled, GoTo, Processed, Absent, TypeInv, TypeOK
  <2> QED
    BY <1>0, <1>18, <2>1, QuietOnceInv DEF FlushCanceled
<1>19. ASSUME NEW w \in Workers, Crash(w)
       PROVE  OnceInv'
  BY <1>0, <1>19 DEF Crash, Fault, OnceInv, Clean
<1>20. ASSUME NEW w \in Workers, AppendRow(w)
       PROVE  OnceInv'
  BY <1>0, <1>20, AppendOnceInv
<1>21. ASSUME NEW w \in Workers, EndRecord(w)
       PROVE  OnceInv'
  BY <1>0, <1>21, EndRecordOnceInv
<1>22. CASE UNCHANGED vars
  BY <1>0, <1>22, <1>fresh, FreshKept, QuietOnceInv DEF vars, Absent, Processed
<1> QED
  BY <1>1, <1>2, <1>3, <1>4, <1>5, <1>6, <1>7, <1>8, <1>9, <1>10, <1>11, <1>12,
     <1>13, <1>14, <1>15, <1>16, <1>17, <1>18, <1>19, <1>20, <1>21, <1>22
  DEF Next, WorkerStep

(* Without a crash, a failed commit or a lost answer, no flow makes two    *)
(* rows, whatever the rebalances, the stops, the restarts and the errors.  *)
THEOREM DeliveryStoresOnce == Spec => []StoredOnce
<1>1. Init => OnceInv
  BY InitOnceInv
<1>2. OnceInv /\ [Next]_vars => OnceInv'
  BY OnceStep
<1>3. OnceInv => StoredOnce
  BY DEF OnceInv, StoredOnce, Once, Clean
<1> QED
  BY <1>1, <1>2, <1>3, PTL DEF Spec
=============================================================================
