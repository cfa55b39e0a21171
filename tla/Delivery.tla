------------------------------ MODULE Delivery ------------------------------
(***************************************************************************)
(* From Kafka to ClickHouse: what the workers of the outlets mark, commit, *)
(* batch and insert while the partitions move from one to another, while   *)
(* commits and inserts fail, and while outlets stop or crash.              *)
(*                                                                         *)
(*  - A record is a partition and an offset, and makes as many rows as it  *)
(*    has flows that are kept: none when its payload cannot be decoded or  *)
(*    its flows are skipped.  Its protobuf may not be decoded either.      *)
(*  - Kafka and franz-go are external: partitions are revoked one at a     *)
(*    time, never between a poll and AllowRebalance (BlockRebalanceOnPoll),*)
(*    and marked offsets are committed at any time (AutoCommitMarks).      *)
(*  - A worker that crashes stands for an outlet with this only worker.    *)
(***************************************************************************)
EXTENDS Integers, FiniteSets

CONSTANTS Partitions,
          Workers,
          NoPartition, \* no partition is processed
          NoWorker,    \* nobody has the partition
          MaximumBatchSize,
          MaxFlows,    \* bound on the flows of a record
          FlowsOf,     \* rows each record makes, whenever it is read
          MaxOffset,   \* bound on the records of a partition
          BadRecords,  \* records whose protobuf cannot be decoded
          Faults,      \* what may go wrong
          MaxEvents    \* bound on the faults and on the workers being stopped

Offsets == 0..(MaxOffset - 1)
Records == Partitions \X Offsets

ASSUME DeliveryAssumption ==
  /\ MaximumBatchSize \in Nat \ {0}
  /\ MaxFlows \in Nat \ {0}
  /\ FlowsOf \in [Records -> 0..MaxFlows]
  /\ MaxOffset \in Nat /\ MaxEvents \in Nat
  /\ BadRecords \subseteq Records
  /\ NoPartition \notin Partitions /\ NoWorker \notin Workers
  /\ Faults \subseteq {"freshGroup", "crash", "commit", "unknownInsert",
                       "failedInsert", "fetchError"}

None == -1

(* The i-th row of a record.                                               *)
Flows == {f \in Records \X (1..MaxFlows) : f[1] \notin BadRecords /\ f[2] <= FlowsOf[f[1]]}

VARIABLES
  produced,   \* number of records of each partition
  committed,  \* offset the group committed for each partition, or None
  owner,      \* worker each partition is assigned to
  next,       \* next offset the owner of the partition has to process
  given,      \* rows of this record that are in the batch or were sent
  limit,      \* end of the records its owner fetched from the partition
  marked,     \* offset its owner marked for the partition, or None
  pc,         \* program counter of each worker
  current,    \* partition each worker processes
  canceled,   \* workers whose context is done
  batch,      \* copies of each flow in the batch of each worker
  size,       \* rows of the batch of each worker
  stored,     \* copies of each flow in ClickHouse
  lost,       \* flows of the batches that went away, or never read
  lostRows,   \* and the number of their rows
  suffered,   \* kinds of the faults so far
  events      \* number of the faults and of the stops so far

groupVars == <<committed, owner>>
fetchVars == <<next, given, limit, marked>>
workerVars == <<pc, current, canceled>>
batchVars == <<batch, size>>
sinkVars == <<stored, lost, lostRows>>
faultVars == <<suffered, events>>
vars == <<produced, groupVars, fetchVars, workerVars, batchVars, sinkVars, faultVars>>

Owned(w) == {p \in Partitions : owner[p] = w}

Fetched(w) == {p \in Owned(w) : next[p] < limit[p]}

NoRows == [f \in Flows |-> 0]

(* Events the environment is only allowed MaxEvents of.                    *)
Event ==
  /\ events < MaxEvents
  /\ events' = events + 1

Fault(kind) ==
  /\ kind \in Faults
  /\ Event
  /\ suffered' = suffered \cup {kind}

-----------------------------------------------------------------------------
Init ==
  /\ produced = [p \in Partitions |-> 0]
  /\ \E offset \in {0} \cup (IF "freshGroup" \in Faults THEN {None} ELSE {}) :
       committed = [p \in Partitions |-> offset]
  /\ owner = [p \in Partitions |-> NoWorker]
  /\ next = [p \in Partitions |-> 0]
  /\ given = [p \in Partitions |-> 0]
  /\ limit = [p \in Partitions |-> 0]
  /\ marked = [p \in Partitions |-> None]
  /\ pc = [w \in Workers |-> "out"]
  /\ current = [w \in Workers |-> NoPartition]
  /\ canceled = {}
  /\ batch = [w \in Workers |-> NoRows]
  /\ size = [w \in Workers |-> 0]
  /\ stored = NoRows
  /\ lost = {}
  /\ lostRows = 0
  /\ suffered = {}
  /\ events = 0

(***************************************************************************)
(* Kafka and the Kafka client.                                             *)
(***************************************************************************)
Produce(p) ==
  /\ produced[p] < MaxOffset
  /\ produced' = [produced EXCEPT ![p] = @ + 1]
  /\ UNCHANGED <<groupVars, fetchVars, workerVars, batchVars, sinkVars, faultVars>>

(* CommitMarkedOffsets: what the worker marked for the partitions it owns. *)
CommitMarkedOffsets(w) ==
  committed' = [p \in Partitions |->
                  IF p \in Owned(w) /\ marked[p] # None THEN marked[p]
                                                        ELSE committed[p]]

(* A commit that the code attempts, and that may fail.                     *)
TryCommit(w) ==
  \/ CommitMarkedOffsets(w) /\ UNCHANGED faultVars
  \/ Fault("commit") /\ UNCHANGED committed

AutoCommit(w) ==
  /\ CommitMarkedOffsets(w)
  /\ committed' # committed
  /\ UNCHANGED <<produced, owner, fetchVars, workerVars, batchVars, sinkVars, faultVars>>

(* A partition without a committed offset is consumed from its end.        *)
Assign(p, w) ==
  /\ owner[p] = NoWorker
  /\ pc[w] = "poll"
  /\ owner' = [owner EXCEPT ![p] = w]
  /\ LET start == IF committed[p] = None THEN produced[p] ELSE committed[p]
     IN  /\ next' = [next EXCEPT ![p] = start]
         /\ limit' = [limit EXCEPT ![p] = start]
         /\ lost' = IF committed[p] = None
                    THEN lost \cup {f \in Flows : f[1][1] = p /\ f[1][2] < start}
                    ELSE lost
  /\ given' = [given EXCEPT ![p] = 0]
  /\ marked' = [marked EXCEPT ![p] = None]
  /\ UNCHANGED <<produced, committed, workerVars, batchVars, stored, lostRows,
                 faultVars>>

(* onPartitionsRevoked                                                     *)
Revoke(p) ==
  /\ owner[p] # NoWorker
  /\ pc[owner[p]] = "poll"
  /\ TryCommit(owner[p])
  /\ owner' = [owner EXCEPT ![p] = NoWorker]
  /\ UNCHANGED <<produced, fetchVars, workerVars, batchVars, sinkVars>>

(***************************************************************************)
(* A worker.                                                               *)
(***************************************************************************)
GoTo(w, label) == pc' = [pc EXCEPT ![w] = label]

startOneWorker(w) ==
  /\ pc[w] = "out"
  /\ GoTo(w, "poll")
  /\ UNCHANGED <<produced, groupVars, fetchVars, current, canceled, batchVars,
                 sinkVars, faultVars>>

Cancel(w) ==
  /\ pc[w] # "out"
  /\ w \notin canceled
  /\ Event
  /\ canceled' = canceled \cup {w}
  /\ UNCHANGED <<produced, groupVars, fetchVars, pc, current, batchVars, sinkVars,
                 suffered>>

(* PollFetches returns what some of the partitions have to offer.          *)
PollFetches(w) ==
  /\ pc[w] = "poll"
  /\ w \notin canceled
  /\ \E S \in SUBSET {p \in Owned(w) : next[p] < produced[p]} :
       /\ S # {}
       /\ limit' = [p \in Partitions |-> IF p \in S THEN produced[p] ELSE limit[p]]
  /\ GoTo(w, "fetched")
  /\ UNCHANGED <<produced, groupVars, next, given, marked, current, canceled,
                 batchVars, sinkVars, faultVars>>

(* The loop ends on a done context, or on a fetch error that is taken as   *)
(* fatal.                                                                  *)
EndLoop(w) ==
  /\ pc[w] = "poll"
  /\ (w \in canceled /\ UNCHANGED faultVars) \/ Fault("fetchError")
  /\ GoTo(w, "closing")
  /\ UNCHANGED <<produced, groupVars, fetchVars, current, canceled, batchVars,
                 sinkVars>>

(* The callback on the next record of partition p decodes its flows.       *)
Callback(w, p) ==
  /\ current' = [current EXCEPT ![w] = p]
  /\ GoTo(w, "callback")
  /\ UNCHANGED <<fetchVars, batchVars>>

(* FinalizeAndSend: the next row of the record, then the batch is sent     *)
(* when it is full or old enough.                                          *)
AppendRow(w) ==
  LET p == current[w]
      flow == <<<<p, next[p]>>, given[p] + 1>>
  IN
  /\ pc[w] = "callback"
  /\ flow \in Flows
  /\ given' = [given EXCEPT ![p] = @ + 1]
  /\ batch' = [batch EXCEPT ![w][flow] = @ + 1]
  /\ size' = [size EXCEPT ![w] = @ + 1]
  /\ \/ size[w] + 1 < MaximumBatchSize /\ UNCHANGED pc
     \/ GoTo(w, "Flush")
  /\ UNCHANGED <<produced, groupVars, next, limit, marked, current, canceled,
                 sinkVars, faultVars>>

(* The callback returns.                                                   *)
EndRecord(w) ==
  LET p == current[w] IN
  /\ pc[w] = "callback"
  /\ given[p] = FlowsOf[<<p, next[p]>>]
  /\ next' = [next EXCEPT ![p] = @ + 1]
  /\ given' = [given EXCEPT ![p] = 0]
  /\ GoTo(w, "process")
  /\ UNCHANGED <<produced, groupVars, limit, marked, current, canceled, batchVars,
                 sinkVars, faultVars>>

(* The deferred MarkCommitOffsets, and what is left of the fetch.          *)
Mark(p, offset) == marked' = [marked EXCEPT ![p] = offset]

DropFetch(w) ==
  limit' = [p \in Partitions |-> IF p \in Owned(w) THEN next'[p] ELSE limit[p]]

(* Mistake: a record is marked once it has been decoded.                   *)
CallbackErrorUnmarked(w, p) ==
  /\ Mark(p, next[p])
  /\ UNCHANGED <<next, given>>
  /\ DropFetch(w)
  /\ current' = [current EXCEPT ![w] = NoPartition]
  /\ GoTo(w, "closing")
  /\ UNCHANGED batchVars

(* A record that cannot be decoded ends the loop, and is marked.           *)
CallbackError(w, p) ==
  /\ next' = [next EXCEPT ![p] = @ + 1]
  /\ Mark(p, next[p] + 1)
  /\ DropFetch(w)
  /\ current' = [current EXCEPT ![w] = NoPartition]
  /\ GoTo(w, "closing")
  /\ UNCHANGED <<given, batchVars>>

ProcessRecord(w, p) ==
  /\ w \notin canceled
  /\ next[p] < limit[p]
  /\ IF <<p, next[p]>> \in BadRecords THEN CallbackError(w, p)
                                      ELSE Callback(w, p)
  /\ UNCHANGED <<produced, groupVars, canceled, sinkVars, faultVars>>

(* The first record of a partition of the fetch, then the others.          *)
FirstRecord(w) ==
  /\ pc[w] = "fetched"
  /\ \E p \in Fetched(w) : ProcessRecord(w, p)

NextRecord(w) ==
  /\ pc[w] = "process"
  /\ ProcessRecord(w, current[w])

(* Mistake: the offset is marked when its records are fetched.             *)
EndPartitionMarkAll(w) ==
  /\ pc[w] = "process"
  /\ marked' = [p \in Partitions |-> IF p \in Owned(w) THEN limit[p] ELSE marked[p]]
  /\ next[current[w]] = limit[current[w]]
  /\ current' = [current EXCEPT ![w] = NoPartition]
  /\ GoTo(w, "fetched")
  /\ UNCHANGED <<produced, groupVars, next, given, limit, canceled, batchVars,
                 sinkVars, faultVars>>

EndPartition(w) ==
  /\ pc[w] = "process"
  /\ next[current[w]] = limit[current[w]]
  /\ Mark(current[w], next[current[w]])
  /\ current' = [current EXCEPT ![w] = NoPartition]
  /\ GoTo(w, "fetched")
  /\ UNCHANGED <<produced, groupVars, next, given, limit, canceled, batchVars,
                 sinkVars, faultVars>>

(* AllowRebalance, and back to PollFetches.                                *)
EndFetch(w) ==
  /\ pc[w] = "fetched"
  /\ Fetched(w) = {}
  /\ GoTo(w, "poll")
  /\ UNCHANGED <<produced, groupVars, fetchVars, current, canceled, batchVars,
                 sinkVars, faultVars>>

(* The context is done: no other record is processed.  The offset marked   *)
(* for a partition without a processed record is zero, which Kafka ignores *)
(* below the one already marked.                                           *)
AbortFetch(w) ==
  /\ w \in canceled
  /\ \/ pc[w] = "fetched" /\ Fetched(w) # {} /\ UNCHANGED marked
     \/ /\ pc[w] = "process" /\ next[current[w]] < limit[current[w]]
        /\ Mark(current[w], next[current[w]])
  /\ UNCHANGED <<next, given>>
  /\ DropFetch(w)
  /\ current' = [current EXCEPT ![w] = NoPartition]
  /\ GoTo(w, "closing")
  /\ UNCHANGED <<produced, groupVars, canceled, batchVars, sinkVars, faultVars>>

(***************************************************************************)
(* Sending the batch to ClickHouse.                                        *)
(***************************************************************************)
Insert(w) == stored' = [f \in Flows |-> stored[f] + batch[w][f]]

Clear(w) ==
  /\ batch' = [batch EXCEPT ![w] = NoRows]
  /\ size' = [size EXCEPT ![w] = 0]

(* Mistake: the batch is not cleared once it is inserted.                  *)
FlushNoClear(w) ==
  /\ pc[w] = "Flush"
  /\ Insert(w)
  /\ GoTo(w, "callback")
  /\ UNCHANGED <<produced, groupVars, fetchVars, current, canceled, batchVars,
                 lost, lostRows, faultVars>>

Flush(w) ==
  /\ pc[w] = "Flush"
  /\ Insert(w)
  /\ Clear(w)
  /\ GoTo(w, "callback")
  /\ UNCHANGED <<produced, groupVars, fetchVars, current, canceled, lost,
                 lostRows, faultVars>>

(* The insert succeeds, but the worker sees an error and tries again.      *)
FlushUnknown(w) ==
  /\ pc[w] \in {"Flush", "finalFlush"}
  /\ Fault("unknownInsert")
  /\ Insert(w)
  /\ UNCHANGED <<produced, groupVars, fetchVars, workerVars, batchVars, lost,
                 lostRows>>

(* Retries end with the context; the rows stay in the batch, that the      *)
(* other flows of the record add to.                                       *)
FlushCanceled(w) ==
  /\ pc[w] = "Flush"
  /\ w \in canceled
  /\ GoTo(w, "callback")
  /\ UNCHANGED <<produced, groupVars, fetchVars, current, canceled, batchVars,
                 sinkVars, faultVars>>

(***************************************************************************)
(* The end of a worker.                                                    *)
(***************************************************************************)
Release(w) ==
  owner' = [p \in Partitions |-> IF owner[p] = w THEN NoWorker ELSE owner[p]]

Leave(w) ==
  /\ GoTo(w, "out")
  /\ canceled' = canceled \ {w}
  /\ current' = [current EXCEPT ![w] = NoPartition]

Lose(w) ==
  /\ lost' = lost \cup {f \in Flows : batch[w][f] > 0}
  /\ lostRows' = lostRows + size[w]

(* Mistake: the worker leaves the group without a commit.                  *)
CloseNoCommit(w) ==
  /\ pc[w] = "closing"
  /\ Release(w)
  /\ GoTo(w, "finalFlush")
  /\ UNCHANGED <<produced, committed, fetchVars, current, canceled, batchVars,
                 sinkVars, faultVars>>

(* CommitMarkedOffsets, then CloseAllowingRebalance leaves the group.      *)
Close(w) ==
  /\ pc[w] = "closing"
  /\ TryCommit(w)
  /\ Release(w)
  /\ GoTo(w, "finalFlush")
  /\ UNCHANGED <<produced, fetchVars, current, canceled, batchVars, sinkVars>>

(* The final flush has a limited time to succeed.                          *)
shutdown(w) ==
  /\ pc[w] = "finalFlush"
  /\ \/ /\ Insert(w)
        /\ UNCHANGED <<lost, lostRows, faultVars>>
     \/ /\ Fault("failedInsert")
        /\ Lose(w)
        /\ UNCHANGED stored
  /\ Clear(w)
  /\ Leave(w)
  /\ UNCHANGED <<produced, groupVars, fetchVars>>

Crash(w) ==
  /\ Fault("crash")
  /\ pc[w] # "out"
  /\ Lose(w)
  /\ Clear(w)
  /\ Leave(w)
  /\ Release(w)
  /\ UNCHANGED <<produced, committed, fetchVars, stored>>

-----------------------------------------------------------------------------
WorkerStep(w) ==
  \/ EndLoop(w) /\ w \in canceled
  \/ FirstRecord(w)
  \/ NextRecord(w)
  \/ AppendRow(w)
  \/ EndRecord(w)
  \/ EndPartition(w)
  \/ EndFetch(w)
  \/ AbortFetch(w)
  \/ Flush(w)
  \/ Close(w)
  \/ shutdown(w)

Next ==
  \/ \E p \in Partitions : Produce(p) \/ Revoke(p)
  \/ \E p \in Partitions, w \in Workers : Assign(p, w)
  \/ \E w \in Workers :
       \/ AutoCommit(w) \/ startOneWorker(w) \/ Cancel(w) \/ PollFetches(w)
       \/ WorkerStep(w)
       \/ EndLoop(w)
       \/ FlushUnknown(w)
       \/ FlushCanceled(w)
       \/ Crash(w)

Spec == Init /\ [][Next]_vars

(* Goroutines run, rebalances end, and a worker is not always deprived of  *)
(* its partitions before it polls.  A worker that ends is not replaced,    *)
(* but an outlet without workers ends and is started again (a supervisor   *)
(* restarts it).  Nothing is assumed of the producers.                     *)
FairSpec ==
  /\ Spec
  /\ WF_vars((\A v \in Workers : pc[v] = "out") /\ \E w \in Workers : startOneWorker(w))
  /\ \A w \in Workers : SF_vars(PollFetches(w)) /\ WF_vars(WorkerStep(w))
  /\ \A p \in Partitions : SF_vars(\E w \in Workers : Assign(p, w))

-----------------------------------------------------------------------------
(* What a batch has at most: the rows of a record are added to a batch     *)
(* that is not full, whether it is sent meanwhile or not.                  *)
MaxBatch == MaximumBatchSize - 1 + MaxFlows

TypeOK ==
  /\ produced \in [Partitions -> 0..MaxOffset]
  /\ committed \in [Partitions -> {None} \cup 0..MaxOffset]
  /\ owner \in [Partitions -> Workers \cup {NoWorker}]
  /\ next \in [Partitions -> 0..MaxOffset]
  /\ given \in [Partitions -> 0..MaxFlows]
  /\ limit \in [Partitions -> 0..MaxOffset]
  /\ marked \in [Partitions -> {None} \cup 0..MaxOffset]
  /\ pc \in [Workers -> {"out", "poll", "fetched", "process", "callback", "Flush",
                         "closing", "finalFlush"}]
  /\ current \in [Workers -> Partitions \cup {NoPartition}]
  /\ canceled \subseteq Workers
  /\ batch \in [Workers -> [Flows -> Nat]]
  /\ size \in [Workers -> 0..MaxBatch]
  /\ stored \in [Flows -> Nat]
  /\ lost \subseteq Flows
  /\ lostRows \in Nat
  /\ suffered \subseteq Faults
  /\ events \in 0..MaxEvents

Held(f) == \E w \in Workers : batch[w][f] > 0

Kept(f) == stored[f] > 0 \/ Held(f)

(* The flow comes before what follows these rows of the record at offset.  *)
Before(f, offset, rows) ==
  f[1][2] < offset \/ (f[1][2] = offset /\ f[2] <= rows)

(* The group will not read this flow again, or its owner has read it.      *)
Passed(f) ==
  LET p == f[1][1] IN
  \/ f[1][2] < committed[p]
  \/ owner[p] # NoWorker /\ Before(f, next[p], given[p])

(* A flow that the group has passed is in ClickHouse or in the batch of a  *)
(* worker, however partitions move, commits fail and answers of inserts    *)
(* get lost.  With crashes and final flushes that fail, what is missing    *)
(* was in the batch of a worker that went away, and each of them takes     *)
(* away no more than a batch.  A batch is larger than the size at which it *)
(* is sent only when its worker is stopped, and then by the rows of the    *)
(* record it was at.  Only a group without committed offset skips records, *)
(* those that are in Kafka before its first worker.                        *)
LossIsABatch ==
  /\ \A f \in Flows : Passed(f) => Kept(f) \/ f \in lost
  /\ lostRows <= events * MaxBatch
  /\ \A w \in Workers : size[w] > MaximumBatchSize => w \in canceled

(* docs: flows are not lost when the outlet cannot keep up or is stopped.  *)
StopLosesNothing ==
  "crash" \notin suffered => \A f \in Flows : Passed(f) => Kept(f)

(* Rebalances, stops, fetch errors and restarts never make two rows of a   *)
(* flow: it is in one batch or once in ClickHouse.  It takes a crash, a    *)
(* commit that fails or an insert whose answer is lost to make a second.   *)
StoredOnce ==
  suffered \cap {"crash", "commit", "unknownInsert"} = {} =>
    \A f \in Flows :
      /\ stored[f] <= 1
      /\ \A w \in Workers :
           batch[w][f] > 0 =>
             /\ batch[w][f] = 1
             /\ stored[f] = 0
             /\ \A v \in Workers \ {w} : batch[v][f] = 0

(* The outlets catch up: each flow is eventually given to a batch, those   *)
(* behind a record that cannot be decoded included.                        *)
CatchesUp ==
  \A f \in Flows : f[1][2] < produced[f[1][1]] ~> Kept(f)

=============================================================================
