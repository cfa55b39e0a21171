---------------------------- MODULE KafkaWorkers ----------------------------
(***************************************************************************)
(* The pool of workers of the outlet: the goroutines of outlet/kafkainput  *)
(* that poll Kafka and hand each record to the callback of outlet/core,    *)
(* the batches of outlet/clickhouse they fill, the scaler they report to,  *)
(* and the calls that start and stop them all.                             *)
(*                                                                         *)
(*  - Worker w of the pool is the w-th entry of c.workers: an index is     *)
(*    only used again after the goroutine that held it has closed `done`.  *)
(*  - workerMu is only held from one step to another while a worker is     *)
(*    being stopped; getWorkerCount and startOneWorker are single steps.   *)
(*  - The rate limits and requestHistory of the scaler are a choice: any   *)
(*    request can be ignored, and a request that is not an increase can    *)
(*    tip the scale down.  The Scaler module has the exact conditions.     *)
(*  - The tomb c.t only holds the goroutines of the workers.  It is dead   *)
(*    when the last of them has returned, and it panics when asked for     *)
(*    another goroutine afterwards.                                        *)
(***************************************************************************)
EXTENDS WorkerCount, Sequences, FiniteSets

CONSTANTS FlowsPerRecord,    \* bound on the flows decoded from one record
          FullBatch,  \* rows of a full batch
          minimumBatchSize,  \* rows at or below which a batch is underloaded
          Events             \* what the environment may do besides sending flows

ASSUME PoolAssumption ==
  /\ FlowsPerRecord \in Nat \ {0}
  /\ FullBatch \in Nat \ {0}
  /\ minimumBatchSize \in 0..(FullBatch - 1)
  /\ Events \subseteq {"signal", "startupDelay", "startError",
                       "clientError", "fetchError", "badPayload"}

PoolWorkers == 1..(MinWorkers + MaxWorkers)

VARIABLES
  starter,   \* StartWorkers: "waiting", "running", "returned" or "failed"
  toStart,   \* workers StartWorkers has still to start
  muOwner,   \* holder of workerMu from one step to another
  ch,        \* workerRequestChan
  scaler,    \* program counter of the scaler; a request when it is about
             \* to call getWorkerCount to act on it
  toScale,   \* workers the scaler has still to start, or to stop (negative)
  worker,    \* program counter of each worker; a request while sending it
  flows,     \* flows of its record each worker has still to process
  rows,      \* rows in the batch of each worker
  stopCalled,  \* workers whose stop function has been called
  exiting,   \* result of the goroutine that closed `done` for each worker,
             \* until the tomb notices: at most one per index (a bound)
  dying, dead,  \* state of the tomb
  stopper,   \* the goroutine that stops the components
  stopping,  \* the worker StopWorkers is at
  panicked   \* the process has crashed

poolVars == <<starter, toStart, n, muOwner>>
scalerVars == <<fsm, scaler, toScale>>
poolWorkerVars == <<worker, flows, rows, stopCalled>>
tombVars == <<exiting, dying, dead>>
stopVars == <<stopper, stopping>>
allPoolVars == <<poolVars, ch, scalerVars, poolWorkerVars, tombVars, stopVars, panicked>>

Running(w) == worker[w] \notin {"none", "done"}

ContextDone(w) == w \in stopCalled \/ dying

-----------------------------------------------------------------------------
PoolInit ==
  /\ starter = IF "startupDelay" \in Events THEN "waiting" ELSE "running"
  /\ toStart = MinWorkers
  /\ n = 0
  /\ muOwner = "none"
  /\ ch = <<>>
  /\ fsm = "initialState"
  /\ scaler = "select"
  /\ toScale = 0
  /\ worker = [w \in PoolWorkers |-> "none"]
  /\ flows = [w \in PoolWorkers |-> 0]
  /\ rows = [w \in PoolWorkers |-> 0]
  /\ stopCalled = {}
  /\ exiting = [w \in PoolWorkers |-> "no"]
  /\ dying = FALSE
  /\ dead = FALSE
  /\ stopper = "run"
  /\ stopping = 0
  /\ panicked = FALSE

(***************************************************************************)
(* Starting workers.                                                       *)
(***************************************************************************)
startPoolWorker ==
  /\ muOwner = "none"
  /\ IF dead
       THEN panicked' = TRUE /\ UNCHANGED <<n, poolWorkerVars, tombVars>>
       ELSE /\ n' = n + 1
            /\ worker' = [worker EXCEPT ![n + 1] = "poll"]
            /\ flows' = [flows EXCEPT ![n + 1] = 0]
            /\ rows' = [rows EXCEPT ![n + 1] = 0]
            /\ stopCalled' = stopCalled \ {n + 1}
            /\ UNCHANGED <<tombVars, panicked>>

(* newClient fails: nothing is started.                                    *)
clientError ==
  /\ muOwner = "none"
  /\ "clientError" \in Events
  /\ UNCHANGED <<n, poolWorkerVars, tombVars, panicked>>

(* StartupDelay elapses, or the core component is stopped before.          *)
StartupDelay ==
  /\ starter = "waiting"
  /\ starter' \in {"running"} \cup (IF stopper = "core" THEN {"returned"} ELSE {})
  /\ UNCHANGED <<toStart, n, muOwner, ch, scalerVars, poolWorkerVars, tombVars,
                 stopVars, panicked>>

StartWorkers ==
  /\ starter = "running"
  /\ \/ /\ toStart > 0
        /\ startPoolWorker
        /\ toStart' = toStart - 1
        /\ UNCHANGED starter
     \/ /\ toStart > 0
        /\ clientError
        /\ starter' = "failed"
        /\ UNCHANGED toStart
     \/ /\ toStart = 0
        /\ starter' = "returned"
        /\ UNCHANGED <<toStart, n, poolWorkerVars, tombVars, panicked>>
  /\ UNCHANGED <<muOwner, ch, scalerVars, stopVars>>

(***************************************************************************)
(* The scaler.                                                             *)
(***************************************************************************)
scalerIdle == <<poolVars, poolWorkerVars, tombVars, stopVars, panicked>>

ScalerContextDone ==
  /\ scaler = "select"
  /\ dying
  /\ scaler' = "exited"
  /\ UNCHANGED <<ch, fsm, toScale, scalerIdle>>

ScalerReceive ==
  /\ scaler = "select"
  /\ ch # <<>>
  /\ ch' = Tail(ch)
  /\ scaler' \in {"select", IF Head(ch) = "ScaleIncrease" THEN "ScaleIncrease"
                                                          ELSE "ScaleDecrease"}
  /\ UNCHANGED <<fsm, toScale, scalerIdle>>

(* The scaler goes on to the next worker, or back to its channel.          *)
ScaleNext(left) ==
  /\ toScale' = left
  /\ scaler' = IF left = 0 THEN "select" ELSE "scale"

getWorkerCount ==
  /\ scaler \in ScaleRequest
  /\ muOwner = "none"
  /\ LET change == nextWorkerCount(fsm, scaler, n) - n
     IN  IF scaler = "ScaleIncrease" THEN ScaleNext(max(0, change))
                                     ELSE ScaleNext(min(0, change))
  /\ fsm' = nextState(fsm, scaler)
  /\ UNCHANGED <<ch, scalerIdle>>

increaseWorkers ==
  /\ scaler = "scale"
  /\ toScale > 0
  /\ \/ startPoolWorker /\ ScaleNext(toScale - 1)
     \/ clientError /\ ScaleNext(0)
  /\ UNCHANGED <<starter, toStart, muOwner, ch, fsm, stopVars>>

(* decreaseWorkers calls stopOneWorker, which keeps workerMu until the     *)
(* last worker has closed `done`.                                          *)
stopOneWorkerCancel ==
  /\ scaler = "scale"
  /\ toScale < 0
  /\ muOwner = "none"
  /\ muOwner' = "scaler"
  /\ stopCalled' = stopCalled \cup {n}
  /\ scaler' = "stopOneWorker"
  /\ UNCHANGED <<starter, toStart, n, ch, fsm, toScale, worker, flows, rows,
                 tombVars, stopVars, panicked>>

(* Mistake: stopOneWorker does not wait for `done`.                        *)
stopOneWorkerNoWait ==
  /\ scaler = "stopOneWorker"
  /\ n' = n - 1
  /\ muOwner' = "none"
  /\ ScaleNext(toScale + 1)
  /\ UNCHANGED <<starter, toStart, ch, fsm, poolWorkerVars, tombVars, stopVars,
                 panicked>>

stopOneWorkerDone ==
  /\ scaler = "stopOneWorker"
  /\ worker[n] = "done"
  /\ n' = n - 1
  /\ worker' = [worker EXCEPT ![n] = "none"]
  /\ muOwner' = "none"
  /\ ScaleNext(toScale + 1)
  /\ UNCHANGED <<starter, toStart, ch, fsm, flows, rows, stopCalled, tombVars,
                 stopVars, panicked>>

(* Mistake: nobody receives while the scaling function runs.               *)
scaleWithoutDraining == FALSE

(* The goroutine that discards requests while the scaling function runs.   *)
scaleWhileDraining ==
  /\ scaler \in {"scale", "stopOneWorker"}
  /\ ch # <<>>
  /\ ch' = Tail(ch)
  /\ UNCHANGED <<scalerVars, scalerIdle>>

ScalerStep ==
  \/ ScalerContextDone
  \/ ScalerReceive
  \/ getWorkerCount
  \/ increaseWorkers
  \/ stopOneWorkerCancel
  \/ stopOneWorkerDone

(***************************************************************************)
(* A worker.                                                               *)
(***************************************************************************)
workerIdle == <<poolVars, scalerVars, tombVars, stopVars, panicked>>

(* PollFetches returns a record with some flows.                           *)
PollRecord(w) ==
  /\ worker[w] = "poll"
  /\ ~ContextDone(w)
  /\ worker' = [worker EXCEPT ![w] = "process"]
  /\ flows' = [flows EXCEPT ![w] = FlowsPerRecord]
  /\ UNCHANGED <<ch, rows, stopCalled, workerIdle>>

(* The loop ends: the context is done, a fetch error is taken as fatal, or *)
(* a record cannot be decoded.                                             *)
EndPoolLoop(w) ==
  /\ worker[w] = "poll"
  /\ \/ /\ ContextDone(w)
        /\ worker' = [worker EXCEPT ![w] = "shutdown"]
     \/ /\ "fetchError" \in Events
        /\ worker' = [worker EXCEPT ![w] = "shutdown"]
     \/ /\ "badPayload" \in Events
        /\ worker' = [worker EXCEPT ![w] = "shutdownErr"]
  /\ UNCHANGED <<ch, flows, rows, stopCalled, workerIdle>>

(* Where a worker goes once it has dealt with a flow.                      *)
AfterFlow(w) == IF flows[w] > 1 THEN "process" ELSE "poll"

(* A flow is undone (rate limited or skipped by the enrichment), added to  *)
(* the batch, or completes it: the batch is full or MaximumWaitTime has    *)
(* elapsed.                                                                *)
processIncomingFlow(w) ==
  /\ worker[w] = "process"
  /\ \/ /\ worker' = [worker EXCEPT ![w] = AfterFlow(w)]
        /\ flows' = [flows EXCEPT ![w] = @ - 1]
        /\ UNCHANGED rows
     \/ /\ rows[w] + 1 < FullBatch
        /\ rows' = [rows EXCEPT ![w] = @ + 1]
        /\ worker' = [worker EXCEPT ![w] = AfterFlow(w)]
        /\ flows' = [flows EXCEPT ![w] = @ - 1]
     \/ /\ rows' = [rows EXCEPT ![w] = min(FullBatch, @ + 1)]
        /\ worker' = [worker EXCEPT ![w] = "Flush"]
        /\ UNCHANGED flows
  /\ UNCHANGED <<ch, stopCalled, workerIdle>>

(* The status of the batch becomes a scale request.                        *)
Status(size) ==
  CASE size >= FullBatch -> "ScaleIncrease"
    [] size <= minimumBatchSize -> "ScaleDecrease"
    [] OTHER -> "ScaleSteady"

(* The batch is inserted.  An insert that has started survives the end of  *)
(* its context for the grace period.                                       *)
FlushInsert(w) ==
  /\ worker[w] = "Flush"
  /\ worker' = [worker EXCEPT ![w] = Status(rows[w])]
  /\ rows' = [rows EXCEPT ![w] = 0]
  /\ UNCHANGED <<ch, flows, stopCalled, workerIdle>>

(* Retries only end with the context: the rows stay in the batch.          *)
FlushGiveUp(w) ==
  /\ worker[w] = "Flush"
  /\ ContextDone(w)
  /\ worker' = [worker EXCEPT ![w] = Status(rows[w])]
  /\ UNCHANGED <<ch, flows, rows, stopCalled, workerIdle>>

(* w.scaleRequestChan <- request                                           *)
SendRequest(w) ==
  /\ worker[w] \in ScaleRequest
  /\ Len(ch) < MaxWorkers
  /\ ch' = Append(ch, worker[w])
  /\ worker' = [worker EXCEPT ![w] = AfterFlow(w)]
  /\ flows' = [flows EXCEPT ![w] = @ - 1]
  /\ UNCHANGED <<rows, stopCalled, workerIdle>>

(* The deferred function: commit, leave the group, flush the last batch,   *)
(* each with a timeout, then close(done).                                  *)
Shutdown(w) ==
  /\ worker[w] \in {"shutdown", "shutdownErr"}
  /\ worker' = [worker EXCEPT ![w] = "done"]
  /\ rows' = [rows EXCEPT ![w] = 0]
  /\ exiting[w] = "no"
  /\ exiting' = [exiting EXCEPT ![w] = IF worker[w] = "shutdown" THEN "nil"
                                                                 ELSE "err"]
  /\ UNCHANGED <<ch, flows, stopCalled, poolVars, scalerVars, dying,
                 dead, stopVars, panicked>>

PoolWorkerStep(w) ==
  \/ EndPoolLoop(w) /\ ContextDone(w)
  \/ processIncomingFlow(w)
  \/ FlushGiveUp(w)
  \/ SendRequest(w)
  \/ Shutdown(w)

(* The tomb notices that a goroutine has returned.  It is dying when the   *)
(* goroutine failed or was the last one, and dead when it was the last.    *)
TombRun(w) ==
  /\ exiting[w] # "no"
  /\ exiting' = [exiting EXCEPT ![w] = "no"]
  /\ LET alive == {v \in PoolWorkers : Running(v) \/ exiting'[v] # "no"}
     IN  /\ dying' = (dying \/ exiting[w] = "err" \/ alive = {})
         /\ dead' = (alive = {})
  /\ UNCHANGED <<poolVars, ch, scalerVars, poolWorkerVars, stopVars, panicked>>

(***************************************************************************)
(* Stopping: core.Stop (wait for StartWorkers, then StopWorkers), then     *)
(* kafkainput.Stop (kill the tomb, wait for it, StopWorkers again).        *)
(***************************************************************************)
stopIdle == <<starter, toStart, n, ch, scalerVars, worker, flows, rows,
              exiting, dead, panicked>>

(* Components are stopped on a signal, when a tomb dies, or when one fails *)
(* to start: a component that failed to start is not stopped itself.       *)
BeginStop ==
  /\ stopper = "run"
  /\ \/ /\ starter = "returned" \/ "startupDelay" \in Events
        /\ "signal" \in Events \/ dying \/ starter = "failed"
        /\ stopper' = "core"
        /\ UNCHANGED starter
     \/ /\ \/ starter = "failed" /\ "startupDelay" \notin Events
           \/ "startError" \in Events /\ toStart = MinWorkers
        /\ stopper' = "Kill"
        /\ starter' = "failed"
  /\ UNCHANGED <<toStart, n, muOwner, ch, scalerVars, poolWorkerVars, tombVars,
                 stopping, panicked>>

CoreWait ==
  /\ stopper = "core"
  /\ starter \in {"returned", "failed"}
  /\ stopper' = "lock"
  /\ UNCHANGED <<stopping, muOwner, stopCalled, dying, stopIdle>>

StopWorkersLock ==
  /\ stopper \in {"lock", "lockAgain"}
  /\ muOwner = "none"
  /\ muOwner' = "stopper"
  /\ stopping' = 1
  /\ stopCalled' = IF n > 0 THEN stopCalled \cup {1} ELSE stopCalled
  /\ stopper' = IF stopper = "lock" THEN "StopWorkers" ELSE "StopWorkersAgain"
  /\ UNCHANGED <<dying, stopIdle>>

(* The worker being stopped has closed `done`: on to the next one.         *)
StopWorkersNext ==
  /\ stopper \in {"StopWorkers", "StopWorkersAgain"}
  /\ stopping <= n
  /\ worker[stopping] = "done"
  /\ stopping' = stopping + 1
  /\ stopCalled' = IF stopping < n THEN stopCalled \cup {stopping + 1} ELSE stopCalled
  /\ UNCHANGED <<stopper, muOwner, dying, stopIdle>>

StopWorkersUnlock ==
  /\ stopper \in {"StopWorkers", "StopWorkersAgain"}
  /\ stopping > n
  /\ muOwner' = "none"
  /\ stopping' = 0
  /\ stopper' = IF stopper = "StopWorkers" THEN "Kill" ELSE "stopped"
  /\ UNCHANGED <<stopCalled, dying, stopIdle>>

StopKill ==
  /\ stopper = "Kill"
  /\ dying' = TRUE
  /\ stopper' = "Wait"
  /\ UNCHANGED <<stopping, muOwner, stopCalled, stopIdle>>

StopWait ==
  /\ stopper = "Wait"
  /\ dead
  /\ stopper' = "lockAgain"
  /\ UNCHANGED <<stopping, muOwner, stopCalled, dying, stopIdle>>

StopStep ==
  \/ CoreWait
  \/ StopWorkersLock
  \/ StopWorkersNext
  \/ StopWorkersUnlock
  \/ StopKill
  \/ StopWait

(* The process has ended.                                                  *)
Up == ~panicked /\ stopper # "stopped"

Terminated == ~Up /\ UNCHANGED allPoolVars

-----------------------------------------------------------------------------
PoolNext ==
  \/ Up /\ StartupDelay
  \/ Up /\ StartWorkers
  \/ Up /\ ScalerStep
  \/ Up /\ scaleWhileDraining
  \/ Up /\ \E w \in PoolWorkers :
             \/ PollRecord(w) \/ EndPoolLoop(w) \/ FlushInsert(w)
             \/ PoolWorkerStep(w)
             \/ TombRun(w)
  \/ Up /\ BeginStop
  \/ Up /\ StopStep
  \/ Terminated

PoolSpec == PoolInit /\ [][PoolNext]_allPoolVars

(* The Go scheduler runs each goroutine that can run, and neither a mutex  *)
(* nor a channel starves one of those that wait for it.  Nothing is        *)
(* assumed of Kafka or ClickHouse, and signals may never come.             *)
PoolFairness ==
  /\ WF_allPoolVars(Up /\ StartupDelay)
  /\ WF_allPoolVars(Up /\ StartWorkers)
  /\ WF_allPoolVars(Up /\ ScalerStep)
  /\ WF_allPoolVars(Up /\ scaleWhileDraining)
  /\ \A w \in PoolWorkers :
       /\ WF_allPoolVars(Up /\ PoolWorkerStep(w))
       /\ SF_allPoolVars(Up /\ SendRequest(w))
       /\ WF_allPoolVars(Up /\ TombRun(w))
  /\ WF_allPoolVars(Up /\ StopStep)
  /\ SF_allPoolVars(Up /\ StopWorkersLock)

-----------------------------------------------------------------------------
PoolTypeOK ==
  /\ starter \in {"waiting", "running", "returned", "failed"}
  /\ toStart \in 0..MinWorkers
  /\ n \in 0..(MinWorkers + MaxWorkers)
  /\ muOwner \in {"none", "scaler", "stopper"}
  /\ ch \in Seq(ScaleRequest) /\ Len(ch) <= MaxWorkers
  /\ fsm \in ScalerState
  /\ scaler \in {"select", "ScaleIncrease", "ScaleDecrease", "scale",
                 "stopOneWorker", "exited"}
  /\ toScale \in (-MaxWorkers)..MaxWorkers
  /\ worker \in [PoolWorkers -> {"none", "poll", "process", "Flush", "shutdown",
                             "shutdownErr", "done"} \cup ScaleRequest]
  /\ flows \in [PoolWorkers -> 0..FlowsPerRecord]
  /\ rows \in [PoolWorkers -> 0..FullBatch]
  /\ stopCalled \subseteq PoolWorkers
  /\ exiting \in [PoolWorkers -> {"no", "nil", "err"}]
  /\ dying \in BOOLEAN /\ dead \in BOOLEAN /\ panicked \in BOOLEAN
  /\ stopper \in {"run", "core", "lock", "StopWorkers", "Kill", "Wait",
                  "lockAgain", "StopWorkersAgain", "stopped"}
  /\ stopping \in 0..(MinWorkers + MaxWorkers + 1)

(* A worker leaves c.workers only after its goroutine has flushed its      *)
(* batch and left the consumer group: no goroutine escapes StopWorkers.    *)
RunningWorkersListed == \A w \in PoolWorkers : Running(w) => w <= n

(* Once the components are stopped, the tomb is dead and no worker runs:   *)
(* the second StopWorkers has nothing left to do.                          *)
StoppedIsQuiet ==
  stopper = "stopped" => dead /\ \A w \in PoolWorkers : ~Running(w)

(* StartWorkers and the scaler both start workers, and the scaler may have *)
(* counted them before the last ones of StartWorkers: these come on top of *)
(* max-workers, and nothing else does.                                     *)
WorkersCapped == n <= MaxWorkers + (MinWorkers - 1)

(* No goroutine is started in a tomb that is dead: the stop of the other   *)
(* components is never cut short by a panic.                               *)
NoPanic == ~panicked

(* A worker that reports its load is not blocked forever by the scaler,    *)
(* even when the scaler is waiting for this very worker to stop: this is   *)
(* what scaleWhileDraining is for.                                         *)
SendersProgress ==
  \A w \in PoolWorkers :
    worker[w] \in ScaleRequest ~> (worker[w] \notin ScaleRequest \/ ~Up)

(* A scaling in progress ends.                                             *)
ScalingEnds ==
  scaler \in {"scale", "stopOneWorker"} ~> (scaler \in {"select", "exited"} \/ ~Up)

(* Stopping the components ends.                                           *)
StopReturns == stopper # "run" ~> ~Up

(* The pool at every step: its counts, the workers it lists and the limits *)
(* it respects, up to the stop.                                            *)
PoolRight ==
  PoolTypeOK /\ RunningWorkersListed /\ StoppedIsQuiet /\ WorkersCapped

(* Neither a worker that reports its load nor the scaler that stops one    *)
(* waits for ever, and as long as nothing stops the component, stopping    *)
(* workers never leaves its tomb dead for the next one that starts.        *)
ScalingProgress == SendersProgress /\ ScalingEnds /\ []NoPanic
=============================================================================
