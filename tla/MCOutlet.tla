------------------------------ MODULE MCOutlet ------------------------------
(***************************************************************************)
(* The workers of the outlet for TLC, seen as goroutines (KafkaWorkers)    *)
(* and as consumers that batch the records of their partitions (Delivery). *)
(* A behaviour is one of a single part, the other one stays as it was.     *)
(***************************************************************************)
EXTENDS Delivery, KafkaWorkers, TLC

CONSTANTS
  Parts,                  \* the parts that run
  p1, p2, w1, w2

VARIABLE part

NoBad == {}

(* The second record of the partition cannot be decoded.                   *)
OneBad == {<<p1, 1>>}

(* The first record of each partition cannot be decoded.                   *)
FirstBad == {p1, p2} \X {0}

(* The second record of each partition makes two rows.                     *)
SecondTwice == [r \in Records |-> IF r[2] = 1 THEN 2 ELSE 1]

(* The first record of the partition makes no row, the third one two.      *)
FirstNone == [r \in Records |-> IF r[2] = 0 THEN 0 ELSE IF r[2] = 2 THEN 2 ELSE 1]

OneEach == [r \in Records |-> 1]

Symmetry == Permutations({w1, w2}) \cup Permutations({p1, p2})

MCInit == part \in Parts /\ Init /\ PoolInit

MCNext ==
  /\ UNCHANGED part
  /\ \/ part = "delivery" /\ Next /\ UNCHANGED allPoolVars
     \/ part = "workers" /\ PoolNext /\ UNCHANGED vars

MCSpec == MCInit /\ [][MCNext]_<<part, vars, allPoolVars>>

(* FairSpec of Delivery, when it runs.                                     *)
DeliveryFairness ==
  /\ WF_vars(/\ part = "delivery" /\ \A v \in Workers : pc[v] = "out"
             /\ \E w \in Workers : startOneWorker(w))
  /\ \A w \in Workers :
       /\ SF_vars(part = "delivery" /\ PollFetches(w))
       /\ WF_vars(part = "delivery" /\ WorkerStep(w))
  /\ \A p \in Partitions : SF_vars(part = "delivery" /\ \E w \in Workers : Assign(p, w))

(* PoolFairness of KafkaWorkers, when it runs and nothing stops it: what   *)
(* only happens at the start and at the stop is left out.                  *)
ScalingFairness ==
  /\ WF_allPoolVars(part = "workers" /\ Up /\ StartWorkers)
  /\ WF_allPoolVars(part = "workers" /\ Up /\ ScalerStep)
  /\ WF_allPoolVars(part = "workers" /\ Up /\ scaleWhileDraining)
  /\ \A w \in PoolWorkers :
       /\ WF_allPoolVars(part = "workers" /\ Up /\ PoolWorkerStep(w))
       /\ SF_allPoolVars(part = "workers" /\ Up /\ SendRequest(w))
       /\ WF_allPoolVars(part = "workers" /\ Up /\ TombRun(w))

MCProgressSpec == MCSpec /\ DeliveryFairness /\ ScalingFairness

(* The workers only, with all that is fair.                                *)
MCStopSpec == MCSpec /\ PoolFairness

(* CatchesUp, of the behaviours of the delivery.                           *)
RecordsCatchUp == part = "delivery" => CatchesUp
=============================================================================
