---------------------------- MODULE WorkerCount ----------------------------
(***************************************************************************)
(* What the scaler of outlet/kafkainput promises: the number of workers    *)
(* only changes through nextWorkerCount, a search by dichotomy that turns  *)
(* into single steps once it has overshot.                                 *)
(***************************************************************************)
EXTENDS Integers

CONSTANTS MinWorkers,  \* configured minimum, started by StartWorkers
          MaxWorkers   \* configured maximum, capped to the partitions

(* The configuration has MinWorkers <= MaxWorkers, but Start caps          *)
(* MaxWorkers to the number of partitions and leaves MinWorkers alone.     *)
ASSUME WorkersAssumption ==
  /\ MinWorkers \in Nat \ {0}
  /\ MaxWorkers \in Nat \ {0}

VARIABLES fsm,  \* scalerState
          n     \* len(c.workers)

ScaleRequest == {"ScaleIncrease", "ScaleDecrease", "ScaleSteady"}

ScalerState == {"initialState", "initialIncreaseState", "steadyState"}

min(a, b) == IF a < b THEN a ELSE b

max(a, b) == IF a < b THEN b ELSE a

-----------------------------------------------------------------------------
(* Mistake: a decrease without its floor.                                  *)
nextWorkerCountNoFloor(state, request, current) ==
  IF request = "ScaleDecrease" THEN max(0, current - 1) ELSE min(MaxWorkers, current + 1)

(* nextWorkerCount: the number it returns, and the state it leaves.        *)
nextWorkerCount(state, request, current) ==
  IF request = "ScaleIncrease"
    THEN IF state = "steadyState"
           THEN min(MaxWorkers, current + 1)
           ELSE min(MaxWorkers, (current + MaxWorkers + 1) \div 2)
    ELSE IF request = "ScaleDecrease" /\ state # "initialState"
           THEN max(MinWorkers, current - 1)
           ELSE current

nextState(state, request) ==
  IF state = "initialState" /\ request = "ScaleIncrease"
    THEN "initialIncreaseState"
    ELSE IF state = "initialIncreaseState" /\ request = "ScaleDecrease"
           THEN "steadyState"
           ELSE state

-----------------------------------------------------------------------------
CountInit ==
  /\ fsm = "initialState"
  /\ n = MinWorkers

(* A target on the wrong side of the current number is not acted upon.     *)
(* increaseWorkers gives up at the first worker that cannot be created;    *)
(* stopping a worker cannot fail.                                          *)
Scale(request) ==
  LET target == nextWorkerCount(fsm, request, n)
  IN  /\ fsm' = nextState(fsm, request)
      /\ IF request = "ScaleIncrease" /\ target > n
           THEN n' \in n..target
           ELSE n' = IF request = "ScaleDecrease" /\ target < n THEN target
                                                                ELSE n

CountNext == \E request \in {"ScaleIncrease", "ScaleDecrease"} : Scale(request)

CountSpec == CountInit /\ [][CountNext]_<<fsm, n>>

-----------------------------------------------------------------------------
(* The pool never shrinks below the configured minimum and never grows     *)
(* above the configured maximum, unless the minimum is itself above the    *)
(* number of partitions that caps the maximum: it then keeps the minimum.  *)
WorkersBounded ==
  /\ MinWorkers <= n
  /\ n <= max(MinWorkers, MaxWorkers)

=============================================================================
