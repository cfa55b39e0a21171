------------------------------- MODULE Scaler -------------------------------
(***************************************************************************)
(* The goroutine of outlet/kafkainput/scaler.go that turns the scale       *)
(* requests of the workers into a number of workers.                       *)
(*                                                                         *)
(* Time is relative: since is the time elapsed since `last`, and each      *)
(* record of requestHistory carries its age.  Both saturate at Horizon,    *)
(* beyond which the code cannot tell two ages apart.  Scaling itself is    *)
(* one step here: the workers, their channel and their lock are modelled   *)
(* in KafkaWorkers.                                                        *)
(***************************************************************************)
EXTENDS WorkerCount, Sequences, FiniteSets

CONSTANTS IncreaseRateLimit,  \* WorkerIncreaseRateLimit
          DecreaseRateLimit,  \* WorkerDecreaseRateLimit
          MaxHistory          \* bound on the recorded requests

ASSUME RateLimitAssumption ==
  /\ IncreaseRateLimit \in Nat \ {0}
  /\ DecreaseRateLimit \in Nat
  /\ IncreaseRateLimit < DecreaseRateLimit
  /\ MaxHistory \in Nat \ {0}

VARIABLES since,    \* time elapsed since the last scaling decision
          history   \* requestHistory, the oldest request first

vars == <<fsm, n, since, history>>

Horizon == DecreaseRateLimit + 1

Record == [request: ScaleRequest, age: 0..Horizon]

-----------------------------------------------------------------------------
OlderUncapped(age) == age + 1

Older(age) == IF age < Horizon THEN age + 1 ELSE Horizon

(* Mistake: a record that is just as old as the window is skipped too.     *)
TrimTooMuch(h) == SelectSeq(h, LAMBDA r : r.age < DecreaseRateLimit)

(* requestHistory[i:] once the loop of the code has skipped the records    *)
(* that precede windowStart: the last one always stays.                    *)
Trim(h) ==
  LET i == CHOOSE i \in 0..(Len(h) - 1) :
             /\ \A j \in 1..i : h[j].age > DecreaseRateLimit
             /\ i < Len(h) - 1 => h[i + 1].age <= DecreaseRateLimit
  IN  SubSeq(h, i + 1, Len(h))

Count(h, request) == Cardinality({i \in DOMAIN h : h[i].request = request})

TooManyDecreases(h) ==
  Count(h, "ScaleDecrease") > Count(h, "ScaleSteady") \div 2

(* last = time.Now(); requestHistory = requestHistory[:0]                  *)
Restart ==
  /\ since' = 0
  /\ history' = <<>>

-----------------------------------------------------------------------------
(* The first request finds `last` at its zero value, long past.            *)
Init ==
  /\ CountInit
  /\ since = Horizon
  /\ history = <<>>

Tick ==
  /\ since' = Older(since)
  /\ history' = [i \in DOMAIN history |->
                   [history[i] EXCEPT !.age = Older(history[i].age)]]
  /\ UNCHANGED <<fsm, n>>

(* During increaseRateLimit, requests are ignored.                         *)
IgnoreRequest(request) ==
  /\ since < IncreaseRateLimit
  /\ UNCHANGED vars

HandleIncrease ==
  /\ since >= IncreaseRateLimit
  /\ Scale("ScaleIncrease")
  /\ Restart

(* Between the two limits, only steady requests are recorded.              *)
HeadStart(request) ==
  /\ since >= IncreaseRateLimit
  /\ since < DecreaseRateLimit
  /\ request # "ScaleIncrease"
  /\ Len(history) < MaxHistory
  /\ history' = IF request = "ScaleSteady"
                  THEN Append(history, [request |-> request, age |-> 0])
                  ELSE history
  /\ UNCHANGED <<fsm, n, since>>

(* Past decreaseRateLimit, each request is recorded and may tip the scale. *)
Weigh(request) ==
  /\ since >= DecreaseRateLimit
  /\ request # "ScaleIncrease"
  /\ Len(history) < MaxHistory
  /\ LET h == Trim(Append(history, [request |-> request, age |-> 0]))
     IN  IF TooManyDecreases(h)
           THEN Scale("ScaleDecrease") /\ Restart
           ELSE history' = h /\ UNCHANGED <<fsm, n, since>>

Next ==
  \/ Tick
  \/ HandleIncrease
  \/ \E request \in ScaleRequest :
       IgnoreRequest(request) \/ HeadStart(request) \/ Weigh(request)

Spec == Init /\ [][Next]_vars

(* Increase requests keep coming, and the workers they ask for start.      *)
FairSpec ==
  /\ Spec
  /\ WF_vars(Tick)
  /\ SF_vars(/\ HandleIncrease
             /\ n' = max(n, nextWorkerCount(fsm, "ScaleIncrease", n)))

-----------------------------------------------------------------------------
TypeOK ==
  /\ fsm \in ScalerState
  /\ n \in Nat
  /\ since \in 0..Horizon
  /\ history \in Seq(Record)

(* The state is one of the code, with a number of workers in the limits.   *)
ScalerRight == TypeOK /\ WorkersBounded

Recent(request) ==
  {i \in DOMAIN history :
     /\ history[i].request = request
     /\ history[i].age <= DecreaseRateLimit}

Unbalanced(decreases, steadies) == decreases > steadies \div 2

(* A worker is stopped when, over the last DecreaseRateLimit and with the  *)
(* request at hand, more decrease requests were recorded than half of the  *)
(* steady ones, and only then: the loop that trims requestHistory from its *)
(* head drops exactly the requests that left the window.                   *)
ScaleDownJustified ==
  [][/\ n' < n =>
          \E d \in {0, 1} :
            Unbalanced(Cardinality(Recent("ScaleDecrease")) + d,
                       Cardinality(Recent("ScaleSteady")) + 1 - d)
     /\ (/\ since >= DecreaseRateLimit
         /\ history' \notin {<<>>, history}
         /\ history'[Len(history')].age = 0) =>
          ~Unbalanced(Cardinality(Recent("ScaleDecrease")'),
                      Cardinality(Recent("ScaleSteady")'))]_vars

(* As long as the workers report an overload and no scale down happens,    *)
(* the search ends with MaxWorkers workers: the rounding of the dichotomy  *)
(* never leaves it short of the maximum.                                   *)
OverloadReachesMax ==
  <>[][n' >= n]_vars => <>(n >= MaxWorkers)

=============================================================================
