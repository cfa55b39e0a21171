--------------------------- MODULE ServicesProofs ---------------------------
(***************************************************************************)
(* Proofs about the parts that run in goroutines of their own, apart from  *)
(* the flows: the scaler of the workers and their pool, the static and gNMI*)
(* providers of metadata, the life of a service, the inlet, and the export *)
(* of the flows to Kafka.  They are for all values of the constants: as    *)
(* many workers, sources, exporters, components, buffers and flows as one  *)
(* likes, whatever the environment does.                                   *)
(***************************************************************************)
EXTENDS Scaler, KafkaWorkers, StaticProvider, Gnmi, Lifecycle, Inlet, KafkaOutput,
        FunctionTheorems, FiniteSetTheorems, SequenceTheorems, NaturalsInduction,
        WellFoundedInduction, TLAPS

(* A set of numbers has a least one.                                       *)
LEMMA Least ==
  ASSUME NEW S \in SUBSET Nat, S # {}
  PROVE  \E m \in S : \A k \in S : m <= k
<1>1. PICK m \in S : \A k \in S : ~ (<<k, m>> \in OpToRel(<, Nat))
  BY NatLessThanWellFounded, WFMin
<1>2. ASSUME NEW k \in S PROVE m <= k
  <2>1. m \in Nat /\ k \in Nat
    OBVIOUS
  <2>2. ~ (k < m)
    BY <1>1, <2>1 DEF OpToRel
  <2>. QED  BY <2>1, <2>2
<1> QED
  BY <1>2

-----------------------------------------------------------------------------
(* The scaler                                                              *)
(* What nextWorkerCount returns for an increase request: at least the      *)
(* current number as long as it is not above the maximum, at most the      *)
(* maximum, and strictly more below it.                                    *)
LEMMA IncreaseBounds ==
  ASSUME NEW before \in ScalerState, NEW current \in Nat
  PROVE  LET target == nextWorkerCount(before, "ScaleIncrease", current)
         IN  /\ target \in Nat
             /\ target <= MaxWorkers
             /\ current < MaxWorkers => target > current
             /\ current >= MaxWorkers => target <= current
<1>1. CASE before = "steadyState"
  BY <1>1, WorkersAssumption DEF nextWorkerCount, min
<1>2. CASE before # "steadyState"
  BY <1>2, WorkersAssumption DEF nextWorkerCount, min
<1> QED
  BY <1>1, <1>2

(* The search by dichotomy halves the distance to the maximum, so that the *)
(* number of overloads it takes to get there is logarithmic.               *)
LEMMA DichotomyHalves ==
  ASSUME NEW before \in {"initialState", "initialIncreaseState"},
         NEW current \in Nat, current <= MaxWorkers
  PROVE  2 * (MaxWorkers - nextWorkerCount(before, "ScaleIncrease", current))
           <= MaxWorkers - current
BY WorkersAssumption DEF nextWorkerCount, min

(* A decrease request stops at most one worker and respects the minimum.   *)
LEMMA DecreaseBounds ==
  ASSUME NEW before \in ScalerState, NEW current \in Nat, current >= MinWorkers
  PROVE  LET target == nextWorkerCount(before, "ScaleDecrease", current)
         IN  /\ target \in Nat
             /\ target >= MinWorkers
             /\ target >= current - 1
             /\ target <= current
<1>1. CASE before = "initialState"
  BY <1>1, WorkersAssumption DEF nextWorkerCount
<1>2. CASE before # "initialState"
  BY <1>2, WorkersAssumption DEF nextWorkerCount, max
<1> QED
  BY <1>1, <1>2

LEMMA NextStateType ==
  ASSUME NEW before \in ScalerState, NEW request \in ScaleRequest
  PROVE  nextState(before, request) \in ScalerState
BY DEF ScalerState, ScaleRequest, nextState

-----------------------------------------------------------------------------
LimitsInv == fsm \in ScalerState /\ n \in Nat /\ WorkersBounded

LEMMA CountStep ==
  ASSUME LimitsInv, [CountNext]_<<fsm, n>>
  PROVE  LimitsInv'
<1> USE DEF LimitsInv
<1>1. CASE UNCHANGED <<fsm, n>>
  BY <1>1 DEF WorkersBounded
<1>2. CASE Scale("ScaleIncrease")
  <2> DEFINE target == nextWorkerCount(fsm, "ScaleIncrease", n)
  <2>1. target \in Nat /\ target <= MaxWorkers
    BY IncreaseBounds
  <2>2. fsm' \in ScalerState
    BY <1>2, NextStateType DEF Scale, ScaleRequest
  <2>3. n' \in n..target \/ n' = n
    BY <1>2 DEF Scale
  <2> QED
    BY <2>1, <2>2, <2>3, WorkersAssumption DEF WorkersBounded, max
<1>3. CASE Scale("ScaleDecrease")
  <2> DEFINE target == nextWorkerCount(fsm, "ScaleDecrease", n)
  <2>1. target \in Nat /\ target >= MinWorkers /\ target <= n
    BY DecreaseBounds, WorkersAssumption DEF WorkersBounded
  <2>2. fsm' \in ScalerState
    BY <1>3, NextStateType DEF Scale, ScaleRequest
  <2>3. n' = target \/ n' = n
    BY <1>3 DEF Scale
  <2> QED
    BY <2>1, <2>2, <2>3, WorkersAssumption DEF WorkersBounded, max
<1> QED
  BY <1>1, <1>2, <1>3 DEF CountNext

(* The number of workers nextWorkerCount leads to stays within the         *)
(* configured limits, whatever the requests and the workers that fail to   *)
(* start.                                                                  *)
THEOREM CountBounded == CountSpec => []WorkersBounded
<1>1. CountInit => LimitsInv
  BY WorkersAssumption DEF CountInit, LimitsInv, WorkersBounded, ScalerState, max
<1>2. LimitsInv /\ [CountNext]_<<fsm, n>> => LimitsInv'
  BY CountStep
<1>3. LimitsInv => WorkersBounded
  BY DEF LimitsInv
<1> QED
  BY <1>1, <1>2, <1>3, PTL DEF CountSpec

-----------------------------------------------------------------------------
(* The scaler only scales as CountNext does, one decision at a time.  Its  *)
(* definitions say so: what it decides is what is to be shown.             *)
LEMMA ScalerStepsCount == Spec => CountSpec
<1>1. Init => CountInit
  BY DEF Init
<1>2. [Next]_vars => [CountNext]_<<fsm, n>>
  <2> SUFFICES ASSUME [Next]_vars PROVE [CountNext]_<<fsm, n>>
    OBVIOUS
  <2>1. CASE Tick
    BY <2>1 DEF Tick
  <2>2. CASE HandleIncrease
    BY <2>2 DEF HandleIncrease, CountNext
  <2>3. ASSUME NEW request \in ScaleRequest, IgnoreRequest(request)
        PROVE  [CountNext]_<<fsm, n>>
    BY <2>3 DEF IgnoreRequest, vars
  <2>4. ASSUME NEW request \in ScaleRequest, HeadStart(request)
        PROVE  [CountNext]_<<fsm, n>>
    BY <2>4 DEF HeadStart
  <2>5. ASSUME NEW request \in ScaleRequest, Weigh(request)
        PROVE  [CountNext]_<<fsm, n>>
    <3>1. Scale("ScaleDecrease") \/ UNCHANGED <<fsm, n>>
      BY <2>5 DEF Weigh
    <3> QED
      BY <3>1 DEF CountNext
  <2>6. CASE UNCHANGED vars
    BY <2>6 DEF vars
  <2> QED
    BY <2>1, <2>2, <2>3, <2>4, <2>5, <2>6 DEF Next
<1> QED
  BY <1>1, <1>2, PTL DEF Spec, CountSpec

(* The scaler keeps the number of workers within its limits.               *)
THEOREM ScalerBounded == Spec => []WorkersBounded
BY ScalerStepsCount, CountBounded, PTL

-----------------------------------------------------------------------------
(* The loop that trims the history finds where to stop: past records that  *)
(* are too old, at one that is not, or at the last one.                    *)
LEMMA TrimStops ==
  ASSUME NEW h \in Seq(Record), Len(h) > 0
  PROVE  \E k \in 0..(Len(h) - 1) :
           /\ Trim(h) = SubSeq(h, k + 1, Len(h))
           /\ \A j \in 1..k : h[j].age > DecreaseRateLimit
           /\ k < Len(h) - 1 => h[k + 1].age <= DecreaseRateLimit
<1> DEFINE Kept(i) == i = Len(h) - 1 \/ h[i + 1].age <= DecreaseRateLimit
           Candidates == {i \in 0..(Len(h) - 1) : Kept(i)}
           Stop(i) == /\ \A j \in 1..i : h[j].age > DecreaseRateLimit
                      /\ i < Len(h) - 1 => h[i + 1].age <= DecreaseRateLimit
<1>1. Len(h) \in Nat /\ \A j \in 1..Len(h) : h[j].age \in Nat
  <2>1. Len(h) \in Nat /\ \A j \in 1..Len(h) : h[j] \in Record
    OBVIOUS
  <2>2. \A r \in Record : r.age \in Nat
    BY RateLimitAssumption DEF Record, Horizon
  <2> QED
    BY <2>1, <2>2
<1>2. Len(h) - 1 \in Candidates /\ Candidates \subseteq Nat
  BY <1>1
<1>3. PICK i \in Candidates : \A k \in Candidates : ~(<<k, i>> \in OpToRel(<, Nat))
  <2>1. IsWellFoundedOn(OpToRel(<, Nat), Nat)
    BY NatLessThanWellFounded
  <2> HIDE DEF Candidates
  <2> QED
    BY <1>2, <2>1, WFMin
<1>4. i \in 0..(Len(h) - 1) /\ Kept(i)
  BY <1>3
<1>5. ASSUME NEW j \in 1..i PROVE h[j].age > DecreaseRateLimit
  <2>1. j \in 1..Len(h) /\ j - 1 \in 0..(Len(h) - 1) /\ j - 1 \in Nat /\ i \in Nat
    BY <1>1, <1>4
  <2>2. <<j - 1, i>> \in OpToRel(<, Nat)
    BY <1>4, <2>1 DEF OpToRel
  <2>3. ~Kept(j - 1)
    BY <1>3, <2>1, <2>2
  <2>4. ~(h[j].age <= DecreaseRateLimit)
    <3>1. (j - 1) + 1 = j
      BY <2>1
    <3> QED
      BY <2>3, <3>1
  <2> QED
    BY <1>1, <2>1, <2>4, RateLimitAssumption
<1>6. \E k \in 0..(Len(h) - 1) : Stop(k)
  <2>1. i < Len(h) - 1 => h[i + 1].age <= DecreaseRateLimit
    BY <1>1, <1>4
  <2> QED
    BY <1>4, <1>5, <2>1
<1> DEFINE stop == CHOOSE k \in 0..(Len(h) - 1) : Stop(k)
<1>7. stop \in 0..(Len(h) - 1) /\ Stop(stop)
  BY <1>6
<1>8. Trim(h) = SubSeq(h, stop + 1, Len(h))
  BY DEF Trim
<1> HIDE DEF stop
<1> QED
  BY <1>7, <1>8

(* What it keeps are records of the history.                               *)
LEMMA TrimType ==
  ASSUME NEW h \in Seq(Record), Len(h) > 0
  PROVE  /\ Trim(h) \in Seq(Record)
         /\ Len(Trim(h)) <= Len(h)
<1>1. PICK k \in 0..(Len(h) - 1) : Trim(h) = SubSeq(h, k + 1, Len(h))
  BY TrimStops
<1> QED
  BY <1>1

(* The state of the scaler keeps its type: in particular the history only  *)
(* holds requests with ages, whatever was trimmed or aged in between.      *)
THEOREM ScalerTypeOK == Spec => []TypeOK
<1>1. Init => TypeOK
  BY WorkersAssumption, RateLimitAssumption
     DEF Init, CountInit, TypeOK, ScalerState, Horizon
<1>2. TypeOK /\ LimitsInv /\ LimitsInv' /\ [Next]_vars => TypeOK'
  <2> SUFFICES ASSUME TypeOK, LimitsInv, LimitsInv', [Next]_vars PROVE TypeOK'
    OBVIOUS
  <2>1. fsm' \in ScalerState /\ n' \in Nat
    BY DEF LimitsInv
  <2>2. 0 \in 0..Horizon /\ \A age \in 0..Horizon : Older(age) \in 0..Horizon
    BY RateLimitAssumption DEF Older, Horizon
  <2>3. \A request \in ScaleRequest : [request |-> request, age |-> 0] \in Record
    BY <2>2 DEF Record
  <2>4. CASE Tick
    <3>1. since' \in 0..Horizon
      BY <2>2, <2>4 DEF Tick, TypeOK
    <3>2. \A i \in DOMAIN history :
            [history[i] EXCEPT !.age = Older(history[i].age)] \in Record
      <4> SUFFICES ASSUME NEW i \in DOMAIN history
                   PROVE  [history[i] EXCEPT !.age = Older(history[i].age)] \in Record
        OBVIOUS
      <4>1. history[i] \in Record
        BY DEF TypeOK
      <4> QED
        BY <2>2, <4>1 DEF Record
    <3>3. DOMAIN history = 1..Len(history) /\ Len(history) \in Nat
      BY DEF TypeOK
    <3>4. history' \in [1..Len(history) -> Record]
      BY <2>4, <3>2, <3>3 DEF Tick
    <3>5. history' \in Seq(Record)
      BY <3>3, <3>4
    <3> QED
      BY <2>1, <3>1, <3>5 DEF TypeOK
  <2>5. CASE Restart
    BY <2>1, <2>2, <2>5 DEF Restart, TypeOK
  <2>6. ASSUME NEW request \in ScaleRequest, HeadStart(request)
        PROVE  TypeOK'
    BY <2>1, <2>3, <2>6 DEF HeadStart, TypeOK
  <2>7. ASSUME NEW request \in ScaleRequest, Weigh(request)
        PROVE  TypeOK'
    <3> DEFINE h == Append(history, [request |-> request, age |-> 0])
    <3>1. h \in Seq(Record) /\ Len(h) > 0
      BY <2>3 DEF TypeOK
    <3>2. Trim(h) \in Seq(Record)
      BY <3>1, TrimType
    <3>3. CASE Restart
      BY <2>5, <3>3
    <3>4. CASE history' = Trim(h) /\ UNCHANGED since
      BY <2>1, <3>2, <3>4 DEF TypeOK
    <3> QED
      BY <2>7, <3>3, <3>4 DEF Weigh
  <2>8. CASE UNCHANGED vars
    BY <2>8 DEF vars, TypeOK
  <2> QED
    BY <2>4, <2>5, <2>6, <2>7, <2>8 DEF Next, HandleIncrease, IgnoreRequest
<1>3. CountSpec => []LimitsInv
  <2>1. CountInit => LimitsInv
    BY WorkersAssumption DEF CountInit, LimitsInv, WorkersBounded, ScalerState, max
  <2>2. LimitsInv /\ [CountNext]_<<fsm, n>> => LimitsInv'
    BY CountStep
  <2> QED
    BY <2>1, <2>2, PTL DEF CountSpec
<1> QED
  BY <1>1, <1>2, <1>3, ScalerStepsCount, PTL DEF Spec

(* Scaler.ScalerRight, for all limits.                                     *)
THEOREM ScalerIsRight == Spec => []ScalerRight
BY ScalerTypeOK, ScalerBounded, PTL DEF ScalerRight

(* The oldest requests are first.                                          *)
ByAge(h) == \A i, j \in DOMAIN h : i < j => h[i].age >= h[j].age

LEMMA AgesInit == Init => ByAge(history)
BY DEF Init, ByAge

(* A history that ends with the request at hand.                           *)
Recorded(h) ==
  /\ h \in Seq(Record) /\ Len(h) \in Nat \ {0} /\ DOMAIN h = 1..Len(h)
  /\ ByAge(h) /\ h[Len(h)].age = 0

LEMMA RequestAppended ==
  ASSUME TypeOK, ByAge(history), NEW last \in ScaleRequest
  PROVE  Recorded(Append(history, [request |-> last, age |-> 0]))
<1> DEFINE L == Len(history)
<1>1. PICK r : r = [request |-> last, age |-> 0]
  OBVIOUS
<1>2. r.age = 0 /\ r \in Record
  BY <1>1, RateLimitAssumption DEF Record, Horizon
<1>3. PICK h : h = Append(history, r)
  OBVIOUS
<1>4. /\ history \in Seq(Record) /\ L \in Nat /\ DOMAIN history = 1..L
      /\ h \in Seq(Record) /\ Len(h) = L + 1 /\ h[L + 1] = r
      /\ \A i \in 1..L : h[i] = history[i]
  BY <1>2, <1>3 DEF TypeOK
<1>5. \A i \in 1..L : history[i].age \in Nat
  <2>1. \A x \in Record : x.age \in Nat
    BY RateLimitAssumption DEF Record, Horizon
  <2> QED
    BY <1>4, <2>1
<1>6. ASSUME NEW i \in 1..(L + 1), NEW j \in 1..(L + 1), i < j
      PROVE  h[i].age >= h[j].age
  <2>1. i \in 1..L
    BY <1>4, <1>6
  <2>2. CASE j = L + 1
    BY <1>2, <1>4, <1>5, <2>1, <2>2
  <2>3. CASE j \in 1..L
    BY <1>4, <1>6, <2>1, <2>3 DEF ByAge
  <2> QED
    BY <1>4, <2>2, <2>3
<1>7. ByAge(h)
  BY <1>4, <1>6 DEF ByAge
<1>8. Len(h) \in Nat \ {0} /\ h[Len(h)].age = 0 /\ DOMAIN h = 1..Len(h)
  BY <1>2, <1>4
<1>9. Recorded(h)
  BY <1>4, <1>7, <1>8 DEF Recorded
<1> QED
  BY <1>1, <1>3, <1>9

LEMMA SubSeqFrom ==
  ASSUME NEW h \in Seq(Record), NEW k \in 0..(Len(h) - 1)
  PROVE  SubSeq(h, k + 1, Len(h)) = [i \in 1..(Len(h) - k) |-> h[k + i]]
<1> DEFINE kept == SubSeq(h, k + 1, Len(h))
<1>1. Len(h) \in Nat /\ k \in Nat
  OBVIOUS
<1>2. Len(kept) = Len(h) - k /\ kept \in Seq(Record)
  BY <1>1
<1>3. \A i \in 1..(Len(h) - k) : kept[i] = h[k + i]
  BY <1>1
<1>4. kept = [i \in 1..Len(kept) |-> kept[i]]
  BY <1>2
<1> HIDE DEF kept
<1>5. kept = [i \in 1..(Len(h) - k) |-> h[k + i]]
  BY <1>2, <1>3, <1>4
<1> QED
  BY <1>5 DEF kept

(* With the oldest first, the loop keeps exactly the recent requests.      *)
TrimmedAt(h, k) ==
  /\ Trim(h) \in Seq(Record)
  /\ Trim(h) = [i \in 1..(Len(h) - k) |-> h[k + i]]
  /\ \A j \in 1..Len(h) : h[j].age <= DecreaseRateLimit <=> j > k

LEMMA TrimKeepsRecent ==
  ASSUME NEW h, Recorded(h)
  PROVE  \E k \in 0..(Len(h) - 1) : TrimmedAt(h, k)
<1>1. /\ Len(h) \in Nat \ {0} /\ DOMAIN h = 1..Len(h) /\ h \in Seq(Record)
      /\ \A j \in 1..Len(h) : h[j].age \in Nat
  <2>1. \A j \in 1..Len(h) : h[j] \in Record
    BY DEF Recorded
  <2>2. \A r \in Record : r.age \in Nat
    BY RateLimitAssumption DEF Record, Horizon
  <2> QED
    BY <2>1, <2>2 DEF Recorded
<1>2. PICK k \in 0..(Len(h) - 1) :
        /\ Trim(h) = SubSeq(h, k + 1, Len(h))
        /\ \A j \in 1..k : h[j].age > DecreaseRateLimit
        /\ k < Len(h) - 1 => h[k + 1].age <= DecreaseRateLimit
  <2>1. Len(h) > 0 /\ h \in Seq(Record)
    <3>1. PICK length \in Nat \ {0} : length = Len(h)
      BY <1>1
    <3> QED
      BY <1>1, <3>1
  <2> QED
    BY <2>1, TrimStops
<1>3. DecreaseRateLimit \in Nat
  BY RateLimitAssumption
<1>4. h[k + 1].age <= DecreaseRateLimit /\ k + 1 \in 1..Len(h)
  <2>1. CASE k < Len(h) - 1
    BY <1>1, <1>2, <2>1
  <2>2. CASE ~(k < Len(h) - 1)
    <3>1. PICK length \in Nat \ {0} : length = Len(h)
      BY <1>1
    <3>2. k \in 0..(length - 1) /\ ~(k < length - 1)
      BY <2>2, <3>1
    <3>3. k + 1 = length
      BY <3>2
    <3>4. h[Len(h)].age = 0
      BY DEF Recorded
    <3> QED
      BY <1>1, <1>3, <3>1, <3>3, <3>4
  <2> QED
    BY <2>1, <2>2
<1>5. ASSUME NEW j \in 1..Len(h) PROVE h[j].age <= DecreaseRateLimit <=> j > k
  <2>1. CASE j \in 1..k
    BY <1>1, <1>2, <1>3, <2>1
  <2>2. CASE j = k + 1
    BY <1>4, <2>2
  <2>3. CASE j > k + 1
    <3>1. h[k + 1].age >= h[j].age
      BY <1>1, <1>4, <2>3 DEF ByAge, Recorded
    <3>2. h[k + 1].age \in Nat /\ h[j].age \in Nat
      BY <1>1, <1>4
    <3> QED
      BY <1>3, <1>4, <2>3, <3>1, <3>2
  <2> QED
    BY <2>1, <2>2, <2>3
<1>6. SubSeq(h, k + 1, Len(h)) \in Seq(Record)
  BY <1>1
<1>7. SubSeq(h, k + 1, Len(h)) = [i \in 1..(Len(h) - k) |-> h[k + i]]
  BY <1>1, SubSeqFrom
<1> QED
  BY <1>2, <1>5, <1>6, <1>7 DEF TrimmedAt

(* The requests that are counted in what is kept are those of the history. *)
LEMMA CountKept ==
  ASSUME NEW h, Recorded(h), NEW k \in 0..(Len(h) - 1), TrimmedAt(h, k), NEW request
  PROVE  Count(Trim(h), request) = Cardinality({j \in (k + 1)..Len(h) : h[j].request = request})
<1> DEFINE S == {i \in 1..(Len(h) - k) : h[k + i].request = request}
           T == {j \in (k + 1)..Len(h) : h[j].request = request}
           f == [i \in S |-> k + i]
<1>1. Len(h) \in Nat /\ k \in Nat
  BY DEF Recorded
<1>3. {i \in DOMAIN Trim(h) : Trim(h)[i].request = request} = S
  <2>1. PICK kept : kept = Trim(h)
    OBVIOUS
  <2>2. kept = [i \in 1..(Len(h) - k) |-> h[k + i]]
    BY <2>1 DEF TrimmedAt
  <2>3. {i \in DOMAIN kept : kept[i].request = request} = S
    BY <2>2
  <2> QED
    BY <2>1, <2>3
<1>4. IsFiniteSet(S)
  <2>1. IsFiniteSet(1..(Len(h) - k))
    BY <1>1, FS_Interval
  <2> QED
    BY <2>1, FS_Subset
<1>5. f \in [S -> T]
  BY <1>1
<1>6. \A a, b \in S : f[a] = f[b] => a = b
  BY <1>1
<1>7. \A j \in T : \E i \in S : f[i] = j
  <2> SUFFICES ASSUME NEW j \in T PROVE \E i \in S : f[i] = j
    OBVIOUS
  <2>1. j - k \in 1..(Len(h) - k) /\ k + (j - k) = j
    BY <1>1
  <2>2. j - k \in S
    BY <2>1
  <2> QED
    BY <2>1, <2>2
<1> HIDE DEF S, T, f
<1>8. f \in Bijection(S, T)
  BY <1>5, <1>6, <1>7, Fun_IsBij
<1>9. ExistsBijection(S, T)
  BY <1>8, Fun_ExistsBij
<1>10. Cardinality(S) = Cardinality(T)
  BY <1>4, <1>9, FS_Bijection
<1> QED
  BY <1>3, <1>10 DEF Count, T

(* The window a request weighs on is that of Recent, and the request.      *)
LEMMA WeighedAreRecent ==
  ASSUME TypeOK, ByAge(history), NEW last \in ScaleRequest, NEW request
  PROVE  Count(Trim(Append(history, [request |-> last, age |-> 0])), request)
           = Cardinality(Recent(request)) + (IF request = last THEN 1 ELSE 0)
<1>1. PICK r : r = [request |-> last, age |-> 0]
  OBVIOUS
<1>2. r.request = last /\ r.age = 0 /\ r \in Record
  BY <1>1, RateLimitAssumption DEF Record, Horizon
<1>3. PICK h : h = Append(history, r)
  OBVIOUS
<1>4. PICK L \in Nat : L = Len(history)
  BY DEF TypeOK
<1>5. /\ history \in Seq(Record) /\ DOMAIN history = 1..L
      /\ h \in Seq(Record) /\ Len(h) = L + 1 /\ h[L + 1] = r
      /\ \A i \in 1..L : h[i] = history[i]
  BY <1>2, <1>3, <1>4 DEF TypeOK
<1>6. Recorded(h)
  BY <1>1, <1>3, RequestAppended
<1>7. PICK k \in 0..L : TrimmedAt(h, k)
  <2>1. 0..(Len(h) - 1) = 0..L
    BY <1>5
  <2> QED
    BY <1>6, <2>1, TrimKeepsRecent
<1>8. \A j \in 1..(L + 1) : h[j].age <= DecreaseRateLimit <=> j > k
  BY <1>5, <1>7 DEF TrimmedAt
<1> DEFINE T == {j \in (k + 1)..(L + 1) : h[j].request = request}
           U == Recent(request)
<1>9. Count(Trim(h), request) = Cardinality(T)
  <2>1. k \in 0..(Len(h) - 1)
    BY <1>5
  <2> QED
    BY <1>5, <1>6, <1>7, <2>1, CountKept
<1>10. U = {j \in 1..L : history[j].request = request /\ history[j].age <= DecreaseRateLimit}
  BY <1>5 DEF Recent
<1>11. \A j \in 1..L : j \in T <=> j \in U
  BY <1>5, <1>8, <1>10
<1>12. L + 1 \in T <=> request = last
  BY <1>2, <1>5
<1>13. T \subseteq 1..(L + 1) /\ U \subseteq 1..L
  BY <1>10
<1> HIDE DEF T, U
<1>14. IsFiniteSet(U) /\ L + 1 \notin U /\ Cardinality(U) \in Nat
  <2>1. IsFiniteSet(1..L)
    BY FS_Interval
  <2>2. U \in SUBSET (1..L) /\ L + 1 \notin U
    BY <1>13
  <2>3. IsFiniteSet(U)
    BY <2>1, <2>2, FS_Subset
  <2> QED
    BY <2>2, <2>3, FS_CardinalityType
<1>15. CASE request = last
  <2>1. T = U \cup {L + 1}
    <3>1. L + 1 \in T
      BY <1>12, <1>15
    <3>2. \A j \in 1..(L + 1) : j \in 1..L \/ j = L + 1
      OBVIOUS
    <3>3. \A j \in T : j \in U \/ j = L + 1
      BY <1>11, <1>13, <3>2
    <3>4. \A j \in U : j \in T
      BY <1>11, <1>13
    <3> QED
      BY <3>1, <3>3, <3>4
  <2>2. Cardinality(T) = Cardinality(U) + 1
    BY <1>14, <2>1, FS_AddElement
  <2> QED
    BY <1>1, <1>3, <1>9, <1>15, <2>2 DEF U
<1>16. CASE request # last
  <2>1. T = U
    <3>1. \A j \in 1..(L + 1) : j \in 1..L \/ j = L + 1
      OBVIOUS
    <3>2. \A j \in T : j \in U
      BY <1>11, <1>12, <1>13, <1>16, <3>1
    <3>3. \A j \in U : j \in T
      BY <1>11, <1>13
    <3> QED
      BY <3>2, <3>3
  <2>2. Cardinality(U) + 0 = Cardinality(U)
    BY <1>14
  <2> QED
    BY <1>1, <1>3, <1>9, <1>16, <2>1, <2>2 DEF U
<1> QED
  BY <1>15, <1>16

(* A request is recorded now, and what is kept with it is recent.          *)
LEMMA KeptAreRecent ==
  ASSUME TypeOK, ByAge(history), NEW last \in ScaleRequest, NEW t,
         t = Trim(Append(history, [request |-> last, age |-> 0]))
  PROVE  ByAge(t) /\ \A i \in DOMAIN t : t[i].age <= DecreaseRateLimit
<1>1. PICK h : h = Append(history, [request |-> last, age |-> 0])
  OBVIOUS
<1>2. Recorded(h)
  BY <1>1, RequestAppended
<1>3. PICK length \in Nat \ {0} : length = Len(h)
  BY <1>2 DEF Recorded
<1>4. PICK k \in 0..(length - 1) : TrimmedAt(h, k)
  BY <1>2, <1>3, TrimKeepsRecent
<1>5. /\ DOMAIN t = 1..(length - k)
      /\ \A i \in 1..(length - k) : t[i] = h[k + i]
  BY <1>1, <1>3, <1>4 DEF TrimmedAt
<1>6. \A i \in 1..(length - k) : k + i \in 1..length /\ k + i > k
  OBVIOUS
<1>7. \A i \in DOMAIN t : t[i].age <= DecreaseRateLimit
  BY <1>3, <1>4, <1>5, <1>6 DEF TrimmedAt
<1>8. ASSUME NEW i \in 1..(length - k), NEW j \in 1..(length - k), i < j
      PROVE  t[i].age >= t[j].age
  <2>1. k + i \in 1..length /\ k + j \in 1..length /\ k + i < k + j
    BY <1>8
  <2>2. h[k + i].age >= h[k + j].age
    BY <1>2, <1>3, <2>1 DEF ByAge, Recorded
  <2> QED
    BY <1>5, <2>2
<1> QED
  BY <1>5, <1>7, <1>8 DEF ByAge

(* Records get old together.                                               *)
LEMMA AgesKept ==
  ASSUME TypeOK, ByAge(history), [Next]_vars
  PROVE  ByAge(history)'
<1>1. /\ history \in Seq(Record) /\ Len(history) \in Nat /\ DOMAIN history = 1..Len(history)
      /\ \A i \in DOMAIN history : history[i] \in Record /\ history[i].age \in 0..Horizon
  <2>1. \A r \in Record : r.age \in 0..Horizon
    BY DEF Record
  <2>2. history \in Seq(Record)
    BY DEF TypeOK
  <2>3. \A i \in DOMAIN history : history[i] \in Record
    BY <2>2
  <2> QED
    BY <2>1, <2>2, <2>3
<1>2. DecreaseRateLimit \in Nat /\ Horizon \in Nat
  BY RateLimitAssumption DEF Horizon
<1>3. CASE Tick
  <2>1. \A i \in DOMAIN history : history'[i].age = Older(history[i].age)
    <3> SUFFICES ASSUME NEW i \in DOMAIN history PROVE history'[i].age = Older(history[i].age)
      OBVIOUS
    <3>1. history'[i] = [history[i] EXCEPT !.age = Older(history[i].age)]
      BY <1>3 DEF Tick
    <3> QED
      BY <1>1, <3>1 DEF Record
  <2>2. DOMAIN history' = DOMAIN history
    BY <1>3 DEF Tick
  <2>3. \A a, b \in 0..Horizon : a >= b => Older(a) >= Older(b)
    BY <1>2 DEF Older
  <2> QED
    BY <1>1, <2>1, <2>2, <2>3 DEF ByAge
<1>4. CASE history' = <<>>
  BY <1>4 DEF ByAge
<1>5. CASE UNCHANGED history
  BY <1>5 DEF ByAge
<1>6. ASSUME NEW request \in ScaleRequest
      PROVE ByAge(Append(history, [request |-> request, age |-> 0]))
  BY RequestAppended DEF Recorded
<1>7. ASSUME NEW request \in ScaleRequest, HeadStart(request) PROVE ByAge(history)'
  <2>1. \/ history' = Append(history, [request |-> request, age |-> 0])
        \/ history' = history
    BY <1>7 DEF HeadStart
  <2>2. CASE history' = Append(history, [request |-> request, age |-> 0])
    BY <1>6, <2>2 DEF ByAge
  <2> QED
    BY <1>5, <2>1, <2>2
<1>8. ASSUME NEW request \in ScaleRequest,
             history' = Trim(Append(history, [request |-> request, age |-> 0]))
      PROVE ByAge(history)'
  <2>1. PICK t : t = history'
    OBVIOUS
  <2>2. ByAge(t)
    BY <1>8, <2>1, KeptAreRecent
  <2> QED
    BY <2>1, <2>2 DEF ByAge
<1> QED
  BY <1>3, <1>4, <1>5, <1>7, <1>8
     DEF Next, HandleIncrease, IgnoreRequest, Weigh, Restart, vars

(* Scaler.ScaleDownJustified, for all limits: a worker is stopped for what *)
(* was recorded over the last DecreaseRateLimit, and always for it.        *)
THEOREM ScaleDownIsJustified == Spec => ScaleDownJustified
<1> DEFINE Justified ==
      /\ n' < n =>
          \E d \in {0, 1} :
            Unbalanced(Cardinality(Recent("ScaleDecrease")) + d,
                       Cardinality(Recent("ScaleSteady")) + 1 - d)
      /\ (/\ since >= DecreaseRateLimit
          /\ history' \notin {<<>>, history}
          /\ history'[Len(history')].age = 0) =>
          ~Unbalanced(Cardinality(Recent("ScaleDecrease")'),
                      Cardinality(Recent("ScaleSteady")'))
<1>1. TypeOK /\ LimitsInv /\ ByAge(history) /\ [Next]_vars => [Justified]_vars
  <2> SUFFICES ASSUME TypeOK, LimitsInv, ByAge(history), Next PROVE Justified
    OBVIOUS
  <2>1. n \in Nat /\ since \in Nat /\ IncreaseRateLimit \in Nat /\ DecreaseRateLimit \in Nat
    BY RateLimitAssumption DEF TypeOK, Horizon
  <2>2. CASE Tick
    <3>1. ~(n' < n)
      BY <2>1, <2>2 DEF Tick
    <3>2. history' # <<>> => history'[Len(history')].age # 0
      <4> SUFFICES ASSUME history' # <<>> PROVE history'[Len(history')].age # 0
        OBVIOUS
      <4>1. /\ history \in Seq(Record) /\ Len(history) \in Nat
            /\ DOMAIN history' = 1..Len(history)
        BY <2>2 DEF Tick, TypeOK
      <4>2. Len(history') = Len(history) /\ Len(history) # 0
        BY <2>2, <4>1 DEF Tick
      <4>3. Len(history) \in DOMAIN history /\ history[Len(history)] \in Record
        BY <4>1, <4>2
      <4>4. history'[Len(history)]
              = [history[Len(history)] EXCEPT !.age = Older(history[Len(history)].age)]
        BY <2>2, <4>3 DEF Tick
      <4>5. history[Len(history)].age \in 0..Horizon
        BY <4>3 DEF Record
      <4>6. history'[Len(history)].age = Older(history[Len(history)].age)
        BY <4>3, <4>4 DEF Record
      <4> QED
        BY <2>1, <4>2, <4>5, <4>6 DEF Older, Horizon
    <3> QED
      BY <3>1, <3>2
  <2>3. CASE HandleIncrease
    <3>1. ~(n' < n)
      <4>1. nextWorkerCount(fsm, "ScaleIncrease", n) \in Nat
        BY IncreaseBounds DEF LimitsInv
      <4> QED
        BY <2>1, <2>3, <4>1 DEF HandleIncrease, Scale
    <3>2. history' = <<>>
      BY <2>3 DEF HandleIncrease, Restart
    <3> QED
      BY <3>1, <3>2
  <2>4. ASSUME NEW request \in ScaleRequest, IgnoreRequest(request) PROVE Justified
    BY <2>1, <2>4 DEF IgnoreRequest, vars
  <2>5. ASSUME NEW request \in ScaleRequest, HeadStart(request) PROVE Justified
    BY <2>1, <2>5 DEF HeadStart
  <2>6. ASSUME NEW request \in ScaleRequest, Weigh(request) PROVE Justified
    <3> DEFINE h == Trim(Append(history, [request |-> request, age |-> 0]))
    <3>1. request \in {"ScaleDecrease", "ScaleSteady"}
      BY <2>6 DEF Weigh, ScaleRequest
    <3>2. /\ Count(h, "ScaleDecrease")
               = Cardinality(Recent("ScaleDecrease")) + (IF request = "ScaleDecrease" THEN 1 ELSE 0)
          /\ Count(h, "ScaleSteady")
               = Cardinality(Recent("ScaleSteady")) + (IF request = "ScaleSteady" THEN 1 ELSE 0)
      BY WeighedAreRecent
    <3>3. \A q : Cardinality(Recent(q)) \in Nat
      <4> SUFFICES ASSUME NEW q PROVE Cardinality(Recent(q)) \in Nat
        OBVIOUS
      <4>1. DOMAIN history = 1..Len(history) /\ Len(history) \in Nat
        BY DEF TypeOK
      <4>2. IsFiniteSet(1..Len(history)) /\ Recent(q) \subseteq 1..Len(history)
        BY <4>1, FS_Interval DEF Recent
      <4> QED
        BY <4>2, FS_Subset, FS_CardinalityType
    <3>4. CASE TooManyDecreases(h)
      <4>1. history' = <<>>
        BY <2>6, <3>4 DEF Weigh, Restart
      <4>2. Unbalanced(Count(h, "ScaleDecrease"), Count(h, "ScaleSteady"))
        BY <3>4 DEF TooManyDecreases, Unbalanced
      <4> HIDE DEF h
      <4>3. CASE request = "ScaleDecrease"
        <5>1. /\ Count(h, "ScaleDecrease") = Cardinality(Recent("ScaleDecrease")) + 1
              /\ Count(h, "ScaleSteady") = Cardinality(Recent("ScaleSteady"))
          BY <3>2, <3>3, <4>3
        <5>2. Cardinality(Recent("ScaleSteady")) = Cardinality(Recent("ScaleSteady")) + 1 - 1
          BY <3>3
        <5> QED
          BY <4>1, <4>2, <5>1, <5>2
      <4>4. CASE request = "ScaleSteady"
        <5>1. /\ Count(h, "ScaleDecrease") = Cardinality(Recent("ScaleDecrease"))
              /\ Count(h, "ScaleSteady") = Cardinality(Recent("ScaleSteady")) + 1
          BY <3>2, <3>3, <4>4
        <5>2. /\ Cardinality(Recent("ScaleDecrease")) + 0 = Cardinality(Recent("ScaleDecrease"))
              /\ Cardinality(Recent("ScaleSteady")) + 1 - 0 = Cardinality(Recent("ScaleSteady")) + 1
          BY <3>3
        <5> QED
          BY <4>1, <4>2, <5>1, <5>2
      <4> QED
        BY <3>1, <4>3, <4>4
    <3>5. CASE ~TooManyDecreases(h)
      <4>1. history' = h /\ n' = n
        BY <2>6, <3>5 DEF Weigh
      <4>2. ASSUME NEW q PROVE Recent(q)' = {i \in DOMAIN h : h[i].request = q}
        <5>1. \A i \in DOMAIN h : h[i].age <= DecreaseRateLimit
          BY KeptAreRecent
        <5> HIDE DEF h
        <5> QED
          BY <4>1, <5>1 DEF Recent
      <4>3. \A q : Cardinality(Recent(q)') = Count(h, q)
        BY <4>2 DEF Count
      <4>4. ~Unbalanced(Count(h, "ScaleDecrease"), Count(h, "ScaleSteady"))
        BY <3>5 DEF TooManyDecreases, Unbalanced
      <4>5. ~(n' < n)
        BY <2>1, <4>1
      <4> HIDE DEF h
      <4> QED
        BY <4>3, <4>4, <4>5
    <3> QED
      BY <3>4, <3>5
  <2> QED
    BY <2>2, <2>3, <2>4, <2>5, <2>6 DEF Next
<1>2. TypeOK /\ ByAge(history) /\ [Next]_vars => ByAge(history)'
  BY AgesKept
<1>3. CountSpec => []LimitsInv
  <2>1. CountInit => LimitsInv
    BY WorkersAssumption DEF CountInit, LimitsInv, WorkersBounded, ScalerState, max
  <2>2. LimitsInv /\ [CountNext]_<<fsm, n>> => LimitsInv'
    BY CountStep
  <2> QED
    BY <2>1, <2>2, PTL DEF CountSpec
<1> QED
  BY <1>1, <1>2, <1>3, AgesInit, ScalerTypeOK, ScalerStepsCount, PTL
     DEF Spec, ScaleDownJustified

-----------------------------------------------------------------------------
(* The pool of workers                                                     *)
(* Types, by the goroutines that change them.                              *)
StarterType ==
  /\ starter \in {"waiting", "running", "returned", "failed"}
  /\ toStart \in 0..MinWorkers
  /\ n \in Nat
  /\ muOwner \in {"none", "scaler", "stopper"}

ScalerType ==
  /\ ch \in Seq(ScaleRequest) /\ Len(ch) <= MaxWorkers
  /\ fsm \in ScalerState
  /\ scaler \in {"select", "ScaleIncrease", "ScaleDecrease", "scale",
                 "stopOneWorker", "exited"}
  /\ toScale \in (-MaxWorkers)..MaxWorkers

WorkerPc == {"none", "poll", "process", "Flush", "shutdown", "shutdownErr", "done"} \cup ScaleRequest

WorkerType ==
  /\ worker \in [PoolWorkers -> WorkerPc]
  /\ flows \in [PoolWorkers -> 0..FlowsPerRecord]
  /\ rows \in [PoolWorkers -> 0..FullBatch]
  /\ stopCalled \subseteq PoolWorkers

StopType ==
  /\ exiting \in [PoolWorkers -> {"no", "nil", "err"}]
  /\ dying \in BOOLEAN /\ dead \in BOOLEAN /\ panicked \in BOOLEAN
  /\ stopper \in {"run", "core", "lock", "StopWorkers", "Kill", "Wait",
                  "lockAgain", "StopWorkersAgain", "stopped"}
  /\ stopping \in 0..(MinWorkers + MaxWorkers + 1)

TypeInv == StarterType /\ ScalerType /\ WorkerType /\ StopType

(* The scaler acts on what it has decided, and holds workerMu while it     *)
(* waits for a worker.                                                     *)
ScalerInv ==
  /\ scaler \in {"scale", "stopOneWorker"} <=> toScale # 0
  /\ scaler = "stopOneWorker" => toScale < 0
  /\ muOwner = "scaler" <=> scaler = "stopOneWorker"
  /\ muOwner = "stopper" <=> stopper \in {"StopWorkers", "StopWorkersAgain"}

(* The workers there are and those to come: StartWorkers has started one   *)
(* at least when the scaler is asked for others.                           *)
CountInv ==
  /\ n + toStart + max(0, toScale) <= MaxWorkers + (MinWorkers - 1)
  /\ toScale < 0 => MinWorkers <= n + toScale
  /\ toStart = MinWorkers => n = 0 /\ ch = <<>> /\ scaler \in {"select", "exited"}

(* A worker with a flow to deal with.                                      *)
FlowsInv ==
  \A w \in PoolWorkers : worker[w] \in {"process", "Flush"} \cup ScaleRequest => flows[w] > 0

ListedInv == \A w \in PoolWorkers : Running(w) => w <= n

(* Nothing runs in a tomb that is dead, and the second StopWorkers is only *)
(* called for such a tomb.                                                 *)
DeadInv ==
  /\ dead => \A w \in PoolWorkers : ~ Running(w) /\ exiting[w] = "no"
  /\ stopper \in {"lockAgain", "StopWorkersAgain", "stopped"} => dead

(* StopWorkers is not further than the last worker.                        *)
StoppingInv == muOwner = "stopper" => stopping <= n + 1

IInv ==
  TypeInv /\ ScalerInv /\ CountInv /\ FlowsInv /\ ListedInv /\ DeadInv /\ StoppingInv

-----------------------------------------------------------------------------
LEMMA CountIsBounded ==
  ASSUME IInv
  PROVE  /\ n \in Nat /\ n <= MaxWorkers + (MinWorkers - 1)
         /\ toStart > 0 \/ toScale > 0 => n + 1 \in PoolWorkers
<1>1. /\ n \in Nat /\ toStart \in Nat /\ toScale \in Int
      /\ MinWorkers \in Nat \ {0} /\ MaxWorkers \in Nat \ {0}
  BY WorkersAssumption DEF IInv, TypeInv, StarterType, ScalerType
<1>2. n + toStart + max(0, toScale) <= MaxWorkers + (MinWorkers - 1)
  BY DEF IInv, CountInv
<1> QED
  BY <1>1, <1>2 DEF max, PoolWorkers

LEMMA InvRight == IInv => PoolRight
<1> SUFFICES ASSUME IInv PROVE PoolRight
  OBVIOUS
<1>1. PoolTypeOK
  <2>1. n \in 0..(MinWorkers + MaxWorkers)
    BY CountIsBounded, WorkersAssumption
  <2> QED
    BY <2>1 DEF PoolTypeOK, IInv, TypeInv, StarterType, ScalerType, WorkerType, StopType, WorkerPc
<1>2. RunningWorkersListed
  BY DEF RunningWorkersListed, IInv, ListedInv
<1>3. StoppedIsQuiet
  BY DEF StoppedIsQuiet, IInv, DeadInv
<1>4. WorkersCapped
  BY CountIsBounded DEF WorkersCapped
<1> QED
  BY <1>1, <1>2, <1>3, <1>4 DEF PoolRight

LEMMA InitInv == PoolInit => IInv
<1> SUFFICES ASSUME PoolInit PROVE IInv
  OBVIOUS
<1>1. TypeInv
  <2>1. MinWorkers \in Nat \ {0} /\ MaxWorkers \in Nat \ {0}
    BY WorkersAssumption
  <2>2. FlowsPerRecord \in Nat /\ FullBatch \in Nat
    BY PoolAssumption
  <2>3. StarterType
    BY <2>1 DEF PoolInit, StarterType
  <2>4. ScalerType
    <3>1. ch \in Seq(ScaleRequest) /\ Len(ch) = 0
      BY DEF PoolInit
    <3>2. 0 \in (-MaxWorkers)..MaxWorkers
      BY <2>1
    <3>3. Len(ch) <= MaxWorkers
      BY <2>1, <3>1
    <3> QED
      BY <3>1, <3>2, <3>3 DEF PoolInit, ScalerType, ScalerState
  <2>5. WorkerType
    <3>1. "none" \in WorkerPc /\ 0 \in 0..FlowsPerRecord /\ 0 \in 0..FullBatch
      BY <2>2 DEF WorkerPc
    <3> QED
      BY <3>1 DEF PoolInit, WorkerType
  <2>6. StopType
    <3>1. 0 \in 0..(MinWorkers + MaxWorkers + 1)
      BY <2>1
    <3> QED
      BY <3>1 DEF PoolInit, StopType
  <2> QED
    BY <2>3, <2>4, <2>5, <2>6 DEF TypeInv
<1>2. CountInv
  BY WorkersAssumption DEF PoolInit, CountInv, max
<1> QED
  BY <1>1, <1>2 DEF PoolInit, IInv, ScalerInv, FlowsInv, ListedInv, DeadInv, StoppingInv, Running,
                    ScaleRequest

-----------------------------------------------------------------------------
LEMMA FrameInv ==
  ASSUME IInv, UNCHANGED allPoolVars
  PROVE  IInv'
BY DEF IInv, TypeInv, StarterType, ScalerType, WorkerType, StopType, ScalerInv, CountInv, FlowsInv,
       ListedInv, DeadInv, StoppingInv, Running, allPoolVars, poolVars, scalerVars, poolWorkerVars,
       tombVars, stopVars

(* A worker that runs goes on, and may send a request.                     *)
LEMMA WorkerGoesOn ==
  ASSUME IInv, NEW w \in PoolWorkers, Running(w),
         NEW pc \in WorkerPc, NEW f \in 0..FlowsPerRecord, NEW r \in 0..FullBatch,
         pc \in {"process", "Flush"} \cup ScaleRequest => f > 0,
         worker' = [worker EXCEPT ![w] = pc],
         flows' = [flows EXCEPT ![w] = f], rows' = [rows EXCEPT ![w] = r],
         ch' \in Seq(ScaleRequest), Len(ch') <= MaxWorkers,
         UNCHANGED <<stopCalled, poolVars, scalerVars, tombVars, stopVars, panicked>>
  PROVE  IInv'
<1>1. UNCHANGED <<starter, toStart, n, muOwner, fsm, scaler, toScale, stopCalled, exiting, dying,
                  dead, stopper, stopping, panicked>>
  BY DEF poolVars, scalerVars, tombVars, stopVars
<1>2. TypeInv'
  <2>1. WorkerType'
    BY <1>1 DEF IInv, TypeInv, WorkerType
  <2>2. ScalerType'
    BY <1>1 DEF IInv, TypeInv, ScalerType
  <2> QED
    BY <1>1, <2>1, <2>2 DEF IInv, TypeInv, StarterType, StopType
<1>3. n # 0 /\ ~ dead
  <2>1. w \in Nat /\ w > 0
    BY WorkersAssumption DEF PoolWorkers
  <2>2. w <= n /\ n \in Nat
    BY DEF IInv, ListedInv, TypeInv, StarterType
  <2> QED
    BY <2>1, <2>2 DEF IInv, DeadInv
<1>4. \A v \in PoolWorkers : /\ worker'[v] = IF v = w THEN pc ELSE worker[v]
                             /\ flows'[v] = IF v = w THEN f ELSE flows[v]
  BY DEF IInv, TypeInv, WorkerType
<1>5. ScalerInv' /\ CountInv' /\ StoppingInv'
  BY <1>1, <1>3 DEF IInv, ScalerInv, CountInv, StoppingInv
<1>6. FlowsInv' /\ ListedInv' /\ DeadInv'
  BY <1>1, <1>3, <1>4 DEF IInv, FlowsInv, ListedInv, DeadInv, Running
<1> QED
  BY <1>2, <1>5, <1>6 DEF IInv

(* What does not change is changed to what it was.                         *)
LEMMA WorkerFacts ==
  ASSUME IInv, NEW w \in PoolWorkers
  PROVE  /\ worker = [worker EXCEPT ![w] = worker[w]] /\ flows = [flows EXCEPT ![w] = flows[w]]
         /\ rows = [rows EXCEPT ![w] = rows[w]]
         /\ worker[w] \in WorkerPc /\ flows[w] \in 0..FlowsPerRecord /\ rows[w] \in 0..FullBatch
         /\ ch \in Seq(ScaleRequest) /\ Len(ch) <= MaxWorkers
         /\ FlowsPerRecord \in Nat \ {0} /\ FullBatch \in Nat \ {0} /\ 0 \in 0..FullBatch
BY PoolAssumption DEF IInv, TypeInv, WorkerType, ScalerType

LEMMA PollRecordInv ==
  ASSUME IInv, NEW w \in PoolWorkers, PollRecord(w)
  PROVE  IInv'
<1>1. Running(w) /\ "process" \in WorkerPc /\ FlowsPerRecord \in 0..FlowsPerRecord
      /\ FlowsPerRecord > 0
  BY WorkerFacts DEF PollRecord, Running, WorkerPc
<1>2. rows' = [rows EXCEPT ![w] = rows[w]] /\ ch' = ch
  BY WorkerFacts DEF PollRecord
<1> QED
  BY <1>1, <1>2, WorkerFacts, WorkerGoesOn DEF PollRecord, workerIdle

LEMMA EndPoolLoopInv ==
  ASSUME IInv, NEW w \in PoolWorkers, EndPoolLoop(w)
  PROVE  IInv'
<1>1. PICK pc \in {"shutdown", "shutdownErr"} : worker' = [worker EXCEPT ![w] = pc]
  BY DEF EndPoolLoop
<1>2. Running(w) /\ pc \in WorkerPc /\ pc \notin {"process", "Flush"} \cup ScaleRequest
  BY DEF EndPoolLoop, Running, WorkerPc, ScaleRequest
<1>3. flows' = [flows EXCEPT ![w] = flows[w]] /\ rows' = [rows EXCEPT ![w] = rows[w]] /\ ch' = ch
  BY WorkerFacts DEF EndPoolLoop
<1>4. UNCHANGED <<stopCalled, poolVars, scalerVars, tombVars, stopVars, panicked>>
  BY DEF EndPoolLoop, workerIdle
<1> QED
  BY <1>1, <1>2, <1>3, <1>4, WorkerFacts, WorkerGoesOn

(* A flow was dealt with.                                                  *)
LEMMA AfterFlowGoesOn ==
  ASSUME IInv, NEW w \in PoolWorkers, worker[w] \in {"process", "Flush"} \cup ScaleRequest
  PROVE  /\ Running(w) /\ flows[w] - 1 \in 0..FlowsPerRecord
         /\ AfterFlow(w) \in WorkerPc
         /\ AfterFlow(w) \in {"process", "Flush"} \cup ScaleRequest => flows[w] - 1 > 0
<1>1. flows[w] > 0 /\ flows[w] \in 0..FlowsPerRecord /\ FlowsPerRecord \in Nat
  BY WorkerFacts DEF IInv, FlowsInv
<1> QED
  BY <1>1 DEF Running, AfterFlow, WorkerPc, ScaleRequest

LEMMA processIncomingFlowInv ==
  ASSUME IInv, NEW w \in PoolWorkers, processIncomingFlow(w)
  PROVE  IInv'
<1>0. /\ worker[w] = "process" /\ ch' = ch
      /\ UNCHANGED <<stopCalled, poolVars, scalerVars, tombVars, stopVars, panicked>>
  BY DEF processIncomingFlow, workerIdle
<1> DEFINE pc == AfterFlow(w)
           f == flows[w] - 1
<1>a. /\ Running(w) /\ f \in 0..FlowsPerRecord /\ pc \in WorkerPc
      /\ pc \in {"process", "Flush"} \cup ScaleRequest => f > 0
  BY <1>0, AfterFlowGoesOn
<1>b. /\ rows[w] \in 0..FullBatch /\ FullBatch \in Nat
      /\ ch' \in Seq(ScaleRequest) /\ Len(ch') <= MaxWorkers
  BY <1>0, WorkerFacts
<1>1. CASE /\ worker' = [worker EXCEPT ![w] = AfterFlow(w)]
           /\ flows' = [flows EXCEPT ![w] = @ - 1]
           /\ UNCHANGED rows
  <2>1. /\ rows' = [rows EXCEPT ![w] = rows[w]] /\ worker' = [worker EXCEPT ![w] = pc]
        /\ flows' = [flows EXCEPT ![w] = f]
    BY <1>1, WorkerFacts
  <2> QED
    <3> HIDE DEF pc, f
    <3> QED
      BY <1>0, <1>a, <1>b, <2>1, WorkerGoesOn
<1>2. CASE /\ rows[w] + 1 < FullBatch
           /\ rows' = [rows EXCEPT ![w] = @ + 1]
           /\ worker' = [worker EXCEPT ![w] = AfterFlow(w)]
           /\ flows' = [flows EXCEPT ![w] = @ - 1]
  <2> DEFINE r == rows[w] + 1
  <2>1. r \in 0..FullBatch
    BY <1>2, <1>b
  <2>2. /\ rows' = [rows EXCEPT ![w] = r] /\ worker' = [worker EXCEPT ![w] = pc]
        /\ flows' = [flows EXCEPT ![w] = f]
    BY <1>2
  <2> QED
    <3> HIDE DEF pc, f, r
    <3> QED
      BY <1>0, <1>a, <1>b, <2>1, <2>2, WorkerGoesOn
<1>3. CASE /\ rows' = [rows EXCEPT ![w] = min(FullBatch, @ + 1)]
           /\ worker' = [worker EXCEPT ![w] = "Flush"]
           /\ UNCHANGED flows
  <2> DEFINE r == min(FullBatch, rows[w] + 1)
  <2>1. r \in 0..FullBatch
    BY <1>b DEF min
  <2>2. flows' = [flows EXCEPT ![w] = flows[w]] /\ flows[w] \in 0..FlowsPerRecord
    BY <1>3, WorkerFacts
  <2>3. flows[w] > 0 /\ "Flush" \in WorkerPc
    BY <1>0 DEF IInv, FlowsInv, WorkerPc
  <2>4. worker' = [worker EXCEPT ![w] = "Flush"] /\ rows' = [rows EXCEPT ![w] = r]
    BY <1>3
  <2> QED
    <3> HIDE DEF r
    <3> QED
      BY <1>0, <1>a, <1>b, <2>1, <2>2, <2>3, <2>4, WorkerGoesOn
<1> QED
  BY <1>1, <1>2, <1>3 DEF processIncomingFlow

LEMMA FlushInv ==
  ASSUME IInv, NEW w \in PoolWorkers, FlushInsert(w) \/ FlushGiveUp(w)
  PROVE  IInv'
<1>0. /\ worker[w] = "Flush" /\ ch' = ch /\ UNCHANGED <<flows, stopCalled, workerIdle>>
      /\ worker' = [worker EXCEPT ![w] = Status(rows[w])]
  BY DEF FlushInsert, FlushGiveUp
<1>1. Running(w) /\ flows' = [flows EXCEPT ![w] = flows[w]] /\ flows[w] > 0
  BY <1>0, WorkerFacts DEF IInv, FlowsInv, Running
<1>2. Status(rows[w]) \in WorkerPc
  BY DEF Status, WorkerPc, ScaleRequest
<1>3. PICK r \in 0..FullBatch : rows' = [rows EXCEPT ![w] = r]
  BY WorkerFacts DEF FlushInsert, FlushGiveUp
<1> QED
  BY <1>0, <1>1, <1>2, <1>3, WorkerFacts, WorkerGoesOn DEF workerIdle

LEMMA SendRequestInv ==
  ASSUME IInv, NEW w \in PoolWorkers, SendRequest(w)
  PROVE  IInv'
<1>1. /\ worker[w] \in ScaleRequest /\ Len(ch) < MaxWorkers /\ ch' = Append(ch, worker[w])
      /\ worker' = [worker EXCEPT ![w] = AfterFlow(w)]
      /\ flows' = [flows EXCEPT ![w] = flows[w] - 1]
      /\ UNCHANGED <<rows, stopCalled, workerIdle>>
  BY DEF SendRequest
<1>2. rows' = [rows EXCEPT ![w] = rows[w]]
  BY <1>1, WorkerFacts
<1>3. ch' \in Seq(ScaleRequest) /\ Len(ch') <= MaxWorkers
  BY <1>1, WorkerFacts, WorkersAssumption
<1> QED
  BY <1>1, <1>2, <1>3, AfterFlowGoesOn, WorkerFacts, WorkerGoesOn DEF workerIdle

LEMMA ShutdownInv ==
  ASSUME IInv, NEW w \in PoolWorkers, Shutdown(w)
  PROVE  IInv'
<1>1. UNCHANGED <<starter, toStart, n, muOwner, ch, fsm, scaler, toScale, flows, stopCalled, dying,
                  dead, stopper, stopping, panicked>>
  BY DEF Shutdown, poolVars, scalerVars, stopVars
<1>2. PICK result \in {"nil", "err"} : exiting' = [exiting EXCEPT ![w] = result]
  BY DEF Shutdown
<1>3. /\ worker' = [worker EXCEPT ![w] = "done"] /\ rows' = [rows EXCEPT ![w] = 0]
      /\ Running(w) /\ ~ dead
  BY DEF Shutdown, Running, IInv, DeadInv
<1>4. TypeInv'
  <2>1. "done" \in WorkerPc /\ 0 \in 0..FullBatch
    BY WorkerFacts DEF WorkerPc
  <2>2. WorkerType'
    BY <1>1, <1>3, <2>1 DEF IInv, TypeInv, WorkerType
  <2>3. StopType'
    BY <1>1, <1>2 DEF IInv, TypeInv, StopType
  <2> QED
    BY <1>1, <2>2, <2>3 DEF IInv, TypeInv, StarterType, ScalerType
<1>5. \A v \in PoolWorkers : worker'[v] = IF v = w THEN "done" ELSE worker[v]
  BY <1>3 DEF IInv, TypeInv, WorkerType
<1>6. ScalerInv' /\ CountInv' /\ StoppingInv'
  BY <1>1 DEF IInv, ScalerInv, CountInv, StoppingInv
<1>7. FlowsInv' /\ ListedInv' /\ DeadInv'
  BY <1>1, <1>3, <1>5 DEF IInv, FlowsInv, ListedInv, DeadInv, Running, ScaleRequest
<1> QED
  BY <1>4, <1>6, <1>7 DEF IInv

LEMMA TombRunInv ==
  ASSUME IInv, NEW w \in PoolWorkers, TombRun(w)
  PROVE  IInv'
<1>1. UNCHANGED <<starter, toStart, n, muOwner, ch, fsm, scaler, toScale, worker, flows, rows,
                  stopCalled, stopper, stopping, panicked>>
  BY DEF TombRun, poolVars, scalerVars, poolWorkerVars, stopVars
<1>2. TypeInv'
  <2>1. exiting' \in [PoolWorkers -> {"no", "nil", "err"}] /\ dying' \in BOOLEAN /\ dead' \in BOOLEAN
    BY DEF TombRun, IInv, TypeInv, StopType
  <2> QED
    BY <1>1, <2>1 DEF IInv, TypeInv, StarterType, ScalerType, WorkerType, StopType
<1>3. ~ dead /\ exiting[w] # "no"
  BY DEF TombRun, IInv, DeadInv
<1>4. DeadInv'
  <2>1. dead' => \A v \in PoolWorkers : ~ Running(v) /\ exiting'[v] = "no"
    BY DEF TombRun
  <2> QED
    BY <1>1, <1>3, <2>1 DEF IInv, DeadInv, Running
<1>5. ScalerInv' /\ CountInv' /\ StoppingInv' /\ FlowsInv' /\ ListedInv'
  BY <1>1 DEF IInv, ScalerInv, CountInv, StoppingInv, FlowsInv, ListedInv, Running
<1> QED
  BY <1>2, <1>4, <1>5 DEF IInv

-----------------------------------------------------------------------------
(* Another worker has been asked for, by StartWorkers or by the scaler:    *)
(* the goroutine is listed, or the process crashes.                        *)
LEMMA StartedType ==
  ASSUME IInv, startPoolWorker, toStart > 0 \/ toScale > 0
  PROVE  /\ n' \in {n, n + 1} /\ n' \in Nat
         /\ WorkerType' /\ FlowsInv' /\ ListedInv'
         /\ UNCHANGED <<exiting, dying, dead>> /\ panicked' \in BOOLEAN
         /\ dead => n' = n /\ worker' = worker
<1>1. n \in Nat /\ n + 1 \in PoolWorkers
  BY CountIsBounded
<1>2. CASE dead
  <2>1. UNCHANGED <<n, worker, flows, rows, stopCalled, exiting, dying, dead>> /\ panicked' = TRUE
    BY <1>2 DEF startPoolWorker, poolWorkerVars, tombVars
  <2> QED
    BY <1>1, <2>1 DEF IInv, TypeInv, WorkerType, FlowsInv, ListedInv, Running
<1>3. CASE ~ dead
  <2>1. /\ n' = n + 1
        /\ worker' = [worker EXCEPT ![n + 1] = "poll"]
        /\ flows' = [flows EXCEPT ![n + 1] = 0]
        /\ rows' = [rows EXCEPT ![n + 1] = 0]
        /\ stopCalled' = stopCalled \ {n + 1}
        /\ UNCHANGED <<exiting, dying, dead, panicked>>
    BY <1>3 DEF startPoolWorker, tombVars
  <2>2. "poll" \in WorkerPc /\ 0 \in 0..FullBatch /\ 0 \in 0..FlowsPerRecord
    BY PoolAssumption DEF WorkerPc
  <2>3. WorkerType'
    BY <2>1, <2>2 DEF IInv, TypeInv, WorkerType
  <2>4. \A v \in PoolWorkers : /\ worker'[v] = IF v = n + 1 THEN "poll" ELSE worker[v]
                               /\ v # n + 1 => flows'[v] = flows[v]
    BY <2>1 DEF IInv, TypeInv, WorkerType
  <2>5. FlowsInv'
    BY <2>4 DEF IInv, FlowsInv, ScaleRequest
  <2>6. ListedInv'
    <3> SUFFICES ASSUME NEW v \in PoolWorkers, Running(v)' PROVE v <= n'
      BY DEF ListedInv
    <3>1. v = n + 1 \/ v <= n
      BY <2>4 DEF IInv, ListedInv, Running
    <3>2. v \in Int
      BY WorkersAssumption DEF PoolWorkers
    <3> QED
      BY <1>1, <2>1, <3>1, <3>2
  <2> QED
    BY <1>1, <1>3, <2>1, <2>3, <2>5, <2>6 DEF IInv, TypeInv, StopType
<1> QED
  BY <1>2, <1>3

LEMMA StartupDelayInv ==
  ASSUME IInv, StartupDelay
  PROVE  IInv'
<1>1. /\ UNCHANGED <<toStart, n, muOwner, ch, fsm, scaler, toScale, worker, flows, rows, stopCalled,
                     exiting, dying, dead, stopper, stopping, panicked>>
      /\ starter' \in {"running", "returned"}
  BY DEF StartupDelay, scalerVars, poolWorkerVars, tombVars, stopVars
<1> QED
  BY <1>1 DEF IInv, TypeInv, StarterType, ScalerType, WorkerType, StopType, ScalerInv, CountInv,
              FlowsInv, ListedInv, DeadInv, StoppingInv, Running

LEMMA StartWorkersInv ==
  ASSUME IInv, StartWorkers
  PROVE  IInv'
<1>1. UNCHANGED <<muOwner, ch, fsm, scaler, toScale, stopper, stopping>>
  BY DEF StartWorkers, scalerVars, stopVars
<1>2. CASE toStart > 0 /\ startPoolWorker /\ toStart' = toStart - 1 /\ UNCHANGED starter
  <2>1. /\ n' \in {n, n + 1} /\ n' \in Nat
        /\ WorkerType' /\ FlowsInv' /\ ListedInv'
        /\ UNCHANGED <<exiting, dying, dead>> /\ panicked' \in BOOLEAN
        /\ dead => n' = n /\ worker' = worker
    BY <1>2, StartedType
  <2>2. /\ toStart \in 0..MinWorkers /\ toStart' \in 0..MinWorkers /\ toStart' # MinWorkers
        /\ MinWorkers \in Nat /\ MaxWorkers \in Nat
    BY <1>2, WorkersAssumption DEF IInv, TypeInv, StarterType
  <2>3. TypeInv'
    <3>1. StarterType'
      BY <1>1, <1>2, <2>1, <2>2 DEF IInv, TypeInv, StarterType
    <3>2. ScalerType' /\ StopType'
      BY <1>1, <2>1 DEF IInv, TypeInv, ScalerType, StopType
    <3> QED
      BY <2>1, <3>1, <3>2 DEF TypeInv
  <2>4. CountInv'
    <3>1. n \in Nat /\ toScale \in Int
      BY DEF IInv, TypeInv, StarterType, ScalerType
    <3>2. max(0, toScale) \in Int
      BY <3>1 DEF max
    <3>3. n' + toStart' + max(0, toScale) <= MaxWorkers + (MinWorkers - 1)
      BY <1>2, <2>1, <2>2, <3>1, <3>2 DEF IInv, CountInv
    <3>4. toScale < 0 => MinWorkers <= n' + toScale
      <4>1. toScale < 0 => MinWorkers <= n + toScale
        BY DEF IInv, CountInv
      <4>2. n' = n \/ n' = n + 1
        BY <2>1
      <4>3. MinWorkers \in Nat
        BY <2>2
      <4> QED
        BY <3>1, <4>1, <4>2, <4>3
    <3> QED
      BY <1>1, <2>2, <3>3, <3>4 DEF CountInv
  <2>5. ScalerInv' /\ StoppingInv'
    BY <1>1, <1>2 DEF IInv, ScalerInv, StoppingInv, startPoolWorker
  <2>6. DeadInv'
    BY <1>1, <2>1 DEF IInv, DeadInv, Running
  <2> QED
    BY <2>1, <2>3, <2>4, <2>5, <2>6 DEF IInv
<1>3. CASE /\ UNCHANGED <<toStart, n, worker, flows, rows, stopCalled, exiting, dying, dead, panicked>>
           /\ starter' \in {"failed", "returned"}
  BY <1>1, <1>3 DEF IInv, TypeInv, StarterType, ScalerType, WorkerType, StopType, ScalerInv,
                    CountInv, FlowsInv, ListedInv, DeadInv, StoppingInv, Running
<1> QED
  BY <1>2, <1>3 DEF StartWorkers, clientError, poolWorkerVars, tombVars

-----------------------------------------------------------------------------
(* Only the scaler moves.                                                  *)
LEMMA ScalerMoves ==
  ASSUME IInv, ScalerType', ScalerInv', CountInv',
         UNCHANGED <<starter, toStart, n, muOwner, worker, flows, rows, stopCalled, exiting, dying,
                     dead, stopper, stopping, panicked>>
  PROVE  IInv'
BY DEF IInv, TypeInv, StarterType, WorkerType, StopType, FlowsInv, ListedInv, DeadInv, StoppingInv,
       Running

LEMMA ScalerIdles ==
  ASSUME scalerIdle' = scalerIdle
  PROVE  UNCHANGED <<starter, toStart, n, muOwner, worker, flows, rows, stopCalled, exiting, dying,
                     dead, stopper, stopping, panicked>>
BY DEF scalerIdle, poolVars, poolWorkerVars, tombVars, stopVars

LEMMA ReceiveType ==
  ASSUME IInv, ch # <<>>, ch' = Tail(ch)
  PROVE  ch' \in Seq(ScaleRequest) /\ Len(ch') <= MaxWorkers
<1>1. ch \in Seq(ScaleRequest) /\ Len(ch) <= MaxWorkers /\ MaxWorkers \in Nat
  BY WorkersAssumption DEF IInv, TypeInv, ScalerType
<1>2. Len(Tail(ch)) = Len(ch) - 1 /\ Tail(ch) \in Seq(ScaleRequest) /\ Len(ch) \in Nat
  BY <1>1
<1> QED
  BY <1>1, <1>2

LEMMA ScalerSelectInv ==
  ASSUME IInv, ScalerContextDone \/ ScalerReceive \/ scaleWhileDraining
  PROVE  IInv'
<1>1. /\ UNCHANGED <<starter, toStart, n, muOwner, worker, flows, rows, stopCalled, exiting, dying,
                     dead, stopper, stopping, panicked>>
      /\ UNCHANGED <<fsm, toScale>>
  BY ScalerIdles DEF ScalerContextDone, ScalerReceive, scaleWhileDraining, scalerVars
<1>2. \/ ch' = ch
      \/ ch # <<>> /\ ch' = Tail(ch)
  BY DEF ScalerContextDone, ScalerReceive, scaleWhileDraining
<1>3. \/ /\ scaler = "select"
         /\ \/ scaler' \in {"select", "exited"}
            \/ ch # <<>> /\ scaler' \in {"ScaleIncrease", "ScaleDecrease"}
      \/ scaler' = scaler /\ scaler \in {"scale", "stopOneWorker"}
  BY DEF ScalerContextDone, ScalerReceive, scaleWhileDraining, scalerVars
<1>4. ScalerType'
  <2>1. ch' \in Seq(ScaleRequest) /\ Len(ch') <= MaxWorkers
    BY <1>2, ReceiveType DEF IInv, TypeInv, ScalerType
  <2> QED
    BY <1>1, <1>3, <2>1 DEF IInv, TypeInv, ScalerType
<1>5. ScalerInv'
  BY <1>1, <1>3 DEF IInv, ScalerInv
<1>6. CountInv'
  BY <1>1, <1>2, <1>3 DEF IInv, CountInv
<1> QED
  BY <1>1, <1>4, <1>5, <1>6, ScalerMoves

(* What nextWorkerCount asks for: up to max-workers, or one worker less    *)
(* and no less than min-workers.                                           *)
LEMMA NextCountBounds ==
  ASSUME NEW before \in ScalerState, NEW current \in Nat
  PROVE  /\ LET target == nextWorkerCount(before, "ScaleIncrease", current)
            IN  target \in Nat /\ target <= MaxWorkers
         /\ LET target == nextWorkerCount(before, "ScaleDecrease", current)
            IN  /\ target \in Nat
                /\ target < current => target = current - 1 /\ target >= MinWorkers
         /\ \A request \in ScaleRequest : nextState(before, request) \in ScalerState
<1>1. ASSUME NEW target, target = nextWorkerCount(before, "ScaleIncrease", current)
      PROVE  target \in Nat /\ target <= MaxWorkers
  <2>1. CASE before = "steadyState"
    BY <1>1, <2>1, WorkersAssumption DEF nextWorkerCount, min
  <2>2. CASE before # "steadyState"
    BY <1>1, <2>2, WorkersAssumption DEF nextWorkerCount, min
  <2> QED
    BY <2>1, <2>2
<1>2. ASSUME NEW target, target = nextWorkerCount(before, "ScaleDecrease", current)
      PROVE  /\ target \in Nat
             /\ target < current => target = current - 1 /\ target >= MinWorkers
  <2>1. CASE before = "initialState"
    BY <1>2, <2>1, WorkersAssumption DEF nextWorkerCount
  <2>2. CASE before # "initialState"
    BY <1>2, <2>2, WorkersAssumption DEF nextWorkerCount, max
  <2> QED
    BY <2>1, <2>2
<1>3. \A request \in ScaleRequest : nextState(before, request) \in ScalerState
  BY DEF ScalerState, ScaleRequest, nextState
<1> QED
  BY <1>1, <1>2, <1>3

LEMMA getWorkerCountInv ==
  ASSUME IInv, getWorkerCount
  PROVE  IInv'
<1> DEFINE target == nextWorkerCount(fsm, scaler, n)
<1>1. /\ UNCHANGED <<starter, toStart, n, muOwner, worker, flows, rows, stopCalled, exiting, dying,
                     dead, stopper, stopping, panicked>>
      /\ ch' = ch /\ fsm' = nextState(fsm, scaler) /\ muOwner = "none"
      /\ scaler' = IF toScale' = 0 THEN "select" ELSE "scale"
  BY ScalerIdles DEF getWorkerCount, ScaleNext
<1>2. /\ fsm \in ScalerState /\ n \in Nat /\ toStart \in 0..MinWorkers /\ toScale \in Int
      /\ MinWorkers \in Nat \ {0} /\ MaxWorkers \in Nat \ {0}
      /\ scaler \in {"ScaleIncrease", "ScaleDecrease"}
  BY WorkersAssumption
  DEF IInv, TypeInv, StarterType, ScalerType, getWorkerCount, ScaleRequest
<1>3. toScale = 0 /\ toStart < MinWorkers
  <2>1. toScale = 0 /\ toStart # MinWorkers
    BY <1>2 DEF IInv, ScalerInv, CountInv
  <2> QED
    BY <1>2, <2>1
<1>4. n + toStart <= MaxWorkers + (MinWorkers - 1)
  BY <1>2, <1>3 DEF IInv, CountInv, max
<1>5. /\ toScale' \in (-MaxWorkers)..MaxWorkers
      /\ n + toStart + max(0, toScale') <= MaxWorkers + (MinWorkers - 1)
      /\ toScale' < 0 => MinWorkers <= n + toScale'
  <2>1. CASE scaler = "ScaleIncrease"
    <3>1. target \in Nat /\ target <= MaxWorkers
      BY <1>2, <2>1, NextCountBounds
    <3>2. toScale' = max(0, target - n)
      BY <2>1 DEF getWorkerCount, ScaleNext
    <3> HIDE DEF target
    <3> QED
      BY <1>2, <1>3, <1>4, <3>1, <3>2 DEF max
  <2>2. CASE scaler = "ScaleDecrease"
    <3>1. target \in Nat /\ (target < n => target = n - 1 /\ target >= MinWorkers)
      BY <1>2, <2>2, NextCountBounds
    <3>2. toScale' = min(0, target - n)
      BY <2>2 DEF getWorkerCount, ScaleNext
    <3> HIDE DEF target
    <3> QED
      BY <1>2, <1>3, <1>4, <3>1, <3>2 DEF max, min
  <2> QED
    BY <1>2, <2>1, <2>2
<1>6. ScalerType'
  <2>1. fsm' \in ScalerState
    BY <1>1, <1>2, NextCountBounds DEF getWorkerCount
  <2> QED
    BY <1>1, <1>5, <2>1 DEF IInv, TypeInv, ScalerType
<1>7. ScalerInv'
  BY <1>1, <1>2 DEF IInv, ScalerInv
<1>8. CountInv'
  <2>1. UNCHANGED <<n, toStart>> /\ toStart # MinWorkers
    BY <1>1, <1>2, <1>3
  <2>2. /\ n' + toStart' + max(0, toScale') <= MaxWorkers + (MinWorkers - 1)
        /\ toScale' < 0 => MinWorkers <= n' + toScale'
    BY <1>5, <2>1
  <2> QED
    BY <2>1, <2>2 DEF CountInv
<1> QED
  BY <1>1, <1>6, <1>7, <1>8, ScalerMoves

LEMMA increaseWorkersInv ==
  ASSUME IInv, increaseWorkers
  PROVE  IInv'
<1>1. /\ scaler = "scale" /\ toScale > 0
      /\ UNCHANGED <<starter, toStart, muOwner, ch, fsm, stopper, stopping>>
      /\ muOwner = "none"
      /\ scaler' = IF toScale' = 0 THEN "select" ELSE "scale"
  BY DEF increaseWorkers, stopVars, ScaleNext, startPoolWorker, clientError
<1>2. /\ n \in Nat /\ toStart \in 0..MinWorkers /\ toScale \in (-MaxWorkers)..MaxWorkers
      /\ MinWorkers \in Nat \ {0} /\ MaxWorkers \in Nat \ {0}
      /\ n + toStart + toScale <= MaxWorkers + (MinWorkers - 1)
  <2>1. /\ n \in Nat /\ toStart \in 0..MinWorkers /\ toScale \in (-MaxWorkers)..MaxWorkers
        /\ MinWorkers \in Nat \ {0} /\ MaxWorkers \in Nat \ {0}
    BY WorkersAssumption DEF IInv, TypeInv, StarterType, ScalerType
  <2>2. max(0, toScale) = toScale
    BY <1>1, <2>1 DEF max
  <2> QED
    BY <2>1, <2>2 DEF IInv, CountInv
<1>3. toStart # MinWorkers
  BY <1>1 DEF IInv, CountInv
<1>4. /\ n' \in {n, n + 1} /\ n' \in Nat
      /\ WorkerType' /\ FlowsInv' /\ ListedInv'
      /\ UNCHANGED <<exiting, dying, dead>> /\ panicked' \in BOOLEAN
      /\ dead => n' = n /\ worker' = worker
      /\ \/ toScale' = toScale - 1
         \/ toScale' = 0 /\ n' = n
  <2>1. CASE startPoolWorker /\ ScaleNext(toScale - 1)
    <3>1. toScale' = toScale - 1
      BY <2>1 DEF ScaleNext
    <3> QED
      BY <1>1, <2>1, <3>1, StartedType
  <2>2. CASE clientError /\ ScaleNext(0)
    <3>1. UNCHANGED <<n, worker, flows, rows, stopCalled, exiting, dying, dead, panicked>>
      BY <2>2 DEF clientError, poolWorkerVars, tombVars
    <3> QED
      BY <1>2, <2>2, <3>1
      DEF ScaleNext, IInv, TypeInv, WorkerType, StopType, FlowsInv, ListedInv, Running
  <2> QED
    BY <2>1, <2>2 DEF increaseWorkers
<1>5. /\ toScale' \in (-MaxWorkers)..MaxWorkers /\ toScale' >= 0
      /\ n' + toStart + toScale' <= MaxWorkers + (MinWorkers - 1)
  <2>1. CASE toScale' = toScale - 1
    <3>1. toScale > 0 /\ (n' = n \/ n' = n + 1)
      BY <1>1, <1>4
    <3> QED
      BY <1>2, <2>1, <3>1
  <2>2. CASE toScale' = 0 /\ n' = n
    BY <1>1, <1>2, <2>2
  <2> QED
    BY <1>4, <2>1, <2>2
<1>6. CountInv'
  <2>1. max(0, toScale') = toScale' /\ ~ (toScale' < 0)
    BY <1>2, <1>5 DEF max
  <2>2. UNCHANGED toStart
    BY <1>1
  <2> QED
    BY <1>3, <1>5, <2>1, <2>2 DEF CountInv
<1>7. TypeInv'
  <2>1. StarterType' /\ StopType'
    BY <1>1, <1>4 DEF IInv, TypeInv, StarterType, StopType
  <2>2. ScalerType'
    BY <1>1, <1>5 DEF IInv, TypeInv, ScalerType
  <2> QED
    BY <1>4, <2>1, <2>2 DEF TypeInv
<1>8. ScalerInv' /\ StoppingInv'
  BY <1>1 DEF IInv, ScalerInv, StoppingInv
<1>9. DeadInv'
  BY <1>1, <1>4 DEF IInv, DeadInv, Running
<1> QED
  BY <1>4, <1>6, <1>7, <1>8, <1>9 DEF IInv

(* There is a worker to stop.                                              *)
LEMMA StopOneIsThere ==
  ASSUME IInv, toScale < 0
  PROVE  /\ n \in PoolWorkers /\ n \in Nat /\ n - 1 \in Nat /\ toScale \in (-MaxWorkers)..MaxWorkers
         /\ toScale + 1 \in (-MaxWorkers)..MaxWorkers /\ toScale + 1 <= 0
         /\ MinWorkers <= (n - 1) + (toScale + 1)
         /\ n + toStart <= MaxWorkers + (MinWorkers - 1)
         /\ toStart \in Nat /\ MinWorkers \in Nat /\ MaxWorkers \in Nat
<1>1. /\ n \in Nat /\ toStart \in Nat /\ toScale \in (-MaxWorkers)..MaxWorkers
      /\ MinWorkers \in Nat \ {0} /\ MaxWorkers \in Nat \ {0}
  BY WorkersAssumption DEF IInv, TypeInv, StarterType, ScalerType
<1>2. n + toStart + max(0, toScale) <= MaxWorkers + (MinWorkers - 1) /\ MinWorkers <= n + toScale
  BY DEF IInv, CountInv
<1>3. max(0, toScale) = 0
  BY <1>1 DEF max
<1> QED
  BY <1>1, <1>2, <1>3 DEF PoolWorkers

LEMMA stopOneWorkerCancelInv ==
  ASSUME IInv, stopOneWorkerCancel
  PROVE  IInv'
<1>1. /\ UNCHANGED <<starter, toStart, n, ch, fsm, toScale, worker, flows, rows, exiting, dying,
                     dead, stopper, stopping, panicked>>
      /\ toScale < 0 /\ scaler = "scale" /\ scaler' = "stopOneWorker"
      /\ muOwner = "none" /\ muOwner' = "scaler" /\ stopCalled' = stopCalled \cup {n}
  BY DEF stopOneWorkerCancel, tombVars, stopVars
<1>2. TypeInv'
  BY <1>1, StopOneIsThere DEF IInv, TypeInv, StarterType, ScalerType, WorkerType, StopType
<1>3. ScalerInv' /\ StoppingInv'
  BY <1>1 DEF IInv, ScalerInv, StoppingInv
<1>4. CountInv'
  BY <1>1 DEF IInv, CountInv
<1>5. FlowsInv' /\ ListedInv' /\ DeadInv'
  BY <1>1 DEF IInv, FlowsInv, ListedInv, DeadInv, Running
<1> QED
  BY <1>2, <1>3, <1>4, <1>5 DEF IInv

LEMMA stopOneWorkerDoneInv ==
  ASSUME IInv, stopOneWorkerDone
  PROVE  IInv'
<1>1. /\ UNCHANGED <<starter, toStart, ch, fsm, flows, rows, stopCalled, exiting, dying, dead,
                     stopper, stopping, panicked>>
      /\ scaler = "stopOneWorker" /\ n' = n - 1 /\ worker' = [worker EXCEPT ![n] = "none"]
      /\ muOwner' = "none" /\ toScale' = toScale + 1
      /\ scaler' = IF toScale' = 0 THEN "select" ELSE "scale"
  BY DEF stopOneWorkerDone, ScaleNext, tombVars, stopVars
<1>2. toScale < 0 /\ muOwner = "scaler"
  BY <1>1 DEF IInv, ScalerInv
<1>3. \A v \in PoolWorkers : worker'[v] = IF v = n THEN "none" ELSE worker[v]
  BY <1>1 DEF IInv, TypeInv, WorkerType
<1>4. TypeInv'
  <2>1. "none" \in WorkerPc
    BY DEF WorkerPc
  <2>2. WorkerType'
    BY <1>1, <2>1 DEF IInv, TypeInv, WorkerType
  <2>3. StarterType' /\ ScalerType'
    BY <1>1, <1>2, StopOneIsThere DEF IInv, TypeInv, StarterType, ScalerType
  <2>4. StopType'
    BY <1>1 DEF IInv, TypeInv, StopType
  <2> QED
    BY <2>2, <2>3, <2>4 DEF TypeInv
<1>5. ScalerInv' /\ StoppingInv'
  BY <1>1, <1>2 DEF IInv, ScalerInv, StoppingInv
<1>6. CountInv'
  <2>1. max(0, toScale') = 0
    BY <1>1, <1>2, StopOneIsThere DEF max
  <2>2. n' + toStart' + 0 <= MaxWorkers + (MinWorkers - 1) /\ MinWorkers <= n' + toScale'
    BY <1>1, <1>2, StopOneIsThere
  <2>3. toStart' # MinWorkers
    BY <1>1 DEF IInv, CountInv
  <2> QED
    BY <2>1, <2>2, <2>3 DEF CountInv
<1>7. FlowsInv' /\ DeadInv'
  BY <1>1, <1>3 DEF IInv, FlowsInv, DeadInv, Running, ScaleRequest
<1>8. ListedInv'
  <2> SUFFICES ASSUME NEW v \in PoolWorkers, Running(v)' PROVE v <= n'
    BY DEF ListedInv
  <2>1. v # n /\ v <= n
    BY <1>3 DEF IInv, ListedInv, Running
  <2>2. v \in Int /\ n \in Int
    BY <1>2, StopOneIsThere, WorkersAssumption DEF PoolWorkers
  <2> QED
    BY <1>1, <2>1, <2>2
<1> QED
  BY <1>4, <1>5, <1>6, <1>7, <1>8 DEF IInv

-----------------------------------------------------------------------------
(* Only the goroutine that stops the components moves, and it does not     *)
(* take or give back workerMu.                                             *)
LEMMA StopperMoves ==
  ASSUME IInv,
         UNCHANGED <<toStart, n, muOwner, ch, fsm, scaler, toScale, worker, flows, rows, stopCalled,
                     exiting, dead, stopping, panicked>>,
         starter' \in {"waiting", "running", "returned", "failed"}, dying' \in BOOLEAN,
         stopper \notin {"StopWorkers", "StopWorkersAgain"},
         stopper' \in {"core", "lock", "Kill", "Wait"} \/ (stopper' = "lockAgain" /\ dead)
  PROVE  IInv'
<1>1. TypeInv'
  BY DEF IInv, TypeInv, StarterType, ScalerType, WorkerType, StopType
<1>2. ScalerInv' /\ StoppingInv' /\ CountInv'
  BY DEF IInv, ScalerInv, StoppingInv, CountInv
<1>3. FlowsInv' /\ ListedInv' /\ DeadInv'
  BY DEF IInv, FlowsInv, ListedInv, DeadInv, Running
<1> QED
  BY <1>1, <1>2, <1>3 DEF IInv

LEMMA BeginStopInv ==
  ASSUME IInv, BeginStop
  PROVE  IInv'
<1>1. /\ UNCHANGED <<toStart, n, muOwner, ch, fsm, scaler, toScale, worker, flows, rows, stopCalled,
                     exiting, dying, dead, stopping, panicked>>
      /\ stopper = "run" /\ stopper' \in {"core", "Kill"} /\ starter' \in {starter, "failed"}
  BY DEF BeginStop, scalerVars, poolWorkerVars, tombVars
<1>2. /\ starter' \in {"waiting", "running", "returned", "failed"} /\ dying' \in BOOLEAN
  BY <1>1 DEF IInv, TypeInv, StarterType, StopType
<1> QED
  BY <1>1, <1>2, StopperMoves

LEMMA StopPhaseInv ==
  ASSUME IInv, CoreWait \/ StopKill \/ StopWait
  PROVE  IInv'
<1>1. UNCHANGED <<toStart, n, muOwner, ch, fsm, scaler, toScale, worker, flows, rows, stopCalled,
                  exiting, dead, stopping, panicked, starter>>
  BY DEF CoreWait, StopKill, StopWait, stopIdle, scalerVars
<1>2. /\ stopper \in {"core", "Kill", "Wait"} /\ dying' \in {dying, TRUE}
      /\ stopper' \in {"lock", "Wait"} \/ (stopper' = "lockAgain" /\ dead)
  BY DEF CoreWait, StopKill, StopWait
<1>3. /\ starter' \in {"waiting", "running", "returned", "failed"} /\ dying' \in BOOLEAN
  BY <1>1, <1>2 DEF IInv, TypeInv, StarterType, StopType
<1> QED
  BY <1>1, <1>2, <1>3, StopperMoves

(* StopWorkers takes workerMu, waits for one worker after the other, and   *)
(* gives workerMu back.                                                    *)
LEMMA StopWorkersInv ==
  ASSUME IInv, StopWorkersLock \/ StopWorkersNext \/ StopWorkersUnlock
  PROVE  IInv'
<1>1. UNCHANGED <<starter, toStart, n, ch, fsm, scaler, toScale, worker, flows, rows, exiting, dying,
                  dead, panicked>>
  BY DEF StopWorkersLock, StopWorkersNext, StopWorkersUnlock, stopIdle, scalerVars
<1>2. /\ n \in Nat /\ n <= MaxWorkers + (MinWorkers - 1)
      /\ MinWorkers \in Nat \ {0} /\ MaxWorkers \in Nat \ {0}
  BY CountIsBounded, WorkersAssumption
<1>3. stopping \in 0..(MinWorkers + MaxWorkers + 1) /\ stopCalled \subseteq PoolWorkers
  BY DEF IInv, TypeInv, StopType, WorkerType
<1>4. CASE StopWorkersLock
  <2>1. /\ muOwner = "none" /\ muOwner' = "stopper" /\ stopping' = 1
        /\ stopper \in {"lock", "lockAgain"}
        /\ stopper' = IF stopper = "lock" THEN "StopWorkers" ELSE "StopWorkersAgain"
        /\ stopCalled' \in {stopCalled, stopCalled \cup {1}}
    BY <1>4 DEF StopWorkersLock
  <2>2. 1 \in PoolWorkers /\ 1 \in 0..(MinWorkers + MaxWorkers + 1) /\ 1 <= n + 1
    BY <1>2 DEF PoolWorkers
  <2>3. TypeInv'
    <3>1. stopCalled' \subseteq PoolWorkers /\ stopping' \in 0..(MinWorkers + MaxWorkers + 1)
      BY <1>3, <2>1, <2>2
    <3> QED
      BY <1>1, <2>1, <3>1 DEF IInv, TypeInv, StarterType, ScalerType, WorkerType, StopType
  <2>4. StoppingInv'
    BY <1>1, <2>1, <2>2 DEF StoppingInv
  <2>5. ScalerInv' /\ DeadInv'
    BY <1>1, <2>1 DEF IInv, ScalerInv, DeadInv, Running
  <2>6. CountInv' /\ FlowsInv' /\ ListedInv'
    BY <1>1 DEF IInv, CountInv, FlowsInv, ListedInv, Running
  <2> QED
    BY <2>3, <2>4, <2>5, <2>6 DEF IInv
<1>5. CASE StopWorkersNext
  <2>1. /\ UNCHANGED <<stopper, muOwner>> /\ stopping <= n /\ stopping' = stopping + 1
        /\ stopCalled' = IF stopping < n THEN stopCalled \cup {stopping + 1} ELSE stopCalled
    BY <1>5 DEF StopWorkersNext
  <2>2. stopping + 1 <= n + 1 /\ stopping + 1 \in 0..(MinWorkers + MaxWorkers + 1)
    BY <1>2, <1>3, <2>1
  <2>3. stopping < n => stopping + 1 \in PoolWorkers
    BY <1>2, <1>3 DEF PoolWorkers
  <2>4. TypeInv'
    <3>1. stopCalled' \subseteq PoolWorkers /\ stopping' \in 0..(MinWorkers + MaxWorkers + 1)
      BY <1>3, <2>1, <2>2, <2>3
    <3> QED
      BY <1>1, <2>1, <3>1 DEF IInv, TypeInv, StarterType, ScalerType, WorkerType, StopType
  <2>5. StoppingInv'
    BY <1>1, <2>1, <2>2 DEF StoppingInv
  <2>6. ScalerInv' /\ DeadInv' /\ CountInv' /\ FlowsInv' /\ ListedInv'
    BY <1>1, <2>1 DEF IInv, ScalerInv, DeadInv, CountInv, FlowsInv, ListedInv, Running
  <2> QED
    BY <2>4, <2>5, <2>6 DEF IInv
<1>6. CASE StopWorkersUnlock
  <2>1. /\ muOwner' = "none" /\ stopping' = 0 /\ UNCHANGED stopCalled
        /\ stopper \in {"StopWorkers", "StopWorkersAgain"}
        /\ stopper' = IF stopper = "StopWorkers" THEN "Kill" ELSE "stopped"
    BY <1>6 DEF StopWorkersUnlock
  <2>2. 0 \in 0..(MinWorkers + MaxWorkers + 1)
    BY <1>2
  <2>3. TypeInv'
    BY <1>1, <2>1, <2>2 DEF IInv, TypeInv, StarterType, ScalerType, WorkerType, StopType
  <2>4. ScalerInv' /\ StoppingInv' /\ DeadInv'
    BY <1>1, <2>1 DEF IInv, ScalerInv, StoppingInv, DeadInv, Running
  <2>5. CountInv' /\ FlowsInv' /\ ListedInv'
    BY <1>1 DEF IInv, CountInv, FlowsInv, ListedInv, Running
  <2> QED
    BY <2>3, <2>4, <2>5 DEF IInv
<1> QED
  BY <1>4, <1>5, <1>6

-----------------------------------------------------------------------------
LEMMA StepInv ==
  ASSUME IInv, [PoolNext]_allPoolVars
  PROVE  IInv'
<1>1. CASE UNCHANGED allPoolVars
  BY <1>1, FrameInv
<1>2. CASE StartupDelay \/ StartWorkers
  BY <1>2, StartupDelayInv, StartWorkersInv
<1>3. CASE ScalerStep \/ scaleWhileDraining
  BY <1>3, ScalerSelectInv, getWorkerCountInv, increaseWorkersInv, stopOneWorkerCancelInv,
     stopOneWorkerDoneInv DEF ScalerStep
<1>4. ASSUME NEW w \in PoolWorkers,
             \/ PollRecord(w) \/ EndPoolLoop(w) \/ FlushInsert(w)
             \/ PoolWorkerStep(w)
             \/ TombRun(w)
      PROVE  IInv'
  BY <1>4, PollRecordInv, EndPoolLoopInv, processIncomingFlowInv, FlushInv, SendRequestInv,
     ShutdownInv, TombRunInv DEF PoolWorkerStep
<1>5. CASE BeginStop \/ StopStep
  BY <1>5, BeginStopInv, StopPhaseInv, StopWorkersInv DEF StopStep
<1> QED
  BY <1>1, <1>2, <1>3, <1>4, <1>5 DEF PoolNext, Terminated

(* However the starting, the scaling, the failures and the stop of the     *)
(* pool interleave: a worker only leaves c.workers after its goroutine has *)
(* closed `done`, a second StopWorkers finds a dead tomb and no worker     *)
(* that runs, and the pool never has more workers than max-workers plus    *)
(* those that StartWorkers had still to start when the scaler counted.     *)
THEOREM PoolIsRight == PoolSpec => []PoolRight
<1>1. PoolInit => IInv
  BY InitInv
<1>2. IInv /\ [PoolNext]_allPoolVars => IInv'
  BY StepInv
<1>3. IInv => PoolRight
  BY InvRight
<1> QED
  BY <1>1, <1>2, <1>3, PTL DEF PoolSpec

-----------------------------------------------------------------------------
(***************************************************************************)
(* The static provider: what it publishes, and the most specific subnet.   *)
(***************************************************************************)
RemoteConfigs == [from : Remotes, version : Nat, attributes : BOOLEAN, skip : BOOLEAN]

RemoteResults == [subnet : Subnets, config : RemoteConfigs]

ResultsOk(results) == results \in Seq(RemoteResults)

MapOk(map) ==
  /\ DOMAIN StaticExporters \subseteq DOMAIN map /\ DOMAIN map \subseteq Subnets
  /\ \A net \in DOMAIN map : map[net].from # "none"
  /\ \A net \in DOMAIN StaticExporters : map[net].from = "static"

FetchOk(s, f) ==
  /\ f = [page |-> f.page, mode |-> f.mode, results |-> f.results]
  /\ ResultsOk(f.results)
  /\ f.page \in 0..Len(Pages[s])

StaticInv ==
  /\ version \in [Remotes -> Nat]
  /\ updater \in [Remotes -> {"idle", "fetching", "merged"}]
  /\ fetch = [s \in Remotes |-> fetch[s]]
  /\ exportersMap = [s \in Remotes |-> exportersMap[s]]
  /\ finalMap = [s \in Remotes |-> finalMap[s]]
  /\ \A s \in Remotes : FetchOk(s, fetch[s])
  /\ \A s \in Remotes : ResultsOk(exportersMap[s])
  /\ \A s \in Remotes : updater[s] = "merged" => MapOk(finalMap[s])
  /\ MapOk(exporters)

(* A set of subnets that have an exporter in common has a smallest one.    *)
LEMMA MostSpecific ==
  ASSUME NEW e, NEW S, S \subseteq Subnets, S # {}, \A net \in S : e \in net
  PROVE  \E net \in S : \A other \in S : net \subseteq other
<1>1. \A net \in Subnets : net \subseteq Exporters
  <2> SUFFICES ASSUME NEW net \in Subnets PROVE net \subseteq Exporters
    OBVIOUS
  <2>1. CASE net \in DOMAIN StaticExporters
    <3>1. \A m \in DOMAIN StaticExporters : m \subseteq Exporters
      BY StaticProviderAssumption
    <3> QED
      BY <2>1, <3>1
  <2>2. CASE net \notin DOMAIN StaticExporters
    <3>1. PICK page \in UNION {Range(Pages[s]) : s \in Remotes} : net \in Range(page.subnets)
      BY <2>2 DEF Subnets
    <3>2. PICK s \in Remotes : page \in Range(Pages[s])
      BY <3>1
    <3>3. Pages[s] \in Seq(RemotePages)
      BY StaticProviderAssumption
    <3>4. PICK k \in 1..Len(Pages[s]) : page = Pages[s][k]
      BY <3>2, <3>3 DEF Range
    <3>5. page \in RemotePages
      BY <3>3, <3>4, ElementOfSeq
    <3>6. page.subnets \in Seq(SUBSET Exporters)
      BY <3>5 DEF RemotePages
    <3> QED
      BY <3>1, <3>6 DEF Range
  <2> QED
    BY <2>1, <2>2
<1>2. \A net \in Subnets : IsFiniteSet(net) /\ Cardinality(net) \in Nat
  BY <1>1, StaticProviderAssumption, FS_Subset, FS_CardinalityType
<1> DEFINE sizes == {Cardinality(net) : net \in S}
<1>3. sizes \in SUBSET Nat /\ sizes # {}
  BY <1>2
<1>4. PICK size \in sizes : \A k \in sizes : size <= k
  <2> HIDE DEF sizes
  <2> QED
    BY <1>3, Least
<1>5. PICK net \in S : size = Cardinality(net)
  OBVIOUS
<1>6. ASSUME NEW other \in S PROVE net \subseteq other
  <2>1. net \subseteq other \/ other \subseteq net \/ net \cap other = {}
    BY StaticProviderAssumption
  <2>2. net \cap other # {}
    OBVIOUS
  <2>3. CASE other \subseteq net
    <3>1. IsFiniteSet(net) /\ Cardinality(net) \in Nat /\ Cardinality(other) \in Nat
      BY <1>2
    <3>2. Cardinality(other) <= Cardinality(net)
      BY <2>3, <3>1, FS_Subset
    <3>3. Cardinality(net) <= Cardinality(other)
      BY <1>4, <1>5
    <3>4. Cardinality(net) = Cardinality(other)
      BY <3>1, <3>2, <3>3
    <3> QED
      BY <2>3, <3>1, <3>4, FS_Subset
  <2> QED
    BY <2>1, <2>2, <2>3
<1> QED
  BY <1>6

(* An exporter in a subnet of the map has a configuration.                 *)
LEMMA LookupFinds ==
  ASSUME NEW map, MapOk(map), NEW net \in DOMAIN map, NEW e \in net
  PROVE  Lookup(map, e) # NoConfig
<1> DEFINE S == {m \in DOMAIN map : e \in m}
<1>1. S # {} /\ S \subseteq Subnets /\ (\A m \in S : e \in m)
  BY DEF MapOk
<1>2. \E m \in S : \A other \in S : m \subseteq other
  <2> HIDE DEF S
  <2> QED
    BY <1>1, MostSpecific
<1> DEFINE m == CHOOSE m \in S : \A other \in S : m \subseteq other
<1>3. m \in S
  <2> HIDE DEF S
  <2> QED
    BY <1>2
<1>4. Lookup(map, e) = map[m]
  BY <1>1 DEF Lookup
<1>5. map[m].from # "none"
  BY <1>3 DEF MapOk
<1> HIDE DEF m, S
<1> QED
  BY <1>4, <1>5 DEF NoConfig

(* The last result about a subnet comes from a source.                     *)
LEMMA LastFromRemote ==
  ASSUME NEW results, ResultsOk(results), NEW net \in SubnetsIn(results)
  PROVE  LastOf(results, net).from \in Remotes
<1> DEFINE S == {i \in 1..Len(results) : results[i].subnet = net}
<1>0. Len(results) \in Nat
  BY DEF ResultsOk
<1>1. S # {} /\ S \subseteq Nat
  BY DEF SubnetsIn
<1> DEFINE after == {Len(results) - i : i \in S}
<1>2. after \in SUBSET Nat /\ after # {}
  BY <1>0, <1>1
<1>3. PICK d \in after : \A k \in after : d <= k
  <2> HIDE DEF after
  <2> QED
    BY <1>2, Least
<1>4. PICK i \in S : d = Len(results) - i
  OBVIOUS
<1>5. \A j \in S : Len(results) - i <= Len(results) - j
  BY <1>3, <1>4
<1>6. \A j \in S : j <= i
  BY <1>0, <1>1, <1>5
<1>7. (CHOOSE k \in S : \A j \in S : j <= k) \in S
  <2> HIDE DEF S
  <2> QED
    BY <1>6
<1> DEFINE last == CHOOSE k \in S : \A j \in S : j <= k
<1>8. LastOf(results, net) = results[last].config /\ last \in 1..Len(results)
  BY <1>7 DEF LastOf
<1> HIDE DEF last
<1>9. results[last] \in RemoteResults
  BY <1>8, ElementOfSeq DEF ResultsOk
<1> QED
  BY <1>8, <1>9 DEF RemoteResults, RemoteConfigs

LEMMA MergedOk ==
  ASSUME NEW map, NEW pick, MapOk(exporters),
         \A s \in Remotes : ResultsOk(map[s]),
         \A net \in UNION {SubnetsIn(map[s]) : s \in Remotes} :
           pick[net] \in Remotes /\ net \in SubnetsIn(map[pick[net]])
  PROVE  MapOk(Merged(map, pick))
<1> DEFINE remote == UNION {SubnetsIn(map[s]) : s \in Remotes}
           merged == Merged(map, pick)
<1>1. DOMAIN StaticResults = DOMAIN StaticExporters
  BY DEF StaticResults
<1>2. \A net \in DOMAIN StaticExporters : StaticResults[net].from = "static"
  <2> SUFFICES ASSUME NEW net \in DOMAIN StaticExporters PROVE StaticResults[net].from = "static"
    OBVIOUS
  <2>1. StaticExporters[net] \in StaticConfigs
    BY StaticProviderAssumption
  <2> QED
    BY <2>1 DEF StaticResults, StaticConfigs
<1>3. remote \subseteq Subnets
  <2> SUFFICES ASSUME NEW s \in Remotes, NEW i \in 1..Len(map[s]) PROVE map[s][i].subnet \in Subnets
    BY DEF SubnetsIn
  <2>1. map[s][i] \in RemoteResults
    BY ElementOfSeq DEF ResultsOk
  <2> QED
    BY <2>1 DEF RemoteResults
<1>4. DOMAIN merged = remote \cup DOMAIN StaticExporters
  BY <1>1 DEF Merged
<1>5. \A net \in DOMAIN StaticExporters : merged[net].from = "static"
  BY <1>1, <1>2 DEF Merged
<1>6. ASSUME NEW net \in DOMAIN merged PROVE merged[net].from # "none"
  <2>1. CASE net \in DOMAIN StaticExporters
    BY <1>5, <2>1
  <2>2. CASE net \notin DOMAIN StaticExporters
    <3>1. net \in remote
      BY <1>4, <2>2
    <3>2. merged[net] = LastOf(map[pick[net]], net)
      BY <1>1, <2>2, <3>1 DEF Merged
    <3>3. merged[net].from \in Remotes
      BY <3>1, <3>2, LastFromRemote
    <3> QED
      BY <3>3, StaticProviderAssumption
  <2> QED
    BY <2>1, <2>2
<1>7. DOMAIN StaticExporters \subseteq Subnets
  BY DEF Subnets
<1> HIDE DEF merged, remote
<1>8. MapOk(merged)
  BY <1>3, <1>4, <1>5, <1>6, <1>7 DEF MapOk
<1> QED
  BY <1>8 DEF merged

LEMMA StaticInitially == StaticInit => StaticInv
<1> SUFFICES ASSUME StaticInit PROVE StaticInv
  OBVIOUS
<1>1. MapOk(StaticExporters)
  <2>1. \A net \in DOMAIN StaticExporters : StaticExporters[net].from = "static"
    BY StaticProviderAssumption DEF StaticConfigs
  <2> QED
    BY <2>1 DEF MapOk, Subnets
<1>2. ASSUME NEW s \in Remotes PROVE FetchOk(s, NoFetch)
  <2>1. Len(Pages[s]) \in Nat
    BY StaticProviderAssumption
  <2>2. ResultsOk(<<>>)
    BY DEF ResultsOk
  <2> QED
    BY <2>1, <2>2 DEF FetchOk, NoFetch
<1>3. ResultsOk(<<>>)
  BY DEF ResultsOk
<1> QED
  BY <1>1, <1>2, <1>3 DEF StaticInit, StaticInv

LEMMA FetchChanges ==
  ASSUME StaticInv, NEW s \in Remotes, NEW f, FetchOk(s, f), NEW stage \in {"idle", "fetching"},
         fetch' = [fetch EXCEPT ![s] = f], updater' = [updater EXCEPT ![s] = stage],
         UNCHANGED <<version, exportersMap, finalMap, exporters>>
  PROVE  StaticInv'
<1> USE DEF StaticInv
<1>1. /\ updater' \in [Remotes -> {"idle", "fetching", "merged"}] /\ updater'[s] = stage
      /\ \A t \in Remotes \ {s} : updater'[t] = updater[t]
  OBVIOUS
<1>2. /\ fetch' = [t \in Remotes |-> fetch'[t]] /\ fetch'[s] = f
      /\ \A t \in Remotes \ {s} : fetch'[t] = fetch[t]
  OBVIOUS
<1>3. \A t \in Remotes : FetchOk(t, fetch'[t])
  BY <1>2
<1>4. \A t \in Remotes : updater'[t] = "merged" => MapOk(finalMap[t])
  BY <1>1
<1> QED
  BY <1>1, <1>2, <1>3, <1>4

LEMMA FetchPageKeeps ==
  ASSUME StaticInv, NEW s \in Remotes, FetchPage(s)
  PROVE  StaticInv'
<1> DEFINE k == fetch[s].page
           page == Pages[s][k]
           next == nextPageURL(page, fetch[s].mode)
           got == [i \in 1..Len(page.subnets) |-> RemoteConfig(s, page.subnets[i])]
           results == fetch[s].results
<1>1. /\ FetchOk(s, fetch[s]) /\ k # 0 /\ updater[s] = "fetching"
      /\ UNCHANGED <<version, updater, exportersMap, finalMap, exporters, loaded>>
  BY DEF StaticInv, FetchPage
<1>2. /\ Pages[s] \in Seq(RemotePages)
      /\ Len(Pages[s]) \in Nat
  <2>1. Pages[s] \in Seq(RemotePages)
    BY StaticProviderAssumption
  <2> QED
    BY <2>1
<1>3. k \in 1..Len(Pages[s])
  BY <1>1, <1>2 DEF FetchOk
<1>4. page \in RemotePages /\ page \in Range(Pages[s])
  <2>1. page \in RemotePages
    BY <1>2, <1>3, ElementOfSeq
  <2>2. k \in DOMAIN Pages[s]
    BY <1>2, <1>3
  <2> QED
    BY <2>1, <2>2 DEF Range
<1>5. page.rel \in 0..Len(Pages[s]) /\ page.link \in 0..Len(Pages[s])
  BY <1>4, StaticProviderAssumption
<1>6. page.subnets \in Seq(Subnets)
  <2>1. page.subnets \in Seq(SUBSET Exporters)
    BY <1>4 DEF RemotePages
  <2>2. \A i \in 1..Len(page.subnets) : page.subnets[i] \in Range(page.subnets)
    BY <2>1 DEF Range
  <2>3. Range(page.subnets) \subseteq Subnets
    BY <1>4 DEF Subnets
  <2>4. PICK subnets : subnets = page.subnets
    OBVIOUS
  <2>5. subnets \in Seq(SUBSET Exporters) /\ \A i \in 1..Len(subnets) : subnets[i] \in Subnets
    BY <2>1, <2>2, <2>3, <2>4
  <2>6. subnets = [i \in 1..Len(subnets) |-> subnets[i]] /\ Len(subnets) \in Nat
    BY <2>5
  <2>7. PICK length \in Nat : length = Len(subnets)
    BY <2>6
  <2>8. subnets = [i \in 1..length |-> subnets[i]] /\ \A i \in 1..length : subnets[i] \in Subnets
    BY <2>5, <2>6, <2>7
  <2>9. subnets \in [1..length -> Subnets]
    BY <2>8
  <2>10. subnets \in Seq(Subnets)
    BY <2>9
  <2> QED
    BY <2>4, <2>10
<1>7. next = <<next[1], next[2]>> /\ next[1] \in 0..Len(Pages[s])
  <2>1. 0 \in 0..Len(Pages[s])
    BY <1>2
  <2> HIDE DEF page
  <2> QED
    BY <1>5, <2>1 DEF nextPageURL
<1>8. PICK subnets : subnets = page.subnets
  OBVIOUS
<1>9. /\ got = [i \in 1..Len(subnets) |-> RemoteConfig(s, subnets[i])]
      /\ subnets \in Seq(Subnets)
  BY <1>6, <1>8
<1>10. \A net \in Subnets : RemoteConfig(s, net) \in RemoteResults
  BY DEF RemoteConfig, RemoteConfigs, RemoteResults, StaticInv
<1> HIDE DEF got, next, page
<1>11. ResultsOk(got)
  BY <1>9, <1>10 DEF ResultsOk
<1> DEFINE f == [page |-> next[1], mode |-> next[2], results |-> results \o got]
<1>12. fetch' = [fetch EXCEPT ![s] = f]
  BY DEF FetchPage, got, next, page
<1>13. FetchOk(s, f)
  <2>1. ResultsOk(results \o got)
    BY <1>1, <1>11 DEF FetchOk, ResultsOk
  <2> QED
    BY <1>7, <2>1 DEF FetchOk
<1>14. updater' = [updater EXCEPT ![s] = "fetching"]
  BY <1>1 DEF StaticInv
<1> HIDE DEF f
<1> QED
  BY <1>1, <1>12, <1>13, <1>14, FetchChanges

LEMMA MergeKeeps ==
  ASSUME StaticInv, NEW s \in Remotes, Merge(s)
  PROVE  StaticInv'
<1> DEFINE subnets == UNION {SubnetsIn(exportersMap'[t]) : t \in Remotes}
<1>1. /\ exportersMap' = [exportersMap EXCEPT ![s] = fetch[s].results]
      /\ fetch' = [fetch EXCEPT ![s] = NoFetch]
      /\ updater' = [updater EXCEPT ![s] = "merged"]
      /\ UNCHANGED <<version, exporters, loaded>>
  BY DEF Merge
<1>2. PICK pick \in [subnets -> Remotes] :
        /\ \A net \in subnets : net \in SubnetsIn(exportersMap'[pick[net]])
        /\ finalMap' = [finalMap EXCEPT ![s] = Merged(exportersMap', pick)]
  BY DEF Merge
<1>3. \A t \in Remotes : ResultsOk(exportersMap'[t])
  BY <1>1 DEF StaticInv, FetchOk
<1>4. \A net \in subnets : pick[net] \in Remotes /\ net \in SubnetsIn(exportersMap'[pick[net]])
  BY <1>2
<1>5. MapOk(exporters)
  BY DEF StaticInv
<1>6. MapOk(Merged(exportersMap', pick))
  BY <1>3, <1>4, <1>5, MergedOk
<1>7. \A t \in Remotes : FetchOk(t, fetch'[t])
  <2>1. FetchOk(s, NoFetch)
    BY StaticProviderAssumption DEF FetchOk, NoFetch, ResultsOk
  <2> QED
    BY <1>1, <2>1 DEF StaticInv
<1>8. \A t \in Remotes : updater'[t] = "merged" => MapOk(finalMap'[t])
  BY <1>1, <1>2, <1>6 DEF StaticInv
<1>9. /\ exportersMap' = [t \in Remotes |-> exportersMap'[t]]
      /\ fetch' = [t \in Remotes |-> fetch'[t]] /\ finalMap' = [t \in Remotes |-> finalMap'[t]]
      /\ updater' \in [Remotes -> {"idle", "fetching", "merged"}]
  BY <1>1, <1>2 DEF StaticInv
<1> HIDE DEF subnets
<1> QED
  BY <1>1, <1>3, <1>5, <1>7, <1>8, <1>9 DEF StaticInv

LEMMA PublishKeeps ==
  ASSUME StaticInv, NEW s \in Remotes, Publish(s)
  PROVE  StaticInv'
<1>1. /\ exporters' = finalMap[s] /\ MapOk(finalMap[s])
      /\ finalMap' = [finalMap EXCEPT ![s] = <<>>]
      /\ updater' = [updater EXCEPT ![s] = "idle"]
      /\ UNCHANGED <<version, fetch, exportersMap>>
  BY DEF Publish, StaticInv
<1>2. MapOk(exporters')
  BY <1>1
<1>3. \A t \in Remotes : updater'[t] = "merged" => MapOk(finalMap'[t])
  BY <1>1 DEF StaticInv
<1>4. /\ finalMap' = [t \in Remotes |-> finalMap'[t]]
      /\ updater' \in [Remotes -> {"idle", "fetching", "merged"}]
  BY <1>1 DEF StaticInv
<1>5. MapOk(exporters)'
  BY <1>2 DEF MapOk
<1> QED
  BY <1>1, <1>3, <1>4, <1>5 DEF StaticInv

LEMMA StaticKept == StaticInv /\ [StaticNext]_staticVars => StaticInv'
<1> SUFFICES ASSUME StaticInv, [StaticNext]_staticVars PROVE StaticInv'
  OBVIOUS
<1>1. ASSUME NEW s \in Remotes PROVE FetchOk(s, NoFetch)
  BY StaticProviderAssumption DEF FetchOk, NoFetch, ResultsOk
<1>2. ASSUME NEW s \in Remotes, StartFetch(s) PROVE StaticInv'
  <2> DEFINE f == [page |-> 1, mode |-> Pagination[s], results |-> <<>>]
  <2>1. FetchOk(s, f)
    <3>1. Pages[s] # <<>> /\ Pages[s] \in Seq(RemotePages)
      BY StaticProviderAssumption
    <3>2. 1 \in 0..Len(Pages[s])
      BY <3>1
    <3> QED
      BY <3>2 DEF FetchOk, ResultsOk
  <2>2. /\ fetch' = [fetch EXCEPT ![s] = f] /\ updater' = [updater EXCEPT ![s] = "fetching"]
        /\ UNCHANGED <<version, exportersMap, finalMap, exporters>>
    BY <1>2 DEF StartFetch
  <2> HIDE DEF f
  <2> QED
    BY <2>1, <2>2, FetchChanges
<1>3. ASSUME NEW s \in Remotes, FetchFails(s) PROVE StaticInv'
  <2>1. /\ fetch' = [fetch EXCEPT ![s] = NoFetch] /\ updater' = [updater EXCEPT ![s] = "idle"]
        /\ UNCHANGED <<version, exportersMap, finalMap, exporters>>
    BY <1>3 DEF FetchFails
  <2> QED
    BY <1>1, <2>1, FetchChanges
<1>4. ASSUME NEW s \in Remotes, RemoteChanges(s) PROVE StaticInv'
  BY <1>4 DEF RemoteChanges, StaticInv
<1>5. ASSUME UNCHANGED staticVars PROVE StaticInv'
  BY <1>5 DEF staticVars, StaticInv
<1> QED
  BY <1>2, <1>3, <1>4, <1>5, FetchPageKeeps, MergeKeeps, PublishKeeps DEF StaticNext

(* StaticProvider.StaticRight, for all sources, paginations, contents and  *)
(* configurations: what is published has the subnets of the configuration  *)
(* with what the configuration says, and the most specific subnet exists.  *)
THEOREM StaticIsRight == StaticSpec => []StaticRight
<1>1. StaticInv => StaticRight
  <2> SUFFICES ASSUME StaticInv, NEW net \in DOMAIN StaticExporters
               PROVE /\ net \in DOMAIN exporters /\ exporters[net].from = "static"
                     /\ \A e \in net : StaticQuery(exporters, e, "known") = "found"
    BY DEF StaticRight
  <2>1. MapOk(exporters)
    BY DEF StaticInv
  <2>2. net \in DOMAIN exporters /\ exporters[net].from = "static"
    BY <2>1 DEF MapOk
  <2>3. ASSUME NEW e \in net PROVE StaticQuery(exporters, e, "known") = "found"
    <3>1. Lookup(exporters, e) # NoConfig
      BY <2>1, <2>2, LookupFinds
    <3> QED
      BY <3>1 DEF StaticQuery
  <2> QED
    BY <2>2, <2>3
<1> QED
  BY <1>1, StaticInitially, StaticKept, PTL DEF StaticSpec

-----------------------------------------------------------------------------
(***************************************************************************)
(* The gNMI provider.                                                      *)
(***************************************************************************)
GnmiStages == {"none", "connect", "detect", "poll", "window", "wait", "retry"}

(* A collector that offers the ready channel has polled its exporter, and  *)
(* so has the one of a query that got it.                                  *)
GnmiInv ==
  /\ answering \in [GnmiExporters -> Nat \ {0}]
  /\ collector \in [GnmiExporters -> GnmiStages]
  /\ polling \in [GnmiExporters -> Nat]
  /\ state \in [GnmiExporters -> Nat]
  /\ query \in [Queriers -> [stage : {"idle", "waiting", "ready"},
                             exporter : GnmiExporters \cup {"none"}, answer : Int]]
  /\ \A e \in GnmiExporters : collector[e] \in {"window", "wait"} => state[e] # 0
  /\ \A w \in Queriers :
       /\ query[w].stage # "idle" => query[w].exporter \in GnmiExporters
       /\ query[w].stage = "ready" => state[query[w].exporter] # 0
  /\ GnmiRight

(* What collectors do keeps it: a poll that is over has an answer.         *)
LEMMA CollectorKeeps ==
  ASSUME GnmiInv, NEW e \in GnmiExporters, CollectorNext(e) \/ GnmiExporterChanges(e)
  PROVE  GnmiInv'
<1>1. CASE Connect(e)
  BY <1>1 DEF Connect, CollectorStep, GnmiInv, GnmiStages, GnmiRight
<1>2. CASE detectModelAndEncoding(e)
  BY <1>2 DEF detectModelAndEncoding, CollectorStep, GnmiInv, GnmiStages, GnmiRight
<1>3. CASE ExporterAnswers(e)
  BY <1>3 DEF ExporterAnswers, GnmiInv, GnmiRight
<1>4. CASE Update(e)
  <2>1. state' = [state EXCEPT ![e] = polling[e]] /\ polling[e] # 0 /\ query' = query
    BY <1>4 DEF Update
  <2>2. /\ collector' \in [GnmiExporters -> GnmiStages] /\ state' \in [GnmiExporters -> Nat]
        /\ polling' \in [GnmiExporters -> Nat] /\ answering' = answering
    BY <1>4 DEF Update, CollectorStep, GnmiInv, GnmiStages
  <2>3. \A f \in GnmiExporters : state'[f] # 0 <=> (f = e \/ state[f] # 0)
    BY <2>1 DEF GnmiInv
  <2>4. \A f \in GnmiExporters : collector'[f] \in {"window", "wait"} => state'[f] # 0
    BY <1>4, <2>3 DEF Update, CollectorStep, GnmiInv
  <2> QED
    BY <2>1, <2>2, <2>3, <2>4 DEF GnmiInv, GnmiRight
<1>5. CASE PollFails(e)
  BY <1>5 DEF PollFails, CollectorStep, GnmiInv, GnmiStages, GnmiRight
<1>6. CASE WindowEnds(e)
  BY <1>6 DEF WindowEnds, CollectorStep, GnmiInv, GnmiStages, GnmiRight
<1>7. CASE RetryTimer(e)
  BY <1>7 DEF RetryTimer, CollectorStep, GnmiInv, GnmiStages, GnmiRight
<1>8. CASE GnmiExporterChanges(e)
  BY <1>8 DEF GnmiExporterChanges, GnmiInv, GnmiRight
<1> QED
  BY <1>1, <1>2, <1>3, <1>4, <1>5, <1>6, <1>7, <1>8 DEF CollectorNext

(* A query that finds the collector ready has the state of a poll.         *)
LEMMA QueryKeeps ==
  ASSUME GnmiInv, NEW w \in Queriers, NEW e \in GnmiExporters, GnmiQuery(w, e)
  PROVE  GnmiInv'
<1>1. \A f \in GnmiExporters :
        /\ collector'[f] \in GnmiStages
        /\ collector'[f] \in {"window", "wait"} => collector[f] = collector'[f]
  BY DEF GnmiQuery, Refreshed, GnmiInv, GnmiStages
<1>2. collector' \in [GnmiExporters -> GnmiStages]
  BY DEF GnmiQuery, Refreshed, GnmiInv, GnmiStages
<1>3. UNCHANGED <<answering, polling, state>>
  BY DEF GnmiQuery
<1>4. Offering(e) => state[e] # 0
  BY DEF Offering, GnmiInv
<1>5. \/ query' = [query EXCEPT ![w] = [stage |-> "idle", exporter |-> e, answer |-> state[e]]]
         /\ state[e] # 0
      \/ query' = [query EXCEPT ![w] = [stage |-> "waiting", exporter |-> e, answer |-> -1]]
  BY <1>4 DEF GnmiQuery
<1>6. state[e] \in Int
  BY DEF GnmiInv
<1> QED
  BY <1>1, <1>2, <1>3, <1>5, <1>6 DEF GnmiInv, GnmiRight

(* Gnmi.GnmiRight, for all exporters and all the workers that query: no    *)
(* query is answered from the state of a collector that has polled nothing.*)
THEOREM GnmiIsRight == GnmiSpec => []GnmiRight
<1>1. GnmiInit => GnmiInv
  BY DEF GnmiInit, GnmiInv, GnmiStages, GnmiRight, NoQuery
<1>2. GnmiInv /\ [GnmiNext]_gnmiVars => GnmiInv'
  <2> SUFFICES ASSUME GnmiInv, [GnmiNext]_gnmiVars PROVE GnmiInv'
    OBVIOUS
  <2>1. CASE UNCHANGED gnmiVars
    BY <2>1 DEF gnmiVars, GnmiInv, GnmiRight
  <2>2. ASSUME NEW w \in Queriers, ReceiveReady(w) PROVE GnmiInv'
    <3>1. query[w].exporter \in GnmiExporters /\ state[query[w].exporter] # 0
      BY <2>2 DEF ReceiveReady, Offering, GnmiInv
    <3> QED
      BY <2>2, <3>1 DEF ReceiveReady, GnmiInv, GnmiRight
  <2>3. ASSUME NEW w \in Queriers, AnswerQuery(w) PROVE GnmiInv'
    <3>1. /\ query[w].exporter \in GnmiExporters /\ state[query[w].exporter] # 0
          /\ state[query[w].exporter] \in Int
      BY <2>3 DEF AnswerQuery, GnmiInv
    <3> QED
      BY <2>3, <3>1 DEF AnswerQuery, GnmiInv, GnmiRight
  <2>4. ASSUME NEW w \in Queriers, QueryTimesOut(w) PROVE GnmiInv'
    BY <2>4 DEF QueryTimesOut, NoQuery, GnmiInv, GnmiRight
  <2> QED
    BY <2>1, <2>2, <2>3, <2>4, CollectorKeeps, QueryKeeps DEF GnmiNext
<1>3. GnmiInv => GnmiRight
  BY DEF GnmiInv
<1> QED
  BY <1>1, <1>2, <1>3, PTL DEF GnmiSpec

-----------------------------------------------------------------------------
(***************************************************************************)
(* The life of a service.                                                  *)
(***************************************************************************)

(* What is started is a beginning of the components, the last one first:   *)
(* a component is started after, and stopped before, what it depends on.   *)
Order(s) ==
  /\ s \in Seq(Names) /\ Len(s) <= Len(Components)
  /\ \A k \in 1..Len(s) : s[k] = Components[Len(s) + 1 - k]

LcInv ==
  /\ lcPhase \in {"starting", "up", "stopping", "exited"}
  /\ Order(started)
  /\ running \subseteq Range(started) \cup failedToStart
  /\ failedToStart \cap Range(started) = {}
  /\ \A c \in failedToStart : stops[c] = 0
  /\ lcPhase = "starting" => failedToStart = {}
  /\ stops \in [Names -> 0..1]
  /\ \A c \in Range(started) : stops[c] = 0
  /\ lcPhase = "starting" => \A c \in Names : stops[c] = 0
  /\ lcPhase = "exited" => started = <<>>

LEMMA OrderHasDependencies ==
  ASSUME NEW s, Order(s), NEW c \in Range(s)
  PROVE  DependsOn[c] \subseteq Range(s)
<1>1. PICK k \in 1..Len(s) : c = s[k]
  BY DEF Order, Range
<1>2. Len(s) \in Nat /\ Len(Components) \in Nat /\ Len(s) <= Len(Components)
  BY LifecycleAssumption DEF Order
<1> DEFINE i == Len(s) + 1 - k
<1>3. i \in 1..Len(Components) /\ c = Components[i]
  BY <1>1, <1>2 DEF Order
<1> HIDE DEF i
<1>4. DependsOn[c] \subseteq {Components[j] : j \in 1..(i - 1)}
  BY <1>3, LifecycleAssumption
<1> USE DEF i
<1>5. SUFFICES ASSUME NEW j \in 1..(i - 1) PROVE Components[j] \in Range(s)
  BY <1>4
<1> DEFINE m == Len(s) + 1 - j
<1>6. m \in 1..Len(s) /\ Len(s) + 1 - m = j
  BY <1>1, <1>2
<1>7. s[m] = Components[j]
  BY <1>6 DEF Order
<1> QED
  BY <1>6, <1>7 DEF Order, Range

(* Starting the next component.                                            *)
LEMMA OrderStarts ==
  ASSUME NEW s, Order(s), Len(s) < Len(Components)
  PROVE  LET next == Components[Len(s) + 1]
         IN /\ Order(<<next>> \o s) /\ Range(<<next>> \o s) = {next} \cup Range(s)
            /\ next \in Names
<1> DEFINE next == Components[Len(s) + 1]
           t == <<next>> \o s
<1>1. s \in Seq(Names) /\ Len(s) \in Nat /\ Len(Components) \in Nat
  BY LifecycleAssumption DEF Order
<1>2. next \in Names
  BY <1>1, LifecycleAssumption DEF Names, Range
<1>3. /\ t \in Seq(Names) /\ Len(t) = Len(s) + 1
      /\ t[1] = next /\ \A k \in 2..Len(t) : t[k] = s[k - 1]
  BY <1>1, <1>2
<1>4. ASSUME NEW k \in 1..Len(t) PROVE t[k] = Components[Len(t) + 1 - k]
  <2>1. CASE k = 1
    BY <1>1, <1>3, <2>1
  <2>2. CASE k # 1
    <3>1. t[k] = s[k - 1] /\ k - 1 \in 1..Len(s)
      BY <1>1, <1>3, <2>2
    <3>2. s[k - 1] = Components[Len(s) + 1 - (k - 1)]
      BY <3>1 DEF Order
    <3>3. Len(s) + 1 - (k - 1) = Len(t) + 1 - k
      BY <1>1, <1>3
    <3> QED
      BY <3>1, <3>2, <3>3
  <2> QED
    BY <2>1, <2>2
<1>5. Range(t) = {next} \cup Range(s)
  <2>1. DOMAIN t = 1..(Len(s) + 1) /\ DOMAIN s = 1..Len(s)
    BY <1>1, <1>3
  <2>2. \A k \in 1..Len(s) : t[k + 1] = s[k]
    BY <1>1, <1>3
  <2>3. Range(t) \subseteq {next} \cup Range(s)
    <3> SUFFICES ASSUME NEW k \in 1..(Len(s) + 1) PROVE t[k] = next \/ t[k] \in Range(s)
      BY <2>1 DEF Range
    <3>1. CASE k = 1
      BY <1>3, <3>1
    <3>2. CASE k # 1
      <4>1. k - 1 \in 1..Len(s) /\ t[k] = s[k - 1]
        BY <1>1, <1>3, <3>2
      <4> QED
        BY <4>1, <2>1 DEF Range
    <3> QED
      BY <3>1, <3>2
  <2>4. next \in Range(t)
    BY <1>1, <1>3, <2>1 DEF Range
  <2>5. ASSUME NEW k \in 1..Len(s) PROVE s[k] \in Range(t)
    <3>1. k + 1 \in DOMAIN t /\ t[k + 1] = s[k]
      BY <1>1, <2>1, <2>2
    <3> QED
      BY <3>1 DEF Range
  <2> QED
    BY <2>1, <2>3, <2>4, <2>5 DEF Range
<1> QED
  BY <1>1, <1>2, <1>3, <1>4, <1>5 DEF Order

(* The next one is not among those that are started.                       *)
LEMMA NextIsNew ==
  ASSUME NEW s, Order(s), Len(s) < Len(Components)
  PROVE  Components[Len(s) + 1] \notin Range(s)
<1>1. Len(s) \in Nat /\ Len(Components) \in Nat /\ DOMAIN s = 1..Len(s)
  BY LifecycleAssumption DEF Order
<1> SUFFICES ASSUME NEW k \in 1..Len(s), s[k] = Components[Len(s) + 1] PROVE FALSE
  BY <1>1 DEF Range
<1>2. Components[Len(s) + 1 - k] = Components[Len(s) + 1]
  BY DEF Order
<1>3. Len(s) + 1 - k = Len(s) + 1
  BY <1>1, <1>2, LifecycleAssumption
<1> QED
  BY <1>1, <1>3

(* Stopping the last one that was started.                                 *)
LEMMA OrderStops ==
  ASSUME NEW s, Order(s), s # <<>>
  PROVE  LET left == RemoveAt(s, 1)
         IN /\ Order(left) /\ s[1] \in Names
            /\ Range(left) = Range(s) \ {s[1]} /\ s[1] \in Range(s)
<1> DEFINE left == RemoveAt(s, 1)
<1>1. s \in Seq(Names) /\ Len(s) \in Nat \ {0} /\ Len(Components) \in Nat
  BY LifecycleAssumption DEF Order
<1>2. /\ left \in Seq(Names) /\ Len(left) = Len(s) - 1
      /\ \A k \in 1..(Len(s) - 1) : left[k] = s[k + 1]
  <2> DEFINE head == SubSeq(s, 1, 0)
             tail == SubSeq(s, 2, Len(s))
  <2>1. head = <<>>
    BY <1>1
  <2>2. /\ tail \in Seq(Names) /\ Len(tail) = Len(s) - 1
        /\ \A k \in 1..(Len(s) - 1) : tail[k] = s[k + 1]
    <3>1. tail = Tail(s)
      BY <1>1, TailIsSubSeq
    <3>2. /\ Tail(s) \in Seq(Names) /\ Len(Tail(s)) = Len(s) - 1
          /\ \A k \in 1..(Len(s) - 1) : Tail(s)[k] = s[k + 1]
      BY <1>1
    <3> HIDE DEF tail
    <3> QED
      BY <3>1, <3>2
  <2>3. left = head \o tail
    BY DEF RemoveAt
  <2> HIDE DEF head, tail, left
  <2>4. head \o tail = tail
    BY <2>1, <2>2
  <2> QED
    BY <2>2, <2>3, <2>4
<1>3. ASSUME NEW k \in 1..Len(left) PROVE left[k] = Components[Len(left) + 1 - k]
  <2>1. left[k] = s[k + 1] /\ k + 1 \in 1..Len(s)
    BY <1>1, <1>2
  <2>2. s[k + 1] = Components[Len(s) + 1 - (k + 1)]
    BY <2>1 DEF Order
  <2>3. Len(s) + 1 - (k + 1) = Len(left) + 1 - k
    BY <1>1, <1>2
  <2> QED
    BY <2>1, <2>2, <2>3
<1>4. DOMAIN s = 1..Len(s) /\ DOMAIN left = 1..(Len(s) - 1)
  BY <1>1, <1>2
<1>5. ASSUME NEW k \in 1..Len(s), s[k] = s[1] PROVE k = 1
  <2>1. Components[Len(s) + 1 - k] = Components[Len(s)]
    <3>1. 1 \in 1..Len(s) /\ Len(s) + 1 - 1 = Len(s)
      BY <1>1
    <3> QED
      BY <1>5, <3>1 DEF Order
  <2>2. Len(s) + 1 - k \in 1..Len(Components) /\ Len(s) \in 1..Len(Components)
    BY <1>1 DEF Order
  <2>3. Len(s) + 1 - k = Len(s)
    BY <2>1, <2>2, LifecycleAssumption
  <2> QED
    BY <1>1, <2>3
<1>6. Range(left) \subseteq Range(s) \ {s[1]}
  <2> SUFFICES ASSUME NEW k \in 1..(Len(s) - 1) PROVE left[k] \in Range(s) /\ left[k] # s[1]
    BY <1>4 DEF Range
  <2>1. left[k] = s[k + 1] /\ k + 1 \in 1..Len(s) /\ k + 1 # 1
    BY <1>1, <1>2
  <2> QED
    BY <1>4, <1>5, <2>1 DEF Range
<1>7. ASSUME NEW k \in 1..Len(s), s[k] # s[1] PROVE s[k] \in Range(left)
  <2>1. k # 1
    BY <1>7
  <2>2. k - 1 \in 1..(Len(s) - 1) /\ (k - 1) + 1 = k
    BY <1>1, <2>1
  <2>3. left[k - 1] = s[k]
    BY <1>2, <2>2
  <2> QED
    BY <1>4, <2>2, <2>3 DEF Range
<1>8. 1 \in DOMAIN s
  BY <1>1, <1>4
<1> HIDE DEF left
<1>9. Order(left)
  BY <1>1, <1>2, <1>3 DEF Order
<1>10. Range(left) = Range(s) \ {s[1]}
  BY <1>4, <1>6, <1>7 DEF Range
<1>11. s[1] \in Names /\ s[1] \in Range(s)
  BY <1>1, <1>4, <1>8 DEF Range
<1> QED
  BY <1>9, <1>10, <1>11 DEF left

(* Lifecycle.LifecycleRight, for all components, whatever they depend on:  *)
(* each one that was started is stopped once, before what it depends on,   *)
(* wherever the start fails and whenever goroutines fail; only what a      *)
(* component that could not start had started runs at the end.             *)
THEOREM LifecycleIsRight == LcSpec => []LifecycleRight
<1>1. LcInit => LcInv
  <2> SUFFICES ASSUME LcInit PROVE LcInv
    OBVIOUS
  <2>1. /\ started = <<>> /\ running = {} /\ failedToStart = {}
        /\ lcPhase = "starting" /\ stops = [c \in Names |-> 0]
    BY DEF LcInit
  <2>2. Range(started) = {}
    BY <2>1 DEF Range
  <2>3. Order(started)
    BY <2>1, LifecycleAssumption DEF Order
  <2> QED
    BY <2>1, <2>2, <2>3 DEF LcInv
<1>2. LcInv /\ [LcNext]_lcVars => LcInv'
  <2> SUFFICES ASSUME LcInv, [LcNext]_lcVars PROVE LcInv'
    OBVIOUS
  <2> USE DEF LcInv
  <2>1. CASE StartComponent
    <3>1. /\ started' = <<NextToStart>> \o started /\ running' = running \cup {NextToStart}
          /\ UNCHANGED <<lcPhase, failedToStart, stops>> /\ lcPhase = "starting" /\ Len(started) < Len(Components)
      BY <2>1 DEF StartComponent
    <3>2. /\ Order(started') /\ Range(started') = {NextToStart} \cup Range(started)
          /\ NextToStart \in Names
      BY <3>1, OrderStarts DEF NextToStart
    <3> QED
      BY <3>1, <3>2
  <2>2. CASE StartFails
    <3>1. /\ lcPhase = "starting" /\ lcPhase' = "stopping" /\ UNCHANGED <<started, stops>>
          /\ failedToStart' = {NextToStart} /\ Len(started) < Len(Components)
          /\ running' \subseteq running \cup {NextToStart}
      BY <2>2 DEF StartFails
    <3>2. NextToStart \in Names /\ NextToStart \notin Range(started)
      BY <3>1, OrderStarts, NextIsNew DEF NextToStart
    <3> QED
      BY <3>1, <3>2
  <2>3. CASE HasStarted
    BY <2>3 DEF HasStarted
  <2>4. CASE GoroutineFails
    <3>1. running' \subseteq running /\ UNCHANGED <<lcPhase, started, failedToStart, stops>>
      BY <2>4 DEF GoroutineFails
    <3> QED
      BY <3>1
  <2>5. CASE WatchTombs \/ Signal \/ WatchSignals
    BY <2>5 DEF WatchTombs, Signal, WatchSignals
  <2>6. CASE StopAll
    BY <2>6 DEF StopAll
  <2>7. CASE StopComponent
    <3> DEFINE c == started[1]
    <3>1. /\ started' = RemoveAt(started, 1) /\ running' = running \ {c}
          /\ stops' = [stops EXCEPT ![c] = @ + 1] /\ lcPhase = "stopping" /\ lcPhase' = lcPhase
          /\ started # <<>> /\ UNCHANGED failedToStart
      BY <2>7 DEF StopComponent, ToStop
    <3>2. /\ Order(started') /\ c \in Names /\ Range(started') = Range(started) \ {c}
          /\ c \in Range(started)
      BY <3>1, OrderStops
    <3>3. stops[c] = 0 /\ c \notin failedToStart
      BY <3>2
    <3> HIDE DEF c
    <3> QED
      BY <3>1, <3>2, <3>3
  <2>8. CASE Exit
    BY <2>8 DEF Exit
  <2>9. CASE UNCHANGED lcVars
    BY <2>9 DEF lcVars
  <2> QED
    BY <2>1, <2>2, <2>3, <2>4, <2>5, <2>6, <2>7, <2>8, <2>9 DEF LcNext
<1>3. LcInv => LifecycleRight
  <2> SUFFICES ASSUME LcInv PROVE LifecycleRight
    OBVIOUS
  <2>1. DependenciesUp
    BY OrderHasDependencies DEF LcInv, DependenciesUp
  <2>2. lcPhase = "exited" => Range(started) = {}
    BY DEF LcInv, Range
  <2> QED
    BY <2>1, <2>2 DEF LcInv, LifecycleRight, StoppedOnce
<1> QED
  BY <1>1, <1>2, <1>3, PTL DEF LcSpec

-----------------------------------------------------------------------------
(***************************************************************************)
(* The inlet: where the packets are.                                       *)
(***************************************************************************)
InSockets == {p \in Nat : \E w \in UdpWorkers : \E i \in 1..Len(sockets[w]) : sockets[w][i] = p}

Sending(w) == inWorkers[w].state \in {"send", "produce"}

AtWorkers == {p \in Nat : \E w \in InletWorkers : Sending(w) /\ inWorkers[w].packet = p}

InClient == {p \in Nat : \E r \in inFlight : r.packet = p}

(* Each packet is at one place.                                            *)
Spread(total, s, w, c, f) ==
  /\ s \cup w \cup c \cup f = 1..total
  /\ s \cap w = {} /\ s \cap c = {} /\ s \cap f = {}
  /\ w \cap c = {} /\ w \cap f = {} /\ c \cap f = {}

PacketsInv ==
  /\ packets \in Nat
  /\ Spread(packets, InSockets, AtWorkers, InClient, DOMAIN fates)

(* And at this place, it is once.                                          *)
SocketsInv ==
  /\ sockets \in [UdpWorkers -> Seq(Nat)]
  /\ \A w \in UdpWorkers : Len(sockets[w]) <= SocketSize
  /\ \A v, w \in UdpWorkers : \A i \in 1..Len(sockets[v]), j \in 1..Len(sockets[w]) :
       sockets[v][i] = sockets[w][j] => v = w /\ i = j

WorkersInv ==
  /\ inWorkers = [w \in InletWorkers |-> inWorkers[w]]
  /\ \A w \in InletWorkers : Sending(w) => inWorkers[w].packet \in Nat
  /\ \A v, w \in InletWorkers :
       Sending(v) /\ Sending(w) /\ inWorkers[v].packet = inWorkers[w].packet => v = w

ClientInv ==
  /\ \A r \in inFlight : r \in [buffer : Buffers, packet : Nat]
  /\ \A q, r \in inFlight : q.packet = r.packet => q = r

(* A buffer is free, with a worker that has filled it, or in the client.   *)
BuffersInv ==
  /\ freeBuffers \subseteq Buffers /\ payloads \in [Buffers -> Nat]
  /\ \A w \in InletWorkers : inWorkers[w].state = "produce" =>
       /\ inWorkers[w].buffer \in Buffers \ freeBuffers
       /\ payloads[inWorkers[w].buffer] = inWorkers[w].packet
       /\ \A v \in InletWorkers :
            inWorkers[v].state = "produce" /\ inWorkers[v].buffer = inWorkers[w].buffer => v = w
       /\ \A r \in inFlight : r.buffer # inWorkers[w].buffer
  /\ \A r \in inFlight : r.buffer \notin freeBuffers /\ payloads[r.buffer] = r.packet
  /\ \A q, r \in inFlight : q.buffer = r.buffer => q = r

StoppedInv ==
  /\ conns \in {UdpWorkers, {}}
  /\ \A w \in UdpWorkers : w \notin conns => sockets[w] = <<>>
  /\ inPhase \in {"up", "dying", "flowStopped", "closed"}
  /\ inPhase \in {"flowStopped", "closed"} => \A w \in InletWorkers : inWorkers[w].state = "stopped"

InletInv ==
  PacketsInv /\ SocketsInv /\ WorkersInv /\ ClientInv /\ BuffersInv /\ StoppedInv

LEMMA InletInitially == InletInit => InletInv
<1> SUFFICES ASSUME InletInit PROVE InletInv
  OBVIOUS
<1> USE DEF InletInit
<1>1. DOMAIN fates = {}
  OBVIOUS
<1>2. InSockets = {} /\ AtWorkers = {} /\ InClient = {}
  BY DEF InSockets, AtWorkers, Sending, InClient, Waiting
<1>3. PacketsInv
  BY <1>1, <1>2 DEF PacketsInv, Spread
<1>4. SocketsInv /\ ClientInv
  BY InletAssumption DEF SocketsInv, ClientInv
<1>5. WorkersInv /\ BuffersInv /\ StoppedInv
  BY DEF WorkersInv, BuffersInv, StoppedInv, Sending, Waiting
<1> QED
  BY <1>3, <1>4, <1>5 DEF InletInv

(* A packet that is added to a socket, or the first one taken from it.     *)
LEMMA SocketGets ==
  ASSUME SocketsInv, NEW w \in UdpWorkers, NEW p \in Nat, p \notin InSockets,
         Len(sockets[w]) < SocketSize,
         sockets' = [sockets EXCEPT ![w] = Append(@, p)]
  PROVE  SocketsInv' /\ InSockets' = InSockets \cup {p}
<1>1. /\ sockets[w] \in Seq(Nat) /\ Len(sockets[w]) \in Nat
      /\ sockets \in [UdpWorkers -> Seq(Nat)]
  BY DEF SocketsInv
<1>2. /\ sockets' \in [UdpWorkers -> Seq(Nat)] /\ sockets'[w] = Append(sockets[w], p)
      /\ \A v \in UdpWorkers \ {w} : sockets'[v] = sockets[v]
  BY <1>1
<1>3. /\ Len(sockets'[w]) = Len(sockets[w]) + 1
      /\ \A i \in 1..Len(sockets[w]) : sockets'[w][i] = sockets[w][i]
      /\ sockets'[w][Len(sockets[w]) + 1] = p
  BY <1>1, <1>2
<1>4. \A v \in UdpWorkers : Len(sockets'[v]) <= SocketSize
  BY <1>1, <1>2, <1>3, InletAssumption DEF SocketsInv
<1>5. \A v \in UdpWorkers : \A i \in 1..Len(sockets'[v]) :
        \/ v = w /\ i = Len(sockets[w]) + 1 /\ sockets'[v][i] = p
        \/ i \in 1..Len(sockets[v]) /\ sockets'[v][i] = sockets[v][i] /\ sockets[v][i] # p
  <2> SUFFICES ASSUME NEW v \in UdpWorkers, NEW i \in 1..Len(sockets'[v])
               PROVE \/ v = w /\ i = Len(sockets[w]) + 1 /\ sockets'[v][i] = p
                     \/ i \in 1..Len(sockets[v]) /\ sockets'[v][i] = sockets[v][i] /\ sockets[v][i] # p
    OBVIOUS
  <2>1. \A j \in 1..Len(sockets[v]) : sockets[v][j] \in Nat /\ sockets[v][j] # p
    BY <1>1 DEF InSockets
  <2>2. CASE v # w
    BY <1>2, <2>1, <2>2
  <2>3. CASE v = w
    BY <1>1, <1>3, <2>1, <2>3
  <2> QED
    BY <2>2, <2>3
<1>6. \A v, u \in UdpWorkers : \A i \in 1..Len(sockets'[v]), j \in 1..Len(sockets'[u]) :
        sockets'[v][i] = sockets'[u][j] => v = u /\ i = j
  BY <1>5 DEF SocketsInv
<1>7. InSockets' \subseteq InSockets \cup {p}
  BY <1>5 DEF InSockets
<1>8. p \in InSockets'
  <2>1. Len(sockets[w]) + 1 \in 1..Len(sockets'[w])
    BY <1>1, <1>3
  <2> QED
    BY <1>3, <2>1 DEF InSockets
<1>9. ASSUME NEW v \in UdpWorkers, NEW i \in 1..Len(sockets[v])
      PROVE i \in 1..Len(sockets'[v]) /\ sockets'[v][i] = sockets[v][i]
  BY <1>1, <1>2, <1>3
<1>10. InSockets \subseteq InSockets'
  BY <1>9 DEF InSockets
<1>11. InSockets' = InSockets \cup {p}
  BY <1>7, <1>8, <1>10
<1>12. SocketsInv'
  BY <1>2, <1>4, <1>6 DEF SocketsInv
<1> QED
  BY <1>11, <1>12

LEMMA SocketGives ==
  ASSUME SocketsInv, NEW w \in UdpWorkers, sockets[w] # <<>>,
         sockets' = [sockets EXCEPT ![w] = Tail(@)]
  PROVE  /\ SocketsInv' /\ Head(sockets[w]) \in InSockets
         /\ InSockets' = InSockets \ {Head(sockets[w])}
<1> DEFINE p == Head(sockets[w])
<1>1. /\ sockets[w] \in Seq(Nat) /\ Len(sockets[w]) \in Nat \ {0}
      /\ sockets \in [UdpWorkers -> Seq(Nat)] /\ p = sockets[w][1] /\ p \in Nat
  BY DEF SocketsInv
<1>2. /\ sockets' \in [UdpWorkers -> Seq(Nat)] /\ sockets'[w] = Tail(sockets[w])
      /\ \A v \in UdpWorkers \ {w} : sockets'[v] = sockets[v]
  BY <1>1
<1>3. /\ Len(sockets'[w]) = Len(sockets[w]) - 1
      /\ \A i \in 1..(Len(sockets[w]) - 1) : sockets'[w][i] = sockets[w][i + 1]
  BY <1>1, <1>2
<1> HIDE DEF p
<1> DEFINE Old(v, i) == IF v = w THEN i + 1 ELSE i
<1>4. \A v \in UdpWorkers : Len(sockets[v]) \in Nat /\ Len(sockets'[v]) \in Nat
  BY <1>1, <1>2
<1>5. ASSUME NEW v \in UdpWorkers, NEW i \in 1..Len(sockets'[v])
      PROVE /\ Old(v, i) \in 1..Len(sockets[v]) /\ sockets'[v][i] = sockets[v][Old(v, i)]
            /\ v = w => Old(v, i) # 1
  BY <1>1, <1>2, <1>3, <1>4
<1>6. 1 \in 1..Len(sockets[w])
  BY <1>1
<1>7. \A v \in UdpWorkers : \A i \in 1..Len(sockets[v]) :
        sockets[v][i] = p => v = w /\ i = 1
  BY <1>1, <1>6 DEF SocketsInv
<1>8. \A v \in UdpWorkers : Len(sockets'[v]) <= SocketSize
  BY <1>1, <1>2, <1>3, InletAssumption DEF SocketsInv
<1>9. ASSUME NEW v \in UdpWorkers, NEW u \in UdpWorkers,
             NEW i \in 1..Len(sockets'[v]), NEW j \in 1..Len(sockets'[u]),
             sockets'[v][i] = sockets'[u][j]
      PROVE v = u /\ i = j
  <2>1. Old(v, i) \in 1..Len(sockets[v]) /\ Old(u, j) \in 1..Len(sockets[u])
    BY <1>5
  <2>2. sockets[v][Old(v, i)] = sockets[u][Old(u, j)]
    BY <1>5, <1>9
  <2>3. v = u /\ Old(v, i) = Old(u, j)
    BY <2>1, <2>2 DEF SocketsInv
  <2> QED
    BY <1>4, <2>3
<1>10. InSockets' \subseteq InSockets \ {p}
  <2> SUFFICES ASSUME NEW v \in UdpWorkers, NEW i \in 1..Len(sockets'[v]), sockets'[v][i] \in Nat
               PROVE sockets'[v][i] \in InSockets /\ sockets'[v][i] # p
    BY DEF InSockets
  <2>1. /\ Old(v, i) \in 1..Len(sockets[v]) /\ sockets'[v][i] = sockets[v][Old(v, i)]
        /\ v = w => Old(v, i) # 1
    BY <1>5
  <2> QED
    BY <1>7, <2>1 DEF InSockets
<1>11. InSockets \ {p} \subseteq InSockets'
  <2> SUFFICES ASSUME NEW v \in UdpWorkers, NEW i \in 1..Len(sockets[v]), sockets[v][i] \in Nat,
                      sockets[v][i] # p
               PROVE sockets[v][i] \in InSockets'
    BY DEF InSockets
  <2>1. CASE v # w
    <3>1. sockets'[v] = sockets[v]
      BY <1>2, <2>1
    <3> QED
      BY <3>1 DEF InSockets
  <2>2. CASE v = w
    <3>1. i # 1
      BY <1>1, <2>2
    <3>2. i - 1 \in 1..Len(sockets'[w]) /\ sockets'[w][i - 1] = sockets[w][(i - 1) + 1]
      BY <1>1, <1>3, <2>2, <3>1
    <3>3. (i - 1) + 1 = i
      OBVIOUS
    <3> QED
      BY <2>2, <3>2, <3>3 DEF InSockets
  <2> QED
    BY <2>1, <2>2
<1>12. p \in InSockets
  BY <1>1, <1>6 DEF InSockets
<1> QED
  BY <1>2, <1>8, <1>9, <1>10, <1>11, <1>12 DEF SocketsInv, p

(* A worker that did not send takes a packet, and leaves it to the client. *)
LEMMA WorkerTakes ==
  ASSUME WorkersInv, NEW w \in InletWorkers, ~Sending(w), NEW p \in Nat, p \notin AtWorkers,
         inWorkers' = [inWorkers EXCEPT ![w] = [state |-> "send", packet |-> p]]
  PROVE  WorkersInv' /\ AtWorkers' = AtWorkers \cup {p}
<1>1. /\ inWorkers' = [v \in InletWorkers |-> inWorkers'[v]]
      /\ inWorkers'[w] = [state |-> "send", packet |-> p]
      /\ \A v \in InletWorkers \ {w} : inWorkers'[v] = inWorkers[v]
  BY DEF WorkersInv
<1>2. /\ Sending(w)' /\ inWorkers'[w].packet = p
      /\ \A v \in InletWorkers \ {w} : Sending(v)' <=> Sending(v)
  BY <1>1 DEF Sending
<1>3. \A v \in InletWorkers : Sending(v) => inWorkers[v].packet # p
  BY DEF AtWorkers
<1>4. WorkersInv'
  BY <1>1, <1>2, <1>3 DEF WorkersInv
<1>5. AtWorkers' = AtWorkers \cup {p}
  BY <1>1, <1>2 DEF AtWorkers
<1> QED
  BY <1>4, <1>5

LEMMA WorkerLeaves ==
  ASSUME WorkersInv, NEW w \in InletWorkers, Sending(w), NEW after,
         after.state \notin {"send", "produce"}, inWorkers' = [inWorkers EXCEPT ![w] = after]
  PROVE  WorkersInv' /\ AtWorkers' = AtWorkers \ {inWorkers[w].packet}
<1>1. /\ inWorkers' = [v \in InletWorkers |-> inWorkers'[v]]
      /\ inWorkers'[w] = after
      /\ \A v \in InletWorkers \ {w} : inWorkers'[v] = inWorkers[v]
  BY DEF WorkersInv
<1>2. /\ ~Sending(w)'
      /\ \A v \in InletWorkers \ {w} : Sending(v)' <=> Sending(v)
  BY <1>1 DEF Sending
<1>3. \A v \in InletWorkers \ {w} :
        Sending(v) => inWorkers[v].packet # inWorkers[w].packet
  BY DEF WorkersInv
<1>4. WorkersInv'
  BY <1>1, <1>2 DEF WorkersInv
<1>5. AtWorkers' = AtWorkers \ {inWorkers[w].packet}
  BY <1>1, <1>2, <1>3 DEF AtWorkers
<1> QED
  BY <1>4, <1>5

(* Other changes of a worker: it has what it had, or nothing.              *)
LEMMA WorkerStays ==
  ASSUME WorkersInv, NEW w \in InletWorkers, NEW after,
         inWorkers' = [inWorkers EXCEPT ![w] = after],
         \/ /\ Sending(w) /\ after.state \in {"send", "produce"}
            /\ after.packet = inWorkers[w].packet
         \/ ~Sending(w) /\ after.state \notin {"send", "produce"}
  PROVE  WorkersInv' /\ AtWorkers' = AtWorkers
<1>1. /\ inWorkers' = [v \in InletWorkers |-> inWorkers'[v]]
      /\ inWorkers'[w] = after
      /\ \A v \in InletWorkers \ {w} : inWorkers'[v] = inWorkers[v]
  BY DEF WorkersInv
<1>2. \A v \in InletWorkers :
        /\ Sending(v)' <=> Sending(v)
        /\ Sending(v) => inWorkers'[v].packet = inWorkers[v].packet
  BY <1>1 DEF Sending
<1>3. WorkersInv'
  BY <1>1, <1>2 DEF WorkersInv
<1>4. AtWorkers' = AtWorkers
  BY <1>2 DEF AtWorkers
<1> QED
  BY <1>3, <1>4

LEMMA ClientGets ==
  ASSUME ClientInv, NEW r \in [buffer : Buffers, packet : Nat], r.packet \notin InClient,
         inFlight' = inFlight \cup {r}
  PROVE  ClientInv' /\ InClient' = InClient \cup {r.packet}
<1>1. \A q \in inFlight : q.packet \in Nat /\ q.packet # r.packet
  BY DEF ClientInv, InClient
<1>2. ClientInv'
  BY <1>1 DEF ClientInv
<1>3. InClient' = InClient \cup {r.packet}
  BY DEF InClient
<1> QED
  BY <1>2, <1>3

LEMMA ClientGives ==
  ASSUME ClientInv, NEW r \in inFlight, inFlight' = inFlight \ {r}
  PROVE  /\ ClientInv' /\ r.packet \in InClient /\ InClient' = InClient \ {r.packet}
<1>1. r.packet \in Nat /\ \A q \in inFlight \ {r} : q.packet # r.packet
  BY DEF ClientInv
<1>2. ClientInv'
  BY DEF ClientInv
<1>3. r.packet \in InClient
  BY <1>1 DEF InClient
<1>4. InClient' = InClient \ {r.packet}
  BY <1>1 DEF InClient
<1> QED
  BY <1>2, <1>3, <1>4

(* A fate that is settled.                                                 *)
LEMMA FateSettled ==
  ASSUME NEW ps, NEW fate, fates' = Settled(ps, fate)
  PROVE  DOMAIN fates' = DOMAIN fates \cup ps
BY DEF Settled

(* Moves: a packet comes in, or goes from a place to another one.          *)
LEMMA Comes ==
  ASSUME NEW total \in Nat, NEW s, NEW w, NEW c, NEW f, Spread(total, s, w, c, f)
  PROVE  /\ total + 1 \notin s /\ total + 1 \notin w
         /\ Spread(total + 1, s \cup {total + 1}, w, c, f)
         /\ Spread(total + 1, s, w \cup {total + 1}, c, f)
         /\ Spread(total + 1, s, w, c, f \cup {total + 1})
<1> DEFINE m == total + 1
           all == 1..total
           more == 1..(total + 1)
<1>1. m \notin all /\ more = all \cup {m}
  OBVIOUS
<1>2. /\ s \cup w \cup c \cup f = all
      /\ s \cap w = {} /\ s \cap c = {} /\ s \cap f = {}
      /\ w \cap c = {} /\ w \cap f = {} /\ c \cap f = {}
  BY DEF Spread
<1> HIDE DEF m, all, more
<1>3. m \notin s /\ m \notin w /\ m \notin c /\ m \notin f
  BY <1>1, <1>2
<1>4. /\ (s \cup {m}) \cup w \cup c \cup f = more
      /\ s \cup (w \cup {m}) \cup c \cup f = more
      /\ s \cup w \cup c \cup (f \cup {m}) = more
  BY <1>1, <1>2
<1> QED
  BY <1>2, <1>3, <1>4 DEF Spread, m, more

LEMMA Moves ==
  ASSUME NEW total, NEW s, NEW w, NEW c, NEW f, Spread(total, s, w, c, f), NEW p
  PROVE  /\ p \in s => Spread(total, s \ {p}, w \cup {p}, c, f)
         /\ p \in w => Spread(total, s, w \ {p}, c \cup {p}, f)
         /\ p \in c => Spread(total, s, w, c \ {p}, f \cup {p})
BY DEF Spread

(* What does not change stays where it was.                                *)
LEMMA SocketsStay ==
  ASSUME SocketsInv, UNCHANGED sockets
  PROVE  SocketsInv' /\ InSockets' = InSockets
BY DEF SocketsInv, InSockets

LEMMA AllWorkersStay ==
  ASSUME WorkersInv, UNCHANGED inWorkers
  PROVE  WorkersInv' /\ AtWorkers' = AtWorkers
BY DEF WorkersInv, AtWorkers, Sending

LEMMA ClientStays ==
  ASSUME ClientInv, UNCHANGED inFlight
  PROVE  ClientInv' /\ InClient' = InClient
BY DEF ClientInv, InClient

LEMMA ArrivesKeeps ==
  ASSUME InletInv, PacketArrives
  PROVE  InletInv'
<1> USE DEF InletInv
<1>1. /\ packets' = packets + 1 /\ packets \in Nat /\ packets + 1 \in Nat
      /\ UNCHANGED <<inPhase, conns, inWorkers, freeBuffers, payloads, inFlight>>
  BY DEF PacketArrives, PacketsInv
<1>2. /\ WorkersInv' /\ AtWorkers' = AtWorkers /\ ClientInv' /\ InClient' = InClient
  BY <1>1, AllWorkersStay, ClientStays
<1>3. BuffersInv'
  BY <1>1 DEF BuffersInv
<1>4. /\ packets + 1 \notin InSockets
      /\ Spread(packets + 1, InSockets \cup {packets + 1}, AtWorkers, InClient, DOMAIN fates)
      /\ Spread(packets + 1, InSockets, AtWorkers, InClient, DOMAIN fates \cup {packets + 1})
  BY Comes DEF PacketsInv
<1>5. PICK w \in conns :
        IF Len(sockets[w]) < SocketSize
        THEN sockets' = [sockets EXCEPT ![w] = Append(@, packets + 1)] /\ UNCHANGED fates
        ELSE fates' = Settled({packets + 1}, "dropped") /\ UNCHANGED sockets
  BY DEF PacketArrives
<1>6. w \in UdpWorkers
  BY DEF StoppedInv
<1>7. CASE Len(sockets[w]) < SocketSize
  <2>1. SocketsInv' /\ InSockets' = InSockets \cup {packets + 1} /\ fates' = fates
    BY <1>1, <1>4, <1>5, <1>6, <1>7, SocketGets
  <2>2. PacketsInv'
    BY <1>1, <1>2, <1>4, <2>1 DEF PacketsInv
  <2>3. StoppedInv'
    BY <1>1, <1>5, <1>6, <1>7 DEF StoppedInv, SocketsInv
  <2> QED
    BY <1>2, <1>3, <2>1, <2>2, <2>3
<1>8. CASE ~(Len(sockets[w]) < SocketSize)
  <2>1. SocketsInv' /\ InSockets' = InSockets /\ UNCHANGED sockets
    BY <1>5, <1>8, SocketsStay
  <2>2. DOMAIN fates' = DOMAIN fates \cup {packets + 1}
    BY <1>5, <1>8, FateSettled
  <2>3. PacketsInv'
    BY <1>1, <1>2, <1>4, <2>1, <2>2 DEF PacketsInv
  <2>4. StoppedInv'
    BY <1>1, <2>1 DEF StoppedInv
  <2> QED
    BY <1>2, <1>3, <2>1, <2>3, <2>4
<1> QED
  BY <1>7, <1>8

LEMMA ReadKeeps ==
  ASSUME InletInv, NEW w \in UdpWorkers, ReadMsgUDP(w)
  PROVE  InletInv'
<1> USE DEF InletInv
<1> DEFINE p == Head(sockets[w])
<1>1. /\ inWorkers[w].state = "idle" /\ w \in conns /\ sockets[w] # <<>>
      /\ inWorkers' = [inWorkers EXCEPT ![w] = [state |-> "send", packet |-> p]]
      /\ sockets' = [sockets EXCEPT ![w] = Tail(@)]
      /\ UNCHANGED <<inPhase, conns, freeBuffers, payloads, inFlight, packets, fates>>
  BY DEF ReadMsgUDP
<1>2. w \in InletWorkers /\ ~Sending(w)
  BY <1>1 DEF InletWorkers, Sending
<1>3. SocketsInv' /\ p \in InSockets /\ InSockets' = InSockets \ {p}
  BY <1>1, SocketGives
<1>4. p \in Nat /\ p \notin AtWorkers
  BY <1>3 DEF InSockets, PacketsInv, Spread
<1>5. WorkersInv' /\ AtWorkers' = AtWorkers \cup {p}
  BY <1>1, <1>2, <1>4, WorkerTakes
<1>6. ClientInv' /\ InClient' = InClient
  BY <1>1, ClientStays
<1> HIDE DEF p
<1>7. PacketsInv'
  <2>1. Spread(packets, InSockets \ {p}, AtWorkers \cup {p}, InClient, DOMAIN fates)
    BY <1>3, Moves DEF PacketsInv
  <2> QED
    BY <1>1, <1>3, <1>5, <1>6, <2>1 DEF PacketsInv
<1>8. \A v \in InletWorkers : inWorkers'[v].state = "produce" =>
        inWorkers[v].state = "produce" /\ inWorkers'[v] = inWorkers[v]
  BY <1>1, <1>2 DEF WorkersInv
<1>9. BuffersInv'
  BY <1>1, <1>8 DEF BuffersInv
<1>10. StoppedInv'
  BY <1>1, <1>2 DEF StoppedInv, SocketsInv
<1> QED
  BY <1>3, <1>5, <1>6, <1>7, <1>9, <1>10

(* The file input gives a packet of its own.                               *)
LEMMA ReadFileKeeps ==
  ASSUME InletInv, ReadFile
  PROVE  InletInv'
<1> USE DEF InletInv
<1> DEFINE p == packets + 1
<1>1. /\ inWorkers["file"].state = "idle" /\ "file" \in InletWorkers
      /\ inWorkers' = [inWorkers EXCEPT !["file"] = [state |-> "send", packet |-> p]]
      /\ packets' = p /\ packets \in Nat /\ p \in Nat
      /\ UNCHANGED <<inPhase, sockets, conns, freeBuffers, payloads, inFlight, fates>>
  BY DEF ReadFile, PacketsInv, InletWorkers
<1>2. ~Sending("file")
  BY <1>1 DEF Sending
<1>3. /\ p \notin AtWorkers
      /\ Spread(p, InSockets, AtWorkers \cup {p}, InClient, DOMAIN fates)
  BY Comes DEF PacketsInv
<1> HIDE DEF p
<1>4. WorkersInv' /\ AtWorkers' = AtWorkers \cup {p}
  BY <1>1, <1>2, <1>3, WorkerTakes
<1>5. SocketsInv' /\ InSockets' = InSockets /\ ClientInv' /\ InClient' = InClient
  BY <1>1, SocketsStay, ClientStays
<1>6. PacketsInv'
  BY <1>1, <1>3, <1>4, <1>5 DEF PacketsInv
<1>7. \A v \in InletWorkers : inWorkers'[v].state = "produce" =>
        inWorkers[v].state = "produce" /\ inWorkers'[v] = inWorkers[v]
  BY <1>1 DEF WorkersInv
<1>8. BuffersInv'
  BY <1>1, <1>7 DEF BuffersInv
<1>9. StoppedInv'
  BY <1>1 DEF StoppedInv
<1> QED
  BY <1>4, <1>5, <1>6, <1>8, <1>9

(* A worker that ends, or that is done with its packet.                    *)
LEMMA EndKeeps ==
  ASSUME InletInv, NEW w \in InletWorkers, inWorkers[w].state \in {"idle", "sent"},
         NEW after \in {Waiting, Stopped},
         inWorkers' = [inWorkers EXCEPT ![w] = after],
         UNCHANGED <<inPhase, sockets, conns, freeBuffers, payloads, inFlight, packets, fates>>
  PROVE  InletInv'
<1> USE DEF InletInv
<1>1. after.state \notin {"send", "produce"} /\ ~Sending(w)
  BY DEF Waiting, Stopped, Sending
<1>2. WorkersInv' /\ AtWorkers' = AtWorkers
  BY <1>1, WorkerStays
<1>3. SocketsInv' /\ InSockets' = InSockets /\ ClientInv' /\ InClient' = InClient
  BY SocketsStay, ClientStays
<1>4. PacketsInv'
  BY <1>2, <1>3 DEF PacketsInv
<1>5. \A v \in InletWorkers : inWorkers'[v].state = "produce" =>
        inWorkers[v].state = "produce" /\ inWorkers'[v] = inWorkers[v]
  BY <1>1 DEF WorkersInv
<1>6. BuffersInv'
  BY <1>5 DEF BuffersInv
<1>7. StoppedInv'
  BY DEF StoppedInv
<1> QED
  BY <1>2, <1>3, <1>4, <1>6, <1>7

LEMMA MarshalKeeps ==
  ASSUME InletInv, NEW w \in InletWorkers, Marshal(w)
  PROVE  InletInv'
<1> USE DEF InletInv
<1>1. PICK b \in freeBuffers :
        /\ freeBuffers' = freeBuffers \ {b}
        /\ payloads' = [payloads EXCEPT ![b] = inWorkers[w].packet]
        /\ inWorkers' = [inWorkers EXCEPT ![w] =
             [state |-> "produce", packet |-> inWorkers[w].packet, buffer |-> b]]
  BY DEF Marshal
<1>2. /\ inWorkers[w].state = "send" /\ Sending(w)
      /\ UNCHANGED <<inPhase, sockets, conns, inFlight, packets, fates>>
  BY DEF Marshal, Sending
<1> DEFINE after == [state |-> "produce", packet |-> inWorkers[w].packet, buffer |-> b]
<1>3. WorkersInv' /\ AtWorkers' = AtWorkers
  BY <1>1, <1>2, WorkerStays
<1>4. SocketsInv' /\ InSockets' = InSockets /\ ClientInv' /\ InClient' = InClient
  BY <1>2, SocketsStay, ClientStays
<1>5. PacketsInv'
  BY <1>2, <1>3, <1>4 DEF PacketsInv
<1>6. inWorkers[w].packet \in Nat /\ b \in Buffers
  BY <1>2 DEF WorkersInv, BuffersInv
<1>7. /\ inWorkers'[w] = after
      /\ \A v \in InletWorkers \ {w} : inWorkers'[v] = inWorkers[v]
  BY <1>1 DEF WorkersInv
<1>8. /\ payloads' \in [Buffers -> Nat] /\ payloads'[b] = inWorkers[w].packet
      /\ \A a \in Buffers \ {b} : payloads'[a] = payloads[a]
  BY <1>1, <1>6 DEF BuffersInv
<1>9. BuffersInv'
  BY <1>1, <1>2, <1>6, <1>7, <1>8 DEF BuffersInv, ClientInv
<1>10. StoppedInv'
  BY <1>2 DEF StoppedInv
<1> QED
  BY <1>3, <1>4, <1>5, <1>9, <1>10

LEMMA ProduceKeeps ==
  ASSUME InletInv, NEW w \in InletWorkers, Produce(w)
  PROVE  InletInv'
<1> USE DEF InletInv
<1> DEFINE p == inWorkers[w].packet
           r == [buffer |-> inWorkers[w].buffer, packet |-> p]
<1>1. /\ inWorkers[w].state = "produce" /\ Sending(w)
      /\ inFlight' = inFlight \cup {r} /\ freeBuffers' = freeBuffers
      /\ inWorkers' = [inWorkers EXCEPT ![w] = [state |-> "sent"]]
      /\ UNCHANGED <<inPhase, sockets, conns, payloads, packets, fates>>
  BY DEF Produce, Released, Sending
<1>2. p \in Nat /\ inWorkers[w].buffer \in Buffers /\ p \in AtWorkers
  BY <1>1 DEF WorkersInv, BuffersInv, AtWorkers
<1>3. WorkersInv' /\ AtWorkers' = AtWorkers \ {p}
  <2>1. [state |-> "sent"].state \notin {"send", "produce"}
    OBVIOUS
  <2> QED
    BY <1>1, <2>1, WorkerLeaves
<1>4. r \in [buffer : Buffers, packet : Nat] /\ r.packet = p /\ p \notin InClient
      /\ r.buffer = inWorkers[w].buffer
  BY <1>2 DEF PacketsInv, Spread
<1> HIDE DEF r
<1>5. ClientInv' /\ InClient' = InClient \cup {p}
  BY <1>1, <1>4, ClientGets
<1>6. SocketsInv' /\ InSockets' = InSockets
  BY <1>1, SocketsStay
<1>7. PacketsInv'
  <2>1. Spread(packets, InSockets, AtWorkers \ {p}, InClient \cup {p}, DOMAIN fates)
    BY <1>2, Moves DEF PacketsInv
  <2> QED
    BY <1>1, <1>3, <1>5, <1>6, <2>1 DEF PacketsInv
<1>8. \A v \in InletWorkers : inWorkers'[v].state = "produce" =>
        inWorkers[v].state = "produce" /\ inWorkers'[v] = inWorkers[v] /\ v # w
  BY <1>1 DEF WorkersInv
<1>9. BuffersInv'
  BY <1>1, <1>2, <1>4, <1>8 DEF BuffersInv
<1>10. StoppedInv'
  BY <1>1 DEF StoppedInv
<1> QED
  BY <1>3, <1>5, <1>6, <1>7, <1>9, <1>10

LEMMA CallbackKeeps ==
  ASSUME InletInv, NEW r \in inFlight, Callback(r)
  PROVE  InletInv'
<1> USE DEF InletInv
<1>1. /\ inFlight' = inFlight \ {r} /\ freeBuffers' = freeBuffers \cup {r.buffer}
      /\ fates' = Settled({payloads[r.buffer]}, "answered")
      /\ UNCHANGED <<inPhase, sockets, conns, inWorkers, payloads, packets>>
  BY DEF Callback
<1>2. payloads[r.buffer] = r.packet /\ r.buffer \in Buffers
  BY DEF BuffersInv, ClientInv
<1>3. DOMAIN fates' = DOMAIN fates \cup {r.packet}
  BY <1>1, <1>2, FateSettled
<1>4. ClientInv' /\ r.packet \in InClient /\ InClient' = InClient \ {r.packet}
  BY <1>1, ClientGives
<1>5. /\ SocketsInv' /\ InSockets' = InSockets /\ WorkersInv' /\ AtWorkers' = AtWorkers
  BY <1>1, SocketsStay, AllWorkersStay
<1>6. PacketsInv'
  <2> DEFINE p == r.packet
  <2>1. Spread(packets, InSockets, AtWorkers, InClient \ {p}, DOMAIN fates \cup {p})
    BY <1>4, Moves DEF PacketsInv
  <2> QED
    BY <1>1, <1>3, <1>4, <1>5, <2>1 DEF PacketsInv
<1>7. BuffersInv'
  BY <1>1, <1>2 DEF BuffersInv
<1>8. StoppedInv'
  BY <1>1 DEF StoppedInv
<1> QED
  BY <1>4, <1>5, <1>6, <1>7, <1>8

(* Sockets that are closed.                                                *)
LEMMA CloseKeeps ==
  ASSUME InletInv, CloseConns
  PROVE  InletInv'
<1> USE DEF InletInv
<1>1. /\ conns = UdpWorkers /\ conns' = {}
      /\ fates' = Settled(ClosedPackets, "dropped")
      /\ sockets' = [w \in UdpWorkers |-> <<>>]
      /\ UNCHANGED <<inPhase, inWorkers, freeBuffers, payloads, inFlight, packets>>
  BY DEF CloseConns, Closed
<1>2. ClosedPackets = InSockets
  BY <1>1 DEF ClosedPackets, Closed, InSockets, SocketsInv, Range
<1>3. DOMAIN fates' = DOMAIN fates \cup InSockets
  BY <1>1, <1>2, FateSettled
<1>4. InSockets' = {}
  BY <1>1 DEF InSockets
<1>5. SocketsInv'
  BY <1>1, InletAssumption DEF SocketsInv
<1>6. /\ WorkersInv' /\ AtWorkers' = AtWorkers /\ ClientInv' /\ InClient' = InClient
  BY <1>1, AllWorkersStay, ClientStays
<1>7. PacketsInv'
  BY <1>1, <1>3, <1>4, <1>6 DEF PacketsInv, Spread
<1>8. BuffersInv' /\ StoppedInv'
  BY <1>1 DEF BuffersInv, StoppedInv
<1> QED
  BY <1>5, <1>6, <1>7, <1>8

LEMMA KafkaStopsKeeps ==
  ASSUME InletInv, KafkaStops
  PROVE  InletInv'
<1> USE DEF InletInv
<1>1. /\ inPhase = "flowStopped" /\ inPhase' = "closed"
      /\ inFlight' = {} /\ freeBuffers' = freeBuffers \cup {r.buffer : r \in inFlight}
      /\ fates' = Settled({payloads[r.buffer] : r \in inFlight}, "answered")
      /\ UNCHANGED <<sockets, conns, inWorkers, payloads, packets>>
  BY DEF KafkaStops
<1>2. {payloads[r.buffer] : r \in inFlight} = InClient
  BY DEF BuffersInv, ClientInv, InClient
<1>3. DOMAIN fates' = DOMAIN fates \cup InClient
  BY <1>1, <1>2, FateSettled
<1>4. InClient' = {} /\ ClientInv'
  BY <1>1 DEF InClient, ClientInv
<1>5. /\ SocketsInv' /\ InSockets' = InSockets /\ WorkersInv' /\ AtWorkers' = AtWorkers
  BY <1>1, SocketsStay, AllWorkersStay
<1>6. PacketsInv'
  BY <1>1, <1>3, <1>4, <1>5 DEF PacketsInv, Spread
<1>7. \A w \in InletWorkers : inWorkers[w].state = "stopped"
  BY <1>1 DEF StoppedInv
<1>8. BuffersInv'
  BY <1>1, <1>7 DEF BuffersInv, ClientInv
<1>9. StoppedInv'
  BY <1>1, <1>7 DEF StoppedInv
<1> QED
  BY <1>4, <1>5, <1>6, <1>8, <1>9

LEMMA PhaseKeeps ==
  ASSUME InletInv, StopInlet \/ FlowStops \/ UNCHANGED inletVars
  PROVE  InletInv'
<1> USE DEF InletInv
<1>1. UNCHANGED <<sockets, conns, inWorkers, freeBuffers, payloads, inFlight, packets, fates>>
  BY DEF StopInlet, FlowStops, inletVars
<1>2. /\ SocketsInv' /\ InSockets' = InSockets /\ WorkersInv' /\ AtWorkers' = AtWorkers
      /\ ClientInv' /\ InClient' = InClient
  BY <1>1, SocketsStay, AllWorkersStay, ClientStays
<1>3. PacketsInv' /\ BuffersInv'
  BY <1>1, <1>2 DEF PacketsInv, BuffersInv
<1>4. StoppedInv'
  BY <1>1 DEF StopInlet, FlowStops, inletVars, StoppedInv, InputsDone, Stopped
<1> QED
  BY <1>2, <1>3, <1>4

(* One of the four sets is a single place, the others are empty.           *)
LEMMA OnePlace ==
  ASSUME InletInv, NEW p \in 1..packets
  PROVE  \E place \in Places(p) : Places(p) = {place}
<1> DEFINE S == {<<"socket", x>> : x \in {x \in UdpWorkers \X (1..SocketSize) :
                   x[2] <= Len(sockets[x[1]]) /\ sockets[x[1]][x[2]] = p}}
           W == {<<"worker", w>> : w \in {w \in InletWorkers :
                   inWorkers[w].state \in {"send", "produce"} /\ inWorkers[w].packet = p}}
           C == {<<"client", r>> : r \in {r \in inFlight : r.packet = p}}
           F == {<<"fate", q>> : q \in {p} \cap DOMAIN fates}
<1>1. Places(p) = S \cup W \cup C \cup F
  BY DEF Places
<1>2. p \in Nat /\ SocketSize \in Nat /\ packets \in Nat
  BY InletAssumption DEF InletInv, PacketsInv
<1>3. p \notin InSockets => S = {}
  <2> SUFFICES ASSUME NEW x \in UdpWorkers \X (1..SocketSize), x[2] <= Len(sockets[x[1]]),
                      sockets[x[1]][x[2]] = p
               PROVE p \in InSockets
    OBVIOUS
  <2>1. x[1] \in UdpWorkers /\ x[2] \in 1..SocketSize /\ Len(sockets[x[1]]) \in Nat
    BY DEF InletInv, SocketsInv
  <2>2. x[2] \in 1..Len(sockets[x[1]])
    BY <1>2, <2>1
  <2> QED
    BY <1>2, <2>1, <2>2 DEF InSockets
<1>4. p \notin AtWorkers => W = {}
  BY <1>2 DEF AtWorkers, Sending
<1>5. p \notin InClient => C = {}
  BY <1>2 DEF InClient
<1>6. p \notin DOMAIN fates => F = {}
  OBVIOUS
<1>7. /\ InSockets \cup AtWorkers \cup InClient \cup DOMAIN fates = 1..packets
      /\ InSockets \cap AtWorkers = {} /\ InSockets \cap InClient = {}
      /\ InSockets \cap DOMAIN fates = {} /\ AtWorkers \cap InClient = {}
      /\ AtWorkers \cap DOMAIN fates = {} /\ InClient \cap DOMAIN fates = {}
  BY DEF InletInv, PacketsInv, Spread
<1>8. CASE p \in InSockets
  <2>1. PICK w \in UdpWorkers : \E i \in 1..Len(sockets[w]) : sockets[w][i] = p
    BY <1>8 DEF InSockets
  <2>2. PICK i \in 1..Len(sockets[w]) : sockets[w][i] = p
    BY <2>1
  <2>3. /\ sockets[w] \in Seq(Nat) /\ Len(sockets[w]) \in Nat /\ Len(sockets[w]) <= SocketSize
    BY DEF InletInv, SocketsInv
  <2>4. i \in 1..SocketSize /\ i <= Len(sockets[w])
    BY <1>2, <2>3
  <2>5. <<w, i>> \in UdpWorkers \X (1..SocketSize) /\ <<w, i>>[1] = w /\ <<w, i>>[2] = i
    BY <2>4
  <2>6. <<"socket", <<w, i>>>> \in S
    BY <2>2, <2>4, <2>5
  <2>7. ASSUME NEW x \in UdpWorkers \X (1..SocketSize), x[2] <= Len(sockets[x[1]]),
               sockets[x[1]][x[2]] = p
        PROVE  x = <<w, i>>
    <3>1. /\ x[1] \in UdpWorkers /\ x[2] \in 1..SocketSize /\ Len(sockets[x[1]]) \in Nat
          /\ x = <<x[1], x[2]>>
      BY DEF InletInv, SocketsInv
    <3>2. x[2] \in 1..Len(sockets[x[1]])
      BY <1>2, <2>7, <3>1
    <3>3. x[1] = w /\ x[2] = i
      BY <2>2, <2>7, <3>1, <3>2 DEF InletInv, SocketsInv
    <3> QED
      BY <3>1, <3>3
  <2>8. S = {<<"socket", <<w, i>>>>}
    <3>1. ASSUME NEW y \in S PROVE y = <<"socket", <<w, i>>>>
      <4>1. PICK x \in UdpWorkers \X (1..SocketSize) :
              x[2] <= Len(sockets[x[1]]) /\ sockets[x[1]][x[2]] = p /\ y = <<"socket", x>>
        OBVIOUS
      <4> QED
        BY <2>7, <4>1
    <3> HIDE DEF S
    <3> QED
      BY <2>6, <3>1
  <2>9. W = {} /\ C = {} /\ F = {}
    BY <1>4, <1>5, <1>6, <1>7, <1>8
  <2> HIDE DEF S, W, C, F
  <2> QED
    BY <1>1, <2>8, <2>9
<1>9. CASE p \in AtWorkers
  <2>1. PICK w \in InletWorkers : Sending(w) /\ inWorkers[w].packet = p
    BY <1>9 DEF AtWorkers
  <2>2. \A v \in InletWorkers : Sending(v) /\ inWorkers[v].packet = p => v = w
    BY <2>1 DEF InletInv, WorkersInv
  <2>3. W = {<<"worker", w>>}
    BY <2>1, <2>2 DEF Sending
  <2>4. S = {} /\ C = {} /\ F = {}
    BY <1>3, <1>5, <1>6, <1>7, <1>9
  <2> HIDE DEF S, W, C, F
  <2> QED
    BY <1>1, <2>3, <2>4
<1>10. CASE p \in InClient
  <2>1. PICK r \in inFlight : r.packet = p
    BY <1>10 DEF InClient
  <2>2. \A q \in inFlight : q.packet = p => q = r
    BY <2>1 DEF InletInv, ClientInv
  <2>3. C = {<<"client", r>>}
    BY <2>1, <2>2
  <2>4. S = {} /\ W = {} /\ F = {}
    BY <1>3, <1>4, <1>6, <1>7, <1>10
  <2> HIDE DEF S, W, C, F
  <2> QED
    BY <1>1, <2>3, <2>4
<1>11. CASE p \in DOMAIN fates
  <2>1. F = {<<"fate", p>>}
    BY <1>11
  <2>2. S = {} /\ W = {} /\ C = {}
    BY <1>3, <1>4, <1>5, <1>7, <1>11
  <2> HIDE DEF S, W, C, F
  <2> QED
    BY <1>1, <2>1, <2>2
<1> QED
  BY <1>7, <1>8, <1>9, <1>10, <1>11

(* Inlet.InletRight, for all workers, all sizes of the pool, of the        *)
(* sockets and of the client: a buffer has the packet of its record until  *)
(* the client is done with it, nothing is sent after the stop, and each    *)
(* packet is at one place or its fate is known.                            *)
THEOREM InletIsRight == InletSpec => []InletRight
<1>1. InletInv /\ [InletNext]_inletVars => InletInv'
  <2> SUFFICES ASSUME InletInv, [InletNext]_inletVars PROVE InletInv'
    OBVIOUS
  <2>1. "file" \in InletWorkers
    BY DEF InletWorkers
  <2>2. ASSUME ReadFileFails \/ FileWaits PROVE InletInv'
    <3>1. /\ inWorkers["file"].state = "idle"
          /\ inWorkers' = [inWorkers EXCEPT !["file"] = Stopped]
          /\ UNCHANGED <<inPhase, sockets, conns, freeBuffers, payloads, inFlight, packets, fates>>
      BY <2>2 DEF ReadFileFails, FileWaits
    <3> QED
      BY <2>1, <3>1, EndKeeps
  <2>3. ASSUME NEW w \in UdpWorkers, ReadClosed(w) PROVE InletInv'
    <3>1. /\ inWorkers[w].state = "idle" /\ w \in InletWorkers
          /\ inWorkers' = [inWorkers EXCEPT ![w] = Stopped]
          /\ UNCHANGED <<inPhase, sockets, conns, freeBuffers, payloads, inFlight, packets, fates>>
      BY <2>3 DEF ReadClosed, InletWorkers
    <3> QED
      BY <3>1, EndKeeps
  <2>4. ASSUME NEW w \in InletWorkers, AfterSend(w) PROVE InletInv'
    <3> DEFINE after == IF inPhase = "up" THEN Waiting ELSE Stopped
    <3>1. /\ inWorkers[w].state = "sent" /\ after \in {Waiting, Stopped}
          /\ inWorkers' = [inWorkers EXCEPT ![w] = after]
          /\ UNCHANGED <<inPhase, sockets, conns, freeBuffers, payloads, inFlight, packets, fates>>
      BY <2>4 DEF AfterSend
    <3> HIDE DEF after
    <3> QED
      BY <3>1, EndKeeps
  <2> QED
    BY <2>2, <2>3, <2>4, ArrivesKeeps, ReadKeeps, ReadFileKeeps, MarshalKeeps, ProduceKeeps,
       CallbackKeeps, CloseKeeps, KafkaStopsKeeps, PhaseKeeps DEF InletNext
<1>2. InletInv => InletRight
  <2> SUFFICES ASSUME InletInv PROVE InletRight
    OBVIOUS
  <2>1. PayloadsIntact
    BY DEF InletInv, BuffersInv, PayloadsIntact
  <2>2. NothingSentAfterStop
    BY DEF InletInv, StoppedInv, NothingSentAfterStop
  <2>3. PacketsAccounted
    BY OnePlace DEF PacketsAccounted
  <2> QED
    BY <2>1, <2>2, <2>3 DEF InletRight
<1> QED
  BY <1>1, <1>2, InletInitially, PTL DEF InletSpec

-----------------------------------------------------------------------------
(***************************************************************************)
(* The export to Kafka: what became of each flow.                          *)
(***************************************************************************)
Whole(flow) == [i \in 1..Parts |-> flow]

FatesOf(f) == {x \in exportFates : x[1] = f}
BufferedOf(f) == {r \in buffered : r.flow = f}

(* One element in one of the two sets.                                     *)
One(A, B) == (\E x \in A : A = {x} /\ B = {}) \/ (\E x \in B : B = {x} /\ A = {})

(* An encoder has columns of its flow only.                                *)
Encodes(e, next) ==
  /\ e = [flow |-> e.flow, protobuf |-> e.protobuf, message |-> e.message]
  /\ e.flow \in Nat /\ e.flow < next
  /\ e.protobuf \in Seq(Nat) /\ Len(e.protobuf) <= Parts
  /\ \A i \in 1..Len(e.protobuf) : e.protobuf[i] = e.flow
  /\ e.flow = 0 => e.protobuf = <<>>

EncodersInv ==
  /\ nextExported \in Nat \ {0}
  /\ encoders = [w \in ExportWorkers |-> encoders[w]]
  /\ \A w \in ExportWorkers : Encodes(encoders[w], nextExported)
  /\ \A v, w \in ExportWorkers :
       encoders[v].flow # 0 /\ encoders[v].flow = encoders[w].flow => v = w

(* A flow that is encoded is not finalized, nor is one of the future.      *)
HandledInv ==
  /\ \A f \in Nat : <<f, "finalized">> \in handled => f < nextExported
  /\ \A w \in ExportWorkers :
       encoders[w].flow # 0 => <<encoders[w].flow, "finalized">> \notin handled

MessagesInv ==
  /\ \A r \in buffered : r.flow \in Nat /\ r.value = Whole(r.flow)
  /\ \A x \in exportFates : x[2] = "answered" => x[3] = Whole(x[1])

OutcomesInv ==
  \A f \in Nat :
    IF <<f, "finalized">> \in handled
    THEN One(FatesOf(f), BufferedOf(f))
    ELSE FatesOf(f) = {} /\ BufferedOf(f) = {}

FlushedInv ==
  /\ exportPhase \in {"up", "flushing", "closed"}
  /\ exportPhase # "up" => \A w \in ExportWorkers : encoders[w].flow = 0
  /\ exportPhase = "closed" => buffered = {}

ExportInv == EncodersInv /\ HandledInv /\ MessagesInv /\ OutcomesInv /\ FlushedInv

LEMMA ExportInitially == ExportInit => ExportInv
<1> SUFFICES ASSUME ExportInit PROVE ExportInv
  OBVIOUS
<1> USE DEF ExportInit
<1>1. EncodersInv
  <2>1. Encodes(NoExport, 1)
    BY DEF Encodes, NoExport, Parts
  <2>2. \A w \in ExportWorkers : encoders[w].flow = 0
    BY DEF NoExport
  <2> QED
    BY <2>1, <2>2 DEF EncodersInv
<1>2. HandledInv /\ MessagesInv /\ FlushedInv
  BY DEF HandledInv, MessagesInv, FlushedInv, NoExport
<1>3. OutcomesInv
  BY DEF OutcomesInv, FatesOf, BufferedOf
<1> QED
  BY <1>1, <1>2, <1>3 DEF ExportInv

(* The encoder of a worker has the same flow.                              *)
LEMMA AppendKeeps ==
  ASSUME ExportInv, NEW w \in ExportWorkers, AppendProtobuf(w)
  PROVE  ExportInv'
<1> USE DEF ExportInv
<1>1. PICK e : e = encoders[w]
  OBVIOUS
<1>2. PICK flow : flow = IF e.flow = 0 THEN nextExported ELSE e.flow
  OBVIOUS
<1> DEFINE after == Append(e.protobuf, flow)
<1>3. /\ exportPhase = "up" /\ Len(e.protobuf) < Parts
      /\ encoders' = [encoders EXCEPT ![w] = [e EXCEPT !.flow = flow, !.protobuf = after]]
      /\ nextExported' = IF e.flow = 0 THEN nextExported + 1 ELSE nextExported
      /\ UNCHANGED <<buffered, handled, exportFates, exportPhase>>
  BY <1>1, <1>2 DEF AppendProtobuf
<1>4. /\ e = [flow |-> e.flow, protobuf |-> e.protobuf, message |-> e.message]
      /\ e.flow \in Nat /\ e.flow < nextExported /\ nextExported \in Nat \ {0}
      /\ e.protobuf \in Seq(Nat) /\ Len(e.protobuf) \in Nat
      /\ \A i \in 1..Len(e.protobuf) : e.protobuf[i] = e.flow
      /\ e.flow = 0 => e.protobuf = <<>>
  BY <1>1 DEF EncodersInv, Encodes
<1>5. /\ flow \in Nat \ {0} /\ flow < nextExported' /\ nextExported' \in Nat \ {0}
      /\ nextExported <= nextExported'
  BY <1>2, <1>3, <1>4
<1>6. \A i \in 1..Len(e.protobuf) : e.protobuf[i] = flow
  BY <1>2, <1>4
<1>7. /\ after \in Seq(Nat) /\ Len(after) = Len(e.protobuf) + 1
      /\ \A i \in 1..Len(after) : after[i] = flow
  BY <1>4, <1>5, <1>6
<1>8. Len(after) <= Parts
  BY <1>3, <1>4, <1>7 DEF Parts
<1> HIDE DEF after
<1> DEFINE new == [flow |-> flow, protobuf |-> after, message |-> e.message]
<1>9. /\ encoders' = [v \in ExportWorkers |-> encoders'[v]] /\ encoders'[w] = new
      /\ \A v \in ExportWorkers \ {w} : encoders'[v] = encoders[v]
  BY <1>3, <1>4 DEF EncodersInv
<1>10. new.flow = flow /\ new.protobuf = after /\ new.message = e.message
  OBVIOUS
<1>11. Encodes(new, nextExported')
  <2>1. new = [flow |-> new.flow, protobuf |-> new.protobuf, message |-> new.message]
    OBVIOUS
  <2> HIDE DEF new
  <2> QED
    BY <1>5, <1>7, <1>8, <1>10, <2>1 DEF Encodes
<1> HIDE DEF new
<1>12. \A v \in ExportWorkers \ {w} : encoders[v].flow # flow
  <2> SUFFICES ASSUME NEW v \in ExportWorkers \ {w} PROVE encoders[v].flow # flow
    OBVIOUS
  <2>1. encoders[v].flow \in Nat /\ encoders[v].flow < nextExported
    BY DEF EncodersInv, Encodes
  <2>2. CASE e.flow = 0
    BY <1>2, <1>4, <2>1, <2>2
  <2>3. CASE e.flow # 0
    BY <1>1, <1>2, <2>3 DEF EncodersInv
  <2> QED
    BY <2>2, <2>3
<1>13. \A v \in ExportWorkers : Encodes(encoders'[v], nextExported')
  <2> SUFFICES ASSUME NEW v \in ExportWorkers, v # w PROVE Encodes(encoders'[v], nextExported')
    BY <1>9, <1>11
  <2>1. encoders'[v] = encoders[v] /\ Encodes(encoders[v], nextExported)
    BY <1>9 DEF EncodersInv
  <2>2. encoders[v].flow < nextExported'
    BY <1>4, <1>5, <2>1 DEF Encodes
  <2> QED
    BY <2>1, <2>2 DEF Encodes
<1>14. \A u, v \in ExportWorkers :
         encoders'[u].flow # 0 /\ encoders'[u].flow = encoders'[v].flow => u = v
  BY <1>9, <1>10, <1>12 DEF EncodersInv
<1>15. EncodersInv'
  BY <1>5, <1>9, <1>13, <1>14 DEF EncodersInv
<1>16. <<flow, "finalized">> \notin handled
  <2>1. CASE e.flow = 0
    BY <1>2, <1>4, <2>1 DEF HandledInv
  <2>2. CASE e.flow # 0
    BY <1>1, <1>2, <2>2 DEF HandledInv
  <2> QED
    BY <2>1, <2>2
<1>17. HandledInv'
  <2>1. ASSUME NEW f \in Nat, <<f, "finalized">> \in handled' PROVE f < nextExported'
    <3>1. f < nextExported
      BY <1>3, <2>1 DEF HandledInv
    <3> QED
      BY <1>4, <1>5, <3>1
  <2>2. ASSUME NEW v \in ExportWorkers, encoders'[v].flow # 0
        PROVE  <<encoders'[v].flow, "finalized">> \notin handled'
    <3>1. CASE v = w
      BY <1>3, <1>9, <1>10, <1>16, <3>1
    <3>2. CASE v # w
      BY <1>3, <1>9, <2>2, <3>2 DEF HandledInv
    <3> QED
      BY <3>1, <3>2
  <2> QED
    BY <2>1, <2>2 DEF HandledInv
<1>18. MessagesInv' /\ OutcomesInv' /\ FlushedInv'
  BY <1>3 DEF MessagesInv, OutcomesInv, FlushedInv, FatesOf, BufferedOf
<1> QED
  BY <1>15, <1>17, <1>18

(* An encoder that starts again.                                           *)
LEMMA EncoderEmptied ==
  ASSUME EncodersInv, NEW w \in ExportWorkers, NEW message,
         encoders' = [encoders EXCEPT ![w] = [flow |-> 0, protobuf |-> <<>>, message |-> message]],
         nextExported' = nextExported
  PROVE  /\ EncodersInv' /\ encoders'[w].flow = 0
         /\ \A v \in ExportWorkers \ {w} : encoders'[v] = encoders[v]
<1> DEFINE after == [flow |-> 0, protobuf |-> <<>>, message |-> message]
<1>1. /\ encoders' = [v \in ExportWorkers |-> encoders'[v]]
      /\ encoders'[w] = after
      /\ \A v \in ExportWorkers \ {w} : encoders'[v] = encoders[v]
  BY DEF EncodersInv
<1>2. after.flow = 0 /\ after.protobuf = <<>> /\ after.message = message
  OBVIOUS
<1>3. Encodes(after, nextExported)
  <2>1. after = [flow |-> after.flow, protobuf |-> after.protobuf, message |-> after.message]
    OBVIOUS
  <2>2. nextExported \in Nat \ {0}
    BY DEF EncodersInv
  <2> HIDE DEF after
  <2> QED
    BY <1>2, <2>1, <2>2 DEF Encodes, Parts
<1> HIDE DEF after
<1>4. \A u, v \in ExportWorkers :
         encoders'[u].flow # 0 /\ encoders'[u].flow = encoders'[v].flow => u = v
  BY <1>1, <1>2 DEF EncodersInv
<1> QED
  BY <1>1, <1>2, <1>3, <1>4 DEF EncodersInv

LEMMA UndoKeeps ==
  ASSUME ExportInv, NEW w \in ExportWorkers, UndoExport(w)
  PROVE  ExportInv'
<1> USE DEF ExportInv
<1>1. /\ handled' = handled \cup {<<encoders[w].flow, "given up">>}
      /\ encoders' = [encoders EXCEPT ![w] =
           [flow |-> 0, protobuf |-> <<>>, message |-> encoders[w].message]]
      /\ UNCHANGED <<buffered, nextExported, exportFates, exportPhase>>
  <2>1. encoders[w] = [flow |-> encoders[w].flow, protobuf |-> encoders[w].protobuf,
                       message |-> encoders[w].message]
    BY DEF EncodersInv, Encodes
  <2>2. [encoders EXCEPT ![w].flow = 0, ![w].protobuf = <<>>]
          = [encoders EXCEPT ![w] = [flow |-> 0, protobuf |-> <<>>, message |-> encoders[w].message]]
    <3> DEFINE f == [encoders EXCEPT ![w].flow = 0, ![w].protobuf = <<>>]
               g == [encoders EXCEPT ![w] = [flow |-> 0, protobuf |-> <<>>, message |-> encoders[w].message]]
    <3>1. encoders = [v \in ExportWorkers |-> encoders[v]]
      BY DEF EncodersInv
    <3>2. f[w] = [[encoders[w] EXCEPT !.flow = 0] EXCEPT !.protobuf = <<>>]
      BY <3>1
    <3>3. f[w] = g[w]
      BY <2>1, <3>1, <3>2
    <3>4. \A v \in ExportWorkers \ {w} : f[v] = g[v]
      BY <3>1
    <3>5. f = [v \in ExportWorkers |-> f[v]] /\ g = [v \in ExportWorkers |-> g[v]]
      BY <3>1
    <3> HIDE DEF f, g
    <3>6. f = g
      BY <3>3, <3>4, <3>5
    <3> QED
      BY <3>6 DEF f, g
  <2> QED
    BY <2>2 DEF UndoExport, Discarded
<1>2. /\ EncodersInv' /\ encoders'[w].flow = 0
      /\ \A v \in ExportWorkers \ {w} : encoders'[v] = encoders[v]
  BY <1>1, EncoderEmptied
<1>3. \A f : <<f, "finalized">> \in handled' <=> <<f, "finalized">> \in handled
  BY <1>1
<1>4. HandledInv'
  BY <1>1, <1>2, <1>3 DEF HandledInv
<1>5. OutcomesInv'
  <2>1. \A f \in Nat : FatesOf(f)' = FatesOf(f) /\ BufferedOf(f)' = BufferedOf(f)
    BY <1>1 DEF FatesOf, BufferedOf
  <2> QED
    BY <1>3, <2>1 DEF OutcomesInv
<1>6. MessagesInv'
  BY <1>1 DEF MessagesInv
<1>7. FlushedInv'
  BY <1>1, <1>2 DEF FlushedInv
<1> QED
  BY <1>2, <1>4, <1>5, <1>6, <1>7

LEMMA SendKeeps ==
  ASSUME ExportInv, NEW w \in ExportWorkers, SendExport(w)
  PROVE  ExportInv'
<1> USE DEF ExportInv
<1>e. PICK e : e = encoders[w]
  OBVIOUS
<1>flow. PICK flow : flow = e.flow
  OBVIOUS
<1>record. PICK record : record = [worker |-> w, flow |-> flow, value |-> e.protobuf]
  OBVIOUS
<1>1. /\ flow # 0 /\ Len(e.protobuf) >= Parts
      /\ handled' = handled \cup {<<flow, "finalized">>}
      /\ encoders' = [encoders EXCEPT ![w] =
           [flow |-> 0, protobuf |-> <<>>, message |-> e.protobuf]]
      /\ \/ buffered' = buffered \cup {record} /\ exportFates' = exportFates
         \/ exportFates' = exportFates \cup {<<flow, "dropped">>} /\ buffered' = buffered
      /\ UNCHANGED <<nextExported, exportPhase>>
  BY <1>e, <1>flow, <1>record DEF SendExport, Discarded
<1>2. /\ flow \in Nat /\ flow < nextExported /\ nextExported \in Nat
      /\ e.protobuf \in Seq(Nat) /\ Len(e.protobuf) <= Parts /\ Len(e.protobuf) \in Nat
      /\ \A i \in 1..Len(e.protobuf) : e.protobuf[i] = flow
  BY <1>e, <1>flow DEF EncodersInv, Encodes
<1>3. /\ EncodersInv' /\ encoders'[w].flow = 0
      /\ \A v \in ExportWorkers \ {w} : encoders'[v] = encoders[v]
  BY <1>1, EncoderEmptied
<1>4. Len(e.protobuf) = Parts
  <2>1. PICK length : length = Len(e.protobuf)
    OBVIOUS
  <2>2. length \in Nat /\ length <= 2 /\ length >= 2
    BY <1>1, <1>2, <2>1 DEF Parts
  <2>3. length = 2
    BY <2>2
  <2> QED
    BY <2>1, <2>3 DEF Parts
<1>5. e.protobuf = Whole(flow)
  BY <1>2, <1>4 DEF Whole
<1>6. record.flow = flow /\ record.value = Whole(flow)
  BY <1>record, <1>5
<1>7. <<flow, "finalized">> \notin handled
  BY <1>e, <1>flow, <1>1 DEF HandledInv
<1>8. FatesOf(flow) = {} /\ BufferedOf(flow) = {}
  BY <1>2, <1>7 DEF OutcomesInv
<1>9. \A f : <<f, "finalized">> \in handled' <=> <<f, "finalized">> \in handled \/ f = flow
  BY <1>1
<1>10. \A v \in ExportWorkers \ {w} : encoders[v].flow # flow
  BY <1>e, <1>flow, <1>1 DEF EncodersInv
<1>11. HandledInv'
  <2>1. ASSUME NEW f \in Nat, <<f, "finalized">> \in handled' PROVE f < nextExported'
    BY <1>1, <1>2, <1>9, <2>1 DEF HandledInv
  <2>2. ASSUME NEW v \in ExportWorkers, encoders'[v].flow # 0
        PROVE  <<encoders'[v].flow, "finalized">> \notin handled'
    BY <1>3, <1>9, <1>10, <2>2 DEF HandledInv
  <2> QED
    BY <2>1, <2>2 DEF HandledInv
<1>12. MessagesInv'
  <2>1. <<flow, "dropped">>[2] # "answered"
    OBVIOUS
  <2>2. CASE buffered' = buffered \cup {record} /\ exportFates' = exportFates
    BY <1>2, <1>6, <2>2 DEF MessagesInv
  <2>3. CASE exportFates' = exportFates \cup {<<flow, "dropped">>} /\ buffered' = buffered
    BY <2>1, <2>3 DEF MessagesInv
  <2> QED
    BY <1>1, <2>2, <2>3
<1>13. OutcomesInv'
  <2>1. CASE buffered' = buffered \cup {record} /\ exportFates' = exportFates
    <3>1. \A f \in Nat : FatesOf(f)' = FatesOf(f)
      BY <2>1 DEF FatesOf
    <3>2. \A f \in Nat \ {flow} : BufferedOf(f)' = BufferedOf(f)
      BY <1>6, <2>1 DEF BufferedOf
    <3>3. BufferedOf(flow)' = {record}
      BY <1>6, <1>8, <2>1 DEF BufferedOf
    <3>4. One(FatesOf(flow), BufferedOf(flow)')
      BY <1>8, <3>3 DEF One
    <3>5. ASSUME NEW f \in Nat
          PROVE IF <<f, "finalized">> \in handled'
                THEN One(FatesOf(f)', BufferedOf(f)') ELSE FatesOf(f)' = {} /\ BufferedOf(f)' = {}
      BY <1>2, <1>9, <3>1, <3>2, <3>4 DEF OutcomesInv
    <3> QED
      BY <3>5 DEF OutcomesInv
  <2>2. CASE exportFates' = exportFates \cup {<<flow, "dropped">>} /\ buffered' = buffered
    <3> DEFINE fate == <<flow, "dropped">>
    <3>1. fate[1] = flow
      OBVIOUS
    <3> HIDE DEF fate
    <3>2. \A f \in Nat : BufferedOf(f)' = BufferedOf(f)
      BY <2>2 DEF BufferedOf
    <3>3. \A f \in Nat \ {flow} : FatesOf(f)' = FatesOf(f)
      BY <2>2, <3>1 DEF FatesOf, fate
    <3>4. FatesOf(flow)' = {fate}
      BY <1>8, <2>2, <3>1 DEF FatesOf, fate
    <3>5. One(FatesOf(flow)', BufferedOf(flow))
      BY <1>8, <3>4 DEF One
    <3>6. ASSUME NEW f \in Nat
          PROVE IF <<f, "finalized">> \in handled'
                THEN One(FatesOf(f)', BufferedOf(f)') ELSE FatesOf(f)' = {} /\ BufferedOf(f)' = {}
      BY <1>2, <1>9, <3>2, <3>3, <3>5 DEF OutcomesInv
    <3> QED
      BY <3>6 DEF OutcomesInv
  <2> QED
    BY <1>1, <2>1, <2>2
<1>14. FlushedInv'
  BY <1>e, <1>flow, <1>1, <1>3 DEF FlushedInv
<1> QED
  BY <1>3, <1>11, <1>12, <1>13, <1>14

LEMMA AnswerKeeps ==
  ASSUME ExportInv, BrokerAnswers
  PROVE  ExportInv'
<1> USE DEF ExportInv
<1>1. PICK record \in buffered :
        /\ buffered' = buffered \ {record}
        /\ exportFates' = exportFates \cup {<<record.flow, "answered", record.value>>}
  BY DEF BrokerAnswers, Value
<1>2. exportPhase # "closed" /\ UNCHANGED <<encoders, handled, nextExported, exportPhase>>
  BY DEF BrokerAnswers
<1> DEFINE flow == record.flow
           fate == <<flow, "answered", record.value>>
<1>3. fate[1] = flow /\ fate[3] = record.value /\ exportFates' = exportFates \cup {fate}
  BY <1>1
<1>4. flow \in Nat /\ record.value = Whole(flow)
  BY DEF MessagesInv
<1> HIDE DEF fate
<1>5. EncodersInv' /\ HandledInv' /\ FlushedInv'
  BY <1>1, <1>2 DEF EncodersInv, HandledInv, FlushedInv
<1>6. MessagesInv'
  BY <1>1, <1>3, <1>4 DEF MessagesInv
<1>7. BufferedOf(flow) = {record} /\ FatesOf(flow) = {}
  <2>1. record \in BufferedOf(flow)
    BY DEF BufferedOf
  <2>2. One(FatesOf(flow), BufferedOf(flow))
    BY <1>4, <2>1 DEF OutcomesInv
  <2> HIDE DEF flow
  <2> QED
    BY <2>1, <2>2 DEF One
<1>8. FatesOf(flow)' = {fate} /\ BufferedOf(flow)' = {}
  BY <1>1, <1>3, <1>7 DEF FatesOf, BufferedOf
<1>9. \A f \in Nat \ {flow} : FatesOf(f)' = FatesOf(f) /\ BufferedOf(f)' = BufferedOf(f)
  BY <1>1, <1>3 DEF FatesOf, BufferedOf
<1>10. <<flow, "finalized">> \in handled
  BY <1>4, <1>7 DEF OutcomesInv
<1>11. One(FatesOf(flow)', BufferedOf(flow)')
  BY <1>8 DEF One
<1>12. OutcomesInv'
  BY <1>2, <1>4, <1>9, <1>10, <1>11 DEF OutcomesInv
<1> QED
  BY <1>5, <1>6, <1>12

LEMMA TimeoutKeeps ==
  ASSUME ExportInv, FlushTimeout
  PROVE  ExportInv'
<1> USE DEF ExportInv
<1> DEFINE late == {<<r.flow, "timeout">> : r \in buffered}
<1>1. /\ exportPhase = "flushing" /\ exportPhase' = "closed"
      /\ exportFates' = exportFates \cup late /\ buffered' = {}
      /\ UNCHANGED <<encoders, handled, nextExported>>
  BY DEF FlushTimeout
<1>2. EncodersInv' /\ HandledInv' /\ FlushedInv'
  BY <1>1 DEF EncodersInv, HandledInv, FlushedInv
<1>3. MessagesInv'
  BY <1>1 DEF MessagesInv
<1>4. \A f \in Nat : BufferedOf(f)' = {}
  BY <1>1 DEF BufferedOf
<1>5. ASSUME NEW f \in Nat, BufferedOf(f) = {} PROVE FatesOf(f)' = FatesOf(f)
  BY <1>1, <1>5 DEF FatesOf, BufferedOf
<1>6. ASSUME NEW f \in Nat, FatesOf(f) = {}, NEW r \in BufferedOf(f), BufferedOf(f) = {r}
      PROVE FatesOf(f)' = {<<f, "timeout">>}
  <2>1. r \in buffered /\ r.flow = f
    BY DEF BufferedOf
  <2>2. <<f, "timeout">> \in late /\ <<f, "timeout">>[1] = f
    BY <2>1
  <2>3. \A x \in late : x[1] = f => x = <<f, "timeout">>
    OBVIOUS
  <2> HIDE DEF late
  <2> QED
    BY <1>1, <1>6, <2>2, <2>3 DEF FatesOf
<1>7. OutcomesInv'
  <2> SUFFICES ASSUME NEW f \in Nat
               PROVE  IF <<f, "finalized">> \in handled
                      THEN One(FatesOf(f)', {}) ELSE FatesOf(f)' = {}
    BY <1>1, <1>4 DEF OutcomesInv
  <2>1. CASE <<f, "finalized">> \notin handled
    BY <1>5, <2>1 DEF OutcomesInv
  <2>2. CASE <<f, "finalized">> \in handled
    <3>1. One(FatesOf(f), BufferedOf(f))
      BY <2>2 DEF OutcomesInv
    <3>2. CASE BufferedOf(f) = {}
      BY <1>5, <2>2, <3>1, <3>2 DEF One
    <3>3. CASE BufferedOf(f) # {}
      <4>1. PICK r \in BufferedOf(f) : BufferedOf(f) = {r} /\ FatesOf(f) = {}
        BY <3>1, <3>3 DEF One
      <4>2. FatesOf(f)' = {<<f, "timeout">>}
        BY <1>6, <4>1
      <4> QED
        BY <2>2, <4>2 DEF One
    <3> QED
      BY <3>2, <3>3
  <2> QED
    BY <2>1, <2>2
<1> QED
  BY <1>2, <1>3, <1>7

LEMMA FlushKeeps ==
  ASSUME ExportInv, StopExport \/ FlushDone \/ UNCHANGED exportVars
  PROVE  ExportInv'
<1> USE DEF ExportInv
<1>1. UNCHANGED <<encoders, buffered, handled, nextExported, exportFates>>
  BY DEF StopExport, FlushDone, exportVars
<1>2. EncodersInv' /\ HandledInv' /\ MessagesInv'
  BY <1>1 DEF EncodersInv, HandledInv, MessagesInv
<1>3. OutcomesInv'
  BY <1>1 DEF OutcomesInv, FatesOf, BufferedOf
<1>4. FlushedInv'
  BY <1>1 DEF StopExport, FlushDone, Flushed, exportVars, FlushedInv
<1> QED
  BY <1>2, <1>3, <1>4

(* What is said of the two sets, said of Outcomes.                         *)
LEMMA OneOutcome ==
  ASSUME NEW f
  PROVE  /\ One(FatesOf(f), BufferedOf(f)) => \E x \in Outcomes(f) : Outcomes(f) = {x}
         /\ FatesOf(f) = {} /\ BufferedOf(f) = {} => Outcomes(f) = {}
<1> DEFINE A == {<<"fate", x>> : x \in FatesOf(f)}
           B == {<<"buffered", r>> : r \in BufferedOf(f)}
<1>1. Outcomes(f) = A \cup B
  BY DEF Outcomes, FatesOf, BufferedOf
<1>2. (FatesOf(f) = {} => A = {}) /\ (BufferedOf(f) = {} => B = {})
  OBVIOUS
<1>3. ASSUME NEW x \in FatesOf(f), FatesOf(f) = {x} PROVE A = {<<"fate", x>>}
  BY <1>3
<1>4. ASSUME NEW r \in BufferedOf(f), BufferedOf(f) = {r} PROVE B = {<<"buffered", r>>}
  BY <1>4
<1> HIDE DEF A, B
<1>5. ASSUME One(FatesOf(f), BufferedOf(f)) PROVE \E x \in Outcomes(f) : Outcomes(f) = {x}
  <2>1. CASE \E x \in FatesOf(f) : FatesOf(f) = {x} /\ BufferedOf(f) = {}
    <3>1. PICK x \in FatesOf(f) : FatesOf(f) = {x} /\ BufferedOf(f) = {}
      BY <2>1
    <3> QED
      BY <1>1, <1>2, <1>3, <3>1
  <2>2. CASE \E r \in BufferedOf(f) : BufferedOf(f) = {r} /\ FatesOf(f) = {}
    <3>1. PICK r \in BufferedOf(f) : BufferedOf(f) = {r} /\ FatesOf(f) = {}
      BY <2>2
    <3> QED
      BY <1>1, <1>2, <1>4, <3>1
  <2> QED
    BY <1>5, <2>1, <2>2 DEF One
<1> QED
  BY <1>1, <1>2, <1>5

(* KafkaOutput.ExportRight, for all workers and all sizes of the buffer: a *)
(* record has the columns of its flow and of no other, although a worker   *)
(* encodes the next flow while the client has the record, and a finalized  *)
(* flow is buffered or has one fate.                                       *)
THEOREM ExportIsRight == ExportSpec => []ExportRight
<1>1. ExportInv /\ [ExportNext]_exportVars => ExportInv'
  BY AppendKeeps, UndoKeeps, SendKeeps, AnswerKeeps, TimeoutKeeps, FlushKeeps DEF ExportNext
<1>2. ExportInv => ExportRight
  <2> SUFFICES ASSUME ExportInv PROVE ExportRight
    OBVIOUS
  <2>1. MessagesWhole
    BY DEF ExportInv, MessagesInv, MessagesWhole, Whole
  <2>2. ASSUME NEW f \in 1..MaxExported
        PROVE IF <<f, "finalized">> \in handled
              THEN \E x \in Outcomes(f) : Outcomes(f) = {x} ELSE Outcomes(f) = {}
    <3>1. f \in Nat
      OBVIOUS
    <3> QED
      BY <3>1, OneOutcome DEF ExportInv, OutcomesInv
  <2>3. ExportsAccounted
    BY <2>2 DEF ExportInv, FlushedInv, ExportsAccounted
  <2> QED
    BY <2>1, <2>3 DEF ExportRight
<1> QED
  BY <1>1, <1>2, ExportInitially, PTL DEF ExportSpec
=============================================================================
