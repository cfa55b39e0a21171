------------------------------- MODULE BioRis -------------------------------
(***************************************************************************)
(* outlet/routing/provider/bioris and outlet/routing: instances of a RIS   *)
(* tell the routers they have routes of; a lookup asks one of them for     *)
(* the routes of the exporter of a flow.  A lookup holds the read lock     *)
(* while it waits for an answer, a refresh takes the write lock to publish *)
(* the routers it found.                                                   *)
(***************************************************************************)
EXTENDS Integers, Sequences, FiniteSets, SequencesExt, FiniteSetsExt

CONSTANTS
  RisInstances,           \* in the order they are asked
  Routers,                \* addresses of routers and of exporters
  FirstRouters,           \* the routers of each instance at the start
  LpmAnswers,             \* what an RIS may answer: sequences of routes
  RisWorkers,             \* the workers that look routes up
  MaxRisChanges

VARIABLES
  ris,                    \* the routers each instance has
  routers,                \* per router, the instances that have it
  refreshing,             \* the goroutine of the refreshes, or the start
  looking,                \* per worker, its lookup
  risDying, risChanges,
  published               \* ghost: what each instance answered to the last refresh

risVars == <<ris, routers, refreshing, looking, risDying, risChanges, published>>

NoRouters == [r \in Routers |-> {}]
Instances == Range(RisInstances)

ASSUME RisAssumption ==
  RisInstances \in Seq(Instances) /\ FirstRouters \in [Instances -> SUBSET Routers]

NoLookup == [step |-> "idle"]

(* The instances are asked in turn, if there is any.                       *)
StepAt(n) == IF n <= Len(RisInstances) THEN "ask" ELSE "lock"

(* The first refresh is a part of the start.                               *)
RisInit ==
  /\ ris = FirstRouters /\ routers = NoRouters
  /\ refreshing = [step |-> StepAt(1), next |-> 1, found |-> NoRouters, answers |-> [i \in Instances |-> {}],
                    first |-> TRUE]
  /\ looking = [w \in RisWorkers |-> NoLookup]
  /\ risDying = FALSE /\ risChanges = 0
  /\ published = [i \in Instances |-> {}]

RisChanges ==
  /\ risChanges < MaxRisChanges /\ risChanges' = risChanges + 1
  /\ \E i \in Instances, s \in SUBSET Routers : ris' = [ris EXCEPT ![i] = s]
  /\ UNCHANGED <<routers, refreshing, looking, risDying, published>>

----------------------------------------------------------------------------
(* Refresh                                                                 *)

(* Mistake: the routers that were known are kept.                          *)
RefreshStartsKept(known) == known

RefreshStarts(known) == NoRouters

(* The ticker.                                                             *)
StartRefresh ==
  /\ refreshing.step = "wait" /\ ~risDying
  /\ refreshing' = [step |-> StepAt(1), next |-> 1, found |-> RefreshStarts(routers),
                    answers |-> [i \in Instances |-> {}], first |-> FALSE]
  /\ UNCHANGED <<ris, routers, looking, risDying, risChanges, published>>

Asked == RisInstances[refreshing.next]

AfterAsked == StepAt(refreshing.next + 1)

GetRouters ==
  /\ refreshing.step = "ask" /\ ~risDying
  /\ refreshing' =
       [refreshing EXCEPT !.step = AfterAsked, !.next = @ + 1,
          !.found = [r \in Routers |-> @[r] \cup {i \in {Asked} : r \in ris[i]}],
          !.answers[Asked] = @ \cup ris[Asked]]
  /\ UNCHANGED <<ris, routers, looking, risDying, risChanges, published>>

(* An instance that does not answer in time has no router till the next    *)
(* refresh.  The context ends when the component is stopped.               *)
GetRoutersFails ==
  /\ refreshing.step = "ask"
  /\ refreshing' = [refreshing EXCEPT !.step = AfterAsked, !.next = @ + 1]
  /\ UNCHANGED <<ris, routers, looking, risDying, risChanges, published>>

Readers == {w \in RisWorkers : looking[w].step = "asked"}

PublishRouters ==
  /\ refreshing.step = "lock" /\ Readers = {}
  /\ routers' = refreshing.found /\ published' = refreshing.answers
  /\ refreshing' = [refreshing EXCEPT !.step = "wait", !.first = FALSE]
  /\ UNCHANGED <<ris, looking, risDying, risChanges>>

RefreshEnds ==
  /\ refreshing.step = "wait" /\ risDying
  /\ refreshing' = [refreshing EXCEPT !.step = "ended"]
  /\ UNCHANGED <<ris, routers, looking, risDying, risChanges, published>>

(* The workers of the outlet end before the component is stopped.          *)
StopRis ==
  /\ ~risDying /\ risDying' = TRUE
  /\ ~refreshing.first
  /\ \A w \in RisWorkers : looking[w] = NoLookup
  /\ UNCHANGED <<ris, routers, refreshing, looking, risChanges, published>>

----------------------------------------------------------------------------
(* Lookups                                                                 *)

(* Start() is over once the first routers are published.                   *)
StartLookup(w) ==
  /\ looking[w].step = "idle" /\ ~refreshing.first /\ ~risDying
  /\ \E agent \in Routers : looking' = [looking EXCEPT ![w] = [step |-> "lock", agent |-> agent]]
  /\ UNCHANGED <<ris, routers, refreshing, risDying, risChanges, published>>

Known == {r \in Routers : routers[r] # {}}

(* Any router is better than none.                                         *)
chooseRouter(agent) == IF agent \in Known THEN {agent} ELSE Known

(* A reader waits for a writer that waits for other readers.               *)
Choose(w) ==
  /\ looking[w].step = "lock" /\ refreshing.step # "lock"
  /\ IF Known = {} THEN looking' = [looking EXCEPT ![w] = NoLookup]
     ELSE \E r \in chooseRouter(looking[w].agent) : \E i \in routers[r] :
            looking' = [looking EXCEPT ![w] = [step |-> "asked", agent |-> @.agent, router |-> r, instance |-> i]]
  /\ UNCHANGED <<ris, routers, refreshing, risDying, risChanges, published>>

Longest(routes) ==
  LET length == Max({routes[k].length : k \in DOMAIN routes})
  IN routes[Min({k \in DOMAIN routes : routes[k].length = length})]

Empty == [asn |-> 0, mask |-> 0, path |-> <<>>]

(* The first path of the first of the longest prefixes; the AS number is   *)
(* the last one of its segments.                                           *)
lpmResponseToLookupResult(routes) ==
  IF routes = <<>> \/ Longest(routes).paths = <<>> THEN Empty
  ELSE LET path == FlattenSeq(Longest(routes).paths[1])
       IN [asn |-> IF path = <<>> THEN 0 ELSE path[Len(path)],
           mask |-> Longest(routes).length, path |-> path]

(* The lookup is over and the lock is released.                            *)
Answered(w, result) == looking' = [looking EXCEPT ![w] = [step |-> "done", result |-> result]]

LPM(w) ==
  /\ looking[w].step = "asked" /\ looking[w].router \in ris[looking[w].instance]
  /\ \E routes \in LpmAnswers : Answered(w, lpmResponseToLookupResult(routes))
  /\ UNCHANGED <<ris, routers, refreshing, risDying, risChanges, published>>

(* An error, or nothing before the deadline: an empty result.              *)
LPMGivesUp(w) == TRUE

LPMFails(w) ==
  /\ looking[w].step = "asked" /\ LPMGivesUp(w)
  /\ Answered(w, Empty)
  /\ UNCHANGED <<ris, routers, refreshing, risDying, risChanges, published>>

EndLookup(w) ==
  /\ looking[w].step = "done" /\ looking' = [looking EXCEPT ![w] = NoLookup]
  /\ UNCHANGED <<ris, routers, refreshing, risDying, risChanges, published>>

LookupStep(w) == Choose(w) \/ LPMFails(w) \/ EndLookup(w)

RisNext ==
  \/ RisChanges \/ StartRefresh \/ GetRouters \/ GetRoutersFails \/ PublishRouters
  \/ RefreshEnds \/ StopRis
  \/ \E w \in RisWorkers : StartLookup(w) \/ LPM(w) \/ LookupStep(w)

----------------------------------------------------------------------------
(* Properties                                                              *)

(* While it waits for an answer, a lookup is at an instance that had the   *)
(* router in the last refresh, and the router is the exporter when one of  *)
(* the instances that answered to this refresh has it.                     *)
AskedWhereKnown(w) ==
  /\ looking[w].router \in published[looking[w].instance]
  /\ (\E i \in Instances : looking[w].agent \in published[i]) => looking[w].router = looking[w].agent

(* A lookup asks an instance that knows the router.                        *)
RisRight == \A w \in Readers : AskedWhereKnown(w)

RisSpec == RisInit /\ [][RisNext]_risVars

(* Lookups end and what a refresh found is published, though an instance   *)
(* may never answer and lookups come one after the other.                  *)
LookupsAndRefreshesEnd ==
  /\ \A w \in RisWorkers : looking[w].step = "lock" ~> looking[w].step # "lock"
  /\ refreshing.step = "lock" ~> refreshing.step # "lock"
=============================================================================
