-------------------------------- MODULE Gnmi -------------------------------
(***************************************************************************)
(* The gNMI provider of metadata: a collector per exporter that polls it   *)
(* when it is asked to, and the queries that wait for it.  The state of an *)
(* exporter is the version of what was polled.  The requests to refresh    *)
(* are on one channel all the collectors read, and they are not queued.    *)
(***************************************************************************)
EXTENDS Integers

CONSTANTS GnmiExporters,
          Queriers,          \* workers that query the provider
          MaxGnmiVersion     \* bound on the changes of an exporter

VARIABLES
  answering,      \* version of what each exporter answers
  collector,  \* stage of the collector of each exporter
  polling,    \* what the exporter answered to the current poll, 0 before
  state,      \* version of the last update, 0 before the first one
  query       \* stage of each query and its last answer

gnmiVars == <<answering, collector, polling, state, query>>

NoQuery == [stage |-> "idle", exporter |-> "none", answer |-> -1]

GnmiInit ==
  /\ answering = [e \in GnmiExporters |-> 1]
  /\ collector = [e \in GnmiExporters |-> "none"]
  /\ polling = [e \in GnmiExporters |-> 0]
  /\ state = [e \in GnmiExporters |-> 0]
  /\ query = [w \in Queriers |-> NoQuery]

(* Mistake: the collector says it is ready after the first poll, whatever  *)
(* it gave.                                                                *)
OfferingAlways(e) == collector[e] \in {"window", "wait", "retry"}

(* The collector is in a select with the ready channel: in the window      *)
(* after a poll, when it waits for a refresh, or after an error if it has  *)
(* polled the exporter once.                                               *)
Offering(e) ==
  \/ collector[e] \in {"window", "wait"}
  \/ collector[e] = "retry" /\ state[e] # 0

(***************************************************************************)
(* Query.                                                                  *)
(***************************************************************************)
(* What a request to refresh does to the collectors when the one of e gets *)
(* it: it is ignored in the window, and nobody may be listening.           *)
Refreshed(started, e) ==
  IF started[e] = "wait" THEN [started EXCEPT ![e] = "poll"] ELSE started

(* With the lock: the collector is started, and the refresh requested.     *)
(* When it is ready at once, the query keeps the lock and is answered.     *)
GnmiQuery(w, e) ==
  /\ query[w].stage = "idle"
  /\ LET started == IF collector[e] = "none"
                    THEN [collector EXCEPT ![e] = "connect"] ELSE collector
     IN  collector' \in {started} \cup {Refreshed(started, f) : f \in GnmiExporters}
  /\ query' = [query EXCEPT ![w] =
       IF Offering(e) /\ collector'[e] # "poll"
       THEN [stage |-> "idle", exporter |-> e, answer |-> state[e]]
       ELSE [stage |-> "waiting", exporter |-> e, answer |-> -1]]
  /\ UNCHANGED <<answering, polling, state>>

(* The ready channel, once the lock is released.                           *)
ReceiveReady(w) ==
  /\ query[w].stage = "waiting" /\ Offering(query[w].exporter)
  /\ query' = [query EXCEPT ![w].stage = "ready"]
  /\ UNCHANGED <<answering, collector, polling, state>>

AnswerQuery(w) ==
  /\ query[w].stage = "ready"
  /\ query' = [query EXCEPT ![w] = [@ EXCEPT !.stage = "idle",
                                             !.answer = state[query[w].exporter]]]
  /\ UNCHANGED <<answering, collector, polling, state>>

QueryTimesOut(w) ==
  /\ query[w].stage = "waiting"
  /\ query' = [query EXCEPT ![w] = NoQuery]
  /\ UNCHANGED <<answering, collector, polling, state>>

(***************************************************************************)
(* The collector.                                                          *)
(***************************************************************************)
CollectorStep(e, from, to) == collector[e] = from /\ collector' = [collector EXCEPT ![e] = to]

(* Without a client or a model, the collector tries again after a delay.   *)
Connect(e) ==
  /\ CollectorStep(e, "connect", "detect")
  /\ UNCHANGED <<answering, polling, state, query>>

(* All the models are tried: the answer must have a name and an interface. *)
detectModelAndEncoding(e) ==
  /\ CollectorStep(e, "detect", "poll")
  /\ UNCHANGED <<answering, polling, state, query>>

(* The exporter answers with what it has at this time.                     *)
ExporterAnswers(e) ==
  /\ collector[e] = "poll" /\ polling[e] = 0
  /\ polling' = [polling EXCEPT ![e] = answering[e]]
  /\ UNCHANGED <<answering, collector, state, query>>

(* With the lock.                                                          *)
Update(e) ==
  /\ polling[e] # 0
  /\ CollectorStep(e, "poll", "window")
  /\ state' = [state EXCEPT ![e] = polling[e]]
  /\ polling' = [polling EXCEPT ![e] = 0]
  /\ UNCHANGED <<answering, query>>

PollFails(e) ==
  /\ polling[e] = 0
  /\ CollectorStep(e, "poll", "retry")
  /\ UNCHANGED <<answering, polling, state, query>>

(* The end of the minimal refresh interval.                                *)
WindowEnds(e) ==
  /\ CollectorStep(e, "window", "wait")
  /\ UNCHANGED <<answering, polling, state, query>>

RetryTimer(e) ==
  /\ CollectorStep(e, "retry", "poll")
  /\ UNCHANGED <<answering, polling, state, query>>

GnmiExporterChanges(e) ==
  /\ answering[e] < MaxGnmiVersion
  /\ answering' = [answering EXCEPT ![e] = @ + 1]
  /\ UNCHANGED <<collector, polling, state, query>>

CollectorNext(e) ==
  \/ Connect(e) \/ detectModelAndEncoding(e) \/ ExporterAnswers(e)
  \/ Update(e) \/ PollFails(e) \/ WindowEnds(e) \/ RetryTimer(e)

GnmiNext ==
  \/ \E e \in GnmiExporters : CollectorNext(e) \/ GnmiExporterChanges(e)
  \/ \E w \in Queriers :
       \/ ReceiveReady(w) \/ AnswerQuery(w) \/ QueryTimesOut(w)
       \/ \E e \in GnmiExporters : GnmiQuery(w, e)

GnmiSpec == GnmiInit /\ [][GnmiNext]_gnmiVars

-----------------------------------------------------------------------------
(* No query is answered from the empty state a collector starts with,      *)
(* which would be taken for an interface the exporter does not have.       *)
GnmiRight == \A w \in Queriers : query[w].answer # 0

(* Once an exporter was polled, a query is answered without the help of    *)
(* its timeout, even if no poll succeeds any more.                         *)
ReadyAnswers ==
  \A w \in Queriers :
    (query[w].stage = "waiting" /\ state[query[w].exporter] # 0)
      ~> query[w].stage # "waiting"
============================================================================
