------------------------------- MODULE Health -------------------------------
(***************************************************************************)
(* common/reporter/healthcheck.go: a request runs all the checks at once,  *)
(* with a deadline and under a lock.  A check sends a function to a        *)
(* goroutine of its component, that calls it between two other things.     *)
(* The answers get to the request through a goroutine that collects them.  *)
(***************************************************************************)
EXTENDS Naturals, FiniteSets

CONSTANTS
  HealthChecks,           \* names of the checks
  MaxHealthRequests

VARIABLES
  requests,               \* requests so far, the last one is the one that runs
  checking,               \* healthchecksLock is held
  expired,                \* the context of the request is done
  collecting, details,    \* the goroutine that collects, and what it got
  checks,                 \* per check, "idle", "contact", "wait", "report", "done"
  answers,                \* per check, its result
  components,             \* per check, the goroutine of the component
  served                  \* the last answer

healthVars == <<requests, checking, expired, collecting, details, checks, answers, components, served>>

Timeout == [status |-> 2, request |-> 0]
NothingServed == [status |-> 0, details |-> <<>>, expired |-> FALSE]
Free == [step |-> "free", request |-> 0]

HealthInit ==
  /\ requests = 0 /\ checking = FALSE /\ expired = FALSE /\ collecting = FALSE
  /\ details = [c \in {} |-> Timeout] /\ checks = [c \in HealthChecks |-> "idle"]
  /\ answers = [c \in HealthChecks |-> Timeout]
  /\ components = [c \in HealthChecks |-> Free]
  /\ served = NothingServed

(* Another request waits for the lock.                                     *)
RunHealthchecks ==
  /\ ~checking /\ requests < MaxHealthRequests
  /\ requests' = requests + 1 /\ checking' = TRUE /\ expired' = FALSE /\ collecting' = TRUE
  /\ details' = [c \in {} |-> Timeout] /\ checks' = [c \in HealthChecks |-> "contact"]
  /\ answers' = [c \in HealthChecks |-> Timeout]
  /\ UNCHANGED <<components, served>>

Expire ==
  /\ checking /\ ~expired /\ expired' = TRUE
  /\ UNCHANGED <<requests, checking, collecting, details, checks, answers, components, served>>

(* contact <- signalFunc, when the component looks at its channel.         *)
Contact(c) ==
  /\ checks[c] = "contact" /\ components[c].step = "free"
  /\ checks' = [checks EXCEPT ![c] = "wait"]
  /\ components' = [components EXCEPT ![c] = [step |-> "called", request |-> requests]]
  /\ UNCHANGED <<requests, checking, expired, collecting, details, answers, served>>

(* The component calls the function of the request that contacted it: the  *)
(* check is there to receive the answer, or its channel is closed and the  *)
(* panic is recovered.                                                     *)
ComponentAnswers(c) ==
  /\ components[c].step = "called"
  /\ components' = [components EXCEPT ![c] = Free]
  /\ IF components[c].request = requests /\ checks[c] = "wait"
     THEN /\ \E status \in 0..2 :
               answers' = [answers EXCEPT ![c] = [status |-> status, request |-> requests]]
          /\ checks' = [checks EXCEPT ![c] = "report"]
     ELSE UNCHANGED <<answers, checks>>
  /\ UNCHANGED <<requests, checking, expired, collecting, details, served>>

(* "timeout", in the select with the channel of the component or with the  *)
(* one of the answer, that is closed.                                      *)
CheckTimesOut(c) ==
  /\ checks[c] \in {"contact", "wait"} /\ expired
  /\ checks' = [checks EXCEPT ![c] = "report"]
  /\ answers' = [answers EXCEPT ![c] = [status |-> 2, request |-> requests]]
  /\ UNCHANGED <<requests, checking, expired, collecting, details, components, served>>

(* The collector takes the result, it ends with the last one.              *)
Report(c) ==
  /\ checks[c] = "report" /\ collecting
  /\ checks' = [checks EXCEPT ![c] = "done"]
  /\ details' = [d \in DOMAIN details \cup {c} |-> IF d = c THEN answers[c] ELSE details[d]]
  /\ collecting' = (DOMAIN details' # HealthChecks)
  /\ UNCHANGED <<requests, checking, expired, answers, components, served>>

ReportTooLate(c) == expired

Forget(c) ==
  /\ checks[c] = "report" /\ ReportTooLate(c)
  /\ checks' = [checks EXCEPT ![c] = "done"]
  /\ UNCHANGED <<requests, checking, expired, collecting, details, answers, components, served>>

StopCollecting ==
  /\ collecting /\ expired /\ collecting' = FALSE
  /\ UNCHANGED <<requests, checking, expired, details, checks, answers, components, served>>

(* Mistake: what is missing is left out.                                   *)
CompletedPartial(known) == known

Completed(known) ==
  [c \in HealthChecks |-> IF c \in DOMAIN known THEN known[c] ELSE Timeout]

Worst(all) == CHOOSE s \in 0..2 :
  /\ \A c \in DOMAIN all : all[c].status <= s
  /\ s = 0 \/ \E c \in DOMAIN all : all[c].status = s

(* wg.Wait(), and the status of the HTTP answer: 503 for an error.         *)
Serve ==
  /\ checking /\ ~collecting /\ \A c \in HealthChecks : checks[c] = "done"
  /\ served' = [status |-> Worst(Completed(details)), details |-> Completed(details), expired |-> expired]
  /\ checking' = FALSE /\ checks' = [c \in HealthChecks |-> "idle"]
  /\ UNCHANGED <<requests, expired, collecting, details, answers, components>>

HealthProgress ==
  \/ Expire \/ StopCollecting \/ Serve
  \/ \E c \in HealthChecks : ComponentAnswers(c) \/ CheckTimesOut(c) \/ Forget(c)

HealthNext ==
  \/ RunHealthchecks \/ Expire \/ StopCollecting \/ Serve
  \/ \E c \in HealthChecks :
       Contact(c) \/ ComponentAnswers(c) \/ CheckTimesOut(c) \/ Report(c) \/ Forget(c)

----------------------------------------------------------------------------
(* Properties                                                              *)

(* The answer of a request is about all the checks, with what each of them *)
(* said to this very request: the ones that were late are errors.          *)
ServedHealthy == served # NothingServed /\ served.status < 2
AllSaySo ==
  /\ DOMAIN served.details = HealthChecks
  /\ \A c, d \in HealthChecks :
       /\ served.details[c].request # 0
       /\ served.details[c].request = served.details[d].request

(* A service is healthy when each check says so.                           *)
HealthRight == ServedHealthy => AllSaySo

HealthSpec == HealthInit /\ [][HealthNext]_healthVars

(* A request ends, though a component may never look at its channel.       *)
HealthRequestsEnd == checking ~> ~checking
=============================================================================
