------------------------------ MODULE Lifecycle -----------------------------
(***************************************************************************)
(* cmd/akvorado/components.go and common/daemon: the components of a       *)
(* service are started in order, and stopped in the reverse order when one *)
(* of them cannot start, when a goroutine of one of them ends, or when the *)
(* process gets a signal.                                                  *)
(*                                                                         *)
(* A component depends on some of those that are started before it.  Its   *)
(* goroutines are in a tomb, that is dying when one of them returns an     *)
(* error or when the component is stopped.                                 *)
(***************************************************************************)
EXTENDS Naturals, Sequences, FiniteSets, SequencesExt

CONSTANTS
  Components,             \* in the order they are started: the reporter, the daemon,
                          \* and the others
  DependsOn,              \* the components each of them uses
  Tracked                 \* components whose tomb is tracked by the daemon

ASSUME LifecycleAssumption ==
  /\ Components \in Seq(Range(Components)) /\ Len(Components) >= 2
  /\ \A i, j \in 1..Len(Components) : Components[i] = Components[j] => i = j
  /\ \A i \in 1..Len(Components) :
       DependsOn[Components[i]] \subseteq {Components[j] : j \in 1..(i - 1)}

VARIABLES
  lcPhase,                \* "starting", "up", "stopping", "exited"
  started,                \* startedComponents, the last one first
  failedToStart,          \* the component that could not start
  running,                \* components with running goroutines
  dyingTombs,             \* tombs that are dying
  terminated,             \* terminateChannel is closed
  signalled,              \* a signal was received
  stops                   \* ghost: how many times each component was stopped

lcVars == <<lcPhase, started, failedToStart, running, dyingTombs, terminated, signalled, stops>>

Names == Range(Components)
Daemon == Components[2]

LcInit ==
  /\ lcPhase = "starting" /\ started = <<>> /\ running = {} /\ dyingTombs = {}
  /\ failedToStart = {}
  /\ terminated = FALSE /\ signalled = FALSE
  /\ stops = [c \in Names |-> 0]

NextToStart == Components[Len(started) + 1]

StartComponent ==
  /\ lcPhase = "starting" /\ Len(started) < Len(Components)
  /\ started' = <<NextToStart>> \o started
  /\ running' = running \cup {NextToStart}
  /\ UNCHANGED <<lcPhase, failedToStart, dyingTombs, terminated, signalled, stops>>

(* The components that are started are stopped, without the one that did   *)
(* not start: what it started before it failed, as the first inputs of the *)
(* inlet, runs until the process ends.  The reporter and the daemon always *)
(* start.                                                                  *)
StartFails ==
  /\ lcPhase = "starting" /\ Len(started) < Len(Components)
  /\ NextToStart \notin {Components[1], Daemon}
  /\ lcPhase' = "stopping"
  /\ failedToStart' = {NextToStart}
  /\ running' \in {running, running \cup {NextToStart}}
  /\ UNCHANGED <<started, dyingTombs, terminated, signalled, stops>>

HasStarted ==
  /\ lcPhase = "starting" /\ Len(started) = Len(Components)
  /\ lcPhase' = "up"
  /\ UNCHANGED <<started, failedToStart, running, dyingTombs, terminated, signalled,
                 stops>>

(* A goroutine of a component returns an error.                            *)
GoroutineFails ==
  /\ \E c \in running \cap Tracked :
       dyingTombs' = dyingTombs \cup {c} /\ running' = running \ {c}
  /\ UNCHANGED <<lcPhase, started, failedToStart, terminated, signalled, stops>>

Watched == dyingTombs

(* watchTombs: the watchers run once the daemon has started, even for a    *)
(* tomb that was already dying.                                            *)
WatchTombs ==
  /\ Daemon \in Range(started) /\ Watched # {} /\ ~terminated
  /\ terminated' = TRUE
  /\ UNCHANGED <<lcPhase, started, failedToStart, running, dyingTombs, signalled, stops>>

Signal ==
  /\ lcPhase \in {"starting", "up"} /\ Daemon \in Range(started) /\ ~signalled
  /\ signalled' = TRUE
  /\ UNCHANGED <<lcPhase, started, failedToStart, running, dyingTombs, terminated, stops>>

WatchSignals ==
  /\ signalled /\ ~terminated
  /\ terminated' = TRUE
  /\ UNCHANGED <<lcPhase, started, failedToStart, running, dyingTombs, signalled, stops>>

StopAll ==
  /\ lcPhase = "up" /\ terminated
  /\ lcPhase' = "stopping"
  /\ UNCHANGED <<started, failedToStart, running, dyingTombs, terminated, signalled,
                 stops>>

(* Mistake: the components are stopped in the order they were started.     *)
ToStopFirst(seq) == Len(seq)

ToStop(seq) == 1

(* An error is logged and ignored.  The daemon terminates when it stops.   *)
StopComponent ==
  /\ lcPhase = "stopping" /\ started # <<>>
  /\ LET c == started[ToStop(started)]
     IN /\ started' = RemoveAt(started, ToStop(started))
        /\ running' = running \ {c}
        /\ dyingTombs' = dyingTombs \cup ({c} \cap Tracked)
        /\ terminated' = (terminated \/ c = Daemon)
        /\ stops' = [stops EXCEPT ![c] = @ + 1]
  /\ UNCHANGED <<lcPhase, failedToStart, signalled>>

Exit ==
  /\ lcPhase = "stopping" /\ started = <<>>
  /\ lcPhase' = "exited"
  /\ UNCHANGED <<started, failedToStart, running, dyingTombs, terminated, signalled,
                 stops>>

LcNext ==
  \/ StartComponent \/ StartFails \/ HasStarted \/ GoroutineFails \/ WatchTombs
  \/ Signal \/ WatchSignals \/ StopAll \/ StopComponent \/ Exit

LcSpec == LcInit /\ [][LcNext]_lcVars

(* The goroutines that can run do.                                         *)
LcProgress ==
  \/ StartComponent \/ HasStarted \/ WatchTombs \/ WatchSignals
  \/ StopAll \/ StopComponent \/ Exit

----------------------------------------------------------------------------
(* Properties                                                              *)

(* A component that was started and is not stopped has the components it   *)
(* depends on, while the others are being stopped too.                     *)
DependenciesUp ==
  \A c \in Range(started) : DependsOn[c] \subseteq Range(started)

(* Whatever happens while the components are started, each one of them is  *)
(* stopped once at most, and what runs at the end is only what a component *)
(* that could not start had started: this one is never stopped.            *)
StoppedOnce ==
  /\ \A c \in Names : stops[c] <= 1
  /\ \A c \in failedToStart : stops[c] = 0
  /\ lcPhase = "exited" => running \subseteq failedToStart

(* A component that fails, as well as a signal, ends the service.          *)
FailureEndsService ==
  (dyingTombs # {} \/ signalled) ~> (lcPhase = "exited")

(* Components that started are stopped once, before what they depend on.   *)
LifecycleRight == DependenciesUp /\ StoppedOnce
=============================================================================
