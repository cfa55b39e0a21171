---------------------------- MODULE Orchestrator ----------------------------
(***************************************************************************)
(* cmd/akvorado/orchestrator.go and orchestrator: the configuration file   *)
(* is parsed, watched, and parsed again; the configurations of the other   *)
(* services are registered and served; when the file changes and is valid, *)
(* the orchestrator stops and starts over in the same process.             *)
(*                                                                         *)
(* What is in the file is one of Contents: unparsable, invalid (it is      *)
(* decoded but is not accepted) or valid, with or without automatic        *)
(* restarts, and the Kafka brokers of each inlet, or none for those that   *)
(* get the ones of the orchestrator.                                       *)
(***************************************************************************)
EXTENDS Naturals, Sequences, SequencesExt

CONSTANTS
  Contents,               \* [syntax, valid, restart, inlets] records, inlets a sequence
  MaxWrites               \* bound on the changes of the file

VARIABLES
  file, writes,           \* what is in the configuration file
  events,                 \* of the file or of others, waiting for the watcher
  watching,               \* the goroutine of the watcher
  orcPhase,               \* "parse", "watch", "reparse", "register", "up", "exited"
  config,                 \* the variable of the command
  registered,             \* serviceConfigurations, for the inlets
  modified, orcTerminated

orcVars == <<file, writes, events, watching, orcPhase, config, registered, modified, orcTerminated>>

(* A configuration that is yet to be parsed.                               *)
Empty == [syntax |-> FALSE, valid |-> FALSE, restart |-> TRUE, inlets |-> <<>>]

OrcInit ==
  /\ file \in Contents /\ writes = 0 /\ events = <<>> /\ watching = FALSE
  /\ orcPhase = "parse" /\ config = Empty /\ registered = <<>>
  /\ modified = FALSE /\ orcTerminated = FALSE

(* A file is written as a whole, or bit by bit.                            *)
WriteFile ==
  /\ writes < MaxWrites /\ writes' = writes + 1
  /\ \E c \in Contents \ {file} : file' = c
  /\ events' = IF watching THEN Append(events, "config") ELSE events
  /\ UNCHANGED <<watching, orcPhase, config, registered, modified, orcTerminated>>

(* Directories are watched.                                                *)
WriteOther ==
  /\ writes < MaxWrites /\ writes' = writes + 1
  /\ watching /\ events' = Append(events, "other")
  /\ UNCHANGED <<file, watching, orcPhase, config, registered, modified, orcTerminated>>

Accepted(content) == content.syntax /\ content.valid

(* Brokers of the inlets of the file, "none" for those it does not give.   *)
BeforeDump(inlets, metadata) ==
  [i \in DOMAIN inlets |-> IF i \in DOMAIN metadata /\ metadata[i] # "none" THEN inlets[i] ELSE "shared"]

Decoded(content) == [content EXCEPT !.inlets = BeforeDump(@, @)]

FirstParse ==
  /\ orcPhase = "parse"
  /\ IF Accepted(file)
     THEN orcPhase' = "watch" /\ config' = Decoded(file)
     ELSE orcPhase' = "exited" /\ UNCHANGED config
  /\ UNCHANGED <<file, writes, events, watching, registered, modified, orcTerminated>>

orchestratorWatch ==
  /\ orcPhase = "watch" /\ orcPhase' = "reparse"
  /\ watching' = config.restart /\ events' = <<>>
  /\ UNCHANGED <<file, writes, config, registered, modified, orcTerminated>>

(* Mistake: what was parsed before the file was watched is used.           *)
SecondParseSkipped(current, content) == current

SecondParse(current, content) == Decoded(content)

ParseAgain ==
  /\ orcPhase = "reparse"
  /\ IF Accepted(file)
     THEN orcPhase' = "register" /\ config' = SecondParse(config, file)
     ELSE orcPhase' = "exited" /\ UNCHANGED config
  /\ UNCHANGED <<file, writes, events, watching, registered, modified, orcTerminated>>

RegisterConfiguration ==
  /\ orcPhase = "register" /\ orcPhase' = "up" /\ registered' = config.inlets
  /\ UNCHANGED <<file, writes, events, watching, config, modified, orcTerminated>>

(* A component may not start.                                              *)
OrchestratorStartFails ==
  /\ orcPhase = "register" /\ orcPhase' = "exited"
  /\ UNCHANGED <<file, writes, events, watching, config, registered, modified, orcTerminated>>

(* The new configuration is decoded in a variable of its own, but          *)
(* BeforeDump works on the one of the command, that the orchestrator may   *)
(* still be about to register.                                             *)
HandleEvent ==
  /\ watching /\ events # <<>> /\ events' = Tail(events)
  /\ config' = IF Head(events) = "config" /\ file.syntax
               THEN [config EXCEPT !.inlets = BeforeDump(@, file.inlets)] ELSE config
  /\ IF Head(events) = "config" /\ Accepted(file)
     THEN watching' = FALSE /\ modified' = TRUE /\ orcTerminated' = TRUE
     ELSE UNCHANGED <<watching, modified, orcTerminated>>
  /\ UNCHANGED <<file, writes, orcPhase, registered>>

OrcSignal ==
  /\ orcPhase = "up" /\ ~orcTerminated /\ orcTerminated' = TRUE
  /\ UNCHANGED <<file, writes, events, watching, orcPhase, config, registered, modified>>

WatchEnds ==
  /\ watching /\ orcTerminated /\ watching' = FALSE
  /\ UNCHANGED <<file, writes, events, orcPhase, config, registered, modified, orcTerminated>>

(* The components are stopped.  goto restart: a file that was modified is  *)
(* all that counts, even when there was a signal too.  The watcher of a    *)
(* process that goes on ends before or after.                              *)
OrchestratorStopped ==
  /\ orcPhase = "up" /\ orcTerminated
  /\ orcPhase' = IF modified THEN "parse" ELSE "exited"
  /\ watching' = FALSE /\ modified' = FALSE /\ orcTerminated' = FALSE
  /\ registered' = <<>> /\ config' = Empty /\ events' = <<>>
  /\ UNCHANGED <<file, writes>>

OrcProgress ==
  \/ FirstParse \/ orchestratorWatch \/ ParseAgain \/ RegisterConfiguration
  \/ HandleEvent \/ WatchEnds \/ OrchestratorStopped

OrcNext ==
  OrcProgress \/ WriteFile \/ WriteOther \/ OrchestratorStartFails \/ OrcSignal

----------------------------------------------------------------------------
(* Requests of the services                                                *)

(* Services that are more than the configurations get the first one.       *)
configurationHandler(configurations, index) ==
  CASE configurations = <<>> -> "not found"
    [] index < Len(configurations) -> configurations[index + 1]
    [] OTHER -> configurations[1]

ServesTheFile ==
  /\ orcPhase = "up"
  /\ \A i \in DOMAIN file.inlets :
       configurationHandler(registered, i - 1) =
         IF file.inlets[i] = "none" THEN "shared" ELSE file.inlets[i]

(* There is no watcher when the first of the two parses found that         *)
(* automatic restarts are disabled, whatever the second one finds.         *)
Unwatched == orcPhase = "up" /\ ~watching /\ ~orcTerminated

(* The file, when it is left alone and is valid, is in the end the one     *)
(* that is served, unless the orchestrator has exited or does not watch:   *)
(* whatever the writes were and whenever they happened, before the watch,  *)
(* between the two parses or during a restart.                             *)
FileServedInTheEnd ==
  <>[](ServesTheFile \/ orcPhase = "exited" \/ ~Accepted(file) \/ Unwatched)
=============================================================================
