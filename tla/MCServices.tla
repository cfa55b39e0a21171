---------------------------- MODULE MCServices -----------------------------
(***************************************************************************)
(* Goroutines that have to come to an end, each part on its own: the       *)
(* scaler of the workers, the life of a service, the inlet, the export of  *)
(* the flows to Kafka, the static and the gNMI providers of metadata.      *)
(* Their state spaces add up: a behaviour is one of a single part, the     *)
(* others stay as they were.                                               *)
(***************************************************************************)
EXTENDS Scaler, StaticProvider, Gnmi, Lifecycle, Inlet, KafkaOutput

VARIABLE part

MCComponents == <<"reporter", "daemon", "http", "kafka", "flow">>
MCDependsOn ==
  [c \in {"reporter", "daemon", "http", "kafka", "flow"} |->
     CASE c = "http" -> {"reporter"}
       [] c = "kafka" -> {"reporter"}
       [] c = "flow" -> {"kafka", "http"}
       [] OTHER -> {}]

MCPagination == [nms |-> "none", cmdb |-> "auto"]

(* cmdb has two pages, and both sources know the large subnet.             *)
MCPages ==
  [nms |-> <<[subnets |-> <<{"e1", "e2"}, {"e3"}>>, rel |-> 0, link |-> 0]>>,
   cmdb |-> <<[subnets |-> <<{"e1"}>>, rel |-> 0, link |-> 2],
              [subnets |-> <<{"e1", "e2"}>>, rel |-> 0, link |-> 0]>>]

MCStaticExporters ==
  {"e3"} :> [from |-> "static", version |-> 0, attributes |-> TRUE, skip |-> TRUE]

MCInit ==
  /\ part \in {"scaler", "static", "gnmi", "lifecycle", "inlet", "export"}
  /\ Init /\ StaticInit /\ GnmiInit /\ LcInit /\ InletInit /\ ExportInit

MCNext ==
  /\ UNCHANGED part
  /\ \/ /\ part = "scaler" /\ Next
        /\ UNCHANGED <<staticVars, gnmiVars, lcVars, inletVars, exportVars>>
     \/ /\ part = "static" /\ StaticNext
        /\ UNCHANGED <<vars, gnmiVars, lcVars, inletVars, exportVars>>
     \/ /\ part = "gnmi" /\ GnmiNext
        /\ UNCHANGED <<vars, staticVars, lcVars, inletVars, exportVars>>
     \/ /\ part = "lifecycle" /\ LcNext
        /\ UNCHANGED <<vars, staticVars, gnmiVars, inletVars, exportVars>>
     \/ /\ part = "inlet" /\ InletNext
        /\ UNCHANGED <<vars, staticVars, gnmiVars, lcVars, exportVars>>
     \/ /\ part = "export" /\ ExportNext
        /\ UNCHANGED <<vars, staticVars, gnmiVars, lcVars, inletVars>>

(* FairSpec of the scaler, when it runs.                                   *)
ScalerFairness ==
  /\ WF_vars(part = "scaler" /\ Tick)
  /\ SF_vars(/\ part = "scaler" /\ HandleIncrease
             /\ n' = max(n, nextWorkerCount(fsm, "ScaleIncrease", n)))

(* The tickers and the goroutines run, and a page that is asked for again  *)
(* and again is answered in the end.                                       *)
StaticFairness ==
  \A s \in Remotes :
    /\ WF_staticVars(part = "static" /\ StartFetch(s))
    /\ WF_staticVars(part = "static" /\ Merge(s))
    /\ WF_staticVars(part = "static" /\ Publish(s))
    /\ \A p \in DOMAIN Pages[s] :
         SF_staticVars(part = "static" /\ fetch[s].page = p /\ FetchPage(s))

(* The goroutines run, polls end (one way or the other), and of the ready  *)
(* channel that is offered again and again a receiver gets it.             *)
GnmiFairness ==
  /\ \A e \in GnmiExporters : WF_gnmiVars(part = "gnmi" /\ CollectorNext(e))
  /\ \A w \in Queriers :
       /\ SF_gnmiVars(part = "gnmi" /\ ReceiveReady(w))
       /\ WF_gnmiVars(part = "gnmi" /\ AnswerQuery(w))

MCSpec ==
  /\ MCInit /\ [][MCNext]_<<part, vars, staticVars, gnmiVars, lcVars, inletVars, exportVars>>
  /\ ScalerFairness /\ StaticFairness /\ GnmiFairness
  /\ WF_lcVars(part = "lifecycle" /\ LcProgress)
  /\ WF_inletVars(part = "inlet" /\ InletProgress)
  /\ WF_exportVars(part = "export" /\ ExportProgress)

(* What has to end does, whatever the others do: the workers grow to their *)
(* maximum, the sources of the static provider are there, a gNMI query is  *)
(* answered, a failure ends the service, the inlet stops, and a producer   *)
(* that is full does not block the flows.                                  *)
ServicesProgress ==
  /\ part = "scaler" => OverloadReachesMax
  /\ part = "static" => StaticCatchesUp
  /\ ReadyAnswers /\ FailureEndsService /\ InletStops /\ NeverBlocked
============================================================================
