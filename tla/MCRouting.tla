----------------------------- MODULE MCRouting ------------------------------
(***************************************************************************)
(* The providers of routes for TLC: BMP, with exporters that connect from  *)
(* their own port or one that connects again from the same port, and       *)
(* BioRIS, with two instances that know routers in common.  A behaviour is *)
(* one of a single provider, the other one stays as it was.                *)
(***************************************************************************)
EXTENDS Bmp, BioRis

CONSTANT Parts            \* the providers that run

VARIABLE part

MCAddress == [c \in Connections |-> c]

MCSameAddress == [c \in Connections |-> "address"]

MCRisInstances == <<"i1", "i2">>

MCFirstRouters == [i1 |-> {"x"}, i2 |-> {"x", "y"}]

Route(length, paths) == [length |-> length, paths |-> paths]

(* The longest prefix comes last, and its first path has no AS path.       *)
MCLpmAnswers ==
  {<<Route(0, <<<<<<65000>>>>>>),
     Route(24, <<<<<<65001, 65002>>, <<65003>>>>, <<<<1>>>>>>)>>}

MCInit == part \in Parts /\ BmpInit /\ RisInit

MCNext ==
  /\ UNCHANGED part
  /\ \/ part = "bmp" /\ BmpNext /\ UNCHANGED risVars
     \/ part = "bioris" /\ RisNext /\ UNCHANGED bmpVars

MCSpec == MCInit /\ [][MCNext]_<<part, bmpVars, risVars>>

(* Goroutines run, time passes, and the connection of a processor that     *)
(* ended is closed.                                                        *)
BmpFairness ==
  /\ \A c \in Connections :
       /\ WF_bmpVars(part = "bmp" /\ Process(c))
       /\ WF_bmpVars(part = "bmp" /\ handleConnectionDown(c))
       /\ WF_bmpVars(part = "bmp" /\ processor[c].step = "done" /\ ReaderExit(c))
  /\ WF_bmpVars(part = "bmp" /\ removeStalePeers)
  /\ WF_bmpVars(part = "bmp" /\ TimerFires)
  /\ WF_bmpVars(part = "bmp" /\ Tick)

(* Requests have a deadline, goroutines run, and the lock for reading is   *)
(* handed to the readers that wait when the writer releases it.            *)
RisFairness ==
  /\ \A w \in RisWorkers :
       /\ WF_risVars(part = "bioris" /\ LPMFails(w))
       /\ WF_risVars(part = "bioris" /\ EndLookup(w))
       /\ SF_risVars(part = "bioris" /\ Choose(w))
  /\ WF_risVars(part = "bioris" /\ (GetRoutersFails \/ PublishRouters))

MCFairSpec == MCSpec /\ BmpFairness /\ RisFairness

(* The peers of an exporter that is gone are removed and what it announced *)
(* is forgotten; the lookups at an RIS and its refreshes end.              *)
RoutingProgress == PeersForgotten /\ LookupsAndRefreshesEnd
=============================================================================
