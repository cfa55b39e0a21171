------------------------------- MODULE MCFlow ------------------------------
(***************************************************************************)
(* The outlet and what it makes of a flow, each part on its own: the       *)
(* workers with all that may happen to them, the parsers of a frame, the   *)
(* batch of a worker, the templates of NetFlow, the metadata, the rate     *)
(* limiter, the enrichment.  Their state spaces add up: a behaviour is one *)
(* of a single part, the others stay as they were.                         *)
(***************************************************************************)
EXTENDS KafkaWorkers, MetadataCache, Frames, FlowBatch, NetFlow, Enrichment, RateLimiter

VARIABLE part

Forward(t, value) == [type |-> t, n |-> value, reverse |-> FALSE]
Backward(t, value) == [type |-> t, n |-> value, reverse |-> TRUE]
Section(f) == [type |-> "dataLinkFrameSection", n |-> 1, reverse |-> FALSE, frame |-> f]

MCColumns ==
  {"Bytes", "Packets", "EType", "SrcPort", "DstPort", "SrcMAC", "MPLSLabels", "SrcAddr",
   "DstAddr", "SrcVlan", "SamplingRate", "InIfName", "OutIfName"}

MCNetflowRecords ==
  {<<Forward("sourceIPv4Address", 10), Forward("destinationIPv4Address", 11),
     Forward("sourceTransportPort", 12), Forward("destinationTransportPort", 13),
     Forward("packetDeltaCount", 14), Backward("packetDeltaCount", 15),
     Backward("sourceTransportPort", 16), Forward("ingressInterface", 17)>>,
   <<Forward("destinationIPv4Address", 11), Forward("destinationTransportPort", 13),
     Backward("octetDeltaCount", 20), Forward("octetDeltaCount", 21),
     Backward("packetDeltaCount", 0), Forward("packetDeltaCount", 14)>>,
   <<Forward("ingressPhysicalInterface", 17), Forward("vlanId", 18),
     Section(<<"eth", "vlan", "ipv4", "vxlan", "eth", "ipv4", "tcp">>)>>}

Header(f) == [kind |-> "header", n |-> 9, frame |-> f]
MCSflowSamples ==
  {[rate |-> 5, inIf |-> 6, outIf |-> 0, discard |-> 8,
    records |-> <<Header(<<"eth", "ipv4", "vxlan", "eth", "other">>), [kind |-> "router", n |-> 3]>>],
   [rate |-> 0, inIf |-> 0, outIf |-> 0, discard |-> 0, records |-> <<>>],
   [rate |-> 5, inIf |-> 0, outIf |-> 7, discard |-> 0,
    records |-> <<[kind |-> "ipv4", n |-> 9], [kind |-> "ethernet", n |-> 10],
                  [kind |-> "switch", n |-> 11], [kind |-> "gateway", n |-> 12],
                  Header(<<"eth", "vlan", "ipv4", "tcp">>)>>]}

(* The frames above, parsed.                                               *)
MCSampledHeaders ==
  LET records == UNION {Range(rec) : rec \in MCNetflowRecords}
                   \cup UNION {Range(sample.records) : sample \in MCSflowSamples}
  IN [f \in {r.frame : r \in {x \in records : "frame" \in DOMAIN x}}, decap \in BatchDecaps |->
        parseSampledHeader(f, decap)]

(* x is described by its interfaces, y is known by its metadata; the       *)
(* interfaces 1 of both have the same name and description.                *)
Interface(name, description, exporter) ==
  [name |-> name, description |-> description, exporter |-> exporter,
   exporterClass |-> NoExporterClass, class |-> NoInterfaceClass]
MCExporterMetadata ==
  "x" :> (1 :> Interface("eth1", "t", "r1")
          @@ 2 :> [Interface("eth2", "", "r1") EXCEPT !.class.provider = "given"])
  @@ "y" :> (1 :> [Interface("eth1", "t", "r2") EXCEPT !.exporterClass.group = "known"]
             @@ 2 :> Interface("eth2", "", "r2"))

X1 == <<<<"x", "r1">>, [index |-> 1, name |-> "eth1", description |-> "t"]>>
Y1 == <<<<"y", "r2">>, [index |-> 1, name |-> "eth1", description |-> "t"]>>
Y2 == <<<<"y", "r2">>, [index |-> 2, name |-> "eth2", description |-> ""]>>
Rule(on, sets) == [on |-> on, sets |-> sets, reject |-> FALSE, fails |-> FALSE]
MCExporterRules ==
  <<Rule({<<"x", "r1">>}, "role" :> "core"), [Rule({<<"y", "r2">>}, <<>>) EXCEPT !.reject = TRUE]>>
MCInterfaceRules ==
  <<Rule({X1}, "provider" :> "p1" @@ "connectivity" :> "transit" @@ "name" :> "n1"),
    Rule({X1, Y1}, "provider" :> "p2" @@ "boundary" :> "external"),
    [Rule({Y1}, <<>>) EXCEPT !.fails = TRUE],
    [Rule({X1, Y2}, <<>>) EXCEPT !.reject = TRUE],
    Rule({X1, Y1}, "connectivity" :> "pni")>>

MCASNProviders ==
  <<"flow-except-private", "flow-except-default-route", "routing-except-private", "networks">>
MCNetProviders == <<"flow", "routing">>
MCDefaultRate == [x |-> 10, y |-> 10]
MCOverrideRate == [x |-> 0, y |-> 0]
MCEnrichedFlows ==
  {[exporter |-> e, inIf |-> i, outIf |-> o, rate |-> 0, mask |-> 0, as |-> r.as, net |-> 3,
    nextHop |-> r.nh, route |-> [mask |-> r.m, as |-> r.as2, nextHop |-> "nh"]] :
    e \in {"x", "y"}, i \in 0..2, o \in {0, 1},
    r \in {[as |-> 64512, as2 |-> 5, nh |-> "invalid", m |-> 0],
           [as |-> 2, as2 |-> 64512, nh |-> "::", m |-> 24]}}

MCInit ==
  /\ part \in {"cache", "frames", "batch", "netflow", "rates", "enrichment", "workers"}
  /\ CacheInit /\ FrameInit /\ BatchInit /\ NfInit /\ RateInit /\ EnrichInit /\ PoolInit

MCNext ==
  /\ UNCHANGED part
  /\ \/ /\ part = "cache" /\ CacheNext
        /\ UNCHANGED <<frame, batchVars, nfVars, rateVars, enrichVars, allPoolVars>>
     \/ /\ part = "frames" /\ FrameNext
        /\ UNCHANGED <<cacheVars, batchVars, nfVars, rateVars, enrichVars, allPoolVars>>
     \/ /\ part = "batch" /\ BatchNext
        /\ UNCHANGED <<cacheVars, frame, nfVars, rateVars, enrichVars, allPoolVars>>
     \/ /\ part = "netflow" /\ NfNext
        /\ UNCHANGED <<cacheVars, frame, batchVars, rateVars, enrichVars, allPoolVars>>
     \/ /\ part = "rates" /\ RateNext
        /\ UNCHANGED <<cacheVars, frame, batchVars, nfVars, enrichVars, allPoolVars>>
     \/ /\ part = "enrichment" /\ EnrichNext
        /\ UNCHANGED <<cacheVars, frame, batchVars, nfVars, rateVars, allPoolVars>>
     \/ /\ part = "workers" /\ PoolNext
        /\ UNCHANGED <<cacheVars, frame, batchVars, nfVars, rateVars, enrichVars>>

MCSpec ==
  MCInit /\ [][MCNext]_<<part, cacheVars, frame, batchVars, nfVars, rateVars, enrichVars, allPoolVars>>

(* What the decoders take from a packet: the headers inside of a tunnel,   *)
(* and the values of each direction.                                       *)
DecodersRight == FramesRight /\ ReverseIsMirror
=============================================================================
