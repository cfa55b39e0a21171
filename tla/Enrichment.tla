---------------------------- MODULE Enrichment -----------------------------
(***************************************************************************)
(* outlet/core: what a worker adds to a flow once it is decoded (enrichFlow*)
(* in enricher.go), and the classification rules with their caches.        *)
(*                                                                         *)
(* A rule is what it does to the information it applies to: it sets some   *)
(* attributes, rejects the flow, or fails.                                 *)
(***************************************************************************)
EXTENDS Integers, Sequences, FiniteSets, TLC

CONSTANTS
  Metadata,               \* answer of the metadata component, by exporter and interface
  ExporterRules, InterfaceRules,
  ASNProviders, NetProviders, \* sources, by order of preference
  DefaultRate, OverrideRate,  \* by exporter, 0 when there is none
  EnrichedFlows           \* flows that are decoded

IsSequence(q) == Len(q) \in Nat /\ DOMAIN q = 1..Len(q)

ASNSources ==
  {"flow", "flow-except-private", "flow-except-default-route", "routing", "routing-except-private", "networks"}

(* A name of a source that is not one of these is refused with the         *)
(* configuration.                                                          *)
ASSUME EnrichmentAssumption ==
  /\ IsSequence(ExporterRules) /\ IsSequence(InterfaceRules) /\ IsSequence(ASNProviders)
  /\ \A p \in DOMAIN ASNProviders : ASNProviders[p] \in ASNSources

VARIABLES
  exporterCache, interfaceCache, \* results of the classification
  lastEnriched            \* the last flow, and what became of it

enrichVars == <<exporterCache, interfaceCache, lastEnriched>>

ExporterAttributes == {"group", "role"}
InterfaceAttributes == {"provider", "connectivity", "boundary"}
NoClass(attributes) ==
  [a \in attributes \cup {"reject"} |-> IF a = "reject" THEN FALSE ELSE ""]
NoExporterClass == NoClass(ExporterAttributes)
NoInterfaceClass == NoClass(InterfaceAttributes \cup {"name", "description"})

----------------------------------------------------------------------------
(* Classification                                                          *)

(* A rule only sets the attributes that are not set.                       *)
Exec(rule, info, class) ==
  IF ~(info \in rule.on) THEN class
  ELSE [a \in DOMAIN class |->
          IF a = "reject" THEN class.reject \/ rule.reject
          ELSE IF class[a] = "" /\ a \in DOMAIN rule.sets THEN rule.sets[a] ELSE class[a]]

Fails(rule, info) == rule.fails /\ info \in rule.on

(* A rule, after others: acc has the class so far, and whether to stop.    *)
ExecNext(acc, rule, info, attributes) ==
  IF acc.stop THEN acc
  ELSE IF Fails(rule, info) THEN [class |-> acc.class, stop |-> TRUE]
  ELSE LET c == Exec(rule, info, acc.class)
       IN [class |-> c, stop |-> \A a \in attributes : c[a] # ""]

(* The rules are executed in order, until one fails or all the attributes  *)
(* are set.                                                                *)
Classify(rules, info, class, attributes) ==
  LET after[i \in 0..Len(rules)] ==
        IF i = 0 THEN [class |-> class, stop |-> FALSE]
        ELSE ExecNext(after[i - 1], rules[i], info, attributes)
  IN after[Len(rules)].class

Cached(cache, key, class) ==
  [k \in DOMAIN cache \cup {key} |-> IF k = key THEN class ELSE cache[k]]

(* classifyExporter: what the metadata say, what was found last time, or   *)
(* what the rules say, which is kept.                                      *)
classifyExporter(cache, info, known) ==
  IF known # NoExporterClass \/ ExporterRules = <<>> THEN [class |-> known, cache |-> cache]
  ELSE IF info \in DOMAIN cache THEN [class |-> cache[info], cache |-> cache]
  ELSE LET c == Classify(ExporterRules, info, known, ExporterAttributes)
       IN [class |-> c, cache |-> Cached(cache, info, c)]

Named(class, interface) ==
  [class EXCEPT !.name = IF @ = "" THEN interface.name ELSE @,
                !.description = IF @ = "" THEN interface.description ELSE @]

(* Mistake: the key of the cache is the interface, without its exporter.   *)
InterfaceKeyAlone(exporter, interface) == <<interface>>

InterfaceKey(exporter, interface) == <<exporter, interface>>

classifyInterface(cache, exporter, interface, known) ==
  LET key == InterfaceKey(exporter, interface)
  IN IF known # NoInterfaceClass \/ InterfaceRules = <<>>
     THEN [class |-> Named([known EXCEPT !.name = "", !.description = ""], interface), cache |-> cache]
     ELSE IF key \in DOMAIN cache THEN [class |-> cache[key], cache |-> cache]
     ELSE LET c == Named(Classify(InterfaceRules, <<exporter, interface>>, known, InterfaceAttributes),
                         interface)
          IN [class |-> c, cache |-> Cached(cache, key, c)]

----------------------------------------------------------------------------
(* Sources                                                                 *)

(* The last ones are those from 4,200,000,000.                             *)
IsPrivate(as) == as \in {0, 23456} \/ as \in 64496..65551 \/ as \div 100000000 >= 42

(* The first source with a value.                                          *)
FirstOf(providers, value, none) ==
  LET found[i \in 0..Len(providers)] ==
        IF i = 0 THEN none ELSE IF found[i - 1] # none THEN found[i - 1] ELSE value[providers[i]]
  IN found[Len(providers)]

getASNumber(flowAS, routingAS, netAS, mask) ==
  FirstOf(ASNProviders,
          [p \in ASNSources |->
             CASE p = "flow" -> flowAS
               [] p = "flow-except-private" -> IF IsPrivate(flowAS) THEN 0 ELSE flowAS
               [] p = "flow-except-default-route" -> IF mask = 0 THEN 0 ELSE flowAS
               [] p = "routing" -> routingAS
               [] p = "routing-except-private" -> IF IsPrivate(routingAS) THEN 0 ELSE routingAS
               [] p = "networks" -> netAS], 0)

getNetMask(flowMask, routingMask) ==
  FirstOf(NetProviders, ("flow" :> flowMask) @@ ("routing" :> routingMask), 0)

(* A flow without a next hop has the invalid address, which is not the     *)
(* unspecified one (::).                                                   *)
getNextHop(flowNextHop, routingNextHop) ==
  FirstOf(NetProviders, ("flow" :> flowNextHop) @@ ("routing" :> routingNextHop), "::")

----------------------------------------------------------------------------
(* enrichFlow                                                              *)

Answer(exporter, index) ==
  IF index = 0 \/ index \notin DOMAIN Metadata[exporter]
  THEN [found |-> FALSE] ELSE [found |-> TRUE] @@ Metadata[exporter][index]

NoInterface == [index |-> 0, name |-> "", description |-> ""]
InterfaceInfo(answer, index) ==
  IF answer.found THEN [index |-> index, name |-> answer.name, description |-> answer.description]
  ELSE NoInterface

(* The rate of a flow: overridden, its own, or the default one.            *)
FlowRate(flow) ==
  IF OverrideRate[flow.exporter] > 0 THEN OverrideRate[flow.exporter]
  ELSE IF flow.rate > 0 THEN flow.rate ELSE DefaultRate[flow.exporter]

(* The outcome of a flow, with the caches after it.                        *)
enrichFlow(flow, ecache, icache) ==
  LET in == Answer(flow.exporter, flow.inIf)
      out == Answer(flow.exporter, flow.outIf)
      name == IF out.found THEN out.exporter ELSE IF in.found THEN in.exporter ELSE ""
      known == IF out.found THEN out.exporterClass ELSE IF in.found THEN in.exporterClass ELSE NoExporterClass
      info == <<flow.exporter, name>>
      e == classifyExporter(ecache, info, known)
      o == classifyInterface(icache, info, InterfaceInfo(out, flow.outIf),
                             IF out.found THEN out.class ELSE NoInterfaceClass)
      i == classifyInterface(o.cache, info, InterfaceInfo(in, flow.inIf),
                             IF in.found THEN in.class ELSE NoInterfaceClass)
      mask == getNetMask(flow.mask, flow.route.mask)
      Skipped(ec, ic) == [outcome |-> [skip |-> TRUE], ecache |-> ec, icache |-> ic]
  IN IF name = "" \/ FlowRate(flow) = 0 THEN Skipped(ecache, icache)
     ELSE IF e.class.reject THEN Skipped(e.cache, icache)
     ELSE IF o.class.reject THEN Skipped(e.cache, o.cache)
     ELSE IF i.class.reject THEN Skipped(e.cache, i.cache)
     ELSE [outcome |-> [skip |-> FALSE, exporter |-> e.class, in |-> i.class, out |-> o.class,
                        rate |-> FlowRate(flow), mask |-> mask,
                        as |-> getASNumber(flow.as, flow.route.as, flow.net, mask),
                        nextHop |-> getNextHop(flow.nextHop, flow.route.nextHop)],
           ecache |-> e.cache, icache |-> i.cache]

EnrichFlow ==
  /\ \E flow \in EnrichedFlows :
       LET r == enrichFlow(flow, exporterCache, interfaceCache)
       IN /\ lastEnriched' = [flow |-> flow, outcome |-> r.outcome]
          /\ exporterCache' = r.ecache
          /\ interfaceCache' = r.icache

(* An entry that was not used for some time is forgotten.                  *)
CacheExpires ==
  /\ \/ /\ \E k \in DOMAIN exporterCache :
             exporterCache' = [x \in DOMAIN exporterCache \ {k} |-> exporterCache[x]]
        /\ UNCHANGED interfaceCache
     \/ /\ \E k \in DOMAIN interfaceCache :
             interfaceCache' = [x \in DOMAIN interfaceCache \ {k} |-> interfaceCache[x]]
        /\ UNCHANGED exporterCache
  /\ UNCHANGED lastEnriched

EnrichInit ==
  /\ exporterCache = <<>> /\ interfaceCache = <<>>
  /\ lastEnriched = <<>>

EnrichNext == EnrichFlow \/ CacheExpires

EnrichSpec == EnrichInit /\ [][EnrichNext]_enrichVars

----------------------------------------------------------------------------
(* Properties                                                              *)

(* Whatever the caches have from other flows, a flow gets what the rules   *)
(* say of its own exporter and of its own interfaces.                      *)
CachesTransparent ==
  lastEnriched # <<>> =>
    lastEnriched.outcome = enrichFlow(lastEnriched.flow, <<>>, <<>>).outcome

(* "Once an interface is classified for a given criteria, it cannot be     *)
(* changed by later rule": an attribute of an interface has the value of   *)
(* the first rule that sets it, of those before a failure.                 *)
FirstRuleWins ==
  \A info \in DOMAIN interfaceCache, a \in InterfaceAttributes :
    LET applied == {i \in DOMAIN InterfaceRules :
                      /\ info \in InterfaceRules[i].on
                      /\ \A j \in 1..i : ~Fails(InterfaceRules[j], info)
                      /\ a \in DOMAIN InterfaceRules[i].sets /\ InterfaceRules[i].sets[a] # ""}
    IN interfaceCache[info][a] =
         IF applied = {} THEN "" ELSE InterfaceRules[CHOOSE i \in applied : \A j \in applied : i <= j].sets[a]

(* "The first source returning a non-zero AS number wins", and a flow is   *)
(* not taken at its word when it gives a private AS number, nor when its   *)
(* prefix is the default route.                                            *)
FirstSourceWins ==
  (lastEnriched # <<>> /\ ~lastEnriched.outcome.skip) =>
    LET flow == lastEnriched.flow
        Gives(q) ==
          CASE q = "flow" -> flow.as
            [] q = "flow-except-private" -> IF IsPrivate(flow.as) THEN 0 ELSE flow.as
            [] q = "flow-except-default-route" -> IF lastEnriched.outcome.mask = 0 THEN 0 ELSE flow.as
            [] q = "routing" -> flow.route.as
            [] q = "routing-except-private" -> IF IsPrivate(flow.route.as) THEN 0 ELSE flow.route.as
            [] q = "networks" -> flow.net
    IN \A p \in DOMAIN ASNProviders :
         (Gives(ASNProviders[p]) # 0 /\ \A q \in 1..(p - 1) : Gives(ASNProviders[q]) = 0) =>
           lastEnriched.outcome.as = Gives(ASNProviders[p])

(* What a flow gets does not depend on the flows before it, comes from the *)
(* first rule that decides and from the first source that knows.           *)
EnrichmentRight == CachesTransparent /\ FirstRuleWins /\ FirstSourceWins
============================================================================
