----------------------------- MODULE FlowProofs -----------------------------
(***************************************************************************)
(* Proofs about what the workers of the outlet share to decode flows and   *)
(* to enrich them: the templates and the sampling rates of NetFlow, for    *)
(* all exporters, domains and workers; the cache of the metadata, for all  *)
(* durations; the limit on the flows of an exporter, for all seconds; the  *)
(* classification of the flows, for all rules, sources and metadata; the   *)
(* rows of a batch, for all records, tunnels and verdicts.                 *)
(***************************************************************************)
EXTENDS NetFlow, MetadataCache, RateLimiter, Enrichment, FlowBatch, FiniteSetTheorems, SequenceTheorems,
        WellFoundedInduction, NaturalsInduction, TLAPS

(* The templates and the sampling rates of the NetFlow decoder.            *)
Layouts == {Unknown} \cup 1..MaxLayout

Packets == [source : Sources, sets : PacketContents, layout : 1..MaxLayout]

WorkerStates ==
  {Idle} \cup [phase : {"parse", "decode"}, packet : Packets, i : Nat, found : Seq(Layouts)]

(* What a packet announces was announced.                                  *)
PacketInv(p) ==
  \A j \in DOMAIN p.sets :
    /\ p.sets[j].kind = "template" => <<p.source, AsTemplate, p.layout>> \in announced
    /\ p.sets[j].kind = "options" =>
         <<p.source, p.sets[j].sampler, 10 * p.sets[j].sampler + p.layout>> \in announced

(* Templates and rates, in memory or in the file, were announced by the    *)
(* source they are known for.                                              *)
TemplatesInv(templates) ==
  \A source \in DOMAIN templates :
    /\ templates[source] \in Layouts
    /\ <<source, AsTemplate, templates[source]>> \in announced

RatesInv(rates) ==
  \A source, sampler :
    <<source, sampler>> \in DOMAIN rates =>
      <<source, sampler, rates[<<source, sampler>>]>> \in announced

(* A worker is at a set of its packet, and the templates it found for the  *)
(* sets before were announced.                                             *)
WorkerInv(s) ==
  s # Idle =>
    /\ PacketInv(s.packet)
    /\ s.i \in 1..Len(s.packet.sets)
    /\ Len(s.found) = IF s.phase = "parse" THEN s.i - 1 ELSE Len(s.packet.sets)
    /\ \A j \in 1..Len(s.found) :
         s.packet.sets[j].kind # "template" =>
           <<s.packet.source, AsTemplate, s.found[j]>> \in announced

NfTypeInv ==
  /\ onTheWay \subseteq Packets
  /\ nfWorker \in [NfWorkers -> WorkerStates]
  /\ outletUp \in BOOLEAN

(* As long as the outlet is down, what the file has is what was known.     *)
DownInv ==
  ~outletUp =>
    /\ \A w \in NfWorkers : nfWorker[w] = Idle
    /\ DOMAIN Templates \subseteq DOMAIN nfFile.templates
    /\ DOMAIN SamplingRates \subseteq DOMAIN nfFile.rates

AnnouncedInv ==
  /\ \A p \in onTheWay : PacketInv(p)
  /\ \A w \in NfWorkers : WorkerInv(nfWorker[w])
  /\ TemplatesInv(Templates) /\ TemplatesInv(nfFile.templates)
  /\ RatesInv(SamplingRates) /\ RatesInv(nfFile.rates)
  /\ \A u \in nfUsed : NotMixed(u)

NfInv == NfTypeInv /\ DownInv /\ AnnouncedInv

-----------------------------------------------------------------------------
(* A packet has one or two sets, each of one of three kinds.               *)
LEMMA PacketShape ==
  ASSUME NEW sets \in PacketContents
  PROVE  /\ Len(sets) \in Nat \ {0} /\ DOMAIN sets = 1..Len(sets)
         /\ \A j \in 1..Len(sets) : sets[j].kind \in {"template", "options", "data"}
BY DEF PacketContents, TemplateSet, OptionsSet, DataSet

(* Nothing is ever taken back from what was announced.                     *)
LEMMA AnnouncedGrows ==
  ASSUME announced \subseteq announced'
  PROVE  /\ \A p : PacketInv(p) => PacketInv(p)'
         /\ \A t : TemplatesInv(t) => TemplatesInv(t)'
         /\ \A r : RatesInv(r) => RatesInv(r)'
         /\ \A s : WorkerInv(s) => WorkerInv(s)'
         /\ \A u : NotMixed(u) => NotMixed(u)'
BY DEF PacketInv, TemplatesInv, RatesInv, WorkerInv, NotMixed

-----------------------------------------------------------------------------
LEMMA NfInitInv == NfInit => NfInv
BY DEF NfInit, NfInv, NfTypeInv, DownInv, AnnouncedInv, WorkerStates, TemplatesInv, RatesInv,
       WorkerInv

LEMMA SendPacketInv ==
  ASSUME NfInv, SendPacket
  PROVE  NfInv'
<1>1. PICK source \in Sources, sets \in PacketContents, layout \in 1..MaxLayout :
        /\ onTheWay' = onTheWay \cup {[source |-> source, sets |-> sets, layout |-> layout]}
        /\ announced' = announced
             \cup {<<source, AsTemplate, layout>> : i \in {j \in DOMAIN sets : sets[j].kind = "template"}}
             \cup {<<source, sets[i].sampler, 10 * sets[i].sampler + layout>> :
                     i \in {j \in DOMAIN sets : sets[j].kind = "options"}}
  BY DEF SendPacket
<1> DEFINE p == [source |-> source, sets |-> sets, layout |-> layout]
<1>2. announced \subseteq announced'
  BY <1>1
<1>3. p \in Packets
  BY DEF Packets
<1>4. PacketInv(p)'
  BY <1>1 DEF PacketInv
<1>5. NfTypeInv'
  BY <1>1, <1>3 DEF SendPacket, NfInv, NfTypeInv
<1>6. DownInv'
  BY DEF SendPacket, NfInv, DownInv
<1>7. AnnouncedInv'
  BY <1>1, <1>2, <1>4, AnnouncedGrows DEF SendPacket, NfInv, AnnouncedInv
<1> QED
  BY <1>5, <1>6, <1>7 DEF NfInv

LEMMA ReceivePacketInv ==
  ASSUME NfInv, NEW w \in NfWorkers, ReceivePacket(w)
  PROVE  NfInv'
<1>1. PICK p \in onTheWay :
        /\ onTheWay' = onTheWay \ {p}
        /\ nfWorker' = [nfWorker EXCEPT ![w] =
             [phase |-> "parse", packet |-> p, i |-> 1, found |-> <<>>]]
  BY DEF ReceivePacket
<1> DEFINE s == [phase |-> "parse", packet |-> p, i |-> 1, found |-> <<>>]
<1>2. p \in Packets /\ PacketInv(p)
  BY <1>1 DEF NfInv, NfTypeInv, AnnouncedInv
<1>3. s \in WorkerStates /\ s # Idle
  BY <1>2 DEF WorkerStates, Idle
<1>4. WorkerInv(s)
  BY <1>2, PacketShape DEF WorkerInv, Packets
<1>5. \A v \in NfWorkers : nfWorker'[v] = IF v = w THEN s ELSE nfWorker[v]
  BY <1>1 DEF NfInv, NfTypeInv
<1>6. NfTypeInv'
  BY <1>1, <1>3 DEF ReceivePacket, NfInv, NfTypeInv
<1>7. DownInv'
  BY DEF ReceivePacket, NfInv, DownInv
<1>8. AnnouncedInv'
  <2>1. announced' = announced /\ announced \subseteq announced'
    BY DEF ReceivePacket
  <2>2. WorkerInv(s)'
    BY <1>4, <2>1, AnnouncedGrows
  <2> QED
    BY <1>1, <1>5, <2>1, <2>2, AnnouncedGrows DEF ReceivePacket, NfInv, AnnouncedInv
<1> QED
  BY <1>6, <1>7, <1>8 DEF NfInv

(* A worker that goes on, or is done, with its packet.                     *)
LEMMA WorkerStepInv ==
  ASSUME NfInv, NEW w \in NfWorkers, NEW s \in WorkerStates, WorkerInv(s), outletUp,
         nfWorker' = [nfWorker EXCEPT ![w] = s],
         UNCHANGED <<onTheWay, nfFile, outletUp, announced>>,
         TemplatesInv(Templates)', RatesInv(SamplingRates)', \A u \in nfUsed' : NotMixed(u)
  PROVE  NfInv'
<1>1. announced \subseteq announced'
  OBVIOUS
<1>2. \A v \in NfWorkers : nfWorker'[v] = IF v = w THEN s ELSE nfWorker[v]
  BY DEF NfInv, NfTypeInv
<1>3. NfTypeInv'
  BY DEF NfInv, NfTypeInv
<1>4. DownInv'
  BY DEF NfInv, DownInv
<1>5. AnnouncedInv'
  BY <1>1, <1>2, AnnouncedGrows DEF NfInv, AnnouncedInv
<1> QED
  BY <1>3, <1>4, <1>5 DEF NfInv

(* A packet that is being handled.                                         *)
LEMMA BusyWorker ==
  ASSUME NfInv, NEW w \in NfWorkers, nfWorker[w] # Idle
  PROVE  /\ nfWorker[w] \in [phase : {"parse", "decode"}, packet : Packets, i : Nat,
                             found : Seq(Layouts)]
         /\ WorkerInv(nfWorker[w]) /\ outletUp
BY DEF NfInv, NfTypeInv, DownInv, AnnouncedInv, WorkerStates

LEMMA IdleInv == Idle \in WorkerStates /\ WorkerInv(Idle)
BY DEF WorkerStates, WorkerInv

(* The template of a set is known when it is the one that was announced    *)
(* for the source of its packet, and a template needs none.                *)
LEMMA ParsedInv ==
  ASSUME NEW s \in [phase : {"parse"}, packet : Packets, i : Nat, found : Seq(Layouts)],
         WorkerInv(s), NEW t \in Layouts,
         s.packet.sets[s.i].kind # "template" => <<s.packet.source, AsTemplate, t>> \in announced
  PROVE  Parsed_(s, t) \in WorkerStates /\ WorkerInv(Parsed_(s, t))
<1> DEFINE r == Parsed_(s, t)
           n == Len(s.packet.sets)
           found == Append(s.found, t)
<1>1. s # Idle /\ s.packet.sets \in PacketContents /\ n \in Nat \ {0}
  BY PacketShape DEF Idle, Packets
<1>2. /\ PacketInv(s.packet) /\ s.i \in 1..n /\ Len(s.found) = s.i - 1
      /\ \A j \in 1..Len(s.found) :
           s.packet.sets[j].kind # "template" =>
             <<s.packet.source, AsTemplate, s.found[j]>> \in announced
  BY <1>1 DEF WorkerInv
<1>3. /\ found \in Seq(Layouts) /\ Len(found) = s.i
      /\ \A j \in 1..Len(found) :
           s.packet.sets[j].kind # "template" =>
             <<s.packet.source, AsTemplate, found[j]>> \in announced
  <2>1. s.found \in Seq(Layouts) /\ Len(s.found) \in Nat
    OBVIOUS
  <2>2. /\ found \in Seq(Layouts) /\ Len(found) = s.i /\ found[s.i] = t
        /\ \A j \in 1..Len(s.found) : found[j] = s.found[j]
    BY <1>2, <2>1
  <2>3. \A j \in 1..Len(found) : j = s.i \/ j \in 1..Len(s.found)
    BY <1>2, <2>1, <2>2
  <2> HIDE DEF found
  <2>. QED  BY <1>2, <2>2, <2>3
<1>4. CASE s.i = n
  <2>1. r = [phase |-> "decode", packet |-> s.packet, i |-> 1, found |-> found]
    BY <1>4 DEF Parsed_
  <2> QED
    BY <1>1, <1>2, <1>3, <1>4, <2>1 DEF WorkerStates, WorkerInv
<1>5. CASE s.i # n
  <2>1. r = [phase |-> "parse", packet |-> s.packet, i |-> s.i + 1, found |-> found]
    BY <1>5 DEF Parsed_
  <2> QED
    BY <1>1, <1>2, <1>3, <1>5, <2>1 DEF WorkerStates, WorkerInv
<1> QED
  BY <1>4, <1>5

LEMMA ParseSetInv ==
  ASSUME NfInv, NEW w \in NfWorkers, ParseSet(w)
  PROVE  NfInv' /\ DOMAIN Templates \subseteq DOMAIN Templates'
<1> DEFINE s == nfWorker[w]
           source == s.packet.source
<1>0. s.phase = "parse" /\ s # Idle
  BY DEF ParseSet, Idle
<1>1. /\ s \in [phase : {"parse"}, packet : Packets, i : Nat, found : Seq(Layouts)]
      /\ WorkerInv(s) /\ outletUp
  BY <1>0, BusyWorker
<1>2. TemplatesInv(Templates) /\ RatesInv(SamplingRates) /\ \A u \in nfUsed : NotMixed(u)
  BY DEF NfInv, AnnouncedInv
<1>3. CASE s.packet.sets[s.i].kind = "template"
  <2>1. /\ Templates' = Assigned(Templates, source, s.packet.layout)
        /\ nfWorker' = [nfWorker EXCEPT ![w] = Parsed_(s, Unknown)]
    BY <1>3 DEF ParseSet, templateKey
  <2>2. Parsed_(s, Unknown) \in WorkerStates /\ WorkerInv(Parsed_(s, Unknown))
    BY <1>1, <1>3, ParsedInv DEF Layouts
  <2>3. <<source, AsTemplate, s.packet.layout>> \in announced /\ s.packet.layout \in Layouts
    <3>1. s.i \in DOMAIN s.packet.sets /\ PacketInv(s.packet)
      BY <1>0, <1>1, PacketShape DEF WorkerInv, Packets
    <3> QED
      BY <1>1, <1>3, <3>1 DEF PacketInv, Packets, Layouts
  <2>4. TemplatesInv(Templates)'
    BY <1>2, <2>1, <2>3 DEF TemplatesInv, ParseSet, Assigned
  <2>5. DOMAIN Templates \subseteq DOMAIN Templates'
    BY <2>1 DEF Assigned
  <2>6. RatesInv(SamplingRates)'
    BY <1>2 DEF ParseSet, RatesInv
  <2>7. NfInv'
    BY <1>1, <1>2, <2>1, <2>2, <2>4, <2>6, WorkerStepInv DEF ParseSet
  <2> QED
    BY <2>5, <2>7
<1>4. CASE s.packet.sets[s.i].kind # "template"
  <2> DEFINE t == GetTemplate(source)
             r == IF t = Unknown THEN Idle ELSE Parsed_(s, t)
  <2>1. nfWorker' = [nfWorker EXCEPT ![w] = r] /\ Templates' = Templates
    BY <1>4 DEF ParseSet
  <2>2. t # Unknown => t \in Layouts /\ <<source, AsTemplate, t>> \in announced
    BY <1>2 DEF GetTemplate, templateKey, TemplatesInv
  <2>3. r \in WorkerStates /\ WorkerInv(r)
    BY <1>1, <2>2, ParsedInv, IdleInv
  <2>4. TemplatesInv(Templates)' /\ RatesInv(SamplingRates)'
    BY <1>2, <2>1 DEF ParseSet, TemplatesInv, RatesInv
  <2>5. NfInv'
    BY <1>1, <1>2, <2>1, <2>3, <2>4, WorkerStepInv DEF ParseSet
  <2> QED
    BY <2>1, <2>5
<1> QED
  BY <1>3, <1>4

(* What a rate is given for is a source and a sampler.                     *)
LEMMA RateAnnounced ==
  ASSUME RatesInv(SamplingRates), NEW source, NEW sampler
  PROVE  LET rate == RateOf(source, sampler)
         IN rate[2] # Unknown => <<source, rate[1], rate[2]>> \in announced
BY DEF RatesInv, RateOf, GetSamplingRate, samplingRateKey

LEMMA decodeSetInv ==
  ASSUME NfInv, NEW w \in NfWorkers, decodeSet(w)
  PROVE  NfInv' /\ DOMAIN SamplingRates \subseteq DOMAIN SamplingRates'
<1> DEFINE s == nfWorker[w]
           p == s.packet
           set == p.sets[s.i]
           n == Len(p.sets)
           r == IF s.i = n THEN Idle ELSE [s EXCEPT !.i = @ + 1]
           u == [source |-> p.source, layout |-> s.found[s.i], rate |-> RateOf(p.source, set.sampler)]
<1>0. s.phase = "decode" /\ s # Idle
  <2>1. s.phase = "decode"
    BY DEF decodeSet
  <2>2. Idle.phase # "decode"
    BY DEF Idle
  <2> HIDE DEF s
  <2>. QED  BY <2>1, <2>2
<1>1. /\ s \in [phase : {"decode"}, packet : Packets, i : Nat, found : Seq(Layouts)]
      /\ WorkerInv(s) /\ outletUp
  BY <1>0, BusyWorker
<1>2. TemplatesInv(Templates) /\ RatesInv(SamplingRates) /\ \A v \in nfUsed : NotMixed(v)
  BY DEF NfInv, AnnouncedInv
<1>3. /\ p \in Packets /\ p.sets \in PacketContents /\ PacketInv(p)
      /\ n \in Nat \ {0} /\ s.i \in 1..n /\ s.i \in DOMAIN p.sets /\ Len(s.found) = n
      /\ set.kind \in {"template", "options", "data"}
  BY <1>0, <1>1, PacketShape DEF WorkerInv, Packets
<1>4. /\ nfWorker' = [nfWorker EXCEPT ![w] = r]
      /\ UNCHANGED <<onTheWay, Templates, nfFile, outletUp, announced>>
  BY DEF decodeSet
<1>5. r \in WorkerStates /\ WorkerInv(r)
  <2>1. CASE s.i = n
    BY <2>1, IdleInv
  <2>2. CASE s.i # n
    <3>1. r = [phase |-> "decode", packet |-> p, i |-> s.i + 1, found |-> s.found]
      BY <1>1, <2>2
    <3> QED
      BY <1>0, <1>1, <1>3, <2>2, <3>1 DEF WorkerStates, WorkerInv
  <2> QED
    BY <2>1, <2>2
<1>6. TemplatesInv(Templates)'
  BY <1>2, <1>4 DEF TemplatesInv
<1>7. CASE set.kind = "template"
  <2>1. SamplingRates' = SamplingRates /\ nfUsed' = nfUsed
    BY <1>7 DEF decodeSet
  <2>2. RatesInv(SamplingRates)'
    BY <1>2, <1>4, <2>1 DEF RatesInv
  <2> QED
    BY <1>1, <1>2, <1>4, <1>5, <1>6, <2>1, <2>2, WorkerStepInv
<1>8. CASE set.kind = "options"
  <2>1. /\ SamplingRates' = Assigned(SamplingRates, <<p.source, set.sampler>>,
                                     10 * set.sampler + p.layout)
        /\ nfUsed' = nfUsed
    BY <1>8 DEF decodeSet, samplingRateKey
  <2>2. <<p.source, set.sampler, 10 * set.sampler + p.layout>> \in announced
    BY <1>3, <1>8 DEF PacketInv
  <2>3. RatesInv(SamplingRates)'
    BY <1>2, <1>4, <2>1, <2>2 DEF RatesInv, Assigned
  <2>4. DOMAIN SamplingRates \subseteq DOMAIN SamplingRates'
    BY <2>1 DEF Assigned
  <2> QED
    BY <1>1, <1>2, <1>4, <1>5, <1>6, <2>1, <2>3, <2>4, WorkerStepInv
<1>9. CASE set.kind = "data"
  <2>1. nfUsed' = nfUsed \cup {u} /\ SamplingRates' = SamplingRates
    BY <1>9 DEF decodeSet
  <2>2. RatesInv(SamplingRates)'
    BY <1>2, <1>4, <2>1 DEF RatesInv
  <2>3. <<p.source, AsTemplate, s.found[s.i]>> \in announced
    BY <1>0, <1>1, <1>3, <1>9 DEF WorkerInv
  <2>4. NotMixed(u)
    <3>1. u.source = p.source /\ u.layout = s.found[s.i] /\ u.rate = RateOf(p.source, set.sampler)
      OBVIOUS
    <3> QED
      BY <1>2, <2>3, <3>1, RateAnnounced DEF NotMixed
  <2>5. \A v \in nfUsed' : NotMixed(v)
    BY <1>2, <2>1, <2>4
  <2> QED
    BY <1>1, <1>2, <1>4, <1>5, <1>6, <2>1, <2>2, <2>5, WorkerStepInv
<1> QED
  BY <1>3, <1>7, <1>8, <1>9

-----------------------------------------------------------------------------
LEMMA StopOutletInv ==
  ASSUME NfInv, StopOutlet
  PROVE  NfInv'
<1>1. announced' = announced /\ announced \subseteq announced'
  BY DEF StopOutlet
<1>2. nfFile'.templates = Templates /\ nfFile'.rates = SamplingRates
  BY DEF StopOutlet, SaveState
<1>3. NfTypeInv'
  BY DEF StopOutlet, NfInv, NfTypeInv
<1>4. DownInv'
  BY <1>2 DEF StopOutlet, DownInv
<1>5. AnnouncedInv'
  <2>1. /\ TemplatesInv(Templates)' /\ TemplatesInv(nfFile.templates)'
        /\ RatesInv(SamplingRates)' /\ RatesInv(nfFile.rates)'
    BY <1>1, <1>2 DEF StopOutlet, NfInv, AnnouncedInv, TemplatesInv, RatesInv
  <2> QED
    BY <1>1, <2>1, AnnouncedGrows DEF StopOutlet, NfInv, AnnouncedInv
<1> QED
  BY <1>3, <1>4, <1>5 DEF NfInv

LEMMA CrashOutletInv ==
  ASSUME NfInv, CrashOutlet
  PROVE  NfInv'
<1> DEFINE busy == {v \in NfWorkers : nfWorker[v] # Idle}
<1>1. announced' = announced /\ announced \subseteq announced'
  BY DEF CrashOutlet
<1>2. PICK again \in SUBSET {nfWorker[w].packet : w \in busy} : onTheWay' = onTheWay \cup again
  BY DEF CrashOutlet
<1>3. \A p \in again : p \in Packets /\ PacketInv(p)
  BY BusyWorker DEF WorkerInv
<1>4. nfWorker' = [w \in NfWorkers |-> Idle] /\ DOMAIN Templates' = {} /\ DOMAIN SamplingRates' = {}
  BY DEF CrashOutlet
<1>5. NfTypeInv'
  BY <1>2, <1>3, <1>4 DEF CrashOutlet, NfInv, NfTypeInv, WorkerStates
<1>6. DownInv'
  BY <1>4 DEF DownInv
<1>7. AnnouncedInv'
  <2>1. TemplatesInv(Templates)' /\ RatesInv(SamplingRates)'
    BY <1>4 DEF TemplatesInv, RatesInv
  <2>2. \A w \in NfWorkers : WorkerInv(nfWorker[w])'
    BY <1>4 DEF WorkerInv
  <2> QED
    BY <1>1, <1>2, <1>3, <2>1, <2>2, AnnouncedGrows DEF CrashOutlet, NfInv, AnnouncedInv
<1> QED
  BY <1>5, <1>6, <1>7 DEF NfInv

LEMMA RestoreStateInv ==
  ASSUME NfInv, RestoreState
  PROVE  /\ NfInv'
         /\ DOMAIN Templates \subseteq DOMAIN Templates'
         /\ DOMAIN SamplingRates \subseteq DOMAIN SamplingRates'
<1>1. announced' = announced /\ announced \subseteq announced'
  BY DEF RestoreState
<1>2. NfTypeInv'
  BY DEF RestoreState, NfInv, NfTypeInv
<1>3. DownInv'
  BY DEF RestoreState, DownInv
<1>4. AnnouncedInv'
  <2>1. /\ TemplatesInv(Templates)' /\ TemplatesInv(nfFile.templates)'
        /\ RatesInv(SamplingRates)' /\ RatesInv(nfFile.rates)'
    BY <1>1 DEF RestoreState, NfInv, AnnouncedInv, TemplatesInv, RatesInv
  <2> QED
    BY <1>1, <2>1, AnnouncedGrows DEF RestoreState, NfInv, AnnouncedInv
<1>5. /\ DOMAIN Templates \subseteq DOMAIN Templates'
      /\ DOMAIN SamplingRates \subseteq DOMAIN SamplingRates'
  BY DEF RestoreState, NfInv, DownInv
<1> QED
  BY <1>2, <1>3, <1>4, <1>5 DEF NfInv

(* What a step must not forget, unless the outlet crashes.                 *)
Kept ==
  \/ /\ DOMAIN Templates \subseteq DOMAIN Templates'
     /\ DOMAIN SamplingRates \subseteq DOMAIN SamplingRates'
  \/ outletUp /\ ~outletUp'

LEMMA NfStepInv ==
  ASSUME NfInv, [NfNext]_nfVars
  PROVE  NfInv' /\ [Kept]_nfVars
<1>1. CASE SendPacket
  BY <1>1, SendPacketInv DEF SendPacket, Kept
<1>2. CASE StopOutlet
  BY <1>2, StopOutletInv DEF StopOutlet, Kept
<1>3. CASE CrashOutlet
  BY <1>3, CrashOutletInv DEF CrashOutlet, Kept
<1>4. CASE RestoreState
  BY <1>4, RestoreStateInv DEF Kept
<1>5. ASSUME NEW w \in NfWorkers, ReceivePacket(w)
      PROVE  NfInv' /\ Kept
  BY <1>5, ReceivePacketInv DEF ReceivePacket, Kept
<1>6. ASSUME NEW w \in NfWorkers, ParseSet(w)
      PROVE  NfInv' /\ Kept
  BY <1>6, ParseSetInv DEF ParseSet, Kept
<1>7. ASSUME NEW w \in NfWorkers, decodeSet(w)
      PROVE  NfInv' /\ Kept
  BY <1>7, decodeSetInv DEF decodeSet, Kept
<1>8. CASE UNCHANGED nfVars
  <2>1. announced \subseteq announced'
    BY <1>8 DEF nfVars
  <2>2. NfTypeInv' /\ DownInv'
    BY <1>8 DEF nfVars, NfInv, NfTypeInv, DownInv
  <2>3. AnnouncedInv'
    <3>1. /\ TemplatesInv(Templates)' /\ TemplatesInv(nfFile.templates)'
          /\ RatesInv(SamplingRates)' /\ RatesInv(nfFile.rates)'
      BY <1>8 DEF nfVars, NfInv, AnnouncedInv, TemplatesInv, RatesInv
    <3> QED
      BY <1>8, <2>1, <3>1, AnnouncedGrows DEF nfVars, NfInv, AnnouncedInv
  <2> QED
    BY <1>8, <2>2, <2>3 DEF NfInv
<1> QED
  BY <1>1, <1>2, <1>3, <1>4, <1>5, <1>6, <1>7, <1>8 DEF NfNext

(* In whatever order the packets of the exporters are handled by the       *)
(* workers, and through any number of stops, crashes and restarts, a       *)
(* record is decoded with a template and a rate that its own exporter      *)
(* announced for its own domain (GetTemplate, GetSamplingRate), and        *)
(* nothing that is known is forgotten but by a crash (SaveState,           *)
(* RestoreState).                                                          *)
THEOREM TemplatesAreRight == NfSpec => TemplatesRight
<1>1. NfInit => NfInv
  BY NfInitInv
<1>2. NfInv /\ [NfNext]_nfVars => NfInv' /\ [Kept]_nfVars
  BY NfStepInv
<1>3. NfInv => \A u \in nfUsed : NotMixed(u)
  BY DEF NfInv, AnnouncedInv
<1>4. [Kept]_nfVars <=>
        [\/ /\ DOMAIN Templates \subseteq DOMAIN Templates'
            /\ DOMAIN SamplingRates \subseteq DOMAIN SamplingRates'
         \/ outletUp /\ ~outletUp']_nfVars
  BY DEF Kept
<1> QED
  BY <1>1, <1>2, <1>3, <1>4, PTL DEF NfSpec, TemplatesRight, OnlyCrashForgets

-----------------------------------------------------------------------------
(* The cache of the metadata.                                              *)
(* Calls of providers, in all their stages.                                *)
CallType == {NoCall} \cup [now : 0..MaxClock, answer : {Pending} \cup 0..MaxVersion]

EntryType ==
  [object : 0..MaxVersion, accessed : 0..MaxClock, updated : 0..MaxClock] \cup {Missing}

LookupType == [query : Queries \cup {"none"}, stage : {"idle", "missed", "waiting"}]

CacheTypeInv ==
  /\ clock \in 0..MaxClock /\ started \in 0..MaxClock
  /\ checked \in BOOLEAN /\ up \in BOOLEAN
  /\ items \in [Queries -> EntryType] /\ file \in [Queries -> EntryType]
  /\ calls \in [Queries -> [Slots -> CallType]]
  /\ waiting \in [Lookers -> LookupType]
  /\ breaker \in [state : {"closed", "open", "halfOpen"},
                  errors : 0..(ErrorThreshold - 1), since : 0..MaxClock]
  /\ truth \in [Queries -> 0..MaxVersion]
  /\ changed \in [Queries -> 0..MaxClock] /\ used \in [Queries -> 0..MaxClock]
  /\ cacheEvents \in Nat

(* No ghost is ahead of time.                                              *)
TimeInv ==
  /\ started <= clock
  /\ \A q \in Queries : changed[q] <= clock /\ used[q] <= clock

(* An entry, in memory or in the file: the answer was the truth at the     *)
(* time of the update or later, and only a lookup makes the last access    *)
(* later than the update.                                                  *)
EntryInv(q, e) ==
  e # Missing =>
    /\ e.updated <= e.accessed /\ e.accessed <= clock
    /\ e.object <= truth[q]
    /\ e.object # truth[q] => e.updated <= changed[q]
    /\ e.accessed <= used[q] + CacheDuration
    /\ e.accessed # e.updated => e.accessed <= used[q]

(* A call will make such an entry.                                         *)
CallInv(q, c) ==
  c # NoCall =>
    /\ c.now <= clock /\ clock <= c.now + QueryTimeout
    /\ c.now <= used[q] + CacheDuration
    /\ c.answer # Pending =>
         /\ c.answer <= truth[q]
         /\ c.answer # truth[q] => c.now <= changed[q]

(* A lookup that missed has its call before time passes.                   *)
LookupInv(l) ==
  /\ l.stage # "idle" => l.query \in Queries
  /\ l.stage = "missed" => used[l.query] = clock

EntriesInv ==
  /\ \A q \in Queries : EntryInv(q, items[q]) /\ EntryInv(q, file[q])
  /\ \A q \in Queries : \A i \in Slots : CallInv(q, calls[q][i])
  /\ \A w \in Lookers : LookupInv(waiting[w])

(* There is a refresh for each check, and none yet for the next one.       *)
RefreshesInv ==
  \A q \in Queries : \A i \in Slots \ {0} :
    calls[q][i] # NoCall =>
      /\ ~ checked => calls[q][i].now < clock
      /\ \A j \in Slots \ {0} :
           j # i /\ calls[q][j] # NoCall => calls[q][i].now # calls[q][j].now

(* What is in the cache after a check was accessed late enough.            *)
AccessInv ==
  up /\ checked /\ clock > started =>
    \A q \in Queries :
      items[q] # Missing => clock <= items[q].accessed + Longer(CacheDuration, QueryTimeout)

(* As long as nothing fails, an entry is not older than the longest        *)
(* duration at the check, or there is a call that will update it.          *)
Old(e) ==
  clock > e.updated + Longer(CacheRefresh, QueryTimeout) + (IF checked THEN 0 ELSE 1)

Refreshed(q, e) ==
  \E i \in Slots :
    /\ calls[q][i] # NoCall
    /\ calls[q][i].now <= e.updated + Longer(CacheRefresh, QueryTimeout) + 1

FreshInv ==
  cacheEvents = 0 =>
    /\ up /\ breaker.state = "closed"
    /\ \A q \in Queries : items[q] # Missing /\ Old(items[q]) => Refreshed(q, items[q])

CacheInv == CacheTypeInv /\ TimeInv /\ EntriesInv /\ RefreshesInv /\ AccessInv /\ FreshInv

-----------------------------------------------------------------------------
LEMMA CacheInvRight == CacheInv => CacheRight
<1> SUFFICES ASSUME CacheInv PROVE CacheRight
  OBVIOUS
<1>1. CacheTypeOK
  <2>1. \A q \in Queries : items[q].accessed >= items[q].updated
    <3> TAKE q \in Queries
    <3>1. CASE items[q] = Missing
      BY <3>1 DEF Missing
    <3>2. CASE items[q] # Missing
      <4>1. items[q].updated \in Nat /\ items[q].accessed \in Nat
        BY <3>2 DEF CacheInv, CacheTypeInv, EntryType
      <4> QED
        BY <3>2, <4>1 DEF CacheInv, EntriesInv, EntryInv
    <3> QED
      BY <3>1, <3>2
  <2>2. /\ clock \in 0..MaxClock /\ items \in [Queries -> EntryType] /\ file \in [Queries -> EntryType]
        /\ calls \in [Queries -> [Slots -> CallType]]
        /\ breaker \in [state : {"closed", "open", "halfOpen"},
                        errors : 0..(ErrorThreshold - 1), since : 0..MaxClock]
    BY DEF CacheInv, CacheTypeInv
  <2> QED
    BY <2>1, <2>2, Zenon DEF CacheTypeOK, EntryType, CallType
<1>2. UpdatedIsTrue
  BY DEF UpdatedIsTrue, CacheInv, EntriesInv, EntryInv, CacheTypeInv, EntryType, Missing
<1>3. StaleBounded
  <2> SUFFICES ASSUME NEW q \in Queries, cacheEvents = 0, items[q] # Missing,
                      items[q].object # truth[q]
               PROVE  clock <= changed[q] + Longer(CacheRefresh, QueryTimeout) + 1 + QueryTimeout
    BY DEF StaleBounded
  <2> DEFINE u == items[q].updated
             d == Longer(CacheRefresh, QueryTimeout)
  <2>1. u \in Nat /\ changed[q] \in Nat /\ u <= changed[q] /\ clock \in Nat
    BY DEF CacheInv, CacheTypeInv, EntryType, EntriesInv, EntryInv
  <2>2. d \in Nat /\ QueryTimeout \in Nat
    BY CacheAssumption DEF Longer
  <2>3. CASE Old(items[q])
    <3>1. PICK i \in Slots : calls[q][i] # NoCall /\ calls[q][i].now <= u + d + 1
      BY <2>3 DEF CacheInv, FreshInv, Refreshed
    <3>2. calls[q][i].now \in Nat /\ clock <= calls[q][i].now + QueryTimeout
      BY <3>1 DEF CacheInv, CacheTypeInv, CallType, EntriesInv, CallInv
    <3> QED
      BY <2>1, <2>2, <3>1, <3>2
  <2>4. CASE ~ Old(items[q])
    BY <2>1, <2>2, <2>4 DEF Old, CacheInv, CacheTypeInv
  <2> QED
    BY <2>3, <2>4
<1>4. UnusedLeaves
  <2> SUFFICES ASSUME NEW q \in Queries, up, checked, clock > started, items[q] # Missing
               PROVE  clock <= used[q] + CacheDuration + Longer(CacheDuration, QueryTimeout)
    BY DEF UnusedLeaves
  <2>1. clock <= items[q].accessed + Longer(CacheDuration, QueryTimeout)
    BY DEF CacheInv, AccessInv
  <2>2. items[q].accessed <= used[q] + CacheDuration /\ items[q].accessed \in Nat
        /\ used[q] \in Nat /\ clock \in Nat
    BY DEF CacheInv, CacheTypeInv, EntryType, EntriesInv, EntryInv
  <2>3. Longer(CacheDuration, QueryTimeout) \in Nat /\ CacheDuration \in Nat
    BY CacheAssumption DEF Longer
  <2> QED
    BY <2>1, <2>2, <2>3
<1> QED
  BY <1>1, <1>2, <1>3, <1>4 DEF CacheRight

LEMMA CacheInitInv == CacheInit => CacheInv
<1> SUFFICES ASSUME CacheInit PROVE CacheInv
  OBVIOUS
<1>1. \A q \in Queries : items[q] = Missing /\ file[q] = Missing
                         /\ \A i \in Slots : calls[q][i] = NoCall
  BY DEF CacheInit
<1>2. CacheTypeInv
  BY CacheAssumption DEF CacheInit, CacheTypeInv, EntryType, CallType, LookupType, NoLookup, Closed
<1>3. EntriesInv
  BY <1>1 DEF CacheInit, EntriesInv, EntryInv, CallInv, LookupInv, NoLookup
<1> QED
  BY <1>1, <1>2, <1>3 DEF CacheInit, CacheInv, TimeInv, RefreshesInv, AccessInv, FreshInv, Closed

-----------------------------------------------------------------------------
(* What a step may do to time, to the providers and to the lookups.        *)
Later ==
  /\ clock <= clock'
  /\ \A q \in Queries :
       /\ truth[q] <= truth'[q] /\ changed[q] <= changed'[q] /\ used[q] <= used'[q]
       /\ truth'[q] # truth[q] => clock <= changed'[q]

LEMMA SameLater ==
  ASSUME CacheTypeInv, UNCHANGED <<clock, truth, changed, used>>
  PROVE  Later
BY DEF CacheTypeInv, Later

LEMMA EntryKept ==
  ASSUME CacheTypeInv, CacheTypeInv', Later, NEW q \in Queries, NEW e \in EntryType, EntryInv(q, e)
  PROVE  EntryInv(q, e)'
<1>1. CASE e = Missing
  BY <1>1 DEF EntryInv
<1>2. CASE e # Missing
  <2>1. e.object \in Nat /\ e.accessed \in Nat /\ e.updated \in Nat
    BY <1>2 DEF EntryType
  <2>2. /\ {clock, truth[q], changed[q], used[q]} \subseteq Nat
        /\ {clock', truth'[q], changed'[q], used'[q]} \subseteq Nat
    BY DEF CacheTypeInv
  <2> QED
    BY <1>2, <2>1, <2>2, CacheAssumption DEF EntryInv, Later
<1> QED
  BY <1>1, <1>2

LEMMA CallKept ==
  ASSUME CacheTypeInv, CacheTypeInv', Later, NEW q \in Queries, NEW c \in CallType, CallInv(q, c),
         c # NoCall => clock' <= c.now + QueryTimeout
  PROVE  CallInv(q, c)'
<1>1. CASE c = NoCall
  BY <1>1 DEF CallInv
<1>2. CASE c # NoCall
  <2>1. c.now \in Nat /\ c.answer \in {Pending} \cup Nat
    BY <1>2 DEF CallType
  <2>2. /\ {clock, truth[q], changed[q], used[q]} \subseteq Nat
        /\ {clock', truth'[q], changed'[q], used'[q]} \subseteq Nat
    BY DEF CacheTypeInv
  <2> QED
    BY <1>2, <2>1, <2>2, CacheAssumption DEF CallInv, Later
<1> QED
  BY <1>1, <1>2

(* The entries, the calls and the lookups that a step leaves alone.        *)
LEMMA EntriesKept ==
  ASSUME CacheInv, CacheTypeInv', TimeInv', Later, clock' = clock
  PROVE  /\ \A q \in Queries : EntryInv(q, items[q])' \/ items'[q] # items[q]
         /\ \A q \in Queries : EntryInv(q, file[q])' \/ file'[q] # file[q]
         /\ \A q \in Queries : \A i \in Slots :
              CallInv(q, calls[q][i])' \/ calls'[q][i] # calls[q][i]
         /\ \A w \in Lookers : LookupInv(waiting[w])' \/ waiting'[w] # waiting[w]
<1>1. ASSUME NEW q \in Queries
      PROVE  /\ \A e \in EntryType : EntryInv(q, e) => EntryInv(q, e)'
             /\ \A c \in CallType : CallInv(q, c) => CallInv(q, c)'
  BY EntryKept, CallKept DEF CacheInv, CallInv
<1>2. ASSUME NEW q \in Queries
      PROVE  /\ EntryInv(q, items[q])' \/ items'[q] # items[q]
             /\ EntryInv(q, file[q])' \/ file'[q] # file[q]
  BY <1>1 DEF CacheInv, CacheTypeInv, EntriesInv
<1>3. ASSUME NEW q \in Queries, NEW i \in Slots
      PROVE  CallInv(q, calls[q][i])' \/ calls'[q][i] # calls[q][i]
  BY <1>1 DEF CacheInv, CacheTypeInv, EntriesInv
<1>4. ASSUME NEW w \in Lookers, waiting'[w] = waiting[w]
      PROVE  LookupInv(waiting[w])'
  <2>1. \A q \in Queries : used'[q] = clock' \/ used[q] # clock
    <3> TAKE q \in Queries
    <3>1. used[q] <= used'[q] /\ used'[q] <= clock
      BY DEF TimeInv, Later
    <3>2. {used[q], used'[q], clock} \subseteq Nat
      BY DEF CacheInv, CacheTypeInv
    <3> QED
      BY <3>1, <3>2
  <2> QED
    BY <1>4, <2>1 DEF CacheInv, EntriesInv, LookupInv
<1> QED
  BY <1>1, <1>2, <1>3, <1>4

-----------------------------------------------------------------------------
LEMMA LookupHitInv ==
  ASSUME CacheInv, NEW w \in Lookers, NEW q \in Queries, LookupHit(w, q)
  PROVE  CacheInv'
<1> DEFINE e == [items[q] EXCEPT !.accessed = clock]
<1>1. /\ items[q] # Missing /\ items' = [items EXCEPT ![q] = e]
      /\ used' = [used EXCEPT ![q] = clock]
      /\ UNCHANGED <<clock, checked, up, started, calls, waiting, breaker, file, truth,
                     changed, cacheEvents>>
  BY DEF LookupHit
<1>2. items[q] \in [object : 0..MaxVersion, accessed : 0..MaxClock, updated : 0..MaxClock]
  BY <1>1 DEF CacheInv, CacheTypeInv, EntryType
<1>3. e = [object |-> items[q].object, accessed |-> clock, updated |-> items[q].updated]
  BY <1>2
<1>4. e \in EntryType /\ e # Missing
  BY <1>2, <1>3 DEF CacheInv, CacheTypeInv, EntryType, Missing
<1>5. CacheTypeInv'
  BY <1>1, <1>4 DEF CacheInv, CacheTypeInv
<1>6. TimeInv' /\ Later
  BY <1>1 DEF CacheInv, CacheTypeInv, TimeInv, Later
<1>7. \A r \in Queries : items'[r] = IF r = q THEN e ELSE items[r]
  BY <1>1 DEF CacheInv, CacheTypeInv
<1>8. EntryInv(q, items[q])'
  BY <1>1, <1>2, <1>3, <1>7, CacheAssumption DEF CacheInv, CacheTypeInv, EntriesInv, EntryInv
<1>9. EntriesInv'
  BY <1>1, <1>5, <1>6, <1>7, <1>8, EntriesKept DEF EntriesInv
<1>10. RefreshesInv'
  BY <1>1 DEF CacheInv, RefreshesInv
<1>11. AccessInv'
  <2>1. \A r \in Queries : items'[r] # Missing => items[r] # Missing
    BY <1>1, <1>7
  <2>2. clock <= items'[q].accessed + Longer(CacheDuration, QueryTimeout)
    BY <1>3, <1>7, CacheAssumption DEF CacheInv, CacheTypeInv, Longer
  <2> QED
    BY <1>1, <1>7, <2>1, <2>2 DEF CacheInv, AccessInv
<1>12. FreshInv'
  <2>1. \A r \in Queries : items'[r] # Missing => items[r] # Missing
    BY <1>1, <1>7
  <2>2. \A r \in Queries : items'[r].updated = items[r].updated
    BY <1>3, <1>7
  <2> QED
    BY <1>1, <2>1, <2>2 DEF CacheInv, FreshInv, Old, Refreshed
<1> QED
  BY <1>5, <1>6, <1>9, <1>10, <1>11, <1>12 DEF CacheInv

LEMMA LookupMissInv ==
  ASSUME CacheInv, NEW w \in Lookers, NEW q \in Queries, LookupMiss(w, q)
  PROVE  CacheInv'
<1>1. /\ waiting' = [waiting EXCEPT ![w] = [query |-> q, stage |-> "missed"]]
      /\ used' = [used EXCEPT ![q] = clock]
      /\ UNCHANGED <<clock, checked, up, started, items, calls, breaker, file, truth,
                     changed, cacheEvents>>
  BY DEF LookupMiss
<1>2. CacheTypeInv'
  BY <1>1 DEF CacheInv, CacheTypeInv, LookupType
<1>3. TimeInv' /\ Later
  BY <1>1 DEF CacheInv, CacheTypeInv, TimeInv, Later
<1>4. LookupInv(waiting[w])'
  BY <1>1 DEF CacheInv, CacheTypeInv, LookupInv
<1>5. EntriesInv'
  <2>1. \A v \in Lookers : v = w \/ waiting'[v] = waiting[v]
    BY <1>1 DEF CacheInv, CacheTypeInv
  <2> QED
    BY <1>1, <1>2, <1>3, <1>4, <2>1, EntriesKept DEF EntriesInv
<1>6. RefreshesInv' /\ AccessInv' /\ FreshInv'
  BY <1>1 DEF CacheInv, RefreshesInv, AccessInv, FreshInv, Old, Refreshed
<1> QED
  BY <1>2, <1>3, <1>5, <1>6 DEF CacheInv

(* A step changes the call of one query in one slot.                       *)
LEMMA OneCall ==
  ASSUME CacheInv, NEW q \in Queries, NEW i \in Slots, NEW c \in CallType,
         calls' = [calls EXCEPT ![q][i] = c]
  PROVE  /\ calls' \in [Queries -> [Slots -> CallType]]
         /\ \A r \in Queries : \A j \in Slots :
              calls'[r][j] = IF r = q /\ j = i THEN c ELSE calls[r][j]
<1> DEFINE f == [calls[q] EXCEPT ![i] = c]
<1>1. calls \in [Queries -> [Slots -> CallType]] /\ calls[q] \in [Slots -> CallType]
  BY DEF CacheInv, CacheTypeInv
<1>2. f \in [Slots -> CallType] /\ \A j \in Slots : f[j] = IF j = i THEN c ELSE calls[q][j]
  BY <1>1
<1>3. calls' = [calls EXCEPT ![q] = f]
  OBVIOUS
<1> HIDE DEF f
<1> QED
  BY <1>1, <1>2, <1>3

LEMMA DoInv ==
  ASSUME CacheInv, NEW w \in Lookers, Do(w)
  PROVE  CacheInv'
<1> DEFINE q == waiting[w].query
<1>1. /\ waiting[w].stage = "missed" /\ q \in Queries /\ used[q] = clock
      /\ UNCHANGED <<clock, checked, up, started, items, breaker, file, truth, changed,
                     used, cacheEvents>>
  BY DEF Do, CacheInv, EntriesInv, LookupInv
<1>2. waiting[w] \in LookupType
  BY DEF CacheInv, CacheTypeInv
<1>3. PICK l \in LookupType : waiting' = [waiting EXCEPT ![w] = l] /\ l.stage # "missed"
                              /\ (l.stage # "idle" => l.query = q)
  <2>1. CASE calls[q][0] = NoCall /\ breaker.state = "open"
    BY <2>1 DEF Do, NoLookup, LookupType
  <2>2. CASE ~ (calls[q][0] = NoCall /\ breaker.state = "open")
    <3> DEFINE l == [waiting[w] EXCEPT !.stage = "waiting"]
    <3>1. l = [query |-> q, stage |-> "waiting"]
      BY <1>2 DEF LookupType
    <3>2. waiting' = [waiting EXCEPT ![w] = l]
      BY <2>2 DEF Do
    <3>3. l \in LookupType /\ l.stage # "missed" /\ l.query = q
      BY <1>1, <3>1 DEF LookupType
    <3> QED
      BY <3>2, <3>3
  <2> QED
    BY <2>1, <2>2
<1>4. 0 \in Slots /\ Slots \subseteq Nat
  BY CacheAssumption DEF Slots
<1>5. \/ calls' = calls
      \/ calls[q][0] = NoCall /\ calls' = [calls EXCEPT ![q][0] = Begin(clock)]
  BY DEF Do
<1>6. /\ Begin(clock) = [now |-> clock, answer |-> Pending]
      /\ Begin(clock) \in CallType /\ Begin(clock) # NoCall
  BY DEF CacheInv, CacheTypeInv, CallType, Begin, NoCall
<1>7. /\ calls' \in [Queries -> [Slots -> CallType]]
      /\ \A r \in Queries : \A i \in Slots :
           \/ calls'[r][i] = calls[r][i]
           \/ r = q /\ i = 0 /\ calls[r][i] = NoCall /\ calls'[r][i] = Begin(clock)
  <2>1. CASE calls' = calls
    BY <2>1 DEF CacheInv, CacheTypeInv
  <2>2. CASE calls' # calls
    BY <1>1, <1>4, <1>5, <1>6, <2>2, OneCall
  <2> QED
    BY <2>1, <2>2
<1>8. CacheTypeInv'
  <2>1. waiting' \in [Lookers -> LookupType]
    BY <1>3 DEF CacheInv, CacheTypeInv
  <2> QED
    BY <1>1, <1>7, <2>1 DEF CacheInv, CacheTypeInv
<1>9. TimeInv' /\ Later
  BY <1>1 DEF CacheInv, CacheTypeInv, TimeInv, Later
<1>10. EntriesInv'
  <2>1. \A v \in Lookers : LookupInv(waiting[v])'
    <3>1. \A v \in Lookers : waiting'[v] = waiting[v] \/ waiting'[v].stage = "idle"
             \/ (waiting'[v].stage # "missed" /\ waiting'[v].query = q)
      BY <1>3 DEF CacheInv, CacheTypeInv
    <3> QED
      BY <1>1, <1>8, <1>9, <3>1, EntriesKept DEF LookupInv
  <2>2. \A r \in Queries : \A i \in Slots : calls'[r][i] # calls[r][i] => CallInv(r, calls[r][i])'
    <3> SUFFICES ASSUME NEW r \in Queries, NEW i \in Slots, calls'[r][i] # calls[r][i]
                 PROVE  CallInv(r, calls[r][i])'
      OBVIOUS
    <3>1. r = q /\ calls'[r][i] = [now |-> clock, answer |-> Pending]
      BY <1>6, <1>7
    <3> QED
      BY <1>1, <3>1, CacheAssumption DEF CallInv, CacheInv, CacheTypeInv
  <2> QED
    BY <1>1, <1>8, <1>9, <2>1, <2>2, EntriesKept DEF EntriesInv
<1>11. RefreshesInv'
  BY <1>1, <1>7 DEF CacheInv, RefreshesInv
<1>12. AccessInv'
  BY <1>1 DEF CacheInv, AccessInv
<1>13. FreshInv'
  BY <1>1, <1>7 DEF CacheInv, FreshInv, Old, Refreshed
<1> QED
  BY <1>8, <1>9, <1>10, <1>11, <1>12, <1>13 DEF CacheInv

(* No refresh begins in a step that only ends calls or gets their answers. *)
LEMMA RefreshesKept ==
  ASSUME CacheInv, UNCHANGED <<clock, checked>>,
         \A q \in Queries : \A i \in Slots :
           calls'[q][i] # NoCall => calls[q][i] # NoCall /\ calls'[q][i].now = calls[q][i].now
  PROVE  RefreshesInv'
BY DEF CacheInv, RefreshesInv

LEMMA ProviderAnswersInv ==
  ASSUME CacheInv, NEW q \in Queries, NEW i \in Slots, ProviderAnswers(q, i)
  PROVE  CacheInv'
<1> DEFINE c == [calls[q][i] EXCEPT !.answer = truth[q]]
<1>1. /\ calls[q][i].answer = Pending /\ calls' = [calls EXCEPT ![q][i] = c]
      /\ UNCHANGED <<clock, checked, up, started, items, waiting, breaker, file, truth,
                     changed, used, cacheEvents>>
  BY DEF ProviderAnswers
<1>2. calls[q][i] # NoCall /\ calls[q][i] \in CallType /\ CallInv(q, calls[q][i])
  BY <1>1 DEF NoCall, Pending, CacheInv, CacheTypeInv, EntriesInv
<1>3. c = [now |-> calls[q][i].now, answer |-> truth[q]] /\ c \in CallType
  BY <1>2 DEF CallType, CacheInv, CacheTypeInv
<1>4. /\ calls' \in [Queries -> [Slots -> CallType]]
      /\ \A r \in Queries : \A j \in Slots :
           calls'[r][j] = IF r = q /\ j = i THEN c ELSE calls[r][j]
  <2> HIDE DEF c
  <2>. QED  BY <1>1, <1>3, OneCall
<1>5. CacheTypeInv' /\ TimeInv'
  BY <1>1, <1>4 DEF CacheInv, CacheTypeInv, TimeInv
<1>6. Later
  BY <1>1, SameLater DEF CacheInv
<1>7. CallInv(q, calls[q][i])'
  BY <1>1, <1>2, <1>3, <1>4 DEF CallInv, CacheInv, CacheTypeInv
<1>8. EntriesInv'
  BY <1>1, <1>4, <1>5, <1>6, <1>7, EntriesKept DEF EntriesInv
<1>9. RefreshesInv'
  BY <1>1, <1>2, <1>3, <1>4, RefreshesKept
<1>10. AccessInv'
  BY <1>1 DEF CacheInv, AccessInv
<1>11. FreshInv'
  <2>1. c # NoCall
    BY <1>3 DEF CacheInv, CacheTypeInv, NoCall
  <2>2. \A r \in Queries : \A j \in Slots :
          calls[r][j] # NoCall => calls'[r][j] # NoCall /\ calls'[r][j].now = calls[r][j].now
    BY <1>3, <1>4, <2>1
  <2> QED
    BY <1>1, <2>2 DEF CacheInv, FreshInv, Old, Refreshed
<1> QED
  BY <1>5, <1>8, <1>9, <1>10, <1>11 DEF CacheInv

(* A call ends, with the lookups that waited for it.                       *)
LEMMA EndCallEnds ==
  ASSUME CacheInv, NEW q \in Queries, NEW i \in Slots, EndCall(q, i)
  PROVE  /\ calls' \in [Queries -> [Slots -> CallType]]
         /\ \A r \in Queries : \A j \in Slots :
              calls'[r][j] = IF r = q /\ j = i THEN NoCall ELSE calls[r][j]
         /\ waiting' \in [Lookers -> LookupType]
         /\ \A w \in Lookers : waiting'[w] = waiting[w] \/ waiting'[w] = NoLookup
<1>1. NoCall \in CallType /\ NoLookup \in LookupType
  BY DEF CallType, LookupType, NoLookup
<1>2. calls' = [calls EXCEPT ![q][i] = NoCall]
  BY DEF EndCall
<1>3. waiting \in [Lookers -> LookupType]
  BY DEF CacheInv, CacheTypeInv
<1>4. /\ waiting' \in [Lookers -> LookupType]
      /\ \A w \in Lookers : waiting'[w] = waiting[w] \/ waiting'[w] = NoLookup
  BY <1>1, <1>3 DEF EndCall
<1>5. /\ calls' \in [Queries -> [Slots -> CallType]]
      /\ \A r \in Queries : \A j \in Slots :
           calls'[r][j] = IF r = q /\ j = i THEN NoCall ELSE calls[r][j]
  BY <1>1, <1>2, OneCall
<1> QED
  BY <1>4, <1>5

LEMMA NoLookupInv == LookupInv(NoLookup)'
BY DEF LookupInv, NoLookup

LEMMA queryProvidersInv ==
  ASSUME CacheInv, NEW q \in Queries, NEW i \in Slots, queryProviders(q, i)
  PROVE  CacheInv'
<1> DEFINE c == calls[q][i]
           e == [object |-> c.answer, accessed |-> c.now, updated |-> c.now]
<1>1. /\ c.answer >= 0 /\ items' = [items EXCEPT ![q] = e] /\ EndCall(q, i)
      /\ breaker' = IF breaker.state = "halfOpen" THEN Closed ELSE breaker
      /\ UNCHANGED <<clock, checked, up, started, file, truth, changed, used, cacheEvents>>
  BY DEF queryProviders, Put
<1>2. /\ c # NoCall /\ c \in [now : 0..MaxClock, answer : 0..MaxVersion]
      /\ c.answer # Pending /\ CallInv(q, c)
  BY <1>1 DEF NoCall, Pending, CallType, CacheInv, CacheTypeInv, EntriesInv
<1>3. e \in EntryType /\ e # Missing
  BY <1>2 DEF EntryType, Missing
<1>4. \A r \in Queries : items'[r] = IF r = q THEN e ELSE items[r]
  BY <1>1 DEF CacheInv, CacheTypeInv
<1>5. CacheTypeInv'
  <2>1. items' \in [Queries -> EntryType]
    BY <1>1, <1>3 DEF CacheInv, CacheTypeInv
  <2>2. breaker' \in [state : {"closed", "open", "halfOpen"},
                      errors : 0..(ErrorThreshold - 1), since : 0..MaxClock]
    BY <1>1, CacheAssumption DEF Closed, CacheInv, CacheTypeInv
  <2> QED
    BY <1>1, <2>1, <2>2, EndCallEnds DEF CacheInv, CacheTypeInv
<1>6. TimeInv' /\ Later
  BY <1>1, SameLater DEF CacheInv, TimeInv
<1>7. EntryInv(q, items[q])'
  <2>1. EntryInv(q, e)
    BY <1>2, CacheAssumption DEF EntryInv, CallInv, CacheInv, CacheTypeInv
  <2> QED
    BY <1>1, <1>4, <2>1 DEF EntryInv
<1>8. EntriesInv'
  <2>1. CallInv(q, calls[q][i])'
    BY <1>1, EndCallEnds DEF CallInv
  <2> QED
    BY <1>1, <1>4, <1>5, <1>6, <1>7, <2>1, EntriesKept, EndCallEnds, NoLookupInv DEF EntriesInv
<1>9. RefreshesInv'
  BY <1>1, EndCallEnds, RefreshesKept
<1>10. AccessInv'
  <2>1. clock <= e.accessed + Longer(CacheDuration, QueryTimeout)
    BY <1>2, CacheAssumption DEF CallInv, Longer, CacheInv, CacheTypeInv
  <2> QED
    BY <1>1, <1>4, <2>1 DEF CacheInv, AccessInv
<1>11. FreshInv'
  <2> SUFFICES ASSUME cacheEvents = 0
               PROVE  /\ up' /\ breaker'.state = "closed"
                      /\ \A r \in Queries :
                           items'[r] # Missing /\ Old(items[r])' => Refreshed(r, items[r])'
    BY <1>1 DEF FreshInv
  <2>1. up' /\ breaker'.state = "closed"
    BY <1>1 DEF CacheInv, FreshInv
  <2>2. ~ Old(items[q])'
    <3>1. clock <= e.updated + Longer(CacheRefresh, QueryTimeout)
      BY <1>2, CacheAssumption DEF CallInv, Longer, CacheInv, CacheTypeInv
    <3>2. /\ items'[q] = e /\ clock' = clock /\ clock \in Nat /\ e.updated \in Nat
          /\ Longer(CacheRefresh, QueryTimeout) \in Nat
      BY <1>1, <1>2, <1>4, CacheAssumption DEF CacheInv, CacheTypeInv, Longer
    <3> QED
      BY <3>1, <3>2 DEF Old
  <2>3. ASSUME NEW r \in Queries, r # q, items'[r] # Missing, Old(items[r])'
        PROVE  Refreshed(r, items[r])'
    <3>1. items'[r] = items[r] /\ Old(items[r])
      BY <1>1, <1>4, <2>3 DEF Old
    <3>2. Refreshed(r, items[r])
      BY <2>3, <3>1 DEF CacheInv, FreshInv
    <3> QED
      BY <1>1, <2>3, <3>1, <3>2, EndCallEnds DEF Refreshed
  <2> QED
    BY <2>1, <2>2, <2>3
<1> QED
  BY <1>5, <1>6, <1>8, <1>9, <1>10, <1>11 DEF CacheInv

LEMMA queryProvidersFailsInv ==
  ASSUME CacheInv, NEW q \in Queries, NEW i \in Slots, queryProvidersFails(q, i)
  PROVE  CacheInv'
<1> DEFINE errors == IF clock > breaker.since + BreakerTimeout THEN 1 ELSE breaker.errors + 1
<1>1. /\ cacheEvents' = cacheEvents + 1 /\ EndCall(q, i)
      /\ breaker' = IF breaker.state = "open" THEN breaker
                    ELSE IF breaker.state = "halfOpen" \/ errors >= ErrorThreshold THEN Opened
                    ELSE [state |-> "closed", errors |-> errors, since |-> clock]
      /\ UNCHANGED <<clock, checked, up, started, items, file, truth, changed, used>>
  BY DEF queryProvidersFails, CacheEvent
<1>2. CacheTypeInv'
  <2>1. cacheEvents' \in Nat
    BY <1>1 DEF CacheInv, CacheTypeInv
  <2>2. breaker' \in [state : {"closed", "open", "halfOpen"},
                      errors : 0..(ErrorThreshold - 1), since : 0..MaxClock]
    <3>1. errors \in Nat /\ clock \in 0..MaxClock /\ ErrorThreshold \in Nat \ {0}
      BY CacheAssumption DEF CacheInv, CacheTypeInv
    <3>2. Opened \in [state : {"closed", "open", "halfOpen"},
                      errors : 0..(ErrorThreshold - 1), since : 0..MaxClock]
      BY <3>1 DEF Opened
    <3>3. errors < ErrorThreshold =>
            [state |-> "closed", errors |-> errors, since |-> clock]
              \in [state : {"closed", "open", "halfOpen"},
                   errors : 0..(ErrorThreshold - 1), since : 0..MaxClock]
      BY <3>1
    <3> HIDE DEF errors
    <3> QED
      BY <1>1, <3>1, <3>2, <3>3 DEF CacheInv, CacheTypeInv
  <2> QED
    BY <1>1, <2>1, <2>2, EndCallEnds DEF CacheInv, CacheTypeInv
<1>3. TimeInv' /\ Later
  BY <1>1, SameLater DEF CacheInv, TimeInv
<1>4. EntriesInv'
  <2>1. CallInv(q, calls[q][i])'
    BY <1>1, EndCallEnds DEF CallInv
  <2> QED
    BY <1>1, <1>2, <1>3, <2>1, EntriesKept, EndCallEnds, NoLookupInv DEF EntriesInv
<1>5. RefreshesInv'
  BY <1>1, EndCallEnds, RefreshesKept
<1>6. AccessInv'
  BY <1>1 DEF CacheInv, AccessInv
<1>7. FreshInv'
  BY <1>1 DEF FreshInv, CacheInv, CacheTypeInv
<1> QED
  BY <1>2, <1>3, <1>4, <1>5, <1>6, <1>7 DEF CacheInv

LEMMA BreakerTimerInv ==
  ASSUME CacheInv, BreakerTimer
  PROVE  CacheInv'
<1>1. /\ breaker.state = "open" /\ breaker' = [breaker EXCEPT !.state = "halfOpen"]
      /\ UNCHANGED <<clock, checked, up, started, items, calls, waiting, file, truth,
                     changed, used, cacheEvents>>
  BY DEF BreakerTimer
<1>2. CacheTypeInv' /\ TimeInv'
  BY <1>1 DEF CacheInv, CacheTypeInv, TimeInv
<1>3. Later
  BY <1>1, SameLater DEF CacheInv
<1>4. EntriesInv'
  BY <1>1, <1>2, <1>3, EntriesKept DEF EntriesInv
<1>5. RefreshesInv' /\ AccessInv' /\ FreshInv'
  BY <1>1 DEF CacheInv, RefreshesInv, AccessInv, FreshInv
<1> QED
  BY <1>2, <1>4, <1>5 DEF CacheInv

LEMMA ProvidersChangeInv ==
  ASSUME CacheInv, NEW q \in Queries, ProvidersChange(q)
  PROVE  CacheInv'
<1>1. /\ truth[q] < MaxVersion /\ truth' = [truth EXCEPT ![q] = truth[q] + 1]
      /\ changed' = [changed EXCEPT ![q] = clock]
      /\ UNCHANGED <<clock, checked, up, started, items, calls, waiting, breaker, file, used,
                     cacheEvents>>
  BY DEF ProvidersChange
<1>2. CacheTypeInv'
  BY <1>1, CacheAssumption DEF CacheInv, CacheTypeInv
<1>3. TimeInv' /\ Later
  BY <1>1 DEF CacheInv, CacheTypeInv, TimeInv, Later
<1>4. EntriesInv'
  BY <1>1, <1>2, <1>3, EntriesKept DEF EntriesInv
<1>5. RefreshesInv' /\ AccessInv' /\ FreshInv'
  BY <1>1 DEF CacheInv, RefreshesInv, AccessInv, FreshInv, Old, Refreshed
<1> QED
  BY <1>2, <1>3, <1>4, <1>5 DEF CacheInv

LEMMA ClockTickInv ==
  ASSUME CacheInv, ClockTick
  PROVE  CacheInv'
<1>1. /\ clock < MaxClock /\ clock' = clock + 1 /\ (checked \/ ~ up) /\ checked' = FALSE
      /\ \A q \in Queries : \A i \in Slots :
           calls[q][i] # NoCall => clock < calls[q][i].now + QueryTimeout
      /\ \A w \in Lookers : waiting[w].stage # "missed"
      /\ UNCHANGED <<up, started, items, calls, waiting, breaker, file, truth, changed, used,
                     cacheEvents>>
  BY DEF ClockTick
<1>2. CacheTypeInv'
  <2>1. clock' \in 0..MaxClock
    BY <1>1, CacheAssumption DEF CacheInv, CacheTypeInv
  <2> QED
    BY <1>1, <2>1 DEF CacheInv, CacheTypeInv
<1>3. TimeInv' /\ Later
  BY <1>1 DEF CacheInv, CacheTypeInv, TimeInv, Later
<1>4. \A q \in Queries : \A i \in Slots :
        calls[q][i] # NoCall => /\ calls[q][i].now \in Nat /\ calls[q][i].now <= clock
                                /\ clock' <= calls[q][i].now + QueryTimeout
  <2> TAKE q \in Queries
  <2> TAKE i \in Slots
  <2> HAVE calls[q][i] # NoCall
  <2>1. calls[q][i].now \in Nat /\ calls[q][i].now <= clock
    BY DEF CacheInv, CacheTypeInv, CallType, EntriesInv, CallInv
  <2>2. clock \in Nat /\ QueryTimeout \in Nat
    BY CacheAssumption DEF CacheInv, CacheTypeInv
  <2> QED
    BY <1>1, <2>1, <2>2
<1>5. EntriesInv'
  <2>1. ASSUME NEW q \in Queries
        PROVE  \A e \in EntryType : EntryInv(q, e) => EntryInv(q, e)'
    BY <1>2, <1>3, EntryKept DEF CacheInv
  <2>2. ASSUME NEW q \in Queries
        PROVE  \A c \in CallType :
                 CallInv(q, c) /\ (c # NoCall => clock' <= c.now + QueryTimeout) => CallInv(q, c)'
    BY <1>2, <1>3, CallKept DEF CacheInv
  <2>3. \A q \in Queries : \A i \in Slots : CallInv(q, calls[q][i])'
    BY <1>1, <1>4, <2>2 DEF CacheInv, CacheTypeInv, EntriesInv
  <2>4. \A q \in Queries : EntryInv(q, items[q])' /\ EntryInv(q, file[q])'
    BY <1>1, <2>1 DEF CacheInv, CacheTypeInv, EntriesInv
  <2>5. \A w \in Lookers : LookupInv(waiting[w])'
    BY <1>1 DEF CacheInv, EntriesInv, LookupInv
  <2> QED
    BY <2>3, <2>4, <2>5 DEF EntriesInv
<1>6. RefreshesInv'
  <2>1. \A q \in Queries : \A i \in Slots : calls[q][i] # NoCall => calls[q][i].now < clock'
    BY <1>1, <1>4 DEF CacheInv, CacheTypeInv
  <2> QED
    BY <1>1, <2>1 DEF CacheInv, RefreshesInv
<1>7. AccessInv'
  BY <1>1 DEF AccessInv
<1>8. FreshInv'
  <2> SUFFICES ASSUME cacheEvents = 0, NEW q \in Queries, items[q] # Missing, Old(items[q])'
               PROVE  Refreshed(q, items[q])
    BY <1>1 DEF CacheInv, FreshInv, Refreshed
  <2>1. items[q].updated \in Nat /\ clock \in Nat
    BY DEF CacheInv, CacheTypeInv, EntryType
  <2>2. Longer(CacheRefresh, QueryTimeout) \in Nat
    BY CacheAssumption DEF Longer
  <2>3. up /\ checked
    BY <1>1 DEF CacheInv, FreshInv
  <2>4. Old(items[q])
    BY <1>1, <2>1, <2>2, <2>3 DEF Old
  <2> QED
    BY <2>4 DEF CacheInv, FreshInv
<1> QED
  BY <1>2, <1>3, <1>5, <1>6, <1>7, <1>8 DEF CacheInv

-----------------------------------------------------------------------------
LEMMA CacheStopInv ==
  ASSUME CacheInv, CacheStop
  PROVE  CacheInv'
<1>1. /\ cacheEvents' = cacheEvents + 1 /\ up' = FALSE /\ file' \in {items, file}
      /\ items' = [q \in Queries |-> Missing]
      /\ calls' = [q \in Queries |-> [i \in Slots |-> NoCall]]
      /\ waiting' = [w \in Lookers |-> NoLookup] /\ breaker' = Closed
      /\ UNCHANGED <<clock, checked, started, truth, changed, used>>
  BY DEF CacheStop, CacheEvent
<1>2. CacheTypeInv'
  <2>1. Missing \in EntryType /\ NoCall \in CallType /\ NoLookup \in LookupType
    BY DEF EntryType, CallType, LookupType, NoLookup
  <2>2. breaker' \in [state : {"closed", "open", "halfOpen"},
                      errors : 0..(ErrorThreshold - 1), since : 0..MaxClock]
    BY <1>1, CacheAssumption DEF Closed
  <2>3. /\ items' \in [Queries -> EntryType] /\ file' \in [Queries -> EntryType]
        /\ calls' \in [Queries -> [Slots -> CallType]]
        /\ waiting' \in [Lookers -> LookupType]
    BY <1>1, <2>1 DEF CacheInv, CacheTypeInv
  <2>4. cacheEvents' \in Nat
    BY <1>1 DEF CacheInv, CacheTypeInv
  <2> QED
    BY <1>1, <2>2, <2>3, <2>4 DEF CacheInv, CacheTypeInv
<1>3. TimeInv' /\ Later
  BY <1>1, SameLater DEF CacheInv, TimeInv
<1>4. EntriesInv'
  <2>1. ASSUME NEW q \in Queries
        PROVE  \A e \in EntryType : EntryInv(q, e) => EntryInv(q, e)'
    BY <1>2, <1>3, EntryKept DEF CacheInv
  <2>2. \A q \in Queries : EntryInv(q, file[q])'
    BY <1>1, <2>1 DEF CacheInv, CacheTypeInv, EntriesInv
  <2>3. \A q \in Queries : EntryInv(q, items[q])' /\ \A i \in Slots : CallInv(q, calls[q][i])'
    BY <1>1 DEF EntryInv, CallInv
  <2>4. \A w \in Lookers : LookupInv(waiting[w])'
    BY <1>1, NoLookupInv
  <2> QED
    BY <2>2, <2>3, <2>4 DEF EntriesInv
<1>5. RefreshesInv' /\ AccessInv' /\ FreshInv'
  BY <1>1 DEF RefreshesInv, AccessInv, FreshInv, CacheInv, CacheTypeInv
<1> QED
  BY <1>2, <1>3, <1>4, <1>5 DEF CacheInv

LEMMA CacheStartInv ==
  ASSUME CacheInv, CacheStart
  PROVE  CacheInv'
<1>1. /\ ~ up /\ up' = TRUE /\ started' = clock /\ checked' = TRUE
      /\ items' \in {file, [q \in Queries |-> Missing]}
      /\ UNCHANGED <<clock, calls, waiting, breaker, file, truth, changed, used, cacheEvents>>
  BY DEF CacheStart
<1>2. CacheTypeInv'
  <2>1. Missing \in EntryType
    BY DEF EntryType
  <2> QED
    BY <1>1, <2>1 DEF CacheInv, CacheTypeInv
<1>3. TimeInv' /\ Later
  BY <1>1, SameLater DEF CacheInv, CacheTypeInv, TimeInv
<1>4. EntriesInv'
  <2>1. ASSUME NEW q \in Queries
        PROVE  \A e \in EntryType : EntryInv(q, e) => EntryInv(q, e)'
    BY <1>2, <1>3, EntryKept DEF CacheInv
  <2>2. \A q \in Queries : EntryInv(q, items[q])'
    <3>1. CASE items' = file
      BY <2>1, <3>1 DEF CacheInv, CacheTypeInv, EntriesInv
    <3>2. CASE items' = [q \in Queries |-> Missing]
      BY <3>2 DEF EntryInv
    <3> QED
      BY <1>1, <3>1, <3>2
  <2> QED
    BY <1>1, <1>2, <1>3, <2>2, EntriesKept DEF EntriesInv
<1>5. RefreshesInv'
  BY <1>1 DEF CacheInv, RefreshesInv
<1>6. AccessInv' /\ FreshInv'
  BY <1>1 DEF CacheInv, CacheTypeInv, AccessInv, FreshInv
<1> QED
  BY <1>2, <1>3, <1>4, <1>5, <1>6 DEF CacheInv

-----------------------------------------------------------------------------
(* When the cache is checked, a refresh of an entry has a free slot: there *)
(* is at most one refresh for each of the earlier checks that are not      *)
(* further than a timeout away.                                            *)
LEMMA FreeSlotExists ==
  ASSUME CacheInv, ~ checked, NEW q \in Queries
  PROVE  FreeSlot(q) \in Slots \ {0} /\ calls[q][FreeSlot(q)] = NoCall
<1> DEFINE S == Slots \ {0}
           T == (clock - QueryTimeout)..(clock - 1)
           f == [i \in S |-> calls[q][i].now]
<1>1. QueryTimeout \in Nat /\ clock \in Nat
  BY CacheAssumption DEF CacheInv, CacheTypeInv
<1>2. S = 1..(QueryTimeout + 1)
  BY <1>1 DEF Slots
<1>3. /\ IsFiniteSet(S) /\ Cardinality(S) = QueryTimeout + 1
      /\ IsFiniteSet(T) /\ Cardinality(T) = QueryTimeout
  <2>1. IsFiniteSet(1..(QueryTimeout + 1)) /\ Cardinality(1..(QueryTimeout + 1)) = QueryTimeout + 1
    BY <1>1, FS_Interval
  <2>2. IsFiniteSet(T) /\ Cardinality(T) = QueryTimeout
    BY <1>1, FS_Interval
  <2> QED
    BY <1>2, <2>1, <2>2
<1>4. ASSUME \A i \in S : calls[q][i] # NoCall
      PROVE  FALSE
  <2>1. f \in [S -> T]
    <3>1. ASSUME NEW i \in S
          PROVE  calls[q][i].now \in T
      <4>1. /\ calls[q][i].now \in Nat /\ calls[q][i].now < clock
            /\ clock <= calls[q][i].now + QueryTimeout
        BY <1>4 DEF CacheInv, CacheTypeInv, CallType, EntriesInv, CallInv, RefreshesInv
      <4> QED
        BY <1>1, <4>1
    <3> QED
      BY <3>1
  <2>2. PICK i \in S, j \in S : i # j /\ f[i] = f[j]
    <3> HIDE DEF S, T, f
    <3>1. Cardinality(T) < Cardinality(S)
      BY <1>1, <1>3
    <3> QED
      BY <1>3, <2>1, <3>1, FS_PigeonHole
  <2> QED
    BY <1>4, <2>2 DEF CacheInv, RefreshesInv
<1> QED
  BY <1>4 DEF FreeSlot

LEMMA expireCacheInv ==
  ASSUME CacheInv, expireCache
  PROVE  CacheInv'
<1> DEFINE refreshed(q) == items'[q] # Missing /\ items'[q].updated < clock - CacheRefresh
                           /\ breaker.state # "open"
<1>1. /\ up /\ ~ checked /\ checked' = TRUE
      /\ UNCHANGED <<clock, up, started, waiting, breaker, file, truth, changed, used,
                     cacheEvents>>
  BY DEF expireCache
<1>2. \A q \in Queries :
        /\ items'[q] = IF items[q].accessed < clock - CacheDuration THEN Missing ELSE items[q]
        /\ items'[q] # Missing =>
             items'[q] = items[q] /\ ~ (items[q].accessed < clock - CacheDuration)
  BY DEF expireCache, DeleteLastAccessedBefore
<1>3. \A q \in Queries :
        calls'[q] = IF refreshed(q) THEN [calls[q] EXCEPT ![FreeSlot(q)] = Begin(clock)]
                    ELSE calls[q]
  BY DEF expireCache, ItemsLastUpdatedBefore
<1>4. /\ Begin(clock) = [now |-> clock, answer |-> Pending]
      /\ Begin(clock) \in CallType /\ Begin(clock) # NoCall
  BY DEF CacheInv, CacheTypeInv, CallType, Begin, NoCall
<1>5. \A q \in Queries : FreeSlot(q) \in Slots \ {0} /\ calls[q][FreeSlot(q)] = NoCall
  BY <1>1, FreeSlotExists
<1>6. \A q \in Queries :
        /\ calls'[q] \in [Slots -> CallType]
        /\ \A i \in Slots :
             calls'[q][i] = IF refreshed(q) /\ i = FreeSlot(q) THEN Begin(clock) ELSE calls[q][i]
  <2> TAKE q \in Queries
  <2>1. calls[q] \in [Slots -> CallType]
    BY DEF CacheInv, CacheTypeInv
  <2> HIDE DEF refreshed
  <2> QED
    BY <1>3, <1>4, <1>5, <2>1
<1>7. CacheTypeInv'
  <2>1. items' \in [Queries -> EntryType]
    <3>1. items' = [q \in Queries |-> IF items[q].accessed < clock - CacheDuration
                                      THEN Missing ELSE items[q]]
      BY DEF expireCache, DeleteLastAccessedBefore
    <3>2. \A q \in Queries : (IF items[q].accessed < clock - CacheDuration
                              THEN Missing ELSE items[q]) \in EntryType
      BY DEF CacheInv, CacheTypeInv, EntryType
    <3> QED
      BY <3>1, <3>2
  <2>2. calls' \in [Queries -> [Slots -> CallType]]
    <3>1. calls' = [q \in Queries |-> calls'[q]]
      BY DEF expireCache
    <3> QED
      BY <1>6, <3>1
  <2> QED
    BY <1>1, <2>1, <2>2 DEF CacheInv, CacheTypeInv
<1>8. TimeInv' /\ Later
  BY <1>1, SameLater DEF CacheInv, TimeInv
<1>9. ASSUME NEW q \in Queries, items'[q] # Missing
      PROVE  /\ items[q] # Missing /\ items'[q] = items[q]
             /\ {items[q].accessed, items[q].updated, clock, used[q]} \subseteq Nat
             /\ clock <= items[q].accessed + CacheDuration
  <2>1. items[q] # Missing /\ items'[q] = items[q]
    BY <1>2, <1>9
  <2>2. {items[q].accessed, items[q].updated, clock, used[q]} \subseteq Nat
    BY <2>1 DEF CacheInv, CacheTypeInv, EntryType
  <2> QED
    BY <1>2, <1>9, <2>1, <2>2, CacheAssumption
<1>10. EntriesInv'
  <2>1. \A q \in Queries : EntryInv(q, items[q])'
    <3> TAKE q \in Queries
    <3>1. CASE items'[q] = Missing
      BY <3>1 DEF EntryInv
    <3>2. CASE items'[q] # Missing
      BY <1>7, <1>8, <1>1, <1>9, <3>2, EntriesKept
    <3> QED
      BY <3>1, <3>2
  <2>2. \A q \in Queries : \A i \in Slots : CallInv(q, calls[q][i])'
    <3> TAKE q \in Queries
    <3> TAKE i \in Slots
    <3>1. CASE refreshed(q) /\ i = FreeSlot(q)
      <4>1. calls'[q][i] = [now |-> clock, answer |-> Pending]
        BY <1>4, <1>6, <3>1
      <4>2. clock <= used[q] + CacheDuration
        <5>1. EntryInv(q, items[q]) /\ items[q].updated < clock - CacheRefresh
          BY <1>9, <3>1 DEF CacheInv, EntriesInv
        <5>2. items[q].accessed # items[q].updated
          BY <1>9, <3>1, <5>1, CacheAssumption
        <5> QED
          BY <1>9, <3>1, <5>1, <5>2, CacheAssumption DEF EntryInv
      <4>3. clock \in Nat /\ QueryTimeout \in Nat
        BY CacheAssumption DEF CacheInv, CacheTypeInv
      <4> QED
        BY <1>1, <4>1, <4>2, <4>3 DEF CallInv
    <3>2. CASE ~ (refreshed(q) /\ i = FreeSlot(q))
      <4>1. calls'[q][i] = calls[q][i]
        BY <1>6, <3>2
      <4> QED
        BY <1>1, <1>7, <1>8, <4>1, EntriesKept
    <3> QED
      BY <3>1, <3>2
  <2> QED
    BY <1>1, <1>7, <1>8, <2>1, <2>2, EntriesKept DEF EntriesInv
<1>11. RefreshesInv'
  <2> SUFFICES ASSUME NEW q \in Queries, NEW i \in Slots \ {0}, NEW j \in Slots \ {0}, j # i,
                      calls'[q][i] # NoCall, calls'[q][j] # NoCall
               PROVE  calls'[q][i].now # calls'[q][j].now
    BY <1>1 DEF RefreshesInv
  <2>1. ASSUME NEW k \in Slots \ {0}, calls'[q][k] # NoCall
        PROVE  \/ calls'[q][k] = calls[q][k] /\ calls[q][k].now < clock /\ calls[q][k].now \in Nat
               \/ k = FreeSlot(q) /\ calls'[q][k].now = clock
    <3>1. CASE refreshed(q) /\ k = FreeSlot(q)
      BY <1>4, <1>6, <3>1
    <3>2. CASE ~ (refreshed(q) /\ k = FreeSlot(q))
      <4>1. calls'[q][k] = calls[q][k] /\ calls[q][k] # NoCall
        BY <1>6, <2>1, <3>2
      <4> QED
        BY <1>1, <4>1 DEF CacheInv, RefreshesInv, CacheTypeInv, CallType
    <3> QED
      BY <3>1, <3>2
  <2>2. clock \in Nat
    BY DEF CacheInv, CacheTypeInv
  <2>3. CASE calls'[q][i] = calls[q][i] /\ calls'[q][j] = calls[q][j]
    BY <2>3 DEF CacheInv, RefreshesInv
  <2> QED
    BY <2>1, <2>2, <2>3
<1>12. AccessInv'
  <2>1. \A q \in Queries : items'[q] # Missing =>
          clock <= items'[q].accessed + Longer(CacheDuration, QueryTimeout)
    BY <1>9, CacheAssumption DEF Longer
  <2> QED
    BY <1>1, <2>1 DEF AccessInv
<1>13. FreshInv'
  <2> DEFINE d == Longer(CacheRefresh, QueryTimeout)
  <2> SUFFICES ASSUME cacheEvents = 0, NEW q \in Queries, items'[q] # Missing, Old(items[q])'
               PROVE  Refreshed(q, items[q])'
    BY <1>1 DEF CacheInv, FreshInv
  <2>1. items'[q] = items[q] /\ items[q] # Missing /\ items[q].updated \in Nat /\ clock \in Nat
    BY <1>9
  <2>2. d \in Nat /\ CacheRefresh \in Nat /\ CacheRefresh <= d
    BY CacheAssumption DEF Longer
  <2>3. clock > items[q].updated + d
    BY <1>1, <2>1, <2>2 DEF Old
  <2>4. CASE Old(items[q])
    <3>1. PICK i \in Slots : calls[q][i] # NoCall /\ calls[q][i].now <= items[q].updated + d + 1
      BY <2>1, <2>4 DEF CacheInv, FreshInv, Refreshed
    <3>2. calls'[q][i] = calls[q][i]
      BY <1>5, <1>6, <3>1
    <3> QED
      BY <2>1, <3>1, <3>2 DEF Refreshed
  <2>5. CASE ~ Old(items[q])
    <3>1. clock <= items[q].updated + d + 1
      BY <1>1, <2>1, <2>2, <2>5 DEF Old
    <3>2. refreshed(q)
      BY <2>1, <2>2, <2>3 DEF CacheInv, FreshInv
    <3>3. calls'[q][FreeSlot(q)] = [now |-> clock, answer |-> Pending]
      BY <1>4, <1>5, <1>6, <3>2
    <3>4. calls'[q][FreeSlot(q)] # NoCall /\ FreeSlot(q) \in Slots
      BY <1>4, <1>5, <3>3
    <3> QED
      BY <2>1, <3>1, <3>3, <3>4 DEF Refreshed
  <2> QED
    BY <2>4, <2>5
<1> QED
  BY <1>7, <1>8, <1>10, <1>11, <1>12, <1>13 DEF CacheInv

-----------------------------------------------------------------------------
LEMMA CacheStepInv ==
  ASSUME CacheInv, [CacheNext]_cacheVars
  PROVE  CacheInv'
<1>1. CASE UNCHANGED cacheVars
  <2>1. UNCHANGED <<clock, checked, up, started, items, calls, waiting, breaker, file, truth,
                    changed, used, cacheEvents>>
    BY <1>1 DEF cacheVars
  <2>2. CacheTypeInv' /\ TimeInv' /\ Later
    BY <2>1, SameLater DEF CacheInv, CacheTypeInv, TimeInv
  <2>3. EntriesInv'
    BY <2>1, <2>2, EntriesKept DEF EntriesInv
  <2>4. RefreshesInv' /\ AccessInv' /\ FreshInv'
    BY <2>1 DEF CacheInv, RefreshesInv, AccessInv, FreshInv, Old, Refreshed
  <2> QED
    BY <2>2, <2>3, <2>4 DEF CacheInv
<1> QED
  BY <1>1, LookupHitInv, LookupMissInv, DoInv, ProviderAnswersInv, queryProvidersInv,
     queryProvidersFailsInv, BreakerTimerInv, ProvidersChangeInv, ClockTickInv, expireCacheInv,
     CacheStopInv, CacheStartInv DEF CacheNext

(* However lookups, calls to the providers, refreshes, expirations, stops  *)
(* and restarts are interleaved, for all durations that New accepts: an    *)
(* entry is not older than it says (Put), a change of the providers is in  *)
(* the cache after a bounded time as long as they answer (expireCache), and*)
(* refreshes do not keep alive what is not looked up.                      *)
THEOREM CacheIsRight == CacheSpec => []CacheRight
<1>1. CacheInit => CacheInv
  BY CacheInitInv
<1>2. CacheInv /\ [CacheNext]_cacheVars => CacheInv'
  BY CacheStepInv
<1>3. CacheInv => CacheRight
  BY CacheInvRight
<1> QED
  BY <1>1, <1>2, <1>3, PTL DEF CacheSpec

-----------------------------------------------------------------------------
(* The limit on the flows of an exporter.                                  *)
LimiterTypeInv ==
  /\ limiter \in [dropped : Nat, total : Nat, factor : Nat \X Nat, second : Seconds \cup {0}]
  /\ receivedIn \in [Seconds -> Nat]
  /\ acceptedIn \in [Seconds -> Nat]
  /\ secondOver \in Seconds \cup {0}

(* A limiter that did not see the exporter has counted nothing.            *)
UnseenInv ==
  limiter.second = 0 => limiter.total = 0 /\ limiter.dropped = 0 /\ secondOver = 0

(* The counters are those of the current second, of which the first flows  *)
(* are accepted, up to the limit: there is at least one.                   *)
CountersInv ==
  limiter.second # 0 =>
    /\ limiter.total = receivedIn[limiter.second]
    /\ limiter.total - limiter.dropped = acceptedIn[limiter.second]
    /\ acceptedIn[limiter.second] > 0
    /\ limiter.total <= RateLimit => limiter.dropped = 0
    /\ limiter.total > RateLimit => acceptedIn[limiter.second] = RateLimit

(* Nothing is counted yet in the seconds to come.                          *)
ComingInv ==
  \A s \in Seconds : s > limiter.second => receivedIn[s] = 0 /\ acceptedIn[s] = 0

OverInv == secondOver # 0 => secondOver < limiter.second

RateInv ==
  /\ LimiterTypeInv /\ UnseenInv /\ CountersInv /\ ComingInv /\ OverInv
  /\ RateRespected /\ FactorCompensates

LEMMA RateStarts == RateInit => RateInv
  BY RateAssumption
  DEF RateInit, RateInv, LimiterTypeInv, UnseenInv, CountersInv, ComingInv, OverInv, RateRespected,
      FactorCompensates

(* The first flow of a later second, or of the exporter: it is accepted,   *)
(* and what the factor compensates for is what was just counted.           *)
LEMMA FirstOfSecond ==
  ASSUME RateInv, NEW t \in Seconds, limiter.second = 0 \/ t > limiter.second, allowOneMessage(t)
  PROVE  RateInv'
<1>1. t \in Nat /\ t > 0 /\ RateLimit \in Nat /\ RateLimit >= 1
  BY RateAssumption
<1>2. t > limiter.second
  BY <1>1
<1>3. LimiterTypeInv /\ OverInv /\ UnseenInv /\ CountersInv
  BY DEF RateInv
<1>4. receivedIn[t] = 0 /\ acceptedIn[t] = 0
  BY <1>2 DEF RateInv, ComingInv
<1> DEFINE received == limiter.total
           accepted == limiter.total - limiter.dropped
           rolls == limiter.second # 0
<1>5. /\ limiter'.total = 1 /\ limiter'.dropped = 0 /\ limiter'.second = t
      /\ limiter'.factor = IF rolls /\ accepted > 0 THEN <<received, accepted>> ELSE limiter.factor
      /\ limiter' = [dropped |-> 0, total |-> 1, factor |-> limiter'.factor, second |-> t]
      /\ secondOver' = IF rolls THEN limiter.second ELSE secondOver
      /\ receivedIn' = [receivedIn EXCEPT ![t] = @ + 1]
      /\ acceptedIn' = [acceptedIn EXCEPT ![t] = @ + 1]
  <2> DEFINE l == IF limiter.second = 0 THEN [limiter EXCEPT !.second = t] ELSE limiter
             fresh == [dropped |-> 0, total |-> 0, second |-> t,
                       factor |-> IF rolls /\ accepted > 0 THEN <<received, accepted>> ELSE limiter.factor]
             counted == IF Rolls(l, t) THEN NewSecond(l, t) ELSE l
  <2>1. limiter = [dropped |-> limiter.dropped, total |-> limiter.total,
                   factor |-> limiter.factor, second |-> limiter.second]
    BY <1>3 DEF LimiterTypeInv
  <2>2. counted = fresh /\ (Rolls(l, t) <=> rolls) /\ (rolls => l = limiter)
    <3>1. CASE limiter.second = 0
      <4>1. l = [dropped |-> 0, total |-> 0, factor |-> limiter.factor, second |-> t]
        BY <2>1, <3>1, <1>3 DEF UnseenInv
      <4>2. ~Rolls(l, t)
        BY <4>1, <1>1 DEF Rolls
      <4>3. l = fresh
        BY <3>1, <4>1
      <4>. QED  BY <3>1, <4>2, <4>3
    <3>2. CASE limiter.second # 0
      <4>1. l = limiter /\ Rolls(l, t)
        BY <3>2, <1>2 DEF Rolls
      <4>2. NewSecond(limiter, t) = [limiter EXCEPT !.factor = fresh.factor, !.dropped = 0,
                                                    !.total = 0, !.second = t]
        BY <3>2 DEF NewSecond
      <4>3. NewSecond(limiter, t) = fresh
        BY <2>1, <4>2
      <4>. QED  BY <3>2, <4>1, <4>3
    <3>. QED  BY <3>1, <3>2
  <2>3. Counted(fresh) = [dropped |-> 0, total |-> 1, second |-> t, factor |-> fresh.factor]
    <3>1. fresh.total = 0 /\ fresh.dropped = 0 /\ ~(fresh.total + 1 > RateLimit)
      BY <1>1
    <3>2. Counted(fresh) = [fresh EXCEPT !.total = 1, !.dropped = 0]
      BY <3>1 DEF Counted
    <3>. QED  BY <3>2
  <2>4. limiter' = Counted(counted)
    BY DEF allowOneMessage
  <2>5. limiter' = [dropped |-> 0, total |-> 1, second |-> t, factor |-> fresh.factor]
    BY <2>2, <2>3, <2>4
  <2>6. /\ secondOver' = IF Rolls(l, t) THEN l.second ELSE secondOver
        /\ receivedIn' = [receivedIn EXCEPT ![limiter'.second] = @ + 1]
        /\ acceptedIn' =
             [acceptedIn EXCEPT ![limiter'.second] = IF limiter'.total <= RateLimit THEN @ + 1 ELSE @]
    BY DEF allowOneMessage
  <2>7. limiter'.second = t /\ limiter'.total <= RateLimit
    BY <2>5, <1>1
  <2>. QED  BY <2>2, <2>5, <2>6, <2>7
<1>6. /\ \A s \in Seconds : receivedIn'[s] = IF s = t THEN 1 ELSE receivedIn[s]
      /\ \A s \in Seconds : acceptedIn'[s] = IF s = t THEN 1 ELSE acceptedIn[s]
  BY <1>3, <1>4, <1>5 DEF LimiterTypeInv
<1>7. rolls => accepted \in Nat /\ accepted > 0
  BY <1>3 DEF CountersInv, LimiterTypeInv
<1>8. LimiterTypeInv'
  <2>1. limiter'.factor \in Nat \X Nat
    BY <1>3, <1>5, <1>7 DEF LimiterTypeInv
  <2>. QED  BY <1>3, <1>5, <2>1 DEF LimiterTypeInv
<1>9. UnseenInv' /\ CountersInv' /\ OverInv'
  BY <1>1, <1>2, <1>3, <1>5, <1>6 DEF UnseenInv, CountersInv, OverInv, LimiterTypeInv
<1>10. ComingInv'
  BY <1>2, <1>5, <1>6, RateAssumption DEF RateInv, ComingInv, LimiterTypeInv
<1>11. RateRespected'
  BY <1>1, <1>6 DEF RateInv, RateRespected
<1>12. FactorCompensates'
  <2>1. CASE rolls
    <3>1. /\ acceptedIn[limiter.second] = accepted /\ receivedIn[limiter.second] = received
          /\ limiter.second \in Seconds /\ limiter.second # t
      BY <2>1, <1>1, <1>2, <1>3 DEF CountersInv, LimiterTypeInv
    <3>2. limiter'.factor[1] = received /\ limiter'.factor[2] = accepted
      BY <2>1, <1>5, <1>7
    <3>3. acceptedIn'[limiter.second] = accepted /\ receivedIn'[limiter.second] = received
      BY <3>1, <1>6
    <3>4. received * accepted = accepted * received
      BY <2>1, <1>3, <1>7 DEF LimiterTypeInv
    <3>. QED  BY <2>1, <1>5, <3>2, <3>3, <3>4 DEF FactorCompensates
  <2>2. CASE ~rolls
    BY <2>2, <1>3, <1>5 DEF UnseenInv, FactorCompensates
  <2>. QED  BY <2>1, <2>2
<1>. QED  BY <1>8, <1>9, <1>10, <1>11, <1>12 DEF RateInv

(* Any other flow is counted in the current second, be it older.           *)
LEMMA OneMore ==
  ASSUME RateInv, NEW t \in Seconds, limiter.second # 0, ~(t > limiter.second), allowOneMessage(t)
  PROVE  RateInv'
<1> DEFINE now == limiter.second
           more == limiter.total + 1
<1>1. LimiterTypeInv /\ OverInv /\ CountersInv /\ RateRespected /\ FactorCompensates /\ ComingInv
  BY DEF RateInv
<1>2. now \in Seconds /\ now \in Nat /\ RateLimit \in Nat /\ RateLimit >= 1
  <2>1. now \in Seconds \cup {0} /\ now # 0
    BY <1>1 DEF LimiterTypeInv
  <2>2. now \in Seconds
    BY <2>1
  <2>3. RateLimit \in Nat /\ RateLimit >= 1 /\ Seconds \subseteq Nat
    BY RateAssumption
  <2>. QED  BY <2>2, <2>3
<1>3. /\ limiter' = [limiter EXCEPT !.total = more,
                                    !.dropped = IF more > RateLimit THEN @ + 1 ELSE @]
      /\ secondOver' = secondOver
      /\ receivedIn' = [receivedIn EXCEPT ![now] = @ + 1]
      /\ acceptedIn' = [acceptedIn EXCEPT ![now] = IF more <= RateLimit THEN @ + 1 ELSE @]
  <2>1. /\ limiter' = Counted(limiter)
        /\ secondOver' = secondOver
        /\ receivedIn' = [receivedIn EXCEPT ![limiter'.second] = @ + 1]
        /\ acceptedIn' =
             [acceptedIn EXCEPT ![limiter'.second] = IF limiter'.total <= RateLimit THEN @ + 1 ELSE @]
    BY DEF allowOneMessage, Rolls
  <2>2. limiter = [dropped |-> limiter.dropped, total |-> limiter.total,
                   factor |-> limiter.factor, second |-> limiter.second]
    BY <1>1 DEF LimiterTypeInv
  <2>3. limiter'.second = now /\ limiter'.total = more
    BY <2>1, <2>2 DEF Counted
  <2>. QED  BY <2>1, <2>3 DEF Counted
<1>4. /\ limiter'.total = more /\ limiter'.second = now /\ limiter'.factor = limiter.factor
      /\ limiter'.dropped = IF more > RateLimit THEN limiter.dropped + 1 ELSE limiter.dropped
      /\ limiter' \in [dropped : Nat, total : Nat, factor : Nat \X Nat, second : Seconds \cup {0}]
  <2>1. limiter \in [dropped : Nat, total : Nat, factor : Nat \X Nat, second : Seconds \cup {0}]
    BY <1>1 DEF LimiterTypeInv
  <2>2. more \in Nat /\ limiter.dropped + 1 \in Nat
    BY <2>1
  <2>. QED  BY <1>3, <2>1, <2>2
<1>5. \A s \in Seconds :
        /\ receivedIn'[s] = IF s = now THEN receivedIn[now] + 1 ELSE receivedIn[s]
        /\ acceptedIn'[s] = IF s = now /\ more <= RateLimit THEN acceptedIn[now] + 1 ELSE acceptedIn[s]
  BY <1>1, <1>3 DEF LimiterTypeInv
<1>6. LimiterTypeInv'
  <2>1. receivedIn' \in [Seconds -> Nat] /\ acceptedIn' \in [Seconds -> Nat]
    <3>1. receivedIn[now] + 1 \in Nat /\ acceptedIn[now] + 1 \in Nat
      BY <1>1, <1>2 DEF LimiterTypeInv
    <3>. QED  BY <1>1, <1>3, <3>1 DEF LimiterTypeInv
  <2>2. secondOver' \in Seconds \cup {0}
    BY <1>1, <1>3 DEF LimiterTypeInv
  <2>. QED  BY <1>4, <2>1, <2>2 DEF LimiterTypeInv
<1>7. UnseenInv' /\ OverInv'
  BY <1>1, <1>3, <1>4 DEF UnseenInv, OverInv
<1>8. CountersInv' /\ acceptedIn'[now] <= RateLimit
  <2>1. /\ limiter.total \in Nat /\ limiter.dropped \in Nat
        /\ receivedIn[now] \in Nat /\ acceptedIn[now] \in Nat
    BY <1>1, <1>2 DEF LimiterTypeInv
  <2>2. /\ limiter.total = receivedIn[now] /\ limiter.total - limiter.dropped = acceptedIn[now]
        /\ acceptedIn[now] > 0
        /\ limiter.total <= RateLimit => limiter.dropped = 0
        /\ limiter.total > RateLimit => acceptedIn[now] = RateLimit
    BY <1>1 DEF CountersInv
  <2>3. CASE more <= RateLimit
    BY <2>1, <2>2, <2>3, <1>2, <1>4, <1>5 DEF CountersInv
  <2>4. CASE more > RateLimit
    <3>1. acceptedIn'[now] = acceptedIn[now] /\ receivedIn'[now] = receivedIn[now] + 1
      BY <2>1, <2>4, <1>2, <1>5
    <3>2. acceptedIn[now] = RateLimit
      BY <2>1, <2>2, <2>4, <1>2
    <3>. QED  BY <2>1, <2>2, <2>4, <3>1, <3>2, <1>2, <1>4 DEF CountersInv
  <2>. QED  BY <2>1, <2>3, <2>4, <1>2
<1>9. ComingInv'
  BY <1>1, <1>2, <1>4, <1>5 DEF ComingInv
<1>10. RateRespected'
  BY <1>1, <1>5, <1>8 DEF RateRespected
<1>11. FactorCompensates'
  <2>. SUFFICES ASSUME secondOver' # 0
               PROVE  limiter'.factor[1] * acceptedIn'[secondOver]
                        = limiter'.factor[2] * receivedIn'[secondOver]
    BY <1>3 DEF FactorCompensates
  <2>1. secondOver \in Seconds /\ secondOver # now
    BY <1>1, <1>2, <1>3, RateAssumption DEF OverInv, LimiterTypeInv
  <2>2. acceptedIn'[secondOver] = acceptedIn[secondOver] /\ receivedIn'[secondOver] = receivedIn[secondOver]
    BY <1>5, <2>1
  <2>. QED  BY <1>1, <1>3, <1>4, <2>2 DEF FactorCompensates
<1>. QED  BY <1>6, <1>7, <1>8, <1>9, <1>10, <1>11 DEF RateInv

LEMMA RateSteps == RateInv /\ [RateNext]_rateVars => RateInv'
<1> SUFFICES ASSUME RateInv, [RateNext]_rateVars PROVE RateInv'
  OBVIOUS
<1>1. CASE UNCHANGED rateVars
  BY <1>1 DEF rateVars, RateInv, LimiterTypeInv, UnseenInv, CountersInv, ComingInv, OverInv,
              RateRespected, FactorCompensates
<1>2. ASSUME NEW t \in Seconds, allowOneMessage(t) PROVE RateInv'
  BY <1>2, FirstOfSecond, OneMore
<1>. QED  BY <1>1, <1>2 DEF RateNext

(* allowOneMessage: in whatever order the partitions give the flows of an  *)
(* exporter, and whatever the limit is, no more are accepted in a second   *)
(* than the limit, and the factor makes up exactly for those dropped.      *)
THEOREM RatesAreRight == RateSpec => []RatesRight
<1>1. RateInv => RatesRight
  BY DEF RateInv, RatesRight
<1>. QED  BY <1>1, RateStarts, RateSteps, PTL DEF RateSpec

-----------------------------------------------------------------------------
(* The enrichment of the flows.  What the rules say, without a cache.      *)
ExporterClassOf(info) == Classify(ExporterRules, info, NoExporterClass, ExporterAttributes)

InterfaceClassOf(key) ==
  Named(Classify(InterfaceRules, key, NoInterfaceClass, InterfaceAttributes), key[2])

ExportersKept(cache) == \A info \in DOMAIN cache : cache[info] = ExporterClassOf(info)

InterfacesKept(cache) == \A key \in DOMAIN cache : cache[key] = InterfaceClassOf(key)

EnrichInv == ExportersKept(exporterCache) /\ InterfacesKept(interfaceCache) /\ CachesTransparent

(* A set of numbers has a least one.                                      *)
LEMMA Least ==
  ASSUME NEW S \in SUBSET Nat, S # {}
  PROVE  \E m \in S : \A k \in S : m <= k
<1>1. PICK m \in S : \A k \in S : ~ (<<k, m>> \in OpToRel(<, Nat))
  BY NatLessThanWellFounded, WFMin
<1>2. ASSUME NEW k \in S PROVE m <= k
  <2>1. m \in Nat /\ k \in Nat
    OBVIOUS
  <2>2. ~ (k < m)
    BY <1>1, <2>1 DEF OpToRel
  <2>. QED  BY <2>1, <2>2
<1>. QED  BY <1>2

LEMMA NothingKept == ExportersKept(<<>>) /\ InterfacesKept(<<>>)
  BY DEF ExportersKept, InterfacesKept

(* The cache of the exporters changes neither a class nor what is kept.    *)
LEMMA ExporterTransparent ==
  ASSUME NEW cache, ExportersKept(cache), NEW info, NEW known
  PROVE  LET e == classifyExporter(cache, info, known)
         IN  /\ e.class = classifyExporter(<<>>, info, known).class
             /\ ExportersKept(e.cache)
<1>1. CASE known # NoExporterClass \/ ExporterRules = <<>>
  <2>1. \A x : classifyExporter(x, info, known) = [class |-> known, cache |-> x]
    BY <1>1 DEF classifyExporter
  <2>. QED  BY <2>1
<1>2. CASE ~ (known # NoExporterClass \/ ExporterRules = <<>>)
  <2> DEFINE c == Classify(ExporterRules, info, known, ExporterAttributes)
             d == Cached(cache, info, c)
  <2>1. known = NoExporterClass /\ c = ExporterClassOf(info)
    BY <1>2 DEF ExporterClassOf
  <2> HIDE DEF c
  <2>2. classifyExporter(<<>>, info, known).class = c
    BY <1>2 DEF classifyExporter, c
  <2>3. CASE info \in DOMAIN cache
    <3>1. classifyExporter(cache, info, known) = [class |-> cache[info], cache |-> cache]
      BY <1>2, <2>3 DEF classifyExporter
    <3>. QED  BY <2>1, <2>2, <2>3, <3>1 DEF ExportersKept
  <2>4. CASE info \notin DOMAIN cache
    <3>1. classifyExporter(cache, info, known) = [class |-> c, cache |-> d]
      BY <1>2, <2>4 DEF classifyExporter, c
    <3>2. ExportersKept(d)
      BY <2>1 DEF ExportersKept, Cached
    <3> HIDE DEF d
    <3>. QED  BY <2>2, <3>1, <3>2
  <2>. QED  BY <2>3, <2>4
<1>. QED  BY <1>1, <1>2

LEMMA InterfaceTransparent ==
  ASSUME NEW cache, InterfacesKept(cache), NEW exporter, NEW interface, NEW known
  PROVE  LET e == classifyInterface(cache, exporter, interface, known)
         IN  /\ e.class = classifyInterface(<<>>, exporter, interface, known).class
             /\ InterfacesKept(e.cache)
<1> DEFINE key == InterfaceKey(exporter, interface)
<1>0. key = <<exporter, interface>> /\ key[2] = interface
  BY DEF InterfaceKey
<1>1. CASE known # NoInterfaceClass \/ InterfaceRules = <<>>
  <2> DEFINE c == Named([known EXCEPT !.name = "", !.description = ""], interface)
  <2>1. \A x : classifyInterface(x, exporter, interface, known) = [class |-> c, cache |-> x]
    BY <1>1 DEF classifyInterface
  <2> HIDE DEF c
  <2>. QED  BY <2>1
<1>2. CASE ~ (known # NoInterfaceClass \/ InterfaceRules = <<>>)
  <2> DEFINE c == Named(Classify(InterfaceRules, <<exporter, interface>>, known, InterfaceAttributes),
                        interface)
             d == Cached(cache, key, c)
  <2>1. known = NoInterfaceClass /\ c = InterfaceClassOf(key)
    BY <1>0, <1>2 DEF InterfaceClassOf
  <2>2. classifyInterface(<<>>, exporter, interface, known).class = c
    BY <1>2 DEF classifyInterface
  <2>3. CASE key \in DOMAIN cache
    <3>1. classifyInterface(cache, exporter, interface, known) = [class |-> cache[key], cache |-> cache]
      BY <1>2, <2>3 DEF classifyInterface
    <3> HIDE DEF c, key
    <3>. QED  BY <2>1, <2>2, <2>3, <3>1 DEF InterfacesKept
  <2>4. CASE key \notin DOMAIN cache
    <3>1. classifyInterface(cache, exporter, interface, known) = [class |-> c, cache |-> d]
      BY <1>2, <2>4 DEF classifyInterface
    <3> HIDE DEF c, key
    <3>2. InterfacesKept(d)
      BY <2>1 DEF InterfacesKept, Cached
    <3> HIDE DEF d
    <3>. QED  BY <2>2, <3>1, <3>2
  <2>. QED  BY <2>3, <2>4
<1>. QED  BY <1>1, <1>2

(* Whatever the caches have, as long as it is what the rules say, a flow   *)
(* gets the same and the caches still have what the rules say.             *)
LEMMA EnrichTransparent ==
  ASSUME NEW flow, NEW ecache, NEW icache, ExportersKept(ecache), InterfacesKept(icache)
  PROVE  LET r == enrichFlow(flow, ecache, icache)
         IN  /\ r.outcome = enrichFlow(flow, <<>>, <<>>).outcome
             /\ ExportersKept(r.ecache) /\ InterfacesKept(r.icache)
<1> DEFINE in == Answer(flow.exporter, flow.inIf)
           out == Answer(flow.exporter, flow.outIf)
           name == IF out.found THEN out.exporter ELSE IF in.found THEN in.exporter ELSE ""
           known == IF out.found THEN out.exporterClass ELSE IF in.found THEN in.exporterClass ELSE NoExporterClass
           info == <<flow.exporter, name>>
           outInfo == InterfaceInfo(out, flow.outIf)
           inInfo == InterfaceInfo(in, flow.inIf)
           outKnown == IF out.found THEN out.class ELSE NoInterfaceClass
           inKnown == IF in.found THEN in.class ELSE NoInterfaceClass
           mask == getNetMask(flow.mask, flow.route.mask)
           E(c) == classifyExporter(c, info, known)
           O(c) == classifyInterface(c, info, outInfo, outKnown)
           I(c) == classifyInterface(c, info, inInfo, inKnown)
           Skipped(ec, ic) == [outcome |-> [skip |-> TRUE], ecache |-> ec, icache |-> ic]
           R(ec, ic, e, o, i) ==
             IF name = "" \/ FlowRate(flow) = 0 THEN Skipped(ec, ic)
             ELSE IF e.class.reject THEN Skipped(e.cache, ic)
             ELSE IF o.class.reject THEN Skipped(e.cache, o.cache)
             ELSE IF i.class.reject THEN Skipped(e.cache, i.cache)
             ELSE [outcome |-> [skip |-> FALSE, exporter |-> e.class, in |-> i.class, out |-> o.class,
                                rate |-> FlowRate(flow), mask |-> mask,
                                as |-> getASNumber(flow.as, flow.route.as, flow.net, mask),
                                nextHop |-> getNextHop(flow.nextHop, flow.route.nextHop)],
                   ecache |-> e.cache, icache |-> i.cache]
           r == enrichFlow(flow, ecache, icache)
           s == enrichFlow(flow, <<>>, <<>>)
<1>1. r = R(ecache, icache, E(ecache), O(icache), I(O(icache).cache))
  BY Zenon DEF enrichFlow
<1>2. s = R(<<>>, <<>>, E(<<>>), O(<<>>), I(O(<<>>).cache))
  BY Zenon DEF enrichFlow
<1> HIDE DEF in, out, name, known, info, outInfo, inInfo, outKnown, inKnown, mask
<1>3. E(ecache).class = E(<<>>).class /\ ExportersKept(E(ecache).cache)
  BY ExporterTransparent
<1>4. O(icache).class = O(<<>>).class /\ InterfacesKept(O(icache).cache)
  BY InterfaceTransparent
<1>5. InterfacesKept(O(<<>>).cache)
  BY InterfaceTransparent, NothingKept
<1> HIDE DEF E, O
<1>6. I(O(icache).cache).class = I(<<>>).class /\ InterfacesKept(I(O(icache).cache).cache)
  BY <1>4, InterfaceTransparent
<1>7. I(O(<<>>).cache).class = I(<<>>).class
  BY <1>5, InterfaceTransparent
<1> HIDE DEF I, r, s
<1>8. \A ec, ic, e, o, i, ec2, ic2, e2, o2, i2 :
        e.class = e2.class /\ o.class = o2.class /\ i.class = i2.class =>
          R(ec, ic, e, o, i).outcome = R(ec2, ic2, e2, o2, i2).outcome
  OBVIOUS
<1>9. \A ec, ic, e, o, i :
        /\ R(ec, ic, e, o, i).ecache \in {ec, e.cache}
        /\ R(ec, ic, e, o, i).icache \in {ic, o.cache, i.cache}
  OBVIOUS
<1> HIDE DEF R
<1>10. r.outcome = s.outcome
  BY <1>1, <1>2, <1>3, <1>4, <1>6, <1>7, <1>8
<1>11. r.ecache \in {ecache, E(ecache).cache} /\ r.icache \in {icache, O(icache).cache, I(O(icache).cache).cache}
  BY <1>1, <1>9
<1>12. ExportersKept(r.ecache) /\ InterfacesKept(r.icache)
  BY <1>3, <1>4, <1>6, <1>11
<1>. QED  BY <1>10, <1>12 DEF r, s

LEMMA EnrichStarts == EnrichInit => EnrichInv
  BY NothingKept DEF EnrichInit, EnrichInv, CachesTransparent

LEMMA EnrichSteps == EnrichInv /\ [EnrichNext]_enrichVars => EnrichInv'
<1> SUFFICES ASSUME EnrichInv, [EnrichNext]_enrichVars PROVE EnrichInv'
  OBVIOUS
<1>1. CASE EnrichFlow
  <2>1. PICK flow \in EnrichedFlows :
          LET r == enrichFlow(flow, exporterCache, interfaceCache)
          IN  /\ lastEnriched' = [flow |-> flow, outcome |-> r.outcome]
              /\ exporterCache' = r.ecache
              /\ interfaceCache' = r.icache
    BY <1>1 DEF EnrichFlow
  <2> DEFINE r == enrichFlow(flow, exporterCache, interfaceCache)
  <2>2. r.outcome = enrichFlow(flow, <<>>, <<>>).outcome /\ ExportersKept(r.ecache) /\ InterfacesKept(r.icache)
    BY EnrichTransparent DEF EnrichInv
  <2>3. CachesTransparent'
    BY <2>1, <2>2 DEF CachesTransparent
  <2>4. ExportersKept(exporterCache') /\ InterfacesKept(interfaceCache')
    BY <2>1, <2>2
  <2>. QED  BY <2>3, <2>4 DEF EnrichInv, ExportersKept, InterfacesKept
<1>2. CASE CacheExpires
  <2>1. CachesTransparent'
    BY <1>2 DEF CacheExpires, CachesTransparent, EnrichInv
  <2>2. ExportersKept(exporterCache')
    BY <1>2 DEF CacheExpires, EnrichInv, ExportersKept
  <2>3. InterfacesKept(interfaceCache')
    BY <1>2 DEF CacheExpires, EnrichInv, InterfacesKept
  <2>. QED  BY <2>1, <2>2, <2>3 DEF EnrichInv, ExportersKept, InterfacesKept
<1>3. CASE UNCHANGED enrichVars
  BY <1>3 DEF enrichVars, EnrichInv, CachesTransparent, ExportersKept, InterfacesKept
<1>. QED  BY <1>1, <1>2, <1>3 DEF EnrichNext

(* What FirstOf finds, source after source.                                *)
FindsIn(found, providers, value, none) ==
  /\ found[0] = none
  /\ \A i \in 1..Len(providers) :
       found[i] = IF found[i - 1] # none THEN found[i - 1] ELSE value[providers[i]]

LEMMA FirstOfSteps ==
  ASSUME NEW providers, IsSequence(providers), NEW value, NEW none
  PROVE  \E found :
           FirstOf(providers, value, none) = found[Len(providers)] /\ FindsIn(found, providers, value, none)
<1> DEFINE n == Len(providers)
           Step(g, i) == IF i = 0 THEN none
                         ELSE IF g[i - 1] # none THEN g[i - 1] ELSE value[providers[i]]
           Def(m, g) == [i \in 0..m |-> Step(g, i)]
           found == CHOOSE g : g = Def(n, g)
           Bad == {m \in 0..n : ~ \E g : g = Def(m, g)}
<1>0. n \in Nat
  BY DEF IsSequence
<1>1. Bad = {}
  <2>1. SUFFICES ASSUME Bad # {} PROVE FALSE
    OBVIOUS
  <2>2. PICK m \in Bad : \A k \in Bad : m <= k
    <3>1. Bad \in SUBSET Nat
      BY <1>0
    <3> HIDE DEF Bad
    <3>. QED  BY <2>1, <3>1, Least
  <2>3. m \in 0..n /\ ~ \E g : g = Def(m, g)
    OBVIOUS
  <2>4. CASE m = 0
    <3> DEFINE g == [i \in 0..0 |-> none]
    <3>1. g = Def(0, g)
      OBVIOUS
    <3> HIDE DEF g, Def
    <3>. QED  BY <2>3, <2>4, <3>1
  <2>5. CASE m # 0
    <3>1. m - 1 \in 0..n /\ m - 1 \notin Bad
      <4>1. m - 1 \in 0..n /\ m \in Nat /\ ~ (m <= m - 1)
        BY <1>0, <2>3, <2>5
      <4> HIDE DEF Bad
      <4>. QED  BY <2>2, <4>1
    <3>2. PICK h : h = Def(m - 1, h)
      <4> HIDE DEF Def
      <4>. QED  BY <3>1
    <3>3. \A i \in 0..(m - 1) : h[i] = Step(h, i)
      <4> HIDE DEF Step
      <4>. QED  BY <3>2
    <3> DEFINE last == IF h[m - 1] # none THEN h[m - 1] ELSE value[providers[m]]
               g == [i \in 0..m |-> IF i = m THEN last ELSE h[i]]
    <3>4. /\ g = [i \in 0..m |-> g[i]] /\ g[m] = last
          /\ \A i \in 0..(m - 1) : g[i] = h[i]
      <4> HIDE DEF last
      <4>. QED  BY <1>0, <2>3
    <3> HIDE DEF g
    <3>5. ASSUME NEW i \in 0..m PROVE g[i] = Step(g, i)
      <4>1. CASE i = m
        <5>1. m - 1 \in 0..(m - 1)
          BY <1>0, <2>3, <2>5
        <5>. QED  BY <2>5, <3>4, <4>1, <5>1
      <4>2. CASE i # m
        <5>1. i \in 0..(m - 1) /\ (i # 0 => i - 1 \in 0..(m - 1))
          BY <1>0, <2>3, <4>2
        <5>2. g[i] = Step(h, i)
          BY <3>3, <3>4, <5>1
        <5>. QED  BY <3>4, <5>1, <5>2
      <4>. QED  BY <4>1, <4>2
    <3>6. g = Def(m, g)
      <4> HIDE DEF Step
      <4>. QED  BY <3>4, <3>5
    <3> HIDE DEF Def
    <3>. QED  BY <2>3, <3>6
  <2>. QED  BY <2>4, <2>5
<1>2. n \in 0..n
  BY <1>0
<1>3. found = Def(n, found)
  <2> HIDE DEF Def, n
  <2>. QED  BY <1>1, <1>2
<1>4. FirstOf(providers, value, none) = found[n]
  BY DEF FirstOf
<1> HIDE DEF found
<1>5. \A i \in 0..n : found[i] = Step(found, i)
  <2> HIDE DEF Step, n
  <2>. QED  BY <1>3
<1>6. found[0] = none
  BY <1>0, <1>5
<1>7. ASSUME NEW i \in 1..n
      PROVE  found[i] = IF found[i - 1] # none THEN found[i - 1] ELSE value[providers[i]]
  <2>1. i \in 0..n /\ i # 0
    BY <1>0
  <2>. QED  BY <1>5, <2>1
<1>8. FindsIn(found, providers, value, none)
  BY <1>6, <1>7 DEF FindsIn
<1>. QED  BY <1>4, <1>8

(* It is the answer of the first source that has one.                      *)
LEMMA FirstOfIsFirst ==
  ASSUME NEW providers, IsSequence(providers), NEW value, NEW none, NEW p \in DOMAIN providers,
         value[providers[p]] # none, \A q \in 1..(p - 1) : value[providers[q]] = none
  PROVE  FirstOf(providers, value, none) = value[providers[p]]
<1> DEFINE n == Len(providers)
<1>0. n \in Nat /\ p \in 1..n
  BY DEF IsSequence
<1>a. PICK found : FirstOf(providers, value, none) = found[n] /\ FindsIn(found, providers, value, none)
  BY FirstOfSteps
<1>1. /\ FirstOf(providers, value, none) = found[n] /\ found[0] = none
      /\ \A i \in 1..n : found[i] = IF found[i - 1] # none THEN found[i - 1] ELSE value[providers[i]]
  BY <1>a DEF FindsIn
<1> DEFINE Good(i) == found[i] = IF i < p THEN none ELSE value[providers[p]]
           Bad == {i \in 0..n : ~ Good(i)}
<1>2. Good(0)
  BY <1>0, <1>1
<1>3. ASSUME NEW i \in 1..n, Good(i - 1) PROVE Good(i)
  <2>1. CASE i < p
    <3>1. i \in 1..(p - 1) /\ i - 1 < p
      BY <1>0, <2>1
    <3>. QED  BY <1>1, <1>3, <2>1, <3>1
  <2>2. CASE i = p
    BY <1>0, <1>1, <1>3, <2>2
  <2>3. CASE i > p
    BY <1>0, <1>1, <1>3, <2>3
  <2>. QED  BY <1>0, <2>1, <2>2, <2>3
<1>4. Bad = {}
  <2>1. SUFFICES ASSUME Bad # {} PROVE FALSE
    OBVIOUS
  <2>2. PICK m \in Bad : \A k \in Bad : m <= k
    <3>1. Bad \in SUBSET Nat
      <4> HIDE DEF Good
      <4>. QED  BY <1>0
    <3> HIDE DEF Bad
    <3>. QED  BY <2>1, <3>1, Least
  <2>3. m \in 0..n /\ ~ Good(m)
    <3> HIDE DEF Good
    <3>. QED  OBVIOUS
  <2>4. m # 0
    <3> HIDE DEF Good
    <3>. QED  BY <1>2, <2>3
  <2>5. m \in 1..n /\ m - 1 \in 0..n /\ ~ (m <= m - 1)
    BY <1>0, <2>3, <2>4
  <2>6. Good(m - 1)
    <3>1. m - 1 \notin Bad
      <4> HIDE DEF Bad
      <4>. QED  BY <2>2, <2>5
    <3> HIDE DEF Good
    <3>. QED  BY <2>5, <3>1
  <2>. QED
    <3> HIDE DEF Good
    <3>. QED  BY <1>3, <2>3, <2>5, <2>6
<1>5. Good(n)
  <2>1. n \in 0..n
    BY <1>0
  <2> HIDE DEF Good
  <2>. QED  BY <1>4, <2>1
<1>. QED  BY <1>0, <1>1, <1>5

(* What a source gives of a flow.                                          *)
Given(flow, mask, q) ==
  CASE q = "flow" -> flow.as
    [] q = "flow-except-private" -> IF IsPrivate(flow.as) THEN 0 ELSE flow.as
    [] q = "flow-except-default-route" -> IF mask = 0 THEN 0 ELSE flow.as
    [] q = "routing" -> flow.route.as
    [] q = "routing-except-private" -> IF IsPrivate(flow.route.as) THEN 0 ELSE flow.route.as
    [] q = "networks" -> flow.net

(* An accepted flow has the AS number of the sources.                      *)
LEMMA EnrichedAS ==
  ASSUME NEW flow, ~ enrichFlow(flow, <<>>, <<>>).outcome.skip
  PROVE  LET o == enrichFlow(flow, <<>>, <<>>).outcome
         IN  o.as = getASNumber(flow.as, flow.route.as, flow.net, o.mask)
<1> DEFINE as == getASNumber(flow.as, flow.route.as, flow.net, getNetMask(flow.mask, flow.route.mask))
           o == enrichFlow(flow, <<>>, <<>>).outcome
<1>1. o = [skip |-> TRUE] \/ (o.mask = getNetMask(flow.mask, flow.route.mask) /\ o.as = as)
  <2> HIDE DEF as
  <2>. QED  BY DEF enrichFlow, as
<1> HIDE DEF o
<1>. QED  BY <1>1 DEF o

LEMMA FirstSource == EnrichInv => FirstSourceWins
<1> SUFFICES ASSUME EnrichInv, lastEnriched # <<>>, ~ lastEnriched.outcome.skip
             PROVE  FirstSourceWins
  BY DEF FirstSourceWins
<1> DEFINE flow == lastEnriched.flow
           o == lastEnriched.outcome
           G(q) == Given(flow, o.mask, q)
<1>1. o = enrichFlow(flow, <<>>, <<>>).outcome
  BY DEF EnrichInv, CachesTransparent
<1>2. o.as = getASNumber(flow.as, flow.route.as, flow.net, o.mask)
  <2> HIDE DEF flow
  <2>. QED  BY <1>1, EnrichedAS
<1>3. \A p \in DOMAIN ASNProviders :
        (G(ASNProviders[p]) # 0 /\ \A q \in 1..(p - 1) : G(ASNProviders[q]) = 0) => o.as = G(ASNProviders[p])
  <2> DEFINE value == [q \in ASNSources |-> G(q)]
  <2>1. getASNumber(flow.as, flow.route.as, flow.net, o.mask) = FirstOf(ASNProviders, value, 0)
    BY DEF getASNumber, Given
  <2> HIDE DEF G, o
  <2> TAKE p \in DOMAIN ASNProviders
  <2> HAVE G(ASNProviders[p]) # 0 /\ \A q \in 1..(p - 1) : G(ASNProviders[q]) = 0
  <2>2. \A q \in DOMAIN ASNProviders : value[ASNProviders[q]] = G(ASNProviders[q])
    BY EnrichmentAssumption
  <2>3. IsSequence(ASNProviders)
    BY EnrichmentAssumption
  <2>4. \A q \in 1..(p - 1) : q \in DOMAIN ASNProviders
    BY <2>3 DEF IsSequence
  <2> HIDE DEF value
  <2>5. FirstOf(ASNProviders, value, 0) = value[ASNProviders[p]]
    BY <2>2, <2>3, <2>4, FirstOfIsFirst
  <2>. QED  BY <1>2, <2>1, <2>2, <2>5
<1>. QED  BY <1>3 DEF FirstSourceWins, Given

(* What Classify does, rule after rule.                                    *)
ExecutesIn(after, rules, info, class, attributes) ==
  /\ after[0] = [class |-> class, stop |-> FALSE]
  /\ \A i \in 1..Len(rules) : after[i] = ExecNext(after[i - 1], rules[i], info, attributes)

LEMMA ClassifySteps ==
  ASSUME NEW rules, IsSequence(rules), NEW info, NEW class, NEW attributes
  PROVE  \E after : /\ Classify(rules, info, class, attributes) = after[Len(rules)].class
                    /\ ExecutesIn(after, rules, info, class, attributes)
<1> DEFINE first == [class |-> class, stop |-> FALSE]
           n == Len(rules)
           Step(g, i) == IF i = 0 THEN first ELSE ExecNext(g[i - 1], rules[i], info, attributes)
           Def(m, g) == [i \in 0..m |-> Step(g, i)]
           after == CHOOSE g : g = Def(n, g)
           Bad == {m \in 0..n : ~ \E g : g = Def(m, g)}
<1>0. n \in Nat
  BY DEF IsSequence
<1>1. Bad = {}
  <2>1. SUFFICES ASSUME Bad # {} PROVE FALSE
    OBVIOUS
  <2>2. PICK m \in Bad : \A k \in Bad : m <= k
    <3>1. Bad \in SUBSET Nat
      BY <1>0
    <3> HIDE DEF Bad
    <3>. QED  BY <2>1, <3>1, Least
  <2>3. m \in 0..n /\ ~ \E g : g = Def(m, g)
    OBVIOUS
  <2>4. CASE m = 0
    <3> DEFINE g == [i \in 0..0 |-> first]
    <3>1. g = Def(0, g)
      OBVIOUS
    <3> HIDE DEF g, Def
    <3>. QED  BY <2>3, <2>4, <3>1
  <2>5. CASE m # 0
    <3>1. m - 1 \in 0..n /\ m - 1 \notin Bad
      <4>1. m - 1 \in 0..n /\ m \in Nat /\ ~ (m <= m - 1)
        BY <1>0, <2>3, <2>5
      <4> HIDE DEF Bad
      <4>. QED  BY <2>2, <4>1
    <3>2. PICK h : h = Def(m - 1, h)
      <4> HIDE DEF Def
      <4>. QED  BY <3>1
    <3>3. \A i \in 0..(m - 1) : h[i] = Step(h, i)
      <4> HIDE DEF Step
      <4>. QED  BY <3>2
    <3> DEFINE last == ExecNext(h[m - 1], rules[m], info, attributes)
               g == [i \in 0..m |-> IF i = m THEN last ELSE h[i]]
    <3>4. /\ g = [i \in 0..m |-> g[i]] /\ g[m] = last
          /\ \A i \in 0..(m - 1) : g[i] = h[i]
      <4> HIDE DEF last
      <4>. QED  BY <1>0, <2>3
    <3> HIDE DEF g
    <3>5. ASSUME NEW i \in 0..m PROVE g[i] = Step(g, i)
      <4>1. CASE i = m
        <5>1. m - 1 \in 0..(m - 1)
          BY <1>0, <2>3, <2>5
        <5>. QED  BY <2>5, <3>4, <4>1, <5>1
      <4>2. CASE i # m
        <5>1. i \in 0..(m - 1) /\ (i # 0 => i - 1 \in 0..(m - 1))
          BY <1>0, <2>3, <4>2
        <5>2. g[i] = Step(h, i)
          BY <3>3, <3>4, <5>1
        <5>. QED  BY <3>4, <5>1, <5>2
      <4>. QED  BY <4>1, <4>2
    <3>6. g = Def(m, g)
      <4> HIDE DEF Step
      <4>. QED  BY <3>4, <3>5
    <3> HIDE DEF Def
    <3>. QED  BY <2>3, <3>6
  <2>. QED  BY <2>4, <2>5
<1>2. n \in 0..n
  BY <1>0
<1>3. after = Def(n, after)
  <2> HIDE DEF Def, n
  <2>. QED  BY <1>1, <1>2
<1>4. Classify(rules, info, class, attributes) = after[n].class
  BY DEF Classify
<1> HIDE DEF after, first
<1>5. \A i \in 0..n : after[i] = Step(after, i)
  <2> HIDE DEF Step, n
  <2>. QED  BY <1>3
<1>6. after[0] = first
  BY <1>0, <1>5
<1>7. ASSUME NEW i \in 1..n
      PROVE  after[i] = ExecNext(after[i - 1], rules[i], info, attributes)
  <2>1. i \in 0..n /\ i # 0
    BY <1>0
  <2>. QED  BY <1>5, <2>1
<1>8. ExecutesIn(after, rules, info, class, attributes)
  BY <1>6, <1>7 DEF ExecutesIn, first
<1>. QED  BY <1>4, <1>8

(* A rule decides of an attribute when it sets it and no rule fails before.*)
Decides(rules, info, a, j) ==
  /\ info \in rules[j].on
  /\ \A k \in 1..j : ~ Fails(rules[k], info)
  /\ a \in DOMAIN rules[j].sets /\ rules[j].sets[a] # ""

(* After i rules, the attribute has the value of the first that decides.   *)
Decided(rules, info, a, i, v) ==
  IF \E j \in 1..i : Decides(rules, info, a, j)
  THEN \E j \in 1..i : /\ Decides(rules, info, a, j) /\ v = rules[j].sets[a]
                       /\ \A k \in 1..i : Decides(rules, info, a, k) => j <= k
  ELSE v = ""

(* How far the rules went after i of them.                                 *)
Executed(rules, info, class, attributes, i, acc) ==
  /\ acc.class = [a \in DOMAIN class |-> acc.class[a]]
  /\ acc.stop => \/ \E j \in 1..i : Fails(rules[j], info)
                 \/ \A a \in attributes : acc.class[a] # ""
  /\ ~ acc.stop => \A j \in 1..i : ~ Fails(rules[j], info)
  /\ \A a \in attributes : Decided(rules, info, a, i, acc.class[a])

LEMMA OneRuleMore ==
  ASSUME NEW i \in Nat \ {0}
  PROVE  /\ \A j : j \in 1..i <=> j \in 1..(i - 1) \/ j = i
         /\ \A j \in 1..(i - 1) : j <= i
         /\ i \in 1..i /\ i <= i
  OBVIOUS

(* A rule that does not decide changes nothing.                            *)
LEMMA NotDeciding ==
  ASSUME NEW rules, NEW info, NEW a, NEW i \in Nat \ {0}, NEW v,
         Decided(rules, info, a, i - 1, v), ~ Decides(rules, info, a, i)
  PROVE  Decided(rules, info, a, i, v)
<1> DEFINE D(j) == Decides(rules, info, a, j)
           s(j) == rules[j].sets[a]
           I == 1..i
           J == 1..(i - 1)
<1>1. \A j : j \in I <=> j \in J \/ j = i
  BY Zenon, OneRuleMore
<1>2. ~ D(i)
  OBVIOUS
<1>3. /\ (\E j \in J : D(j)) => \E j \in J : D(j) /\ v = s(j) /\ \A k \in J : D(k) => j <= k
      /\ ~ (\E j \in J : D(j)) => v = ""
  BY DEF Decided
<1> HIDE DEF D, s, I, J
<1>4. CASE \E j \in J : D(j)
  <2>1. PICK j \in J : D(j) /\ v = s(j) /\ \A k \in J : D(k) => j <= k
    BY <1>3, <1>4
  <2>2. j \in I /\ D(j) /\ v = s(j) /\ \A k \in I : D(k) => j <= k
    BY <1>1, <1>2, <2>1
  <2>. QED  BY <2>2 DEF Decided, D, s, I
<1>5. CASE ~ \E j \in J : D(j)
  <2>1. v = ""
    BY <1>3, <1>5
  <2>2. ~ \E j \in I : D(j)
    BY <1>1, <1>2, <1>5
  <2>. QED  BY <2>1, <2>2 DEF Decided, D, s, I
<1>. QED  BY <1>4, <1>5

(* Nor does one that comes after another that does.                        *)
LEMMA AlreadyDecided ==
  ASSUME NEW rules, NEW info, NEW a, NEW i \in Nat \ {0}, NEW v,
         Decided(rules, info, a, i - 1, v), v # ""
  PROVE  Decided(rules, info, a, i, v)
<1> DEFINE D(j) == Decides(rules, info, a, j)
           s(j) == rules[j].sets[a]
           I == 1..i
           J == 1..(i - 1)
<1>1. /\ \A j : j \in I <=> j \in J \/ j = i
      /\ \A j \in J : j <= i
  BY Zenon, OneRuleMore
<1>2. PICK j \in J : D(j) /\ v = s(j) /\ \A k \in J : D(k) => j <= k
  BY DEF Decided
<1> HIDE DEF D, s, I, J
<1>3. j \in I /\ D(j) /\ v = s(j)
  BY <1>1, <1>2
<1>4. ASSUME NEW k \in I, D(k) PROVE j <= k
  <2>1. CASE k \in J
    BY <1>2, <1>4, <2>1
  <2>2. CASE k = i
    BY <1>1, <1>2, <2>2
  <2>. QED  BY <1>1, <2>1, <2>2
<1>. QED  BY <1>3, <1>4 DEF Decided, D, s, I

LEMMA NowDecided ==
  ASSUME NEW rules, NEW info, NEW a, NEW i \in Nat \ {0},
         Decided(rules, info, a, i - 1, ""), Decides(rules, info, a, i)
  PROVE  Decided(rules, info, a, i, rules[i].sets[a])
<1> DEFINE D(j) == Decides(rules, info, a, j)
           s(j) == rules[j].sets[a]
           I == 1..i
           J == 1..(i - 1)
<1>1. /\ \A j : j \in I <=> j \in J \/ j = i
      /\ i \in I /\ i <= i
  BY Zenon, OneRuleMore
<1>2. \A j \in J : ~ D(j)
  BY DEF Decided, Decides
<1>3. D(i)
  OBVIOUS
<1> HIDE DEF D, s, I, J
<1>4. ASSUME NEW k \in I, D(k) PROVE i <= k
  <2>1. k = i
    BY <1>1, <1>2, <1>4
  <2>. QED  BY <1>1, <2>1
<1>. QED  BY <1>1, <1>3, <1>4 DEF Decided, D, s, I

LEMMA NoneYet == 1..0 = {}
  OBVIOUS

(* The rules so far, and one more.                                         *)
LEMMA ExecutedNext ==
  ASSUME NEW rules, NEW info, NEW class, NEW attributes, "reject" \notin attributes,
         attributes \subseteq DOMAIN class,
         NEW i \in Nat \ {0}, NEW acc, Executed(rules, info, class, attributes, i - 1, acc)
  PROVE  Executed(rules, info, class, attributes, i, ExecNext(acc, rules[i], info, attributes))
<1> DEFINE D(a, j) == Decides(rules, info, a, j)
           F(j) == Fails(rules[j], info)
           next == ExecNext(acc, rules[i], info, attributes)
           I == 1..i
           J == 1..(i - 1)
<1>1. \A j : j \in I <=> j \in J \/ j = i
  BY Zenon, OneRuleMore
<1>2. /\ acc.class = [a \in DOMAIN class |-> acc.class[a]]
      /\ acc.stop => \/ \E j \in J : F(j)
                     \/ \A a \in attributes : acc.class[a] # ""
      /\ ~ acc.stop => \A j \in J : ~ F(j)
      /\ \A a \in attributes : Decided(rules, info, a, i - 1, acc.class[a])
  BY DEF Executed
<1>3. SUFFICES /\ next.class = [a \in DOMAIN class |-> next.class[a]]
               /\ next.stop => \/ \E j \in I : F(j)
                               \/ \A a \in attributes : next.class[a] # ""
               /\ ~ next.stop => \A j \in I : ~ F(j)
               /\ \A a \in attributes : Decided(rules, info, a, i, next.class[a])
  BY DEF Executed
<1>4. \A a : D(a, i) => \A j \in I : ~ F(j)
  BY DEF Decides
<1>5. CASE acc.stop
  <2>1. next = acc
    BY <1>5 DEF ExecNext
  <2>2. ASSUME NEW a \in attributes PROVE Decided(rules, info, a, i, acc.class[a])
    <3>1. CASE \E j \in J : F(j)
      <4>1. ~ D(a, i)
        <5> HIDE DEF D, F, I, J
        <5>. QED  BY <1>1, <1>4, <3>1
      <4>. QED  BY <1>2, <4>1, NotDeciding
    <3>2. CASE acc.class[a] # ""
      BY <1>2, <3>2, AlreadyDecided
    <3>. QED  BY <1>2, <1>5, <3>1, <3>2
  <2> HIDE DEF next, F, I, J
  <2>. QED  BY <1>1, <1>2, <1>5, <2>1, <2>2
<1>6. CASE ~ acc.stop /\ F(i)
  <2>1. next.class = acc.class /\ next.stop = TRUE
    BY <1>6 DEF ExecNext
  <2>2. ASSUME NEW a \in attributes PROVE Decided(rules, info, a, i, acc.class[a])
    <3>1. ~ D(a, i)
      <4> HIDE DEF D, F, I, J
      <4>. QED  BY <1>1, <1>4, <1>6
    <3>. QED  BY <1>2, <3>1, NotDeciding
  <2>3. i \in I
    BY <1>1
  <2> HIDE DEF next, F, I, J
  <2>. QED  BY <1>2, <1>6, <2>1, <2>2, <2>3
<1>7. CASE ~ acc.stop /\ ~ F(i)
  <2> DEFINE c == Exec(rules[i], info, acc.class)
             stop == \A a \in attributes : c[a] # ""
  <2>1. next = [class |-> c, stop |-> stop]
    BY <1>7 DEF ExecNext
  <2>2. DOMAIN acc.class = DOMAIN class
    BY <1>2
  <2>3. c = [a \in DOMAIN class |-> c[a]]
    BY <1>2, <2>2 DEF Exec
  <2>4. \A j \in I : ~ F(j)
    <3> HIDE DEF F, I, J
    <3>. QED  BY <1>1, <1>2, <1>7
  <2>5. ASSUME NEW a \in attributes PROVE Decided(rules, info, a, i, c[a])
    <3>0. a \in DOMAIN class /\ a # "reject" /\ Decided(rules, info, a, i - 1, acc.class[a])
      BY <1>2
    <3>1. D(a, i) <=> info \in rules[i].on /\ a \in DOMAIN rules[i].sets /\ rules[i].sets[a] # ""
      BY <2>4 DEF Decides
    <3>2. CASE D(a, i) /\ acc.class[a] = ""
      <4>1. c[a] = rules[i].sets[a]
        BY <2>2, <3>0, <3>1, <3>2 DEF Exec
      <4>. QED  BY <3>0, <3>2, <4>1, NowDecided
    <3>3. CASE acc.class[a] # ""
      <4>1. c[a] = acc.class[a]
        BY <2>2, <3>0, <3>3 DEF Exec
      <4>. QED  BY <3>0, <3>3, <4>1, AlreadyDecided
    <3>4. CASE ~ D(a, i) /\ acc.class[a] = ""
      <4>1. c[a] = acc.class[a]
        BY <2>2, <3>0, <3>1, <3>4 DEF Exec
      <4>. QED  BY <3>0, <3>4, <4>1, NotDeciding
    <3>. QED  BY <3>2, <3>3, <3>4
  <2> HIDE DEF c, next, F
  <2>6. next.class = c /\ next.stop = stop
    BY <2>1
  <2>. QED  BY <2>3, <2>4, <2>5, <2>6
<1>. QED  BY <1>5, <1>6, <1>7

(* Nothing is set yet.                                                     *)
Blank(class, attributes) ==
  /\ "reject" \notin attributes /\ attributes \subseteq DOMAIN class
  /\ class = [a \in DOMAIN class |-> class[a]]
  /\ \A a \in attributes : class[a] = ""

LEMMA BlankExecuted ==
  ASSUME NEW rules, NEW info, NEW class, NEW attributes, Blank(class, attributes),
         NEW acc, acc = [class |-> class, stop |-> FALSE]
  PROVE  Executed(rules, info, class, attributes, 0, acc)
<1>1. 1..0 = {}
  BY Zenon, NoneYet
<1>2. acc.class = class /\ acc.stop = FALSE
  OBVIOUS
<1>3. \A a \in attributes : Decided(rules, info, a, 0, class[a])
  BY <1>1 DEF Decided, Blank
<1>. QED  BY <1>1, <1>2, <1>3 DEF Executed, Blank

(* An attribute has the value of the first rule that decides.              *)
LEMMA ClassifyDecides ==
  ASSUME NEW rules, IsSequence(rules), NEW info, NEW class, NEW attributes, Blank(class, attributes)
  PROVE  LET c == Classify(rules, info, class, attributes)
         IN  /\ c = [a \in DOMAIN class |-> c[a]]
             /\ \A a \in attributes : Decided(rules, info, a, Len(rules), c[a])
<1> DEFINE n == Len(rules)
           c == Classify(rules, info, class, attributes)
<1>0. n \in Nat
  BY DEF IsSequence
<1>a. PICK after : c = after[n].class /\ ExecutesIn(after, rules, info, class, attributes)
  BY ClassifySteps
<1>1. /\ after[0] = [class |-> class, stop |-> FALSE]
      /\ \A i \in 1..n : after[i] = ExecNext(after[i - 1], rules[i], info, attributes)
  BY <1>a DEF ExecutesIn
<1> HIDE DEF c
<1> DEFINE Good(i) == Executed(rules, info, class, attributes, i, after[i])
           Bad == {i \in 0..n : ~ Good(i)}
<1>2. Good(0)
  BY <1>1, BlankExecuted
<1>3. ASSUME NEW i \in 1..n, Good(i - 1) PROVE Good(i)
  <2>1. i \in Nat \ {0} /\ after[i] = ExecNext(after[i - 1], rules[i], info, attributes)
    BY <1>0, <1>1
  <2>2. "reject" \notin attributes /\ attributes \subseteq DOMAIN class
    BY DEF Blank
  <2>. QED  BY <1>3, <2>1, <2>2, ExecutedNext
<1>4. Bad = {}
  <2>1. SUFFICES ASSUME Bad # {} PROVE FALSE
    OBVIOUS
  <2>2. PICK m \in Bad : \A k \in Bad : m <= k
    <3>1. Bad \in SUBSET Nat
      <4> HIDE DEF Good
      <4>. QED  BY <1>0
    <3> HIDE DEF Bad
    <3>. QED  BY <2>1, <3>1, Least
  <2>3. m \in 0..n /\ ~ Good(m)
    <3> HIDE DEF Good
    <3>. QED  OBVIOUS
  <2>4. m # 0
    <3> HIDE DEF Good
    <3>. QED  BY <1>2, <2>3
  <2>5. m \in 1..n /\ m - 1 \in 0..n /\ ~ (m <= m - 1)
    BY <1>0, <2>3, <2>4
  <2>6. Good(m - 1)
    <3>1. m - 1 \notin Bad
      <4> HIDE DEF Bad
      <4>. QED  BY <2>2, <2>5
    <3> HIDE DEF Good
    <3>. QED  BY <2>5, <3>1
  <2>. QED
    <3> HIDE DEF Good
    <3>. QED  BY <1>3, <2>3, <2>5, <2>6
<1>5. Good(n)
  <2>1. n \in 0..n
    BY <1>0
  <2> HIDE DEF Good
  <2>. QED  BY <1>4, <2>1
<1>. QED  BY <1>a, <1>5 DEF Executed, c

LEMMA FirstRule == EnrichInv => FirstRuleWins
<1> SUFFICES ASSUME EnrichInv, NEW key \in DOMAIN interfaceCache, NEW a \in InterfaceAttributes
             PROVE  LET applied == {i \in DOMAIN InterfaceRules :
                                      /\ key \in InterfaceRules[i].on
                                      /\ \A j \in 1..i : ~ Fails(InterfaceRules[j], key)
                                      /\ a \in DOMAIN InterfaceRules[i].sets
                                      /\ InterfaceRules[i].sets[a] # ""}
                    IN  interfaceCache[key][a] =
                          IF applied = {} THEN ""
                          ELSE InterfaceRules[CHOOSE i \in applied : \A j \in applied : i <= j].sets[a]
  BY DEF FirstRuleWins
<1> DEFINE class == NoInterfaceClass
           c == Classify(InterfaceRules, key, class, InterfaceAttributes)
           D(j) == Decides(InterfaceRules, key, a, j)
           n == Len(InterfaceRules)
           applied == {i \in DOMAIN InterfaceRules : D(i)}
           v == interfaceCache[key][a]
<1>0. n \in Nat /\ DOMAIN InterfaceRules = 1..n /\ IsSequence(InterfaceRules)
  BY EnrichmentAssumption DEF IsSequence
<1>1. /\ "reject" \notin InterfaceAttributes
      /\ DOMAIN class = InterfaceAttributes \cup {"name", "description", "reject"}
      /\ class = [x \in DOMAIN class |-> class[x]]
      /\ \A x \in InterfaceAttributes : class[x] = ""
  BY DEF NoInterfaceClass, NoClass, InterfaceAttributes
<1>2. c = [x \in DOMAIN class |-> c[x]] /\ \A x \in InterfaceAttributes : Decided(InterfaceRules, key, x, n, c[x])
  <2>1. Blank(class, InterfaceAttributes)
    BY <1>1 DEF Blank
  <2> HIDE DEF class
  <2>. QED  BY <1>0, <2>1, ClassifyDecides
<1>3. interfaceCache[key] = Named(c, key[2])
  BY DEF EnrichInv, InterfacesKept, InterfaceClassOf
<1>4. v = c[a]
  <2>1. a # "name" /\ a # "description" /\ a \in DOMAIN class
    BY <1>1 DEF InterfaceAttributes
  <2> HIDE DEF c, class
  <2>. QED  BY <1>2, <1>3, <2>1 DEF Named
<1>5. Decided(InterfaceRules, key, a, n, v)
  BY <1>2, <1>4
<1>6. /\ (\E j \in 1..n : D(j)) =>
           \E j \in 1..n : D(j) /\ v = InterfaceRules[j].sets[a] /\ \A k \in 1..n : D(k) => j <= k
      /\ ~ (\E j \in 1..n : D(j)) => v = ""
  BY <1>5 DEF Decided
<1> DEFINE first == CHOOSE i \in applied : \A j \in applied : i <= j
<1>7. v = IF applied = {} THEN "" ELSE InterfaceRules[first].sets[a]
  <2> HIDE DEF D, v
  <2>1. CASE \E j \in 1..n : D(j)
    <3>1. PICK j \in 1..n : D(j) /\ v = InterfaceRules[j].sets[a] /\ \A k \in 1..n : D(k) => j <= k
      BY <1>6, <2>1
    <3>2. j \in applied /\ \A k \in applied : j <= k
      BY <1>0, <3>1
    <3>3. \A i \in applied : (\A k \in applied : i <= k) => i = j
      <4>1. \A i \in applied : i \in 1..n
        BY <1>0
      <4> HIDE DEF applied
      <4>. QED  BY <1>0, <3>2, <4>1
    <3> HIDE DEF applied
    <3>4. first = j
      BY <3>2, <3>3
    <3>5. applied # {}
      BY <3>2
    <3> HIDE DEF first
    <3>. QED  BY <3>1, <3>4, <3>5
  <2>2. CASE ~ \E j \in 1..n : D(j)
    <3>1. applied = {}
      BY <1>0, <2>2
    <3> HIDE DEF applied
    <3>. QED  BY <1>6, <2>2, <3>1
  <2>. QED  BY <2>1, <2>2
<1>. QED  BY <1>7 DEF Decides

(* Whatever flows were enriched before, whatever the caches have kept of   *)
(* them and forgotten: what a flow gets is what the rules and the sources  *)
(* say of it alone (classifyExporter, classifyInterface), of the first rule*)
(* that decides and of the first source that knows (getASNumber), for all  *)
(* rules, all sources and all metadata.                                    *)
THEOREM EnrichmentIsRight == EnrichSpec => []EnrichmentRight
<1>1. EnrichInit => EnrichInv
  BY EnrichStarts
<1>2. EnrichInv /\ [EnrichNext]_enrichVars => EnrichInv'
  BY EnrichSteps
<1>3. EnrichInv => EnrichmentRight
  BY FirstRule, FirstSource DEF EnrichmentRight, EnrichInv
<1>. QED  BY <1>1, <1>2, <1>3, PTL DEF EnrichSpec

----------------------------------------------------------------------------
(* The batch of a worker.                                                  *)

(* What holds of 0, and of a number when it does of the one before.        *)
LEMMA UpTo ==
  ASSUME NEW n \in Nat, NEW S, 0 \in S, \A i \in 1..n : i - 1 \in S => i \in S
  PROVE  \A i \in 0..n : i \in S
<1> DEFINE Bad == {i \in 0..n : i \notin S}
<1>1. SUFFICES ASSUME Bad # {} PROVE FALSE
  OBVIOUS
<1>2. Bad \in SUBSET Nat
  OBVIOUS
<1>3. PICK m \in Bad : \A k \in Bad : m <= k
  <2> HIDE DEF Bad
  <2>. QED  BY <1>1, <1>2, Least
<1>4. m \in 1..n /\ m \notin S /\ m - 1 \in 0..n /\ ~ (m <= m - 1)
  OBVIOUS
<1>5. m - 1 \in S
  BY <1>3, <1>4
<1> QED
  BY <1>4, <1>5

(* A sequence, of anything.                                                *)
Plain(s) == Len(s) \in Nat /\ s = [i \in 1..Len(s) |-> s[i]]

LEMMA PlainSeq ==
  ASSUME NEW S, NEW s \in Seq(S)
  PROVE  Plain(s)
  BY DEF Plain

LEMMA PlainAppend ==
  ASSUME NEW s, Plain(s), NEW v
  PROVE  /\ Plain(Append(s, v)) /\ Len(Append(s, v)) = Len(s) + 1
         /\ Append(s, v)[Len(s) + 1] = v
         /\ \A i \in 1..Len(s) : Append(s, v)[i] = s[i]
<1> DEFINE S == {s[i] : i \in 1..Len(s)} \cup {v}
<1>1. s \in Seq(S)
  BY DEF Plain
<1>2. v \in S
  OBVIOUS
<1> HIDE DEF S
<1>3. /\ Append(s, v) \in Seq(S) /\ Len(Append(s, v)) = Len(s) + 1
      /\ Append(s, v)[Len(s) + 1] = v
      /\ \A i \in 1..Len(s) : Append(s, v)[i] = s[i]
  BY <1>1, <1>2, AppendProperties
<1>4. Plain(Append(s, v))
  BY <1>3, PlainSeq
<1> QED
  BY <1>3, <1>4

LEMMA PlainFront ==
  ASSUME NEW s, Plain(s), Len(s) > 0
  PROVE  /\ Plain(Front(s)) /\ Len(Front(s)) = Len(s) - 1
         /\ \A i \in 1..(Len(s) - 1) : Front(s)[i] = s[i]
<1> DEFINE S == {s[i] : i \in 1..Len(s)}
<1>1. s \in Seq(S)
  BY DEF Plain
<1>2. Len(s) - 1 \in Nat /\ Len(s) \in Nat
  BY DEF Plain
<1> HIDE DEF S
<1>3. Front(s) = [i \in 1..(Len(s) - 1) |-> s[i]]
  BY <1>1, <1>2, SubSeqProperties DEF Front
<1> QED
  BY <1>2, <1>3 DEF Plain

(* A flow message: a column has one value per row, and one more when the   *)
(* flow being built has set it.                                            *)
ColumnsInv(m) ==
  \A c \in Columns :
    Plain(m.columns[c]) /\ Len(m.columns[c]) = m.rows + (IF c \in m.set THEN 1 ELSE 0)

Built(fields, reversed, set, rows, columns, origin) ==
  [fields |-> fields, reversed |-> reversed, set |-> set, rows |-> rows, columns |-> columns,
   origin |-> origin]

Message(m) ==
  /\ m = Built(m.fields, m.reversed, m.set, m.rows, m.columns, m.origin)
  /\ m.fields = [f \in Fields |-> m.fields[f]]
  /\ m.reversed \in BOOLEAN /\ m.set \subseteq Columns /\ m.rows \in Nat
  /\ m.columns = [c \in Columns |-> m.columns[c]]
  /\ ColumnsInv(m)
  /\ Plain(m.origin) /\ Len(m.origin) = m.rows

(* The rows of the batch are left alone.                                   *)
RowsKept(m, n) ==
  /\ n.rows = m.rows /\ n.origin = m.origin
  /\ \A c \in Columns : \A r \in 1..m.rows : n.columns[c][r] = m.columns[c][r]

(* The value of a column that is set, for the flow being built.            *)
Now(m, c) == m.columns[c][m.rows + 1]

(* The same flow is built, on top of any batch.                            *)
Same(m, n) ==
  /\ m.fields = n.fields /\ m.reversed = n.reversed /\ m.set = n.set
  /\ \A c \in m.set : Now(m, c) = Now(n, c)

LEMMA NewIsMessage == Message(NewFlowMessage) /\ Clean(NewFlowMessage)
<1>1. Plain(<<>>) /\ Len(<<>>) = 0
  BY DEF Plain
<1> QED
  BY <1>1 DEF Message, ColumnsInv, NewFlowMessage, NoFields, Clean, Built

(* A record with the fields of a message.                                  *)
Shaped(m) == DOMAIN m = DOMAIN NewFlowMessage /\ m = [x \in DOMAIN m |-> m[x]]

LEMMA BuiltShaped ==
  ASSUME NEW a, NEW b, NEW c, NEW d, NEW e, NEW f
  PROVE  /\ Shaped(Built(a, b, c, d, e, f))
         /\ LET m == Built(a, b, c, d, e, f)
            IN  /\ m.fields = a /\ m.reversed = b /\ m.set = c /\ m.rows = d /\ m.columns = e
                /\ m.origin = f
  BY DEF Shaped, Built, NewFlowMessage

LEMMA ShapedBuilt ==
  ASSUME NEW m, Shaped(m)
  PROVE  m = Built(m.fields, m.reversed, m.set, m.rows, m.columns, m.origin)
  BY DEF Shaped, Built, NewFlowMessage

LEMMA WithColumns ==
  ASSUME NEW m, Message(m), NEW set, NEW columns
  PROVE  [m EXCEPT !.set = set, !.columns = columns] =
           Built(m.fields, m.reversed, set, m.rows, columns, m.origin)
<1> DEFINE n == [m EXCEPT !.set = set, !.columns = columns]
<1>1. /\ n.fields = m.fields /\ n.reversed = m.reversed /\ n.set = set /\ n.rows = m.rows
      /\ n.columns = columns /\ n.origin = m.origin
  BY DEF Message, Built
<1>2. Shaped(n)
  BY DEF Message, Built, Shaped, NewFlowMessage
<1> HIDE DEF n
<1>3. n = Built(m.fields, m.reversed, set, m.rows, columns, m.origin)
  BY <1>1, <1>2, ShapedBuilt
<1> QED
  BY <1>3 DEF n

LEMMA WithDirection ==
  ASSUME NEW m, Message(m), NEW reversed, NEW fields
  PROVE  [m EXCEPT !.reversed = reversed, !.fields = fields] =
           Built(fields, reversed, m.set, m.rows, m.columns, m.origin)
<1> DEFINE n == [m EXCEPT !.reversed = reversed, !.fields = fields]
<1>1. /\ n.fields = fields /\ n.reversed = reversed /\ n.set = m.set /\ n.rows = m.rows
      /\ n.columns = m.columns /\ n.origin = m.origin
  BY DEF Message, Built
<1>2. Shaped(n)
  BY DEF Message, Built, Shaped, NewFlowMessage
<1> HIDE DEF n
<1>3. n = Built(fields, reversed, m.set, m.rows, m.columns, m.origin)
  BY <1>1, <1>2, ShapedBuilt
<1> QED
  BY <1>3 DEF n

LEMMA RowsKeptTransitive ==
  ASSUME NEW m, NEW n, NEW o, RowsKept(m, n), RowsKept(n, o)
  PROVE  RowsKept(m, o)
  BY DEF RowsKept

(* What builds a flow, on a message and on two that build the same flow.   *)
LEMMA AppendColumnsKeeps ==
  ASSUME NEW m, Message(m), NEW values
  PROVE  Message(AppendColumns(m, values)) /\ RowsKept(m, AppendColumns(m, values))
<1> DEFINE key(c) == IF m.reversed THEN Mirror(c) ELSE c
           new == {c \in Columns \ m.set : key(c) \in DOMAIN values /\ values[key(c)] # None}
           n == AppendColumns(m, values)
<1>1. n = Built(m.fields, m.reversed, m.set \cup new, m.rows,
                [c \in Columns |-> IF c \in new THEN Append(m.columns[c], values[key(c)])
                                   ELSE m.columns[c]],
                m.origin)
  BY WithColumns DEF AppendColumns
<1> HIDE DEF n
<1>2. ASSUME NEW c \in Columns
      PROVE  /\ Plain(n.columns[c])
             /\ Len(n.columns[c]) = m.rows + (IF c \in n.set THEN 1 ELSE 0)
             /\ \A r \in 1..m.rows : n.columns[c][r] = m.columns[c][r]
  <2>1. Plain(m.columns[c]) /\ Len(m.columns[c]) = m.rows + (IF c \in m.set THEN 1 ELSE 0)
        /\ m.rows \in Nat
    BY DEF Message, ColumnsInv
  <2>2. CASE c \in new
    <3>1. n.columns[c] = Append(m.columns[c], values[key(c)]) /\ Len(m.columns[c]) = m.rows
          /\ c \in n.set
      BY <1>1, <2>1, <2>2 DEF Built
    <3> QED
      BY <2>1, <3>1, PlainAppend
  <2>3. CASE c \notin new
    <3>1. n.columns[c] = m.columns[c] /\ (c \in n.set <=> c \in m.set)
      BY <1>1, <2>3 DEF Built
    <3>2. \A r \in 1..m.rows : n.columns[c][r] = m.columns[c][r]
      BY <3>1
    <3> QED
      BY <2>1, <3>1, <3>2
  <2> QED
    BY <2>2, <2>3
<1>3. RowsKept(m, n)
  BY <1>1, <1>2 DEF RowsKept, Built
<1>4. Message(n)
  <2>0. n.rows = m.rows
    BY <1>1, BuiltShaped
  <2>1. ColumnsInv(n)
    BY <2>0, <1>2 DEF ColumnsInv
  <2> QED
    BY <1>1, <2>1 DEF Message, Built
<1> QED
  BY <1>3, <1>4 DEF n

LEMMA AppendColumnsSame ==
  ASSUME NEW m, Message(m), NEW n, Message(n), Same(m, n), NEW values
  PROVE  Same(AppendColumns(m, values), AppendColumns(n, values))
<1> DEFINE key(c) == IF m.reversed THEN Mirror(c) ELSE c
           new == {c \in Columns \ m.set : key(c) \in DOMAIN values /\ values[key(c)] # None}
           x == AppendColumns(m, values)
           y == AppendColumns(n, values)
<1>1. /\ x.fields = m.fields /\ x.reversed = m.reversed /\ x.set = m.set \cup new /\ x.rows = m.rows
      /\ x.columns = [c \in Columns |-> IF c \in new THEN Append(m.columns[c], values[key(c)])
                                        ELSE m.columns[c]]
  BY WithColumns DEF AppendColumns, Built
<1>2. /\ y.fields = m.fields /\ y.reversed = m.reversed /\ y.set = m.set \cup new /\ y.rows = n.rows
      /\ y.columns = [c \in Columns |-> IF c \in new THEN Append(n.columns[c], values[key(c)])
                                        ELSE n.columns[c]]
  BY WithColumns DEF AppendColumns, Same, Built
<1> HIDE DEF x, y
<1>3. ASSUME NEW c \in m.set \cup new
      PROVE  Now(x, c) = Now(y, c)
  <2>0. c \in Columns
    BY DEF Message
  <2>1. CASE c \in new
    <3>1. /\ Plain(m.columns[c]) /\ Len(m.columns[c]) = m.rows
          /\ Plain(n.columns[c]) /\ Len(n.columns[c]) = n.rows
      BY <2>0, <2>1 DEF Message, ColumnsInv, Same
    <3>2. x.columns[c] = Append(m.columns[c], values[key(c)])
          /\ y.columns[c] = Append(n.columns[c], values[key(c)])
      BY <1>1, <1>2, <2>0, <2>1
    <3>3. x.columns[c][m.rows + 1] = values[key(c)] /\ y.columns[c][n.rows + 1] = values[key(c)]
      BY <3>1, <3>2, PlainAppend
    <3> QED
      BY <1>1, <1>2, <3>3 DEF Now
  <2>2. CASE c \notin new
    BY <1>1, <1>2, <2>0, <2>2 DEF Now, Same
  <2> QED
    BY <2>1, <2>2
<1> QED
  BY <1>1, <1>2, <1>3 DEF Same, x, y

LEMMA SetFieldsKeeps ==
  ASSUME NEW m, Message(m), NEW values
  PROVE  Message(SetFields(m, values)) /\ RowsKept(m, SetFields(m, values))
  BY DEF Message, SetFields, RowsKept, ColumnsInv, Built

LEMMA SetFieldsSame ==
  ASSUME NEW m, Message(m), NEW n, Message(n), Same(m, n), NEW values
  PROVE  Same(SetFields(m, values), SetFields(n, values))
  BY DEF Message, SetFields, Same, Now, Built

LEMMA ReverseKeeps ==
  ASSUME NEW m, Message(m)
  PROVE  Message(Reverse_(m)) /\ RowsKept(m, Reverse_(m))
<1> DEFINE n == Reverse_(m)
<1>1. n = Built([f \in Fields |-> m.fields[Mirror(f)]], ~m.reversed, m.set, m.rows, m.columns,
                m.origin)
  BY WithDirection DEF Reverse_
<1> HIDE DEF n
<1>2. Message(n) /\ RowsKept(m, n)
  BY <1>1 DEF Message, RowsKept, ColumnsInv, Built
<1> QED
  BY <1>2 DEF n

LEMMA ReverseSame ==
  ASSUME NEW m, Message(m), NEW n, Message(n), Same(m, n)
  PROVE  Same(Reverse_(m), Reverse_(n))
<1>1. Reverse_(m) = Built([f \in Fields |-> m.fields[Mirror(f)]], ~m.reversed, m.set, m.rows, m.columns,
                          m.origin)
  BY WithDirection DEF Reverse_
<1>2. Reverse_(n) = Built([f \in Fields |-> n.fields[Mirror(f)]], ~n.reversed, n.set, n.rows, n.columns,
                          n.origin)
  BY WithDirection DEF Reverse_
<1> QED
  BY <1>1, <1>2 DEF Same, Now, Built

(* The ends of a flow: it is given up, or it is a row.                     *)
Ended(rows, columns, origin) == Built(NoFields, FALSE, {}, rows, columns, origin)

LEMMA ResetIs ==
  ASSUME NEW a, NEW b, NEW c, NEW rows, NEW columns, NEW origin, NEW m,
         m = Built(a, b, c, rows, columns, origin)
  PROVE  reset(m) = Ended(rows, columns, origin)
<1>1. /\ reset(m).fields = NoFields /\ reset(m).reversed = FALSE /\ reset(m).set = {}
      /\ reset(m).rows = rows /\ reset(m).columns = columns /\ reset(m).origin = origin
  BY DEF reset, Built
<1>2. Shaped(reset(m))
  BY DEF reset, Built, Shaped, NewFlowMessage
<1> QED
  BY <1>1, <1>2, ShapedBuilt DEF Ended

LEMMA EndedMessage ==
  ASSUME NEW rows \in Nat, NEW columns, NEW origin, Plain(origin), Len(origin) = rows,
         columns = [c \in Columns |-> columns[c]],
         \A c \in Columns : Plain(columns[c]) /\ Len(columns[c]) = rows
  PROVE  Message(Ended(rows, columns, origin)) /\ Clean(Ended(rows, columns, origin))
  BY DEF Message, Clean, Ended, NoFields, ColumnsInv, Built

LEMMA ResetMessage ==
  ASSUME NEW m, Message(m)
  PROVE  reset(m) = Ended(m.rows, m.columns, m.origin)
  BY ResetIs DEF Message

(* Two messages without a flow build the same one.                         *)
LEMMA CleanSame ==
  ASSUME NEW m, Message(m), Clean(m), NEW n, Message(n), Clean(n)
  PROVE  Same(m, n)
  BY DEF Message, Clean, Same

LEMMA UndoKeeps ==
  ASSUME NEW m, Message(m)
  PROVE  Message(Undo(m)) /\ RowsKept(m, Undo(m)) /\ Clean(Undo(m))
<1> DEFINE columns == [c \in Columns |-> IF c \in m.set THEN Front(m.columns[c]) ELSE m.columns[c]]
           n == Undo(m)
<1>1. [m EXCEPT !.columns = columns] =
        Built(m.fields, m.reversed, m.set, m.rows, columns, m.origin)
  <2> HIDE DEF columns
  <2> QED
    BY DEF Message, Built
<1>2. n = Ended(m.rows, columns, m.origin)
  <2>1. n = reset([m EXCEPT !.columns = columns])
    BY DEF Undo
  <2> HIDE DEF columns, n
  <2> QED
    BY <1>1, <2>1, ResetIs
<1>3. ASSUME NEW c \in Columns
      PROVE  /\ Plain(columns[c]) /\ Len(columns[c]) = m.rows
             /\ \A r \in 1..m.rows : columns[c][r] = m.columns[c][r]
  <2>1. Plain(m.columns[c]) /\ Len(m.columns[c]) = m.rows + (IF c \in m.set THEN 1 ELSE 0)
        /\ m.rows \in Nat
    BY DEF Message, ColumnsInv
  <2>2. CASE c \in m.set
    <3>1. columns[c] = Front(m.columns[c]) /\ Len(m.columns[c]) = m.rows + 1
          /\ Len(m.columns[c]) > 0 /\ Len(m.columns[c]) - 1 = m.rows
      BY <2>1, <2>2
    <3> QED
      BY <2>1, <3>1, PlainFront
  <2>3. CASE c \notin m.set
    <3>1. columns[c] = m.columns[c] /\ Len(m.columns[c]) = m.rows
      BY <2>1, <2>3
    <3> QED
      BY <2>1, <3>1
  <2> QED
    BY <2>2, <2>3
<1>4. Message(n) /\ Clean(n)
  <2>1. m.rows \in Nat /\ Plain(m.origin) /\ Len(m.origin) = m.rows
    BY DEF Message
  <2>2. columns = [c \in Columns |-> columns[c]]
    OBVIOUS
  <2> HIDE DEF columns, n
  <2> QED
    BY <1>2, <1>3, <2>1, <2>2, EndedMessage
<1>5. RowsKept(m, n)
  <2> HIDE DEF columns
  <2> QED
    BY <1>2, <1>3 DEF RowsKept, Ended, Built
<1> QED
  BY <1>4, <1>5

(* A row is added to m, with the values of the flow being built.           *)
RowAdded(m, n, origin) ==
  /\ n.rows = m.rows + 1 /\ n.origin = Append(m.origin, origin)
  /\ \A c \in Columns : \A r \in 1..m.rows : n.columns[c][r] = m.columns[c][r]

LEMMA CompleteRowKeeps ==
  ASSUME NEW m, Message(m), NEW origin
  PROVE  /\ Message(CompleteRow(m, origin)) /\ Clean(CompleteRow(m, origin))
         /\ RowAdded(m, CompleteRow(m, origin), origin)
         /\ \A c \in Columns :
              CompleteRow(m, origin).columns[c][m.rows + 1] = IF c \in m.set THEN Now(m, c) ELSE None
<1> DEFINE columns == [c \in Columns |-> IF c \in m.set THEN m.columns[c] ELSE Append(m.columns[c], None)]
           n == CompleteRow(m, origin)
<1>0. m.rows \in Nat /\ Plain(m.origin) /\ Len(m.origin) = m.rows
  BY DEF Message
<1>1. n = Ended(m.rows + 1, columns, Append(m.origin, origin))
  <2> DEFINE x == [m EXCEPT !.rows = m.rows + 1, !.origin = Append(m.origin, origin),
                            !.columns = columns]
  <2>1. n = reset(x)
    BY DEF CompleteRow, Message
  <2> HIDE DEF columns, n
  <2>2. /\ x.fields = m.fields /\ x.reversed = m.reversed /\ x.set = m.set /\ x.rows = m.rows + 1
        /\ x.columns = columns /\ x.origin = Append(m.origin, origin)
    BY DEF Message, Built
  <2>3. Shaped(x)
    BY DEF Message, Built, Shaped, NewFlowMessage
  <2> HIDE DEF x
  <2>4. x = Built(m.fields, m.reversed, m.set, m.rows + 1, columns, Append(m.origin, origin))
    BY <2>2, <2>3, ShapedBuilt
  <2> QED
    BY <2>1, <2>4, ResetIs
<1>2. ASSUME NEW c \in Columns
      PROVE  /\ Plain(columns[c]) /\ Len(columns[c]) = m.rows + 1
             /\ \A r \in 1..m.rows : columns[c][r] = m.columns[c][r]
             /\ columns[c][m.rows + 1] = IF c \in m.set THEN Now(m, c) ELSE None
  <2>1. Plain(m.columns[c]) /\ Len(m.columns[c]) = m.rows + (IF c \in m.set THEN 1 ELSE 0)
    BY DEF Message, ColumnsInv
  <2>2. CASE c \in m.set
    <3>1. columns[c] = m.columns[c] /\ Len(m.columns[c]) = m.rows + 1
      BY <2>1, <2>2
    <3> QED
      BY <2>1, <2>2, <3>1 DEF Now
  <2>3. CASE c \notin m.set
    <3>1. columns[c] = Append(m.columns[c], None) /\ Len(m.columns[c]) = m.rows
      BY <1>0, <2>1, <2>3
    <3> QED
      BY <2>1, <2>3, <3>1, PlainAppend
  <2> QED
    BY <2>2, <2>3
<1>3. Plain(Append(m.origin, origin)) /\ Len(Append(m.origin, origin)) = m.rows + 1
  BY <1>0, PlainAppend
<1>4. columns = [c \in Columns |-> columns[c]] /\ m.rows + 1 \in Nat
  BY <1>0
<1> HIDE DEF columns, n
<1>5. Message(n) /\ Clean(n)
  BY <1>1, <1>2, <1>3, <1>4, EndedMessage
<1>6. RowAdded(m, n, origin)
  BY <1>1, <1>2 DEF RowAdded, Ended, Built
<1>7. \A c \in Columns : n.columns[c][m.rows + 1] = IF c \in m.set THEN Now(m, c) ELSE None
  BY <1>1, <1>2 DEF Ended, Built
<1> QED
  BY <1>5, <1>6, <1>7 DEF n

LEMMA ClearKeeps ==
  ASSUME NEW m, Message(m)
  PROVE  Message(Clear(m)) /\ Clean(Clear(m)) /\ Clear(m).rows = 0
<1> DEFINE columns == [c \in Columns |-> <<>>]
           n == Clear(m)
<1>1. n = Ended(0, columns, <<>>)
  <2>1. n = [reset(m) EXCEPT !.rows = 0, !.columns = columns, !.origin = <<>>]
    BY DEF Clear
  <2>2. reset(m) = Built(NoFields, FALSE, {}, m.rows, m.columns, m.origin)
    BY ResetMessage DEF Ended
  <2> HIDE DEF n, columns
  <2>3. /\ n.fields = NoFields /\ n.reversed = FALSE /\ n.set = {} /\ n.rows = 0
        /\ n.columns = columns /\ n.origin = <<>>
    BY <2>1, <2>2 DEF Built
  <2>4. Shaped(n)
    BY <2>1, <2>2 DEF Built, Shaped, NewFlowMessage
  <2> QED
    BY <2>3, <2>4, ShapedBuilt DEF Ended
<1>2. Plain(<<>>) /\ Len(<<>>) = 0
  BY DEF Plain
<1>3. columns = [c \in Columns |-> columns[c]] /\ \A c \in Columns : columns[c] = <<>>
  OBVIOUS
<1> HIDE DEF columns, n
<1>4. Message(n) /\ Clean(n)
  BY <1>1, <1>2, <1>3, EndedMessage
<1> QED
  BY <1>1, <1>4 DEF n, Ended, Built

----------------------------------------------------------------------------
(* The decoders and the core component, on a message and on two that build *)
(* the same flow.                                                          *)
LEMMA AppendColumnKeeps ==
  ASSUME NEW m, Message(m), NEW key, NEW v
  PROVE  Message(AppendColumn(m, key, v)) /\ RowsKept(m, AppendColumn(m, key, v))
  BY AppendColumnsKeeps DEF AppendColumn

LEMMA AppendColumnSame ==
  ASSUME NEW m, Message(m), NEW n, Message(n), Same(m, n), NEW key, NEW v
  PROVE  Same(AppendColumn(m, key, v), AppendColumn(n, key, v))
  BY AppendColumnsSame DEF AppendColumn

LEMMA SetFieldKeeps ==
  ASSUME NEW m, Message(m), NEW f, NEW v
  PROVE  Message(SetField(m, f, v)) /\ RowsKept(m, SetField(m, f, v))
  BY SetFieldsKeeps DEF SetField

LEMMA SetFieldSame ==
  ASSUME NEW m, Message(m), NEW n, Message(n), Same(m, n), NEW f, NEW v
  PROVE  Same(SetField(m, f, v), SetField(n, f, v))
  BY SetFieldsSame DEF SetField

LEMMA FrameKeeps ==
  ASSUME NEW m, Message(m), NEW id, NEW f, NEW decap
  PROVE  Message(ApplyFrame(m, id, f, decap)) /\ RowsKept(m, ApplyFrame(m, id, f, decap))
<1> DEFINE cols == SampledHeaders[f, decap].cols
           value(c) == <<id, 100 + cols[c]>>
           fields == {"SrcAddr", "DstAddr", "SrcVlan", "DstVlan"}
           given == {c \in DOMAIN cols \cap fields : c \in {"SrcAddr", "DstAddr"} \/ m.fields[c] = None}
           x == SetFields(m, [c \in given |-> value(c)])
<1>1. ApplyFrame(m, id, f, decap) = AppendColumns(x, [c \in DOMAIN cols \ fields |-> value(c)])
  BY DEF ApplyFrame, ApplyHeader
<1>2. Message(x) /\ RowsKept(m, x)
  BY SetFieldsKeeps
<1> HIDE DEF cols, value, x, fields
<1> QED
  BY <1>1, <1>2, AppendColumnsKeeps, RowsKeptTransitive

LEMMA FrameSame ==
  ASSUME NEW m, Message(m), NEW n, Message(n), Same(m, n), NEW id, NEW f, NEW decap
  PROVE  Same(ApplyFrame(m, id, f, decap), ApplyFrame(n, id, f, decap))
<1> DEFINE cols == SampledHeaders[f, decap].cols
           value(c) == <<id, 100 + cols[c]>>
           fields == {"SrcAddr", "DstAddr", "SrcVlan", "DstVlan"}
           given == {c \in DOMAIN cols \cap fields : c \in {"SrcAddr", "DstAddr"} \/ m.fields[c] = None}
           x == SetFields(m, [c \in given |-> value(c)])
           y == SetFields(n, [c \in given |-> value(c)])
<1>1. ApplyFrame(m, id, f, decap) = AppendColumns(x, [c \in DOMAIN cols \ fields |-> value(c)])
  BY DEF ApplyFrame, ApplyHeader
<1>2. ApplyFrame(n, id, f, decap) = AppendColumns(y, [c \in DOMAIN cols \ fields |-> value(c)])
  <2>1. m.fields = n.fields
    BY DEF Same
  <2> QED
    BY <2>1 DEF ApplyFrame, ApplyHeader
<1>3. Message(x) /\ Message(y) /\ Same(x, y)
  BY SetFieldsKeeps, SetFieldsSame
<1> HIDE DEF cols, value, x, y, fields
<1> QED
  BY <1>1, <1>2, <1>3, AppendColumnsSame

(* finalizeFlow: the flow is given up, or added, or added and sent.        *)
RowOfFlow(m, c) ==
  LET x == WithNames(m)
      y == AppendColumns(x, [f \in Fields \ {"InIf", "OutIf"} |-> x.fields[f]])
  IN  IF c \in y.set THEN Now(y, c) ELSE None

LEMMA NamesKeeps ==
  ASSUME NEW m, Message(m)
  PROVE  Message(WithNames(m)) /\ RowsKept(m, WithNames(m))
  BY AppendColumnKeeps, RowsKeptTransitive DEF WithNames

LEMMA NamesSame ==
  ASSUME NEW m, Message(m), NEW n, Message(n), Same(m, n)
  PROVE  Same(WithNames(m), WithNames(n))
<1>1. m.fields["OutIf"] = n.fields["OutIf"] /\ m.fields["InIf"] = n.fields["InIf"]
  BY DEF Same
<1>2. /\ Message(AppendColumn(m, "OutIfName", m.fields["OutIf"]))
      /\ Message(AppendColumn(n, "OutIfName", m.fields["OutIf"]))
      /\ Same(AppendColumn(m, "OutIfName", m.fields["OutIf"]),
              AppendColumn(n, "OutIfName", m.fields["OutIf"]))
  BY AppendColumnKeeps, AppendColumnSame
<1> QED
  BY <1>1, <1>2, AppendColumnSame DEF WithNames

LEMMA RowSame ==
  ASSUME NEW m, Message(m), NEW n, Message(n), Same(m, n), NEW c \in Columns
  PROVE  RowOfFlow(m, c) = RowOfFlow(n, c)
<1> DEFINE x == WithNames(m)
           y == WithNames(n)
           values == [f \in Fields \ {"InIf", "OutIf"} |-> x.fields[f]]
<1>1. Message(x) /\ Message(y) /\ Same(x, y)
  BY NamesKeeps, NamesSame
<1> HIDE DEF x, y
<1>2. values = [f \in Fields \ {"InIf", "OutIf"} |-> y.fields[f]]
  BY <1>1 DEF Same
<1>3. Same(AppendColumns(x, values), AppendColumns(y, values))
  <2> HIDE DEF values
  <2> QED
    BY <1>1, AppendColumnsSame
<1>4. RowOfFlow(m, c) = IF c \in AppendColumns(x, values).set THEN Now(AppendColumns(x, values), c) ELSE None
  BY DEF RowOfFlow, x
<1>5. RowOfFlow(n, c) = IF c \in AppendColumns(y, values).set THEN Now(AppendColumns(y, values), c) ELSE None
  BY <1>2 DEF RowOfFlow, y
<1> HIDE DEF values
<1> QED
  BY <1>3, <1>4, <1>5 DEF Same

LEMMA FinalizeFlow ==
  ASSUME NEW m, Message(m), NEW verdict \in Verdicts, NEW origin
  PROVE  LET n == finalizeFlow(m, verdict, origin)
         IN  /\ Message(n) /\ Clean(n)
             /\ verdict \in {"limited", "skipped"} => RowsKept(m, n)
             /\ verdict = "added" =>
                  /\ RowAdded(m, n, origin)
                  /\ \A c \in Columns : n.columns[c][m.rows + 1] = RowOfFlow(m, c)
             /\ verdict = "sent" => n.rows = 0
<1> DEFINE n == finalizeFlow(m, verdict, origin)
           x == WithNames(m)
           values == [f \in Fields \ {"InIf", "OutIf"} |-> x.fields[f]]
           y == AppendColumns(x, values)
           z == CompleteRow(y, origin)
<1>1. Message(x) /\ RowsKept(m, x)
  BY NamesKeeps
<1>2. Message(y) /\ RowsKept(m, y)
  <2> HIDE DEF x, values
  <2> QED
    BY <1>1, AppendColumnsKeeps, RowsKeptTransitive
<1>3. \A c \in Columns : RowOfFlow(m, c) = IF c \in y.set THEN Now(y, c) ELSE None
  BY DEF RowOfFlow
<1>4. Finalize(x, origin) = z
  BY DEF Finalize
<1> HIDE DEF y
<1>5. /\ Message(z) /\ Clean(z) /\ RowAdded(m, z, origin)
      /\ \A c \in Columns : z.columns[c][m.rows + 1] = RowOfFlow(m, c)
  <2>1. /\ Message(z) /\ Clean(z) /\ RowAdded(y, z, origin)
        /\ \A c \in Columns : z.columns[c][y.rows + 1] = IF c \in y.set THEN Now(y, c) ELSE None
    BY <1>2, CompleteRowKeeps
  <2>2. RowAdded(m, z, origin)
    BY <1>2, <2>1 DEF RowAdded, RowsKept
  <2> QED
    BY <1>2, <1>3, <2>1, <2>2 DEF RowsKept
<1> HIDE DEF x, z
<1>6. CASE verdict = "limited"
  <2>1. n = Undo(m)
    BY <1>6 DEF finalizeFlow
  <2> QED
    BY <1>6, <2>1, UndoKeeps
<1>7. CASE verdict = "skipped"
  <2>1. n = Undo(x)
    BY <1>7 DEF finalizeFlow, Enriched, x
  <2> QED
    BY <1>1, <1>7, <2>1, UndoKeeps, RowsKeptTransitive
<1>8. CASE verdict = "added"
  <2>1. n = z
    BY <1>4, <1>8 DEF finalizeFlow, Enriched, x
  <2> QED
    BY <1>5, <1>8, <2>1
<1>9. CASE verdict = "sent"
  <2>1. n = Clear(z)
    BY <1>4, <1>9 DEF finalizeFlow, Enriched, x
  <2> QED
    BY <1>5, <1>9, <2>1, ClearKeeps
<1> QED
  BY <1>6, <1>7, <1>8, <1>9 DEF Verdicts

----------------------------------------------------------------------------
(* A pass on the fields of a record, that started with the message m: it   *)
(* stops once it has given the flow up.                                    *)
Pass(m, etype, mpls, decapOK, stop) ==
  [m |-> m, etype |-> etype, mpls |-> mpls, decapOK |-> decapOK, stop |-> stop]

PassInv(d, m) ==
  /\ d = Pass(d.m, d.etype, d.mpls, d.decapOK, d.stop)
  /\ Message(d.m) /\ RowsKept(m, d.m)
  /\ d.stop => Clean(d.m)

PassSame(d, e) ==
  /\ d.etype = e.etype /\ d.mpls = e.mpls /\ d.decapOK = e.decapOK /\ d.stop = e.stop
  /\ Same(d.m, e.m)

(* The fields of d.                                                        *)
PassShaped(d) ==
  DOMAIN d = {"m", "etype", "mpls", "decapOK", "stop"} /\ d = [x \in DOMAIN d |-> d[x]]

LEMMA ShapedPass ==
  ASSUME NEW d, PassShaped(d)
  PROVE  d = Pass(d.m, d.etype, d.mpls, d.decapOK, d.stop)
  BY DEF PassShaped, Pass

LEMMA WithMessage ==
  ASSUME NEW d, d = Pass(d.m, d.etype, d.mpls, d.decapOK, d.stop), NEW n, NEW v
  PROVE  /\ [d EXCEPT !.m = n] = Pass(n, d.etype, d.mpls, d.decapOK, d.stop)
         /\ [d EXCEPT !.mpls = v] = Pass(d.m, d.etype, v, d.decapOK, d.stop)
  BY DEF Pass

LEMMA WithStop ==
  ASSUME NEW d, d = Pass(d.m, d.etype, d.mpls, d.decapOK, d.stop), NEW n
  PROVE  [d EXCEPT !.m = n, !.stop = TRUE] = Pass(n, d.etype, d.mpls, d.decapOK, TRUE)
<1> DEFINE e == [d EXCEPT !.m = n, !.stop = TRUE]
<1>1. /\ e.m = n /\ e.etype = d.etype /\ e.mpls = d.mpls /\ e.decapOK = d.decapOK /\ e.stop = TRUE
  BY DEF Pass
<1>2. PassShaped(e)
  BY DEF PassShaped, Pass
<1> HIDE DEF e
<1>3. e = Pass(n, d.etype, d.mpls, d.decapOK, TRUE)
  BY <1>1, <1>2, ShapedPass
<1> QED
  BY <1>3 DEF e

LEMMA WithTunnel ==
  ASSUME NEW d, d = Pass(d.m, d.etype, d.mpls, d.decapOK, d.stop), NEW n
  PROVE  [d EXCEPT !.decapOK = TRUE, !.m = n] = Pass(n, d.etype, d.mpls, TRUE, d.stop)
<1> DEFINE e == [d EXCEPT !.decapOK = TRUE, !.m = n]
<1>1. /\ e.m = n /\ e.etype = d.etype /\ e.mpls = d.mpls /\ e.decapOK = TRUE /\ e.stop = d.stop
  BY DEF Pass
<1>2. PassShaped(e)
  BY DEF PassShaped, Pass
<1> HIDE DEF e
<1>3. e = Pass(n, d.etype, d.mpls, TRUE, d.stop)
  BY <1>1, <1>2, ShapedPass
<1> QED
  BY <1>3 DEF e

LEMMA WithType ==
  ASSUME NEW d, d = Pass(d.m, d.etype, d.mpls, d.decapOK, d.stop), NEW n, NEW v
  PROVE  [d EXCEPT !.m = n, !.etype = v] = Pass(n, v, d.mpls, d.decapOK, d.stop)
<1> DEFINE e == [d EXCEPT !.m = n, !.etype = v]
<1>1. /\ e.m = n /\ e.etype = v /\ e.mpls = d.mpls /\ e.decapOK = d.decapOK /\ e.stop = d.stop
  BY DEF Pass
<1>2. PassShaped(e)
  BY DEF PassShaped, Pass
<1> HIDE DEF e
<1>3. e = Pass(n, v, d.mpls, d.decapOK, d.stop)
  BY <1>1, <1>2, ShapedPass
<1> QED
  BY <1>3 DEF e

LEMMA PassOf ==
  ASSUME NEW n, NEW e, NEW l, NEW k, NEW s
  PROVE  LET d == Pass(n, e, l, k, s)
         IN  d.m = n /\ d.etype = e /\ d.mpls = l /\ d.decapOK = k /\ d.stop = s
  BY DEF Pass

(* A step of a pass that has not stopped gives a message where the rows    *)
(* are left alone.                                                         *)
LEMMA PassGoesOn ==
  ASSUME NEW d, NEW m, PassInv(d, m), ~d.stop, NEW n, Message(n), RowsKept(d.m, n),
         NEW e, NEW l, NEW k
  PROVE  PassInv(Pass(n, e, l, k, d.stop), m)
  BY PassOf, RowsKeptTransitive DEF PassInv

(* Each type is of one kind.                                               *)
Addresses == {"sourceIPv4Address", "destinationIPv4Address"}

LEMMA KindsOfTypes ==
  /\ Addresses \subseteq DOMAIN PublicField
  /\ DOMAIN PublicField \cap (DOMAIN FallbackField \cup DOMAIN ColumnField) = {}
  /\ DOMAIN FallbackField \cap DOMAIN ColumnField = {}
  /\ "dataLinkFrameSection" \notin DOMAIN PublicField \cup DOMAIN FallbackField \cup DOMAIN ColumnField
  /\ "mplsTopLabelStackSection" \notin DOMAIN PublicField \cup DOMAIN FallbackField \cup DOMAIN ColumnField
<1>1. DOMAIN FallbackField =
        {"ingressPhysicalInterface", "egressPhysicalInterface", "vlanId", "postVlanId"}
  BY DEF FallbackField
<1>2. DOMAIN PublicField =
        {"sourceIPv4Address", "destinationIPv4Address", "ipNextHopIPv4Address", "bgpSourceAsNumber",
         "bgpDestinationAsNumber", "ingressInterface", "egressInterface", "samplerId"}
  BY DEF PublicField
<1>3. DOMAIN ColumnField =
        {"octetDeltaCount", "packetDeltaCount", "protocolIdentifier", "sourceTransportPort",
         "destinationTransportPort", "sourceMacAddress", "destinationMacAddress", "forwardingStatus",
         "postNATSourceIPv4Address"}
  BY DEF ColumnField
<1> QED
  BY <1>1, <1>2, <1>3 DEF Addresses

(* What a field of each kind does, in a pass that goes on.                 *)
FieldIs(n, d, id, f, decap) ==
  LET v == IF f.n = 0 THEN None ELSE <<id, f.n>>
      frame == ApplyFrame(d.m, id, f.frame, decap)
      counted == AppendColumn(AppendColumn(frame, "Bytes", <<id, 200>>), "Packets", <<id, 201>>)
      public == SetField(d.m, PublicField[f.type], v)
      fallback == SetField(d.m, FallbackField[f.type], v)
      column == AppendColumn(d.m, ColumnField[f.type], v)
      labels == IF d.mpls = None THEN v ELSE d.mpls
  IN  /\ f.type = "dataLinkFrameSection" =>
           n = IF SampledHeaders[f.frame, decap].l3 = 0
               THEN Pass(frame, d.etype, d.mpls, d.decapOK, d.stop)
               ELSE Pass(counted, d.etype, d.mpls, TRUE, d.stop)
      /\ f.type \in Addresses =>
           n = IF v = None THEN d ELSE Pass(public, <<id, 4>>, d.mpls, d.decapOK, d.stop)
      /\ f.type \in DOMAIN PublicField \ Addresses => n = Pass(public, d.etype, d.mpls, d.decapOK, d.stop)
      /\ f.type \in DOMAIN FallbackField =>
           n = IF d.m.fields[FallbackField[f.type]] # None THEN d
               ELSE Pass(fallback, d.etype, d.mpls, d.decapOK, d.stop)
      /\ f.type = "mplsTopLabelStackSection" =>
           n = IF v = None THEN d ELSE Pass(d.m, d.etype, labels, d.decapOK, d.stop)
      /\ f.type \in DOMAIN ColumnField => n = Pass(column, d.etype, d.mpls, d.decapOK, d.stop)

LEMMA DecodeFieldIs ==
  ASSUME NEW d, d = Pass(d.m, d.etype, d.mpls, d.decapOK, d.stop), ~d.stop,
         NEW id, NEW f, NEW dir, NEW decap,
         ~(f.type = "packetDeltaCount" /\ dir = "reverse" /\ f.n = 0)
  PROVE  FieldIs(DecodeField(d, id, f, dir, decap), d, id, f, decap)
<1> DEFINE v == IF f.n = 0 THEN None ELSE <<id, f.n>>
           n == DecodeField(d, id, f, dir, decap)
           frame == ApplyFrame(d.m, id, f.frame, decap)
           counted == AppendColumn(AppendColumn(frame, "Bytes", <<id, 200>>), "Packets", <<id, 201>>)
           length == SampledHeaders[f.frame, decap].l3
           public == SetField(d.m, PublicField[f.type], v)
           fallback == SetField(d.m, FallbackField[f.type], v)
           column == AppendColumn(d.m, ColumnField[f.type], v)
<1>1. n = CASE f.type = "dataLinkFrameSection" ->
                 IF length = 0 THEN [d EXCEPT !.m = frame] ELSE [d EXCEPT !.decapOK = TRUE, !.m = counted]
            [] f.type \in Addresses ->
                 IF v = None THEN d ELSE [d EXCEPT !.m = public, !.etype = <<id, 4>>]
            [] f.type \in DOMAIN PublicField \ Addresses -> [d EXCEPT !.m = public]
            [] f.type \in DOMAIN FallbackField ->
                 IF d.m.fields[FallbackField[f.type]] # None THEN d ELSE [d EXCEPT !.m = fallback]
            [] f.type = "mplsTopLabelStackSection" ->
                 IF v = None THEN d ELSE [d EXCEPT !.mpls = IF d.mpls = None THEN v ELSE d.mpls]
            [] f.type \in DOMAIN ColumnField -> [d EXCEPT !.m = column]
  BY DEF DecodeField, Addresses
<1> HIDE DEF n, frame, counted, length, public, fallback, column
<1>2. n = CASE f.type = "dataLinkFrameSection" ->
                 IF length = 0 THEN Pass(frame, d.etype, d.mpls, d.decapOK, d.stop)
                 ELSE Pass(counted, d.etype, d.mpls, TRUE, d.stop)
            [] f.type \in Addresses ->
                 IF v = None THEN d ELSE Pass(public, <<id, 4>>, d.mpls, d.decapOK, d.stop)
            [] f.type \in DOMAIN PublicField \ Addresses -> Pass(public, d.etype, d.mpls, d.decapOK, d.stop)
            [] f.type \in DOMAIN FallbackField ->
                 IF d.m.fields[FallbackField[f.type]] # None THEN d
                 ELSE Pass(fallback, d.etype, d.mpls, d.decapOK, d.stop)
            [] f.type = "mplsTopLabelStackSection" ->
                 IF v = None THEN d
                 ELSE Pass(d.m, d.etype, IF d.mpls = None THEN v ELSE d.mpls, d.decapOK, d.stop)
            [] f.type \in DOMAIN ColumnField -> Pass(column, d.etype, d.mpls, d.decapOK, d.stop)
  <2> HIDE DEF v
  <2>1. [d EXCEPT !.mpls = IF d.mpls = None THEN v ELSE d.mpls] =
          Pass(d.m, d.etype, IF d.mpls = None THEN v ELSE d.mpls, d.decapOK, d.stop)
    BY WithMessage
  <2>2. /\ [d EXCEPT !.m = frame] = Pass(frame, d.etype, d.mpls, d.decapOK, d.stop)
        /\ [d EXCEPT !.m = public] = Pass(public, d.etype, d.mpls, d.decapOK, d.stop)
        /\ [d EXCEPT !.m = fallback] = Pass(fallback, d.etype, d.mpls, d.decapOK, d.stop)
        /\ [d EXCEPT !.m = column] = Pass(column, d.etype, d.mpls, d.decapOK, d.stop)
    BY WithMessage
  <2>3. [d EXCEPT !.decapOK = TRUE, !.m = counted] = Pass(counted, d.etype, d.mpls, TRUE, d.stop)
    BY WithTunnel, Zenon
  <2>4. [d EXCEPT !.m = public, !.etype = <<id, 4>>] = Pass(public, <<id, 4>>, d.mpls, d.decapOK, d.stop)
    BY WithType, Zenon
  <2> QED
    BY <1>1, <2>1, <2>2, <2>3, <2>4
<1> HIDE DEF v
<1>3. /\ f.type = "dataLinkFrameSection" =>
           n = IF length = 0 THEN Pass(frame, d.etype, d.mpls, d.decapOK, d.stop)
               ELSE Pass(counted, d.etype, d.mpls, TRUE, d.stop)
      /\ f.type \in Addresses =>
           n = IF v = None THEN d ELSE Pass(public, <<id, 4>>, d.mpls, d.decapOK, d.stop)
      /\ f.type \in DOMAIN PublicField \ Addresses => n = Pass(public, d.etype, d.mpls, d.decapOK, d.stop)
      /\ f.type \in DOMAIN FallbackField =>
           n = IF d.m.fields[FallbackField[f.type]] # None THEN d
               ELSE Pass(fallback, d.etype, d.mpls, d.decapOK, d.stop)
      /\ f.type = "mplsTopLabelStackSection" =>
           n = IF v = None THEN d
               ELSE Pass(d.m, d.etype, IF d.mpls = None THEN v ELSE d.mpls, d.decapOK, d.stop)
      /\ f.type \in DOMAIN ColumnField => n = Pass(column, d.etype, d.mpls, d.decapOK, d.stop)
  BY <1>2, KindsOfTypes
<1> QED
  BY <1>3 DEF FieldIs, n, frame, counted, length, public, fallback, column, v

LEMMA DecodeFieldKeeps ==
  ASSUME NEW d, NEW m, PassInv(d, m), NEW id, NEW f, f.type \in FieldTypes, NEW dir, NEW decap
  PROVE  PassInv(DecodeField(d, id, f, dir, decap), m)
<1> DEFINE v == IF f.n = 0 THEN None ELSE <<id, f.n>>
           n == DecodeField(d, id, f, dir, decap)
           frame == ApplyFrame(d.m, id, f.frame, decap)
           bytes == AppendColumn(frame, "Bytes", <<id, 200>>)
           counted == AppendColumn(bytes, "Packets", <<id, 201>>)
           length == SampledHeaders[f.frame, decap].l3
           public == SetField(d.m, PublicField[f.type], v)
           fallback == SetField(d.m, FallbackField[f.type], v)
           column == AppendColumn(d.m, ColumnField[f.type], v)
           gone == f.type = "packetDeltaCount" /\ dir = "reverse" /\ f.n = 0
<1> SUFFICES PassInv(n, m)
  OBVIOUS
<1>0. Message(d.m) /\ RowsKept(d.m, d.m) /\ d = Pass(d.m, d.etype, d.mpls, d.decapOK, d.stop)
  BY DEF PassInv, RowsKept
<1>1. CASE d.stop
  BY <1>1 DEF DecodeField
<1>2. CASE ~d.stop /\ gone
  <2>1. n = [d EXCEPT !.m = Undo(d.m), !.stop = TRUE]
    BY <1>2 DEF DecodeField
  <2>2. n = Pass(Undo(d.m), d.etype, d.mpls, d.decapOK, TRUE)
    <3> HIDE DEF n
    <3> QED
      BY <1>0, <2>1, WithStop, Zenon
  <2>3. Message(Undo(d.m)) /\ RowsKept(d.m, Undo(d.m)) /\ Clean(Undo(d.m))
    BY <1>0, UndoKeeps
  <2>4. RowsKept(m, Undo(d.m))
    BY <2>3, RowsKeptTransitive DEF PassInv
  <2> HIDE DEF n
  <2>5. n = Pass(n.m, n.etype, n.mpls, n.decapOK, n.stop) /\ n.m = Undo(d.m)
    BY <2>2 DEF Pass
  <2> QED
    BY <2>3, <2>4, <2>5 DEF PassInv
<1>3. CASE ~d.stop /\ ~gone
  <2>0. FieldIs(n, d, id, f, decap)
    BY <1>0, <1>3, DecodeFieldIs
  <2>1. /\ f.type = "dataLinkFrameSection" =>
             n = IF length = 0 THEN Pass(frame, d.etype, d.mpls, d.decapOK, d.stop)
                 ELSE Pass(counted, d.etype, d.mpls, TRUE, d.stop)
        /\ f.type \in Addresses =>
             n = IF v = None THEN d ELSE Pass(public, <<id, 4>>, d.mpls, d.decapOK, d.stop)
        /\ f.type \in DOMAIN PublicField \ Addresses => n = Pass(public, d.etype, d.mpls, d.decapOK, d.stop)
        /\ f.type \in DOMAIN FallbackField =>
             n = IF d.m.fields[FallbackField[f.type]] # None THEN d
                 ELSE Pass(fallback, d.etype, d.mpls, d.decapOK, d.stop)
        /\ f.type = "mplsTopLabelStackSection" =>
             n = IF v = None THEN d
                 ELSE Pass(d.m, d.etype, IF d.mpls = None THEN v ELSE d.mpls, d.decapOK, d.stop)
        /\ f.type \in DOMAIN ColumnField => n = Pass(column, d.etype, d.mpls, d.decapOK, d.stop)
    BY <2>0 DEF FieldIs
  <2>2. Message(frame) /\ RowsKept(d.m, frame)
    BY <1>0, FrameKeeps
  <2>3. Message(counted) /\ RowsKept(d.m, counted)
    <3> HIDE DEF frame
    <3>1. Message(bytes) /\ RowsKept(frame, bytes)
      BY <2>2, AppendColumnKeeps
    <3> HIDE DEF bytes
    <3>2. Message(counted) /\ RowsKept(bytes, counted)
      BY <3>1, AppendColumnKeeps
    <3> QED
      BY <2>2, <3>1, <3>2, RowsKeptTransitive
  <2>4. /\ Message(public) /\ RowsKept(d.m, public) /\ Message(fallback) /\ RowsKept(d.m, fallback)
        /\ Message(column) /\ RowsKept(d.m, column)
    BY <1>0, SetFieldKeeps, AppendColumnKeeps
  <2>5. n = d \/ \E x \in {frame, counted, public, fallback, column, d.m} :
                   \E e, l, k : n = Pass(x, e, l, k, d.stop)
    <3> HIDE DEF n, v, frame, counted, length, public, fallback, column
    <3> QED
      BY <2>1 DEF FieldTypes
  <2> HIDE DEF n, v, frame, counted, length, public, fallback, column
  <2> QED
    BY <1>0, <1>3, <2>2, <2>3, <2>4, <2>5, PassGoesOn
<1> QED
  BY <1>1, <1>2, <1>3

LEMMA DecodeFieldSame ==
  ASSUME NEW d, NEW m, PassInv(d, m), NEW e, NEW n, PassInv(e, n), PassSame(d, e),
         NEW id, NEW f, f.type \in FieldTypes, NEW dir, NEW decap
  PROVE  PassSame(DecodeField(d, id, f, dir, decap), DecodeField(e, id, f, dir, decap))
<1> DEFINE v == IF f.n = 0 THEN None ELSE <<id, f.n>>
           x == DecodeField(d, id, f, dir, decap)
           y == DecodeField(e, id, f, dir, decap)
           frame(z) == ApplyFrame(z, id, f.frame, decap)
           bytes(z) == AppendColumn(frame(z), "Bytes", <<id, 200>>)
           counted(z) == AppendColumn(bytes(z), "Packets", <<id, 201>>)
           length == SampledHeaders[f.frame, decap].l3
           public(z) == SetField(z, PublicField[f.type], v)
           fallback(z) == SetField(z, FallbackField[f.type], v)
           column(z) == AppendColumn(z, ColumnField[f.type], v)
           gone == f.type = "packetDeltaCount" /\ dir = "reverse" /\ f.n = 0
<1> SUFFICES PassSame(x, y)
  OBVIOUS
<1>0. /\ Message(d.m) /\ d = Pass(d.m, d.etype, d.mpls, d.decapOK, d.stop)
      /\ Message(e.m) /\ e = Pass(e.m, e.etype, e.mpls, e.decapOK, e.stop)
      /\ Same(d.m, e.m) /\ d.stop = e.stop /\ d.etype = e.etype /\ d.mpls = e.mpls
      /\ d.decapOK = e.decapOK /\ d.m.fields = e.m.fields
  BY DEF PassInv, PassSame, Same
<1>1. CASE d.stop
  BY <1>0, <1>1 DEF DecodeField, PassSame
<1>2. CASE ~d.stop /\ gone
  <2>1. x = [d EXCEPT !.m = Undo(d.m), !.stop = TRUE] /\ y = [e EXCEPT !.m = Undo(e.m), !.stop = TRUE]
    BY <1>0, <1>2 DEF DecodeField
  <2>2. x = Pass(Undo(d.m), d.etype, d.mpls, d.decapOK, TRUE)
    <3> HIDE DEF x
    <3> QED
      BY <1>0, <2>1, WithStop, Zenon
  <2>3. y = Pass(Undo(e.m), e.etype, e.mpls, e.decapOK, TRUE)
    <3> HIDE DEF y
    <3> QED
      BY <1>0, <2>1, WithStop, Zenon
  <2>4. Same(Undo(d.m), Undo(e.m))
    BY <1>0, UndoKeeps, CleanSame
  <2> HIDE DEF x, y
  <2>5. /\ x.m = Undo(d.m) /\ x.etype = d.etype /\ x.mpls = d.mpls /\ x.decapOK = d.decapOK /\ x.stop
        /\ y.m = Undo(e.m) /\ y.etype = e.etype /\ y.mpls = e.mpls /\ y.decapOK = e.decapOK /\ y.stop
    BY <2>2, <2>3 DEF Pass
  <2> QED
    BY <1>0, <2>3, <2>4, <2>5 DEF PassSame, Pass
<1>3. CASE ~d.stop /\ ~gone
  <2>0. FieldIs(x, d, id, f, decap) /\ FieldIs(y, e, id, f, decap)
    BY <1>0, <1>3, DecodeFieldIs
  <2>1. /\ f.type = "dataLinkFrameSection" =>
             x = IF length = 0 THEN Pass(frame(d.m), d.etype, d.mpls, d.decapOK, d.stop)
                 ELSE Pass(counted(d.m), d.etype, d.mpls, TRUE, d.stop)
        /\ f.type \in Addresses =>
             x = IF v = None THEN d ELSE Pass(public(d.m), <<id, 4>>, d.mpls, d.decapOK, d.stop)
        /\ f.type \in DOMAIN PublicField \ Addresses =>
             x = Pass(public(d.m), d.etype, d.mpls, d.decapOK, d.stop)
        /\ f.type \in DOMAIN FallbackField =>
             x = IF d.m.fields[FallbackField[f.type]] # None THEN d
                 ELSE Pass(fallback(d.m), d.etype, d.mpls, d.decapOK, d.stop)
        /\ f.type = "mplsTopLabelStackSection" =>
             x = IF v = None THEN d
                 ELSE Pass(d.m, d.etype, IF d.mpls = None THEN v ELSE d.mpls, d.decapOK, d.stop)
        /\ f.type \in DOMAIN ColumnField => x = Pass(column(d.m), d.etype, d.mpls, d.decapOK, d.stop)
    BY <2>0 DEF FieldIs
  <2>2. /\ f.type = "dataLinkFrameSection" =>
             y = IF length = 0 THEN Pass(frame(e.m), e.etype, e.mpls, e.decapOK, e.stop)
                 ELSE Pass(counted(e.m), e.etype, e.mpls, TRUE, e.stop)
        /\ f.type \in Addresses =>
             y = IF v = None THEN e ELSE Pass(public(e.m), <<id, 4>>, e.mpls, e.decapOK, e.stop)
        /\ f.type \in DOMAIN PublicField \ Addresses =>
             y = Pass(public(e.m), e.etype, e.mpls, e.decapOK, e.stop)
        /\ f.type \in DOMAIN FallbackField =>
             y = IF e.m.fields[FallbackField[f.type]] # None THEN e
                 ELSE Pass(fallback(e.m), e.etype, e.mpls, e.decapOK, e.stop)
        /\ f.type = "mplsTopLabelStackSection" =>
             y = IF v = None THEN e
                 ELSE Pass(e.m, e.etype, IF e.mpls = None THEN v ELSE e.mpls, e.decapOK, e.stop)
        /\ f.type \in DOMAIN ColumnField => y = Pass(column(e.m), e.etype, e.mpls, e.decapOK, e.stop)
    BY <2>0 DEF FieldIs
  <2>3. /\ Message(frame(d.m)) /\ Message(frame(e.m)) /\ Same(frame(d.m), frame(e.m))
    BY <1>0, FrameKeeps, FrameSame
  <2>4. Same(counted(d.m), counted(e.m))
    <3> HIDE DEF frame
    <3>1. Message(bytes(d.m)) /\ Message(bytes(e.m)) /\ Same(bytes(d.m), bytes(e.m))
      BY <2>3, AppendColumnKeeps, AppendColumnSame
    <3> HIDE DEF bytes
    <3> QED
      BY <3>1, AppendColumnSame
  <2>5. /\ Same(public(d.m), public(e.m)) /\ Same(fallback(d.m), fallback(e.m))
        /\ Same(column(d.m), column(e.m))
    BY <1>0, SetFieldSame, AppendColumnSame
  <2> HIDE DEF x, y, v, frame, counted, length, public, fallback, column
  <2>6. CASE f.type = "dataLinkFrameSection"
    <3>1. CASE length = 0
      <4>1. /\ x = Pass(frame(d.m), d.etype, d.mpls, d.decapOK, d.stop)
            /\ y = Pass(frame(e.m), e.etype, e.mpls, e.decapOK, e.stop)
        BY <2>1, <2>2, <2>6, <3>1
      <4> QED
        BY <1>0, <2>3, <4>1, PassOf DEF PassSame
    <3>2. CASE length # 0
      <4>1. /\ x = Pass(counted(d.m), d.etype, d.mpls, TRUE, d.stop)
            /\ y = Pass(counted(e.m), e.etype, e.mpls, TRUE, e.stop)
        BY <2>1, <2>2, <2>6, <3>2
      <4> QED
        BY <1>0, <2>4, <4>1 DEF PassSame, Pass
    <3> QED
      BY <3>1, <3>2
  <2>7. CASE f.type \in DOMAIN PublicField
    BY <1>0, <2>1, <2>2, <2>5, <2>7, PassOf DEF PassSame
  <2>8. CASE f.type \in DOMAIN FallbackField
    BY <1>0, <2>1, <2>2, <2>5, <2>8, PassOf DEF PassSame
  <2>9. CASE f.type = "mplsTopLabelStackSection"
    BY <1>0, <2>1, <2>2, <2>9, PassOf DEF PassSame
  <2>10. CASE f.type \in DOMAIN ColumnField
    BY <1>0, <2>1, <2>2, <2>5, <2>10, PassOf DEF PassSame
  <2> QED
    BY <2>6, <2>7, <2>8, <2>9, <2>10 DEF FieldTypes
<1> QED
  BY <1>1, <1>2, <1>3

(* The fields of a record, one after the other.                            *)
IsPass(p, last, m, id, rec, dir, decap) ==
  p = [i \in 0..last |->
         IF i = 0 THEN [m |-> m, etype |-> None, mpls |-> None, decapOK |-> FALSE, stop |-> FALSE]
         ELSE IF Used(rec, rec[i], dir) THEN DecodeField(p[i - 1], id, rec[i], dir, decap)
         ELSE p[i - 1]]

LEMMA PassExists ==
  ASSUME NEW last \in Nat, NEW m, NEW id, NEW rec, NEW dir, NEW decap
  PROVE  \E p : IsPass(p, last, m, id, rec, dir, decap)
<1> DEFINE First == [m |-> m, etype |-> None, mpls |-> None, decapOK |-> FALSE, stop |-> FALSE]
           After(d, i) == IF Used(rec, rec[i], dir) THEN DecodeField(d, id, rec[i], dir, decap) ELSE d
           Has(k) == \E p : p = [i \in 0..k |-> IF i = 0 THEN First ELSE After(p[i - 1], i)]
           S == {k \in 0..last : Has(k)}
<1> HIDE DEF First, After
<1>1. 0 \in S
  <2>1. [i \in 0..0 |-> First] =
          [i \in 0..0 |-> IF i = 0 THEN First ELSE After([j \in 0..0 |-> First][i - 1], i)]
    OBVIOUS
  <2>2. Has(0)
    BY <2>1
  <2> QED
    BY <2>2
<1>2. ASSUME NEW k \in 1..last, k - 1 \in S
      PROVE  k \in S
  <2>1. PICK p : p = [i \in 0..(k - 1) |-> IF i = 0 THEN First ELSE After(p[i - 1], i)]
    BY <1>2
  <2> DEFINE q == [i \in 0..k |-> IF i = k THEN After(p[k - 1], k) ELSE p[i]]
  <2>2. ASSUME NEW i \in 0..k
        PROVE  q[i] = IF i = 0 THEN First ELSE After(q[i - 1], i)
    <3>1. CASE i = k
      <4>1. q[k] = After(p[k - 1], k) /\ q[k - 1] = p[k - 1] /\ k # 0
        OBVIOUS
      <4> QED
        BY <3>1, <4>1
    <3>2. CASE i = 0
      <4>1. q[0] = p[0] /\ p[0] = First
        BY <2>1
      <4> QED
        BY <3>2, <4>1
    <3>3. CASE i \in 1..(k - 1)
      <4>1. q[i] = p[i] /\ q[i - 1] = p[i - 1] /\ i # 0 /\ i \in 0..(k - 1)
        BY <3>3
      <4>2. p[i] = After(p[i - 1], i)
        BY <2>1, <4>1
      <4> QED
        BY <4>1, <4>2
    <3> QED
      BY <3>1, <3>2, <3>3
  <2>3. q = [i \in 0..k |-> q[i]]
    OBVIOUS
  <2> HIDE DEF q
  <2>4. q = [i \in 0..k |-> IF i = 0 THEN First ELSE After(q[i - 1], i)]
    BY <2>2, <2>3
  <2> QED
    BY <2>4
<1>3. last \in S
  <2> HIDE DEF S
  <2>1. \A k \in 0..last : k \in S
    BY <1>1, <1>2, UpTo
  <2> QED
    BY <2>1
<1>4. PICK p : p = [i \in 0..last |-> IF i = 0 THEN First ELSE After(p[i - 1], i)]
  BY <1>3
<1> QED
  BY <1>4 DEF IsPass, First, After

LEMMA DecodeFieldsIs ==
  ASSUME NEW last \in Nat, NEW m, NEW id, NEW rec, NEW dir, NEW decap
  PROVE  \E p : IsPass(p, last, m, id, rec, dir, decap)
                /\ DecodeFields(m, id, rec, last, dir, decap) = p[last]
<1> DEFINE p == CHOOSE p : IsPass(p, last, m, id, rec, dir, decap)
<1>1. IsPass(p, last, m, id, rec, dir, decap)
  BY PassExists
<1>2. DecodeFields(m, id, rec, last, dir, decap) = p[last]
  BY DEF DecodeFields, IsPass
<1> QED
  BY <1>1, <1>2

LEMMA StepOfPass ==
  ASSUME NEW last \in Nat, NEW m, NEW id, NEW rec, NEW dir, NEW decap, NEW p,
         IsPass(p, last, m, id, rec, dir, decap), NEW i \in 1..last
  PROVE  p[i] = IF Used(rec, rec[i], dir) THEN DecodeField(p[i - 1], id, rec[i], dir, decap) ELSE p[i - 1]
<1> DEFINE First == [m |-> m, etype |-> None, mpls |-> None, decapOK |-> FALSE, stop |-> FALSE]
           After(d, j) == IF Used(rec, rec[j], dir) THEN DecodeField(d, id, rec[j], dir, decap) ELSE d
<1>1. p = [j \in 0..last |-> IF j = 0 THEN First ELSE After(p[j - 1], j)]
  BY DEF IsPass
<1> HIDE DEF First, After
<1>2. p[i] = After(p[i - 1], i)
  <2>1. i \in 0..last /\ i # 0
    OBVIOUS
  <2> QED
    BY <1>1, <2>1
<1> QED
  BY <1>2 DEF After

LEMMA LengthOfRecord ==
  ASSUME NEW rec \in NetflowRecords
  PROVE  Len(rec) \in Nat
<1> DEFINE S == {f \in Range(rec) : f.type \in FieldTypes}
<1>1. rec \in Seq(S)
  BY BatchAssumption
<1> HIDE DEF S
<1> QED
  BY <1>1

LEMMA TypesOfRecord ==
  ASSUME NEW rec \in NetflowRecords, NEW last \in 0..Len(rec)
  PROVE  last \in Nat /\ \A i \in 1..last : rec[i].type \in FieldTypes
<1> DEFINE S == {f \in Range(rec) : f.type \in FieldTypes}
<1>1. rec \in Seq(S)
  BY BatchAssumption
<1>2. \A x \in S : x.type \in FieldTypes
  OBVIOUS
<1> HIDE DEF S
<1>3. Len(rec) \in Nat /\ \A i \in 1..Len(rec) : rec[i] \in S
  BY <1>1
<1> QED
  BY <1>2, <1>3

LEMMA PassKeeps ==
  ASSUME NEW m, Message(m), NEW id, NEW rec \in NetflowRecords, NEW last \in 0..Len(rec), NEW dir,
         NEW decap, NEW p, IsPass(p, last, m, id, rec, dir, decap)
  PROVE  \A i \in 0..last : PassInv(p[i], m)
<1> DEFINE S == {i \in 0..last : PassInv(p[i], m)}
<1>0. last \in Nat /\ \A i \in 1..last : rec[i].type \in FieldTypes
  BY TypesOfRecord
<1>1. 0 \in S
  <2>1. p[0] = Pass(m, None, None, FALSE, FALSE)
    BY <1>0 DEF IsPass, Pass
  <2>2. PassInv(p[0], m)
    BY <2>1 DEF PassInv, Pass, RowsKept
  <2> QED
    BY <1>0, <2>2
<1>2. ASSUME NEW i \in 1..last, i - 1 \in S
      PROVE  i \in S
  <2>1. p[i] = IF Used(rec, rec[i], dir) THEN DecodeField(p[i - 1], id, rec[i], dir, decap) ELSE p[i - 1]
    BY <1>0, StepOfPass
  <2>2. PassInv(p[i - 1], m) /\ rec[i].type \in FieldTypes
    BY <1>0, <1>2
  <2>3. PassInv(p[i], m)
    BY <2>1, <2>2, DecodeFieldKeeps
  <2> QED
    BY <1>0, <2>3
<1> HIDE DEF S
<1>3. \A i \in 0..last : i \in S
  BY <1>0, <1>1, <1>2, UpTo
<1> QED
  BY <1>3 DEF S

LEMMA PassesSame ==
  ASSUME NEW m, Message(m), NEW n, Message(n), Same(m, n), NEW id, NEW rec \in NetflowRecords,
         NEW last \in 0..Len(rec), NEW dir, NEW decap,
         NEW p, IsPass(p, last, m, id, rec, dir, decap), NEW q, IsPass(q, last, n, id, rec, dir, decap)
  PROVE  \A i \in 0..last : PassSame(p[i], q[i])
<1> DEFINE S == {i \in 0..last : PassSame(p[i], q[i])}
<1>0. last \in Nat /\ \A i \in 1..last : rec[i].type \in FieldTypes
  BY TypesOfRecord
<1>1. 0 \in S
  <2>1. p[0] = Pass(m, None, None, FALSE, FALSE) /\ q[0] = Pass(n, None, None, FALSE, FALSE)
    BY <1>0 DEF IsPass, Pass
  <2>2. PassSame(p[0], q[0])
    BY <2>1 DEF PassSame, Pass
  <2> QED
    BY <1>0, <2>2
<1>2. ASSUME NEW i \in 1..last, i - 1 \in S
      PROVE  i \in S
  <2>1. /\ p[i] = IF Used(rec, rec[i], dir) THEN DecodeField(p[i - 1], id, rec[i], dir, decap) ELSE p[i - 1]
        /\ q[i] = IF Used(rec, rec[i], dir) THEN DecodeField(q[i - 1], id, rec[i], dir, decap) ELSE q[i - 1]
    BY <1>0, StepOfPass
  <2>2. /\ PassSame(p[i - 1], q[i - 1]) /\ rec[i].type \in FieldTypes
        /\ PassInv(p[i - 1], m) /\ PassInv(q[i - 1], n)
    BY <1>0, <1>2, PassKeeps
  <2>3. PassSame(p[i], q[i])
    BY <2>1, <2>2, DecodeFieldSame
  <2> QED
    BY <1>0, <2>3
<1> HIDE DEF S
<1>3. \A i \in 0..last : i \in S
  BY <1>0, <1>1, <1>2, UpTo
<1> QED
  BY <1>3 DEF S

LEMMA DecodeFieldsKeeps ==
  ASSUME NEW m, Message(m), NEW id, NEW rec \in NetflowRecords, NEW last \in 0..Len(rec), NEW dir,
         NEW decap
  PROVE  PassInv(DecodeFields(m, id, rec, last, dir, decap), m)
<1>1. last \in Nat /\ last \in 0..last
  BY TypesOfRecord
<1>2. PICK p : IsPass(p, last, m, id, rec, dir, decap)
               /\ DecodeFields(m, id, rec, last, dir, decap) = p[last]
  BY <1>1, DecodeFieldsIs
<1> QED
  BY <1>1, <1>2, PassKeeps

LEMMA DecodeFieldsSame ==
  ASSUME NEW m, Message(m), NEW n, Message(n), Same(m, n), NEW id, NEW rec \in NetflowRecords,
         NEW last \in 0..Len(rec), NEW dir, NEW decap
  PROVE  PassSame(DecodeFields(m, id, rec, last, dir, decap), DecodeFields(n, id, rec, last, dir, decap))
<1>1. last \in Nat /\ last \in 0..last
  BY TypesOfRecord
<1>2. PICK p : IsPass(p, last, m, id, rec, dir, decap)
               /\ DecodeFields(m, id, rec, last, dir, decap) = p[last]
  BY <1>1, DecodeFieldsIs
<1>3. PICK q : IsPass(q, last, n, id, rec, dir, decap)
               /\ DecodeFields(n, id, rec, last, dir, decap) = q[last]
  BY <1>1, DecodeFieldsIs
<1> QED
  BY <1>1, <1>2, <1>3, PassesSame

LEMMA RateKeeps ==
  ASSUME NEW m, Message(m), NEW id
  PROVE  Message(WithDefaultRate(m, id)) /\ RowsKept(m, WithDefaultRate(m, id))
<1>1. RowsKept(m, m)
  BY DEF RowsKept
<1> QED
  BY <1>1, SetFieldKeeps DEF WithDefaultRate

LEMMA RateSame ==
  ASSUME NEW m, Message(m), NEW n, Message(n), Same(m, n), NEW id
  PROVE  Same(WithDefaultRate(m, id), WithDefaultRate(n, id))
<1>1. m.fields = n.fields
  BY DEF Same
<1> QED
  BY <1>1, SetFieldSame DEF WithDefaultRate

LEMMA DecodePassKeeps ==
  ASSUME NEW m, Message(m), NEW id, NEW rec \in NetflowRecords, NEW dir, NEW decap
  PROVE  PassInv(DecodePass(m, id, rec, dir, decap), m)
<1> DEFINE d == DecodeFields(m, id, rec, Len(rec), dir, decap)
           x == AppendColumn(d.m, "EType", d.etype)
           y == AppendColumn(x, "MPLSLabels", d.mpls)
           z == WithDefaultRate(y, id)
<1>1. Len(rec) \in 0..Len(rec)
  BY LengthOfRecord
<1>2. PassInv(d, m)
  BY <1>1, DecodeFieldsKeeps
<1>3. DecodePass(m, id, rec, dir, decap) = IF d.stop THEN d ELSE [d EXCEPT !.m = z]
  BY DEF DecodePass, EndPass
<1> HIDE DEF d
<1>4. d = Pass(d.m, d.etype, d.mpls, d.decapOK, d.stop) /\ Message(d.m)
  BY <1>2 DEF PassInv
<1>5. Message(x) /\ RowsKept(d.m, x)
  BY <1>4, AppendColumnKeeps
<1> HIDE DEF x
<1>6. Message(y) /\ RowsKept(d.m, y)
  BY <1>5, AppendColumnKeeps, RowsKeptTransitive
<1> HIDE DEF y
<1>7. Message(z) /\ RowsKept(d.m, z)
  BY <1>6, RateKeeps, RowsKeptTransitive
<1> HIDE DEF z
<1>8. [d EXCEPT !.m = z] = Pass(z, d.etype, d.mpls, d.decapOK, d.stop)
  BY <1>4, WithMessage
<1> QED
  BY <1>2, <1>3, <1>7, <1>8, PassGoesOn

LEMMA DecodePassSame ==
  ASSUME NEW m, Message(m), NEW n, Message(n), Same(m, n), NEW id, NEW rec \in NetflowRecords,
         NEW dir, NEW decap
  PROVE  PassSame(DecodePass(m, id, rec, dir, decap), DecodePass(n, id, rec, dir, decap))
<1> DEFINE d == DecodeFields(m, id, rec, Len(rec), dir, decap)
           e == DecodeFields(n, id, rec, Len(rec), dir, decap)
           x(a) == AppendColumn(a.m, "EType", d.etype)
           y(a) == AppendColumn(x(a), "MPLSLabels", d.mpls)
           z(a) == WithDefaultRate(y(a), id)
<1>1. Len(rec) \in 0..Len(rec)
  BY LengthOfRecord
<1>2. PassInv(d, m) /\ PassInv(e, n) /\ PassSame(d, e)
  BY <1>1, DecodeFieldsKeeps, DecodeFieldsSame
<1>3. DecodePass(m, id, rec, dir, decap) = IF d.stop THEN d ELSE [d EXCEPT !.m = z(d)]
  BY DEF DecodePass, EndPass
<1>4. DecodePass(n, id, rec, dir, decap) = IF d.stop THEN e ELSE [e EXCEPT !.m = z(e)]
  BY <1>2 DEF DecodePass, EndPass, PassSame
<1> HIDE DEF d, e
<1>5. /\ d = Pass(d.m, d.etype, d.mpls, d.decapOK, d.stop) /\ Message(d.m)
      /\ e = Pass(e.m, e.etype, e.mpls, e.decapOK, e.stop) /\ Message(e.m)
      /\ Same(d.m, e.m)
  BY <1>2 DEF PassInv, PassSame
<1>6. Message(x(d)) /\ Message(x(e)) /\ Same(x(d), x(e))
  BY <1>5, AppendColumnKeeps, AppendColumnSame
<1> HIDE DEF x
<1>7. Message(y(d)) /\ Message(y(e)) /\ Same(y(d), y(e))
  BY <1>6, AppendColumnKeeps, AppendColumnSame
<1> HIDE DEF y
<1>8. Same(z(d), z(e))
  BY <1>7, RateSame
<1> HIDE DEF z
<1>9. /\ [d EXCEPT !.m = z(d)] = Pass(z(d), d.etype, d.mpls, d.decapOK, d.stop)
      /\ [e EXCEPT !.m = z(e)] = Pass(z(e), e.etype, e.mpls, e.decapOK, e.stop)
  BY <1>5, WithMessage
<1> QED
  BY <1>2, <1>3, <1>4, <1>8, <1>9, PassOf DEF PassSame

----------------------------------------------------------------------------
(* The end of a direction of a record: the rows are left alone, or there   *)
(* is one more, or the batch has been sent.                                *)
Outcome(m, n, verdict, origin) ==
  /\ Message(n)
  /\ RowsKept(m, n) \/ (verdict = "sent" /\ n.rows = 0) \/ (verdict = "added" /\ RowAdded(m, n, origin))

(* The row that is added is the one that a gives on top of x.              *)
RowLike(m, n, x, a) ==
  n.rows = m.rows + 1 =>
    /\ a.rows = x.rows + 1
    /\ \A c \in Columns : n.columns[c][m.rows + 1] = a.columns[c][x.rows + 1]

LEMMA OutcomeLater ==
  ASSUME NEW m, NEW n, NEW o, RowsKept(m, n), NEW verdict, NEW origin, Outcome(n, o, verdict, origin)
  PROVE  Outcome(m, o, verdict, origin)
  BY DEF RowsKept, Outcome, RowAdded

LEMMA RowLikeLater ==
  ASSUME NEW m, NEW n, NEW o, RowsKept(m, n), NEW x, NEW y, NEW a, RowsKept(x, y), RowLike(n, o, y, a)
  PROVE  RowLike(m, o, x, a)
  BY DEF RowsKept, RowLike

LEMMA FinalizeFlowOutcome ==
  ASSUME NEW m, Message(m), NEW verdict \in Verdicts, NEW origin
  PROVE  LET n == finalizeFlow(m, verdict, origin)
         IN  Outcome(m, n, verdict, origin) /\ Clean(n)
  BY FinalizeFlow DEF Outcome, Verdicts

LEMMA FinalizeFlowLike ==
  ASSUME NEW m, Message(m), NEW x, Message(x), Same(m, x), NEW verdict \in Verdicts, NEW origin, NEW other
  PROVE  RowLike(m, finalizeFlow(m, verdict, origin), x, finalizeFlow(x, "added", other))
<1> DEFINE n == finalizeFlow(m, verdict, origin)
           a == finalizeFlow(x, "added", other)
<1>0. m.rows \in Nat
  BY DEF Message
<1>1. /\ verdict \in {"limited", "skipped"} => n.rows = m.rows
      /\ verdict = "added" => \A c \in Columns : n.columns[c][m.rows + 1] = RowOfFlow(m, c)
      /\ verdict = "sent" => n.rows = 0
  BY FinalizeFlow DEF RowsKept
<1>2. a.rows = x.rows + 1 /\ \A c \in Columns : a.columns[c][x.rows + 1] = RowOfFlow(x, c)
  <2>1. "added" \in Verdicts
    BY DEF Verdicts
  <2> QED
    BY <2>1, FinalizeFlow DEF RowAdded
<1>3. \A c \in Columns : RowOfFlow(m, c) = RowOfFlow(x, c)
  BY RowSame
<1> HIDE DEF n, a
<1>4. RowLike(m, n, x, a)
  BY <1>0, <1>1, <1>2, <1>3 DEF RowLike, Verdicts
<1> QED
  BY <1>4 DEF n, a

LEMMA localFinalizeOutcome ==
  ASSUME NEW d, Message(d.m), NEW id, NEW decap, NEW verdict \in Verdicts, NEW origin
  PROVE  LET n == localFinalize(d, id, decap, verdict, origin)
         IN  Outcome(d.m, n, verdict, origin) /\ Clean(n)
<1> DEFINE x == SetField(d.m, "TimeReceived", <<id, 2>>)
           y == SetField(x, "ExporterAddress", <<id, 3>>)
           n == localFinalize(d, id, decap, verdict, origin)
<1>1. n = IF decap # "none" /\ ~d.decapOK THEN Undo(d.m) ELSE finalizeFlow(y, verdict, origin)
  BY DEF localFinalize
<1>2. Message(x) /\ RowsKept(d.m, x)
  BY SetFieldKeeps
<1> HIDE DEF x, n
<1>3. Message(y) /\ RowsKept(d.m, y)
  BY <1>2, SetFieldKeeps, RowsKeptTransitive
<1> HIDE DEF y
<1>4. Outcome(d.m, Undo(d.m), verdict, origin) /\ Clean(Undo(d.m))
  BY UndoKeeps DEF Outcome
<1>5. LET o == finalizeFlow(y, verdict, origin) IN Outcome(d.m, o, verdict, origin) /\ Clean(o)
  BY <1>3, FinalizeFlowOutcome, OutcomeLater
<1>6. Outcome(d.m, n, verdict, origin) /\ Clean(n)
  BY <1>1, <1>4, <1>5
<1> QED
  BY <1>6 DEF n

LEMMA localFinalizeLike ==
  ASSUME NEW d, Message(d.m), NEW e, Message(e.m), Same(d.m, e.m), d.decapOK = e.decapOK,
         NEW id, NEW decap, NEW verdict \in Verdicts, NEW origin, NEW other
  PROVE  RowLike(d.m, localFinalize(d, id, decap, verdict, origin),
                 e.m, localFinalize(e, id, decap, "added", other))
<1> DEFINE x(z) == SetField(z, "TimeReceived", <<id, 2>>)
           y(z) == SetField(x(z), "ExporterAddress", <<id, 3>>)
           n == localFinalize(d, id, decap, verdict, origin)
           a == localFinalize(e, id, decap, "added", other)
<1>1. n = IF decap # "none" /\ ~d.decapOK THEN Undo(d.m) ELSE finalizeFlow(y(d.m), verdict, origin)
  BY DEF localFinalize
<1>2. a = IF decap # "none" /\ ~d.decapOK THEN Undo(e.m) ELSE finalizeFlow(y(e.m), "added", other)
  BY DEF localFinalize
<1>3. /\ Message(x(d.m)) /\ Message(x(e.m)) /\ Same(x(d.m), x(e.m))
      /\ RowsKept(d.m, x(d.m)) /\ RowsKept(e.m, x(e.m))
  BY SetFieldKeeps, SetFieldSame
<1> HIDE DEF x, n, a
<1>4. /\ Message(y(d.m)) /\ Message(y(e.m)) /\ Same(y(d.m), y(e.m))
      /\ RowsKept(d.m, y(d.m)) /\ RowsKept(e.m, y(e.m))
  BY <1>3, SetFieldKeeps, SetFieldSame, RowsKeptTransitive
<1> HIDE DEF y
<1>5. RowLike(d.m, Undo(d.m), e.m, Undo(e.m))
  <2>1. Undo(d.m).rows = d.m.rows /\ d.m.rows \in Nat
    BY UndoKeeps DEF RowsKept, Message
  <2> QED
    BY <2>1 DEF RowLike
<1>6. RowLike(d.m, finalizeFlow(y(d.m), verdict, origin), e.m, finalizeFlow(y(e.m), "added", other))
  BY <1>4, FinalizeFlowLike, RowLikeLater
<1>7. RowLike(d.m, n, e.m, a)
  BY <1>1, <1>2, <1>5, <1>6
<1> QED
  BY <1>7 DEF n, a

LEMMA ForwardOutcome ==
  ASSUME NEW m, Message(m), NEW id, NEW rec \in NetflowRecords, NEW decap, NEW verdict \in Verdicts,
         NEW origin
  PROVE  LET n == ForwardRecord(m, id, rec, decap, verdict, origin)
         IN  Outcome(m, n, verdict, origin) /\ Clean(n)
<1> DEFINE d == DecodePass(m, id, rec, "forward", decap)
<1>1. Message(d.m) /\ RowsKept(m, d.m)
  BY DecodePassKeeps DEF PassInv
<1> HIDE DEF d
<1>2. LET n == localFinalize(d, id, decap, verdict, origin)
      IN  Outcome(m, n, verdict, origin) /\ Clean(n)
  BY <1>1, localFinalizeOutcome, OutcomeLater
<1> QED
  BY <1>2 DEF ForwardRecord, d

LEMMA ForwardLike ==
  ASSUME NEW m, Message(m), NEW x, Message(x), Same(m, x), NEW id, NEW rec \in NetflowRecords,
         NEW decap, NEW verdict \in Verdicts, NEW origin, NEW other
  PROVE  RowLike(m, ForwardRecord(m, id, rec, decap, verdict, origin),
                 x, ForwardRecord(x, id, rec, decap, "added", other))
<1> DEFINE d == DecodePass(m, id, rec, "forward", decap)
           e == DecodePass(x, id, rec, "forward", decap)
<1>1. /\ Message(d.m) /\ RowsKept(m, d.m) /\ Message(e.m) /\ RowsKept(x, e.m)
      /\ Same(d.m, e.m) /\ d.decapOK = e.decapOK
  BY DecodePassKeeps, DecodePassSame DEF PassInv, PassSame
<1> HIDE DEF d, e
<1>2. RowLike(d.m, localFinalize(d, id, decap, verdict, origin),
              e.m, localFinalize(e, id, decap, "added", other))
  BY <1>1, localFinalizeLike
<1>3. RowLike(m, localFinalize(d, id, decap, verdict, origin),
              x, localFinalize(e, id, decap, "added", other))
  BY <1>1, <1>2, RowLikeLater
<1> QED
  BY <1>3 DEF ForwardRecord, d, e

LEMMA ReverseOutcome ==
  ASSUME NEW m, Message(m), NEW id, NEW rec \in NetflowRecords, NEW decap, NEW verdict \in Verdicts,
         NEW origin
  PROVE  LET n == ReverseRecord(m, id, rec, decap, verdict, origin)
         IN  Outcome(m, n, verdict, origin) /\ Clean(n)
<1> DEFINE r == Reverse_(m)
           d == DecodePass(r, id, rec, "reverse", decap)
           e == [d EXCEPT !.m = Reverse_(d.m)]
           n == ReverseRecord(m, id, rec, decap, verdict, origin)
<1>1. Message(r) /\ RowsKept(m, r)
  BY ReverseKeeps
<1>2. n = IF d.stop THEN d.m ELSE localFinalize(e, id, decap, verdict, origin)
  BY DEF ReverseRecord, FinalizeReverse
<1> HIDE DEF r, n
<1>3. PassInv(d, r)
  BY <1>1, DecodePassKeeps
<1> HIDE DEF d
<1>5. e = Pass(Reverse_(d.m), d.etype, d.mpls, d.decapOK, d.stop)
  BY <1>3, WithMessage DEF PassInv
<1> HIDE DEF e
<1>6. Message(e.m) /\ RowsKept(m, e.m)
  <2>1. e.m = Reverse_(d.m)
    BY <1>5, PassOf
  <2>2. Message(d.m) /\ RowsKept(m, d.m)
    BY <1>1, <1>3, RowsKeptTransitive DEF PassInv
  <2> QED
    BY <2>1, <2>2, ReverseKeeps, RowsKeptTransitive
<1>7. CASE d.stop
  <2>1. n = d.m /\ Message(d.m) /\ RowsKept(m, d.m) /\ Clean(d.m)
    BY <1>1, <1>2, <1>3, <1>7, RowsKeptTransitive DEF PassInv
  <2> QED
    BY <2>1 DEF Outcome, n
<1>8. CASE ~d.stop
  <2>1. LET o == localFinalize(e, id, decap, verdict, origin)
        IN  Outcome(m, o, verdict, origin) /\ Clean(o)
    BY <1>6, localFinalizeOutcome, OutcomeLater
  <2>2. Outcome(m, n, verdict, origin) /\ Clean(n)
    BY <1>2, <1>8, <2>1
  <2> QED
    BY <2>2 DEF n
<1> QED
  BY <1>7, <1>8

LEMMA ReverseLike ==
  ASSUME NEW m, Message(m), NEW x, Message(x), Same(m, x), NEW id, NEW rec \in NetflowRecords,
         NEW decap, NEW verdict \in Verdicts, NEW origin, NEW other
  PROVE  RowLike(m, ReverseRecord(m, id, rec, decap, verdict, origin),
                 x, ReverseRecord(x, id, rec, decap, "added", other))
<1> DEFINE r(z) == Reverse_(z)
           d(z) == DecodePass(r(z), id, rec, "reverse", decap)
           e(z) == [d(z) EXCEPT !.m = Reverse_(d(z).m)]
           n == ReverseRecord(m, id, rec, decap, verdict, origin)
           a == ReverseRecord(x, id, rec, decap, "added", other)
<1>1. /\ Message(r(m)) /\ Message(r(x)) /\ Same(r(m), r(x)) /\ RowsKept(m, r(m)) /\ RowsKept(x, r(x))
  BY ReverseKeeps, ReverseSame
<1>2. /\ n = IF d(m).stop THEN d(m).m ELSE localFinalize(e(m), id, decap, verdict, origin)
      /\ a = IF d(x).stop THEN d(x).m ELSE localFinalize(e(x), id, decap, "added", other)
  BY DEF ReverseRecord, FinalizeReverse
<1> HIDE DEF r, n, a
<1>3. PassInv(d(m), r(m)) /\ PassInv(d(x), r(x)) /\ PassSame(d(m), d(x))
  BY <1>1, DecodePassKeeps, DecodePassSame
<1> HIDE DEF d
<1>4. /\ Message(d(m).m) /\ Message(d(x).m) /\ Same(d(m).m, d(x).m)
      /\ d(m).stop = d(x).stop /\ d(m).decapOK = d(x).decapOK
      /\ RowsKept(m, d(m).m) /\ RowsKept(x, d(x).m)
  BY <1>1, <1>3, RowsKeptTransitive DEF PassInv, PassSame
<1>5. /\ e(m) = Pass(Reverse_(d(m).m), d(m).etype, d(m).mpls, d(m).decapOK, d(m).stop)
      /\ e(x) = Pass(Reverse_(d(x).m), d(x).etype, d(x).mpls, d(x).decapOK, d(x).stop)
  BY <1>3, WithMessage DEF PassInv
<1> HIDE DEF e
<1>6. /\ Message(e(m).m) /\ Message(e(x).m) /\ Same(e(m).m, e(x).m) /\ e(m).decapOK = e(x).decapOK
      /\ RowsKept(m, e(m).m) /\ RowsKept(x, e(x).m)
  <2>1. /\ e(m).m = Reverse_(d(m).m) /\ e(x).m = Reverse_(d(x).m)
        /\ e(m).decapOK = d(m).decapOK /\ e(x).decapOK = d(x).decapOK
    BY <1>5, PassOf
  <2> QED
    BY <1>4, <2>1, ReverseKeeps, ReverseSame, RowsKeptTransitive
<1>7. CASE d(m).stop
  <2>1. n = d(m).m /\ n.rows = m.rows /\ m.rows \in Nat
    BY <1>2, <1>4, <1>7 DEF RowsKept, Message
  <2> QED
    BY <2>1 DEF RowLike, n
<1>8. CASE ~d(m).stop
  <2>1. RowLike(e(m).m, localFinalize(e(m), id, decap, verdict, origin),
                e(x).m, localFinalize(e(x), id, decap, "added", other))
    BY <1>6, localFinalizeLike
  <2>2. RowLike(m, n, x, a)
    BY <1>2, <1>4, <1>6, <1>8, <2>1, RowLikeLater
  <2> QED
    BY <2>2 DEF n, a
<1> QED
  BY <1>7, <1>8

----------------------------------------------------------------------------
(* The records of a sample.                                                *)
SampleInv(s, m) == s = [m |-> s.m, l3 |-> s.l3] /\ Message(s.m) /\ RowsKept(m, s.m)

SampleSame(s, t) == s.l3 = t.l3 /\ Same(s.m, t.m)

LEMMA SampleOf ==
  ASSUME NEW m, NEW s, NEW n, Message(n), RowsKept(s.m, n), SampleInv(s, m), NEW l
  PROVE  SampleInv([m |-> n, l3 |-> l], m)
  BY RowsKeptTransitive DEF SampleInv

(* What a record of each kind does, when it is looked at.                  *)
With(m, id, r, fs) == SetFields(m, [f \in fs |-> <<id, r.n>>])
And(m, id, r, cs) == AppendColumns(m, [c \in cs |-> <<id, r.n>>])

RecordIs(n, s, id, r, decap) ==
  LET v == <<id, r.n>>
      length == SampledHeaders[r.frame, decap].l3
      ip == And(With(s.m, id, r, {"SrcAddr", "DstAddr"}), id, r, {"Proto", "SrcPort", "DstPort", "EType"})
      mac == And(s.m, id, r, {"SrcMAC", "DstMAC"})
      vlan == With(s.m, id, r, {"SrcVlan", "DstVlan"})
      as == And(With(s.m, id, r, {"NextHop", "SrcAS", "DstAS"}), id, r, {"DstASPath"})
  IN  /\ r.kind = "header" =>
           n = [m |-> ApplyFrame(s.m, id, r.frame, decap),
                l3 |-> IF length > 0 THEN <<id, 100 + length>> ELSE s.l3]
      /\ r.kind = "ipv4" => n = [m |-> ip, l3 |-> v]
      /\ r.kind = "ethernet" =>
           n = [m |-> IF L2Enabled THEN mac ELSE s.m, l3 |-> IF s.l3 = None THEN v ELSE s.l3]
      /\ r.kind = "switch" => n = [m |-> IF L2Enabled THEN vlan ELSE s.m, l3 |-> s.l3]
      /\ r.kind = "router" => n = [m |-> With(s.m, id, r, {"NextHop"}), l3 |-> s.l3]
      /\ r.kind = "gateway" => n = [m |-> as, l3 |-> s.l3]

(* A header that is not needed, and the others when there is a tunnel.     *)
Skipped(r, sample, decap) ==
  IF r.kind = "header" THEN ~NeedsHeader(sample, decap) ELSE decap # "none"

LEMMA SampleRecordIs ==
  ASSUME NEW s, s = [m |-> s.m, l3 |-> s.l3], NEW id, NEW r, r.kind \in SampleKinds, NEW sample, NEW decap
  PROVE  LET n == SampleRecord(s, id, r, sample, decap)
         IN  IF Skipped(r, sample, decap) THEN n = s ELSE RecordIs(n, s, id, r, decap)
<1> DEFINE v == <<id, r.n>>
           length == SampledHeaders[r.frame, decap].l3
           frame == ApplyFrame(s.m, id, r.frame, decap)
           ip == And(With(s.m, id, r, {"SrcAddr", "DstAddr"}), id, r, {"Proto", "SrcPort", "DstPort", "EType"})
           mac == And(s.m, id, r, {"SrcMAC", "DstMAC"})
           vlan == With(s.m, id, r, {"SrcVlan", "DstVlan"})
           hop == With(s.m, id, r, {"NextHop"})
           as == And(With(s.m, id, r, {"NextHop", "SrcAS", "DstAS"}), id, r, {"DstASPath"})
           n == SampleRecord(s, id, r, sample, decap)
<1>1. n = IF r.kind = "header"
          THEN IF ~NeedsHeader(sample, decap) THEN s
               ELSE [m |-> frame, l3 |-> IF length > 0 THEN <<id, 100 + length>> ELSE s.l3]
          ELSE IF decap # "none" THEN s
          ELSE
          CASE r.kind = "ipv4" -> [m |-> ip, l3 |-> v]
            [] r.kind = "ethernet" ->
                 [m |-> IF L2Enabled THEN mac ELSE s.m, l3 |-> IF s.l3 = None THEN v ELSE s.l3]
            [] r.kind = "switch" -> [s EXCEPT !.m = IF L2Enabled THEN vlan ELSE s.m]
            [] r.kind = "router" -> [s EXCEPT !.m = hop]
            [] r.kind = "gateway" -> [s EXCEPT !.m = as]
  BY DEF SampleRecord, With, And
<1> HIDE DEF n, v, length, frame, ip, mac, vlan, hop, as
<1>2. \A x : [s EXCEPT !.m = x] = [m |-> x, l3 |-> s.l3]
  OBVIOUS
<1>3. ~Skipped(r, sample, decap) =>
      /\ r.kind = "header" =>
           n = [m |-> frame, l3 |-> IF length > 0 THEN <<id, 100 + length>> ELSE s.l3]
      /\ r.kind = "ipv4" => n = [m |-> ip, l3 |-> v]
      /\ r.kind = "ethernet" =>
           n = [m |-> IF L2Enabled THEN mac ELSE s.m, l3 |-> IF s.l3 = None THEN v ELSE s.l3]
      /\ r.kind = "switch" => n = [m |-> IF L2Enabled THEN vlan ELSE s.m, l3 |-> s.l3]
      /\ r.kind = "router" => n = [m |-> hop, l3 |-> s.l3]
      /\ r.kind = "gateway" => n = [m |-> as, l3 |-> s.l3]
  BY <1>1, <1>2 DEF Skipped
<1>4. Skipped(r, sample, decap) => n = s
  BY <1>1 DEF Skipped
<1> QED
  BY <1>3, <1>4 DEF RecordIs, n, v, length, frame, ip, mac, vlan, hop, as

LEMMA WithKeeps ==
  ASSUME NEW m, Message(m), NEW id, NEW r, NEW fs, NEW cs
  PROVE  /\ Message(With(m, id, r, fs)) /\ RowsKept(m, With(m, id, r, fs))
         /\ Message(And(m, id, r, cs)) /\ RowsKept(m, And(m, id, r, cs))
         /\ LET n == And(With(m, id, r, fs), id, r, cs) IN Message(n) /\ RowsKept(m, n)
<1>1. Message(With(m, id, r, fs)) /\ RowsKept(m, With(m, id, r, fs))
  BY SetFieldsKeeps DEF With
<1>2. \A n : Message(n) => Message(And(n, id, r, cs)) /\ RowsKept(n, And(n, id, r, cs))
  BY AppendColumnsKeeps DEF And
<1> QED
  BY <1>1, <1>2, RowsKeptTransitive

LEMMA WithSame ==
  ASSUME NEW m, Message(m), NEW n, Message(n), Same(m, n), NEW id, NEW r, NEW fs, NEW cs
  PROVE  /\ Same(With(m, id, r, fs), With(n, id, r, fs))
         /\ Same(And(m, id, r, cs), And(n, id, r, cs))
         /\ Same(And(With(m, id, r, fs), id, r, cs), And(With(n, id, r, fs), id, r, cs))
<1>1. Same(With(m, id, r, fs), With(n, id, r, fs))
  BY SetFieldsSame DEF With
<1>2. \A x, y : Message(x) /\ Message(y) /\ Same(x, y) => Same(And(x, id, r, cs), And(y, id, r, cs))
  BY AppendColumnsSame DEF And
<1> QED
  BY <1>1, <1>2, WithKeeps

LEMMA SampleRecordKeeps ==
  ASSUME NEW s, NEW m, SampleInv(s, m), NEW id, NEW r, r.kind \in SampleKinds, NEW sample, NEW decap
  PROVE  SampleInv(SampleRecord(s, id, r, sample, decap), m)
<1> DEFINE n == SampleRecord(s, id, r, sample, decap)
           frame == ApplyFrame(s.m, id, r.frame, decap)
<1>0. s = [m |-> s.m, l3 |-> s.l3] /\ Message(s.m) /\ RowsKept(s.m, s.m)
  BY DEF SampleInv, RowsKept
<1>1. IF Skipped(r, sample, decap) THEN n = s ELSE RecordIs(n, s, id, r, decap)
  BY <1>0, SampleRecordIs
<1>2. Message(frame) /\ RowsKept(s.m, frame)
  BY <1>0, FrameKeeps
<1>3. ASSUME ~Skipped(r, sample, decap)
      PROVE  \E x, l : n = [m |-> x, l3 |-> l] /\ Message(x) /\ RowsKept(s.m, x)
  <2>1. RecordIs(n, s, id, r, decap)
    BY <1>1, <1>3
  <2>2. \A fs, cs :
          /\ Message(With(s.m, id, r, fs)) /\ RowsKept(s.m, With(s.m, id, r, fs))
          /\ Message(And(s.m, id, r, cs)) /\ RowsKept(s.m, And(s.m, id, r, cs))
          /\ LET o == And(With(s.m, id, r, fs), id, r, cs) IN Message(o) /\ RowsKept(s.m, o)
    BY <1>0, WithKeeps
  <2> HIDE DEF n
  <2>3. CASE r.kind = "header"
    BY <1>2, <2>1, <2>3 DEF RecordIs
  <2>4. CASE r.kind # "header"
    BY <1>0, <2>1, <2>2, <2>4 DEF RecordIs, SampleKinds
  <2> QED
    BY <2>3, <2>4
<1> QED
  BY <1>1, <1>3, SampleOf

LEMMA SampleRecordSame ==
  ASSUME NEW s, NEW m, SampleInv(s, m), NEW t, NEW x, SampleInv(t, x), SampleSame(s, t),
         NEW id, NEW r, r.kind \in SampleKinds, NEW sample, NEW decap
  PROVE  SampleSame(SampleRecord(s, id, r, sample, decap), SampleRecord(t, id, r, sample, decap))
<1> DEFINE n == SampleRecord(s, id, r, sample, decap)
           o == SampleRecord(t, id, r, sample, decap)
<1> SUFFICES SampleSame(n, o)
  OBVIOUS
<1>0. /\ s = [m |-> s.m, l3 |-> s.l3] /\ Message(s.m) /\ t = [m |-> t.m, l3 |-> t.l3] /\ Message(t.m)
      /\ s.l3 = t.l3 /\ Same(s.m, t.m)
  BY DEF SampleInv, SampleSame
<1>1. /\ IF Skipped(r, sample, decap) THEN n = s ELSE RecordIs(n, s, id, r, decap)
      /\ IF Skipped(r, sample, decap) THEN o = t ELSE RecordIs(o, t, id, r, decap)
  BY <1>0, SampleRecordIs
<1> HIDE DEF n, o
<1>2. Same(ApplyFrame(s.m, id, r.frame, decap), ApplyFrame(t.m, id, r.frame, decap))
  BY <1>0, FrameSame
<1>3. \A fs, cs :
        /\ Same(With(s.m, id, r, fs), With(t.m, id, r, fs))
        /\ Same(And(s.m, id, r, cs), And(t.m, id, r, cs))
        /\ Same(And(With(s.m, id, r, fs), id, r, cs), And(With(t.m, id, r, fs), id, r, cs))
  BY <1>0, WithSame
<1>4. CASE Skipped(r, sample, decap)
  BY <1>0, <1>1, <1>4 DEF SampleSame
<1>5. CASE ~Skipped(r, sample, decap)
  <2> DEFINE length == SampledHeaders[r.frame, decap].l3
  <2>1. RecordIs(n, s, id, r, decap) /\ RecordIs(o, t, id, r, decap)
    BY <1>1, <1>5
  <2>2. CASE r.kind = "header"
    <3>1. /\ n = [m |-> ApplyFrame(s.m, id, r.frame, decap),
                  l3 |-> IF length > 0 THEN <<id, 100 + length>> ELSE s.l3]
          /\ o = [m |-> ApplyFrame(t.m, id, r.frame, decap),
                  l3 |-> IF length > 0 THEN <<id, 100 + length>> ELSE t.l3]
      BY <2>1, <2>2 DEF RecordIs
    <3> QED
      BY <1>0, <1>2, <3>1 DEF SampleSame
  <2>3. CASE r.kind = "ipv4"
    <3>1. /\ n = [m |-> And(With(s.m, id, r, {"SrcAddr", "DstAddr"}), id, r, {"Proto", "SrcPort", "DstPort", "EType"}),
                  l3 |-> <<id, r.n>>]
          /\ o = [m |-> And(With(t.m, id, r, {"SrcAddr", "DstAddr"}), id, r, {"Proto", "SrcPort", "DstPort", "EType"}),
                  l3 |-> <<id, r.n>>]
      BY <2>1, <2>3 DEF RecordIs
    <3> QED
      BY <1>0, <1>3, <3>1 DEF SampleSame
  <2>4. CASE r.kind = "ethernet"
    <3>1. /\ n = [m |-> IF L2Enabled THEN And(s.m, id, r, {"SrcMAC", "DstMAC"}) ELSE s.m,
                  l3 |-> IF s.l3 = None THEN <<id, r.n>> ELSE s.l3]
          /\ o = [m |-> IF L2Enabled THEN And(t.m, id, r, {"SrcMAC", "DstMAC"}) ELSE t.m,
                  l3 |-> IF t.l3 = None THEN <<id, r.n>> ELSE t.l3]
      BY <2>1, <2>4 DEF RecordIs
    <3> QED
      BY <1>0, <1>3, <3>1 DEF SampleSame
  <2>5. CASE r.kind = "switch"
    <3>1. /\ n = [m |-> IF L2Enabled THEN With(s.m, id, r, {"SrcVlan", "DstVlan"}) ELSE s.m,
                  l3 |-> s.l3]
          /\ o = [m |-> IF L2Enabled THEN With(t.m, id, r, {"SrcVlan", "DstVlan"}) ELSE t.m,
                  l3 |-> t.l3]
      BY <2>1, <2>5 DEF RecordIs
    <3> QED
      BY <1>0, <1>3, <3>1 DEF SampleSame
  <2>6. CASE r.kind = "router"
    <3>1. /\ n = [m |-> With(s.m, id, r, {"NextHop"}), l3 |-> s.l3]
          /\ o = [m |-> With(t.m, id, r, {"NextHop"}), l3 |-> t.l3]
      BY <2>1, <2>6 DEF RecordIs
    <3> QED
      BY <1>0, <1>3, <3>1 DEF SampleSame
  <2>7. CASE r.kind = "gateway"
    <3>1. /\ n = [m |-> And(With(s.m, id, r, {"NextHop", "SrcAS", "DstAS"}), id, r, {"DstASPath"}),
                  l3 |-> s.l3]
          /\ o = [m |-> And(With(t.m, id, r, {"NextHop", "SrcAS", "DstAS"}), id, r, {"DstASPath"}),
                  l3 |-> t.l3]
      BY <2>1, <2>7 DEF RecordIs
    <3> QED
      BY <1>0, <1>3, <3>1 DEF SampleSame
  <2> QED
    BY <2>2, <2>3, <2>4, <2>5, <2>6, <2>7 DEF SampleKinds
<1> QED
  BY <1>4, <1>5

LEMMA SampleFieldsKeeps ==
  ASSUME NEW m, Message(m), NEW id, NEW sample
  PROVE  Message(SampleFields(m, id, sample)) /\ RowsKept(m, SampleFields(m, id, sample))
<1> DEFINE PutField(acc, f, x) == IF x = 0 THEN acc ELSE SetField(acc, f, <<id, x>>)
           a == PutField(m, "SamplingRate", sample.rate)
           b == PutField(a, "InIf", sample.inIf)
<1>1. \A acc, f, x : Message(acc) => Message(PutField(acc, f, x)) /\ RowsKept(acc, PutField(acc, f, x))
  <2>1. \A acc : RowsKept(acc, acc)
    BY DEF RowsKept
  <2> QED
    BY <2>1, SetFieldKeeps
<1>2. SampleFields(m, id, sample) = PutField(b, "OutIf", sample.outIf)
  BY DEF SampleFields
<1> HIDE DEF PutField
<1>3. Message(a) /\ RowsKept(m, a) /\ Message(b) /\ RowsKept(a, b)
      /\ Message(PutField(b, "OutIf", sample.outIf)) /\ RowsKept(b, PutField(b, "OutIf", sample.outIf))
  BY <1>1
<1> HIDE DEF a, b
<1> QED
  BY <1>2, <1>3, RowsKeptTransitive

LEMMA SampleFieldsSame ==
  ASSUME NEW m, Message(m), NEW n, Message(n), Same(m, n), NEW id, NEW sample
  PROVE  Same(SampleFields(m, id, sample), SampleFields(n, id, sample))
<1> DEFINE PutField(acc, f, x) == IF x = 0 THEN acc ELSE SetField(acc, f, <<id, x>>)
           a(z) == PutField(z, "SamplingRate", sample.rate)
           b(z) == PutField(a(z), "InIf", sample.inIf)
<1>1. \A x, y, f, v : Message(x) /\ Message(y) /\ Same(x, y) =>
        Message(PutField(x, f, v)) /\ Message(PutField(y, f, v)) /\ Same(PutField(x, f, v), PutField(y, f, v))
  BY SetFieldKeeps, SetFieldSame
<1>2. /\ SampleFields(m, id, sample) = PutField(b(m), "OutIf", sample.outIf)
      /\ SampleFields(n, id, sample) = PutField(b(n), "OutIf", sample.outIf)
  BY DEF SampleFields
<1> HIDE DEF PutField
<1>3. Message(a(m)) /\ Message(a(n)) /\ Same(a(m), a(n))
  BY <1>1
<1>4. Message(b(m)) /\ Message(b(n)) /\ Same(b(m), b(n))
  BY <1>1, <1>3
<1> QED
  BY <1>1, <1>2, <1>4

IsSamplePass(p, last, m, id, sample, decap) ==
  p = [i \in 0..last |->
         IF i = 0 THEN [m |-> SampleFields(m, id, sample), l3 |-> None]
         ELSE SampleRecord(p[i - 1], id, sample.records[i], sample, decap)]

LEMMA SamplePassExists ==
  ASSUME NEW last \in Nat, NEW m, NEW id, NEW sample, NEW decap
  PROVE  \E p : IsSamplePass(p, last, m, id, sample, decap)
<1> DEFINE First == [m |-> SampleFields(m, id, sample), l3 |-> None]
           After(s, i) == SampleRecord(s, id, sample.records[i], sample, decap)
           Has(k) == \E p : p = [i \in 0..k |-> IF i = 0 THEN First ELSE After(p[i - 1], i)]
           S == {k \in 0..last : Has(k)}
<1> HIDE DEF First, After
<1>1. 0 \in S
  <2>1. [i \in 0..0 |-> First] =
          [i \in 0..0 |-> IF i = 0 THEN First ELSE After([j \in 0..0 |-> First][i - 1], i)]
    OBVIOUS
  <2>2. Has(0)
    BY <2>1
  <2> QED
    BY <2>2
<1>2. ASSUME NEW k \in 1..last, k - 1 \in S
      PROVE  k \in S
  <2>1. PICK p : p = [i \in 0..(k - 1) |-> IF i = 0 THEN First ELSE After(p[i - 1], i)]
    BY <1>2
  <2> DEFINE q == [i \in 0..k |-> IF i = k THEN After(p[k - 1], k) ELSE p[i]]
  <2>2. ASSUME NEW i \in 0..k
        PROVE  q[i] = IF i = 0 THEN First ELSE After(q[i - 1], i)
    <3>1. CASE i = k
      <4>1. q[k] = After(p[k - 1], k) /\ q[k - 1] = p[k - 1] /\ k # 0
        OBVIOUS
      <4> QED
        BY <3>1, <4>1
    <3>2. CASE i = 0
      <4>1. q[0] = p[0] /\ p[0] = First
        BY <2>1
      <4> QED
        BY <3>2, <4>1
    <3>3. CASE i \in 1..(k - 1)
      <4>1. q[i] = p[i] /\ q[i - 1] = p[i - 1] /\ i # 0 /\ i \in 0..(k - 1)
        BY <3>3
      <4>2. p[i] = After(p[i - 1], i)
        BY <2>1, <4>1
      <4> QED
        BY <4>1, <4>2
    <3> QED
      BY <3>1, <3>2, <3>3
  <2>3. q = [i \in 0..k |-> q[i]]
    OBVIOUS
  <2> HIDE DEF q
  <2>4. q = [i \in 0..k |-> IF i = 0 THEN First ELSE After(q[i - 1], i)]
    BY <2>2, <2>3
  <2> QED
    BY <2>4
<1>3. last \in S
  <2> HIDE DEF S
  <2>1. \A k \in 0..last : k \in S
    BY <1>1, <1>2, UpTo
  <2> QED
    BY <2>1
<1>4. PICK p : p = [i \in 0..last |-> IF i = 0 THEN First ELSE After(p[i - 1], i)]
  BY <1>3
<1> QED
  BY <1>4 DEF IsSamplePass, First, After

LEMMA SamplePassIs ==
  ASSUME NEW last \in Nat, NEW m, NEW id, NEW sample, NEW decap
  PROVE  \E p : IsSamplePass(p, last, m, id, sample, decap)
                /\ SamplePass(m, id, sample, last, decap) = p[last]
<1> DEFINE p == CHOOSE p : IsSamplePass(p, last, m, id, sample, decap)
<1>1. IsSamplePass(p, last, m, id, sample, decap)
  BY SamplePassExists
<1>2. SamplePass(m, id, sample, last, decap) = p[last]
  BY DEF SamplePass, IsSamplePass
<1> QED
  BY <1>1, <1>2

LEMMA KindsOfSample ==
  ASSUME NEW sample \in SflowSamples
  PROVE  Len(sample.records) \in Nat
         /\ \A i \in 1..Len(sample.records) : sample.records[i].kind \in SampleKinds
<1> DEFINE S == {r \in Range(sample.records) : r.kind \in SampleKinds}
<1>1. sample.records \in Seq(S)
  BY BatchAssumption
<1>2. \A x \in S : x.kind \in SampleKinds
  OBVIOUS
<1> HIDE DEF S
<1>3. Len(sample.records) \in Nat /\ \A i \in 1..Len(sample.records) : sample.records[i] \in S
  BY <1>1
<1> QED
  BY <1>2, <1>3

LEMMA FirstOfSample ==
  ASSUME NEW last \in Nat, NEW m, NEW id, NEW sample, NEW decap, NEW p,
         IsSamplePass(p, last, m, id, sample, decap)
  PROVE  p[0] = [m |-> SampleFields(m, id, sample), l3 |-> None]
  BY DEF IsSamplePass

LEMMA StepOfSample ==
  ASSUME NEW last \in Nat, NEW m, NEW id, NEW sample, NEW decap, NEW p,
         IsSamplePass(p, last, m, id, sample, decap), NEW i \in 1..last
  PROVE  p[i] = SampleRecord(p[i - 1], id, sample.records[i], sample, decap)
<1> DEFINE First == [m |-> SampleFields(m, id, sample), l3 |-> None]
           After(s, j) == SampleRecord(s, id, sample.records[j], sample, decap)
<1>1. p = [j \in 0..last |-> IF j = 0 THEN First ELSE After(p[j - 1], j)]
  BY DEF IsSamplePass
<1> HIDE DEF First, After
<1>2. p[i] = After(p[i - 1], i)
  <2>1. i \in 0..last /\ i # 0
    OBVIOUS
  <2> QED
    BY <1>1, <2>1
<1> QED
  BY <1>2 DEF After

LEMMA SamplePassKept ==
  ASSUME NEW m, Message(m), NEW id, NEW sample \in SflowSamples, NEW last \in 0..Len(sample.records),
         NEW decap, NEW p, IsSamplePass(p, last, m, id, sample, decap)
  PROVE  \A i \in 0..last : SampleInv(p[i], m)
<1> DEFINE S == {i \in 0..last : SampleInv(p[i], m)}
<1>0. last \in Nat /\ \A i \in 1..last : sample.records[i].kind \in SampleKinds
  BY KindsOfSample
<1>1. 0 \in S
  <2>1. p[0] = [m |-> SampleFields(m, id, sample), l3 |-> None]
    BY <1>0, FirstOfSample
  <2>2. SampleInv(p[0], m)
    BY <2>1, SampleFieldsKeeps DEF SampleInv
  <2> QED
    BY <1>0, <2>2
<1>2. ASSUME NEW i \in 1..last, i - 1 \in S
      PROVE  i \in S
  <2>1. p[i] = SampleRecord(p[i - 1], id, sample.records[i], sample, decap)
    BY <1>0, StepOfSample
  <2>2. SampleInv(p[i - 1], m) /\ sample.records[i].kind \in SampleKinds
    BY <1>0, <1>2
  <2>3. SampleInv(p[i], m)
    BY <2>1, <2>2, SampleRecordKeeps
  <2> QED
    BY <1>0, <2>3
<1> HIDE DEF S
<1>3. \A i \in 0..last : i \in S
  BY <1>0, <1>1, <1>2, UpTo
<1> QED
  BY <1>3 DEF S

LEMMA SamplePassesSame ==
  ASSUME NEW m, Message(m), NEW n, Message(n), Same(m, n), NEW id, NEW sample \in SflowSamples,
         NEW last \in 0..Len(sample.records), NEW decap,
         NEW p, IsSamplePass(p, last, m, id, sample, decap),
         NEW q, IsSamplePass(q, last, n, id, sample, decap)
  PROVE  \A i \in 0..last : SampleSame(p[i], q[i])
<1> DEFINE S == {i \in 0..last : SampleSame(p[i], q[i])}
<1>0. last \in Nat /\ \A i \in 1..last : sample.records[i].kind \in SampleKinds
  BY KindsOfSample
<1>1. 0 \in S
  <2>1. /\ p[0] = [m |-> SampleFields(m, id, sample), l3 |-> None]
        /\ q[0] = [m |-> SampleFields(n, id, sample), l3 |-> None]
    BY <1>0, FirstOfSample
  <2>2. SampleSame(p[0], q[0])
    BY <2>1, SampleFieldsSame DEF SampleSame
  <2> QED
    BY <1>0, <2>2
<1>2. ASSUME NEW i \in 1..last, i - 1 \in S
      PROVE  i \in S
  <2>1. /\ p[i] = SampleRecord(p[i - 1], id, sample.records[i], sample, decap)
        /\ q[i] = SampleRecord(q[i - 1], id, sample.records[i], sample, decap)
    BY <1>0, StepOfSample
  <2>2. /\ SampleSame(p[i - 1], q[i - 1]) /\ sample.records[i].kind \in SampleKinds
        /\ SampleInv(p[i - 1], m) /\ SampleInv(q[i - 1], n)
    BY <1>0, <1>2, SamplePassKept
  <2>3. SampleSame(p[i], q[i])
    BY <2>1, <2>2, SampleRecordSame
  <2> QED
    BY <1>0, <2>3
<1> HIDE DEF S
<1>3. \A i \in 0..last : i \in S
  BY <1>0, <1>1, <1>2, UpTo
<1> QED
  BY <1>3 DEF S

LEMMA SamplePassKeeps ==
  ASSUME NEW m, Message(m), NEW id, NEW sample \in SflowSamples, NEW last \in 0..Len(sample.records),
         NEW decap
  PROVE  SampleInv(SamplePass(m, id, sample, last, decap), m)
<1>1. last \in Nat /\ last \in 0..last
  BY KindsOfSample
<1>2. PICK p : IsSamplePass(p, last, m, id, sample, decap)
               /\ SamplePass(m, id, sample, last, decap) = p[last]
  BY <1>1, SamplePassIs
<1> QED
  BY <1>1, <1>2, SamplePassKept

LEMMA SamplePassSame ==
  ASSUME NEW m, Message(m), NEW n, Message(n), Same(m, n), NEW id, NEW sample \in SflowSamples,
         NEW last \in 0..Len(sample.records), NEW decap
  PROVE  SampleSame(SamplePass(m, id, sample, last, decap), SamplePass(n, id, sample, last, decap))
<1>1. last \in Nat /\ last \in 0..last
  BY KindsOfSample
<1>2. PICK p : IsSamplePass(p, last, m, id, sample, decap)
               /\ SamplePass(m, id, sample, last, decap) = p[last]
  BY <1>1, SamplePassIs
<1>3. PICK q : IsSamplePass(q, last, n, id, sample, decap)
               /\ SamplePass(n, id, sample, last, decap) = q[last]
  BY <1>1, SamplePassIs
<1> QED
  BY <1>1, <1>2, <1>3, SamplePassesSame

LEMMA SampleColumnsKeeps ==
  ASSUME NEW s, Message(s.m), NEW id, NEW sample
  PROVE  Message(SampleColumns(s, id, sample)) /\ RowsKept(s.m, SampleColumns(s, id, sample))
<1> DEFINE x == AppendColumn(s.m, "Bytes", s.l3)
           y == AppendColumn(x, "Packets", <<id, 201>>)
           v == IF sample.discard = 0 THEN None ELSE <<id, sample.discard>>
<1>1. SampleColumns(s, id, sample) = AppendColumn(y, "ForwardingStatus", v)
  BY DEF SampleColumns
<1> HIDE DEF v
<1>2. Message(x) /\ RowsKept(s.m, x)
  BY AppendColumnKeeps
<1> HIDE DEF x
<1>3. Message(y) /\ RowsKept(s.m, y)
  BY <1>2, AppendColumnKeeps, RowsKeptTransitive
<1> HIDE DEF y
<1> QED
  BY <1>1, <1>3, AppendColumnKeeps, RowsKeptTransitive

LEMMA SampleColumnsSame ==
  ASSUME NEW s, Message(s.m), NEW t, Message(t.m), SampleSame(s, t), NEW id, NEW sample
  PROVE  Same(SampleColumns(s, id, sample), SampleColumns(t, id, sample))
<1> DEFINE x(z) == AppendColumn(z, "Bytes", s.l3)
           y(z) == AppendColumn(x(z), "Packets", <<id, 201>>)
           v == IF sample.discard = 0 THEN None ELSE <<id, sample.discard>>
<1>1. /\ SampleColumns(s, id, sample) = AppendColumn(y(s.m), "ForwardingStatus", v)
      /\ SampleColumns(t, id, sample) = AppendColumn(y(t.m), "ForwardingStatus", v)
  BY DEF SampleColumns, SampleSame
<1> HIDE DEF v
<1>2. Message(x(s.m)) /\ Message(x(t.m)) /\ Same(x(s.m), x(t.m))
  BY AppendColumnKeeps, AppendColumnSame DEF SampleSame
<1> HIDE DEF x
<1>3. Message(y(s.m)) /\ Message(y(t.m)) /\ Same(y(s.m), y(t.m))
  BY <1>2, AppendColumnKeeps, AppendColumnSame
<1> HIDE DEF y
<1> QED
  BY <1>1, <1>3, AppendColumnSame

LEMMA SampleOutcome ==
  ASSUME NEW m, Message(m), NEW id, NEW sample \in SflowSamples, NEW decap, NEW verdict \in Verdicts,
         NEW origin
  PROVE  LET n == decodeSample(m, id, sample, decap, verdict, origin)
         IN  Outcome(m, n, verdict, origin) /\ (SampleDropped(sample, decap) \/ Clean(n))
<1> DEFINE s == SamplePass(m, id, sample, Len(sample.records), decap)
           x == SampleColumns(s, id, sample)
           y == SetField(x, "TimeReceived", <<id, 2>>)
           z == SetField(y, "ExporterAddress", <<id, 3>>)
           n == decodeSample(m, id, sample, decap, verdict, origin)
<1>1. n = IF SampleDropped(sample, decap) THEN s.m ELSE finalizeFlow(z, verdict, origin)
  BY DEF decodeSample, FinalizeSample
<1>2. Message(s.m) /\ RowsKept(m, s.m)
  BY KindsOfSample, SamplePassKeeps DEF SampleInv
<1> HIDE DEF s, n
<1>3. Message(x) /\ RowsKept(m, x)
  BY <1>2, SampleColumnsKeeps, RowsKeptTransitive
<1> HIDE DEF x
<1>4. Message(y) /\ RowsKept(m, y)
  BY <1>3, SetFieldKeeps, RowsKeptTransitive
<1> HIDE DEF y
<1>5. Message(z) /\ RowsKept(m, z)
  BY <1>4, SetFieldKeeps, RowsKeptTransitive
<1> HIDE DEF z
<1>6. LET o == finalizeFlow(z, verdict, origin) IN Outcome(m, o, verdict, origin) /\ Clean(o)
  BY <1>5, FinalizeFlowOutcome, OutcomeLater
<1>7. Outcome(m, s.m, verdict, origin)
  BY <1>2 DEF Outcome
<1>8. Outcome(m, n, verdict, origin) /\ (SampleDropped(sample, decap) \/ Clean(n))
  BY <1>1, <1>6, <1>7
<1> QED
  BY <1>8 DEF n

LEMMA SampleLike ==
  ASSUME NEW m, Message(m), NEW x, Message(x), Same(m, x), NEW id, NEW sample \in SflowSamples,
         NEW decap, NEW verdict \in Verdicts, NEW origin, NEW other
  PROVE  RowLike(m, decodeSample(m, id, sample, decap, verdict, origin),
                 x, decodeSample(x, id, sample, decap, "added", other))
<1> DEFINE s(z) == SamplePass(z, id, sample, Len(sample.records), decap)
           a(z) == SampleColumns(s(z), id, sample)
           b(z) == SetField(a(z), "TimeReceived", <<id, 2>>)
           c(z) == SetField(b(z), "ExporterAddress", <<id, 3>>)
           n == decodeSample(m, id, sample, decap, verdict, origin)
           o == decodeSample(x, id, sample, decap, "added", other)
<1>1. /\ n = IF SampleDropped(sample, decap) THEN s(m).m ELSE finalizeFlow(c(m), verdict, origin)
      /\ o = IF SampleDropped(sample, decap) THEN s(x).m ELSE finalizeFlow(c(x), "added", other)
  BY DEF decodeSample, FinalizeSample
<1>2. /\ SampleInv(s(m), m) /\ SampleInv(s(x), x) /\ SampleSame(s(m), s(x))
  BY KindsOfSample, SamplePassKeeps, SamplePassSame
<1> HIDE DEF s, n, o
<1>3. /\ Message(a(m)) /\ Message(a(x)) /\ Same(a(m), a(x)) /\ RowsKept(m, a(m)) /\ RowsKept(x, a(x))
  BY <1>2, SampleColumnsKeeps, SampleColumnsSame, RowsKeptTransitive DEF SampleInv
<1> HIDE DEF a
<1>4. /\ Message(b(m)) /\ Message(b(x)) /\ Same(b(m), b(x)) /\ RowsKept(m, b(m)) /\ RowsKept(x, b(x))
  BY <1>3, SetFieldKeeps, SetFieldSame, RowsKeptTransitive
<1> HIDE DEF b
<1>5. /\ Message(c(m)) /\ Message(c(x)) /\ Same(c(m), c(x)) /\ RowsKept(m, c(m)) /\ RowsKept(x, c(x))
  BY <1>4, SetFieldKeeps, SetFieldSame, RowsKeptTransitive
<1> HIDE DEF c
<1>6. RowLike(m, finalizeFlow(c(m), verdict, origin), x, finalizeFlow(c(x), "added", other))
  BY <1>5, FinalizeFlowLike, RowLikeLater
<1>7. RowLike(m, s(m).m, x, s(x).m)
  <2>1. s(m).m.rows = m.rows /\ m.rows \in Nat
    BY <1>2 DEF SampleInv, RowsKept, Message
  <2> QED
    BY <2>1 DEF RowLike
<1>8. RowLike(m, n, x, o)
  BY <1>1, <1>6, <1>7
<1> QED
  BY <1>8 DEF n, o

----------------------------------------------------------------------------
(* The rows are the ones of their records.                                 *)
GoodRows(m) ==
  /\ Message(m)
  /\ \A r \in 1..m.rows : m.origin[r].clean => Row(m, r) = Alone(m.origin[r])

LEMMA GoodAfter ==
  ASSUME NEW m, GoodRows(m), NEW n, NEW verdict, NEW origin, Outcome(m, n, verdict, origin),
         (n.rows = m.rows + 1 /\ origin.clean) => Row(n, m.rows + 1) = Alone(origin)
  PROVE  GoodRows(n)
<1>0. Message(m) /\ Message(n) /\ m.rows \in Nat /\ Plain(m.origin) /\ Len(m.origin) = m.rows
  BY DEF GoodRows, Outcome, Message
<1>1. ASSUME \A c \in Columns : \A r \in 1..m.rows : n.columns[c][r] = m.columns[c][r]
      PROVE  \A r \in 1..m.rows : Row(n, r) = Row(m, r)
  BY <1>1 DEF Row
<1>2. CASE RowsKept(m, n)
  <2>1. n.rows = m.rows /\ n.origin = m.origin /\ \A r \in 1..m.rows : Row(n, r) = Row(m, r)
    BY <1>1, <1>2 DEF RowsKept
  <2> QED
    BY <1>0, <2>1 DEF GoodRows
<1>3. CASE n.rows = 0
  BY <1>0, <1>3 DEF GoodRows
<1>4. CASE RowAdded(m, n, origin)
  <2>1. n.rows = m.rows + 1 /\ n.origin = Append(m.origin, origin)
        /\ \A r \in 1..m.rows : Row(n, r) = Row(m, r)
    BY <1>1, <1>4 DEF RowAdded
  <2>2. n.origin[m.rows + 1] = origin /\ \A r \in 1..m.rows : n.origin[r] = m.origin[r]
    BY <1>0, <2>1, PlainAppend
  <2>3. ASSUME NEW r \in 1..n.rows, n.origin[r].clean
        PROVE  Row(n, r) = Alone(n.origin[r])
    <3>1. CASE r = m.rows + 1
      BY <2>1, <2>2, <2>3, <3>1
    <3>2. CASE r \in 1..m.rows
      BY <2>1, <2>2, <2>3, <3>2 DEF GoodRows
    <3> QED
      BY <1>0, <2>1, <3>1, <3>2
  <2> QED
    BY <1>0, <2>3 DEF GoodRows
<1> QED
  BY <1>2, <1>3, <1>4 DEF Outcome

(* A record that is decoded alone, in its two directions.                  *)
LEMMA AloneNetflow ==
  ASSUME NEW o, o.decoder = "netflow"
  PROVE  LET a == ForwardRecord(NewFlowMessage, o.id, o.rec, o.decap, "added", o)
             b == AndReverse(a, o.id, o.rec, o.decap, "added", [o EXCEPT !.dir = "reverse"])
         IN  /\ o.dir = "forward" => Alone(o) = Row(b, 1)
             /\ o.dir = "reverse" => Alone(o) = Row(b, b.rows)
<1> DEFINE a == ForwardRecord(NewFlowMessage, o.id, o.rec, o.decap, "added", o)
           b == AndReverse(a, o.id, o.rec, o.decap, "added", [o EXCEPT !.dir = "reverse"])
<1>1. decodeRecord(NewFlowMessage, o.id, o.rec, o.decap, <<"added", "added">>, o) = b
  BY DEF decodeRecord
<1>2. Alone(o) = RowOf(o.dir, b)
  BY <1>1 DEF Alone
<1> HIDE DEF b
<1>3. /\ o.dir = "forward" => Alone(o) = Row(b, 1)
      /\ o.dir = "reverse" => Alone(o) = Row(b, b.rows)
  BY <1>2 DEF RowOf
<1> QED
  BY <1>3 DEF b

LEMMA ForwardGood ==
  ASSUME NEW m, GoodRows(m), NEW o, o.decoder = "netflow", o.dir = "forward", o.rec \in NetflowRecords,
         o.clean => Clean(m), NEW verdict \in Verdicts
  PROVE  LET n == ForwardRecord(m, o.id, o.rec, o.decap, verdict, o) IN GoodRows(n) /\ Clean(n)
<1> DEFINE n == ForwardRecord(m, o.id, o.rec, o.decap, verdict, o)
           a == ForwardRecord(NewFlowMessage, o.id, o.rec, o.decap, "added", o)
           p == [o EXCEPT !.dir = "reverse"]
           b == AndReverse(a, o.id, o.rec, o.decap, "added", p)
<1>0. Message(m) /\ Message(NewFlowMessage) /\ Clean(NewFlowMessage) /\ NewFlowMessage.rows = 0
      /\ "added" \in Verdicts
  BY NewIsMessage DEF GoodRows, NewFlowMessage, Verdicts
<1>1. Outcome(m, n, verdict, o) /\ Clean(n)
  BY <1>0, ForwardOutcome
<1>2. Message(a)
  BY <1>0, ForwardOutcome DEF Outcome
<1>3. o.clean => RowLike(m, n, NewFlowMessage, a)
  BY <1>0, CleanSame, ForwardLike
<1>4. Alone(o) = Row(b, 1)
  BY AloneNetflow
<1> HIDE DEF n, a, p
<1>5. RowsKept(a, b) \/ RowAdded(a, b, p)
  <2>1. CASE reversePresent(o.rec) = {}
    BY <2>1 DEF AndReverse, RowsKept
  <2>2. CASE reversePresent(o.rec) # {}
    <3>1. b = ReverseRecord(a, o.id, o.rec, o.decap, "added", p)
      BY <2>2 DEF AndReverse
    <3>2. Outcome(a, ReverseRecord(a, o.id, o.rec, o.decap, "added", p), "added", p)
      BY <1>0, <1>2, ReverseOutcome
    <3> QED
      BY <3>1, <3>2 DEF Outcome
  <2> QED
    BY <2>1, <2>2
<1> HIDE DEF b
<1>6. ASSUME n.rows = m.rows + 1, o.clean
      PROVE  Row(n, m.rows + 1) = Alone(o)
  <2>1. a.rows = 1 /\ \A c \in Columns : n.columns[c][m.rows + 1] = a.columns[c][1]
    BY <1>0, <1>3, <1>6 DEF RowLike
  <2>2. \A c \in Columns : b.columns[c][1] = a.columns[c][1]
    BY <1>5, <2>1 DEF RowsKept, RowAdded
  <2>3. Row(n, m.rows + 1) = Row(b, 1)
    BY <2>1, <2>2 DEF Row
  <2> QED
    BY <1>4, <2>3
<1>7. GoodRows(n)
  BY <1>1, <1>6, GoodAfter
<1> QED
  BY <1>1, <1>7 DEF n

LEMMA ReverseGood ==
  ASSUME NEW m, GoodRows(m), Clean(m), NEW o, o.decoder = "netflow", o.dir = "reverse",
         o.rec \in NetflowRecords, reversePresent(o.rec) # {}, NEW verdict \in Verdicts
  PROVE  LET n == ReverseRecord(m, o.id, o.rec, o.decap, verdict, o) IN GoodRows(n) /\ Clean(n)
<1> DEFINE n == ReverseRecord(m, o.id, o.rec, o.decap, verdict, o)
           a == ForwardRecord(NewFlowMessage, o.id, o.rec, o.decap, "added", o)
           p == [o EXCEPT !.dir = "reverse"]
           b == ReverseRecord(a, o.id, o.rec, o.decap, "added", p)
<1>0. Message(m) /\ Message(NewFlowMessage) /\ "added" \in Verdicts
  BY NewIsMessage DEF GoodRows, Verdicts
<1>1. Outcome(m, n, verdict, o) /\ Clean(n)
  BY <1>0, ReverseOutcome
<1>2. Message(a) /\ Clean(a)
  BY <1>0, ForwardOutcome DEF Outcome
<1>3. Alone(o) = Row(b, b.rows)
  BY AloneNetflow DEF AndReverse
<1> HIDE DEF a, p
<1>4. RowLike(m, n, a, b)
  BY <1>0, <1>2, CleanSame, ReverseLike
<1> HIDE DEF n, b
<1>5. ASSUME n.rows = m.rows + 1
      PROVE  Row(n, m.rows + 1) = Alone(o)
  <2>1. b.rows = a.rows + 1 /\ \A c \in Columns : n.columns[c][m.rows + 1] = b.columns[c][b.rows]
    BY <1>4, <1>5 DEF RowLike
  <2>2. Row(n, m.rows + 1) = Row(b, b.rows)
    BY <2>1 DEF Row
  <2> QED
    BY <1>3, <2>2
<1>6. GoodRows(n)
  BY <1>1, <1>5, GoodAfter
<1> QED
  BY <1>1, <1>6 DEF n

LEMMA SampleGood ==
  ASSUME NEW m, GoodRows(m), NEW o, o.decoder = "sflow", o.dir = "forward", o.rec \in SflowSamples,
         o.clean => Clean(m), NEW verdict \in Verdicts
  PROVE  LET n == decodeSample(m, o.id, o.rec, o.decap, verdict, o)
         IN  GoodRows(n) /\ (SampleDropped(o.rec, o.decap) \/ Clean(n))
<1> DEFINE n == decodeSample(m, o.id, o.rec, o.decap, verdict, o)
           a == decodeSample(NewFlowMessage, o.id, o.rec, o.decap, "added", o)
<1>0. Message(m) /\ Message(NewFlowMessage) /\ Clean(NewFlowMessage) /\ NewFlowMessage.rows = 0
  BY NewIsMessage DEF GoodRows, NewFlowMessage
<1>1. Outcome(m, n, verdict, o) /\ (SampleDropped(o.rec, o.decap) \/ Clean(n))
  BY <1>0, SampleOutcome
<1>2. o.clean => RowLike(m, n, NewFlowMessage, a)
  BY <1>0, CleanSame, SampleLike
<1>3. Alone(o) = Row(a, 1)
  BY DEF Alone, RowOf
<1> HIDE DEF n, a
<1>4. ASSUME n.rows = m.rows + 1, o.clean
      PROVE  Row(n, m.rows + 1) = Alone(o)
  <2>1. \A c \in Columns : n.columns[c][m.rows + 1] = a.columns[c][1]
    BY <1>0, <1>2, <1>4 DEF RowLike
  <2> QED
    BY <1>3, <2>1 DEF Row
<1>5. GoodRows(n)
  BY <1>1, <1>4, GoodAfter
<1> QED
  BY <1>1, <1>5 DEF n

(* What a panic leaves.                                                    *)
LEMMA GoodKept ==
  ASSUME NEW m, GoodRows(m), NEW n, Message(n), RowsKept(m, n)
  PROVE  GoodRows(n)
<1>1. Outcome(m, n, "added", [clean |-> FALSE])
  BY DEF Outcome
<1> QED
  BY <1>1, GoodAfter

BatchInv == GoodRows(bf) /\ LeftoversKnown

LEMMA OriginIs ==
  ASSUME NEW decoder, NEW rec, NEW decap
  PROVE  LET o == Origin(decoder, rec, decap)
             p == [o EXCEPT !.dir = "reverse"]
         IN  /\ o.id = nextId /\ o.decoder = decoder /\ o.rec = rec /\ o.decap = decap
             /\ o.dir = "forward" /\ o.clean = Clean(bf)
             /\ p.id = nextId /\ p.decoder = decoder /\ p.rec = rec /\ p.decap = decap
             /\ p.dir = "reverse"
  BY DEF Origin

LEMMA DecodeNetflowInv ==
  ASSUME BatchInv, DecodeNetflow
  PROVE  BatchInv'
<1>1. PICK rec \in NetflowRecords, decap \in BatchDecaps, verdicts \in Verdicts \X Verdicts :
        bf' = decodeRecord(bf, nextId, rec, decap, verdicts, Origin("netflow", rec, decap))
  BY DEF DecodeNetflow
<1> DEFINE o == Origin("netflow", rec, decap)
           p == [o EXCEPT !.dir = "reverse"]
           n == ForwardRecord(bf, nextId, rec, decap, verdicts[1], o)
<1>2. bf' = AndReverse(n, nextId, rec, decap, verdicts[2], p)
  BY <1>1 DEF decodeRecord
<1>3. /\ o.id = nextId /\ o.decoder = "netflow" /\ o.rec = rec /\ o.decap = decap
      /\ o.dir = "forward" /\ o.clean = Clean(bf)
      /\ p.id = nextId /\ p.decoder = "netflow" /\ p.rec = rec /\ p.decap = decap /\ p.dir = "reverse"
  BY OriginIs
<1>4. verdicts[1] \in Verdicts /\ verdicts[2] \in Verdicts /\ GoodRows(bf)
  BY DEF BatchInv
<1> HIDE DEF o, p
<1>5. GoodRows(n) /\ Clean(n)
  <2>1. LET x == ForwardRecord(bf, o.id, o.rec, o.decap, verdicts[1], o) IN GoodRows(x) /\ Clean(x)
    BY <1>3, <1>4, ForwardGood
  <2> QED
    BY <1>3, <2>1
<1> HIDE DEF n
<1>6. GoodRows(bf') /\ Clean(bf')
  <2>1. CASE reversePresent(rec) = {}
    BY <1>2, <1>5, <2>1 DEF AndReverse
  <2>2. CASE reversePresent(rec) # {}
    <3>1. LET x == ReverseRecord(n, p.id, p.rec, p.decap, verdicts[2], p) IN GoodRows(x) /\ Clean(x)
      BY <1>3, <1>4, <1>5, <2>2, ReverseGood
    <3> QED
      BY <1>2, <1>3, <2>2, <3>1 DEF AndReverse
  <2> QED
    BY <2>1, <2>2
<1> QED
  BY <1>6 DEF BatchInv, LeftoversKnown, Clean, NoFields, Fields

LEMMA DecodeSflowInv ==
  ASSUME BatchInv, DecodeSflow
  PROVE  BatchInv'
<1>1. PICK sample \in SflowSamples, decap \in BatchDecaps, verdict \in Verdicts :
        /\ bf' = decodeSample(bf, nextId, sample, decap, verdict, Origin("sflow", sample, decap))
        /\ ended' = IF SampleDropped(sample, decap) THEN "skipped" ELSE "finalized"
  BY DEF DecodeSflow
<1> DEFINE o == Origin("sflow", sample, decap)
<1>2. /\ o.id = nextId /\ o.decoder = "sflow" /\ o.rec = sample /\ o.decap = decap
      /\ o.dir = "forward" /\ o.clean = Clean(bf)
  BY OriginIs
<1>3. GoodRows(bf)
  BY DEF BatchInv
<1> HIDE DEF o
<1>4. LET n == decodeSample(bf, o.id, o.rec, o.decap, verdict, o)
      IN  GoodRows(n) /\ (SampleDropped(o.rec, o.decap) \/ Clean(n))
  BY <1>2, <1>3, SampleGood
<1>5. GoodRows(bf') /\ (SampleDropped(sample, decap) \/ Clean(bf'))
  BY <1>1, <1>2, <1>4 DEF o
<1> QED
  BY <1>1, <1>5 DEF BatchInv, LeftoversKnown

LEMMA DecoderPanicsInv ==
  ASSUME BatchInv, DecoderPanics
  PROVE  BatchInv'
<1>0. GoodRows(bf) /\ Message(bf) /\ ended' = "panic"
  BY DEF BatchInv, GoodRows, DecoderPanics
<1>1. PICK decap \in BatchDecaps :
       \/ \E rec \in NetflowRecords : \E last \in 1..(Len(rec) - 1) :
            \E dir \in IF reversePresent(rec) = {} THEN {"forward"} ELSE {"forward", "reverse"} :
              bf' = DecodeFields(IF dir = "forward" THEN bf
                                 ELSE Reverse_(ForwardRecord(bf, nextId, rec, decap, "added",
                                                             Origin("netflow", rec, decap))),
                                 nextId, rec, last, dir, decap).m
       \/ \E sample \in SflowSamples : \E last \in 0..Len(sample.records) :
            bf' = SamplePass(bf, nextId, sample, last, decap).m
  BY DEF DecoderPanics
<1>2. ASSUME NEW rec \in NetflowRecords, NEW last \in 1..(Len(rec) - 1), NEW dir,
             bf' = DecodeFields(IF dir = "forward" THEN bf
                                ELSE Reverse_(ForwardRecord(bf, nextId, rec, decap, "added",
                                                            Origin("netflow", rec, decap))),
                                nextId, rec, last, dir, decap).m
      PROVE  GoodRows(bf')
  <2> DEFINE o == Origin("netflow", rec, decap)
             n == ForwardRecord(bf, nextId, rec, decap, "added", o)
             m == IF dir = "forward" THEN bf ELSE Reverse_(n)
  <2>1. /\ o.id = nextId /\ o.decoder = "netflow" /\ o.rec = rec /\ o.decap = decap
        /\ o.dir = "forward" /\ o.clean = Clean(bf)
    BY OriginIs
  <2>2. last \in 0..Len(rec) /\ "added" \in Verdicts
    BY LengthOfRecord DEF Verdicts
  <2> HIDE DEF o
  <2>3. GoodRows(n)
    <3>1. LET x == ForwardRecord(bf, o.id, o.rec, o.decap, "added", o) IN GoodRows(x)
      BY <1>0, <2>1, <2>2, ForwardGood
    <3> QED
      BY <2>1, <3>1
  <2> HIDE DEF n
  <2>4. GoodRows(m) /\ Message(m)
    BY <1>0, <2>3, ReverseKeeps, GoodKept DEF GoodRows
  <2>5. bf' = DecodeFields(m, nextId, rec, last, dir, decap).m
    BY <1>2 DEF n, o
  <2> HIDE DEF m
  <2>6. LET x == DecodeFields(m, nextId, rec, last, dir, decap).m IN Message(x) /\ RowsKept(m, x)
    BY <2>2, <2>4, DecodeFieldsKeeps DEF PassInv
  <2> QED
    BY <2>4, <2>5, <2>6, GoodKept
<1>3. ASSUME NEW sample \in SflowSamples, NEW last \in 0..Len(sample.records),
             bf' = SamplePass(bf, nextId, sample, last, decap).m
      PROVE  GoodRows(bf')
  <2>1. Message(bf') /\ RowsKept(bf, bf')
    BY <1>0, <1>3, SamplePassKeeps DEF SampleInv
  <2> QED
    BY <1>0, <2>1, GoodKept
<1>4. GoodRows(bf')
  BY <1>1, <1>2, <1>3
<1> QED
  BY <1>0, <1>4 DEF BatchInv, LeftoversKnown

(* The rows of a batch, for any records, samples, decapsulations and       *)
(* verdicts of the core component: a column has one value per row, and one *)
(* more when the flow being built has set it; whatever was decoded, given  *)
(* up, sent or reversed before it, a row is the one that its record alone  *)
(* gives, unless something was left behind; and only a panic and a skipped *)
(* sample leave something behind.                                          *)
THEOREM BatchIsRight == BatchSpec => []BatchRight
<1>1. BatchInit => BatchInv
  BY NewIsMessage DEF BatchInit, BatchInv, GoodRows, LeftoversKnown, NewFlowMessage
<1>2. BatchInv /\ [BatchNext]_batchVars => BatchInv'
  <2>1. CASE DecodeNetflow
    BY <2>1, DecodeNetflowInv
  <2>2. CASE DecodeSflow
    BY <2>2, DecodeSflowInv
  <2>3. CASE DecoderPanics
    BY <2>3, DecoderPanicsInv
  <2>4. CASE UNCHANGED batchVars
    BY <2>4 DEF batchVars, BatchInv, LeftoversKnown
  <2> QED
    BY <2>1, <2>2, <2>3, <2>4 DEF BatchNext
<1>3. BatchInv => BatchRight
  BY DEF BatchInv, GoodRows, Message, ColumnsInv, BatchRight, BatchAligned, RowsFromOneFlow
<1> QED
  BY <1>1, <1>2, <1>3, PTL DEF BatchSpec
=============================================================================
