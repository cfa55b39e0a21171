------------------------------ MODULE NetFlow ------------------------------
(***************************************************************************)
(* outlet/flow/decoder/netflow: the templates and the sampling rates that  *)
(* exporters announce, shared by the workers that decode their packets,    *)
(* and saved by outlet/flow when the outlet stops.                         *)
(*                                                                         *)
(* The packets of an exporter go through Kafka and are handled by several  *)
(* workers, in any order.  A packet is first parsed, each of its sets with *)
(* the template that is known at that time, then decoded, each record with *)
(* the sampling rate that is known at that time.                           *)
(***************************************************************************)
EXTENDS Naturals, Sequences, FiniteSets, TLC

CONSTANTS
  NfExporters, NfDomains,   \* exporters and their observation domains
  NfWorkers,                \* workers of the outlet
  MaxLayout,                \* bound on the changes of a template or of a rate
  MaxPackets,               \* bound on the packets that are sent
  MaxOutages                \* bound on the stops and crashes

VARIABLES
  sentPackets,              \* number of packets sent so far
  onTheWay,                 \* packets sent and not handled yet
  Templates, SamplingRates, \* the collection of the decoder
  nfFile,                   \* state saved in the file
  nfWorker,                 \* what each worker does
  outletUp, outages,
  announced, nfUsed           \* ghosts: what was announced, what was used

nfVars == <<sentPackets, onTheWay, Templates, SamplingRates, nfFile, nfWorker, outletUp,
            outages, announced, nfUsed>>

Sources == NfExporters \X NfDomains
Idle == [phase |-> "idle"]
Unknown == 0
AsTemplate == 100          \* what is announced: a template, or the rate of a sampler

templateKey(source) == source

(* Mistake: all the samplers of a source share a rate.                     *)
samplingRateKeyShared(source, sampler) == <<source, 0>>

samplingRateKey(source, sampler) == <<source, sampler>>

GetTemplate(source) ==
  IF templateKey(source) \in DOMAIN Templates THEN Templates[templateKey(source)] ELSE Unknown

GetSamplingRate(source, sampler) ==
  LET key == samplingRateKey(source, sampler)
  IN IF key \in DOMAIN SamplingRates THEN SamplingRates[key] ELSE Unknown

(* A map in which a key is assigned.                                       *)
Assigned(map, key, value) ==
  [k \in {key} \cup DOMAIN map |-> IF k = key THEN value ELSE map[k]]

NfInit ==
  /\ sentPackets = 0 /\ onTheWay = {}
  /\ Templates = <<>> /\ SamplingRates = <<>>
  /\ nfFile = [templates |-> <<>>, rates |-> <<>>]
  /\ nfWorker = [w \in NfWorkers |-> Idle]
  /\ outletUp = TRUE /\ outages = 0
  /\ announced = {} /\ nfUsed = {}

(* The sets of a packet: a template, the rate of a sampler, records.       *)
TemplateSet == [kind |-> "template"]
OptionsSet(sampler) == [kind |-> "options", sampler |-> sampler]
DataSet(sampler) == [kind |-> "data", sampler |-> sampler]
PacketContents ==
  {<<TemplateSet, DataSet(1)>>, <<DataSet(1)>>, <<TemplateSet, OptionsSet(1)>>,
   <<OptionsSet(0), DataSet(0)>>}

(* An exporter sends a packet, with the layout it has at that time.  The   *)
(* rate of a sampler is ten times its number, plus the layout.             *)
SendPacket ==
  /\ sentPackets < MaxPackets
  /\ \E source \in Sources, sets \in PacketContents, layout \in 1..MaxLayout :
       /\ onTheWay' = onTheWay \cup {[source |-> source, sets |-> sets, layout |-> layout]}
       /\ announced' = announced
            \cup {<<source, AsTemplate, layout>> : i \in {j \in DOMAIN sets : sets[j].kind = "template"}}
            \cup {<<source, sets[i].sampler, 10 * sets[i].sampler + layout>> :
                    i \in {j \in DOMAIN sets : sets[j].kind = "options"}}
  /\ sentPackets' = sentPackets + 1
  /\ UNCHANGED <<Templates, SamplingRates, nfFile, nfWorker, outletUp, outages, nfUsed>>

(* A worker gets a packet.                                                 *)
ReceivePacket(w) ==
  /\ outletUp /\ nfWorker[w] = Idle
  /\ \E p \in onTheWay :
       /\ onTheWay' = onTheWay \ {p}
       /\ nfWorker' = [nfWorker EXCEPT ![w] =
            [phase |-> "parse", packet |-> p, i |-> 1, found |-> <<>>]]
  /\ UNCHANGED <<sentPackets, Templates, SamplingRates, nfFile, outletUp, outages, announced, nfUsed>>

(* A set is parsed with a template; after the last one, they are decoded.  *)
Parsed_(s, template) ==
  IF s.i = Len(s.packet.sets)
  THEN [s EXCEPT !.found = Append(@, template), !.phase = "decode", !.i = 1]
  ELSE [s EXCEPT !.found = Append(@, template), !.i = @ + 1]

(* The next set is parsed: a template is stored, another set needs its     *)
(* template, and the whole packet is given up when it is not known.        *)
ParseSet(w) ==
  LET s == nfWorker[w] IN
  /\ s.phase = "parse"
  /\ IF s.packet.sets[s.i].kind = "template"
     THEN /\ Templates' = Assigned(Templates, templateKey(s.packet.source), s.packet.layout)
          /\ nfWorker' = [nfWorker EXCEPT ![w] = Parsed_(s, Unknown)]
     ELSE /\ nfWorker' = [nfWorker EXCEPT ![w] =
               IF GetTemplate(s.packet.source) = Unknown THEN Idle
               ELSE Parsed_(s, GetTemplate(s.packet.source))]
          /\ UNCHANGED Templates
  /\ UNCHANGED <<sentPackets, onTheWay, SamplingRates, nfFile, outletUp, outages, announced, nfUsed>>

(* The rate of a record is the one of its sampler, or the one of the       *)
(* sampler 0.                                                              *)
RateOf(source, sampler) ==
  IF GetSamplingRate(source, sampler) # Unknown
  THEN <<sampler, GetSamplingRate(source, sampler)>> ELSE <<0, GetSamplingRate(source, 0)>>

decodeSet(w) ==
  LET s == nfWorker[w]
      p == s.packet
      set == p.sets[s.i]
  IN /\ s.phase = "decode"
     /\ CASE set.kind = "template" -> UNCHANGED <<SamplingRates, nfUsed>>
          [] set.kind = "options" ->
               /\ SamplingRates' = Assigned(SamplingRates,
                    samplingRateKey(p.source, set.sampler), 10 * set.sampler + p.layout)
               /\ UNCHANGED nfUsed
          [] set.kind = "data" ->
               /\ nfUsed' = nfUsed \cup {[source |-> p.source, layout |-> s.found[s.i],
                                      rate |-> RateOf(p.source, set.sampler)]}
               /\ UNCHANGED SamplingRates
     /\ nfWorker' = [nfWorker EXCEPT ![w] = IF s.i = Len(p.sets) THEN Idle ELSE [s EXCEPT !.i = @ + 1]]
     /\ UNCHANGED <<sentPackets, onTheWay, Templates, nfFile, outletUp, outages, announced>>

SaveState == [templates |-> Templates, rates |-> SamplingRates]

(* The outlet stops, once its workers have stopped; it restores the file   *)
(* when it starts again.                                                   *)
StopOutlet ==
  /\ outletUp /\ outages < MaxOutages
  /\ \A w \in NfWorkers : nfWorker[w] = Idle
  /\ outletUp' = FALSE /\ outages' = outages + 1
  /\ nfFile' = SaveState
  /\ UNCHANGED <<sentPackets, onTheWay, Templates, SamplingRates, nfWorker, announced, nfUsed>>

(* A crash: nothing is saved, and the packets of the workers are lost or   *)
(* delivered again.                                                        *)
CrashOutlet ==
  /\ outletUp /\ outages < MaxOutages
  /\ outletUp' = FALSE /\ outages' = outages + 1
  /\ \E again \in SUBSET {nfWorker[w].packet : w \in {v \in NfWorkers : nfWorker[v] # Idle}} :
       onTheWay' = onTheWay \cup again
  /\ nfWorker' = [w \in NfWorkers |-> Idle]
  /\ Templates' = <<>> /\ SamplingRates' = <<>>
  /\ UNCHANGED <<sentPackets, nfFile, announced, nfUsed>>

RestoreState ==
  /\ ~outletUp
  /\ outletUp' = TRUE
  /\ Templates' = nfFile.templates /\ SamplingRates' = nfFile.rates
  /\ UNCHANGED <<sentPackets, onTheWay, nfFile, nfWorker, outages, announced, nfUsed>>

NfNext ==
  \/ SendPacket \/ StopOutlet \/ CrashOutlet \/ RestoreState
  \/ \E w \in NfWorkers :
       ReceivePacket(w) \/ ParseSet(w) \/ decodeSet(w)

NfSpec == NfInit /\ [][NfNext]_nfVars

----------------------------------------------------------------------------
(* Properties                                                              *)

(* In whatever order packets are handled, and whatever is restored, a      *)
(* record is decoded with a template, and given a sampling rate, that its  *)
(* own exporter announced for that domain and that sampler.                *)
NotMixed(u) ==
  /\ <<u.source, AsTemplate, u.layout>> \in announced
  /\ u.rate[2] # Unknown => <<u.source, u.rate[1], u.rate[2]>> \in announced

(* What is known is only forgotten by a crash: neither a packet that is    *)
(* given up nor a stop loses a template or a rate.                         *)
OnlyCrashForgets ==
  [][\/ /\ DOMAIN Templates \subseteq DOMAIN Templates'
        /\ DOMAIN SamplingRates \subseteq DOMAIN SamplingRates'
     \/ outletUp /\ ~outletUp']_nfVars

(* Templates and sampling rates are those of their observation domain, and *)
(* are kept until a crash.                                                 *)
TemplatesRight == [](\A u \in nfUsed : NotMixed(u)) /\ OnlyCrashForgets
============================================================================
