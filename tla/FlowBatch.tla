----------------------------- MODULE FlowBatch -----------------------------
(***************************************************************************)
(* A worker's flow message (common/schema/message.go and clickhouse.go):   *)
(* the flow being built and the columns of the batch it goes to, as the    *)
(* NetFlow and sFlow decoders fill it, record after record.                *)
(*                                                                         *)
(* A value is <<id, n>>: n identifies it in the record id it comes from,   *)
(* and <<>> is no value (zero in the code).  Values are appended to the    *)
(* columns as soon as they are decoded, so that a flow that is given up    *)
(* has to be removed from them.                                            *)
(***************************************************************************)
EXTENDS Integers, Sequences, SequencesExt

CONSTANTS
  Columns,                \* columns that are not disabled
  NetflowRecords,         \* data records, of NetFlow v9 or IPFIX
  SflowSamples,           \* samples of sFlow
  BatchDecaps,            \* decapsulations that inputs are configured with
  SampledHeaders,         \* per frame and decapsulation, what the parsers of frames give:
                          \* [l3, cols], the length of layer 3 and the columns
  MaxRecords              \* bound on the records that are decoded

VARIABLES
  bf,                     \* the flow message
  nextId,                 \* identifies the next record
  ended                   \* how the decoding of the last record ended

batchVars == <<bf, nextId, ended>>

None == <<>>
Fields == {"TimeReceived", "SamplingRate", "ExporterAddress", "InIf", "OutIf", "SrcVlan",
           "DstVlan", "SrcAddr", "DstAddr", "NextHop", "SrcAS", "DstAS"}
NoFields == [f \in Fields |-> None]

(* columnReverseTable, and what Reverse() swaps.                           *)
Opposites ==
  {{"SrcPort", "DstPort"}, {"SrcMAC", "DstMAC"}, {"SrcAddr", "DstAddr"}, {"SrcAS", "DstAS"},
   {"SrcVlan", "DstVlan"}, {"InIf", "OutIf"}, {"InIfName", "OutIfName"},
   {"SrcAddrNAT", "DstAddrNAT"}}

Mirror(c) ==
  IF c \in UNION Opposites
  THEN CHOOSE o \in UNION Opposites : o # c /\ {c, o} \in Opposites ELSE c

NewFlowMessage ==
  [fields |-> NoFields, reversed |-> FALSE, set |-> {}, rows |-> 0,
   columns |-> [c \in Columns |-> <<>>], origin |-> <<>>]

(* The public fields are zeroed, the batch is left alone.                  *)
reset(m) == [m EXCEPT !.fields = NoFields, !.reversed = FALSE, !.set = {}]

(* Mistake: a flow given up in the reverse direction stays reversed.       *)
UndoReversed(m) ==
  [m EXCEPT !.columns = [c \in Columns |-> IF c \in m.set THEN Front(@[c]) ELSE @[c]],
            !.fields = NoFields, !.set = {}]

Undo(m) ==
  reset([m EXCEPT !.columns = [c \in Columns |-> IF c \in m.set THEN Front(@[c]) ELSE @[c]]])

(* AppendUint and the others, for some columns and their values: a zero, a *)
(* disabled column and a column that already has a value for this flow are *)
(* ignored.                                                                *)
AppendColumns(m, values) ==
  LET key(c) == IF m.reversed THEN Mirror(c) ELSE c
      new == {c \in Columns \ m.set : key(c) \in DOMAIN values /\ values[key(c)] # None}
  IN [m EXCEPT !.set = @ \cup new,
               !.columns = [c \in Columns |-> IF c \in new THEN Append(@[c], values[key(c)]) ELSE @[c]]]

AppendColumn(m, key, v) == AppendColumns(m, [c \in {key} |-> v])

SetFields(m, values) ==
  [m EXCEPT !.fields = [f \in Fields |-> IF f \in DOMAIN values THEN values[f] ELSE @[f]]]

SetField(m, f, v) == SetFields(m, [x \in {f} |-> v])

Reverse_(m) ==
  [m EXCEPT !.reversed = ~@, !.fields = [f \in Fields |-> m.fields[Mirror(f)]]]

(* The fields go to their columns, the columns without a value get a zero. *)
CompleteRow(m, origin) ==
  reset([m EXCEPT !.rows = @ + 1, !.origin = Append(@, origin),
           !.columns = [c \in Columns |-> IF c \in m.set THEN @[c] ELSE Append(@[c], None)]])

Finalize(m, origin) ==
  CompleteRow(AppendColumns(m, [f \in Fields \ {"InIf", "OutIf"} |-> m.fields[f]]), origin)

(* The batch has been sent.                                                *)
Clear(m) == [reset(m) EXCEPT !.rows = 0, !.columns = [c \in Columns |-> <<>>], !.origin = <<>>]

(* The core component either gives a flow up, before or after it has added *)
(* its own columns, or adds it to the batch, which may then be sent.       *)
Verdicts == {"added", "sent", "limited", "skipped"}

WithNames(m) ==
  AppendColumn(AppendColumn(m, "OutIfName", m.fields["OutIf"]), "InIfName", m.fields["InIf"])

Enriched(m, verdict, origin) ==
  IF verdict = "skipped" THEN Undo(m) ELSE Finalize(m, origin)

finalizeFlow(m, verdict, origin) ==
  CASE verdict = "limited" -> Undo(m)
    [] verdict = "sent" -> Clear(Enriched(WithNames(m), verdict, origin))
    [] OTHER -> Enriched(WithNames(m), verdict, origin)

(* What the parsers of helpers.go set.                                     *)
ApplyHeader(m, id, cols) ==
  LET value(c) == <<id, 100 + cols[c]>>
      fields == {"SrcAddr", "DstAddr", "SrcVlan", "DstVlan"}
      given == {c \in DOMAIN cols \cap fields : c \in {"SrcAddr", "DstAddr"} \/ m.fields[c] = None}
  IN AppendColumns(SetFields(m, [c \in given |-> value(c)]),
                   [c \in DOMAIN cols \ fields |-> value(c)])

ApplyFrame(m, id, f, decap) == ApplyHeader(m, id, SampledHeaders[f, decap].cols)

----------------------------------------------------------------------------
(* NetFlow v9 and IPFIX: decode.go                                         *)

(* Fields that a type overwrites, that it sets when there is nothing yet,  *)
(* and columns that it is appended to.                                     *)
PublicField ==
  [sourceIPv4Address |-> "SrcAddr", destinationIPv4Address |-> "DstAddr",
   ipNextHopIPv4Address |-> "NextHop", bgpSourceAsNumber |-> "SrcAS",
   bgpDestinationAsNumber |-> "DstAS", ingressInterface |-> "InIf",
   egressInterface |-> "OutIf", samplerId |-> "SamplingRate"]
FallbackField ==
  [ingressPhysicalInterface |-> "InIf", egressPhysicalInterface |-> "OutIf",
   vlanId |-> "SrcVlan", postVlanId |-> "DstVlan"]
ColumnField ==
  [octetDeltaCount |-> "Bytes", packetDeltaCount |-> "Packets", protocolIdentifier |-> "Proto",
   sourceTransportPort |-> "SrcPort", destinationTransportPort |-> "DstPort",
   sourceMacAddress |-> "SrcMAC", destinationMacAddress |-> "DstMAC",
   forwardingStatus |-> "ForwardingStatus", postNATSourceIPv4Address |-> "SrcAddrNAT"]

(* The types with a value of their own for the reverse direction.          *)
reversePresent(rec) == {f.type : f \in {g \in Range(rec) : g.reverse}}

(* RFC 5103: the fields used in a direction.                               *)
Used(rec, f, dir) ==
  IF dir = "forward" THEN ~f.reverse ELSE f.reverse \/ f.type \notin reversePresent(rec)

(* One field: d has the flow message and the variables of the pass.        *)
DecodeField(d, id, f, dir, decap) ==
  LET v == IF f.n = 0 THEN None ELSE <<id, f.n>>
      address == f.type \in {"sourceIPv4Address", "destinationIPv4Address"}
  IN IF d.stop THEN d
     ELSE IF f.type = "packetDeltaCount" /\ dir = "reverse" /\ f.n = 0
     THEN [d EXCEPT !.m = Undo(d.m), !.stop = TRUE]
     ELSE
     CASE f.type = "dataLinkFrameSection" ->
            IF SampledHeaders[f.frame, decap].l3 = 0
            THEN [d EXCEPT !.m = ApplyFrame(@, id, f.frame, decap)]
            ELSE [d EXCEPT !.decapOK = TRUE,
                           !.m = AppendColumn(AppendColumn(ApplyFrame(@, id, f.frame, decap),
                                                           "Bytes", <<id, 200>>), "Packets", <<id, 201>>)]
       [] address -> IF v = None THEN d
                     ELSE [d EXCEPT !.m = SetField(d.m, PublicField[f.type], v), !.etype = <<id, 4>>]
       [] f.type \in DOMAIN PublicField \ {"sourceIPv4Address", "destinationIPv4Address"} ->
            [d EXCEPT !.m = SetField(d.m, PublicField[f.type], v)]
       [] f.type \in DOMAIN FallbackField ->
            IF d.m.fields[FallbackField[f.type]] # None THEN d
            ELSE [d EXCEPT !.m = SetField(d.m, FallbackField[f.type], v)]
       [] f.type = "mplsTopLabelStackSection" ->
            IF v = None THEN d ELSE [d EXCEPT !.mpls = IF @ = None THEN v ELSE @]
       [] f.type \in DOMAIN ColumnField ->
            [d EXCEPT !.m = AppendColumn(d.m, ColumnField[f.type], v)]

(* The fields of a record in a direction, up to the one at last.              *)
DecodeFields(m, id, rec, last, dir, decap) ==
  LET pass[i \in 0..last] ==
        IF i = 0 THEN [m |-> m, etype |-> None, mpls |-> None, decapOK |-> FALSE, stop |-> FALSE]
        ELSE IF Used(rec, rec[i], dir) THEN DecodeField(pass[i - 1], id, rec[i], dir, decap)
        ELSE pass[i - 1]
  IN pass[last]

(* What comes once all the fields are decoded.                             *)
WithDefaultRate(m, id) ==
  IF m.fields["SamplingRate"] # None THEN m ELSE SetField(m, "SamplingRate", <<id, 1>>)

EndPass(d, id) ==
  IF d.stop THEN d
  ELSE [d EXCEPT !.m = WithDefaultRate(AppendColumn(AppendColumn(@, "EType", d.etype),
                                                "MPLSLabels", d.mpls), id)]

DecodePass(m, id, rec, dir, decap) == EndPass(DecodeFields(m, id, rec, Len(rec), dir, decap), id)

(* The end of a pass: finalize2 of root.go, unless a decapsulation was     *)
(* asked for and there is no tunnel.                                       *)
localFinalize(d, id, decap, verdict, origin) ==
  IF decap # "none" /\ ~d.decapOK THEN Undo(d.m)
  ELSE finalizeFlow(SetField(SetField(d.m, "TimeReceived", <<id, 2>>), "ExporterAddress", <<id, 3>>),
                    verdict, origin)

FinalizeReverse(d, id, decap, verdict, origin) ==
  IF d.stop THEN d.m ELSE localFinalize([d EXCEPT !.m = Reverse_(@)], id, decap, verdict, origin)

ReverseRecord(m, id, rec, decap, verdict, origin) ==
  FinalizeReverse(DecodePass(Reverse_(m), id, rec, "reverse", decap), id, decap, verdict, origin)

ForwardRecord(m, id, rec, decap, verdict, origin) ==
  localFinalize(DecodePass(m, id, rec, "forward", decap), id, decap, verdict, origin)

AndReverse(m, id, rec, decap, verdict, origin) ==
  IF reversePresent(rec) = {} THEN m ELSE ReverseRecord(m, id, rec, decap, verdict, origin)

decodeRecord(m, id, rec, decap, verdicts, origin) ==
  AndReverse(ForwardRecord(m, id, rec, decap, verdicts[1], origin), id, rec, decap, verdicts[2],
             [origin EXCEPT !.dir = "reverse"])

----------------------------------------------------------------------------
(* sFlow: decode.go                                                        *)

L2Enabled == "SrcMAC" \in Columns
L3L4Enabled == "TCPFlags" \in Columns

Kinds(sample) == {r.kind : r \in Range(sample.records)}

(* A sampled header is parsed when something is missing without it.        *)
NeedsHeader(sample, decap) ==
  \/ "ipv4" \notin Kinds(sample)
  \/ L2Enabled /\ ~({"ethernet", "switch"} \subseteq Kinds(sample))
  \/ L3L4Enabled
  \/ decap # "none"

(* One record of a sample: s has the flow message and the length.          *)
SampleRecord(s, id, r, sample, decap) ==
  LET v == <<id, r.n>>
      Set(m, fs) == SetFields(m, [f \in fs |-> v])
      Columns_(m, cs) == AppendColumns(m, [c \in cs |-> v])
      length == SampledHeaders[r.frame, decap].l3
  IN IF r.kind = "header"
     THEN IF ~NeedsHeader(sample, decap) THEN s
          ELSE [m |-> ApplyFrame(s.m, id, r.frame, decap),
                l3 |-> IF length > 0 THEN <<id, 100 + length>> ELSE s.l3]
     ELSE IF decap # "none" THEN s
     ELSE
     CASE r.kind = "ipv4" ->
            [m |-> Columns_(Set(s.m, {"SrcAddr", "DstAddr"}), {"Proto", "SrcPort", "DstPort", "EType"}),
             l3 |-> v]
       [] r.kind = "ethernet" ->
            [m |-> IF L2Enabled THEN Columns_(s.m, {"SrcMAC", "DstMAC"}) ELSE s.m,
             l3 |-> IF s.l3 = None THEN v ELSE s.l3]
       [] r.kind = "switch" ->
            [s EXCEPT !.m = IF L2Enabled THEN Set(s.m, {"SrcVlan", "DstVlan"}) ELSE s.m]
       [] r.kind = "router" -> [s EXCEPT !.m = Set(s.m, {"NextHop"})]
       [] r.kind = "gateway" ->
            [s EXCEPT !.m = Columns_(Set(s.m, {"NextHop", "SrcAS", "DstAS"}), {"DstASPath"})]

(* A sample without an index for an interface leaves its field alone, and  *)
(* a counter sample has none of them.                                      *)
SampleFields(m, id, sample) ==
  LET Put(acc, f, x) == IF x = 0 THEN acc ELSE SetField(acc, f, <<id, x>>)
  IN Put(Put(Put(m, "SamplingRate", sample.rate), "InIf", sample.inIf), "OutIf", sample.outIf)

(* The records of a sample, up to the one at last.                            *)
SamplePass(m, id, sample, last, decap) ==
  LET pass[i \in 0..last] ==
        IF i = 0 THEN [m |-> SampleFields(m, id, sample), l3 |-> None]
        ELSE SampleRecord(pass[i - 1], id, sample.records[i], sample, decap)
  IN pass[last]

(* A sample that is not in the tunnel that was asked for is skipped, and   *)
(* what it has set so far is not undone.                                   *)
SampleDropped(sample, decap) ==
  /\ decap # "none"
  /\ \A r \in Range(sample.records) :
       r.kind = "header" => SampledHeaders[r.frame, decap].l3 = 0

SampleColumns(s, id, sample) ==
  AppendColumn(AppendColumn(AppendColumn(s.m, "Bytes", s.l3), "Packets", <<id, 201>>),
               "ForwardingStatus", IF sample.discard = 0 THEN None ELSE <<id, sample.discard>>)

FinalizeSample(s, id, sample, decap, verdict, origin) ==
  IF SampleDropped(sample, decap) THEN s.m
  ELSE finalizeFlow(SetField(SetField(SampleColumns(s, id, sample), "TimeReceived", <<id, 2>>),
                             "ExporterAddress", <<id, 3>>), verdict, origin)

decodeSample(m, id, sample, decap, verdict, origin) ==
  FinalizeSample(SamplePass(m, id, sample, Len(sample.records), decap), id, sample, decap, verdict, origin)

----------------------------------------------------------------------------
(* The decoders ignore the other types of fields and of records.           *)
FieldTypes ==
  DOMAIN PublicField \cup DOMAIN FallbackField \cup DOMAIN ColumnField
    \cup {"dataLinkFrameSection", "mplsTopLabelStackSection"}
SampleKinds == {"header", "ipv4", "ethernet", "switch", "router", "gateway"}

ASSUME BatchAssumption ==
  /\ \A rec \in NetflowRecords : rec \in Seq({f \in Range(rec) : f.type \in FieldTypes})
  /\ \A sample \in SflowSamples :
       sample.records \in Seq({r \in Range(sample.records) : r.kind \in SampleKinds})

Clean(m) == m.fields = NoFields /\ m.set = {} /\ ~m.reversed

Origin(decoder, rec, decap) ==
  [id |-> nextId, decoder |-> decoder, rec |-> rec, decap |-> decap, dir |-> "forward",
   clean |-> Clean(bf)]

BatchInit == bf = NewFlowMessage /\ nextId = 1 /\ ended = "finalized"

DecodeNetflow ==
  \E rec \in NetflowRecords, decap \in BatchDecaps, verdicts \in Verdicts \X Verdicts :
    /\ nextId <= MaxRecords
    /\ bf' = decodeRecord(bf, nextId, rec, decap, verdicts, Origin("netflow", rec, decap))
    /\ nextId' = nextId + 1
    /\ ended' = "finalized"

DecodeSflow ==
  \E sample \in SflowSamples, decap \in BatchDecaps, verdict \in Verdicts :
    /\ nextId <= MaxRecords
    /\ bf' = decodeSample(bf, nextId, sample, decap, verdict, Origin("sflow", sample, decap))
    /\ nextId' = nextId + 1
    /\ ended' = IF SampleDropped(sample, decap) THEN "skipped" ELSE "finalized"

(* A panic in a decoder, after some of the fields: decodeWithMetrics       *)
(* recovers and leaves the flow message as it is.                          *)
DecoderPanics ==
  /\ nextId <= MaxRecords
  /\ \E decap \in BatchDecaps :
       \/ \E rec \in NetflowRecords : \E last \in 1..(Len(rec) - 1) :
            \E dir \in IF reversePresent(rec) = {} THEN {"forward"} ELSE {"forward", "reverse"} :
              bf' = DecodeFields(IF dir = "forward" THEN bf
                                 ELSE Reverse_(ForwardRecord(bf, nextId, rec, decap, "added",
                                                             Origin("netflow", rec, decap))),
                                 nextId, rec, last, dir, decap).m
       \/ \E sample \in SflowSamples : \E last \in 0..Len(sample.records) :
            bf' = SamplePass(bf, nextId, sample, last, decap).m
  /\ nextId' = nextId + 1
  /\ ended' = "panic"

BatchNext == DecodeNetflow \/ DecodeSflow \/ DecoderPanics

BatchSpec == BatchInit /\ [][BatchNext]_batchVars

----------------------------------------------------------------------------
(* Properties                                                              *)

Row(m, r) == [c \in Columns |-> m.columns[c][r]]

(* Of the rows of a record, the first one is for the forward direction.    *)
RowOf(dir, m) == Row(m, IF dir = "forward" THEN 1 ELSE m.rows)

(* The row of a record that is decoded with an empty batch.                *)
Alone(o) ==
  RowOf(o.dir, IF o.decoder = "netflow"
               THEN decodeRecord(NewFlowMessage, o.id, o.rec, o.decap, <<"added", "added">>, o)
               ELSE decodeSample(NewFlowMessage, o.id, o.rec, o.decap, "added", o))

(* At any time, each column has one value per row of the batch, and one    *)
(* more when the flow being built has set it.                              *)
BatchAligned ==
  \A c \in Columns : Len(bf.columns[c]) = bf.rows + (IF c \in bf.set THEN 1 ELSE 0)

(* Whatever was decoded, given up, sent or reversed before it, a row is    *)
(* the one its record alone gives, as long as nothing was left behind when *)
(* its record was decoded.                                                 *)
RowsFromOneFlow ==
  \A r \in 1..bf.rows : bf.origin[r].clean => Row(bf, r) = Alone(bf.origin[r])

(* Something is left behind only by a panic and by a sample that is not in *)
(* the tunnel that was asked for.                                          *)
LeftoversKnown == ~Clean(bf) => ended \in {"panic", "skipped"}

(* The rows of a batch: whole, each of one flow, whatever was left behind  *)
(* being known.                                                            *)
BatchRight == BatchAligned /\ RowsFromOneFlow /\ LeftoversKnown

(* RFC 5103: the row of the reverse direction has the values of the        *)
(* reverse fields, and those of the others, each in the opposite column.   *)
ReverseIsMirror ==
  \A r \in 1..bf.rows :
    LET o == bf.origin[r]
    IN (o.clean /\ o.decoder = "netflow" /\ o.decap = "none") =>
         \A t \in DOMAIN ColumnField \cup {"sourceIPv4Address", "destinationIPv4Address"} :
           LET c == IF t \in DOMAIN ColumnField THEN ColumnField[t] ELSE PublicField[t]
               target == IF o.dir = "reverse" /\ c \in UNION Opposites
                         THEN CHOOSE x \in UNION Opposites : x # c /\ {x, c} \in Opposites
                         ELSE c
               plain == {f.n : f \in {g \in Range(o.rec) : g.type = t /\ ~g.reverse}}
               own == {f.n : f \in {g \in Range(o.rec) : g.type = t /\ g.reverse}}
               expected == IF o.dir = "reverse" /\ own # {} THEN own ELSE plain
           IN (target \in Columns /\ expected \ {0} # {}) =>
                bf.columns[target][r] \in {<<o.id, x>> : x \in expected \ {0}}
============================================================================
