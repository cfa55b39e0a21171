------------------------------ MODULE Frames -------------------------------
(***************************************************************************)
(* outlet/flow/decoder/helpers.go: what the parsers make of the beginning  *)
(* of a packet, with or without the decapsulation of a tunnel.             *)
(*                                                                         *)
(* A frame is the sequence of its headers, from the outermost one; it may  *)
(* be cut after any of them.  A column gets the position of the header its *)
(* value comes from, and the length of layer 3 is the position of the      *)
(* header that gives it, 0 when there is none.                             *)
(***************************************************************************)
EXTENDS Naturals, Sequences, FiniteSets, TLC

CONSTANT MaxFrame         \* bound on the headers of a frame

VARIABLE frame

Decaps == {"none", "vxlan", "gre", "ipip", "srv6"}

(* "frag" is IPv4 with a fragment offset, "vxlan" is UDP to the port of    *)
(* VXLAN with its header, "other" is anything that is not parsed.          *)
IP == {"ipv4", "ipv6", "frag"}
Transports == {"tcp", "icmp", "vxlan", "gre", "srh"}

(* What may come after a header in a packet.                               *)
Following(h) ==
  CASE h \in {"eth", "vlan"} -> {"vlan", "mpls", "other"} \cup IP
    [] h = "mpls" -> {"mpls", "eth", "other"} \cup IP
    [] h \in IP \cup {"srh"} -> Transports \cup IP \cup {"other"}
    [] h = "vxlan" -> {"eth"}
    [] h = "gre" -> IP \cup {"other"}
    [] OTHER -> {}

----------------------------------------------------------------------------
(* The parsers: f is the frame, i the position they are given, cols what   *)
(* is known so far.  A column that is set already is left alone.           *)
Add(cols, names, i) == cols @@ [c \in names |-> i]

Parsed(l3, cols) == [l3 |-> l3, cols |-> cols]

At(f, i, kinds) == i <= Len(f) /\ f[i] \in kinds

RECURSIVE ParseL4(_, _, _, _), ParseIP(_, _, _, _), ParseEthernet(_, _, _, _)

(* Nothing is taken from a header outside of the tunnel.                   *)
Visible(decap) == decap = "none"

(* Mistake: the headers inside of a tunnel are parsed as a tunnel again.   *)
InnerDecapKept(decap) == decap

Inner(decap) == "none"

ParseL4(f, i, decap, cols) ==
  CASE decap = "none" ->
         Parsed(0, Add(cols,
           (IF At(f, i, {"tcp", "vxlan"}) THEN {"SrcPort", "DstPort"} ELSE {})
             \cup (IF At(f, i, {"tcp"}) THEN {"TCPFlags"} ELSE {})
             \cup (IF At(f, i, {"icmp"}) THEN {"ICMPType"} ELSE {}), i))
    [] decap = "vxlan" /\ At(f, i, {"vxlan"}) ->
         ParseEthernet(f, i + 1, Inner(decap), cols)
    [] decap = "gre" /\ At(f, i, {"gre"}) -> ParseIP(f, i + 1, Inner(decap), cols)
    [] decap \in {"ipip", "srv6"} /\ At(f, i, IP) -> ParseIP(f, i, Inner(decap), cols)
    [] decap = "srv6" /\ At(f, i, {"srh"}) -> ParseL4(f, i + 1, decap, cols)
    [] OTHER -> Parsed(0, cols)

(* ParseIPv4 and ParseIPv6.                                                *)
ParseIP(f, i, decap, cols) ==
  IF ~At(f, i, IP) THEN Parsed(0, cols)
  ELSE LET own == IF Visible(decap)
                  THEN Add(cols, {"EType", "SrcAddr", "DstAddr", "Proto", "IPTTL"}, i)
                  ELSE cols
           l4 == IF f[i] = "frag" THEN Parsed(0, own) ELSE ParseL4(f, i + 1, decap, own)
       IN Parsed(IF decap = "none" THEN i ELSE l4.l3, l4.cols)

(* The end of a run of headers of the same kind.                           *)
After(f, i, kind) ==
  CHOOSE k \in i..(Len(f) + 1) : ~At(f, k, {kind}) /\ \A j \in i..(k - 1) : f[j] = kind

(* The labels are kept once the payload is known; an Ethernet frame comes  *)
(* after a control word.                                                   *)
ParseMPLS(f, i, decap, cols) ==
  LET end == After(f, i, "mpls")
      labels == IF Visible(decap) THEN Add(cols, {"MPLSLabels"}, i) ELSE cols
  IN CASE At(f, end, IP) -> ParseIP(f, end, decap, labels)
       [] At(f, end, {"eth"}) -> ParseEthernet(f, end, decap, labels)
       [] OTHER -> Parsed(0, cols)

ParseEthernet(f, i, decap, cols) ==
  IF ~At(f, i, {"eth"}) THEN Parsed(0, cols)
  ELSE LET end == After(f, i + 1, "vlan")
           mac == IF Visible(decap) THEN Add(cols, {"SrcMAC", "DstMAC"}, i) ELSE cols
           vlan == IF Visible(decap) /\ end > i + 1
                   THEN Add(mac, {"SrcVlan", "DstVlan"}, end - 1) ELSE mac
       IN CASE At(f, end, {"mpls"}) -> ParseMPLS(f, end, decap, vlan)
            [] OTHER -> ParseIP(f, end, decap, vlan)

(* What a sampled header gives.                                            *)
parseSampledHeader(f, decap) ==
  IF At(f, 1, {"eth"}) THEN ParseEthernet(f, 1, decap, <<>>) ELSE ParseIP(f, 1, decap, <<>>)

----------------------------------------------------------------------------
FrameInit == frame = <<>>

(* The sampled part of a packet has one more header.                       *)
NextHeader ==
  /\ Len(frame) < MaxFrame
  /\ \E h \in IF frame = <<>> THEN {"eth", "ipv4", "ipv6"}
              ELSE Following(frame[Len(frame)]) : frame' = Append(frame, h)

FrameNext == NextHeader

----------------------------------------------------------------------------
(* Properties                                                              *)

(* The first IP header at i or later, when there are only headers of the   *)
(* layer 2 before it; 0 otherwise.                                         *)
FirstIP(f, i) ==
  LET ks == {k \in i..Len(f) : f[k] \in IP /\ \A j \in i..(k - 1) : f[j] \in {"eth", "vlan", "mpls"}}
  IN IF ks = {} THEN 0 ELSE CHOOSE k \in ks : \A j \in ks : k <= j

(* The IP header inside of the tunnel that follows the IP header at o.     *)
InsideOf(f, o, decap) ==
  CASE o = 0 -> 0
    [] decap = "none" -> o
    [] f[o] = "frag" -> 0
    [] decap = "vxlan" -> IF At(f, o + 1, {"vxlan"}) /\ At(f, o + 2, {"eth"}) THEN FirstIP(f, o + 2) ELSE 0
    [] decap = "gre" -> IF At(f, o + 1, {"gre"}) /\ At(f, o + 2, IP) THEN o + 2 ELSE 0
    [] decap = "ipip" -> IF At(f, o + 1, IP) THEN o + 1 ELSE 0
    [] decap = "srv6" -> LET k == After(f, o + 1, "srh") IN IF At(f, k, IP) THEN k ELSE 0

(* The length is the one of the right header: the IP header inside of the  *)
(* tunnel that was asked for, through any headers of layer 2, the outer    *)
(* one without decapsulation, and none in any other packet.                *)
LengthOfTheRightHeader ==
  \A d \in Decaps : parseSampledHeader(frame, d).l3 = InsideOf(frame, FirstIP(frame, 1), d)

(* With a decapsulation, no column comes from a header outside of the      *)
(* tunnel, even when what the tunnel carries is then not parsed.           *)
OnlyInnerColumns ==
  \A d \in Decaps \ {"none"} :
    LET r == parseSampledHeader(frame, d)
    IN \A c \in DOMAIN r.cols :
         /\ FirstIP(frame, 1) # 0
         /\ r.cols[c] > FirstIP(frame, 1)
         /\ \E k \in (FirstIP(frame, 1) + 1)..r.cols[c] : frame[k] \in IP \cup {"eth"}

(* The columns of a packet are those of one of its headers: the one that   *)
(* was asked for.                                                          *)
FramesRight == LengthOfTheRightHeader /\ OnlyInnerColumns
============================================================================
