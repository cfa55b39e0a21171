---------------------------- MODULE NetworkTree ----------------------------
(***************************************************************************)
(* The tree of network attributes of the outlet: tables from the GeoIP     *)
(* databases, the remote sources and the configuration are merged, then    *)
(* flattened so that a single lookup gives all the attributes of an        *)
(* address.                                                                *)
(*                                                                         *)
(* A prefix is the sequence of its bits.  Attributes are a set of pairs of *)
(* a field and its value, without the fields that are not set.  A table,   *)
(* or a tree, is a set of networks: a prefix and its attributes.           *)
(***************************************************************************)
EXTENDS Naturals, Sequences, FiniteSets, SequencesExt

CIDRs == Seq({0, 1})

Network(prefix, attributes) == [prefix |-> prefix, attributes |-> attributes]

IsTable(S) ==
  /\ IsFiniteSet(S)
  /\ \A n \in S : n = Network(n.prefix, n.attributes) /\ n.prefix \in CIDRs
  /\ \A m, n \in S : m.prefix = n.prefix => m = n

(* Attributes of the prefix in the table, none when it is not there.       *)
AttributesIn(table, prefix) ==
  UNION {n.attributes : n \in {m \in table : m.prefix = prefix}}

mergeNetworkAttrs(existing, new) ==
  new \cup {a \in existing : \A b \in new : b[1] # a[1]}

MergeTable(merged, table) ==
  {n \in merged : \A m \in table : m.prefix # n.prefix}
    \cup {Network(n.prefix, mergeNetworkAttrs(AttributesIn(merged, n.prefix), n.attributes)) :
            n \in table}

(* Order in which AllSorted walks the prefixes: the bits, then the length. *)
CIDRBefore(p, q) ==
  \/ IsStrictPrefix(p, q)
  \/ \E i \in DOMAIN p \cap DOMAIN q :
       p[i] < q[i] /\ \A j \in 1..(i - 1) : p[j] = q[j]

(* Mistake: ancestors that do not contain the prefix are kept.             *)
PopAncestorsNone(ancestors, prefix) == ancestors

(* The chain of ancestors down to the one that contains the prefix.        *)
PopAncestors(ancestors, prefix) ==
  LET containing == {i \in DOMAIN ancestors : IsPrefix(ancestors[i].prefix, prefix)}
  IN  SubSeq(ancestors, 1, IF containing = {} THEN 0 ELSE Max(containing))

(* Adding a network to the tree: it inherits from its last ancestor.       *)
FlattenOne(walk, n) ==
  LET ancestors == PopAncestors(walk.ancestors, n.prefix)
      inherited == IF ancestors = <<>> THEN {} ELSE Last(ancestors).attributes
      flattened == Network(n.prefix, mergeNetworkAttrs(inherited, n.attributes))
  IN  [ancestors |-> Append(ancestors, flattened), tree |-> walk.tree \cup {flattened}]

(* The last of the networks of S, as they are walked.                      *)
LastWalked(S) == CHOOSE n \in S : \A m \in S \ {n} : CIDRBefore(m.prefix, n.prefix)

Flatten(merged) ==
  LET walk[S \in SUBSET merged] ==
        IF S = {} THEN [ancestors |-> <<>>, tree |-> {}]
        ELSE FlattenOne(walk[S \ {LastWalked(S)}], LastWalked(S))
  IN  walk[merged].tree

(* The tree built from tables of increasing precedence.                    *)
BuildTree(tables) ==
  LET merged[i \in 0..Len(tables)] ==
        IF i = 0 THEN {} ELSE MergeTable(merged[i - 1], tables[i])
  IN  Flatten(merged[Len(tables)])

(* Attributes of the most specific prefix of the tree.                     *)
Lookup(tree, ip) ==
  LET containing == {n \in tree : IsPrefix(n.prefix, ip)}
  IN  IF containing = {}
      THEN {}
      ELSE (CHOOSE n \in containing :
              \A m \in containing : Len(m.prefix) <= Len(n.prefix)).attributes

-----------------------------------------------------------------------------
(* Reference definition.  An address has the attributes of the networks    *)
(* that contain it, but for those that are also set for a more specific    *)
(* prefix, or for the same prefix by a later table.                        *)
AttributesOf(tables, ip) ==
  LET given(i) == UNION {{<<Len(n.prefix), i, a>> : a \in n.attributes} :
                           n \in {m \in tables[i] : IsPrefix(m.prefix, ip)}}
      attributes == UNION {given(i) : i \in DOMAIN tables}
      Hides(y, x) == /\ y[3][1] = x[3][1]
                     /\ y[1] > x[1] \/ (y[1] = x[1] /\ y[2] > x[2])
  IN  {x[3] : x \in {z \in attributes : \A y \in attributes : ~Hides(y, z)}}
=============================================================================
