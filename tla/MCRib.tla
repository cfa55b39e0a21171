------------------------------- MODULE MCRib --------------------------------
(***************************************************************************)
(* The RIB for TLC: two prefixes that share a shard, a third one, and two  *)
(* next hops whose hashes are the same.                                    *)
(***************************************************************************)
EXTENDS Rib, TLC

MCHash(value) == "h"

MCPrefixSet == {<<>>, <<0>>, <<1>>}

MCShardOf == [p \in MCPrefixSet |-> IF p = <<1>> THEN 2 ELSE 1]

MCAddresses == {<<0>>}

Symmetry == Permutations(Peers) \cup Permutations(NLRIs) \cup Permutations(NextHops)
=============================================================================
