SPECIFICATION Spec
CONSTANTS
  Hashes = {"h"}
  Hash <- MCHash
  PrefixSet <- MCPrefixSet
  ShardOf <- MCShardOf
  Shards = {1, 2}
  Peers = {p1, p2}
  NLRIs = {n1}
  NextHops = {a, b}
  Readers = {"r1"}
  Addresses <- MCAddresses
  MaxRoutes = 2
  MaxAdded = 3
INVARIANTS RibSound LookupsRight
PROPERTIES ImplementsRouteStore
SYMMETRY Symmetry
