----------------------------- MODULE RibProofs ------------------------------
(***************************************************************************)
(* Proofs about the RIB, for all prefixes, shards, peers, values, hashes   *)
(* and readers.  First the indexes, and the lookups that read the tree     *)
(* without a lock, which do not depend on what is interned.  Then the      *)
(* routes and their interned values, and what the RIB promises.            *)
(***************************************************************************)
EXTENDS Rib, InternProofs

(* What a shard is made of, interned values apart.                         *)
Shaped(st) ==
  st = [routes |-> st.routes, nlris |-> st.nlris, nextHops |-> st.nextHops,
        free |-> st.free, generations |-> st.generations]

ShardInv(st) ==
  /\ Shaped(st)
  /\ st.generations \in Seq(Nat)
  /\ List(st.routes) /\ Len(st.routes) = Len(st.generations)
  /\ \A i \in DOMAIN st.routes : List(st.routes[i])
  /\ st.free \in Seq(DOMAIN st.generations)
  /\ \A i, j \in DOMAIN st.free : st.free[i] = st.free[j] => i = j

ShardsInv ==
  /\ shard = [s \in Shards |-> shard[s]]
  /\ \A s \in Shards : ShardInv(shard[s])

FreeIn(st, index) == \E i \in DOMAIN st.free : st.free[i] = index

(* An index is free, or the one of a prefix.                               *)
TreeInv ==
  /\ tree = [p \in DOMAIN tree |-> tree[p]]
  /\ DOMAIN tree \subseteq PrefixSet
  /\ \A p \in DOMAIN tree :
       /\ tree[p] = [index |-> tree[p].index, generation |-> tree[p].generation]
       /\ tree[p].index \in DOMAIN shard[ShardOf[p]].generations
       /\ tree[p].generation = shard[ShardOf[p]].generations[tree[p].index]
       /\ ~ FreeIn(shard[ShardOf[p]], tree[p].index)
       /\ \A q \in DOMAIN tree :
            ShardOf[q] = ShardOf[p] /\ tree[q].index = tree[p].index => q = p
  /\ \A s \in Shards : \A i \in DOMAIN shard[s].generations :
       FreeIn(shard[s], i) \/ \E p \in DOMAIN tree : ShardOf[p] = s /\ tree[p].index = i

(* A peer that adds a route has the lock of the shard, and only its prefix *)
(* may have no route.                                                      *)
AddingInv ==
  /\ adding = [peer \in Peers |-> adding[peer]]
  /\ shardLock = [s \in Shards |-> shardLock[s]]
  /\ \A peer \in Peers :
       adding[peer].busy =>
         adding[peer].prefix \in DOMAIN tree /\ shardLock[ShardOf[adding[peer].prefix]] = peer
  /\ \A p \in DOMAIN tree :
       shard[ShardOf[p]].routes[tree[p].index] = <<>> =>
         \E peer \in Peers : adding[peer].busy /\ adding[peer].prefix = p

(* What a lookup found in the tree is still there, unless the generation   *)
(* of the index is another one.                                            *)
LookupInv ==
  /\ lookup = [r \in Readers |-> lookup[r]]
  /\ \A r \in Readers :
       lookup[r].step = "found" =>
         LET prefix == lookup[r].prefix
             ref == lookup[r].ref
             generations == shard[ShardOf[prefix]].generations
         IN  /\ prefix \in PrefixSet
             /\ ref.index \in DOMAIN generations
             /\ ref.generation \in Nat /\ ref.generation <= generations[ref.index]
             /\ ref.generation = generations[ref.index] =>
                  prefix \in DOMAIN tree /\ tree[prefix] = ref

IndexInv == ShardsInv /\ TreeInv /\ AddingInv /\ LookupInv

-----------------------------------------------------------------------------
(* Among gives a sequence.                                                 *)
LEMMA AmongList ==
  ASSUME NEW q, NEW set, List(q)
  PROVE  List(Among(q, set))
<1> DEFINE places == {i \in DOMAIN q : q[i] \in set}
           nth(n) == CHOOSE i \in places : Cardinality({j \in places : j <= i}) = n
           k == Cardinality(places)
           a == [n \in 1..k |-> q[nth(n)]]
<1>1. k \in Nat
  <2>1. Len(q) \in Nat /\ DOMAIN q = 1..Len(q)
    BY ListFacts
  <2>2. IsFiniteSet(1..Len(q))
    BY <2>1, FS_Interval
  <2>3. places \subseteq 1..Len(q)
    BY <2>1
  <2>. QED  BY <2>2, <2>3, FS_Subset, FS_CardinalityType
<1>2. a = Among(q, set)
  BY DEF Among
<1>3. a = [n \in 1..k |-> a[n]]
  <2> HIDE DEF k, nth
  <2>. QED  OBVIOUS
<1>. QED
  <2> HIDE DEF a, k
  <2>. QED  BY <1>1, <1>2, <1>3, Listed

-----------------------------------------------------------------------------
(* What the operations do to a shard                                       *)

LEMMA ShardFacts ==
  ASSUME NEW st, ShardInv(st)
  PROVE  /\ Len(st.generations) \in Nat /\ DOMAIN st.generations = 1..Len(st.generations)
         /\ DOMAIN st.routes = 1..Len(st.generations)
         /\ Len(st.free) \in Nat /\ DOMAIN st.free = 1..Len(st.free)
         /\ \A i \in DOMAIN st.free : st.free[i] \in 1..Len(st.generations)
         /\ \A i \in DOMAIN st.generations : st.generations[i] \in Nat
<1>1. st.generations \in Seq(Nat)
  BY DEF ShardInv
<1>2. Len(st.generations) \in Nat /\ DOMAIN st.generations = 1..Len(st.generations)
      /\ \A i \in DOMAIN st.generations : st.generations[i] \in Nat
  BY <1>1
<1>3. st.free \in Seq(1..Len(st.generations))
  BY <1>2 DEF ShardInv
<1>4. Len(st.free) \in Nat /\ DOMAIN st.free = 1..Len(st.free)
      /\ \A i \in DOMAIN st.free : st.free[i] \in 1..Len(st.generations)
  BY <1>3
<1>5. DOMAIN st.routes = 1..Len(st.generations)
  <2>1. List(st.routes) /\ Len(st.routes) = Len(st.generations)
    BY DEF ShardInv
  <2>. QED  BY <2>1, ListFacts
<1>. QED  BY <1>2, <1>4, <1>5

WithPools(st, nlris, nextHops) == [st EXCEPT !.nlris = nlris, !.nextHops = nextHops]

LEMMA InternedFacts ==
  ASSUME NEW st, Shaped(st), NEW a, NEW b
  PROVE  /\ Shaped(WithPools(st, a, b))
         /\ WithPools(st, a, b).routes = st.routes /\ WithPools(st, a, b).free = st.free
         /\ WithPools(st, a, b).generations = st.generations
<1> DEFINE interned == WithPools(st, a, b)
<1>1. interned = [routes |-> st.routes, nlris |-> a, nextHops |-> b,
                  free |-> st.free, generations |-> st.generations]
  <2> DEFINE x == [routes |-> st.routes, nlris |-> st.nlris, nextHops |-> st.nextHops,
                   free |-> st.free, generations |-> st.generations]
             y == [x EXCEPT !.nlris = a]
  <2>1. y = [routes |-> st.routes, nlris |-> a, nextHops |-> st.nextHops,
             free |-> st.free, generations |-> st.generations]
    OBVIOUS
  <2> HIDE DEF y
  <2>2. [y EXCEPT !.nextHops = b] = [routes |-> st.routes, nlris |-> a, nextHops |-> b,
                                     free |-> st.free, generations |-> st.generations]
    BY <2>1
  <2>3. interned = [y EXCEPT !.nextHops = b]
    <3>1. st = x
      BY DEF Shaped
    <3>. QED  BY <3>1 DEF y, WithPools
  <2>. QED  BY <2>2, <2>3
<1> HIDE DEF interned
<1>2. /\ interned.routes = st.routes /\ interned.nlris = a /\ interned.nextHops = b
      /\ interned.free = st.free /\ interned.generations = st.generations
  BY <1>1
<1>. QED  BY <1>1, <1>2 DEF Shaped, interned

(* A shard one part of which changes.                                      *)
LEMMA RoutesChange ==
  ASSUME NEW st, Shaped(st), NEW v
  PROVE  LET changed == [st EXCEPT !.routes = v]
         IN  /\ Shaped(changed)
             /\ changed.routes = v /\ changed.nlris = st.nlris
             /\ changed.nextHops = st.nextHops /\ changed.free = st.free
             /\ changed.generations = st.generations
<1> DEFINE changed == [st EXCEPT !.routes = v]
<1>1. changed = [routes |-> v, nlris |-> st.nlris, nextHops |-> st.nextHops,
                 free |-> st.free, generations |-> st.generations]
  <2> DEFINE x == [routes |-> st.routes, nlris |-> st.nlris, nextHops |-> st.nextHops,
                   free |-> st.free, generations |-> st.generations]
  <2>1. [x EXCEPT !.routes = v] = [routes |-> v, nlris |-> st.nlris, nextHops |-> st.nextHops,
                 free |-> st.free, generations |-> st.generations]
    OBVIOUS
  <2>2. st = x
    BY DEF Shaped
  <2> HIDE DEF x
  <2>. QED  BY <2>1, <2>2
<1> HIDE DEF changed
<1>2. /\ changed.routes = v /\ changed.nlris = st.nlris
      /\ changed.nextHops = st.nextHops /\ changed.free = st.free
      /\ changed.generations = st.generations
  BY <1>1
<1>. QED  BY <1>1, <1>2 DEF Shaped, changed

LEMMA FreeChange ==
  ASSUME NEW st, Shaped(st), NEW v
  PROVE  LET changed == [st EXCEPT !.free = v]
         IN  /\ Shaped(changed)
             /\ changed.routes = st.routes /\ changed.nlris = st.nlris
             /\ changed.nextHops = st.nextHops /\ changed.free = v
             /\ changed.generations = st.generations
<1> DEFINE changed == [st EXCEPT !.free = v]
<1>1. changed = [routes |-> st.routes, nlris |-> st.nlris, nextHops |-> st.nextHops,
                 free |-> v, generations |-> st.generations]
  <2> DEFINE x == [routes |-> st.routes, nlris |-> st.nlris, nextHops |-> st.nextHops,
                   free |-> st.free, generations |-> st.generations]
  <2>1. [x EXCEPT !.free = v] = [routes |-> st.routes, nlris |-> st.nlris, nextHops |-> st.nextHops,
                 free |-> v, generations |-> st.generations]
    OBVIOUS
  <2>2. st = x
    BY DEF Shaped
  <2> HIDE DEF x
  <2>. QED  BY <2>1, <2>2
<1> HIDE DEF changed
<1>2. /\ changed.routes = st.routes /\ changed.nlris = st.nlris
      /\ changed.nextHops = st.nextHops /\ changed.free = v
      /\ changed.generations = st.generations
  BY <1>1
<1>. QED  BY <1>1, <1>2 DEF Shaped, changed

LEMMA GenerationsChange ==
  ASSUME NEW st, Shaped(st), NEW v
  PROVE  LET changed == [st EXCEPT !.generations = v]
         IN  /\ Shaped(changed)
             /\ changed.routes = st.routes /\ changed.nlris = st.nlris
             /\ changed.nextHops = st.nextHops /\ changed.free = st.free
             /\ changed.generations = v
<1> DEFINE changed == [st EXCEPT !.generations = v]
<1>1. changed = [routes |-> st.routes, nlris |-> st.nlris, nextHops |-> st.nextHops,
                 free |-> st.free, generations |-> v]
  <2> DEFINE x == [routes |-> st.routes, nlris |-> st.nlris, nextHops |-> st.nextHops,
                   free |-> st.free, generations |-> st.generations]
  <2>1. [x EXCEPT !.generations = v] = [routes |-> st.routes, nlris |-> st.nlris, nextHops |-> st.nextHops,
                 free |-> st.free, generations |-> v]
    OBVIOUS
  <2>2. st = x
    BY DEF Shaped
  <2> HIDE DEF x
  <2>. QED  BY <2>1, <2>2
<1> HIDE DEF changed
<1>2. /\ changed.routes = st.routes /\ changed.nlris = st.nlris
      /\ changed.nextHops = st.nextHops /\ changed.free = st.free
      /\ changed.generations = v
  BY <1>1
<1>. QED  BY <1>1, <1>2 DEF Shaped, changed

-----------------------------------------------------------------------------
(* Allocating and freeing an index                                         *)

NextIndex(st) == IF st.free = <<>> THEN Len(st.generations) + 1 ELSE Last(st.free)

(* An index that is taken is the one of no prefix, and the others stay.     *)
LEMMA GrownFacts ==
  ASSUME NEW st, ShardInv(st)
  PROVE  LET grown == WithNewPrefixIndex(st)
             index == NextIndex(st)
         IN  /\ ShardInv(grown)
             /\ index \in DOMAIN grown.generations
             /\ grown.generations[index] = IF st.free = <<>> THEN 0 ELSE st.generations[index]
             /\ \A i \in DOMAIN st.generations :
                  /\ i \in DOMAIN grown.generations
                  /\ grown.generations[i] = st.generations[i]
                  /\ grown.routes[i] = st.routes[i]
             /\ \A i \in DOMAIN grown.generations : i \in DOMAIN st.generations \/ i = index
             /\ \A i : FreeIn(grown, i) <=> FreeIn(st, i) /\ i # index
             /\ index \notin DOMAIN st.generations \/ FreeIn(st, index)
<1> DEFINE grown == WithNewPrefixIndex(st)
           index == NextIndex(st)
           n == Len(st.generations)
<1>0. /\ n \in Nat /\ DOMAIN st.generations = 1..n /\ DOMAIN st.routes = 1..n
      /\ Len(st.free) \in Nat /\ DOMAIN st.free = 1..Len(st.free)
      /\ \A i \in DOMAIN st.free : st.free[i] \in 1..n
      /\ st.free \in Seq(1..n)
  BY ShardFacts DEF ShardInv
<1>s. Shaped(st) /\ st.generations \in Seq(Nat) /\ List(st.routes) /\ Len(st.routes) = n
  BY DEF ShardInv
<1>1. CASE st.free = <<>>
  <2> DEFINE mid == [st EXCEPT !.generations = Append(st.generations, 0)]
             r == Append(st.routes, <<>>)
  <2>1. /\ Shaped(mid) /\ mid.routes = st.routes /\ mid.free = st.free
        /\ mid.generations = Append(st.generations, 0)
    BY <1>s, GenerationsChange
  <2>2. grown = [mid EXCEPT !.routes = r]
    <3>1. grown = [st EXCEPT !.generations = Append(st.generations, 0),
                             !.routes = Append(st.routes, <<>>)]
      BY <1>1 DEF WithNewPrefixIndex
    <3>. QED  BY <3>1
  <2> HIDE DEF mid, grown
  <2>3. /\ Shaped(grown) /\ grown.routes = r /\ grown.free = <<>>
        /\ grown.generations = Append(st.generations, 0)
    BY <1>1, <2>1, <2>2, RoutesChange
  <2>4. /\ List(r) /\ Len(r) = n + 1 /\ r[n + 1] = <<>> /\ \A i \in 1..n : r[i] = st.routes[i]
    BY <1>s, ListAppend
  <2>5. /\ grown.generations \in Seq(Nat) /\ Len(grown.generations) = n + 1
        /\ DOMAIN grown.generations = 1..(n + 1) /\ grown.generations[n + 1] = 0
        /\ \A i \in 1..n : grown.generations[i] = st.generations[i]
    BY <1>0, <1>s, <2>3
  <2>6. List(<<>>)
    BY Listed DEF List
  <2>7. ShardInv(grown)
    <3>1. \A i \in DOMAIN grown.routes : List(grown.routes[i])
      <4>1. DOMAIN r = 1..(n + 1)
        BY <1>0, <2>4, ListFacts
      <4> HIDE DEF r
      <4>2. \A i \in 1..n : List(r[i])
        BY <1>0, <2>4 DEF ShardInv
      <4>. QED  BY <1>0, <2>3, <2>4, <2>6, <4>1, <4>2
    <3>2. grown.free \in Seq(DOMAIN grown.generations)
      BY <2>3
    <3>3. \A i, j \in DOMAIN grown.free : grown.free[i] = grown.free[j] => i = j
      BY <2>3
    <3> HIDE DEF r
    <3>. QED  BY <2>3, <2>4, <2>5, <3>1, <3>2, <3>3 DEF ShardInv
  <2>8. index = n + 1
    BY <1>1 DEF NextIndex
  <2>9. \A i : ~ FreeIn(grown, i) /\ ~ FreeIn(st, i)
    BY <1>1, <2>3 DEF FreeIn
  <2> HIDE DEF index, r
  <2>. QED  BY <1>0, <1>1, <2>3, <2>4, <2>5, <2>7, <2>8, <2>9 DEF grown, index
<1>2. CASE st.free # <<>>
  <2> DEFINE f == Front(st.free)
             k == Len(st.free)
  <2>1. k > 0 /\ k \in Nat /\ k = Len(st.free)
    BY <1>0, <1>2
  <2>2. /\ f \in Seq(1..n) /\ Len(f) = k - 1 /\ DOMAIN f = 1..(k - 1)
        /\ \A i \in 1..(k - 1) : f[i] = st.free[i]
    BY <1>0, <1>2, FrontFacts
  <2>3. grown = [st EXCEPT !.free = f]
    BY <1>2 DEF WithNewPrefixIndex
  <2> HIDE DEF grown
  <2>4. Shaped(grown) /\ grown.routes = st.routes /\ grown.free = f /\ grown.generations = st.generations
    BY <1>s, <2>3, FreeChange
  <2>6. index = st.free[k] /\ index \in 1..n
    BY <1>0, <1>2, <2>1 DEF NextIndex, Last
  <2>7. DOMAIN st.free = 1..k /\ \A i, j \in 1..k : st.free[i] = st.free[j] => i = j
    BY <1>0 DEF ShardInv
  <2> HIDE DEF f, k, index
  <2>5. ShardInv(grown)
    <3>1. \A i \in 1..(k - 1) : i \in 1..k /\ f[i] = st.free[i]
      BY <2>1, <2>2
    <3>2. \A i, j \in DOMAIN grown.free : grown.free[i] = grown.free[j] => i = j
      BY <2>2, <2>4, <2>7, <3>1
    <3>. QED  BY <1>0, <2>2, <2>4, <3>2 DEF ShardInv
  <2>8. \A i : FreeIn(grown, i) <=> FreeIn(st, i) /\ i # index
    <3>1. \A j \in 1..k : j = k \/ j \in 1..(k - 1)
      BY <2>1
    <3>2. \A j \in 1..(k - 1) : j \in 1..k /\ j # k /\ f[j] = st.free[j]
      BY <2>1, <2>2
    <3>3. k \in 1..k
      BY <2>1
    <3>. QED  BY <2>2, <2>4, <2>6, <2>7, <3>1, <3>2, <3>3 DEF FreeIn
  <2>9. FreeIn(st, index)
    BY <2>1, <2>6, <2>7 DEF FreeIn
  <2>. QED  BY <1>0, <1>2, <2>4, <2>5, <2>6, <2>8, <2>9 DEF grown, index
<1>. QED  BY <1>1, <1>2

LEMMA FreedFacts ==
  ASSUME NEW st, ShardInv(st), NEW index \in DOMAIN st.generations, ~ FreeIn(st, index)
  PROVE  LET freed == FreePrefixIndex(st, index)
         IN  /\ ShardInv(freed)
             /\ DOMAIN freed.generations = DOMAIN st.generations
             /\ freed.generations[index] = st.generations[index] + 1
             /\ \A i \in DOMAIN st.generations \ {index} : freed.generations[i] = st.generations[i]
             /\ freed.routes = st.routes
             /\ \A i : FreeIn(freed, i) <=> FreeIn(st, i) \/ i = index
<1> DEFINE freed == FreePrefixIndex(st, index)
           n == Len(st.generations)
           k == Len(st.free)
           g == [st.generations EXCEPT ![index] = @ + 1]
           f == Append(st.free, index)
           mid == [st EXCEPT !.generations = g]
<1>0. /\ n \in Nat /\ DOMAIN st.generations = 1..n /\ DOMAIN st.routes = 1..n
      /\ k \in Nat /\ DOMAIN st.free = 1..k
      /\ \A i \in DOMAIN st.free : st.free[i] \in 1..n
      /\ st.free \in Seq(1..n)
  BY ShardFacts DEF ShardInv
<1>s. Shaped(st) /\ st.generations \in Seq(Nat) /\ List(st.routes) /\ Len(st.routes) = n
  BY DEF ShardInv
<1>1. Shaped(mid) /\ mid.routes = st.routes /\ mid.free = st.free /\ mid.generations = g
  <2> HIDE DEF g
  <2>. QED  BY <1>s, GenerationsChange
<1>2. freed = [mid EXCEPT !.free = f]
  <2>1. freed = [st EXCEPT !.generations = g, !.free = f]
    BY DEF FreePrefixIndex
  <2>. QED  BY <2>1
<1> HIDE DEF mid, freed, f, g
<1>3. Shaped(freed) /\ freed.routes = st.routes /\ freed.free = f /\ freed.generations = g
  BY <1>1, <1>2, FreeChange
<1>4. /\ g \in Seq(Nat) /\ DOMAIN g = 1..n /\ Len(g) = n
      /\ g[index] = st.generations[index] + 1
      /\ \A i \in 1..n : i # index => g[i] = st.generations[i]
  BY <1>0, <1>s DEF g
<1>5. /\ f \in Seq(1..n) /\ Len(f) = k + 1 /\ DOMAIN f = 1..(k + 1) /\ f[k + 1] = index
      /\ \A i \in 1..k : f[i] = st.free[i]
  BY <1>0 DEF f
<1>6. \A i \in 1..k : st.free[i] # index
  BY <1>0 DEF FreeIn
<1>k. k \in Nat /\ DOMAIN st.free = 1..k /\ \A i, j \in 1..k : st.free[i] = st.free[j] => i = j
  BY <1>0 DEF ShardInv
<1> HIDE DEF k
<1>j. \A j \in 1..(k + 1) : j = k + 1 \/ j \in 1..k
  BY <1>k
<1>7. \A i, j \in 1..(k + 1) : f[i] = f[j] => i = j
  BY <1>5, <1>6, <1>k, <1>j
<1>8. ShardInv(freed)
  <2>1. \A i \in DOMAIN freed.routes : List(freed.routes[i])
    BY <1>3 DEF ShardInv
  <2>. QED  BY <1>0, <1>s, <1>3, <1>4, <1>5, <1>7, <2>1 DEF ShardInv
<1>9. \A i : FreeIn(freed, i) <=> FreeIn(st, i) \/ i = index
  <2>1. k + 1 \in 1..(k + 1) /\ \A j \in 1..k : j \in 1..(k + 1)
    BY <1>k
  <2>. QED  BY <1>3, <1>5, <1>k, <1>j, <2>1 DEF FreeIn
<1>. QED  BY <1>0, <1>3, <1>4, <1>8, <1>9 DEF freed

-----------------------------------------------------------------------------
(* Removing routes                                                         *)

LEMMA ReleaseFacts ==
  ASSUME NEW st, ShardInv(st), NEW routes
  PROVE  /\ ShardInv(Release(st, routes))
         /\ Release(st, routes).routes = st.routes
         /\ Release(st, routes).free = st.free
         /\ Release(st, routes).generations = st.generations
<1>1. PICK x, y : Release(st, routes) = WithPools(st, x, y)
  BY DEF Release, WithPools
<1>2. Shaped(st)
  BY DEF ShardInv
<1>3. /\ Shaped(Release(st, routes)) /\ Release(st, routes).routes = st.routes
      /\ Release(st, routes).free = st.free /\ Release(st, routes).generations = st.generations
  BY <1>1, <1>2, InternedFacts
<1>. QED  BY <1>3 DEF ShardInv

LEMMA LeftList == ASSUME NEW q, List(q), NEW matching PROVE List(Left(q, matching))
BY AmongList DEF Left

LEMMA RemovedFacts ==
  ASSUME NEW st, ShardInv(st), NEW index \in DOMAIN st.generations, NEW matching
  PROVE  LET removed == RemoveRoutes(st, index, matching)
         IN  /\ ShardInv(removed)
             /\ removed.generations = st.generations /\ removed.free = st.free
             /\ \A i \in DOMAIN st.generations \ {index} : removed.routes[i] = st.routes[i]
<1> DEFINE removed == RemoveRoutes(st, index, matching)
           released == Release(st, Among(st.routes[index], matching))
           new == Left(st.routes[index], matching)
           r == [st.routes EXCEPT ![index] = new]
<1>1. /\ ShardInv(released) /\ released.routes = st.routes /\ released.free = st.free
      /\ released.generations = st.generations
  BY ReleaseFacts
<1>2. removed = [released EXCEPT !.routes = [released.routes EXCEPT ![index] = Left(released.routes[index], matching)]]
  BY DEF RemoveRoutes
<1>3. Shaped(released)
  BY <1>1 DEF ShardInv
<1> HIDE DEF removed, released, new
<1>4. removed = [released EXCEPT !.routes = r]
  BY <1>1, <1>2 DEF new
<1> HIDE DEF r
<1>5. /\ Shaped(removed) /\ removed.routes = r /\ removed.free = st.free
      /\ removed.generations = st.generations
  BY <1>1, <1>3, <1>4, RoutesChange
<1>6. /\ Len(st.generations) \in Nat /\ DOMAIN st.routes = 1..Len(st.generations)
      /\ DOMAIN st.generations = 1..Len(st.generations)
  BY ShardFacts
<1>7. List(r) /\ Len(r) = Len(st.generations)
  BY ListUpdate DEF ShardInv, r
<1>8. \A i \in DOMAIN r : List(r[i])
  <2>1. DOMAIN r = DOMAIN st.routes /\ r[index] = new
        /\ \A i \in DOMAIN st.routes \ {index} : r[i] = st.routes[i]
    BY <1>6 DEF r
  <2>2. List(new)
    BY <1>6, LeftList DEF ShardInv, new
  <2>. QED  BY <2>1, <2>2 DEF ShardInv
<1>9. \A i \in DOMAIN st.generations \ {index} : r[i] = st.routes[i]
  BY <1>6 DEF r
<1>10. ShardInv(removed)
  BY <1>5, <1>7, <1>8 DEF ShardInv
<1>. QED  BY <1>5, <1>9, <1>10 DEF removed

(* The index is freed if it has no route left.                             *)
LEMMA FreeIfEmptyFacts ==
  ASSUME NEW st, ShardInv(st), NEW index \in DOMAIN st.generations, ~ FreeIn(st, index)
  PROVE  LET freed == FreeIfEmpty(st, index)
             empty == st.routes[index] = <<>>
         IN  /\ ShardInv(freed)
             /\ DOMAIN freed.generations = DOMAIN st.generations
             /\ freed.generations[index] = st.generations[index] + (IF empty THEN 1 ELSE 0)
             /\ \A i \in DOMAIN st.generations \ {index} : freed.generations[i] = st.generations[i]
             /\ freed.routes = st.routes
             /\ \A i : FreeIn(freed, i) <=> FreeIn(st, i) \/ (empty /\ i = index)
<1>1. st.generations[index] \in Nat
  BY ShardFacts
<1>2. CASE st.routes[index] = <<>>
  BY <1>2, FreedFacts DEF FreeIfEmpty
<1>3. CASE st.routes[index] # <<>>
  BY <1>1, <1>3 DEF FreeIfEmpty
<1>. QED  BY <1>2, <1>3

LEMMA FlushedFacts ==
  ASSUME NEW st, ShardInv(st), NEW peer,
         NEW indexes \in SUBSET (DOMAIN st.generations), \A i \in indexes : ~ FreeIn(st, i)
  PROVE  LET flushed == Flushed(st, indexes, peer)
             emptied == {i \in indexes : flushed.routes[i] = <<>>}
         IN  /\ ShardInv(flushed)
             /\ DOMAIN flushed.generations = DOMAIN st.generations
             /\ \A i \in DOMAIN st.generations :
                  flushed.generations[i] = st.generations[i] + (IF i \in emptied THEN 1 ELSE 0)
             /\ \A i : FreeIn(flushed, i) <=> FreeIn(st, i) \/ i \in emptied
<1> DEFINE theirs(i) == {j \in DOMAIN st.routes[i] : st.routes[i][j].peer = peer}
           gone == SetToSeq(UNION {{i} \X theirs(i) : i \in indexes})
           left == [i \in DOMAIN st.routes |->
                      IF i \in indexes THEN Left(st.routes[i], OfPeer(st, i, peer))
                                       ELSE st.routes[i]]
           emptied == {i \in indexes : left[i] = <<>>}
           released == Release(st, [k \in DOMAIN gone |-> st.routes[gone[k][1]][gone[k][2]]])
           f == st.free \o SetToSeq(emptied)
           g == [i \in DOMAIN st.generations |->
                   IF i \in emptied THEN st.generations[i] + 1 ELSE st.generations[i]]
           mid == [released EXCEPT !.routes = left]
           mid2 == [mid EXCEPT !.free = f]
           flushed == Flushed(st, indexes, peer)
           n == Len(st.generations)
           k == Len(st.free)
<1>0. /\ n \in Nat /\ DOMAIN st.generations = 1..n /\ DOMAIN st.routes = 1..n
      /\ k \in Nat /\ DOMAIN st.free = 1..k
      /\ \A i \in DOMAIN st.generations : st.generations[i] \in Nat
      /\ st.free \in Seq(1..n)
      /\ \A i, j \in 1..k : st.free[i] = st.free[j] => i = j
  BY ShardFacts DEF ShardInv
<1>1. /\ ShardInv(released) /\ Shaped(released) /\ released.routes = st.routes
      /\ released.free = st.free /\ released.generations = st.generations
  BY ReleaseFacts DEF ShardInv
<1>2. flushed = [released EXCEPT !.routes = left, !.free = released.free \o SetToSeq(emptied),
                                 !.generations = [i \in DOMAIN released.generations |->
                                    IF i \in emptied THEN released.generations[i] + 1
                                                     ELSE released.generations[i]]]
  BY DEF Flushed
<1> HIDE DEF released, flushed
<1>3. flushed = [released EXCEPT !.routes = left, !.free = f, !.generations = g]
  <2> HIDE DEF left, emptied
  <2>. QED  BY <1>1, <1>2
<1>4. flushed = [mid2 EXCEPT !.generations = g]
  <2> HIDE DEF left, f, g
  <2>. QED  BY <1>3
<1> HIDE DEF left, f, g, mid, mid2
<1>5. Shaped(mid) /\ mid.routes = left /\ mid.free = st.free /\ mid.generations = st.generations
  BY <1>1, RoutesChange DEF mid
<1>6. Shaped(mid2) /\ mid2.routes = left /\ mid2.free = f /\ mid2.generations = st.generations
  BY <1>5, FreeChange DEF mid2
<1>7. Shaped(flushed) /\ flushed.routes = left /\ flushed.free = f /\ flushed.generations = g
  BY <1>4, <1>6, GenerationsChange
<1>8. emptied \in SUBSET (1..n) /\ IsFiniteSet(emptied)
  <2>1. IsFiniteSet(1..n)
    BY <1>0, FS_Interval
  <2>2. emptied \in SUBSET (1..n)
    <3> HIDE DEF left
    <3>. QED  BY <1>0
  <2> HIDE DEF emptied, n
  <2>. QED  BY <2>1, <2>2, FS_Subset
<1>9. /\ List(left) /\ Len(left) = n /\ DOMAIN left = 1..n
      /\ \A i \in DOMAIN left : List(left[i])
  <2>1. left = [i \in 1..n |-> left[i]] /\ DOMAIN left = 1..n
    BY <1>0 DEF left
  <2>2. \A i \in 1..n : List(left[i])
    <3>1. \A i \in 1..n : List(st.routes[i])
      BY <1>0 DEF ShardInv
    <3>2. \A i \in 1..n : List(Left(st.routes[i], OfPeer(st, i, peer)))
      BY <3>1, LeftList
    <3>. QED  BY <1>0, <3>1, <3>2 DEF left
  <2>. QED  BY <1>0, <2>1, <2>2, Listed
<1>10. /\ g \in Seq(Nat) /\ DOMAIN g = 1..n /\ Len(g) = n
       /\ \A i \in 1..n : g[i] = st.generations[i] + (IF i \in emptied THEN 1 ELSE 0)
  <2> HIDE DEF emptied
  <2>. QED  BY <1>0 DEF g
<1> DEFINE e == SetToSeq(emptied)
           m == Len(e)
<1>11. /\ e \in Seq(1..n) /\ m \in Nat /\ DOMAIN e = 1..m /\ m = Len(e)
       /\ \A i \in 1..m : e[i] \in emptied
       /\ \A i, j \in 1..m : e[i] = e[j] => i = j
       /\ \A x \in emptied : \E i \in 1..m : e[i] = x
  <2> HIDE DEF emptied
  <2>1. /\ e \in Seq(emptied) /\ \A i, j \in DOMAIN e : e[i] = e[j] => i = j
        /\ \A x \in emptied : \E i \in DOMAIN e : e[i] = x
    BY <1>8, SetToSeqFacts
  <2> HIDE DEF e
  <2>2. m \in Nat /\ DOMAIN e = 1..m /\ \A i \in 1..m : e[i] \in emptied
    BY <2>1
  <2>3. e \in Seq(1..n)
    <3>1. \A i \in 1..m : e[i] \in 1..n
      BY <1>8, <2>2
    <3>2. e = [i \in 1..m |-> e[i]]
      BY <2>1, <2>2
    <3> HIDE DEF n, m
    <3>3. e \in [1..m -> 1..n]
      BY <3>1, <3>2
    <3>4. m \in Nat
      BY <2>2
    <3>. QED  BY <3>3, <3>4, InSeq
  <2>. QED  BY <2>1, <2>2, <2>3
<1>12. /\ f \in Seq(1..n) /\ Len(f) = k + m /\ DOMAIN f = 1..(k + m)
       /\ \A i \in 1..k : f[i] = st.free[i]
       /\ \A i \in 1..m : f[k + i] = e[i]
  <2> HIDE DEF emptied, e
  <2>1. f = st.free \o e
    BY DEF f, e
  <2>. QED  BY <1>0, <1>11, <2>1
<1>f. k = Len(st.free) /\ k \in Nat
  BY <1>0
<1>13. \A i \in emptied : \A j \in 1..k : st.free[j] # i
  BY <1>0 DEF FreeIn
<1>e. emptied = {i \in indexes : flushed.routes[i] = <<>>}
  BY <1>7
<1>l. Len(st.generations) = n /\ n \in Nat
  BY <1>0
<1> HIDE DEF k, m, e, emptied, n
<1>14. \A i \in 1..(k + m) : i \in 1..k \/ (i - k \in 1..m /\ i = k + (i - k))
  BY <1>f, <1>11
<1>15. \A i, j \in 1..(k + m) : f[i] = f[j] => i = j
  <2> SUFFICES ASSUME NEW i \in 1..(k + m), NEW j \in 1..(k + m), f[i] = f[j] PROVE i = j
    OBVIOUS
  <2>1. CASE i \in 1..k /\ j \in 1..k
    BY <1>0, <1>12, <2>1
  <2>2. CASE i \in 1..k /\ j \notin 1..k
    BY SMTT(30), <1>11, <1>12, <1>13, <1>14, <2>2
  <2>3. CASE i \notin 1..k /\ j \in 1..k
    BY <1>11, <1>12, <1>13, <1>14, <2>3
  <2>4. CASE i \notin 1..k /\ j \notin 1..k
    <3>1. e[i - k] = e[j - k] /\ i - k \in 1..m /\ j - k \in 1..m
      BY <1>12, <1>14, <2>4
    <3>2. i - k = j - k
      BY <1>11, <3>1
    <3>. QED  BY <1>f, <3>2
  <2>. QED  BY <2>1, <2>2, <2>3, <2>4
<1>16. \A i : FreeIn(flushed, i) <=> FreeIn(st, i) \/ i \in emptied
  <2>1. \A j \in 1..k : j \in 1..(k + m)
    BY <1>f, <1>11
  <2>2. \A j \in 1..m : k + j \in 1..(k + m)
    BY <1>f, <1>11
  <2>3. ASSUME NEW i, FreeIn(flushed, i) PROVE FreeIn(st, i) \/ i \in emptied
    <3>1. PICK j \in 1..(k + m) : f[j] = i
      BY <1>7, <1>12, <2>3 DEF FreeIn
    <3>2. CASE j \in 1..k
      BY <1>0, <1>12, <3>1, <3>2 DEF FreeIn
    <3>3. CASE j \notin 1..k
      BY <1>11, <1>12, <1>14, <3>1, <3>3
    <3>. QED  BY <3>2, <3>3
  <2>4. ASSUME NEW i, FreeIn(st, i) PROVE FreeIn(flushed, i)
    BY <1>0, <1>7, <1>12, <2>1, <2>4 DEF FreeIn
  <2>5. ASSUME NEW i \in emptied PROVE FreeIn(flushed, i)
    BY <1>7, <1>11, <1>12, <2>2 DEF FreeIn
  <2>. QED  BY <2>3, <2>4, <2>5
<1>17. ShardInv(flushed)
  <2>1. DOMAIN flushed.generations = 1..n
    BY <1>7, <1>10
  <2>. QED  BY <1>7, <1>9, <1>10, <1>12, <1>15, <2>1 DEF ShardInv
<1>18. DOMAIN st.generations = 1..n
  BY <1>0
<1>. QED  BY <1>7, <1>10, <1>16, <1>17, <1>18, <1>e DEF flushed, emptied

-----------------------------------------------------------------------------
(* The invariant                                                           *)

LEMMA IndexInit == Init => IndexInv
<1> SUFFICES ASSUME Init PROVE IndexInv
  OBVIOUS
<1>1. ShardInv(EmptyShard)
  <2>1. List(<<>>)
    BY Listed DEF List
  <2>. QED  BY <2>1 DEF ShardInv, Shaped, EmptyShard
<1>2. ShardsInv
  BY <1>1 DEF Init, ShardsInv
<1>3. \A s \in Shards : DOMAIN shard[s].generations = {}
  BY DEF Init, EmptyShard
<1>4. TreeInv
  BY <1>3 DEF Init, TreeInv
<1>5. AddingInv
  BY DEF Init, AddingInv, NotAdding
<1>6. LookupInv
  BY DEF Init, LookupInv, ReaderIdle
<1>. QED  BY <1>2, <1>4, <1>5, <1>6 DEF IndexInv

(* Only what is interned changes: the shards keep their indexes.           *)
SameIndexes(st, changed) ==
  /\ changed.routes = st.routes /\ changed.free = st.free
  /\ changed.generations = st.generations

LEMMA SomeShard ==
  ASSUME ShardsInv, NEW s \in Shards, NEW st, ShardInv(st),
         shard' = [shard EXCEPT ![s] = st]
  PROVE  /\ ShardsInv' /\ shard'[s] = st
         /\ \A t \in Shards \ {s} : shard'[t] = shard[t]
BY DEF ShardsInv

(* A prefix is in the shard that ShardOf says.                             *)
LEMMA ShardOfType == ASSUME NEW p \in PrefixSet PROVE ShardOf[p] \in Shards
BY RibAssumption DEF RibAssumption

LEMMA SameTree ==
  ASSUME TreeInv, tree' = tree,
         \A t \in Shards : \A i : FreeIn(shard[t], i) <=> FreeIn(shard'[t], i),
         \A t \in Shards : shard'[t].generations = shard[t].generations
  PROVE  TreeInv'
<1>1. /\ tree' = [p \in DOMAIN tree' |-> tree'[p]] /\ DOMAIN tree' \subseteq PrefixSet
  BY DEF TreeInv
<1>2. ASSUME NEW p \in DOMAIN tree'
      PROVE  /\ tree'[p] = [index |-> tree'[p].index, generation |-> tree'[p].generation]
             /\ tree'[p].index \in DOMAIN shard'[ShardOf[p]].generations
             /\ tree'[p].generation = shard'[ShardOf[p]].generations[tree'[p].index]
             /\ ~ FreeIn(shard'[ShardOf[p]], tree'[p].index)
             /\ \A q \in DOMAIN tree' :
                  ShardOf[q] = ShardOf[p] /\ tree'[q].index = tree'[p].index => q = p
  <2>1. p \in DOMAIN tree /\ ShardOf[p] \in Shards
    BY <1>1, <1>2, ShardOfType
  <2>. QED  BY <2>1 DEF TreeInv
<1>3. ASSUME NEW t \in Shards, NEW i \in DOMAIN shard'[t].generations
      PROVE  FreeIn(shard'[t], i) \/ \E p \in DOMAIN tree' : ShardOf[p] = t /\ tree'[p].index = i
  BY DEF TreeInv
<1>. QED  BY <1>1, <1>2, <1>3 DEF TreeInv

LEMMA NobodyAdds ==
  ASSUME AddingInv, NEW peer \in Peers, adding[peer].busy
  PROVE  shardLock[ShardOf[adding[peer].prefix]] \notin {NoPeer, Flush}
BY RibAssumption DEF RibAssumption, AddingInv

(* A peer starts to add a route: it takes the lock of the shard.           *)
LEMMA Taken ==
  ASSUME AddingInv, NEW peer \in Peers, NEW prefix, NEW route,
         ~ adding[peer].busy, ShardOf[prefix] \in Shards, shardLock[ShardOf[prefix]] = NoPeer,
         DOMAIN tree' = DOMAIN tree \cup {prefix},
         shardLock' = [shardLock EXCEPT ![ShardOf[prefix]] = peer],
         adding' = [adding EXCEPT ![peer] = [busy |-> TRUE, prefix |-> prefix, route |-> route]]
  PROVE  /\ adding' = [w \in Peers |-> adding'[w]]
         /\ shardLock' = [s \in Shards |-> shardLock'[s]]
         /\ adding'[peer].busy /\ adding'[peer].prefix = prefix
         /\ \A w \in Peers :
              /\ adding[w].busy => adding'[w].busy /\ adding'[w].prefix = adding[w].prefix
              /\ adding'[w].busy =>
                   /\ adding'[w].prefix \in DOMAIN tree'
                   /\ shardLock'[ShardOf[adding'[w].prefix]] = w
<1> DEFINE new == [busy |-> TRUE, prefix |-> prefix, route |-> route]
<1>1. /\ adding = [w \in Peers |-> adding[w]] /\ shardLock = [s \in Shards |-> shardLock[s]]
      /\ \A w \in Peers : adding[w].busy =>
           adding[w].prefix \in DOMAIN tree /\ shardLock[ShardOf[adding[w].prefix]] = w
  BY DEF AddingInv
<1>2. new.busy /\ new.prefix = prefix
  OBVIOUS
<1>3. adding' = [adding EXCEPT ![peer] = new]
  OBVIOUS
<1> HIDE DEF new
<1>4. /\ adding' = [w \in Peers |-> adding'[w]] /\ adding'[peer] = new
      /\ \A w \in Peers \ {peer} : adding'[w] = adding[w]
  BY <1>1, <1>3
<1>5. /\ shardLock' = [s \in Shards |-> shardLock'[s]] /\ shardLock'[ShardOf[prefix]] = peer
      /\ \A s : s # ShardOf[prefix] => shardLock'[s] = shardLock[s]
  BY <1>1
<1>6. ASSUME NEW w \in Peers, adding'[w].busy
      PROVE  adding'[w].prefix \in DOMAIN tree' /\ shardLock'[ShardOf[adding'[w].prefix]] = w
  <2>1. CASE w = peer
    BY <1>2, <1>4, <1>5, <2>1
  <2>2. CASE w # peer
    <3>1. adding'[w] = adding[w] /\ w # NoPeer
      BY <1>4, <2>2, RibAssumption DEF RibAssumption
    <3>2. shardLock[ShardOf[adding[w].prefix]] = w /\ adding[w].prefix \in DOMAIN tree
      BY <1>1, <1>6, <3>1
    <3>3. ShardOf[adding[w].prefix] # ShardOf[prefix]
      BY <3>1, <3>2
    <3>. QED  BY <1>5, <3>1, <3>2, <3>3
  <2>. QED  BY <2>1, <2>2
<1>7. \A w \in Peers : adding[w].busy => adding'[w].busy /\ adding'[w].prefix = adding[w].prefix
  BY <1>4
<1>. QED  BY <1>2, <1>4, <1>5, <1>6, <1>7

LEMMA AddTreeInv ==
  ASSUME IndexInv, NEW peer \in Peers, NEW prefix \in PrefixSet,
         NEW nlri \in NLRIs, NEW nextHop \in NextHops,
         AddRouteTree(peer, prefix, nlri, nextHop)
  PROVE  IndexInv'
<1> DEFINE s == ShardOf[prefix]
           nlris == Put(shard[s].nlris, nlri)
           nextHops == Put(shard[s].nextHops, nextHop)
           interned == WithPools(shard[s], nlris, nextHops)
           grown == WithNewPrefixIndex(interned)
           index == NextIndex(interned)
           route == [peer |-> peer, nlri |-> Ref(nlris, nlri), nextHop |-> Ref(nextHops, nextHop)]
<1>s. s \in Shards
  BY ShardOfType
<1>i. ShardsInv /\ TreeInv /\ AddingInv /\ LookupInv
  BY DEF IndexInv
<1>1. /\ ~ adding[peer].busy /\ shardLock[s] = NoPeer
      /\ shardLock' = [shardLock EXCEPT ![s] = peer]
      /\ adding' = [adding EXCEPT ![peer] = [busy |-> TRUE, prefix |-> prefix, route |-> route]]
      /\ lookup' = lookup
  BY DEF AddRouteTree
<1>2. IF prefix \in DOMAIN tree
      THEN shard' = [shard EXCEPT ![s] = interned] /\ tree' = tree
      ELSE /\ shard' = [shard EXCEPT ![s] = grown]
           /\ tree' = [p \in DOMAIN tree \cup {prefix} |->
                         IF p = prefix THEN NewPrefixIndex(s) ELSE tree[p]]
  BY DEF AddRouteTree, WithPools
<1> HIDE DEF nlris, nextHops, grown, route
<1>3. ShardInv(interned) /\ SameIndexes(shard[s], interned)
  <2>1. ShardInv(shard[s])
    BY <1>s, <1>i DEF ShardsInv
  <2> HIDE DEF s
  <2>2. Shaped(interned) /\ SameIndexes(shard[s], interned)
    BY <2>1, InternedFacts DEF ShardInv, SameIndexes
  <2> HIDE DEF interned
  <2>. QED  BY <2>1, <2>2 DEF ShardInv, SameIndexes
<1> HIDE DEF interned
<1>4. CASE prefix \in DOMAIN tree
  <2>1. shard' = [shard EXCEPT ![s] = interned] /\ tree' = tree
    BY <1>2, <1>4
  <2>2. ShardsInv' /\ \A t \in Shards : SameIndexes(shard[t], shard'[t])
    <3>1. ShardsInv' /\ shard'[s] = interned /\ \A t \in Shards \ {s} : shard'[t] = shard[t]
      BY <1>s, <1>i, <1>3, <2>1, SomeShard
    <3>. QED  BY <1>3, <3>1 DEF SameIndexes
  <2>3. \A t \in Shards : \A i : FreeIn(shard[t], i) <=> FreeIn(shard'[t], i)
    BY <2>2 DEF SameIndexes, FreeIn
  <2>4. \A p \in DOMAIN tree : ShardOf[p] \in Shards
    BY <1>i, ShardOfType DEF TreeInv
  <2>5. TreeInv'
    BY <1>i, <2>1, <2>2, <2>3, <2>4 DEF TreeInv, SameIndexes
  <2>6. AddingInv'
    <3>1. DOMAIN tree' = DOMAIN tree \cup {prefix}
      BY <1>4, <2>1
    <3> HIDE DEF s
    <3>2. /\ adding' = [w \in Peers |-> adding'[w]]
          /\ shardLock' = [t \in Shards |-> shardLock'[t]]
          /\ \A w \in Peers :
               /\ adding[w].busy => adding'[w].busy /\ adding'[w].prefix = adding[w].prefix
               /\ adding'[w].busy =>
                    /\ adding'[w].prefix \in DOMAIN tree'
                    /\ shardLock'[ShardOf[adding'[w].prefix]] = w
      BY <1>s, <1>i, <1>1, <3>1, Taken DEF s
    <3>3. ASSUME NEW p \in DOMAIN tree, shard'[ShardOf[p]].routes[tree[p].index] = <<>>
          PROVE  \E w \in Peers : adding'[w].busy /\ adding'[w].prefix = p
      <4>1. shard[ShardOf[p]].routes[tree[p].index] = <<>>
        BY <2>2, <2>4, <3>3 DEF SameIndexes
      <4>2. PICK w \in Peers : adding[w].busy /\ adding[w].prefix = p
        BY <1>i, <4>1 DEF AddingInv
      <4>. QED  BY <3>2, <4>2
    <3>. QED  BY <2>1, <3>2, <3>3 DEF AddingInv
  <2>7. LookupInv'
    <3>1. \A t \in Shards : shard'[t].generations = shard[t].generations
      BY <2>2 DEF SameIndexes
    <3>2. lookup' = lookup /\ lookup = [r \in Readers |-> lookup[r]]
      BY <1>i, <1>1 DEF LookupInv
    <3>3. \A p \in DOMAIN tree : p \in DOMAIN tree' /\ tree'[p] = tree[p]
      BY <2>1
    <3>4. \A r \in Readers : lookup[r].step = "found" => ShardOf[lookup[r].prefix] \in Shards
      BY <1>i, ShardOfType DEF LookupInv
    <3>. QED  BY <1>i, <3>1, <3>2, <3>3, <3>4 DEF LookupInv
  <2>. QED  BY <2>2, <2>5, <2>6, <2>7 DEF IndexInv
<1>5. CASE prefix \notin DOMAIN tree
  <2>1. /\ shard' = [shard EXCEPT ![s] = grown]
        /\ tree' = [p \in DOMAIN tree \cup {prefix} |->
                      IF p = prefix THEN NewPrefixIndex(s) ELSE tree[p]]
    BY <1>2, <1>5
  <2>2. /\ ShardInv(grown)
        /\ index \in DOMAIN grown.generations
        /\ grown.generations[index] = IF interned.free = <<>> THEN 0 ELSE interned.generations[index]
        /\ \A i \in DOMAIN interned.generations :
             /\ i \in DOMAIN grown.generations
             /\ grown.generations[i] = interned.generations[i]
             /\ grown.routes[i] = interned.routes[i]
        /\ \A i \in DOMAIN grown.generations : i \in DOMAIN interned.generations \/ i = index
        /\ \A i : FreeIn(grown, i) <=> FreeIn(interned, i) /\ i # index
        /\ index \notin DOMAIN interned.generations \/ FreeIn(interned, index)
    BY <1>3, GrownFacts DEF grown
  <2>3. NewPrefixIndex(s) = [index |-> index, generation |-> grown.generations[index]]
    BY <1>3, <2>2 DEF NewPrefixIndex, NextIndex, SameIndexes
  <2> HIDE DEF index
  <2>4. /\ \A i \in DOMAIN shard[s].generations :
             /\ i \in DOMAIN grown.generations
             /\ grown.generations[i] = shard[s].generations[i]
             /\ grown.routes[i] = shard[s].routes[i]
        /\ \A i \in DOMAIN grown.generations : i \in DOMAIN shard[s].generations \/ i = index
        /\ \A i : FreeIn(grown, i) <=> FreeIn(shard[s], i) /\ i # index
        /\ index \notin DOMAIN shard[s].generations \/ FreeIn(shard[s], index)
    BY <1>3, <2>2 DEF SameIndexes, FreeIn
  <2>5. /\ ShardsInv' /\ shard'[s] = grown
        /\ \A t \in Shards \ {s} : shard'[t] = shard[t]
    BY <1>s, <1>i, <2>1, <2>2, SomeShard
  <2>6. /\ tree' = [p \in DOMAIN tree' |-> tree'[p]]
        /\ DOMAIN tree' = DOMAIN tree \cup {prefix}
        /\ tree'[prefix] = [index |-> index, generation |-> grown.generations[index]]
        /\ \A p \in DOMAIN tree : tree'[p] = tree[p] /\ p # prefix
    BY <1>5, <2>1, <2>3
  <2>7. \A p \in DOMAIN tree : ShardOf[p] \in Shards /\ p \in PrefixSet
    BY <1>i, ShardOfType DEF TreeInv
  <2>8. \A p \in DOMAIN tree :
          /\ tree[p].index \in DOMAIN shard[ShardOf[p]].generations
          /\ tree[p].index \in DOMAIN shard'[ShardOf[p]].generations
          /\ shard'[ShardOf[p]].generations[tree[p].index] = shard[ShardOf[p]].generations[tree[p].index]
          /\ shard'[ShardOf[p]].routes[tree[p].index] = shard[ShardOf[p]].routes[tree[p].index]
          /\ ~ FreeIn(shard[ShardOf[p]], tree[p].index)
          /\ ~ FreeIn(shard'[ShardOf[p]], tree[p].index)
          /\ ShardOf[p] = s => tree[p].index # index
    <3> HIDE DEF s
    <3> TAKE p \in DOMAIN tree
    <3>1. tree[p].index \in DOMAIN shard[ShardOf[p]].generations /\ ~ FreeIn(shard[ShardOf[p]], tree[p].index)
      BY <1>i DEF TreeInv
    <3>2. CASE ShardOf[p] = s
      BY <2>4, <2>5, <3>1, <3>2
    <3>3. CASE ShardOf[p] # s
      BY <2>5, <2>7, <3>1, <3>3
    <3>. QED  BY <3>2, <3>3
  <2>9. TreeInv'
    <3>1. \A p \in DOMAIN tree' :
            /\ tree'[p] = [index |-> tree'[p].index, generation |-> tree'[p].generation]
            /\ tree'[p].index \in DOMAIN shard'[ShardOf[p]].generations
            /\ tree'[p].generation = shard'[ShardOf[p]].generations[tree'[p].index]
            /\ ~ FreeIn(shard'[ShardOf[p]], tree'[p].index)
      <4>1. ASSUME NEW p \in DOMAIN tree
            PROVE /\ tree'[p] = [index |-> tree'[p].index, generation |-> tree'[p].generation]
            /\ tree'[p].index \in DOMAIN shard'[ShardOf[p]].generations
            /\ tree'[p].generation = shard'[ShardOf[p]].generations[tree'[p].index]
            /\ ~ FreeIn(shard'[ShardOf[p]], tree'[p].index)
        BY <1>i, <2>6, <2>8 DEF TreeInv
      <4>2. /\ tree'[prefix] = [index |-> tree'[prefix].index, generation |-> tree'[prefix].generation]
            /\ tree'[prefix].index \in DOMAIN shard'[s].generations
            /\ tree'[prefix].generation = shard'[s].generations[tree'[prefix].index]
            /\ ~ FreeIn(shard'[s], tree'[prefix].index)
        BY <2>2, <2>4, <2>5, <2>6
      <4>. QED  BY <2>6, <4>1, <4>2
    <3>2. \A p, q \in DOMAIN tree' :
            ShardOf[q] = ShardOf[p] /\ tree'[q].index = tree'[p].index => q = p
      <4>1. \A p, q \in DOMAIN tree :
              ShardOf[q] = ShardOf[p] /\ tree[q].index = tree[p].index => q = p
        BY <1>i DEF TreeInv
      <4>2. tree'[prefix].index = index
        BY <2>6
      <4>. QED  BY <2>6, <2>8, <4>1, <4>2
    <3>3. \A t \in Shards : \A i \in DOMAIN shard'[t].generations :
            FreeIn(shard'[t], i) \/ \E p \in DOMAIN tree' : ShardOf[p] = t /\ tree'[p].index = i
      <4> HIDE DEF s
      <4> SUFFICES ASSUME NEW t \in Shards, NEW i \in DOMAIN shard'[t].generations,
                          ~ FreeIn(shard'[t], i)
                   PROVE  \E p \in DOMAIN tree' : ShardOf[p] = t /\ tree'[p].index = i
        OBVIOUS
      <4>1. CASE t = s /\ i = index
        BY <2>6, <4>1 DEF s
      <4>2. CASE t # s \/ i # index
        <5>1. i \in DOMAIN shard[t].generations /\ ~ FreeIn(shard[t], i)
          BY <2>4, <2>5, <4>2
        <5>2. PICK p \in DOMAIN tree : ShardOf[p] = t /\ tree[p].index = i
          BY <1>i, <5>1 DEF TreeInv
        <5>. QED  BY <2>6, <5>2
      <4>. QED  BY <4>1, <4>2
    <3>4. DOMAIN tree' \subseteq PrefixSet
      BY <2>6, <2>7
    <3>. QED  BY <2>6, <3>1, <3>2, <3>3, <3>4 DEF TreeInv
  <2>10. AddingInv'
    <3> HIDE DEF s
    <3>1. /\ adding' = [w \in Peers |-> adding'[w]]
          /\ shardLock' = [t \in Shards |-> shardLock'[t]]
          /\ adding'[peer].busy /\ adding'[peer].prefix = prefix
          /\ \A w \in Peers :
               /\ adding[w].busy => adding'[w].busy /\ adding'[w].prefix = adding[w].prefix
               /\ adding'[w].busy =>
                    /\ adding'[w].prefix \in DOMAIN tree'
                    /\ shardLock'[ShardOf[adding'[w].prefix]] = w
      BY <1>s, <1>i, <1>1, <2>6, Taken DEF s
    <3>2. ASSUME NEW p \in DOMAIN tree', shard'[ShardOf[p]].routes[tree'[p].index] = <<>>
          PROVE  \E w \in Peers : adding'[w].busy /\ adding'[w].prefix = p
      <4>1. CASE p = prefix
        BY <3>1, <4>1
      <4>2. CASE p # prefix
        <5>1. p \in DOMAIN tree /\ shard[ShardOf[p]].routes[tree[p].index] = <<>>
          BY <2>6, <2>8, <3>2, <4>2
        <5>2. PICK w \in Peers : adding[w].busy /\ adding[w].prefix = p
          BY <1>i, <5>1 DEF AddingInv
        <5>. QED  BY <3>1, <5>2
      <4>. QED  BY <4>1, <4>2
    <3>. QED  BY <3>1, <3>2 DEF AddingInv
  <2>11. LookupInv'
    <3> HIDE DEF s
    <3>1. ASSUME NEW t \in Shards, NEW i \in DOMAIN shard[t].generations
          PROVE  i \in DOMAIN shard'[t].generations /\ shard'[t].generations[i] = shard[t].generations[i]
      BY <2>4, <2>5
    <3>2. ASSUME NEW r \in Readers, lookup[r].step = "found"
          PROVE  LET p == lookup[r].prefix
                     ref == lookup[r].ref
                     generations == shard'[ShardOf[p]].generations
                 IN  /\ p \in PrefixSet
                     /\ ref.index \in DOMAIN generations
                     /\ ref.generation \in Nat /\ ref.generation <= generations[ref.index]
                     /\ ref.generation = generations[ref.index] => p \in DOMAIN tree' /\ tree'[p] = ref
      <4> DEFINE p == lookup[r].prefix
                 ref == lookup[r].ref
      <4>1. /\ p \in PrefixSet /\ ref.index \in DOMAIN shard[ShardOf[p]].generations
            /\ ref.generation \in Nat /\ ref.generation <= shard[ShardOf[p]].generations[ref.index]
            /\ ref.generation = shard[ShardOf[p]].generations[ref.index] =>
                 p \in DOMAIN tree /\ tree[p] = ref
        BY <1>i, <3>2 DEF LookupInv
      <4>2. ShardOf[p] \in Shards
        BY <4>1, ShardOfType
      <4> HIDE DEF p, ref
      <4>3. /\ ref.index \in DOMAIN shard'[ShardOf[p]].generations
            /\ shard'[ShardOf[p]].generations[ref.index] = shard[ShardOf[p]].generations[ref.index]
        BY <3>1, <4>1, <4>2
      <4>. QED  BY <2>6, <4>1, <4>3 DEF p, ref
    <3>. QED  BY <1>i, <1>1, <3>2 DEF LookupInv
  <2>. QED  BY <2>5, <2>9, <2>10, <2>11 DEF IndexInv
<1>. QED  BY <1>4, <1>5

LEMMA AddInsertInv ==
  ASSUME IndexInv, NEW peer \in Peers, AddRouteInsert(peer)
  PROVE  IndexInv'
<1> DEFINE prefix == adding[peer].prefix
           new == adding[peer].route
           s == ShardOf[prefix]
           index == tree[prefix].index
           routes == shard[s].routes[index]
           same == {i \in DOMAIN routes : routes[i].peer = peer /\ routes[i].nlri = new.nlri}
<1>i. ShardsInv /\ TreeInv /\ AddingInv /\ LookupInv
  BY DEF IndexInv
<1>1. /\ adding[peer].busy
      /\ shardLock' = [shardLock EXCEPT ![s] = NoPeer]
      /\ adding' = [adding EXCEPT ![peer] = NotAdding]
      /\ tree' = tree /\ lookup' = lookup
  BY DEF AddRouteInsert
<1>2. IF same = {}
      THEN shard' = [shard EXCEPT ![s].routes[index] = Append(@, new)]
      ELSE LET i == CHOOSE j \in same : TRUE
           IN  shard' = [shard EXCEPT ![s].routes[index][i] = new,
                                      ![s].nlris = Take(@, routes[i].nlri),
                                      ![s].nextHops = Take(@, routes[i].nextHop)]
  BY DEF AddRouteInsert
<1>3. prefix \in DOMAIN tree /\ s \in Shards /\ index \in DOMAIN shard[s].generations /\ shardLock[s] = peer
  <2>1. prefix \in DOMAIN tree /\ shardLock[s] = peer
    BY <1>i, <1>1 DEF AddingInv
  <2>2. s \in Shards
    BY <1>i, <2>1, ShardOfType DEF TreeInv
  <2>. QED  BY <1>i, <2>1, <2>2 DEF TreeInv
<1>4. ShardInv(shard[s]) /\ Shaped(shard[s]) /\ List(routes)
  <2>1. ShardInv(shard[s])
    BY <1>i, <1>3 DEF ShardsInv
  <2>2. DOMAIN shard[s].routes = DOMAIN shard[s].generations
    BY <2>1, ShardFacts
  <2>. QED  BY <1>3, <2>1, <2>2 DEF ShardInv
<1> HIDE DEF prefix, new, s, index
(* The routes that replace those of the index.                             *)
<1>5. ASSUME NEW st, NEW left, List(left), left # <<>>,
             Shaped(st), st.routes = [shard[s].routes EXCEPT ![index] = left],
             st.free = shard[s].free, st.generations = shard[s].generations,
             shard' = [shard EXCEPT ![s] = st]
      PROVE  IndexInv'
  <2>1. DOMAIN shard[s].routes = DOMAIN shard[s].generations
    BY <1>4, ShardFacts
  <2>2. /\ st.routes[index] = left
        /\ \A i \in DOMAIN shard[s].generations \ {index} : st.routes[i] = shard[s].routes[i]
        /\ DOMAIN st.routes = DOMAIN shard[s].routes
    BY <1>3, <1>5, <2>1
  <2>3. List(st.routes) /\ Len(st.routes) = Len(shard[s].generations)
    <3> DEFINE r == [shard[s].routes EXCEPT ![index] = left]
    <3>1. List(r) /\ Len(r) = Len(shard[s].generations)
      BY <1>4, ListUpdate DEF ShardInv
    <3> HIDE DEF r
    <3>2. st.routes = r
      BY <1>5 DEF r
    <3>. QED  BY <3>1, <3>2
  <2>4. \A i \in DOMAIN st.routes : List(st.routes[i])
    BY <1>4, <1>5, <2>1, <2>2 DEF ShardInv
  <2>5. ShardInv(st)
    BY <1>4, <1>5, <2>3, <2>4 DEF ShardInv
  <2>6. ShardsInv' /\ shard'[s] = st /\ \A t \in Shards \ {s} : shard'[t] = shard[t]
    BY <1>i, <1>3, <1>5, <2>5, SomeShard
  <2>7. \A t \in Shards : shard'[t].free = shard[t].free /\ shard'[t].generations = shard[t].generations
    BY <1>5, <2>6
  <2>8. \A t \in Shards : \A i : FreeIn(shard[t], i) <=> FreeIn(shard'[t], i)
    BY <2>7 DEF FreeIn
  <2>9. \A p \in DOMAIN tree : ShardOf[p] \in Shards
    BY <1>i, ShardOfType DEF TreeInv
  <2>10. TreeInv'
    BY <1>i, <1>1, <2>7, <2>8, <2>9, SameTree
  <2>11. LookupInv'
    BY <1>i, <1>1, <2>7, ShardOfType DEF LookupInv
  <2>12. AddingInv'
    <3>1. /\ adding' = [w \in Peers |-> adding'[w]] /\ ~ adding'[peer].busy
          /\ \A w \in Peers \ {peer} : adding'[w] = adding[w]
      BY <1>i, <1>1 DEF AddingInv, NotAdding
    <3>2. /\ shardLock' = [t \in Shards |-> shardLock'[t]]
          /\ \A t \in Shards \ {s} : shardLock'[t] = shardLock[t]
      BY <1>i, <1>1 DEF AddingInv
    <3>3. ASSUME NEW w \in Peers, adding'[w].busy
          PROVE  adding'[w].prefix \in DOMAIN tree /\ shardLock'[ShardOf[adding'[w].prefix]] = w
      <4>1. w # peer /\ adding'[w] = adding[w]
        BY <3>1, <3>3
      <4>2. adding[w].prefix \in DOMAIN tree /\ shardLock[ShardOf[adding[w].prefix]] = w
        BY <1>i, <3>3, <4>1 DEF AddingInv
      <4>3. ShardOf[adding[w].prefix] \in Shards \ {s}
        BY <1>3, <2>9, <4>1, <4>2
      <4>. QED  BY <3>2, <4>1, <4>2, <4>3
    <3>4. ASSUME NEW p \in DOMAIN tree, shard'[ShardOf[p]].routes[tree[p].index] = <<>>
          PROVE  \E w \in Peers : adding'[w].busy /\ adding'[w].prefix = p
      <4>1. ~ (ShardOf[p] = s /\ tree[p].index = index)
        BY <1>5, <2>2, <2>6, <3>4
      <4>2. tree[p].index \in DOMAIN shard[ShardOf[p]].generations
        BY <1>i DEF TreeInv
      <4>3. shard[ShardOf[p]].routes[tree[p].index] = <<>>
        BY <2>2, <2>6, <2>9, <3>4, <4>1, <4>2
      <4>4. PICK w \in Peers : adding[w].busy /\ adding[w].prefix = p
        BY <1>i, <4>3 DEF AddingInv
      <4>5. w # peer
        BY <4>1, <4>4 DEF prefix, s, index
      <4>. QED  BY <3>1, <4>4, <4>5
    <3>. QED  BY <1>1, <3>1, <3>2, <3>3, <3>4 DEF AddingInv
  <2>. QED  BY <2>6, <2>10, <2>11, <2>12 DEF IndexInv
<1>6. CASE same = {}
  <2> DEFINE left == Append(routes, new)
             r == [shard[s].routes EXCEPT ![index] = left]
             st == [shard[s] EXCEPT !.routes = r]
  <2>1. shard' = [shard EXCEPT ![s] = st]
    <3>1. shard' = [shard EXCEPT ![s].routes[index] = Append(@, new)]
      BY <1>2, <1>6
    <3>. QED  BY <3>1
  <2>2. List(left) /\ left # <<>>
    <3>1. List(left) /\ Len(left) = Len(routes) + 1 /\ Len(routes) \in Nat
      BY <1>4, ListAppend, ListFacts
    <3> HIDE DEF left
    <3>2. left = <<>> <=> Len(left) = 0
      BY <3>1, ListFacts
    <3>. QED  BY <3>1, <3>2
  <2> HIDE DEF left, r
  <2>3. Shaped(st) /\ st.routes = r /\ st.free = shard[s].free /\ st.generations = shard[s].generations
    BY <1>4, RoutesChange
  <2> HIDE DEF st
  <2>. QED  BY <1>5, <2>1, <2>2, <2>3 DEF r
<1>7. CASE same # {}
  <2> DEFINE i == CHOOSE j \in same : TRUE
             left == [routes EXCEPT ![i] = new]
             r == [shard[s].routes EXCEPT ![index] = left]
             mid == [shard[s] EXCEPT !.routes = r]
             a == Take(mid.nlris, routes[i].nlri)
             b == Take(mid.nextHops, routes[i].nextHop)
             st == WithPools(mid, a, b)
  <2>0. routes # <<>>
    BY <1>7
  <2>1. shard' = [shard EXCEPT ![s].routes[index][i] = new,
                               ![s].nlris = Take(@, routes[i].nlri),
                               ![s].nextHops = Take(@, routes[i].nextHop)]
    BY <1>2, <1>7
  <2> HIDE DEF i, same
  <2>2. shard' = [shard EXCEPT ![s] = st]
    BY <1>3, <1>i, <2>1 DEF WithPools, ShardsInv
  <2>3. List(left) /\ left # <<>>
    <3>1. List(left) /\ Len(left) = Len(routes)
      BY <1>4, ListUpdate
    <3> HIDE DEF left
    <3>2. (left = <<>> <=> Len(left) = 0) /\ (routes = <<>> <=> Len(routes) = 0)
      BY <1>4, <3>1, ListFacts
    <3>. QED  BY <2>0, <3>1, <3>2
  <2> HIDE DEF left, r
  <2>4. Shaped(mid) /\ mid.routes = r /\ mid.free = shard[s].free /\ mid.generations = shard[s].generations
    BY <1>4, RoutesChange
  <2> HIDE DEF mid, a, b
  <2>5. Shaped(st) /\ st.routes = r /\ st.free = shard[s].free /\ st.generations = shard[s].generations
    BY <2>4, InternedFacts
  <2> HIDE DEF st
  <2>. QED  BY <1>5, <2>2, <2>3, <2>5 DEF r
<1>. QED  BY <1>6, <1>7

-----------------------------------------------------------------------------
(* Prefixes that go: their indexes become free, with another generation.   *)

IsOf(prefixes, t, i) == \E p \in prefixes : ShardOf[p] = t /\ tree[p].index = i

LEMMA Pruned ==
  ASSUME IndexInv, ShardsInv', NEW gone \in SUBSET DOMAIN tree, tree' = Without(gone),
         adding' = adding, lookup' = lookup, shardLock' = [t \in Shards |-> shardLock'[t]],
         \A t \in Shards :
           /\ DOMAIN shard'[t].generations = DOMAIN shard[t].generations
           /\ \A i \in DOMAIN shard[t].generations :
                shard'[t].generations[i] =
                  shard[t].generations[i] + (IF IsOf(gone, t, i) THEN 1 ELSE 0)
           /\ \A i : FreeIn(shard'[t], i) <=> FreeIn(shard[t], i) \/ IsOf(gone, t, i),
         \A w \in Peers : adding[w].busy =>
           /\ adding[w].prefix \notin gone
           /\ shardLock'[ShardOf[adding[w].prefix]] = w,
         \A p \in DOMAIN tree \ gone :
           \/ shard'[ShardOf[p]].routes[tree[p].index] # <<>>
           \/ shard'[ShardOf[p]].routes[tree[p].index] = shard[ShardOf[p]].routes[tree[p].index]
  PROVE  IndexInv'
<1>i. ShardsInv /\ TreeInv /\ AddingInv /\ LookupInv
  BY DEF IndexInv
<1>1. /\ tree' = [p \in DOMAIN tree' |-> tree'[p]] /\ DOMAIN tree' = DOMAIN tree \ gone
      /\ \A p \in DOMAIN tree' : tree'[p] = tree[p]
  BY DEF Without
<1>2. \A p \in DOMAIN tree : p \in PrefixSet /\ ShardOf[p] \in Shards
  BY <1>i, ShardOfType DEF TreeInv
<1>3. ASSUME NEW p \in DOMAIN tree' PROVE ~ IsOf(gone, ShardOf[p], tree[p].index)
  BY <1>i, <1>1 DEF TreeInv, IsOf
<1>4. \A t \in Shards : \A i \in DOMAIN shard[t].generations : shard[t].generations[i] \in Nat
  BY <1>i, ShardFacts DEF ShardsInv
<1>5. TreeInv'
  <2>1. ASSUME NEW p \in DOMAIN tree'
        PROVE  /\ tree'[p] = [index |-> tree'[p].index, generation |-> tree'[p].generation]
               /\ tree'[p].index \in DOMAIN shard'[ShardOf[p]].generations
               /\ tree'[p].generation = shard'[ShardOf[p]].generations[tree'[p].index]
               /\ ~ FreeIn(shard'[ShardOf[p]], tree'[p].index)
               /\ \A q \in DOMAIN tree' :
                    ShardOf[q] = ShardOf[p] /\ tree'[q].index = tree'[p].index => q = p
    <3> DEFINE t == ShardOf[p]
               i == tree[p].index
    <3>1. p \in DOMAIN tree /\ tree'[p] = tree[p] /\ t \in Shards
      BY <1>1, <1>2
    <3>2. /\ tree[p] = [index |-> i, generation |-> tree[p].generation]
          /\ i \in DOMAIN shard[t].generations
          /\ tree[p].generation = shard[t].generations[i]
          /\ ~ FreeIn(shard[t], i)
          /\ \A q \in DOMAIN tree : ShardOf[q] = ShardOf[p] /\ tree[q].index = i => q = p
      BY <1>i, <3>1 DEF TreeInv
    <3>3. ~ IsOf(gone, t, i)
      BY <1>3
    <3>4. /\ i \in DOMAIN shard'[t].generations /\ ~ FreeIn(shard'[t], i)
          /\ shard'[t].generations[i] = shard[t].generations[i]
      BY <1>4, <3>1, <3>2, <3>3
    <3>. QED  BY <1>1, <3>1, <3>2, <3>4
  <2>2. ASSUME NEW t \in Shards, NEW i \in DOMAIN shard'[t].generations, ~ FreeIn(shard'[t], i)
        PROVE  \E p \in DOMAIN tree' : ShardOf[p] = t /\ tree'[p].index = i
    <3>1. i \in DOMAIN shard[t].generations /\ ~ FreeIn(shard[t], i) /\ ~ IsOf(gone, t, i)
      BY <2>2
    <3>2. PICK p \in DOMAIN tree : ShardOf[p] = t /\ tree[p].index = i
      BY <1>i, <3>1 DEF TreeInv
    <3>3. p \notin gone
      BY <3>1, <3>2 DEF IsOf
    <3>. QED  BY <1>1, <3>2, <3>3
  <2>3. DOMAIN tree' \subseteq PrefixSet
    BY <1>1, <1>2
  <2>. QED  BY <1>1, <2>1, <2>2, <2>3 DEF TreeInv
<1>6. AddingInv'
  <2>1. ASSUME NEW w \in Peers, adding[w].busy
        PROVE  adding[w].prefix \in DOMAIN tree' /\ shardLock'[ShardOf[adding[w].prefix]] = w
    BY <1>i, <1>1, <2>1 DEF AddingInv
  <2>2. ASSUME NEW p \in DOMAIN tree', shard'[ShardOf[p]].routes[tree'[p].index] = <<>>
        PROVE  \E w \in Peers : adding[w].busy /\ adding[w].prefix = p
    <3>1. p \in DOMAIN tree \ gone /\ tree'[p] = tree[p]
      BY <1>1
    <3>2. shard[ShardOf[p]].routes[tree[p].index] = <<>>
      BY <2>2, <3>1
    <3>. QED  BY <1>i, <3>1, <3>2 DEF AddingInv
  <2>3. adding = [w \in Peers |-> adding[w]]
    BY <1>i DEF AddingInv
  <2>. QED  BY <2>1, <2>2, <2>3 DEF AddingInv
<1>7. LookupInv'
  <2>1. ASSUME NEW r \in Readers, lookup[r].step = "found"
        PROVE  LET p == lookup[r].prefix
                   ref == lookup[r].ref
                   generations == shard'[ShardOf[p]].generations
               IN  /\ p \in PrefixSet
                   /\ ref.index \in DOMAIN generations
                   /\ ref.generation \in Nat /\ ref.generation <= generations[ref.index]
                   /\ ref.generation = generations[ref.index] => p \in DOMAIN tree' /\ tree'[p] = ref
    <3> DEFINE p == lookup[r].prefix
               ref == lookup[r].ref
               t == ShardOf[p]
    <3>1. /\ p \in PrefixSet /\ ref.index \in DOMAIN shard[t].generations
          /\ ref.generation \in Nat /\ ref.generation <= shard[t].generations[ref.index]
          /\ ref.generation = shard[t].generations[ref.index] =>
               p \in DOMAIN tree /\ tree[p] = ref
      BY <1>i, <2>1 DEF LookupInv
    <3>2. t \in Shards
      BY <3>1, ShardOfType
    <3> HIDE DEF p, ref
    <3>3. /\ ref.index \in DOMAIN shard'[t].generations /\ shard[t].generations[ref.index] \in Nat
          /\ shard'[t].generations[ref.index] =
               shard[t].generations[ref.index] + (IF IsOf(gone, t, ref.index) THEN 1 ELSE 0)
      BY <1>4, <3>1, <3>2
    <3>4. ref.generation <= shard'[t].generations[ref.index]
      BY <3>1, <3>3
    <3>5. ASSUME ref.generation = shard'[t].generations[ref.index]
          PROVE  p \in DOMAIN tree' /\ tree'[p] = ref
      <4>1. ~ IsOf(gone, t, ref.index) /\ ref.generation = shard[t].generations[ref.index]
        BY <3>1, <3>3, <3>5
      <4>2. p \in DOMAIN tree /\ tree[p] = ref
        BY <3>1, <4>1
      <4>3. p \notin gone
        BY <4>1, <4>2 DEF IsOf
      <4>. QED  BY <1>1, <4>2, <4>3
    <3>. QED  BY <3>1, <3>3, <3>4, <3>5 DEF p, ref
  <2>2. lookup = [r \in Readers |-> lookup[r]]
    BY <1>i DEF LookupInv
  <2>. QED  BY <2>1, <2>2 DEF LookupInv
<1>. QED  BY <1>5, <1>6, <1>7 DEF IndexInv

LEMMA RemoveInv ==
  ASSUME IndexInv, NEW peer \in Peers, NEW prefix \in PrefixSet, NEW nlri \in NLRIs,
         RemoveRoute(peer, prefix, nlri)
  PROVE  IndexInv'
<1> DEFINE s == ShardOf[prefix]
           index == tree[prefix].index
           matching == {route \in OfPeer(shard[s], index, peer) :
                          route.nlri = Ref(shard[s].nlris, nlri)}
           removed == RemoveRoutes(shard[s], index, matching)
           empty == removed.routes[index] = <<>>
           gone == IF empty THEN {prefix} ELSE {}
           st == FreeIfEmpty(removed, index)
<1>i. ShardsInv /\ TreeInv /\ AddingInv /\ LookupInv
  BY DEF IndexInv
<1>1. /\ prefix \in DOMAIN tree /\ shardLock[s] = NoPeer
      /\ shard' = [shard EXCEPT ![s] = st] /\ tree' = Without(gone)
      /\ shardLock' = shardLock /\ adding' = adding /\ lookup' = lookup
  BY DEF RemoveRoute
<1> HIDE DEF matching
<1>2. /\ s \in Shards /\ ShardInv(shard[s])
      /\ index \in DOMAIN shard[s].generations /\ ~ FreeIn(shard[s], index)
  BY <1>i, <1>1, ShardOfType DEF TreeInv, ShardsInv
<1> HIDE DEF s, index
<1>3. /\ ShardInv(removed)
      /\ removed.generations = shard[s].generations /\ removed.free = shard[s].free
      /\ \A i \in DOMAIN shard[s].generations \ {index} : removed.routes[i] = shard[s].routes[i]
  BY <1>2, RemovedFacts
<1> HIDE DEF removed
<1>4. \A i : FreeIn(removed, i) <=> FreeIn(shard[s], i)
  BY <1>3 DEF FreeIn
<1>5. /\ ShardInv(st)
      /\ DOMAIN st.generations = DOMAIN removed.generations
      /\ st.generations[index] = removed.generations[index] + (IF empty THEN 1 ELSE 0)
      /\ \A i \in DOMAIN removed.generations \ {index} : st.generations[i] = removed.generations[i]
      /\ st.routes = removed.routes
      /\ \A i : FreeIn(st, i) <=> FreeIn(removed, i) \/ (empty /\ i = index)
  BY <1>2, <1>3, <1>4, FreeIfEmptyFacts
<1> HIDE DEF st, empty
<1>6. ShardsInv' /\ shard'[s] = st /\ \A t \in Shards \ {s} : shard'[t] = shard[t]
  BY <1>1, <1>2, <1>5, <1>i, SomeShard
<1>7. \A t, i : IsOf(gone, t, i) <=> empty /\ t = s /\ i = index
  BY DEF IsOf, s, index
<1>8. \A t \in Shards : \A i \in DOMAIN shard[t].generations : shard[t].generations[i] \in Nat
  BY <1>i, ShardFacts DEF ShardsInv
<1>9. ASSUME NEW t \in Shards
      PROVE  /\ DOMAIN shard'[t].generations = DOMAIN shard[t].generations
             /\ \A i \in DOMAIN shard[t].generations :
                  shard'[t].generations[i] =
                    shard[t].generations[i] + (IF IsOf(gone, t, i) THEN 1 ELSE 0)
             /\ \A i : FreeIn(shard'[t], i) <=> FreeIn(shard[t], i) \/ IsOf(gone, t, i)
  <2> HIDE DEF gone
  <2>1. CASE t = s
    BY <1>3, <1>4, <1>5, <1>6, <1>7, <1>8, <2>1
  <2>2. CASE t # s
    BY <1>6, <1>7, <1>8, <2>2
  <2>. QED  BY <2>1, <2>2
<1>10. ASSUME NEW w \in Peers, adding[w].busy
       PROVE  adding[w].prefix \notin gone /\ shardLock'[ShardOf[adding[w].prefix]] = w
  <2>1. shardLock[ShardOf[adding[w].prefix]] = w
    BY <1>i, <1>10 DEF AddingInv
  <2>2. shardLock[ShardOf[adding[w].prefix]] # NoPeer
    BY <1>i, <1>10, NobodyAdds
  <2>. QED  BY <1>1, <2>1, <2>2 DEF s
<1>11. ASSUME NEW p \in DOMAIN tree \ gone
       PROVE  \/ shard'[ShardOf[p]].routes[tree[p].index] # <<>>
              \/ shard'[ShardOf[p]].routes[tree[p].index] = shard[ShardOf[p]].routes[tree[p].index]
  <2>1. ShardOf[p] \in Shards /\ tree[p].index \in DOMAIN shard[ShardOf[p]].generations
    BY <1>i, ShardOfType DEF TreeInv
  <2>2. CASE p = prefix
    <3>1. ~ empty
      BY <2>2
    <3>. QED  BY <1>5, <1>6, <1>2, <2>2, <3>1 DEF empty, s, index
  <2>3. CASE p # prefix /\ ShardOf[p] = s
    <3>1. tree[p].index # index
      BY <1>i, <1>1, <2>3 DEF TreeInv, s, index
    <3>. QED  BY <1>3, <1>5, <1>6, <1>2, <2>1, <2>3, <3>1
  <2>4. CASE ShardOf[p] # s
    BY <1>6, <2>1, <2>4
  <2>. QED  BY <2>2, <2>3, <2>4
<1>12. gone \in SUBSET DOMAIN tree /\ shardLock' = [t \in Shards |-> shardLock'[t]]
  BY <1>i, <1>1 DEF AddingInv
<1> HIDE DEF gone
<1>. QED  BY <1>1, <1>6, <1>9, <1>10, <1>11, <1>12, Pruned

LEMMA FlushLockInv ==
  ASSUME IndexInv, NEW peer \in Peers, NEW s \in Shards, FlushPeerLock(peer, s)
  PROVE  IndexInv'
<1>i. ShardsInv /\ TreeInv /\ AddingInv /\ LookupInv
  BY DEF IndexInv
<1>1. /\ shardLock[s] = NoPeer /\ shardLock' = [shardLock EXCEPT ![s] = Flush]
      /\ tree' = tree /\ shard' = shard /\ adding' = adding /\ lookup' = lookup
  BY DEF FlushPeerLock
<1>2. ShardsInv' /\ LookupInv'
  BY <1>i, <1>1 DEF ShardsInv, LookupInv
<1>3. TreeInv'
  BY <1>i, <1>1, SameTree
<1>4. AddingInv'
  <2>1. ASSUME NEW w \in Peers, adding[w].busy
        PROVE  shardLock'[ShardOf[adding[w].prefix]] = w
    <3>1. shardLock[ShardOf[adding[w].prefix]] = w
      BY <1>i, <2>1 DEF AddingInv
    <3>2. ShardOf[adding[w].prefix] # s
      BY <1>1, <1>i, <2>1, NobodyAdds
    <3>. QED  BY <1>i, <1>1, <3>1, <3>2 DEF AddingInv
  <2>. QED  BY <1>i, <1>1, <2>1 DEF AddingInv
<1>. QED  BY <1>2, <1>3, <1>4 DEF IndexInv

LEMMA FlushInv ==
  ASSUME IndexInv, NEW peer \in Peers, FlushPeer(peer)
  PROVE  IndexInv'
<1> DEFINE indexes(s) == {tree[p].index : p \in {q \in DOMAIN tree : ShardOf[q] = s}}
           flushed == [s \in Shards |-> Flushed(shard[s], indexes(s), peer)]
           gone == {p \in DOMAIN tree : flushed[ShardOf[p]].routes[tree[p].index] = <<>>}
<1>i. ShardsInv /\ TreeInv /\ AddingInv /\ LookupInv
  BY DEF IndexInv
<1>1. /\ \A s \in Shards : shardLock[s] = Flush
      /\ shard' = flushed /\ tree' = Without(gone)
      /\ shardLock' = [s \in Shards |-> NoPeer] /\ adding' = adding /\ lookup' = lookup
  BY DEF FlushPeer
<1>2. \A p \in DOMAIN tree : ShardOf[p] \in Shards
  BY <1>i, ShardOfType DEF TreeInv
<1>3. ASSUME NEW s \in Shards
      PROVE  /\ ShardInv(shard'[s])
             /\ DOMAIN shard'[s].generations = DOMAIN shard[s].generations
             /\ \A i \in DOMAIN shard[s].generations :
                  shard'[s].generations[i] =
                    shard[s].generations[i] + (IF IsOf(gone, s, i) THEN 1 ELSE 0)
             /\ \A i : FreeIn(shard'[s], i) <=> FreeIn(shard[s], i) \/ IsOf(gone, s, i)
  <2> DEFINE st == Flushed(shard[s], indexes(s), peer)
             emptied == {i \in indexes(s) : st.routes[i] = <<>>}
  <2>1. ShardInv(shard[s])
    BY <1>i DEF ShardsInv
  <2>2. indexes(s) \in SUBSET (DOMAIN shard[s].generations) /\ \A i \in indexes(s) : ~ FreeIn(shard[s], i)
    BY <1>i DEF TreeInv
  <2>3. shard'[s] = st
    BY <1>1
  <2>4. \A i : i \in emptied <=> IsOf(gone, s, i)
    <3>1. flushed[s] = st
      OBVIOUS
    <3> HIDE DEF flushed, st
    <3>. QED  BY <3>1 DEF IsOf
  <2> HIDE DEF indexes
  <2>5. /\ ShardInv(st)
        /\ DOMAIN st.generations = DOMAIN shard[s].generations
        /\ \A i \in DOMAIN shard[s].generations :
             st.generations[i] = shard[s].generations[i] + (IF i \in emptied THEN 1 ELSE 0)
        /\ \A i : FreeIn(st, i) <=> FreeIn(shard[s], i) \/ i \in emptied
    BY <2>1, <2>2, FlushedFacts
  <2> HIDE DEF st, emptied, gone
  <2>. QED  BY <2>3, <2>4, <2>5
<1>4. ShardsInv'
  <2>1. shard' = [s \in Shards |-> shard'[s]]
    <3> HIDE DEF indexes
    <3>. QED  BY <1>1
  <2>. QED  BY <1>3, <2>1 DEF ShardsInv
<1>5. ASSUME NEW w \in Peers PROVE ~ adding[w].busy
  <2>1. SUFFICES ASSUME adding[w].busy PROVE FALSE
    OBVIOUS
  <2>2. ShardOf[adding[w].prefix] \in Shards
    BY <1>i, <1>2, <2>1 DEF AddingInv
  <2>. QED  BY <1>1, <1>i, <2>1, <2>2, NobodyAdds
<1>6. \A p \in DOMAIN tree \ gone : shard'[ShardOf[p]].routes[tree[p].index] # <<>>
  <2> HIDE DEF flushed
  <2>. QED  BY <1>1
<1>7. gone \in SUBSET DOMAIN tree /\ shardLock' = [s \in Shards |-> shardLock'[s]]
  BY <1>1
<1> HIDE DEF gone, flushed
<1>. QED  BY <1>1, <1>3, <1>4, <1>5, <1>6, <1>7, Pruned

-----------------------------------------------------------------------------
(* Lookups                                                                 *)

(* There is a longest prefix of an address, among those that contain it.   *)
LEMMA Longest ==
  ASSUME NEW ip \in Addresses, NEW containing \in SUBSET PrefixSet, containing # {},
         \A p \in containing : IsPrefix(p, ip)
  PROVE  \E p \in containing : \A q \in containing : Len(q) <= Len(p)
<1> DEFINE missing == {Len(ip) - Len(p) : p \in containing}
<1>1. Len(ip) \in Nat
  BY RibAssumption DEF RibAssumption
<1>2. \A p \in containing : Len(p) \in Nat /\ Len(p) <= Len(ip)
  <2>1. \A p \in containing : p \in Seq({0, 1})
    BY RibAssumption DEF RibAssumption
  <2>. QED  BY <2>1 DEF IsPrefix
<1>3. missing \in SUBSET Nat /\ missing # {}
  BY <1>1, <1>2
<1>4. PICK m \in missing : \A k \in missing : m <= k
  <2> HIDE DEF missing
  <2>. QED  BY <1>3, Least
<1>5. PICK p \in containing : m = Len(ip) - Len(p)
  OBVIOUS
<1>6. ASSUME NEW q \in containing PROVE Len(q) <= Len(p)
  <2>1. m <= Len(ip) - Len(q)
    BY <1>4
  <2>. QED  BY <1>1, <1>2, <1>5, <2>1
<1>. QED  BY <1>6

LEMMA LookupTreeInv ==
  ASSUME IndexInv, NEW r \in Readers, NEW ip \in Addresses, NEW preferred \in NextHops,
         LookupTree(r, ip, preferred)
  PROVE  IndexInv'
<1> DEFINE containing == {p \in DOMAIN tree : IsPrefix(p, ip)}
           longest == CHOOSE p \in containing : \A q \in containing : Len(q) <= Len(p)
           found == [step |-> "found", prefix |-> longest, ref |-> tree[longest],
                     preferred |-> preferred]
<1>i. ShardsInv /\ TreeInv /\ AddingInv /\ LookupInv
  BY DEF IndexInv
<1>1. /\ containing # {} /\ lookup' = [lookup EXCEPT ![r] = found]
      /\ tree' = tree /\ shard' = shard /\ shardLock' = shardLock /\ adding' = adding
  BY DEF LookupTree
<1>2. longest \in DOMAIN tree
  <2>1. containing \in SUBSET PrefixSet /\ containing \subseteq DOMAIN tree
        /\ \A p \in containing : IsPrefix(p, ip)
    BY <1>i DEF TreeInv
  <2> HIDE DEF containing
  <2>2. \E p \in containing : \A q \in containing : Len(q) <= Len(p)
    BY <1>1, <2>1, Longest
  <2>. QED  BY <2>1, <2>2
<1> HIDE DEF containing, longest
<1>3. ShardsInv' /\ AddingInv'
  BY <1>i, <1>1 DEF ShardsInv, AddingInv
<1>4. TreeInv'
  BY <1>i, <1>1, SameTree
<1>5. LookupInv'
  <2>1. /\ longest \in PrefixSet /\ ShardOf[longest] \in Shards
        /\ tree[longest].index \in DOMAIN shard[ShardOf[longest]].generations
        /\ tree[longest].generation = shard[ShardOf[longest]].generations[tree[longest].index]
    BY <1>i, <1>2, ShardOfType DEF TreeInv
  <2>2. tree[longest].generation \in Nat
    BY <1>i, <2>1, ShardFacts DEF ShardsInv
  <2>3. /\ found.prefix = longest /\ found.ref = tree[longest]
    OBVIOUS
  <2> HIDE DEF found
  <2>4. /\ lookup' = [x \in Readers |-> lookup'[x]] /\ lookup'[r] = found
        /\ \A x \in Readers \ {r} : lookup'[x] = lookup[x]
    BY <1>i, <1>1 DEF LookupInv
  <2>5. ASSUME NEW x \in Readers, lookup'[x].step = "found"
        PROVE  LET p == lookup'[x].prefix
                   ref == lookup'[x].ref
                   generations == shard[ShardOf[p]].generations
               IN  /\ p \in PrefixSet
                   /\ ref.index \in DOMAIN generations
                   /\ ref.generation \in Nat /\ ref.generation <= generations[ref.index]
                   /\ ref.generation = generations[ref.index] => p \in DOMAIN tree /\ tree[p] = ref
    <3>1. CASE x = r
      BY <1>2, <2>1, <2>2, <2>3, <2>4, <3>1
    <3>2. CASE x # r
      BY <1>i, <2>4, <2>5, <3>2 DEF LookupInv
    <3>. QED  BY <3>1, <3>2
  <2>. QED  BY <1>1, <2>4, <2>5 DEF LookupInv
<1>. QED  BY <1>3, <1>4, <1>5 DEF IndexInv

LEMMA LookupReadInv ==
  ASSUME IndexInv, NEW r \in Readers, LookupRead(r)
  PROVE  IndexInv'
<1>i. ShardsInv /\ TreeInv /\ AddingInv /\ LookupInv
  BY DEF IndexInv
<1>1. /\ lookup' = [lookup EXCEPT ![r] = ReaderIdle]
      /\ tree' = tree /\ shard' = shard /\ shardLock' = shardLock /\ adding' = adding
  BY DEF LookupRead
<1>2. ShardsInv' /\ AddingInv'
  BY <1>i, <1>1 DEF ShardsInv, AddingInv
<1>3. TreeInv'
  BY <1>i, <1>1, SameTree
<1>4. LookupInv'
  BY <1>i, <1>1 DEF LookupInv, ReaderIdle
<1>. QED  BY <1>2, <1>3, <1>4 DEF IndexInv

THEOREM IndexesInv == Spec => []IndexInv
<1>1. IndexInv /\ [Next]_vars => IndexInv'
  <2> SUFFICES ASSUME IndexInv, [Next]_vars PROVE IndexInv'
    OBVIOUS
  <2>1. ASSUME NEW peer \in Peers, NEW prefix \in PrefixSet, NEW nlri \in NLRIs,
               NEW nextHop \in NextHops, AddRouteTree(peer, prefix, nlri, nextHop)
        PROVE  IndexInv'
    BY <2>1, AddTreeInv
  <2>2. ASSUME NEW peer \in Peers, NEW prefix \in PrefixSet, NEW nlri \in NLRIs,
               RemoveRoute(peer, prefix, nlri)
        PROVE  IndexInv'
    BY <2>2, RemoveInv
  <2>3. ASSUME NEW peer \in Peers, AddRouteInsert(peer) PROVE IndexInv'
    BY <2>3, AddInsertInv
  <2>4. ASSUME NEW peer \in Peers, NEW s \in Shards, FlushPeerLock(peer, s) PROVE IndexInv'
    BY <2>4, FlushLockInv
  <2>5. ASSUME NEW peer \in Peers, FlushPeer(peer) PROVE IndexInv'
    BY <2>5, FlushInv
  <2>6. ASSUME NEW r \in Readers, NEW ip \in Addresses, NEW preferred \in NextHops,
               LookupTree(r, ip, preferred)
        PROVE  IndexInv'
    BY <2>6, LookupTreeInv
  <2>7. ASSUME NEW r \in Readers, LookupRead(r) PROVE IndexInv'
    BY <2>7, LookupReadInv
  <2>8. CASE UNCHANGED vars
    <3>1. tree' = tree /\ shard' = shard /\ shardLock' = shardLock /\ adding' = adding /\ lookup' = lookup
      BY <2>8 DEF vars
    <3>2. ShardsInv' /\ AddingInv' /\ LookupInv'
      BY <3>1 DEF IndexInv, ShardsInv, AddingInv, LookupInv
    <3>3. TreeInv'
      BY <3>1, SameTree DEF IndexInv
    <3>. QED  BY <3>2, <3>3 DEF IndexInv
  <2>. QED  BY <2>1, <2>2, <2>3, <2>4, <2>5, <2>6, <2>7, <2>8 DEF Next
<1>. QED  BY IndexInit, <1>1, PTL DEF Spec

(* Whatever happened since a lookup read the tree, it is answered with a   *)
(* route that its prefix has now, with the preferred next hop if one has   *)
(* it, and without a route only if the prefix was removed.                 *)
THEOREM LookupsAreRight == Spec => []LookupsRight
<1>1. IndexInv => LookupsRight
  <2> SUFFICES ASSUME IndexInv, NEW r \in Readers, lookup[r].step = "found",
                      shardLock[ShardOf[lookup[r].prefix]] = NoPeer
               PROVE  LET prefix == lookup[r].prefix
                          state == shard[ShardOf[prefix]]
                          answer == Select(ShardOf[prefix], lookup[r].ref, lookup[r].preferred)
                          stored == IF prefix \in DOMAIN tree THEN StoredRoutes(prefix) ELSE {}
                      IN  /\ answer # <<>> =>
                               \E route \in stored :
                                 /\ route.peer = answer[1].peer
                                 /\ route.nlri = Get(state.nlris, answer[1].nlri)
                                 /\ route.nextHop = Get(state.nextHops, answer[1].nextHop)
                                 /\ \/ route.nextHop = lookup[r].preferred
                                    \/ \A other \in stored : other.nextHop # lookup[r].preferred
                          /\ answer = <<>> =>
                               ~ (prefix \in DOMAIN tree /\ tree[prefix] = lookup[r].ref)
    BY DEF LookupsRight
  <2> DEFINE prefix == lookup[r].prefix
             ref == lookup[r].ref
             preferred == lookup[r].preferred
             s == ShardOf[prefix]
             state == shard[s]
             routes == state.routes[ref.index]
             answer == Select(s, ref, preferred)
             HasNextHop(i) == Get(state.nextHops, routes[i].nextHop) = preferred
             candidates == {i \in DOMAIN routes : HasNextHop(i)}
             chosen == IF candidates = {} THEN 1
                       ELSE CHOOSE i \in candidates : \A j \in candidates : i <= j
  <2>i. ShardsInv /\ TreeInv /\ AddingInv /\ LookupInv
    BY DEF IndexInv
  <2>1. /\ prefix \in PrefixSet /\ ref.index \in DOMAIN state.generations
        /\ ref.generation = state.generations[ref.index] =>
             prefix \in DOMAIN tree /\ tree[prefix] = ref
    BY <2>i DEF LookupInv
  <2>2. s \in Shards /\ shardLock[s] = NoPeer
    BY <2>1, ShardOfType
  <2>3. ShardInv(state) /\ List(routes)
    <3>1. ShardInv(state)
      BY <2>i, <2>2 DEF ShardsInv
    <3>2. DOMAIN state.routes = DOMAIN state.generations
      BY <3>1, ShardFacts
    <3>. QED  BY <2>1, <3>1, <3>2 DEF ShardInv
  <2>4. answer = IF state.generations[ref.index] # ref.generation \/ routes = <<>>
                 THEN <<>> ELSE <<routes[chosen]>>
    BY DEF Select
  <2>5. ASSUME answer = <<>>, prefix \in DOMAIN tree, tree[prefix] = ref PROVE FALSE
    <3>1. state.generations[ref.index] = ref.generation
      BY <2>i, <2>5 DEF TreeInv
    <3>2. routes = <<>>
      <4>1. <<routes[chosen]>> # <<>>
        OBVIOUS
      <4> HIDE DEF routes, chosen, answer, state, ref
      <4>. QED  BY <2>4, <2>5, <3>1, <4>1
    <3>3. PICK w \in Peers : adding[w].busy /\ adding[w].prefix = prefix
      BY <2>i, <2>5, <3>2 DEF AddingInv
    <3>. QED  BY <2>2, <2>i, <3>3, NobodyAdds
  <2>6. ASSUME answer # <<>>
        PROVE  \E route \in IF prefix \in DOMAIN tree THEN StoredRoutes(prefix) ELSE {} :
                 /\ route.peer = answer[1].peer
                 /\ route.nlri = Get(state.nlris, answer[1].nlri)
                 /\ route.nextHop = Get(state.nextHops, answer[1].nextHop)
                 /\ \/ route.nextHop = preferred
                    \/ \A other \in IF prefix \in DOMAIN tree THEN StoredRoutes(prefix) ELSE {} :
                         other.nextHop # preferred
    <3> DEFINE stored == StoredRoutes(prefix)
               Stored(i) == [prefix |-> prefix, peer |-> routes[i].peer,
                             nlri |-> Get(state.nlris, routes[i].nlri),
                             nextHop |-> Get(state.nextHops, routes[i].nextHop)]
    <3>1. /\ state.generations[ref.index] = ref.generation /\ routes # <<>>
          /\ answer = <<routes[chosen]>>
      BY <2>4, <2>6
    <3>2. prefix \in DOMAIN tree /\ tree[prefix] = ref
      BY <2>1, <3>1
    <3>3. Len(routes) \in Nat /\ DOMAIN routes = 1..Len(routes) /\ Len(routes) # 0
      BY <2>3, <3>1, ListFacts
    <3>4. stored = {Stored(i) : i \in DOMAIN routes}
      <4>1. \A route : route \in ToSet(routes) <=> \E i \in DOMAIN routes : route = routes[i]
        BY DEF ToSet
      <4>2. stored = {[prefix |-> prefix, peer |-> route.peer, nlri |-> Get(state.nlris, route.nlri),
                       nextHop |-> Get(state.nextHops, route.nextHop)] : route \in ToSet(routes)}
        BY <3>2 DEF StoredRoutes
      <4> HIDE DEF stored, routes, state
      <4>. QED  BY <4>1, <4>2
    <3>5. /\ chosen \in DOMAIN routes
          /\ HasNextHop(chosen) \/ candidates = {}
      <4>1. CASE candidates = {}
        <5> HIDE DEF candidates, routes, HasNextHop
        <5>. QED  BY <3>3, <4>1
      <4>2. CASE candidates # {}
        <5>1. candidates \in SUBSET Nat /\ candidates \subseteq DOMAIN routes
          <6> HIDE DEF routes, HasNextHop
          <6>. QED  BY <3>3
        <5>2. \A i \in candidates : HasNextHop(i)
          OBVIOUS
        <5> HIDE DEF candidates, HasNextHop, routes
        <5>3. \E i \in candidates : \A j \in candidates : i <= j
          BY <4>2, <5>1, Least
        <5>. QED  BY <4>2, <5>1, <5>2, <5>3
      <4>. QED  BY <4>1, <4>2
    <3> DEFINE route == Stored(chosen)
    <3>6. route \in stored
      BY <3>4, <3>5
    <3>7. answer[1] = routes[chosen]
      <4> HIDE DEF answer, routes, chosen, state
      <4>. QED  BY <3>1
    <3>8. candidates = {} => \A other \in stored : other.nextHop # preferred
      <4>1. \A i \in DOMAIN routes : Stored(i).nextHop = preferred => i \in candidates
        BY DEF Stored
      <4> HIDE DEF Stored, routes, candidates, stored
      <4>. QED  BY <3>4, <4>1
    <3>9. /\ route.peer = routes[chosen].peer
          /\ route.nlri = Get(state.nlris, routes[chosen].nlri)
          /\ route.nextHop = Get(state.nextHops, routes[chosen].nextHop)
          /\ HasNextHop(chosen) => route.nextHop = preferred
      BY DEF Stored
    <3> HIDE DEF stored, route, candidates, chosen, answer
    <3>. QED  BY <3>2, <3>5, <3>6, <3>7, <3>8, <3>9 DEF stored
  <2> HIDE DEF answer
  <2>. QED  BY <2>5, <2>6 DEF answer
<1>. QED  BY <1>1, IndexesInv, PTL

(* Out of an update, an index is free or the one of a single prefix, which *)
(* has routes and knows its generation: none is lost and none is shared.   *)
THEOREM IndexesAreExact == Spec => []IndexesExact
<1>1. IndexInv => IndexesExact
  <2> SUFFICES ASSUME IndexInv, NEW s \in Shards, shardLock[s] \in {NoPeer, Flush}
               PROVE  LET inTree == {p \in DOMAIN tree : ShardOf[p] = s}
                      IN  /\ \A p \in inTree :
                               /\ shard[s].routes[tree[p].index] # <<>>
                               /\ shard[s].generations[tree[p].index] = tree[p].generation
                          /\ \A i \in DOMAIN shard[s].generations :
                               Cardinality({p \in inTree : tree[p].index = i})
                                 + Cardinality({j \in DOMAIN shard[s].free : shard[s].free[j] = i}) = 1
    BY DEF IndexesExact
  <2> DEFINE inTree == {p \in DOMAIN tree : ShardOf[p] = s}
  <2>i. ShardsInv /\ TreeInv /\ AddingInv
    BY DEF IndexInv
  <2>1. ASSUME NEW p \in inTree
        PROVE  /\ shard[s].routes[tree[p].index] # <<>>
               /\ shard[s].generations[tree[p].index] = tree[p].generation
    <3>1. ASSUME shard[s].routes[tree[p].index] = <<>> PROVE FALSE
      <4>1. PICK w \in Peers : adding[w].busy /\ adding[w].prefix = p
        BY <2>i, <3>1 DEF AddingInv
      <4>. QED  BY <2>i, <4>1, NobodyAdds
    <3>. QED  BY <2>i, <3>1 DEF TreeInv
  <2>2. ASSUME NEW i \in DOMAIN shard[s].generations
        PROVE  Cardinality({p \in inTree : tree[p].index = i})
                 + Cardinality({j \in DOMAIN shard[s].free : shard[s].free[j] = i}) = 1
    <3> DEFINE prefixes == {p \in inTree : tree[p].index = i}
               places == {j \in DOMAIN shard[s].free : shard[s].free[j] = i}
    <3>1. \A j, k \in places : j = k
      BY <2>i DEF ShardsInv, ShardInv
    <3>2. \A p, q \in prefixes : p = q
      BY <2>i DEF TreeInv
    <3>3. ASSUME NEW j \in places, NEW p \in prefixes PROVE FALSE
      <4>1. p \in DOMAIN tree /\ ShardOf[p] = s /\ tree[p].index = i
        OBVIOUS
      <4>2. FreeIn(shard[s], i)
        BY DEF FreeIn
      <4>3. ~ FreeIn(shard[ShardOf[p]], tree[p].index)
        BY <2>i, <4>1 DEF TreeInv
      <4>. QED  BY <4>1, <4>2, <4>3
    <3>4. (\E j : j \in places) \/ \E p : p \in prefixes
      BY <2>i DEF TreeInv, FreeIn
    <3> HIDE DEF places, prefixes
    <3>5. CASE places # {}
      <4>1. PICK j : j \in places
        BY <3>5
      <4>2. places = {j} /\ prefixes = {}
        BY <3>1, <3>3, <4>1
      <4>3. Cardinality(places) = 1 /\ Cardinality(prefixes) = 0
        BY <4>2, FS_Singleton, FS_EmptySet
      <4>. QED  BY <4>3 DEF places, prefixes
    <3>6. CASE places = {}
      <4>1. PICK p : p \in prefixes
        BY <3>4, <3>6
      <4>2. prefixes = {p}
        BY <3>2, <4>1
      <4>3. Cardinality(places) = 0 /\ Cardinality(prefixes) = 1
        BY <3>6, <4>2, FS_Singleton, FS_EmptySet
      <4>. QED  BY <4>3 DEF places, prefixes
    <3>. QED  BY <3>5, <3>6
  <2>. QED  BY <2>1, <2>2
<1>. QED  BY <1>1, IndexesInv, PTL

-----------------------------------------------------------------------------
(* What is left of the routes of an index                                  *)

(* Among keeps the elements of a set, each at a place of its own.          *)
LEMMA AmongFacts ==
  ASSUME NEW q, NEW set, List(q)
  PROVE  \E nth :
           /\ \A n \in 1..Len(Among(q, set)) :
                /\ nth[n] \in DOMAIN q /\ q[nth[n]] \in set /\ Among(q, set)[n] = q[nth[n]]
           /\ \A m, n \in 1..Len(Among(q, set)) : nth[m] = nth[n] => m = n
           /\ \A i \in DOMAIN q : q[i] \in set => \E n \in 1..Len(Among(q, set)) : nth[n] = i
<1> DEFINE places == {i \in DOMAIN q : q[i] \in set}
           Upto(i) == {j \in places : j <= i}
           place(n) == CHOOSE i \in places : Cardinality(Upto(i)) = n
           k == Cardinality(places)
           a == Among(q, set)
           rank == [i \in places |-> Cardinality(Upto(i))]
           nth == [n \in 1..k |-> place(n)]
<1>1. Len(q) \in Nat /\ DOMAIN q = 1..Len(q) /\ places \subseteq 1..Len(q)
  BY ListFacts
<1>2. IsFiniteSet(places) /\ k \in Nat
  <2>1. IsFiniteSet(1..Len(q))
    BY <1>1, FS_Interval
  <2>. QED  BY <1>1, <2>1, FS_Subset, FS_CardinalityType
<1>3. a = [n \in 1..k |-> q[place(n)]]
  BY DEF Among
<1>4. Len(a) = k /\ \A n \in 1..k : a[n] = q[place(n)]
  <2> HIDE DEF place, k
  <2>1. a = [n \in 1..k |-> a[n]]
    BY <1>3
  <2>2. Len(a) = k
    <3> HIDE DEF a
    <3>. QED  BY <1>2, <2>1, Listed
  <2>3. \A n \in 1..k : a[n] = q[place(n)]
    BY <1>3
  <2>. QED  BY <2>2, <2>3
<1>5. \A i \in places : i \in Nat
  BY <1>1
<1>6. \A i \in places : IsFiniteSet(Upto(i)) /\ Upto(i) \subseteq places /\ i \in Upto(i)
                        /\ Cardinality(Upto(i)) \in 1..k
  <2> TAKE i \in places
  <2>1. Upto(i) \in SUBSET places /\ i \in Upto(i)
    BY <1>5
  <2> HIDE DEF places, Upto
  <2>2. IsFiniteSet(Upto(i)) /\ Cardinality(Upto(i)) <= k /\ Cardinality(Upto(i)) \in Nat
    BY <1>2, <2>1, FS_Subset, FS_CardinalityType
  <2>3. Cardinality(Upto(i)) # 0
    BY <2>1, <2>2, FS_EmptySet
  <2>. QED  BY <1>2, <2>1, <2>2, <2>3
<1>7. ASSUME NEW i \in places, NEW j \in places, Cardinality(Upto(i)) = Cardinality(Upto(j))
      PROVE  i = j
  <2>1. ASSUME NEW x \in places, NEW y \in places, x < y,
               Cardinality(Upto(x)) = Cardinality(Upto(y))
        PROVE  FALSE
    <3>1. Upto(x) \in SUBSET Upto(y) /\ y \notin Upto(x) /\ y \in Upto(y)
      BY <1>5, <2>1
    <3> HIDE DEF Upto, places
    <3>2. IsFiniteSet(Upto(y))
      BY <1>6
    <3>. QED  BY <2>1, <3>1, <3>2, FS_Subset
  <2>2. i \in Nat /\ j \in Nat
    BY <1>5
  <2> HIDE DEF Upto, places
  <2>. QED  BY <1>7, <2>1, <2>2
<1> HIDE DEF Upto, places, k, a
<1>8. rank \in Injection(places, 1..k) /\ \A i \in places : rank[i] = Cardinality(Upto(i))
  BY <1>6, <1>7 DEF Injection, IsInjective
<1> HIDE DEF rank
<1>9. rank \in Surjection(places, 1..k)
  <2>1. IsFiniteSet(1..k) /\ Cardinality(1..k) = k
    BY <1>2, FS_Interval
  <2>. QED  BY <1>8, <2>1, FS_Injection DEF k
<1>10. \A n \in 1..k : \E i \in places : Cardinality(Upto(i)) = n
  BY <1>8, <1>9 DEF Surjection
<1>11. \A n \in 1..k : place(n) \in places /\ Cardinality(Upto(place(n))) = n
  BY <1>10
<1> HIDE DEF place
<1>12. \A n \in 1..k : nth[n] = place(n)
  OBVIOUS
<1> HIDE DEF nth
<1>13. \A i \in places : Cardinality(Upto(i)) \in 1..k /\ nth[Cardinality(Upto(i))] = i
  BY <1>6, <1>7, <1>11, <1>12
<1>14. \A m, n \in 1..k : nth[m] = nth[n] => m = n
  BY <1>11, <1>12
<1>15. \A n \in 1..k : nth[n] \in DOMAIN q /\ q[nth[n]] \in set /\ a[n] = q[nth[n]]
  BY <1>4, <1>11, <1>12 DEF places
<1>16. \A i \in DOMAIN q : q[i] \in set => \E n \in 1..k : nth[n] = i
  BY <1>13 DEF places
<1>. QED  BY <1>4, <1>14, <1>15, <1>16 DEF a

(* A peer has one route of an NLRI.                                        *)
Distinct(routes) ==
  \A i, j \in DOMAIN routes :
    routes[i].peer = routes[j].peer /\ routes[i].nlri = routes[j].nlri => i = j

LEMMA AmongRoutes ==
  ASSUME NEW q, NEW set, List(q), Distinct(q)
  PROVE  /\ List(Among(q, set)) /\ Distinct(Among(q, set))
         /\ ToSet(Among(q, set)) = ToSet(q) \cap set
<1> DEFINE a == Among(q, set)
<1>1. List(a)
  BY AmongList
<1>2. DOMAIN a = 1..Len(a)
  BY <1>1, ListFacts
<1>3. PICK nth :
           /\ \A n \in 1..Len(a) : nth[n] \in DOMAIN q /\ q[nth[n]] \in set /\ a[n] = q[nth[n]]
           /\ \A m, n \in 1..Len(a) : nth[m] = nth[n] => m = n
           /\ \A i \in DOMAIN q : q[i] \in set => \E n \in 1..Len(a) : nth[n] = i
  BY SMTT(30), AmongFacts
<1> HIDE DEF a
<1>4. Distinct(a)
  BY <1>2, <1>3 DEF Distinct
<1>5. ToSet(a) = ToSet(q) \cap set
  <2>1. ASSUME NEW x \in ToSet(a) PROVE x \in ToSet(q) \cap set
    BY <1>2, <1>3 DEF ToSet
  <2>2. ASSUME NEW x \in ToSet(q) \cap set PROVE x \in ToSet(a)
    <3>1. PICK i \in DOMAIN q : x = q[i]
      BY DEF ToSet
    <3>2. PICK n \in 1..Len(a) : nth[n] = i
      BY <1>3, <3>1
    <3>3. a[n] = x
      BY <1>3, <3>1, <3>2
    <3>. QED  BY <1>2, <3>3 DEF ToSet
  <2>. QED  BY <2>1, <2>2
<1>. QED  BY <1>1, <1>4, <1>5 DEF a

LEMMA LeftRoutes ==
  ASSUME NEW q, NEW matching, List(q), Distinct(q)
  PROVE  /\ List(Left(q, matching)) /\ Distinct(Left(q, matching))
         /\ ToSet(Left(q, matching)) = ToSet(q) \ matching
<1>1. ToSet(q) \cap (ToSet(q) \ matching) = ToSet(q) \ matching
  OBVIOUS
<1>. QED  BY <1>1, AmongRoutes DEF Left

-----------------------------------------------------------------------------
(* The interned values of a shard and their uses                           *)

(* References of a set of uses: pairs of an index and a route.             *)
NlrisOf(D) == [u \in D |-> u[2].nlri]

NextHopsOf(D) == [u \in D |-> u[2].nextHop]

PoolsCount(nlris, nextHops, D) ==
  /\ Sound(nlris, NLRIs) /\ Counts(nlris, NlrisOf(D))
  /\ Sound(nextHops, NextHops) /\ Counts(nextHops, NextHopsOf(D))

LEMMA Hashed == Hashable(NLRIs) /\ Hashable(NextHops)
BY RibAssumption DEF RibAssumption, Hashable

(* What the uses refer to.                                                 *)
LEMMA UsedRefs ==
  ASSUME NEW a, NEW b, NEW D, PoolsCount(a, b, D)
  PROVE  /\ IsFiniteSet(D)
         /\ \A u \in D : /\ u[2].nlri \in Live(a) /\ u[2].nlri \in Refs(a)
                         /\ u[2].nextHop \in Live(b) /\ u[2].nextHop \in Refs(b)
                         /\ Get(a, u[2].nlri) \in NLRIs /\ Get(b, u[2].nextHop) \in NextHops
         /\ \A u, w \in D : Get(a, u[2].nlri) = Get(a, w[2].nlri) => u[2].nlri = w[2].nlri
<1>1. /\ Counts(a, NlrisOf(D)) /\ Counts(b, NextHopsOf(D))
      /\ Sound(a, NLRIs) /\ Sound(b, NextHops)
      /\ DOMAIN NlrisOf(D) = D /\ DOMAIN NextHopsOf(D) = D
      /\ \A u \in D : NlrisOf(D)[u] = u[2].nlri /\ NextHopsOf(D)[u] = u[2].nextHop
  BY DEF PoolsCount, NlrisOf, NextHopsOf
<1>2. IsFiniteSet(D)
  BY <1>1 DEF Counts
<1>3. \A u \in D : /\ u[2].nlri \in Live(a) /\ u[2].nlri \in Refs(a)
                   /\ u[2].nextHop \in Live(b) /\ u[2].nextHop \in Refs(b)
  <2> TAKE u \in D
  <2>1. u \in DOMAIN NlrisOf(D) /\ u \in DOMAIN NextHopsOf(D)
    BY <1>1
  <2>2. NlrisOf(D)[u] \in Live(a) /\ NlrisOf(D)[u] \in Refs(a)
    BY <1>1, <2>1, UsedLive
  <2>3. NextHopsOf(D)[u] \in Live(b) /\ NextHopsOf(D)[u] \in Refs(b)
    BY <1>1, <2>1, UsedLive
  <2>. QED  BY <1>1, <2>2, <2>3
<1>4. /\ \A r \in Refs(a) : a.values[r].value \in NLRIs
      /\ \A r \in Refs(b) : b.values[r].value \in NextHops
  <2>1. PoolForm(a, NLRIs) /\ PoolForm(b, NextHops)
    BY <1>1 DEF Sound
  <2>2. \A r \in Refs(a) : a.values[r].value \in NLRIs
    BY <2>1, FormFacts
  <2>3. \A r \in Refs(b) : b.values[r].value \in NextHops
    BY <2>1, FormFacts
  <2>. QED  BY <2>2, <2>3
<1>5. \A r, s \in Live(a) : a.values[r].value = a.values[s].value => r = s
  BY <1>1 DEF Sound
<1>. QED  BY <1>2, <1>3, <1>4, <1>5 DEF Get

(* The values of a new route are put.                                      *)
LEMMA PutPools ==
  ASSUME NEW a, NEW b, NEW D, PoolsCount(a, b, D), NEW nlri \in NLRIs, NEW nextHop \in NextHops,
         NEW e, e \notin D,
         e[2].nlri = Ref(Put(a, nlri), nlri), e[2].nextHop = Ref(Put(b, nextHop), nextHop)
  PROVE  LET c == Put(a, nlri)
             d == Put(b, nextHop)
         IN  /\ PoolsCount(c, d, D \cup {e})
             /\ Get(c, e[2].nlri) = nlri /\ Get(d, e[2].nextHop) = nextHop
             /\ \A u \in D : /\ Get(c, u[2].nlri) = Get(a, u[2].nlri)
                             /\ Get(d, u[2].nextHop) = Get(b, u[2].nextHop)
<1> DEFINE c == Put(a, nlri)
           d == Put(b, nextHop)
           T == D \cup {e}
           U == NlrisOf(D)
           V == NlrisOf(T)
           X == NextHopsOf(D)
           Y == NextHopsOf(T)
<1>1. /\ DOMAIN U = D /\ DOMAIN V = D \cup {e} /\ DOMAIN X = D /\ DOMAIN Y = D \cup {e}
      /\ \A u \in D : /\ U[u] = u[2].nlri /\ V[u] = u[2].nlri
                      /\ X[u] = u[2].nextHop /\ Y[u] = u[2].nextHop
      /\ V[e] = e[2].nlri /\ Y[e] = e[2].nextHop
  BY DEF NlrisOf, NextHopsOf
<1>2. Sound(a, NLRIs) /\ Counts(a, U) /\ Sound(b, NextHops) /\ Counts(b, X)
  BY DEF PoolsCount
<1> HIDE DEF U, V, X, Y
<1>3. /\ Sound(c, NLRIs) /\ Counts(c, V) /\ Get(c, V[e]) = nlri
      /\ \A u \in DOMAIN U : Get(c, V[u]) = Get(a, U[u])
  <2>1. /\ e \notin DOMAIN U /\ DOMAIN V = DOMAIN U \cup {e} /\ \A u \in DOMAIN U : V[u] = U[u]
        /\ V[e] = Ref(Put(a, nlri), nlri) /\ Hash(nlri) \in Hashes
    BY <1>1, Hashed DEF Hashable
  <2>. QED  BY <1>2, <2>1, PutCounts
<1>4. /\ Sound(d, NextHops) /\ Counts(d, Y) /\ Get(d, Y[e]) = nextHop
      /\ \A u \in DOMAIN X : Get(d, Y[u]) = Get(b, X[u])
  <2>1. /\ e \notin DOMAIN X /\ DOMAIN Y = DOMAIN X \cup {e} /\ \A u \in DOMAIN X : Y[u] = X[u]
        /\ Y[e] = Ref(Put(b, nextHop), nextHop) /\ Hash(nextHop) \in Hashes
    BY <1>1, Hashed DEF Hashable
  <2>. QED  BY <1>2, <2>1, PutCounts
<1> HIDE DEF c, d
<1>5. PoolsCount(c, d, D \cup {e})
  BY <1>3, <1>4 DEF PoolsCount, V, Y
<1>6. Get(c, e[2].nlri) = nlri /\ Get(d, e[2].nextHop) = nextHop
  BY <1>1, <1>3, <1>4
<1>7. \A u \in D : Get(c, u[2].nlri) = Get(a, u[2].nlri) /\ Get(d, u[2].nextHop) = Get(b, u[2].nextHop)
  BY <1>1, <1>3, <1>4
<1>. QED  BY <1>5, <1>6, <1>7 DEF c, d

(* Those of a route that is replaced are taken.                            *)
LEMMA TakePools ==
  ASSUME NEW a, NEW b, NEW D, PoolsCount(a, b, D), NEW e \in D
  PROVE  LET c == Take(a, e[2].nlri)
             d == Take(b, e[2].nextHop)
         IN  PoolsCount(c, d, D \ {e}) /\ SameValues(a, c) /\ SameValues(b, d)
<1> DEFINE c == Take(a, e[2].nlri)
           d == Take(b, e[2].nextHop)
           T == D \ {e}
           U == NlrisOf(D)
           V == NlrisOf(T)
           X == NextHopsOf(D)
           Y == NextHopsOf(T)
<1>1. /\ DOMAIN U = D /\ DOMAIN V = D \ {e} /\ DOMAIN X = D /\ DOMAIN Y = D \ {e}
      /\ \A u \in D : U[u] = u[2].nlri /\ X[u] = u[2].nextHop
      /\ \A u \in D \ {e} : V[u] = u[2].nlri /\ Y[u] = u[2].nextHop
  BY DEF NlrisOf, NextHopsOf
<1>2. Sound(a, NLRIs) /\ Counts(a, U) /\ Sound(b, NextHops) /\ Counts(b, X)
  BY DEF PoolsCount
<1> HIDE DEF U, V, X, Y
<1>3. Sound(c, NLRIs) /\ Counts(c, V) /\ SameValues(a, c)
  <2>1. OneUseLess(V, U, e) /\ c = Take(a, U[e])
    BY <1>1 DEF OneUseLess
  <2> HIDE DEF c
  <2>. QED  BY <1>2, <2>1, TakeCounts, Hashed
<1>4. Sound(d, NextHops) /\ Counts(d, Y) /\ SameValues(b, d)
  <2>1. OneUseLess(Y, X, e) /\ d = Take(b, X[e])
    BY <1>1 DEF OneUseLess
  <2> HIDE DEF d
  <2>. QED  BY <1>2, <2>1, TakeCounts, Hashed
<1> HIDE DEF c, d
<1>. QED  BY <1>3, <1>4 DEF PoolsCount, V, Y, c, d

(* The uses of the routes that go, each at a place.                        *)
Gone(D, routes, g, gone) ==
  /\ \A k \in 1..Len(routes) : g[k] \in D /\ routes[k] = g[k][2]
  /\ \A j, k \in 1..Len(routes) : g[j] = g[k] => j = k
  /\ \A u : u \in gone <=> \E k \in 1..Len(routes) : u = g[k]

(* Those of the routes that go are taken.                                  *)
LEMMA TakeAllPools ==
  ASSUME NEW a, NEW b, NEW D, PoolsCount(a, b, D),
         NEW routes, List(routes), NEW g, NEW gone, Gone(D, routes, g, gone)
  PROVE  LET c == TakeAll(a, [i \in DOMAIN routes |-> routes[i].nlri])
             d == TakeAll(b, [i \in DOMAIN routes |-> routes[i].nextHop])
         IN  /\ PoolsCount(c, d, D \ gone)
             /\ SameValues(a, c) /\ SameValues(b, d)
<1> DEFINE x == [i \in DOMAIN routes |-> routes[i].nlri]
           y == [i \in DOMAIN routes |-> routes[i].nextHop]
           c == TakeAll(a, x)
           d == TakeAll(b, y)
           n == Len(routes)
           T == D \ gone
           U == NlrisOf(D)
           X == NextHopsOf(D)
<1>0. n \in Nat /\ DOMAIN routes = 1..n
  BY ListFacts
<1> HIDE DEF n
<1>1. /\ Len(x) = n /\ Len(y) = n
      /\ \A k \in 1..n : x[k] = routes[k].nlri /\ y[k] = routes[k].nextHop
  <2>1. x = [k \in 1..n |-> x[k]] /\ y = [k \in 1..n |-> y[k]]
    BY <1>0
  <2>2. \A k \in 1..n : x[k] = routes[k].nlri /\ y[k] = routes[k].nextHop
    BY <1>0
  <2> HIDE DEF x, y
  <2>. QED  BY <1>0, <2>1, <2>2, Listed
<1>2. /\ DOMAIN U = D /\ DOMAIN X = D
      /\ \A u \in D : U[u] = u[2].nlri /\ X[u] = u[2].nextHop
  BY DEF NlrisOf, NextHopsOf
<1>3. /\ Except(U, gone) = NlrisOf(T) /\ Except(X, gone) = NextHopsOf(T)
  BY DEF Except, NlrisOf, NextHopsOf
<1>4. Sound(a, NLRIs) /\ Counts(a, U) /\ Sound(b, NextHops) /\ Counts(b, X)
  BY DEF PoolsCount
<1> HIDE DEF U, X, x, y
<1>5. Sound(c, NLRIs) /\ Counts(c, Except(U, gone)) /\ SameValues(a, c)
  <2>1. /\ Len(x) = n /\ n \in Nat
        /\ \A k \in 1..n : g[k] \in DOMAIN U /\ x[k] = U[g[k]]
        /\ \A j, k \in 1..n : g[j] = g[k] => j = k
        /\ \A u : u \in gone <=> \E k \in 1..n : u = g[k]
    BY <1>0, <1>1, <1>2 DEF n, Gone
  <2>2. Picked(U, x, g, gone)
    BY <2>1 DEF Picked
  <2>. QED  BY <1>4, <2>2, TakeAllCounts, Hashed
<1>6. Sound(d, NextHops) /\ Counts(d, Except(X, gone)) /\ SameValues(b, d)
  <2>1. /\ Len(y) = n /\ n \in Nat
        /\ \A k \in 1..n : g[k] \in DOMAIN X /\ y[k] = X[g[k]]
        /\ \A j, k \in 1..n : g[j] = g[k] => j = k
        /\ \A u : u \in gone <=> \E k \in 1..n : u = g[k]
    BY <1>0, <1>1, <1>2 DEF n, Gone
  <2>2. Picked(X, y, g, gone)
    BY <2>1 DEF Picked
  <2>. QED  BY <1>4, <2>2, TakeAllCounts, Hashed
<1> HIDE DEF c, d
<1>7. PoolsCount(c, d, T)
  BY <1>3, <1>5, <1>6 DEF PoolsCount
<1>. QED  BY <1>5, <1>6, <1>7 DEF c, d, x, y, n

(* A use under another index.                                              *)
LEMMA MovedPools ==
  ASSUME NEW a, NEW b, NEW D, PoolsCount(a, b, D),
         NEW e \in D, NEW f, f \notin D \ {e}, f[2] = e[2]
  PROVE  PoolsCount(a, b, (D \ {e}) \cup {f})
<1> DEFINE T == (D \ {e}) \cup {f}
           h == [u \in T |-> IF u = f THEN e ELSE u]
<1>1. /\ \A v \in T : h[v] \in D /\ v[2] = h[v][2]
      /\ \A v, w \in T : h[v] = h[w] => v = w
  OBVIOUS
<1>2. \A u \in D : \E v \in T : h[v] = u
  <2>1. h[f] = e /\ f \in T /\ \A u \in D \ {e} : u \in T /\ h[u] = u
    OBVIOUS
  <2>. QED  BY <2>1
<1> HIDE DEF h, T
<1>3. Counts(a, NlrisOf(T))
  <2> DEFINE U == NlrisOf(D)
             V == NlrisOf(T)
  <2>1. DOMAIN U = D /\ DOMAIN V = T /\ \A v \in T : V[v] = v[2].nlri
        /\ \A u \in D : U[u] = u[2].nlri
    BY DEF NlrisOf
  <2>2. Counts(a, U)
    BY DEF PoolsCount
  <2> HIDE DEF U, V
  <2>3. \A v \in DOMAIN V : h[v] \in DOMAIN U /\ V[v] = U[h[v]]
    BY <1>1, <2>1
  <2>4. \A v, w \in DOMAIN V : h[v] = h[w] => v = w
    BY <1>1, <2>1
  <2>5. \A u \in DOMAIN U : \E v \in DOMAIN V : h[v] = u
    BY <1>2, <2>1
  <2>6. Counts(a, V)
    BY <2>2, <2>3, <2>4, <2>5, Renamed
  <2>. QED  BY <2>6 DEF V
<1>4. Counts(b, NextHopsOf(T))
  <2> DEFINE U == NextHopsOf(D)
             V == NextHopsOf(T)
  <2>1. DOMAIN U = D /\ DOMAIN V = T /\ \A v \in T : V[v] = v[2].nextHop
        /\ \A u \in D : U[u] = u[2].nextHop
    BY DEF NextHopsOf
  <2>2. Counts(b, U)
    BY DEF PoolsCount
  <2> HIDE DEF U, V
  <2>3. \A v \in DOMAIN V : h[v] \in DOMAIN U /\ V[v] = U[h[v]]
    BY <1>1, <2>1
  <2>4. \A v, w \in DOMAIN V : h[v] = h[w] => v = w
    BY <1>1, <2>1
  <2>5. \A u \in DOMAIN U : \E v \in DOMAIN V : h[v] = u
    BY <1>2, <2>1
  <2>6. Counts(b, V)
    BY <2>2, <2>3, <2>4, <2>5, Renamed
  <2>. QED  BY <2>6 DEF V
<1>. QED  BY <1>3, <1>4 DEF PoolsCount, T

-----------------------------------------------------------------------------
(* The routes of a shard                                                   *)

(* What uses the interned values: the routes of each index, and the route  *)
(* that is being added, which has none yet.                                *)
Used(st, added) ==
  (UNION {{i} \X ToSet(st.routes[i]) : i \in DOMAIN st.routes}) \cup ({0} \X added)

RouteForm(route) ==
  route = [peer |-> route.peer, nlri |-> route.nlri, nextHop |-> route.nextHop] /\ route.peer \in Peers

RoutesInv(st) ==
  \A i \in DOMAIN st.routes :
    /\ Distinct(st.routes[i])
    /\ \A route \in ToSet(st.routes[i]) : RouteForm(route)
    /\ FreeIn(st, i) => st.routes[i] = <<>>

ValueInv(st, added) == RoutesInv(st) /\ PoolsCount(st.nlris, st.nextHops, Used(st, added))

(* An index has a route, as it is promised.                                *)
HasRoute(st, i, peer, nlri, nextHop) ==
  \E route \in ToSet(st.routes[i]) :
    /\ route.peer = peer
    /\ Get(st.nlris, route.nlri) = nlri /\ Get(st.nextHops, route.nextHop) = nextHop

SameContent(st, changed, indexes) ==
  \A i \in indexes : \A peer, nlri, nextHop :
    HasRoute(changed, i, peer, nlri, nextHop) <=> HasRoute(st, i, peer, nlri, nextHop)

LEMMA UsedFacts ==
  ASSUME NEW st, NEW added, NEW u
  PROVE  u \in Used(st, added) <=> \/ \E i \in DOMAIN st.routes : \E r \in ToSet(st.routes[i]) : u = <<i, r>>
                                   \/ \E r \in added : u = <<0, r>>
BY DEF Used

LEMMA PoolsChange ==
  ASSUME NEW st, Shaped(st), NEW a, NEW b
  PROVE  WithPools(st, a, b).nlris = a /\ WithPools(st, a, b).nextHops = b
<1> DEFINE x == [routes |-> st.routes, nlris |-> st.nlris, nextHops |-> st.nextHops,
                 free |-> st.free, generations |-> st.generations]
<1>1. /\ [[x EXCEPT !.nlris = a] EXCEPT !.nextHops = b].nlris = a
      /\ [[x EXCEPT !.nlris = a] EXCEPT !.nextHops = b].nextHops = b
  OBVIOUS
<1>2. st = x
  BY DEF Shaped
<1> HIDE DEF x
<1>3. WithPools(st, a, b) = [[x EXCEPT !.nlris = a] EXCEPT !.nextHops = b]
  BY <1>2 DEF WithPools
<1>. QED  BY <1>1, <1>3

(* What an index has only depends on its routes and on their values.       *)
LEMMA ContentKept ==
  ASSUME NEW st, NEW changed, NEW i, changed.routes[i] = st.routes[i],
         \A route \in ToSet(st.routes[i]) :
           /\ Get(changed.nlris, route.nlri) = Get(st.nlris, route.nlri)
           /\ Get(changed.nextHops, route.nextHop) = Get(st.nextHops, route.nextHop),
         NEW peer, NEW nlri, NEW nextHop
  PROVE  HasRoute(changed, i, peer, nlri, nextHop) <=> HasRoute(st, i, peer, nlri, nextHop)
BY DEF HasRoute

(* A route is going to be added: its values are put.                       *)
LEMMA Interned ==
  ASSUME NEW st, ShardInv(st), ValueInv(st, {}), NEW peer \in Peers,
         NEW nlri \in NLRIs, NEW nextHop \in NextHops
  PROVE  LET a == Put(st.nlris, nlri)
             b == Put(st.nextHops, nextHop)
             route == [peer |-> peer, nlri |-> Ref(a, nlri), nextHop |-> Ref(b, nextHop)]
             interned == WithPools(st, a, b)
         IN  /\ ValueInv(interned, {route})
             /\ Get(a, route.nlri) = nlri /\ Get(b, route.nextHop) = nextHop
             /\ SameContent(st, interned, DOMAIN st.routes)
<1> DEFINE a == Put(st.nlris, nlri)
           b == Put(st.nextHops, nextHop)
           route == [peer |-> peer, nlri |-> Ref(a, nlri), nextHop |-> Ref(b, nextHop)]
           interned == WithPools(st, a, b)
           D == Used(st, {})
           e == <<0, route>>
<1>1. DOMAIN st.routes = 1..Len(st.generations) /\ Shaped(st)
  BY ShardFacts DEF ShardInv
<1>2. e[2].nlri = Ref(a, nlri) /\ e[2].nextHop = Ref(b, nextHop) /\ route.peer = peer /\ e[2] = route
      /\ route = [peer |-> route.peer, nlri |-> route.nlri, nextHop |-> route.nextHop]
  OBVIOUS
<1> HIDE DEF route
<1>3. e \notin D
  BY <1>1, UsedFacts
<1>4. PoolsCount(st.nlris, st.nextHops, D)
  BY DEF ValueInv
<1> HIDE DEF D
<1> HIDE DEF e
<1>5. /\ PoolsCount(a, b, D \cup {e})
      /\ Get(a, e[2].nlri) = nlri /\ Get(b, e[2].nextHop) = nextHop
      /\ \A u \in D : /\ Get(a, u[2].nlri) = Get(st.nlris, u[2].nlri)
                      /\ Get(b, u[2].nextHop) = Get(st.nextHops, u[2].nextHop)
  BY <1>2, <1>3, <1>4, PutPools
<1> HIDE DEF a, b, interned
<1>6. /\ interned.routes = st.routes /\ interned.free = st.free
      /\ interned.nlris = a /\ interned.nextHops = b
  BY <1>1, InternedFacts, PoolsChange DEF interned
<1>7. Used(interned, {route}) = D \cup {e}
  BY <1>6 DEF Used, D, e
<1>8. RoutesInv(interned)
  BY <1>6 DEF ValueInv, RoutesInv, FreeIn
<1>9. ASSUME NEW i \in DOMAIN st.routes, NEW r \in ToSet(st.routes[i])
      PROVE  Get(a, r.nlri) = Get(st.nlris, r.nlri) /\ Get(b, r.nextHop) = Get(st.nextHops, r.nextHop)
  <2>1. <<i, r>> \in D
    BY UsedFacts DEF D
  <2>. QED  BY <1>5, <2>1
<1>10. SameContent(st, interned, DOMAIN st.routes)
  BY <1>6, <1>9, ContentKept DEF SameContent
<1>11. ValueInv(interned, {route}) /\ Get(a, route.nlri) = nlri /\ Get(b, route.nextHop) = nextHop
  BY <1>2, <1>5, <1>6, <1>7, <1>8 DEF ValueInv
<1>. QED  BY <1>10, <1>11 DEF interned, a, b, route

(* The prefix of the route may need an index: it has no route yet.         *)
LEMMA Grown ==
  ASSUME NEW st, ShardInv(st), NEW added, ValueInv(st, added)
  PROVE  LET grown == WithNewPrefixIndex(st)
         IN  /\ ValueInv(grown, added)
             /\ SameContent(st, grown, DOMAIN st.routes)
             /\ grown.routes[NextIndex(st)] = <<>>
<1> DEFINE grown == WithNewPrefixIndex(st)
           index == NextIndex(st)
           n == Len(st.generations)
<1>0. /\ n \in Nat /\ DOMAIN st.routes = 1..n /\ Len(st.free) \in Nat /\ DOMAIN st.free = 1..Len(st.free)
      /\ List(st.routes) /\ Len(st.routes) = n /\ Shaped(st) /\ DOMAIN st.generations = 1..n
      /\ \A i \in DOMAIN st.free : st.free[i] \in 1..n
  BY ShardFacts DEF ShardInv
<1>1. RoutesInv(st) /\ PoolsCount(st.nlris, st.nextHops, Used(st, added))
  BY DEF ValueInv
<1>2. /\ ShardInv(grown)
      /\ \A i : FreeIn(grown, i) <=> FreeIn(st, i) /\ i # index
      /\ index \notin DOMAIN st.generations \/ FreeIn(st, index)
      /\ DOMAIN grown.routes = DOMAIN grown.generations
      /\ \A i \in DOMAIN grown.generations : i \in DOMAIN st.generations \/ i = index
      /\ \A i \in DOMAIN st.generations : i \in DOMAIN grown.generations /\ grown.routes[i] = st.routes[i]
      /\ index \in DOMAIN grown.generations
  <2>1. /\ ShardInv(grown)
        /\ \A i : FreeIn(grown, i) <=> FreeIn(st, i) /\ i # index
        /\ index \notin DOMAIN st.generations \/ FreeIn(st, index)
        /\ \A i \in DOMAIN grown.generations : i \in DOMAIN st.generations \/ i = index
        /\ \A i \in DOMAIN st.generations : i \in DOMAIN grown.generations /\ grown.routes[i] = st.routes[i]
        /\ index \in DOMAIN grown.generations
    BY GrownFacts
  <2>. QED  BY <2>1, ShardFacts
<1>3. grown.nlris = st.nlris /\ grown.nextHops = st.nextHops /\ grown.routes[index] = <<>>
  <2>1. CASE st.free = <<>>
    <3> DEFINE mid == [st EXCEPT !.generations = Append(st.generations, 0)]
               r == Append(st.routes, <<>>)
    <3>1. Shaped(mid) /\ mid.routes = st.routes /\ mid.nlris = st.nlris /\ mid.nextHops = st.nextHops
      BY <1>0, GenerationsChange
    <3>2. grown = [mid EXCEPT !.routes = r]
      <4>1. grown = [st EXCEPT !.generations = Append(st.generations, 0),
                               !.routes = Append(st.routes, <<>>)]
        BY <2>1 DEF WithNewPrefixIndex
      <4>. QED  BY <4>1
    <3> HIDE DEF mid, grown
    <3>3. grown.routes = r /\ grown.nlris = st.nlris /\ grown.nextHops = st.nextHops
      BY <3>1, <3>2, RoutesChange
    <3>4. r[n + 1] = <<>>
      BY <1>0, ListAppend
    <3>5. index = n + 1
      BY <2>1 DEF NextIndex
    <3>. QED  BY <3>3, <3>4, <3>5 DEF grown
  <2>2. CASE st.free # <<>>
    <3>1. grown = [st EXCEPT !.free = Front(st.free)]
      BY <2>2 DEF WithNewPrefixIndex
    <3> HIDE DEF grown
    <3>2. grown.routes = st.routes /\ grown.nlris = st.nlris /\ grown.nextHops = st.nextHops
      BY <1>0, <3>1, FreeChange
    <3>3. index \in 1..n /\ FreeIn(st, index)
      <4>1. Len(st.free) \in DOMAIN st.free
        <5>1. st.free \in Seq(1..n)
          BY <1>0 DEF ShardInv
        <5>. QED  BY <2>2, <5>1
      <4>. QED  BY <1>0, <2>2, <4>1 DEF NextIndex, Last, FreeIn
    <3> HIDE DEF index, n
    <3>4. st.routes[index] = <<>>
      BY <1>0, <1>1, <3>3 DEF RoutesInv
    <3>. QED  BY <3>2, <3>4
  <2>. QED  BY <2>1, <2>2
<1> HIDE DEF grown, index, n
<1>4. \A i : i \notin DOMAIN <<>> /\ i \notin ToSet(<<>>)
  BY DEF ToSet
<1>5. RoutesInv(grown)
  <2>1. ASSUME NEW i \in DOMAIN grown.routes
        PROVE  /\ Distinct(grown.routes[i])
               /\ \A route \in ToSet(grown.routes[i]) : RouteForm(route)
               /\ FreeIn(grown, i) => grown.routes[i] = <<>>
    <3>1. CASE i = index
      BY <1>3, <1>4, <3>1 DEF Distinct
    <3>2. CASE i # index
      BY <1>0, <1>1, <1>2, <3>2 DEF RoutesInv
    <3>. QED  BY <3>1, <3>2
  <2>. QED  BY <2>1 DEF RoutesInv
<1>6. \A u : u \in Used(grown, added) <=> u \in Used(st, added)
  <2> TAKE u
  <2>1. ASSUME NEW i \in DOMAIN grown.routes, NEW r \in ToSet(grown.routes[i])
        PROVE  i \in DOMAIN st.routes /\ r \in ToSet(st.routes[i])
    <3>1. i # index
      BY <1>3, <1>4, <2>1
    <3>. QED  BY <1>0, <1>2, <2>1, <3>1
  <2>2. ASSUME NEW i \in DOMAIN st.routes
        PROVE  i \in DOMAIN grown.routes /\ grown.routes[i] = st.routes[i]
    BY <1>0, <1>2
  <2>3. (\E i \in DOMAIN grown.routes : \E r \in ToSet(grown.routes[i]) : u = <<i, r>>)
          <=> \E i \in DOMAIN st.routes : \E r \in ToSet(st.routes[i]) : u = <<i, r>>
    BY <2>1, <2>2
  <2>. QED  BY <2>3, UsedFacts
<1>7. Used(grown, added) = Used(st, added)
  BY <1>6
<1>8. SameContent(st, grown, DOMAIN st.routes)
  <2>1. \A i \in DOMAIN st.routes : grown.routes[i] = st.routes[i]
    BY <1>0, <1>2
  <2>. QED  BY <1>3, <2>1, ContentKept DEF SameContent
<1>. QED  BY <1>1, <1>3, <1>5, <1>7, <1>8 DEF ValueInv, grown, index

-----------------------------------------------------------------------------
(* A route comes in                                                        *)

Matches(route, new) == route.peer = new.peer /\ route.nlri = new.nlri

(* The routes of an index once a route came in.                            *)
With(old, new, left) ==
  \A route : route \in ToSet(left) <=> (route \in ToSet(old) /\ ~ Matches(route, new)) \/ route = new

Replaced(st, changed, index, peer, nlri, nextHop) ==
  \A w, v, h : HasRoute(changed, index, w, v, h)
                 <=> \/ HasRoute(st, index, w, v, h) /\ ~ (w = peer /\ v = nlri)
                     \/ w = peer /\ v = nlri /\ h = nextHop

LEMMA Replacing ==
  ASSUME NEW st, ShardInv(st), NEW new, RouteForm(new), ValueInv(st, {new}),
         NEW index \in DOMAIN st.routes, ~ FreeIn(st, index),
         NEW left, Distinct(left), With(st.routes[index], new, left),
         NEW changed, changed.routes = [st.routes EXCEPT ![index] = left], changed.free = st.free,
         SameValues(st.nlris, changed.nlris), SameValues(st.nextHops, changed.nextHops)
  PROVE  /\ RoutesInv(changed)
         /\ Replaced(st, changed, index, new.peer, Get(st.nlris, new.nlri), Get(st.nextHops, new.nextHop))
         /\ SameContent(st, changed, DOMAIN st.routes \ {index})
         /\ \A u : u \in Used(changed, {}) <=>
              \/ /\ u \in Used(st, {new}) /\ u # <<0, new>>
                 /\ ~ \E route \in ToSet(st.routes[index]) : u = <<index, route>> /\ Matches(route, new)
              \/ u = <<index, new>>
<1> DEFINE D == Used(st, {new})
           nlri == Get(st.nlris, new.nlri)
           nextHop == Get(st.nextHops, new.nextHop)
<1>0. DOMAIN st.routes = 1..Len(st.generations) /\ Len(st.generations) \in Nat
  BY ShardFacts
<1>1. /\ DOMAIN changed.routes = DOMAIN st.routes /\ changed.routes[index] = left
      /\ \A i \in DOMAIN st.routes \ {index} : changed.routes[i] = st.routes[i]
  OBVIOUS
<1>2. RoutesInv(st) /\ PoolsCount(st.nlris, st.nextHops, D)
  BY DEF ValueInv
<1>3. \A route : route \in ToSet(left) <=>
        (route \in ToSet(st.routes[index]) /\ ~ Matches(route, new)) \/ route = new
  BY DEF With
<1>4. RoutesInv(changed)
  <2>1. \A route \in ToSet(left) : RouteForm(route)
    BY <1>2, <1>3 DEF RoutesInv
  <2>2. \A i : FreeIn(changed, i) <=> FreeIn(st, i)
    BY DEF FreeIn
  <2>. QED  BY <1>1, <1>2, <2>1, <2>2 DEF RoutesInv
<1>5. <<0, new>> \in D /\ \A i \in DOMAIN st.routes : \A r \in ToSet(st.routes[i]) : <<i, r>> \in D
  BY UsedFacts
<1>6. /\ \A i \in DOMAIN st.routes : \A r \in ToSet(st.routes[i]) :
           /\ Get(changed.nlris, r.nlri) = Get(st.nlris, r.nlri)
           /\ Get(changed.nextHops, r.nextHop) = Get(st.nextHops, r.nextHop)
           /\ Get(st.nlris, r.nlri) = nlri => r.nlri = new.nlri
      /\ Get(changed.nlris, new.nlri) = nlri /\ Get(changed.nextHops, new.nextHop) = nextHop
  <2> HIDE DEF D, nlri, nextHop
  <2>1. \A u \in D : u[2].nlri \in Refs(st.nlris) /\ u[2].nextHop \in Refs(st.nextHops)
    BY <1>2, UsedRefs
  <2>2. \A u, w \in D : Get(st.nlris, u[2].nlri) = Get(st.nlris, w[2].nlri) => u[2].nlri = w[2].nlri
    BY <1>2, UsedRefs
  <2>3. \A r \in Refs(st.nlris) : Get(changed.nlris, r) = Get(st.nlris, r)
    BY DEF SameValues
  <2>4. \A r \in Refs(st.nextHops) : Get(changed.nextHops, r) = Get(st.nextHops, r)
    BY DEF SameValues
  <2>5. \A u \in D : /\ Get(changed.nlris, u[2].nlri) = Get(st.nlris, u[2].nlri)
                     /\ Get(changed.nextHops, u[2].nextHop) = Get(st.nextHops, u[2].nextHop)
                     /\ Get(st.nlris, u[2].nlri) = Get(st.nlris, new.nlri) => u[2].nlri = new.nlri
    BY <1>5, <2>1, <2>2, <2>3, <2>4
  <2>6. ASSUME NEW i \in DOMAIN st.routes, NEW r \in ToSet(st.routes[i])
        PROVE  /\ Get(changed.nlris, r.nlri) = Get(st.nlris, r.nlri)
               /\ Get(changed.nextHops, r.nextHop) = Get(st.nextHops, r.nextHop)
               /\ Get(st.nlris, r.nlri) = nlri => r.nlri = new.nlri
    <3>1. <<i, r>> \in D /\ <<i, r>>[2] = r
      BY <1>5
    <3>. QED  BY <2>5, <3>1 DEF nlri
  <2>7. Get(changed.nlris, new.nlri) = nlri /\ Get(changed.nextHops, new.nextHop) = nextHop
    <3>1. <<0, new>> \in D /\ <<0, new>>[2] = new
      BY <1>5
    <3>. QED  BY <2>5, <3>1 DEF nlri, nextHop
  <2>. QED  BY <2>6, <2>7
<1> HIDE DEF nlri, nextHop
<1>7. ASSUME NEW w, NEW v, NEW h
      PROVE  HasRoute(changed, index, w, v, h)
               <=> \/ HasRoute(st, index, w, v, h) /\ ~ (w = new.peer /\ v = nlri)
                   \/ w = new.peer /\ v = nlri /\ h = nextHop
  <2>1. ASSUME NEW r \in ToSet(left), r.peer = w, Get(changed.nlris, r.nlri) = v,
               Get(changed.nextHops, r.nextHop) = h
        PROVE  \/ HasRoute(st, index, w, v, h) /\ ~ (w = new.peer /\ v = nlri)
               \/ w = new.peer /\ v = nlri /\ h = nextHop
    <3>1. CASE r = new
      BY <1>6, <2>1, <3>1
    <3>2. CASE r \in ToSet(st.routes[index]) /\ ~ Matches(r, new)
      BY <1>6, <2>1, <3>2 DEF HasRoute, Matches
    <3>. QED  BY <1>3, <3>1, <3>2
  <2>2. ASSUME NEW r \in ToSet(st.routes[index]), r.peer = w, Get(st.nlris, r.nlri) = v,
               Get(st.nextHops, r.nextHop) = h, ~ (w = new.peer /\ v = nlri)
        PROVE  HasRoute(changed, index, w, v, h)
    <3>1. ~ Matches(r, new)
      BY <2>2 DEF Matches, nlri
    <3>2. r \in ToSet(left)
      BY <1>3, <3>1
    <3>. QED  BY <1>1, <1>6, <2>2, <3>2 DEF HasRoute
  <2>3. ASSUME w = new.peer, v = nlri, h = nextHop PROVE HasRoute(changed, index, w, v, h)
    BY <1>1, <1>3, <1>6, <2>3 DEF HasRoute
  <2>. QED  BY <1>1, <2>1, <2>2, <2>3 DEF HasRoute
<1>8. SameContent(st, changed, DOMAIN st.routes \ {index})
  BY <1>1, <1>6, ContentKept DEF SameContent
<1>9. ASSUME NEW u
      PROVE  u \in Used(changed, {}) <=>
              \/ /\ u \in D /\ u # <<0, new>>
                 /\ ~ \E route \in ToSet(st.routes[index]) : u = <<index, route>> /\ Matches(route, new)
              \/ u = <<index, new>>
  <2>1. u \in Used(changed, {}) <=> \E i \in DOMAIN st.routes : \E r \in ToSet(changed.routes[i]) : u = <<i, r>>
    BY <1>1, UsedFacts
  <2>2. u \in D <=> (\E i \in DOMAIN st.routes : \E r \in ToSet(st.routes[i]) : u = <<i, r>>) \/ u = <<0, new>>
    BY UsedFacts
  <2>3. 0 \notin DOMAIN st.routes
    BY <1>0
  <2> HIDE DEF D
  <2>4. ASSUME NEW i \in DOMAIN st.routes, NEW r \in ToSet(changed.routes[i]), u = <<i, r>>
        PROVE  \/ /\ u \in D /\ u # <<0, new>>
                  /\ ~ \E route \in ToSet(st.routes[index]) : u = <<index, route>> /\ Matches(route, new)
               \/ u = <<index, new>>
    <3>1. CASE i = index
      BY <1>1, <1>3, <2>2, <2>3, <2>4, <3>1
    <3>2. CASE i # index
      BY <1>1, <2>2, <2>3, <2>4, <3>2
    <3>. QED  BY <3>1, <3>2
  <2>5. ASSUME NEW i \in DOMAIN st.routes, NEW r \in ToSet(st.routes[i]), u = <<i, r>>,
               ~ \E route \in ToSet(st.routes[index]) : u = <<index, route>> /\ Matches(route, new)
        PROVE  r \in ToSet(changed.routes[i])
    <3>1. CASE i = index
      BY <1>1, <1>3, <2>5, <3>1
    <3>2. CASE i # index
      BY <1>1, <3>2
    <3>. QED  BY <3>1, <3>2
  <2>6. new \in ToSet(changed.routes[index])
    BY <1>1, <1>3
  <2>. QED  BY <2>1, <2>2, <2>4, <2>5, <2>6
<1>. QED  BY <1>4, <1>7, <1>8, <1>9 DEF Replaced, nlri, nextHop

(* A new route comes last.                                                 *)
LEMMA InsertsNew ==
  ASSUME NEW st, ShardInv(st), NEW new, RouteForm(new), ValueInv(st, {new}),
         NEW index \in DOMAIN st.routes, ~ FreeIn(st, index),
         \A i \in DOMAIN st.routes[index] : ~ Matches(st.routes[index][i], new)
  PROVE  LET changed == [st EXCEPT !.routes = [st.routes EXCEPT ![index] = Append(@, new)]]
         IN  /\ ValueInv(changed, {})
             /\ Replaced(st, changed, index, new.peer, Get(st.nlris, new.nlri), Get(st.nextHops, new.nextHop))
             /\ SameContent(st, changed, DOMAIN st.routes \ {index})
<1> DEFINE old == st.routes[index]
           left == Append(old, new)
           r == [st.routes EXCEPT ![index] = left]
           changed == [st EXCEPT !.routes = r]
           D == Used(st, {new})
<1>1. List(old) /\ Distinct(old) /\ Shaped(st)
  BY DEF ShardInv, ValueInv, RoutesInv
<1>2. /\ Len(old) \in Nat /\ DOMAIN old = 1..Len(old)
      /\ List(left) /\ Len(left) = Len(old) + 1 /\ left[Len(old) + 1] = new
      /\ \A i \in 1..Len(old) : left[i] = old[i]
  BY <1>1, ListFacts, ListAppend
<1>0. \A i \in DOMAIN old : ~ Matches(old[i], new)
  OBVIOUS
<1>e. \A x : x \in ToSet(old) <=> \E i \in DOMAIN old : x = old[i]
  BY DEF ToSet
<1>3. /\ changed.routes = r /\ changed.free = st.free
      /\ changed.nlris = st.nlris /\ changed.nextHops = st.nextHops
  <2> HIDE DEF r
  <2>. QED  BY <1>1, RoutesChange
<1> HIDE DEF old, left, changed
<1>4. DOMAIN left = 1..(Len(old) + 1)
  BY <1>2, ListFacts
<1>5. \A i \in DOMAIN left : i \in DOMAIN old \/ i = Len(old) + 1
  BY <1>2, <1>4
<1>6. Distinct(left)
  <2>1. \A i \in DOMAIN old : left[i] = old[i] /\ ~ Matches(left[i], new)
    BY <1>0, <1>2
  <2>. QED  BY <1>1, <1>2, <1>5, <2>1 DEF Distinct, Matches
<1>7. With(old, new, left)
  <2>1. \A x : x \in ToSet(left) <=> \E i \in DOMAIN left : x = left[i]
    BY DEF ToSet
  <2>2. \A i \in DOMAIN old : i \in DOMAIN left /\ left[i] = old[i]
    BY <1>2, <1>4
  <2>3. Len(old) + 1 \in DOMAIN left
    BY <1>2, <1>4
  <2>4. \A x : x \in ToSet(left) <=> x \in ToSet(old) \/ x = new
    BY <1>2, <1>5, <1>e, <2>1, <2>2, <2>3
  <2>5. \A x \in ToSet(old) : ~ Matches(x, new)
    BY <1>0, <1>e
  <2>. QED  BY <2>4, <2>5 DEF With
<1>8. SameValues(st.nlris, changed.nlris) /\ SameValues(st.nextHops, changed.nextHops)
  BY <1>3 DEF SameValues
<1> HIDE DEF D
<1>9. /\ RoutesInv(changed)
      /\ Replaced(st, changed, index, new.peer, Get(st.nlris, new.nlri), Get(st.nextHops, new.nextHop))
      /\ SameContent(st, changed, DOMAIN st.routes \ {index})
      /\ \A u : u \in Used(changed, {}) <=>
              \/ /\ u \in D /\ u # <<0, new>>
                 /\ ~ \E route \in ToSet(old) : u = <<index, route>> /\ Matches(route, new)
              \/ u = <<index, new>>
  BY <1>3, <1>6, <1>7, <1>8, Replacing DEF old, D
<1>10. PoolsCount(changed.nlris, changed.nextHops, Used(changed, {}))
  <2> DEFINE e == <<0, new>>
             f == <<index, new>>
  <2>1. e \in D /\ f[2] = e[2]
    BY UsedFacts DEF D
  <2>2. f \notin D \ {e}
    <3>1. new \notin ToSet(old)
      BY <1>0, <1>e DEF Matches
    <3>2. index # 0
      BY ShardFacts
    <3>. QED  BY <3>1, <3>2, UsedFacts DEF D, old
  <2>3. PoolsCount(st.nlris, st.nextHops, D)
    BY DEF ValueInv, D
  <2>4. Used(changed, {}) = (D \ {e}) \cup {f}
    <3>1. \A x \in ToSet(old) : ~ Matches(x, new)
      BY <1>0, <1>e
    <3>. QED  BY <1>9, <3>1
  <2> HIDE DEF e, f
  <2>. QED  BY <1>3, <2>1, <2>2, <2>3, <2>4, MovedPools
<1>. QED  BY <1>9, <1>10 DEF ValueInv, changed, left, old

(* A new route replaces the one of the same peer and NLRI.                 *)
LEMMA InsertsReplacing ==
  ASSUME NEW st, ShardInv(st), NEW new, RouteForm(new), ValueInv(st, {new}),
         NEW index \in DOMAIN st.routes, ~ FreeIn(st, index),
         NEW i \in DOMAIN st.routes[index], Matches(st.routes[index][i], new),
         NEW changed, Shaped(changed), changed.free = st.free,
         changed.routes = [st.routes EXCEPT ![index] = [@ EXCEPT ![i] = new]],
         changed.nlris = Take(st.nlris, st.routes[index][i].nlri),
         changed.nextHops = Take(st.nextHops, st.routes[index][i].nextHop)
  PROVE  /\ ValueInv(changed, {})
         /\ Replaced(st, changed, index, new.peer, Get(st.nlris, new.nlri), Get(st.nextHops, new.nextHop))
         /\ SameContent(st, changed, DOMAIN st.routes \ {index})
<1> DEFINE old == st.routes[index]
           left == [old EXCEPT ![i] = new]
           D == Used(st, {new})
           t == <<index, old[i]>>
           e == <<0, new>>
           f == <<index, new>>
<1>1. List(old) /\ Distinct(old) /\ i \in DOMAIN old /\ Matches(old[i], new)
  BY DEF ShardInv, ValueInv, RoutesInv
<1>2. /\ DOMAIN left = DOMAIN old /\ left[i] = new
      /\ \A j \in DOMAIN old \ {i} : left[j] = old[j]
  BY <1>1
<1>3. changed.routes = [st.routes EXCEPT ![index] = left]
  OBVIOUS
<1>e. \A x : x \in ToSet(old) <=> \E j \in DOMAIN old : x = old[j]
  BY DEF ToSet
<1>0. index # 0
  BY ShardFacts
<1> HIDE DEF left
<1>4. \A j \in DOMAIN old : Matches(old[j], new) <=> j = i
  BY <1>1 DEF Distinct, Matches
<1>5. Distinct(left)
  <2>1. Matches(left[i], new) /\ \A j \in DOMAIN old \ {i} : left[j] = old[j] /\ ~ Matches(left[j], new)
    BY <1>2, <1>4 DEF Matches
  <2> HIDE DEF old
  <2>2. ASSUME NEW j \in DOMAIN left, NEW k \in DOMAIN left,
               left[j].peer = left[k].peer, left[j].nlri = left[k].nlri
        PROVE  j = k
    <3>1. Matches(left[j], new) <=> Matches(left[k], new)
      BY <2>2 DEF Matches
    <3>2. CASE j = i \/ k = i
      BY <1>2, <2>1, <3>1, <3>2
    <3>3. CASE j # i /\ k # i
      BY <1>1, <1>2, <2>1, <2>2, <3>3 DEF Distinct
    <3>. QED  BY <3>2, <3>3
  <2>. QED  BY <2>2 DEF Distinct
<1>6. With(old, new, left)
  <2>1. \A x : x \in ToSet(left) <=> \E j \in DOMAIN old : x = left[j]
    BY <1>2 DEF ToSet
  <2> HIDE DEF old
  <2>2. ASSUME NEW x PROVE x \in ToSet(left) <=> (x \in ToSet(old) /\ ~ Matches(x, new)) \/ x = new
    <3>1. ASSUME NEW j \in DOMAIN old, x = left[j]
          PROVE  (x \in ToSet(old) /\ ~ Matches(x, new)) \/ x = new
      BY <1>2, <1>4, <1>e, <3>1
    <3>2. ASSUME NEW j \in DOMAIN old, x = old[j], ~ Matches(x, new) PROVE x = left[j]
      BY <1>2, <1>4, <3>2
    <3>. QED  BY <1>1, <1>2, <1>e, <2>1, <3>1, <3>2
  <2>. QED  BY <2>2 DEF With
<1> HIDE DEF old
<1>7. PoolsCount(st.nlris, st.nextHops, D) /\ t \in D /\ e \in D
  <2>1. t \in D
    BY <1>1, <1>e, UsedFacts DEF old
  <2>2. e \in D
    BY UsedFacts
  <2>. QED  BY <2>1, <2>2 DEF ValueInv
<1> HIDE DEF D
<1>8. /\ PoolsCount(changed.nlris, changed.nextHops, D \ {t})
      /\ SameValues(st.nlris, changed.nlris) /\ SameValues(st.nextHops, changed.nextHops)
  <2>1. changed.nlris = Take(st.nlris, t[2].nlri) /\ changed.nextHops = Take(st.nextHops, t[2].nextHop)
    BY DEF old
  <2> HIDE DEF t
  <2>2. LET c == Take(st.nlris, t[2].nlri)
            d == Take(st.nextHops, t[2].nextHop)
        IN  PoolsCount(c, d, D \ {t}) /\ SameValues(st.nlris, c) /\ SameValues(st.nextHops, d)
    BY <1>7, TakePools
  <2>. QED  BY <2>1, <2>2
<1>9. /\ RoutesInv(changed)
      /\ Replaced(st, changed, index, new.peer, Get(st.nlris, new.nlri), Get(st.nextHops, new.nextHop))
      /\ SameContent(st, changed, DOMAIN st.routes \ {index})
      /\ \A u : u \in Used(changed, {}) <=>
              \/ /\ u \in D /\ u # <<0, new>>
                 /\ ~ \E route \in ToSet(old) : u = <<index, route>> /\ Matches(route, new)
              \/ u = <<index, new>>
  BY <1>3, <1>5, <1>6, <1>8, Replacing DEF old, D
<1>10. PoolsCount(changed.nlris, changed.nextHops, ((D \ {t}) \ {e}) \cup {f})
  <2>1. e \in D \ {t} /\ f[2] = e[2]
    BY <1>0, <1>7
  <2>2. f \notin (D \ {t}) \ {e}
    <3>1. new \in ToSet(old) => new = old[i]
      BY <1>4, <1>e DEF Matches
    <3>2. f \in D => new \in ToSet(old)
      BY <1>0, UsedFacts DEF D, old
    <3>. QED  BY <3>1, <3>2
  <2> DEFINE T == D \ {t}
  <2> HIDE DEF e, f, T
  <2>3. PoolsCount(changed.nlris, changed.nextHops, T) /\ e \in T /\ f \notin T \ {e}
    BY <1>8, <2>1, <2>2 DEF T
  <2>4. PoolsCount(changed.nlris, changed.nextHops, (T \ {e}) \cup {f})
    BY <2>1, <2>3, MovedPools
  <2>. QED  BY <2>4 DEF T
<1>11. Used(changed, {}) = ((D \ {t}) \ {e}) \cup {f}
  <2>1. \A u : (\E route \in ToSet(old) : u = <<index, route>> /\ Matches(route, new)) <=> u = t
    BY <1>1, <1>4, <1>e
  <2>. QED  BY <1>9, <2>1
<1>. QED  BY <1>9, <1>10, <1>11 DEF ValueInv

-----------------------------------------------------------------------------
(* Routes go                                                               *)

(* Each index loses the routes that drop gives.                            *)
Dropped(st, changed, drop) ==
  /\ DOMAIN changed.routes = DOMAIN st.routes
  /\ \A i \in DOMAIN st.routes :
       /\ List(changed.routes[i]) /\ Distinct(changed.routes[i])
       /\ ToSet(changed.routes[i]) = ToSet(st.routes[i]) \ drop[i]
  /\ \A i : FreeIn(changed, i) => FreeIn(st, i) \/ changed.routes[i] = <<>>

(* They are the routes whose values are released.                          *)
Released(st, drop, routes, g) ==
  /\ List(routes)
  /\ \A k \in 1..Len(routes) :
       \E i \in DOMAIN st.routes : routes[k] \in ToSet(st.routes[i]) \cap drop[i] /\ g[k] = <<i, routes[k]>>
  /\ \A j, k \in 1..Len(routes) : g[j] = g[k] => j = k
  /\ \A i \in DOMAIN st.routes : \A route \in ToSet(st.routes[i]) \cap drop[i] :
       \E k \in 1..Len(routes) : g[k] = <<i, route>>

KeptContent(st, changed, drop) ==
  \A i \in DOMAIN st.routes : \A peer, nlri, nextHop :
    HasRoute(changed, i, peer, nlri, nextHop)
      <=> \E route \in ToSet(st.routes[i]) \ drop[i] :
            /\ route.peer = peer
            /\ Get(st.nlris, route.nlri) = nlri /\ Get(st.nextHops, route.nextHop) = nextHop

LEMMA Empties == ASSUME NEW q, List(q), ToSet(q) = {} PROVE q = <<>>
<1>1. DOMAIN q = {}
  BY DEF ToSet
<1>2. Len(q) \in Nat /\ DOMAIN q = 1..Len(q) /\ (q = <<>> <=> Len(q) = 0)
  BY ListFacts
<1>3. Len(q) = 0
  BY <1>1, <1>2
<1>. QED  BY <1>2, <1>3

LEMMA Dropping ==
  ASSUME NEW st, ShardInv(st), ValueInv(st, {}), NEW drop, NEW changed, Dropped(st, changed, drop),
         NEW routes, NEW g, Released(st, drop, routes, g),
         changed.nlris = Release(st, routes).nlris, changed.nextHops = Release(st, routes).nextHops
  PROVE  ValueInv(changed, {}) /\ KeptContent(st, changed, drop)
<1> DEFINE D == Used(st, {})
           gone == {g[k] : k \in 1..Len(routes)}
           a == TakeAll(st.nlris, [i \in DOMAIN routes |-> routes[i].nlri])
           b == TakeAll(st.nextHops, [i \in DOMAIN routes |-> routes[i].nextHop])
<1>1. RoutesInv(st) /\ PoolsCount(st.nlris, st.nextHops, D) /\ Shaped(st)
  BY DEF ValueInv, ShardInv
<1>2. Gone(D, routes, g, gone)
  <2>1. ASSUME NEW k \in 1..Len(routes) PROVE g[k] \in D /\ routes[k] = g[k][2]
    <3>1. PICK i \in DOMAIN st.routes : routes[k] \in ToSet(st.routes[i]) /\ g[k] = <<i, routes[k]>>
      BY DEF Released
    <3>2. <<i, routes[k]>> \in D
      BY <3>1, UsedFacts
    <3>. QED  BY <3>1, <3>2
  <2>. QED  BY <2>1 DEF Gone, Released
<1>3. changed.nlris = a /\ changed.nextHops = b
  <2>1. Release(st, routes) = WithPools(st, a, b)
    BY DEF Release, WithPools
  <2> HIDE DEF a, b
  <2>. QED  BY <1>1, <2>1, PoolsChange
<1>4. PoolsCount(a, b, D \ gone) /\ SameValues(st.nlris, a) /\ SameValues(st.nextHops, b)
  <2> HIDE DEF D, gone
  <2>1. List(routes)
    BY DEF Released
  <2>. QED  BY <1>1, <1>2, <2>1, TakeAllPools
<1> HIDE DEF a, b
<1>5. /\ DOMAIN changed.routes = DOMAIN st.routes
      /\ \A i \in DOMAIN st.routes : \A r : r \in ToSet(changed.routes[i]) <=> r \in ToSet(st.routes[i]) /\ r \notin drop[i]
  BY DEF Dropped
<1>6. \A i \in DOMAIN st.routes : \A r \in ToSet(st.routes[i]) : <<i, r>> \in gone <=> r \in drop[i]
  <2> SUFFICES ASSUME NEW i \in DOMAIN st.routes, NEW r \in ToSet(st.routes[i])
               PROVE  <<i, r>> \in gone <=> r \in drop[i]
    OBVIOUS
  <2>1. ASSUME r \in drop[i] PROVE <<i, r>> \in gone
    BY <2>1 DEF Released
  <2>2. ASSUME <<i, r>> \in gone PROVE r \in drop[i]
    <3>1. PICK k \in 1..Len(routes) : <<i, r>> = g[k]
      BY <2>2
    <3>2. PICK j \in DOMAIN st.routes : routes[k] \in ToSet(st.routes[j]) \cap drop[j] /\ g[k] = <<j, routes[k]>>
      BY DEF Released
    <3>. QED  BY <3>1, <3>2
  <2>. QED  BY <2>1, <2>2
<1> HIDE DEF gone
<1>7. Used(changed, {}) = D \ gone
  <2>1. ASSUME NEW u PROVE u \in Used(changed, {}) <=> u \in D /\ u \notin gone
    <3>1. u \in D <=> \E i \in DOMAIN st.routes : \E r \in ToSet(st.routes[i]) : u = <<i, r>>
      BY UsedFacts
    <3>2. u \in Used(changed, {}) <=> \E i \in DOMAIN st.routes : \E r \in ToSet(changed.routes[i]) : u = <<i, r>>
      BY <1>5, UsedFacts
    <3> HIDE DEF D
    <3>3. \A i \in DOMAIN st.routes : \A r : r \in ToSet(changed.routes[i]) <=> r \in ToSet(st.routes[i]) /\ <<i, r>> \notin gone
      BY <1>5, <1>6
    <3>. QED  BY <3>1, <3>2, <3>3
  <2>. QED  BY <2>1
<1>8. RoutesInv(changed)
  <2>1. ASSUME NEW i \in DOMAIN st.routes, FreeIn(st, i) PROVE changed.routes[i] = <<>>
    <3>1. st.routes[i] = <<>>
      BY <1>1, <2>1 DEF RoutesInv
    <3>2. ToSet(<<>>) = {}
      BY DEF ToSet
    <3>3. ToSet(changed.routes[i]) = {} /\ List(changed.routes[i])
      BY <3>1, <3>2 DEF Dropped
    <3>. QED  BY <3>3, Empties
  <2>2. \A i \in DOMAIN st.routes : \A r \in ToSet(changed.routes[i]) : RouteForm(r)
    BY <1>1, <1>5 DEF RoutesInv
  <2>3. \A i \in DOMAIN st.routes : Distinct(changed.routes[i]) /\ (FreeIn(changed, i) => FreeIn(st, i) \/ changed.routes[i] = <<>>)
    BY DEF Dropped
  <2>. QED  BY <1>5, <2>1, <2>2, <2>3 DEF RoutesInv
<1>9. \A i \in DOMAIN st.routes : \A r \in ToSet(st.routes[i]) :
        Get(a, r.nlri) = Get(st.nlris, r.nlri) /\ Get(b, r.nextHop) = Get(st.nextHops, r.nextHop)
  <2> SUFFICES ASSUME NEW i \in DOMAIN st.routes, NEW r \in ToSet(st.routes[i])
               PROVE  Get(a, r.nlri) = Get(st.nlris, r.nlri) /\ Get(b, r.nextHop) = Get(st.nextHops, r.nextHop)
    OBVIOUS
  <2>1. <<i, r>> \in D /\ <<i, r>>[2] = r
    BY UsedFacts
  <2> HIDE DEF D
  <2>2. \A u \in D : u[2].nlri \in Refs(st.nlris) /\ u[2].nextHop \in Refs(st.nextHops)
    BY <1>1, UsedRefs
  <2>3. r.nlri \in Refs(st.nlris) /\ r.nextHop \in Refs(st.nextHops)
    BY <2>1, <2>2
  <2>. QED  BY <1>4, <2>3 DEF SameValues
<1>10. KeptContent(st, changed, drop)
  <2> SUFFICES ASSUME NEW i \in DOMAIN st.routes, NEW w, NEW v, NEW h
               PROVE  HasRoute(changed, i, w, v, h)
                        <=> \E route \in ToSet(st.routes[i]) \ drop[i] :
                              /\ route.peer = w
                              /\ Get(st.nlris, route.nlri) = v /\ Get(st.nextHops, route.nextHop) = h
    BY DEF KeptContent
  <2>. QED  BY <1>3, <1>5, <1>9 DEF HasRoute
<1>. QED  BY <1>3, <1>4, <1>7, <1>8, <1>10 DEF ValueInv

LEMMA FreedPools ==
  ASSUME NEW st, Shaped(st), NEW index
  PROVE  FreeIfEmpty(st, index).nlris = st.nlris /\ FreeIfEmpty(st, index).nextHops = st.nextHops
<1> DEFINE mid == [st EXCEPT !.generations[index] = @ + 1]
           f == Append(st.free, index)
<1>1. Shaped(mid) /\ mid.nlris = st.nlris /\ mid.nextHops = st.nextHops /\ mid.free = st.free
  <2> DEFINE g == [st.generations EXCEPT ![index] = @ + 1]
  <2>1. mid = [st EXCEPT !.generations = g]
    OBVIOUS
  <2> HIDE DEF g, mid
  <2>. QED  BY <2>1, GenerationsChange
<1>2. FreePrefixIndex(st, index) = [mid EXCEPT !.free = f]
  BY DEF FreePrefixIndex
<1> HIDE DEF mid, f
<1>3. FreePrefixIndex(st, index).nlris = st.nlris /\ FreePrefixIndex(st, index).nextHops = st.nextHops
  BY <1>1, <1>2, FreeChange
<1>. QED  BY <1>3 DEF FreeIfEmpty

(* Routes of an index go.                                                  *)
LEMMA Removes ==
  ASSUME NEW st, ShardInv(st), ValueInv(st, {}), NEW index \in DOMAIN st.generations,
         ~ FreeIn(st, index), NEW matching
  PROVE  LET changed == FreeIfEmpty(RemoveRoutes(st, index, matching), index)
             drop == [i \in DOMAIN st.routes |-> IF i = index THEN matching ELSE {}]
         IN  ValueInv(changed, {}) /\ KeptContent(st, changed, drop)
<1> DEFINE old == st.routes[index]
           R == Among(old, matching)
           left == Left(old, matching)
           released == Release(st, R)
           r == [st.routes EXCEPT ![index] = left]
           removed == RemoveRoutes(st, index, matching)
           changed == FreeIfEmpty(removed, index)
           drop == [i \in DOMAIN st.routes |-> IF i = index THEN matching ELSE {}]
           g == [k \in 1..Len(R) |-> <<index, R[k]>>]
<1>0. index \in DOMAIN st.routes /\ DOMAIN st.routes = DOMAIN st.generations
  BY ShardFacts
<1>1. List(old) /\ Distinct(old) /\ \A i \in DOMAIN st.routes : List(st.routes[i]) /\ Distinct(st.routes[i])
  BY <1>0 DEF ShardInv, ValueInv, RoutesInv
<1>2. List(R) /\ Distinct(R) /\ ToSet(R) = ToSet(old) \cap matching
  BY <1>1, AmongRoutes
<1>3. List(left) /\ Distinct(left) /\ ToSet(left) = ToSet(old) \ matching
  BY <1>1, LeftRoutes
<1>4. /\ ShardInv(released) /\ Shaped(released) /\ released.routes = st.routes
      /\ released.free = st.free /\ released.generations = st.generations
  BY ReleaseFacts DEF ShardInv
<1>5. removed = [released EXCEPT !.routes = [released.routes EXCEPT ![index] = Left(released.routes[index], matching)]]
  BY DEF RemoveRoutes
<1> HIDE DEF removed, released, left, R
<1>6. removed = [released EXCEPT !.routes = r]
  BY <1>4, <1>5 DEF left
<1>7. /\ Shaped(removed) /\ removed.routes = r /\ removed.free = st.free
      /\ removed.nlris = released.nlris /\ removed.nextHops = released.nextHops
  <2> HIDE DEF r
  <2>. QED  BY <1>4, <1>6, RoutesChange
<1>8. ShardInv(removed) /\ removed.generations = st.generations /\ ~ FreeIn(removed, index)
  <2>1. ShardInv(removed) /\ removed.generations = st.generations
    BY RemovedFacts DEF removed
  <2>. QED  BY <1>7, <2>1 DEF FreeIn
<1>9. /\ changed.routes = removed.routes
      /\ \A i : FreeIn(changed, i) <=> FreeIn(removed, i) \/ (removed.routes[index] = <<>> /\ i = index)
  BY <1>8, FreeIfEmptyFacts
<1>10. changed.nlris = released.nlris /\ changed.nextHops = released.nextHops
  BY <1>7, FreedPools
<1> HIDE DEF changed, old
<1>11. Dropped(st, changed, drop)
  <2>1. changed.routes = r
    BY <1>7, <1>9
  <2>2. DOMAIN r = DOMAIN st.routes /\ r[index] = left /\ \A i \in DOMAIN st.routes \ {index} : r[i] = st.routes[i]
    BY <1>0
  <2>3. \A i : FreeIn(changed, i) => FreeIn(st, i) \/ changed.routes[i] = <<>>
    BY <1>7, <1>9 DEF FreeIn
  <2>4. ASSUME NEW i \in DOMAIN st.routes
        PROVE  List(r[i]) /\ Distinct(r[i]) /\ ToSet(r[i]) = ToSet(st.routes[i]) \ drop[i]
    <3>1. CASE i = index
      <4>1. drop[i] = matching /\ r[i] = left /\ st.routes[i] = old
        BY <1>0, <2>2, <3>1 DEF old
      <4> HIDE DEF r, drop
      <4>. QED  BY <1>3, <4>1
    <3>2. CASE i # index
      <4>1. drop[i] = {} /\ r[i] = st.routes[i]
        BY <2>2, <3>2
      <4> HIDE DEF r, drop
      <4>. QED  BY <1>1, <4>1
    <3>. QED  BY <3>1, <3>2
  <2> HIDE DEF r, drop
  <2>. QED  BY <2>1, <2>2, <2>3, <2>4 DEF Dropped
<1>12. Released(st, drop, R, g)
  <2>1. drop[index] = matching /\ \A i \in DOMAIN st.routes : i # index => drop[i] = {}
    BY <1>0
  <2>2. \A k \in 1..Len(R) : g[k] = <<index, R[k]>>
    OBVIOUS
  <2>3. DOMAIN R = 1..Len(R) /\ \A x : x \in ToSet(R) <=> \E k \in DOMAIN R : x = R[k]
    BY <1>2, ListFacts DEF ToSet
  <2> HIDE DEF drop, g
  <2>4. ASSUME NEW k \in 1..Len(R)
        PROVE  R[k] \in ToSet(st.routes[index]) \cap drop[index] /\ g[k] = <<index, R[k]>>
    BY <1>2, <2>1, <2>2, <2>3 DEF old
  <2>5. \A j, k \in 1..Len(R) : g[j] = g[k] => j = k
    BY <1>2, <2>2, <2>3 DEF Distinct
  <2>6. ASSUME NEW i \in DOMAIN st.routes, NEW route \in ToSet(st.routes[i]) \cap drop[i]
        PROVE  \E k \in 1..Len(R) : g[k] = <<i, route>>
    <3>1. i = index /\ route \in ToSet(R)
      BY <1>2, <2>1, <2>6 DEF old
    <3>. QED  BY <2>2, <2>3, <3>1
  <2>. QED  BY <1>0, <1>2, <2>4, <2>5, <2>6 DEF Released
<1> HIDE DEF drop, g
<1>13. changed.nlris = Release(st, R).nlris /\ changed.nextHops = Release(st, R).nextHops
  BY <1>10 DEF released
<1>14. ValueInv(changed, {}) /\ KeptContent(st, changed, drop)
  BY <1>11, <1>12, <1>13, Dropping
<1>. QED  BY <1>14 DEF changed, removed, drop

(* The routes of a peer go.                                                *)
LEMMA Flushes ==
  ASSUME NEW st, ShardInv(st), ValueInv(st, {}), NEW peer,
         NEW indexes \in SUBSET (DOMAIN st.generations), \A i \in indexes : ~ FreeIn(st, i)
  PROVE  LET changed == Flushed(st, indexes, peer)
             drop == [i \in DOMAIN st.routes |-> IF i \in indexes THEN OfPeer(st, i, peer) ELSE {}]
         IN  ValueInv(changed, {}) /\ KeptContent(st, changed, drop)
<1> DEFINE theirs(i) == {j \in DOMAIN st.routes[i] : st.routes[i][j].peer = peer}
           pairs == UNION {{i} \X theirs(i) : i \in indexes}
           gone == SetToSeq(pairs)
           left == [i \in DOMAIN st.routes |->
                      IF i \in indexes THEN Left(st.routes[i], OfPeer(st, i, peer))
                                       ELSE st.routes[i]]
           emptied == {i \in indexes : left[i] = <<>>}
           R == [k \in DOMAIN gone |-> st.routes[gone[k][1]][gone[k][2]]]
           released == Release(st, R)
           changed == Flushed(st, indexes, peer)
           drop == [i \in DOMAIN st.routes |-> IF i \in indexes THEN OfPeer(st, i, peer) ELSE {}]
           g == [k \in 1..Len(R) |-> <<gone[k][1], R[k]>>]
           D == Used(st, {})
<1>0. DOMAIN st.routes = DOMAIN st.generations /\ indexes \subseteq DOMAIN st.routes
  BY ShardFacts
<1>1. \A i \in DOMAIN st.routes : List(st.routes[i]) /\ Distinct(st.routes[i])
  BY <1>0 DEF ShardInv, ValueInv, RoutesInv
<1>2. \A i \in indexes : \A x : x \in OfPeer(st, i, peer) <=> \E j \in theirs(i) : x = st.routes[i][j]
  <2>1. \A i : \A x : x \in OfPeer(st, i, peer) <=> \E j \in DOMAIN st.routes[i] : x = st.routes[i][j] /\ x.peer = peer
    BY DEF OfPeer, ToSet
  <2>. QED  BY <2>1
<1>3. \A u : u \in pairs <=> \E i \in indexes : \E j \in theirs(i) : u = <<i, j>>
  <2> HIDE DEF theirs
  <2>. QED  OBVIOUS
<1>4. \A i \in indexes : \A j \in theirs(i) : j \in DOMAIN st.routes[i]
  OBVIOUS
<1> HIDE DEF theirs, pairs
<1>5. IsFiniteSet(pairs)
  <2> DEFINE f == [u \in pairs |-> <<u[1], st.routes[u[1]][u[2]]>>]
  <2>1. \A u \in pairs : f[u] \in D
    <3>1. ASSUME NEW u \in pairs PROVE <<u[1], st.routes[u[1]][u[2]]>> \in D
      <4>1. PICK i \in indexes : \E j \in theirs(i) : u = <<i, j>>
        BY <1>3
      <4>2. PICK j \in theirs(i) : u = <<i, j>>
        BY <4>1
      <4>3. st.routes[i][j] \in ToSet(st.routes[i])
        BY <1>4 DEF ToSet
      <4>4. <<i, st.routes[i][j]>> \in D
        BY <1>0, <4>3, UsedFacts
      <4>. QED  BY <4>2, <4>4
    <3> HIDE DEF D
    <3>. QED  BY <3>1
  <2>2. \A u, w \in pairs : f[u] = f[w] => u = w
    <3> SUFFICES ASSUME NEW u \in pairs, NEW w \in pairs, f[u] = f[w] PROVE u = w
      OBVIOUS
    <3>1. PICK i \in indexes : \E j \in theirs(i) : u = <<i, j>>
      BY <1>3
    <3>2. PICK j \in theirs(i) : u = <<i, j>>
      BY <3>1
    <3>3. PICK k \in indexes : \E m \in theirs(k) : w = <<k, m>>
      BY <1>3
    <3>4. PICK m \in theirs(k) : w = <<k, m>>
      BY <3>3
    <3>5. f[u] = <<i, st.routes[i][j]>> /\ f[w] = <<k, st.routes[k][m]>>
      BY <3>2, <3>4
    <3>6. i = k /\ st.routes[i][j] = st.routes[i][m]
      BY <3>5
    <3>7. j = m
      BY <1>0, <1>1, <1>4, <3>6 DEF Distinct
    <3>. QED  BY <3>2, <3>4, <3>6, <3>7
  <2>3. IsFiniteSet(D)
    <3>1. PoolsCount(st.nlris, st.nextHops, D)
      BY DEF ValueInv
    <3> HIDE DEF D
    <3>. QED  BY <3>1, UsedRefs
  <2>4. f \in [pairs -> D]
    <3> HIDE DEF D
    <3>. QED  BY <2>1
  <2> HIDE DEF f, D
  <2>5. f \in Injection(pairs, D)
    BY <2>2, <2>4 DEF Injection, IsInjective
  <2>. QED  BY <2>3, <2>5, FS_Injection
<1>6. /\ gone \in Seq(pairs)
      /\ \A j, k \in DOMAIN gone : gone[j] = gone[k] => j = k
      /\ \A u \in pairs : \E k \in DOMAIN gone : gone[k] = u
  BY <1>5, SetToSeqFacts
<1> HIDE DEF gone
<1>7. /\ Len(gone) \in Nat /\ DOMAIN gone = 1..Len(gone) /\ \A k \in DOMAIN gone : gone[k] \in pairs
  BY <1>6
<1>8. /\ List(R) /\ Len(R) = Len(gone) /\ DOMAIN R = DOMAIN gone
      /\ \A k \in 1..Len(R) : R[k] = st.routes[gone[k][1]][gone[k][2]]
  <2>1. R = [k \in 1..Len(gone) |-> R[k]] /\ \A k \in 1..Len(gone) : R[k] = st.routes[gone[k][1]][gone[k][2]]
    BY <1>7
  <2> HIDE DEF R
  <2>. QED  BY <1>7, <2>1, Listed
<1>9. \A k \in 1..Len(R) : g[k] = <<gone[k][1], R[k]>>
  OBVIOUS
<1>d. \A i \in DOMAIN st.routes : drop[i] = IF i \in indexes THEN OfPeer(st, i, peer) ELSE {}
  OBVIOUS
<1> HIDE DEF R, g, drop
<1>10. Released(st, drop, R, g)
  <2>1. ASSUME NEW k \in 1..Len(R)
        PROVE  \E i \in indexes : \E j \in theirs(i) : gone[k] = <<i, j>> /\ R[k] = st.routes[i][j] /\ g[k] = <<i, R[k]>>
    <3>1. gone[k] \in pairs
      BY <1>7, <1>8
    <3>2. PICK i \in indexes : \E j \in theirs(i) : gone[k] = <<i, j>>
      BY <1>3, <3>1
    <3>3. PICK j \in theirs(i) : gone[k] = <<i, j>>
      BY <3>2
    <3>4. R[k] = st.routes[i][j] /\ g[k] = <<i, R[k]>>
      BY <1>8, <1>9, <3>3
    <3>. QED  BY <3>3, <3>4
  <2>2. ASSUME NEW k \in 1..Len(R)
        PROVE  \E i \in DOMAIN st.routes : R[k] \in ToSet(st.routes[i]) \cap drop[i] /\ g[k] = <<i, R[k]>>
    <3>1. PICK i \in indexes : \E j \in theirs(i) : R[k] = st.routes[i][j] /\ g[k] = <<i, R[k]>>
      BY <2>1
    <3>2. PICK j \in theirs(i) : R[k] = st.routes[i][j]
      BY <3>1
    <3>3. R[k] \in ToSet(st.routes[i]) /\ R[k] \in OfPeer(st, i, peer)
      BY <1>2, <1>4, <3>2 DEF ToSet
    <3>4. i \in DOMAIN st.routes /\ drop[i] = OfPeer(st, i, peer)
      BY <1>0, <1>d
    <3>. QED  BY <3>1, <3>3, <3>4
  <2>3. ASSUME NEW x \in 1..Len(R), NEW y \in 1..Len(R), g[x] = g[y] PROVE x = y
    <3>1. PICK i \in indexes : \E j \in theirs(i) : gone[x] = <<i, j>> /\ R[x] = st.routes[i][j] /\ g[x] = <<i, R[x]>>
      BY <2>1
    <3>2. PICK j \in theirs(i) : gone[x] = <<i, j>> /\ R[x] = st.routes[i][j]
      BY <3>1
    <3>3. PICK k \in indexes : \E m \in theirs(k) : gone[y] = <<k, m>> /\ R[y] = st.routes[k][m] /\ g[y] = <<k, R[y]>>
      BY <2>1
    <3>4. PICK m \in theirs(k) : gone[y] = <<k, m>> /\ R[y] = st.routes[k][m]
      BY <3>3
    <3>a. g[x] = <<i, R[x]>> /\ g[y] = <<k, R[y]>>
      BY <3>1, <3>3
    <3>5. i = k /\ st.routes[i][j] = st.routes[i][m]
      <4>0. <<i, R[x]>> = <<k, R[y]>>
        BY <2>3, <3>a
      <4>1. i = k /\ R[x] = R[y]
        BY <4>0
      <4>. QED  BY <3>2, <3>4, <4>1
    <3>6. j = m
      BY <1>0, <1>1, <1>4, <3>5 DEF Distinct
    <3>7. gone[x] = gone[y]
      BY <3>2, <3>4, <3>5, <3>6
    <3>. QED  BY <1>6, <1>7, <1>8, <3>7
  <2>4. ASSUME NEW i \in DOMAIN st.routes, NEW route \in ToSet(st.routes[i]) \cap drop[i]
        PROVE  \E k \in 1..Len(R) : g[k] = <<i, route>>
    <3>1. i \in indexes /\ route \in OfPeer(st, i, peer)
      BY <1>d, <2>4
    <3>2. PICK j \in theirs(i) : route = st.routes[i][j]
      BY <1>2, <3>1
    <3>3. <<i, j>> \in pairs
      BY <1>3, <3>1
    <3>4. PICK k \in DOMAIN gone : gone[k] = <<i, j>>
      BY <1>6, <3>3
    <3>. QED  BY <1>7, <1>8, <1>9, <3>2, <3>4
  <2>. QED  BY <1>8, <2>2, <2>3, <2>4 DEF Released
<1>11. /\ Shaped(released) /\ released.routes = st.routes
       /\ released.free = st.free /\ released.generations = st.generations
  BY ReleaseFacts DEF ShardInv
<1>12. /\ changed.routes = left
       /\ changed.nlris = released.nlris /\ changed.nextHops = released.nextHops
  <2> DEFINE f == released.free \o SetToSeq(emptied)
             v == [i \in DOMAIN released.generations |->
                     IF i \in emptied THEN released.generations[i] + 1 ELSE released.generations[i]]
             mid == [released EXCEPT !.routes = left]
             mid2 == [mid EXCEPT !.free = f]
  <2>1. changed = [released EXCEPT !.routes = left, !.free = @ \o SetToSeq(emptied),
                     !.generations = [i \in DOMAIN @ |-> IF i \in emptied THEN @[i] + 1 ELSE @[i]]]
    BY DEF Flushed, R, gone, pairs, theirs
  <2> HIDE DEF changed, released, emptied
  <2>2. changed = [released EXCEPT !.routes = left, !.free = f, !.generations = v]
    BY <2>1
  <2>3. changed = [mid2 EXCEPT !.generations = v]
    <3> HIDE DEF f, v, left
    <3>. QED  BY <2>2
  <2> HIDE DEF f, v, left, mid, mid2
  <2>4. Shaped(mid) /\ mid.routes = left /\ mid.nlris = released.nlris /\ mid.nextHops = released.nextHops
    BY <1>11, RoutesChange DEF mid
  <2>5. Shaped(mid2) /\ mid2.routes = left /\ mid2.nlris = released.nlris /\ mid2.nextHops = released.nextHops
    BY <2>4, FreeChange DEF mid2
  <2>. QED  BY <2>3, <2>5, GenerationsChange
<1>13. \A i : FreeIn(changed, i) => FreeIn(st, i) \/ changed.routes[i] = <<>>
  BY FlushedFacts
<1> HIDE DEF changed
<1>14. Dropped(st, changed, drop)
  <2>1. DOMAIN left = DOMAIN st.routes
        /\ \A i \in DOMAIN st.routes :
             left[i] = IF i \in indexes THEN Left(st.routes[i], OfPeer(st, i, peer)) ELSE st.routes[i]
    OBVIOUS
  <2> HIDE DEF left
  <2>2. ASSUME NEW i \in DOMAIN st.routes
        PROVE  List(left[i]) /\ Distinct(left[i]) /\ ToSet(left[i]) = ToSet(st.routes[i]) \ drop[i]
    <3>1. CASE i \in indexes
      <4>1. left[i] = Left(st.routes[i], OfPeer(st, i, peer)) /\ drop[i] = OfPeer(st, i, peer)
        BY <1>d, <2>1, <3>1
      <4>. QED  BY <1>1, <4>1, LeftRoutes
    <3>2. CASE i \notin indexes
      <4>1. left[i] = st.routes[i] /\ drop[i] = {}
        BY <1>d, <2>1, <3>2
      <4>. QED  BY <1>1, <4>1
    <3>. QED  BY <3>1, <3>2
  <2>. QED  BY <1>12, <1>13, <2>1, <2>2 DEF Dropped
<1> HIDE DEF left
<1>15. changed.nlris = Release(st, R).nlris /\ changed.nextHops = Release(st, R).nextHops
  BY <1>12 DEF released
<1>16. ValueInv(changed, {}) /\ KeptContent(st, changed, drop)
  BY <1>10, <1>14, <1>15, Dropping
<1>. QED  BY <1>16 DEF changed, drop

-----------------------------------------------------------------------------
(* The invariant                                                           *)

(* Routes that are being added to a shard: at most one, as its lock is     *)
(* held meanwhile.                                                         *)
AddedIn(a, s) == {a[p].route : p \in {q \in Peers : a[q].busy /\ ShardOf[a[q].prefix] = s}}

(* What a shard interns is what its routes and the one that is being added *)
(* use, each as many times.                                                *)
ValuesInv ==
  /\ \A s \in Shards : ValueInv(shard[s], AddedIn(adding, s))
  /\ \A peer \in Peers : adding[peer].busy =>
       RouteForm(adding[peer].route) /\ adding[peer].route.peer = peer

(* A route is in the RIB, as it is promised.                               *)
Promised(prefix, peer, nlri, nextHop) ==
  prefix \in DOMAIN tree /\ HasRoute(shard[ShardOf[prefix]], tree[prefix].index, peer, nlri, nextHop)

LEMMA AddedNone ==
  ASSUME NEW a, NEW s, \A w \in Peers : ~ (a[w].busy /\ ShardOf[a[w].prefix] = s)
  PROVE  AddedIn(a, s) = {}
BY DEF AddedIn

OnlyAdds(a, peer, s) == \A w \in Peers : a[w].busy /\ ShardOf[a[w].prefix] = s <=> w = peer

LEMMA AddedOne ==
  ASSUME NEW a, NEW s, NEW peer \in Peers, OnlyAdds(a, peer, s)
  PROVE  AddedIn(a, s) = {a[peer].route}
BY DEF AddedIn, OnlyAdds

(* Only a peer starts or stops to add a route, to a shard.                 *)
AddsTo(a, b, peer, s) ==
  /\ \A w \in Peers \ {peer} : b[w] = a[w]
  /\ a[peer].busy => ShardOf[a[peer].prefix] = s
  /\ b[peer].busy => ShardOf[b[peer].prefix] = s

LEMMA AddedOthers ==
  ASSUME NEW a, NEW b, NEW peer, NEW s, AddsTo(a, b, peer, s), NEW t, t # s
  PROVE  AddedIn(b, t) = AddedIn(a, t)
<1>1. \A w \in Peers : b[w].busy /\ ShardOf[b[w].prefix] = t <=> a[w].busy /\ ShardOf[a[w].prefix] = t
  BY DEF AddsTo
<1>2. \A w \in Peers : b[w].busy /\ ShardOf[b[w].prefix] = t => b[w] = a[w]
  BY DEF AddsTo
<1>. QED  BY <1>1, <1>2 DEF AddedIn

(* Nobody adds a route to a shard that is not locked, or that is flushed.  *)
LEMMA NothingAdded ==
  ASSUME AddingInv, NEW s, shardLock[s] \in {NoPeer, Flush}
  PROVE  AddedIn(adding, s) = {}
<1>1. ASSUME NEW w \in Peers, adding[w].busy, ShardOf[adding[w].prefix] = s PROVE FALSE
  BY <1>1, NobodyAdds
<1>. QED  BY <1>1, AddedNone

(* A prefix has a shard, and an index there.                               *)
LEMMA InShard ==
  ASSUME IndexInv, NEW p \in DOMAIN tree
  PROVE  /\ p \in PrefixSet /\ ShardOf[p] \in Shards /\ ShardInv(shard[ShardOf[p]])
         /\ tree[p].index \in DOMAIN shard[ShardOf[p]].generations
         /\ tree[p].index \in DOMAIN shard[ShardOf[p]].routes
         /\ ~ FreeIn(shard[ShardOf[p]], tree[p].index)
<1>1. p \in PrefixSet /\ ShardOf[p] \in Shards
  BY ShardOfType DEF IndexInv, TreeInv
<1>2. ShardInv(shard[ShardOf[p]])
  BY <1>1 DEF IndexInv, ShardsInv
<1>3. /\ tree[p].index \in DOMAIN shard[ShardOf[p]].generations
      /\ ~ FreeIn(shard[ShardOf[p]], tree[p].index)
  BY DEF IndexInv, TreeInv
<1>4. DOMAIN shard[ShardOf[p]].routes = DOMAIN shard[ShardOf[p]].generations
  BY <1>2, ShardFacts
<1>. QED  BY <1>1, <1>2, <1>3, <1>4

LEMMA AddTreeValues ==
  ASSUME IndexInv, ValuesInv, NEW peer \in Peers, NEW prefix \in PrefixSet,
         NEW nlri \in NLRIs, NEW nextHop \in NextHops,
         AddRouteTree(peer, prefix, nlri, nextHop)
  PROVE  /\ ValuesInv'
         /\ \A p, w, v, h : Promised(p, w, v, h)' <=> Promised(p, w, v, h)
<1> DEFINE s == ShardOf[prefix]
           st == shard[s]
           a == Put(st.nlris, nlri)
           b == Put(st.nextHops, nextHop)
           interned == WithPools(st, a, b)
           grown == WithNewPrefixIndex(interned)
           route == [peer |-> peer, nlri |-> Ref(a, nlri), nextHop |-> Ref(b, nextHop)]
           new == [busy |-> TRUE, prefix |-> prefix, route |-> route]
<1>s. s \in Shards
  BY ShardOfType
<1>i. ShardsInv /\ TreeInv /\ AddingInv
  BY DEF IndexInv
<1>1. /\ ~ adding[peer].busy /\ shardLock[s] = NoPeer
      /\ adding' = [adding EXCEPT ![peer] = new]
  BY DEF AddRouteTree
<1>2. IF prefix \in DOMAIN tree
      THEN shard' = [shard EXCEPT ![s] = interned] /\ tree' = tree
      ELSE /\ shard' = [shard EXCEPT ![s] = grown]
           /\ tree' = [p \in DOMAIN tree \cup {prefix} |->
                         IF p = prefix THEN NewPrefixIndex(s) ELSE tree[p]]
  BY DEF AddRouteTree, WithPools
<1>3. ShardInv(st) /\ ValueInv(st, {})
  <2>1. ValueInv(st, AddedIn(adding, s))
    BY <1>s DEF ValuesInv
  <2>2. AddedIn(adding, s) = {}
    BY <1>1, <1>i, NothingAdded
  <2>. QED  BY <1>s, <1>i, <2>1, <2>2 DEF ShardsInv
<1>r. RouteForm(route) /\ route.peer = peer
  BY DEF RouteForm
<1>n. new.busy /\ new.prefix = prefix /\ new.route = route
  OBVIOUS
<1> HIDE DEF st, s
<1>4. ValueInv(interned, {route}) /\ SameContent(st, interned, DOMAIN st.routes)
  BY <1>3, Interned
<1>5. ShardInv(interned) /\ SameIndexes(st, interned)
  <2>1. Shaped(interned) /\ SameIndexes(st, interned)
    BY <1>3, InternedFacts DEF ShardInv, SameIndexes
  <2> HIDE DEF interned
  <2>. QED  BY <1>3, <2>1 DEF ShardInv, SameIndexes
<1> HIDE DEF interned, a, b, route, new
<1>6. /\ ValueInv(grown, {route}) /\ SameContent(interned, grown, DOMAIN interned.routes)
      /\ grown.routes[NextIndex(interned)] = <<>>
  BY <1>4, <1>5, Grown
<1> HIDE DEF grown
<1>7. /\ \A t \in Shards \ {s} : shard'[t] = shard[t]
      /\ \A p \in DOMAIN tree : p \in DOMAIN tree' /\ tree'[p] = tree[p]
      /\ \A p \in DOMAIN tree' : p \in DOMAIN tree \/ p = prefix
  <2>1. CASE prefix \in DOMAIN tree
    BY <1>2, <1>i, <2>1 DEF ShardsInv
  <2>2. CASE prefix \notin DOMAIN tree
    BY <1>2, <1>i, <2>2 DEF ShardsInv
  <2>. QED  BY <2>1, <2>2
<1>8. /\ ValueInv(shard'[s], {route}) /\ SameContent(st, shard'[s], DOMAIN st.routes)
      /\ prefix \notin DOMAIN tree => shard'[s].routes[tree'[prefix].index] = <<>>
  <2>1. CASE prefix \in DOMAIN tree
    <3>1. shard'[s] = interned
      BY <1>2, <1>i, <1>s, <2>1 DEF ShardsInv
    <3>. QED  BY <1>4, <2>1, <3>1
  <2>2. CASE prefix \notin DOMAIN tree
    <3>1. shard'[s] = grown
      BY <1>2, <1>i, <1>s, <2>2 DEF ShardsInv
    <3>2. SameContent(st, grown, DOMAIN st.routes)
      BY <1>4, <1>5, <1>6 DEF SameContent, SameIndexes
    <3>3. tree'[prefix].index = NextIndex(interned)
      <4>1. tree'[prefix] = NewPrefixIndex(s)
        BY <1>2, <2>2
      <4>. QED  BY <1>5, <4>1 DEF NewPrefixIndex, NextIndex, SameIndexes, st
    <3>. QED  BY <1>6, <3>1, <3>2, <3>3
  <2>. QED  BY <2>1, <2>2
<1>9. adding'[peer] = new /\ \A w \in Peers \ {peer} : adding'[w] = adding[w]
  BY <1>1, <1>i DEF AddingInv
<1>10. ValuesInv'
  <2>1. ASSUME NEW t \in Shards PROVE ValueInv(shard'[t], AddedIn(adding', t))
    <3>1. CASE t = s
      <4>1. ASSUME NEW w \in Peers PROVE adding'[w].busy /\ ShardOf[adding'[w].prefix] = s <=> w = peer
        <5>1. CASE w = peer
          BY <1>9, <1>n, <5>1 DEF s
        <5>2. CASE w # peer
          <6>1. ~ (adding[w].busy /\ ShardOf[adding[w].prefix] = s)
            BY <1>1, <1>i, NobodyAdds
          <6>. QED  BY <1>9, <5>2, <6>1
        <5>. QED  BY <5>1, <5>2
      <4>2. AddedIn(adding', s) = {adding'[peer].route}
        BY <4>1, AddedOne DEF OnlyAdds
      <4>. QED  BY <1>8, <1>9, <1>n, <3>1, <4>2
    <3>2. CASE t # s
      <4>1. AddedIn(adding', t) = AddedIn(adding, t)
        <5>1. AddsTo(adding, adding', peer, s)
          BY <1>1, <1>9, <1>n DEF s, AddsTo
        <5>. QED  BY <3>2, <5>1, AddedOthers
      <4>2. shard'[t] = shard[t]
        BY <1>7, <3>2
      <4>. QED  BY <4>1, <4>2 DEF ValuesInv
    <3>. QED  BY <3>1, <3>2
  <2>2. \A w \in Peers : adding'[w].busy => RouteForm(adding'[w].route) /\ adding'[w].route.peer = w
    BY <1>9, <1>n, <1>r DEF ValuesInv
  <2>. QED  BY <2>1, <2>2 DEF ValuesInv
<1>11. ASSUME NEW p, NEW w, NEW v, NEW h PROVE Promised(p, w, v, h)' <=> Promised(p, w, v, h)
  <2>1. CASE p \in DOMAIN tree
    <3>1. ShardOf[p] \in Shards /\ tree[p].index \in DOMAIN shard[ShardOf[p]].routes
      BY <2>1, InShard
    <3>2. p \in DOMAIN tree' /\ tree'[p] = tree[p]
      BY <1>7, <2>1
    <3>3. HasRoute(shard'[ShardOf[p]], tree[p].index, w, v, h) <=> HasRoute(shard[ShardOf[p]], tree[p].index, w, v, h)
      <4>1. CASE ShardOf[p] = s
        BY <1>8, <3>1, <4>1 DEF SameContent, st
      <4>2. CASE ShardOf[p] # s
        BY <1>7, <3>1, <4>2
      <4>. QED  BY <4>1, <4>2
    <3>. QED  BY <2>1, <3>2, <3>3 DEF Promised
  <2>2. CASE p \notin DOMAIN tree
    <3>1. ASSUME p \in DOMAIN tree' PROVE ~ HasRoute(shard'[ShardOf[p]], tree'[p].index, w, v, h)
      <4>1. p = prefix /\ shard'[ShardOf[p]].routes[tree'[p].index] = <<>>
        BY <1>7, <1>8, <2>2, <3>1 DEF s
      <4>2. ToSet(<<>>) = {}
        BY DEF ToSet
      <4>. QED  BY <4>1, <4>2 DEF HasRoute
    <3>. QED  BY <2>2, <3>1 DEF Promised
  <2>. QED  BY <2>1, <2>2
<1>. QED  BY <1>10, <1>11

(* Only the routes of a prefix change in its shard: the others are as they *)
(* were.                                                                   *)
LEMMA OthersPromised ==
  ASSUME IndexInv, NEW prefix \in DOMAIN tree,
         \A t \in Shards \ {ShardOf[prefix]} : shard'[t] = shard[t],
         SameContent(shard[ShardOf[prefix]], shard'[ShardOf[prefix]],
                     DOMAIN shard[ShardOf[prefix]].routes \ {tree[prefix].index}),
         NEW p \in DOMAIN tree, p # prefix, p \in DOMAIN tree', tree'[p] = tree[p],
         NEW w, NEW v, NEW h
  PROVE  Promised(p, w, v, h)' <=> Promised(p, w, v, h)
<1> DEFINE index == tree[p].index
<1>1. /\ ShardOf[p] \in Shards /\ index \in DOMAIN shard[ShardOf[p]].routes
  BY InShard
<1>2. ShardOf[p] = ShardOf[prefix] => index # tree[prefix].index
  BY DEF IndexInv, TreeInv
<1>3. Promised(p, w, v, h)' <=> HasRoute(shard'[ShardOf[p]], index, w, v, h)
  BY DEF Promised
<1>4. Promised(p, w, v, h) <=> HasRoute(shard[ShardOf[p]], index, w, v, h)
  BY DEF Promised
<1> HIDE DEF index
<1>5. CASE ShardOf[p] = ShardOf[prefix]
  <2>1. index \in DOMAIN shard[ShardOf[prefix]].routes \ {tree[prefix].index}
    BY <1>1, <1>2, <1>5
  <2>. QED  BY <1>3, <1>4, <1>5, <2>1 DEF SameContent
<1>6. CASE ShardOf[p] # ShardOf[prefix]
  BY <1>1, <1>3, <1>4, <1>6
<1>. QED  BY <1>5, <1>6

LEMMA AddInsertValues ==
  ASSUME IndexInv, ValuesInv, NEW peer \in Peers, AddRouteInsert(peer)
  PROVE  LET prefix == adding[peer].prefix
             st == shard[ShardOf[prefix]]
             nlri == Get(st.nlris, adding[peer].route.nlri)
             nextHop == Get(st.nextHops, adding[peer].route.nextHop)
         IN  /\ ValuesInv'
             /\ prefix \in PrefixSet /\ nlri \in NLRIs /\ nextHop \in NextHops
             /\ \A p, w, v, h :
                  Promised(p, w, v, h)'
                    <=> \/ Promised(p, w, v, h) /\ ~ (p = prefix /\ w = peer /\ v = nlri)
                        \/ p = prefix /\ w = peer /\ v = nlri /\ h = nextHop
<1> DEFINE prefix == adding[peer].prefix
           new == adding[peer].route
           s == ShardOf[prefix]
           st == shard[s]
           index == tree[prefix].index
           routes == shard[s].routes[index]
           same == {i \in DOMAIN routes : routes[i].peer = peer /\ routes[i].nlri = new.nlri}
           nlri == Get(st.nlris, new.nlri)
           nextHop == Get(st.nextHops, new.nextHop)
<1>i. ShardsInv /\ TreeInv /\ AddingInv
  BY DEF IndexInv
<1>1. adding[peer].busy /\ adding' = [adding EXCEPT ![peer] = NotAdding] /\ tree' = tree
  BY DEF AddRouteInsert
<1>2. IF same = {}
      THEN shard' = [shard EXCEPT ![s].routes[index] = Append(@, new)]
      ELSE LET i == CHOOSE j \in same : TRUE
           IN  shard' = [shard EXCEPT ![s].routes[index][i] = new,
                                      ![s].nlris = Take(@, routes[i].nlri),
                                      ![s].nextHops = Take(@, routes[i].nextHop)]
  BY DEF AddRouteInsert
<1>3. prefix \in DOMAIN tree /\ shardLock[s] = peer
  BY <1>i, <1>1 DEF AddingInv
<1>4. /\ prefix \in PrefixSet /\ s \in Shards /\ ShardInv(st)
      /\ index \in DOMAIN st.generations /\ index \in DOMAIN st.routes /\ ~ FreeIn(st, index)
  BY <1>3, InShard
<1>5. RouteForm(new) /\ new.peer = peer
  BY <1>1 DEF ValuesInv
<1>6. ASSUME NEW w \in Peers PROVE adding[w].busy /\ ShardOf[adding[w].prefix] = s <=> w = peer
  <2>1. adding[w].busy => shardLock[ShardOf[adding[w].prefix]] = w
    BY <1>i DEF AddingInv
  <2>. QED  BY <1>1, <1>3, <2>1
<1>7. ValueInv(st, {new})
  <2>1. AddedIn(adding, s) = {adding[peer].route}
    <3>1. OnlyAdds(adding, peer, s)
      BY <1>6 DEF OnlyAdds
    <3> HIDE DEF s
    <3>. QED  BY <3>1, AddedOne
  <2>. QED  BY <1>4, <2>1 DEF ValuesInv
<1>8. nlri \in NLRIs /\ nextHop \in NextHops
  <2>1. PoolsCount(st.nlris, st.nextHops, Used(st, {new})) /\ <<0, new>> \in Used(st, {new})
    BY <1>7 DEF ValueInv, Used
  <2> DEFINE u == <<0, new>>
  <2>2. u \in Used(st, {new}) /\ u[2] = new
    BY <2>1
  <2> HIDE DEF u, st, new
  <2>3. Get(st.nlris, u[2].nlri) \in NLRIs /\ Get(st.nextHops, u[2].nextHop) \in NextHops
    BY <2>1, <2>2, UsedRefs
  <2>. QED  BY <2>2, <2>3
<1>9. \E changed : /\ shard' = [shard EXCEPT ![s] = changed] /\ ValueInv(changed, {})
                   /\ Replaced(st, changed, index, peer, nlri, nextHop)
                   /\ SameContent(st, changed, DOMAIN st.routes \ {index})
  <2>1. CASE same = {}
    <3> DEFINE r == [st.routes EXCEPT ![index] = Append(@, new)]
               changed == [st EXCEPT !.routes = r]
    <3>1. shard' = [shard EXCEPT ![s] = changed]
      <4>1. shard' = [shard EXCEPT ![s].routes[index] = Append(@, new)]
        BY <1>2, <2>1
      <4>. QED  BY <4>1
    <3>2. \A i \in DOMAIN st.routes[index] : ~ Matches(st.routes[index][i], new)
      BY <1>5, <2>1 DEF Matches
    <3> HIDE DEF same, st, s, index, new
    <3>3. /\ ValueInv(changed, {})
          /\ Replaced(st, changed, index, new.peer, Get(st.nlris, new.nlri), Get(st.nextHops, new.nextHop))
          /\ SameContent(st, changed, DOMAIN st.routes \ {index})
      BY <1>4, <1>5, <1>7, <3>2, InsertsNew
    <3> HIDE DEF changed
    <3>. QED  BY <1>5, <3>1, <3>3
  <2>2. CASE same # {}
    <3> DEFINE i == CHOOSE j \in same : TRUE
               left == [routes EXCEPT ![i] = new]
               r == [shard[s].routes EXCEPT ![index] = left]
               mid == [shard[s] EXCEPT !.routes = r]
               a == Take(mid.nlris, routes[i].nlri)
               b == Take(mid.nextHops, routes[i].nextHop)
               changed == WithPools(mid, a, b)
    <3>1. shard' = [shard EXCEPT ![s].routes[index][i] = new,
                                 ![s].nlris = Take(@, routes[i].nlri),
                                 ![s].nextHops = Take(@, routes[i].nextHop)]
      BY <1>2, <2>2
    <3>2. i \in same
      BY <2>2
    <3>3. i \in DOMAIN st.routes[index] /\ Matches(st.routes[index][i], new)
      BY <1>5, <3>2 DEF Matches
    <3> HIDE DEF i, same
    <3>4. shard' = [shard EXCEPT ![s] = changed]
      BY ZenonT(40), <1>4, <1>i, <3>1 DEF WithPools, ShardsInv
    <3>5. Shaped(shard[s])
      BY <1>4 DEF ShardInv
    <3> HIDE DEF left, r
    <3>6. /\ Shaped(mid) /\ mid.routes = r /\ mid.free = shard[s].free
          /\ mid.nlris = shard[s].nlris /\ mid.nextHops = shard[s].nextHops
      <4>1. Shaped(mid) /\ mid.routes = r /\ mid.free = shard[s].free
        BY <3>5, RoutesChange
      <4>2. mid.nlris = shard[s].nlris /\ mid.nextHops = shard[s].nextHops
        BY <3>5 DEF Shaped
      <4>. QED  BY <4>1, <4>2
    <3> HIDE DEF mid
    <3>7. a = Take(st.nlris, st.routes[index][i].nlri) /\ b = Take(st.nextHops, st.routes[index][i].nextHop)
      BY <3>6
    <3>8. r = [st.routes EXCEPT ![index] = [@ EXCEPT ![i] = new]]
      BY <1>4 DEF r, left
    <3> HIDE DEF a, b
    <3>9. Shaped(changed) /\ changed.routes = r /\ changed.free = st.free
      BY <3>6, InternedFacts
    <3>10. changed.nlris = a /\ changed.nextHops = b
      BY <3>6, PoolsChange
    <3> HIDE DEF changed, st, s, index, new
    <3>11. /\ ValueInv(changed, {})
           /\ Replaced(st, changed, index, new.peer, Get(st.nlris, new.nlri), Get(st.nextHops, new.nextHop))
           /\ SameContent(st, changed, DOMAIN st.routes \ {index})
      BY <1>4, <1>5, <1>7, <3>3, <3>7, <3>8, <3>9, <3>10, InsertsReplacing
    <3>. QED  BY <1>5, <3>4, <3>11
  <2>. QED  BY <2>1, <2>2
<1>10. PICK changed : /\ shard' = [shard EXCEPT ![s] = changed] /\ ValueInv(changed, {})
                      /\ Replaced(st, changed, index, peer, nlri, nextHop)
                      /\ SameContent(st, changed, DOMAIN st.routes \ {index})
  BY <1>9
<1> HIDE DEF nlri, nextHop, new, s, index
<1>11. shard'[s] = changed /\ \A t \in Shards \ {s} : shard'[t] = shard[t]
  BY <1>4, <1>10, <1>i DEF ShardsInv
<1>12. ~ adding'[peer].busy /\ \A w \in Peers \ {peer} : adding'[w] = adding[w]
  BY <1>1, <1>i DEF AddingInv, NotAdding
<1>13. ValuesInv'
  <2>1. ASSUME NEW t \in Shards PROVE ValueInv(shard'[t], AddedIn(adding', t))
    <3>1. CASE t = s
      <4>1. \A w \in Peers : ~ (adding'[w].busy /\ ShardOf[adding'[w].prefix] = s)
        BY <1>6, <1>12
      <4>2. AddedIn(adding', s) = {}
        BY <4>1, AddedNone
      <4>. QED  BY <1>10, <1>11, <3>1, <4>2
    <3>2. CASE t # s
      <4>1. AddsTo(adding, adding', peer, s)
        BY <1>12 DEF AddsTo, s
      <4>2. AddedIn(adding', t) = AddedIn(adding, t)
        BY <3>2, <4>1, AddedOthers
      <4>. QED  BY <1>11, <3>2, <4>2 DEF ValuesInv
    <3>. QED  BY <3>1, <3>2
  <2>2. \A w \in Peers : adding'[w].busy => RouteForm(adding'[w].route) /\ adding'[w].route.peer = w
    BY <1>12 DEF ValuesInv
  <2>. QED  BY <2>1, <2>2 DEF ValuesInv
<1>14. ASSUME NEW p, NEW w, NEW v, NEW h
       PROVE  Promised(p, w, v, h)'
                <=> \/ Promised(p, w, v, h) /\ ~ (p = prefix /\ w = peer /\ v = nlri)
                    \/ p = prefix /\ w = peer /\ v = nlri /\ h = nextHop
  <2>1. CASE p = prefix
    <3>1. Promised(p, w, v, h)' <=> HasRoute(changed, index, w, v, h)
      BY <1>1, <1>3, <1>11, <2>1 DEF Promised, s, index
    <3>2. Promised(p, w, v, h) <=> HasRoute(st, index, w, v, h)
      BY <1>3, <2>1 DEF Promised, s, index
    <3>. QED  BY <1>10, <2>1, <3>1, <3>2 DEF Replaced
  <2>2. CASE p # prefix /\ p \in DOMAIN tree
    <3>1. SameContent(shard[s], shard'[s], DOMAIN shard[s].routes \ {tree[prefix].index})
      BY <1>10, <1>11 DEF index
    <3>2. Promised(p, w, v, h)' <=> Promised(p, w, v, h)
      <4> HIDE DEF prefix, st
      <4>. QED  BY <1>1, <1>3, <1>11, <2>2, <3>1, OthersPromised DEF s
    <3>. QED  BY <2>2, <3>2
  <2>3. CASE p # prefix /\ p \notin DOMAIN tree
    BY <1>1, <2>3 DEF Promised
  <2>. QED  BY <2>1, <2>2, <2>3
<1>. QED  BY <1>4, <1>8, <1>13, <1>14 DEF prefix, st, s, new, nlri, nextHop

(* The locks of the shards are as they were, and so are the routes that    *)
(* are being added.                                                        *)
LEMMA ValuesKept ==
  ASSUME ValuesInv, adding' = adding, \A s \in Shards : ValueInv(shard'[s], AddedIn(adding, s))
  PROVE  ValuesInv'
BY DEF ValuesInv

LEMMA KeptAll ==
  ASSUME NEW st, NEW changed, NEW drop, KeptContent(st, changed, drop),
         NEW i \in DOMAIN st.routes, drop[i] = {}, NEW w, NEW v, NEW h
  PROVE  HasRoute(changed, i, w, v, h) <=> HasRoute(st, i, w, v, h)
<1>1. HasRoute(changed, i, w, v, h)
        <=> \E route \in ToSet(st.routes[i]) \ drop[i] :
              route.peer = w /\ Get(st.nlris, route.nlri) = v /\ Get(st.nextHops, route.nextHop) = h
  BY DEF KeptContent
<1>. QED  BY <1>1 DEF HasRoute

(* The value of a reference in use is the one that it is the reference of. *)
LEMMA UsedNlri ==
  ASSUME NEW st, NEW added, ValueInv(st, added), NEW i \in DOMAIN st.routes,
         NEW route \in ToSet(st.routes[i]), NEW nlri \in NLRIs, Ref(st.nlris, nlri) # 0
  PROVE  Get(st.nlris, route.nlri) = nlri <=> route.nlri = Ref(st.nlris, nlri)
<1> DEFINE D == Used(st, added)
           u == <<i, route>>
<1>1. PoolsCount(st.nlris, st.nextHops, D)
  BY DEF ValueInv
<1>2. u \in D /\ u[2] = route
  BY DEF Used
<1> HIDE DEF D, u
<1>3. u[2].nlri \in Live(st.nlris)
  BY <1>1, <1>2, UsedRefs
<1>4. Sound(st.nlris, NLRIs)
  BY <1>1 DEF PoolsCount
<1>5. Hash(nlri) \in Hashes
  BY Hashed DEF Hashable
<1>6. /\ st.nlris.values[Ref(st.nlris, nlri)].value = nlri
      /\ \A r \in Live(st.nlris) : st.nlris.values[r].value = nlri => Ref(st.nlris, nlri) = r
  BY <1>4, <1>5, RefIs
<1>. QED  BY <1>2, <1>3, <1>6 DEF Get

LEMMA RemoveValues ==
  ASSUME IndexInv, ValuesInv, NEW peer \in Peers, NEW prefix \in PrefixSet, NEW nlri \in NLRIs,
         RemoveRoute(peer, prefix, nlri)
  PROVE  /\ ValuesInv'
         /\ \A p, w, v, h :
              Promised(p, w, v, h)'
                <=> Promised(p, w, v, h) /\ ~ (p = prefix /\ w = peer /\ v = nlri)
<1> DEFINE s == ShardOf[prefix]
           st == shard[s]
           ref == Ref(st.nlris, nlri)
           index == tree[prefix].index
           matching == {route \in OfPeer(st, index, peer) : route.nlri = ref}
           removed == RemoveRoutes(st, index, matching)
           gone == IF removed.routes[index] = <<>> THEN {prefix} ELSE {}
           changed == FreeIfEmpty(removed, index)
           drop == [i \in DOMAIN st.routes |-> IF i = index THEN matching ELSE {}]
<1>i. ShardsInv /\ TreeInv /\ AddingInv
  BY DEF IndexInv
<1>1. /\ prefix \in DOMAIN tree /\ shardLock[s] = NoPeer /\ ref # 0
      /\ shard' = [shard EXCEPT ![s] = changed] /\ tree' = Without(gone) /\ adding' = adding
  BY DEF RemoveRoute
<1>2. /\ s \in Shards /\ ShardInv(st)
      /\ index \in DOMAIN st.generations /\ index \in DOMAIN st.routes /\ ~ FreeIn(st, index)
  BY <1>1, InShard
<1>3. ValueInv(st, {}) /\ AddedIn(adding, s) = {}
  <2>1. AddedIn(adding, s) = {}
    <3> HIDE DEF s
    <3>. QED  BY <1>1, <1>i, NothingAdded
  <2>2. ValueInv(st, AddedIn(adding, s))
    BY <1>2 DEF ValuesInv
  <2>. QED  BY <2>1, <2>2
<1>4. matching = {route \in ToSet(st.routes[index]) : route.peer = peer /\ route.nlri = ref}
  BY DEF OfPeer
<1> HIDE DEF matching, st, s, index
<1>5. ValueInv(changed, {}) /\ KeptContent(st, changed, drop)
  BY <1>2, <1>3, Removes
<1>6. removed.routes[index] = changed.routes[index]
  <2> HIDE DEF removed
  <2>1. ShardInv(removed) /\ removed.generations = st.generations /\ removed.free = st.free
    BY <1>2, RemovedFacts DEF removed
  <2>2. ~ FreeIn(removed, index) /\ index \in DOMAIN removed.generations
    BY <1>2, <2>1 DEF FreeIn
  <2>3. changed.routes = removed.routes
    BY <2>1, <2>2, FreeIfEmptyFacts
  <2>. QED  BY <2>3
<1>7. /\ drop[index] = matching
      /\ \A i \in DOMAIN st.routes \ {index} : drop[i] = {}
  BY <1>2
<1> HIDE DEF changed, removed, drop
<1>8. shard'[s] = changed /\ \A t \in Shards \ {s} : shard'[t] = shard[t]
  BY <1>1, <1>2, <1>i DEF ShardsInv
<1>9. ValuesInv'
  <2>1. ASSUME NEW t \in Shards PROVE ValueInv(shard'[t], AddedIn(adding, t))
    <3>1. CASE t = s
      BY <1>3, <1>5, <1>8, <3>1
    <3>2. CASE t # s
      BY <1>8, <3>2 DEF ValuesInv
    <3>. QED  BY <3>1, <3>2
  <2>. QED  BY <1>1, <2>1, ValuesKept
<1>10. ASSUME NEW w, NEW v, NEW h
       PROVE  HasRoute(changed, index, w, v, h) <=> HasRoute(st, index, w, v, h) /\ ~ (w = peer /\ v = nlri)
  <2>1. HasRoute(changed, index, w, v, h)
          <=> \E route \in ToSet(st.routes[index]) \ matching :
                route.peer = w /\ Get(st.nlris, route.nlri) = v /\ Get(st.nextHops, route.nextHop) = h
    BY <1>2, <1>5, <1>7 DEF KeptContent
  <2>2. \A route \in ToSet(st.routes[index]) :
          route \in matching <=> route.peer = peer /\ Get(st.nlris, route.nlri) = nlri
    <3>1. \A route \in ToSet(st.routes[index]) : Get(st.nlris, route.nlri) = nlri <=> route.nlri = ref
      BY <1>1, <1>2, <1>3, UsedNlri
    <3>. QED  BY <1>4, <3>1
  <2>. QED  BY <2>1, <2>2 DEF HasRoute
<1>11. SameContent(st, changed, DOMAIN st.routes \ {index})
  <2>1. ASSUME NEW i \in DOMAIN st.routes \ {index}, NEW w, NEW v, NEW h
        PROVE  HasRoute(changed, i, w, v, h) <=> HasRoute(st, i, w, v, h)
    BY <1>5, <1>7, KeptAll
  <2>. QED  BY <2>1 DEF SameContent
<1>12. ASSUME NEW p, NEW w, NEW v, NEW h
       PROVE  Promised(p, w, v, h)'
                <=> Promised(p, w, v, h) /\ ~ (p = prefix /\ w = peer /\ v = nlri)
  <2>1. CASE p = prefix
    <3>1. Promised(prefix, w, v, h) <=> HasRoute(st, index, w, v, h)
      BY <1>1 DEF Promised, st, s, index
    <3>2. CASE changed.routes[index] = <<>>
      <4>1. prefix \notin DOMAIN tree'
        BY <1>1, <1>6, <3>2 DEF Without
      <4>2. ToSet(<<>>) = {}
        BY DEF ToSet
      <4>3. ~ HasRoute(changed, index, w, v, h)
        BY <3>2, <4>2 DEF HasRoute
      <4>. QED  BY <1>10, <2>1, <3>1, <4>1, <4>3 DEF Promised
    <3>3. CASE changed.routes[index] # <<>>
      <4>1. prefix \in DOMAIN tree' /\ tree'[prefix].index = index
        BY <1>1, <1>6, <3>3 DEF Without, index
      <4>2. Promised(prefix, w, v, h)' <=> HasRoute(changed, index, w, v, h)
        BY <1>8, <4>1 DEF Promised, s
      <4>. QED  BY <1>10, <2>1, <3>1, <4>2
    <3>. QED  BY <3>2, <3>3
  <2>2. CASE p # prefix /\ p \in DOMAIN tree
    <3>1. SameContent(shard[s], shard'[s], DOMAIN shard[s].routes \ {tree[prefix].index})
      BY <1>8, <1>11 DEF index, st
    <3>2. p \in DOMAIN tree' /\ tree'[p] = tree[p]
      BY <1>1, <2>2 DEF Without
    <3>3. Promised(p, w, v, h)' <=> Promised(p, w, v, h)
      BY <1>1, <1>8, <2>2, <3>1, <3>2, OthersPromised DEF s
    <3>. QED  BY <2>2, <3>3
  <2>3. CASE p # prefix /\ p \notin DOMAIN tree
    BY <1>1, <2>3 DEF Promised, Without
  <2>. QED  BY <2>1, <2>2, <2>3
<1>. QED  BY <1>9, <1>12

LEMMA FlushValues ==
  ASSUME IndexInv, ValuesInv, NEW peer \in Peers, FlushPeer(peer)
  PROVE  /\ ValuesInv'
         /\ \A p, w, v, h : Promised(p, w, v, h)' <=> Promised(p, w, v, h) /\ w # peer
<1> DEFINE indexes(s) == {tree[p].index : p \in {q \in DOMAIN tree : ShardOf[q] = s}}
           flushed == [s \in Shards |-> Flushed(shard[s], indexes(s), peer)]
           gone == {p \in DOMAIN tree : flushed[ShardOf[p]].routes[tree[p].index] = <<>>}
           drop(s) == [i \in DOMAIN shard[s].routes |->
                         IF i \in indexes(s) THEN OfPeer(shard[s], i, peer) ELSE {}]
<1>i. ShardsInv /\ TreeInv /\ AddingInv
  BY DEF IndexInv
<1>1. /\ \A s \in Shards : shardLock[s] = Flush
      /\ shard' = flushed /\ tree' = Without(gone) /\ adding' = adding
  BY DEF FlushPeer
<1>2. ASSUME NEW s \in Shards
      PROVE  ValueInv(shard'[s], AddedIn(adding, s)) /\ KeptContent(shard[s], shard'[s], drop(s))
  <2> DEFINE st == shard[s]
             ix == indexes(s)
             changed == Flushed(st, ix, peer)
             dropped == [i \in DOMAIN st.routes |-> IF i \in ix THEN OfPeer(st, i, peer) ELSE {}]
  <2>1. ShardInv(st)
    BY <1>i DEF ShardsInv
  <2>2. AddedIn(adding, s) = {}
    BY <1>1, <1>i, NothingAdded
  <2>3. ValueInv(st, {})
    BY <2>2 DEF ValuesInv
  <2>4. ix \in SUBSET (DOMAIN st.generations) /\ \A i \in ix : ~ FreeIn(st, i)
    BY <1>i DEF TreeInv
  <2>5. shard'[s] = changed /\ drop(s) = dropped
    BY <1>1
  <2> HIDE DEF drop, indexes, flushed, gone, ix, st
  <2>6. ValueInv(changed, {}) /\ KeptContent(st, changed, dropped)
    BY <2>1, <2>3, <2>4, Flushes
  <2> HIDE DEF changed, dropped
  <2>. QED  BY <2>2, <2>5, <2>6 DEF st
<1>3. \A p \in DOMAIN tree : p \in DOMAIN tree' <=> shard'[ShardOf[p]].routes[tree[p].index] # <<>>
  <2> HIDE DEF flushed
  <2>. QED  BY <1>1 DEF Without
<1>4. DOMAIN tree' \subseteq DOMAIN tree /\ \A p \in DOMAIN tree' : tree'[p] = tree[p]
  <2> HIDE DEF gone
  <2>. QED  BY <1>1 DEF Without
<1>5. ASSUME NEW p \in DOMAIN tree
      PROVE  drop(ShardOf[p])[tree[p].index]
               = {route \in ToSet(shard[ShardOf[p]].routes[tree[p].index]) : route.peer = peer}
  <2> DEFINE s == ShardOf[p]
             i == tree[p].index
  <2>1. i \in DOMAIN shard[s].routes
    BY InShard
  <2>2. i \in indexes(s)
    OBVIOUS
  <2> HIDE DEF i, s, indexes
  <2>3. drop(s)[i] = OfPeer(shard[s], i, peer)
    BY <2>1, <2>2
  <2> HIDE DEF drop
  <2>4. drop(s)[i] = {route \in ToSet(shard[s].routes[i]) : route.peer = peer}
    BY <2>3 DEF OfPeer
  <2>. QED  BY <2>4 DEF s, i
<1> HIDE DEF flushed, gone, drop, indexes
<1>6. ValuesInv'
  BY <1>1, <1>2, ValuesKept
<1>7. ASSUME NEW p, NEW w, NEW v, NEW h
      PROVE  Promised(p, w, v, h)' <=> Promised(p, w, v, h) /\ w # peer
  <2>1. CASE p \in DOMAIN tree
    <3> DEFINE s == ShardOf[p]
               i == tree[p].index
               st == shard[s]
               changed == shard'[s]
               theirs == drop(s)[i]
    <3>1. s \in Shards /\ i \in DOMAIN st.routes
      BY <2>1, InShard
    <3>2. KeptContent(st, changed, drop(s))
      BY <1>2, <3>1
    <3>3. theirs = {route \in ToSet(st.routes[i]) : route.peer = peer}
      BY <1>5, <2>1
    <3>4. Promised(p, w, v, h) <=> HasRoute(st, i, w, v, h)
      BY <2>1 DEF Promised
    <3>5. Promised(p, w, v, h)' <=> changed.routes[i] # <<>> /\ HasRoute(changed, i, w, v, h)
      BY <1>3, <1>4, <2>1 DEF Promised
    <3> HIDE DEF s, i, st, changed
    <3>6. HasRoute(changed, i, w, v, h)
            <=> \E route \in ToSet(st.routes[i]) \ theirs :
                  route.peer = w /\ Get(st.nlris, route.nlri) = v /\ Get(st.nextHops, route.nextHop) = h
      BY <3>1, <3>2 DEF KeptContent
    <3> HIDE DEF theirs
    <3>7. HasRoute(changed, i, w, v, h) <=> HasRoute(st, i, w, v, h) /\ w # peer
      BY <3>3, <3>6 DEF HasRoute
    <3>8. changed.routes[i] = <<>> => ~ HasRoute(changed, i, w, v, h)
      <4>1. ToSet(<<>>) = {}
        BY DEF ToSet
      <4>. QED  BY <4>1 DEF HasRoute
    <3>. QED  BY <3>4, <3>5, <3>7, <3>8
  <2>2. CASE p \notin DOMAIN tree
    BY <1>4, <2>2 DEF Promised
  <2>. QED  BY <2>1, <2>2
<1>. QED  BY <1>6, <1>7

(* Nothing changes but the locks, or the lookups.                          *)
LEMMA NothingStored ==
  ASSUME ValuesInv, shard' = shard, tree' = tree, adding' = adding
  PROVE  /\ ValuesInv'
         /\ \A p, w, v, h : Promised(p, w, v, h)' <=> Promised(p, w, v, h)
BY DEF ValuesInv, Promised

LEMMA ValuesInit == Init => ValuesInv
<1> SUFFICES ASSUME Init PROVE ValuesInv
  OBVIOUS
<1>1. /\ shard = [s \in Shards |-> EmptyShard] /\ adding = [w \in Peers |-> NotAdding]
  BY DEF Init
<1>2. \A w \in Peers : ~ adding[w].busy
  BY <1>1 DEF NotAdding
<1>3. EmptyShard.routes = <<>> /\ EmptyShard.nlris = NewPool /\ EmptyShard.nextHops = NewPool
  BY DEF EmptyShard
<1>4. Used(EmptyShard, {}) = {}
  BY <1>3 DEF Used
<1>5. DOMAIN NlrisOf({}) = {} /\ DOMAIN NextHopsOf({}) = {}
  BY DEF NlrisOf, NextHopsOf
<1>6. PoolsCount(NewPool, NewPool, {})
  <2>1. Sound(NewPool, NLRIs) /\ Counts(NewPool, NlrisOf({}))
    BY <1>5, NewPoolSound
  <2>2. Sound(NewPool, NextHops) /\ Counts(NewPool, NextHopsOf({}))
    BY <1>5, NewPoolSound
  <2>. QED  BY <2>1, <2>2 DEF PoolsCount
<1>7. RoutesInv(EmptyShard)
  BY <1>3 DEF RoutesInv
<1>8. ASSUME NEW s \in Shards PROVE ValueInv(shard[s], AddedIn(adding, s))
  <2>1. AddedIn(adding, s) = {}
    BY <1>2, AddedNone
  <2>. QED  BY <1>1, <1>3, <1>4, <1>6, <1>7, <2>1 DEF ValueInv
<1>. QED  BY <1>2, <1>8 DEF ValuesInv

-----------------------------------------------------------------------------
(* The RIB                                                                 *)

LocksInv ==
  /\ shardLock \in [Shards -> Peers \cup {NoPeer, Flush}]
  /\ flushing \in Peers \cup {NoPeer}
  /\ \A r \in Readers : lookup[r].step \in {"idle", "found"}

LEMMA LocksInit == Init => LocksInv
<1> SUFFICES ASSUME Init PROVE LocksInv
  OBVIOUS
<1>1. \A r \in Readers : lookup[r].step = "idle"
  BY DEF Init, ReaderIdle
<1>. QED  BY <1>1 DEF Init, LocksInv

LEMMA LocksNext ==
  ASSUME IndexInv, LocksInv, [Next]_vars
  PROVE  LocksInv'
<1>1. ASSUME NEW r \in Readers, NEW new, lookup' = [lookup EXCEPT ![r] = new]
      PROVE  \A q \in Readers : lookup'[q] = IF q = r THEN new ELSE lookup[q]
  BY <1>1 DEF IndexInv, LookupInv
<1>2. ASSUME NEW peer \in Peers, NEW prefix \in PrefixSet, NEW nlri \in NLRIs,
             NEW nextHop \in NextHops, AddRouteTree(peer, prefix, nlri, nextHop)
      PROVE  LocksInv'
  <2>1. /\ shardLock' = [shardLock EXCEPT ![ShardOf[prefix]] = peer]
        /\ flushing' = flushing /\ lookup' = lookup
    BY <1>2 DEF AddRouteTree
  <2>. QED  BY <2>1 DEF LocksInv
<1>3. ASSUME NEW peer \in Peers, NEW prefix \in PrefixSet, NEW nlri \in NLRIs,
             RemoveRoute(peer, prefix, nlri)
      PROVE  LocksInv'
  BY <1>3 DEF RemoveRoute, LocksInv
<1>4. ASSUME NEW peer \in Peers, AddRouteInsert(peer) PROVE LocksInv'
  <2>1. /\ shardLock' = [shardLock EXCEPT ![ShardOf[adding[peer].prefix]] = NoPeer]
        /\ flushing' = flushing /\ lookup' = lookup
    BY <1>4 DEF AddRouteInsert
  <2>. QED  BY <2>1 DEF LocksInv
<1>5. ASSUME NEW peer \in Peers, NEW s \in Shards, FlushPeerLock(peer, s) PROVE LocksInv'
  BY <1>5 DEF FlushPeerLock, LocksInv
<1>6. ASSUME NEW peer \in Peers, FlushPeer(peer) PROVE LocksInv'
  <2>1. /\ shardLock' = [s \in Shards |-> NoPeer] /\ flushing' = NoPeer /\ lookup' = lookup
    BY <1>6 DEF FlushPeer
  <2>. QED  BY <2>1 DEF LocksInv
<1>7. ASSUME NEW r \in Readers, NEW ip \in Addresses, NEW preferred \in NextHops,
             LookupTree(r, ip, preferred)
      PROVE  LocksInv'
  <2>1. PICK prefix, ref : lookup' = [lookup EXCEPT ![r] =
            [step |-> "found", prefix |-> prefix, ref |-> ref, preferred |-> preferred]]
    BY <1>7 DEF LookupTree
  <2>2. shardLock' = shardLock /\ flushing' = flushing
    BY <1>7 DEF LookupTree
  <2> DEFINE new == [step |-> "found", prefix |-> prefix, ref |-> ref, preferred |-> preferred]
  <2>3. new.step = "found" /\ lookup' = [lookup EXCEPT ![r] = new]
    BY <2>1
  <2> HIDE DEF new
  <2>4. \A q \in Readers : lookup'[q] = IF q = r THEN new ELSE lookup[q]
    BY <1>1, <2>3
  <2>. QED  BY <2>2, <2>3, <2>4 DEF LocksInv
<1>8. ASSUME NEW r \in Readers, LookupRead(r) PROVE LocksInv'
  <2>1. /\ lookup' = [lookup EXCEPT ![r] = ReaderIdle]
        /\ shardLock' = shardLock /\ flushing' = flushing
    BY <1>8 DEF LookupRead
  <2>2. ReaderIdle.step = "idle"
    BY DEF ReaderIdle
  <2>3. \A q \in Readers : lookup'[q] = IF q = r THEN ReaderIdle ELSE lookup[q]
    BY <1>1, <2>1
  <2>. QED  BY <2>1, <2>2, <2>3 DEF LocksInv
<1>9. CASE UNCHANGED vars
  BY <1>9 DEF vars, LocksInv
<1>. QED  BY <1>2, <1>3, <1>4, <1>5, <1>6, <1>7, <1>8, <1>9 DEF Next

LEMMA ValuesNext ==
  ASSUME IndexInv, ValuesInv, [Next]_vars
  PROVE  ValuesInv'
<1>1. ASSUME NEW peer \in Peers, NEW prefix \in PrefixSet, NEW nlri \in NLRIs,
             NEW nextHop \in NextHops, AddRouteTree(peer, prefix, nlri, nextHop)
      PROVE  ValuesInv'
  BY <1>1, AddTreeValues
<1>2. ASSUME NEW peer \in Peers, NEW prefix \in PrefixSet, NEW nlri \in NLRIs,
             RemoveRoute(peer, prefix, nlri)
      PROVE  ValuesInv'
  BY <1>2, RemoveValues
<1>3. ASSUME NEW peer \in Peers, AddRouteInsert(peer) PROVE ValuesInv'
  BY <1>3, AddInsertValues
<1>4. ASSUME NEW peer \in Peers, FlushPeer(peer) PROVE ValuesInv'
  BY <1>4, FlushValues
<1>5. ASSUME NEW peer \in Peers, NEW s \in Shards, FlushPeerLock(peer, s) PROVE ValuesInv'
  BY <1>5, NothingStored DEF FlushPeerLock
<1>6. ASSUME NEW r \in Readers, NEW ip \in Addresses, NEW preferred \in NextHops,
             LookupTree(r, ip, preferred)
      PROVE  ValuesInv'
  <2>1. shard' = shard /\ tree' = tree /\ adding' = adding
    BY <1>6 DEF LookupTree
  <2>. QED  BY <2>1, NothingStored
<1>7. ASSUME NEW r \in Readers, LookupRead(r) PROVE ValuesInv'
  BY <1>7, NothingStored DEF LookupRead
<1>8. CASE UNCHANGED vars
  BY <1>8, NothingStored DEF vars
<1>. QED  BY <1>1, <1>2, <1>3, <1>4, <1>5, <1>6, <1>7, <1>8 DEF Next

RibInv == IndexInv /\ ValuesInv /\ LocksInv

LEMMA RibInvariant == Spec => []RibInv
<1>1. Init => ValuesInv /\ LocksInv
  BY ValuesInit, LocksInit
<1>2. IndexInv /\ ValuesInv /\ LocksInv /\ [Next]_vars => ValuesInv' /\ LocksInv'
  BY ValuesNext, LocksNext
<1>. QED  BY <1>1, <1>2, IndexesInv, PTL DEF Spec, RibInv

-----------------------------------------------------------------------------
(* What the routes use, by their places.                                   *)
LEMMA UsesByPlace ==
  ASSUME NEW st, ShardInv(st), ValueInv(st, {})
  PROVE  LET routes == st.routes
             places == UNION {{i} \X DOMAIN routes[i] : i \in DOMAIN routes}
         IN  /\ Exact(st.nlris, [use \in places |-> routes[use[1]][use[2]].nlri])
             /\ Exact(st.nextHops, [use \in places |-> routes[use[1]][use[2]].nextHop])
<1> DEFINE routes == st.routes
           places == UNION {{i} \X DOMAIN routes[i] : i \in DOMAIN routes}
           V == [use \in places |-> routes[use[1]][use[2]].nlri]
           W == [use \in places |-> routes[use[1]][use[2]].nextHop]
           h == [use \in places |-> <<use[1], routes[use[1]][use[2]]>>]
           D == Used(st, {})
<1>1. \A u : u \in D <=> \E i \in DOMAIN routes : \E r \in ToSet(routes[i]) : u = <<i, r>>
  BY UsedFacts
<1>2. \A u \in places : u[1] \in DOMAIN routes /\ u[2] \in DOMAIN routes[u[1]] /\ u = <<u[1], u[2]>>
  OBVIOUS
<1>3. \A i \in DOMAIN routes : \A j \in DOMAIN routes[i] : <<i, j>> \in places
  OBVIOUS
<1>4. PoolsCount(st.nlris, st.nextHops, D)
  BY DEF ValueInv
<1>5. /\ DOMAIN NlrisOf(D) = D /\ DOMAIN NextHopsOf(D) = D
      /\ \A u \in D : NlrisOf(D)[u] = u[2].nlri /\ NextHopsOf(D)[u] = u[2].nextHop
  BY DEF NlrisOf, NextHopsOf
<1>6. /\ DOMAIN V = places /\ DOMAIN W = places
      /\ \A u \in places : /\ V[u] = routes[u[1]][u[2]].nlri /\ W[u] = routes[u[1]][u[2]].nextHop
                           /\ h[u] = <<u[1], routes[u[1]][u[2]]>>
  OBVIOUS
<1>7. \A i \in DOMAIN routes : Distinct(routes[i])
  BY DEF ValueInv, RoutesInv
<1> HIDE DEF D, V, W, h, places
<1>8. ASSUME NEW u \in places
      PROVE  /\ h[u] \in D /\ V[u] = NlrisOf(D)[h[u]] /\ W[u] = NextHopsOf(D)[h[u]]
  <2>1. routes[u[1]][u[2]] \in ToSet(routes[u[1]])
    BY <1>2 DEF ToSet
  <2>2. h[u] \in D
    BY <1>1, <1>2, <1>6, <2>1
  <2>3. h[u][2] = routes[u[1]][u[2]]
    BY <1>6
  <2>. QED  BY <1>5, <1>6, <2>2, <2>3
<1>9. ASSUME NEW u \in places, NEW v \in places, h[u] = h[v] PROVE u = v
  <2>1. u[1] = v[1] /\ routes[u[1]][u[2]] = routes[v[1]][v[2]]
    BY <1>6, <1>9
  <2>2. u[2] = v[2]
    BY <1>2, <1>7, <2>1 DEF Distinct
  <2>. QED  BY <1>2, <2>1, <2>2
<1>10. ASSUME NEW e \in D PROVE \E u \in places : h[u] = e
  <2>1. PICK i \in DOMAIN routes : \E r \in ToSet(routes[i]) : e = <<i, r>>
    BY <1>1
  <2>2. PICK r \in ToSet(routes[i]) : e = <<i, r>>
    BY <2>1
  <2>3. PICK j \in DOMAIN routes[i] : r = routes[i][j]
    BY DEF ToSet
  <2>4. <<i, j>> \in places /\ h[<<i, j>>] = e
    BY <1>3, <1>6, <2>2, <2>3
  <2>. QED  BY <2>4
<1>11. Counts(st.nlris, V)
  <2>1. Counts(st.nlris, NlrisOf(D))
    BY <1>4 DEF PoolsCount
  <2>2. \A u \in DOMAIN V : h[u] \in DOMAIN NlrisOf(D) /\ V[u] = NlrisOf(D)[h[u]]
    BY <1>5, <1>6, <1>8
  <2>3. \A u, v \in DOMAIN V : h[u] = h[v] => u = v
    BY <1>6, <1>9
  <2>4. \A e \in DOMAIN NlrisOf(D) : \E u \in DOMAIN V : h[u] = e
    BY <1>5, <1>6, <1>10
  <2>. QED  BY <2>1, <2>2, <2>3, <2>4, Renamed
<1>12. Counts(st.nextHops, W)
  <2>1. Counts(st.nextHops, NextHopsOf(D))
    BY <1>4 DEF PoolsCount
  <2>2. \A u \in DOMAIN W : h[u] \in DOMAIN NextHopsOf(D) /\ W[u] = NextHopsOf(D)[h[u]]
    BY <1>5, <1>6, <1>8
  <2>3. \A u, v \in DOMAIN W : h[u] = h[v] => u = v
    BY <1>6, <1>9
  <2>4. \A e \in DOMAIN NextHopsOf(D) : \E u \in DOMAIN W : h[u] = e
    BY <1>5, <1>6, <1>10
  <2>. QED  BY <2>1, <2>2, <2>3, <2>4, Renamed
<1>13. Exact(st.nlris, V)
  BY <1>4, <1>11, Hashed, CountsExact DEF PoolsCount
<1>14. Exact(st.nextHops, W)
  BY <1>4, <1>12, Hashed, CountsExact DEF PoolsCount
<1>. QED  BY <1>13, <1>14 DEF V, W, places

(* The type of a pool.                                                     *)
LEMMA SoundType ==
  ASSUME NEW p, NEW Values, Sound(p, Values)
  PROVE  PoolType(p, Values) /\ DOMAIN p.values = Refs(p)
<1>1. PoolForm(p, Values) /\ Ranked(p)
  BY DEF Sound
<1>2. /\ Len(p.values) \in Nat /\ DOMAIN p.values = Refs(p) /\ Refs(p) = 1..Len(p.values)
      /\ \A r \in Refs(p) :
           /\ p.values[r] = [value |-> p.values[r].value, refCount |-> p.values[r].refCount,
                             next |-> p.values[r].next]
           /\ p.values[r].value \in Values /\ p.values[r].refCount \in Nat
           /\ p.values[r].next \in Nat
  BY <1>1, FormFacts
<1>3. \A r \in Refs(p) : p.values[r].next \in 0..Len(p.values)
  <2>1. PICK bound \in Nat : \E rank \in [Refs(p) -> 0..bound] :
          \A r \in Refs(p) : p.values[r].next # 0 =>
            p.values[r].next \in Refs(p) /\ rank[r] < rank[p.values[r].next]
    BY <1>1 DEF Ranked
  <2>2. \A r \in Refs(p) : p.values[r].next # 0 => p.values[r].next \in Refs(p)
    BY <2>1
  <2>3. ASSUME NEW r \in Refs(p) PROVE p.values[r].next \in 0..Len(p.values)
    <3>1. p.values[r].next = 0 \/ p.values[r].next \in 1..Len(p.values)
      BY <1>2, <2>2
    <3>. QED  BY <1>2, <3>1
  <2>. QED  BY <2>3
<1> DEFINE T == [value : Values, refCount : Nat, next : 0..Len(p.values)]
<1>4. ASSUME NEW r \in Refs(p) PROVE p.values[r] \in T
  <2> DEFINE value == p.values[r].value
             refCount == p.values[r].refCount
             next == p.values[r].next
  <2>1. p.values[r] = [value |-> value, refCount |-> refCount, next |-> next]
    BY <1>2
  <2>2. value \in Values /\ refCount \in Nat /\ next \in 0..Len(p.values)
    BY <1>2, <1>3
  <2> HIDE DEF value, refCount, next
  <2>. QED  BY <2>1, <2>2
<1>5. p.values \in Seq([value : Values, refCount : Nat, next : Nat])
  BY <1>1 DEF PoolForm
<1>6. p.values = [r \in 1..Len(p.values) |-> p.values[r]]
  BY <1>2, <1>5
<1> HIDE DEF T
<1>7. p.values \in [1..Len(p.values) -> T]
  BY <1>2, <1>4, <1>6
<1>8. p.values \in Seq(T)
  BY <1>2, <1>7, InSeq
<1>9. p.available \in Seq(DOMAIN p.values) /\ p.heads \in [Hashes -> 0..Len(p.values)]
  BY <1>1, <1>2 DEF PoolForm
<1>. QED  BY <1>2, <1>8, <1>9 DEF PoolType, T

LEMMA ListOf ==
  ASSUME NEW q, List(q), NEW S, \A i \in DOMAIN q : q[i] \in S
  PROVE  q \in Seq(S)
<1>1. Len(q) \in Nat /\ DOMAIN q = 1..Len(q) /\ q = [i \in 1..Len(q) |-> q[i]]
  BY ListFacts
<1>2. q \in [1..Len(q) -> S]
  BY <1>1
<1>. QED  BY <1>1, <1>2, InSeq

LEMMA RoutesType ==
  ASSUME NEW st, ShardInv(st), NEW added, ValueInv(st, added)
  PROVE  st.routes \in Seq(Seq([peer : Peers, nlri : DOMAIN st.nlris.values,
                                nextHop : DOMAIN st.nextHops.values]))
<1> DEFINE T == [peer : Peers, nlri : DOMAIN st.nlris.values, nextHop : DOMAIN st.nextHops.values]
           D == Used(st, added)
<1>1. PoolsCount(st.nlris, st.nextHops, D) /\ RoutesInv(st)
  BY DEF ValueInv
<1>2. DOMAIN st.nlris.values = Refs(st.nlris) /\ DOMAIN st.nextHops.values = Refs(st.nextHops)
  BY <1>1, SoundType DEF PoolsCount
<1>3. ASSUME NEW i \in DOMAIN st.routes, NEW j \in DOMAIN st.routes[i] PROVE st.routes[i][j] \in T
  <2> DEFINE route == st.routes[i][j]
             u == <<i, route>>
  <2>1. route \in ToSet(st.routes[i])
    BY DEF ToSet
  <2>2. u \in D /\ u[2] = route
    BY <2>1 DEF Used
  <2>3. RouteForm(route)
    BY <1>1, <2>1 DEF RoutesInv
  <2> HIDE DEF u, D, route
  <2>4. u[2].nlri \in Refs(st.nlris) /\ u[2].nextHop \in Refs(st.nextHops)
    BY <1>1, <2>2, UsedRefs
  <2>5. route.nlri \in DOMAIN st.nlris.values /\ route.nextHop \in DOMAIN st.nextHops.values
    BY <1>2, <2>2, <2>4
  <2>6. route = [peer |-> route.peer, nlri |-> route.nlri, nextHop |-> route.nextHop] /\ route.peer \in Peers
    BY <2>3 DEF RouteForm
  <2>7. route \in T
    BY <2>5, <2>6
  <2>. QED  BY <2>7 DEF route
<1> HIDE DEF T
<1>4. ASSUME NEW i \in DOMAIN st.routes PROVE st.routes[i] \in Seq(T)
  <2>1. List(st.routes[i])
    BY DEF ShardInv
  <2>. QED  BY <1>3, <2>1, ListOf
<1>5. List(st.routes)
  BY DEF ShardInv
<1> DEFINE Q == Seq(T)
<1>6. \A i \in DOMAIN st.routes : st.routes[i] \in Q
  BY <1>4
<1> HIDE DEF Q
<1>7. st.routes \in Seq(Q)
  BY <1>5, <1>6, ListOf
<1>. QED  BY <1>7 DEF Q, T

LEMMA RibType == ASSUME RibInv PROVE TypeOK
<1>i. ShardsInv /\ TreeInv /\ AddingInv /\ LookupInv /\ LocksInv /\ ValuesInv /\ IndexInv
  BY DEF RibInv, IndexInv
<1>1. ASSUME NEW p \in DOMAIN tree
      PROVE  /\ p \in PrefixSet
             /\ tree[p].index \in DOMAIN shard[ShardOf[p]].generations
             /\ tree[p].generation \in Nat
  <2>1. /\ p \in PrefixSet /\ ShardInv(shard[ShardOf[p]])
        /\ tree[p].index \in DOMAIN shard[ShardOf[p]].generations
    BY <1>i, InShard
  <2>2. tree[p].generation = shard[ShardOf[p]].generations[tree[p].index]
    BY <1>i DEF TreeInv
  <2>. QED  BY <2>1, <2>2, ShardFacts
<1>2. ASSUME NEW s \in Shards
      PROVE  /\ PoolType(shard[s].nlris, NLRIs) /\ PoolType(shard[s].nextHops, NextHops)
             /\ shard[s].generations \in Seq(Nat)
             /\ shard[s].routes \in Seq(Seq(RouteType(s)))
             /\ Len(shard[s].routes) = Len(shard[s].generations)
             /\ shard[s].free \in Seq(DOMAIN shard[s].generations)
  <2>1. ShardInv(shard[s]) /\ ValueInv(shard[s], AddedIn(adding, s))
    BY <1>i DEF ShardsInv, ValuesInv
  <2>2. Sound(shard[s].nlris, NLRIs) /\ Sound(shard[s].nextHops, NextHops)
    BY <2>1 DEF ValueInv, PoolsCount
  <2>3. PoolType(shard[s].nlris, NLRIs)
    BY <2>2, SoundType
  <2>4. PoolType(shard[s].nextHops, NextHops)
    BY <2>2, SoundType
  <2>5. shard[s].routes \in Seq(Seq(RouteType(s)))
    BY <2>1, RoutesType DEF RouteType
  <2>. QED  BY <2>1, <2>3, <2>4, <2>5 DEF ShardInv
<1>3. \A peer \in Peers : adding[peer].busy => adding[peer].prefix \in DOMAIN tree
  BY <1>i DEF AddingInv
<1>. QED  BY <1>i, <1>1, <1>2, <1>3 DEF TypeOK, LocksInv

(* Whatever is added, replaced, removed or flushed, and in whatever order  *)
(* connections and lookups do it, the shards, the tree, the free indexes   *)
(* and the interned values agree: a prefix has one route per peer and      *)
(* NLRI, an interned value is counted as many times as it is used, and is  *)
(* released with its last use.                                             *)
THEOREM RibIsSound == Spec => []RibSound
<1>1. RibInv => TypeOK
  BY RibType
<1>2. RibInv => RoutesDistinct
  <2> SUFFICES ASSUME RibInv, NEW p \in DOMAIN tree
               PROVE  Distinct(shard[ShardOf[p]].routes[tree[p].index])
    BY DEF RoutesDistinct, Distinct
  <2>1. ShardOf[p] \in Shards /\ tree[p].index \in DOMAIN shard[ShardOf[p]].routes
    BY InShard DEF RibInv
  <2>. QED  BY <2>1 DEF RibInv, ValuesInv, ValueInv, RoutesInv
<1>3. RibInv => PoolsExact
  <2> SUFFICES ASSUME RibInv PROVE PoolsExact
    OBVIOUS
  <2>1. ASSUME NEW s \in Shards, shardLock[s] \in {NoPeer, Flush}
        PROVE  LET routes == shard[s].routes
                   places == UNION {{i} \X DOMAIN routes[i] : i \in DOMAIN routes}
               IN  /\ Exact(shard[s].nlris, [use \in places |-> routes[use[1]][use[2]].nlri])
                   /\ Exact(shard[s].nextHops, [use \in places |-> routes[use[1]][use[2]].nextHop])
    <3>1. AddedIn(adding, s) = {}
      BY <2>1, NothingAdded DEF RibInv, IndexInv
    <3>2. ShardInv(shard[s]) /\ ValueInv(shard[s], {})
      BY <3>1 DEF RibInv, IndexInv, ShardsInv, ValuesInv
    <3>. QED  BY <3>2, UsesByPlace
  <2>. QED  BY <2>1 DEF PoolsExact
<1>. QED  BY <1>1, <1>2, <1>3, RibInvariant, IndexesAreExact, PTL DEF RibSound

-----------------------------------------------------------------------------
(* What the RIB promises                                                   *)

IsRoute(x) == x = Store!Route(x.prefix, x.peer, x.nlri, x.nextHop)

PromisedOf(t, shards, prefix, peer, nlri, nextHop) ==
  prefix \in DOMAIN t /\ HasRoute(shards[ShardOf[prefix]], t[prefix].index, peer, nlri, nextHop)

RoutesIn(t, shards) ==
  UNION {{[prefix |-> p, peer |-> route.peer,
           nlri |-> Get(shards[ShardOf[p]].nlris, route.nlri),
           nextHop |-> Get(shards[ShardOf[p]].nextHops, route.nextHop)] :
            route \in ToSet(shards[ShardOf[p]].routes[t[p].index])} : p \in DOMAIN t}

LEMMA RoutesInAre ==
  ASSUME NEW t, NEW shards, NEW x
  PROVE  x \in RoutesIn(t, shards)
           <=> IsRoute(x) /\ PromisedOf(t, shards, x.prefix, x.peer, x.nlri, x.nextHop)
<1>1. ASSUME x \in RoutesIn(t, shards)
      PROVE  IsRoute(x) /\ PromisedOf(t, shards, x.prefix, x.peer, x.nlri, x.nextHop)
  <2>1. PICK p \in DOMAIN t : \E route \in ToSet(shards[ShardOf[p]].routes[t[p].index]) :
          x = [prefix |-> p, peer |-> route.peer,
               nlri |-> Get(shards[ShardOf[p]].nlris, route.nlri),
               nextHop |-> Get(shards[ShardOf[p]].nextHops, route.nextHop)]
    BY <1>1 DEF RoutesIn
  <2>2. PICK route \in ToSet(shards[ShardOf[p]].routes[t[p].index]) :
          x = [prefix |-> p, peer |-> route.peer,
               nlri |-> Get(shards[ShardOf[p]].nlris, route.nlri),
               nextHop |-> Get(shards[ShardOf[p]].nextHops, route.nextHop)]
    BY <2>1
  <2>3. /\ x.prefix = p /\ x.peer = route.peer
        /\ x.nlri = Get(shards[ShardOf[p]].nlris, route.nlri)
        /\ x.nextHop = Get(shards[ShardOf[p]].nextHops, route.nextHop)
    BY <2>2
  <2>4. IsRoute(x)
    BY <2>2, <2>3 DEF IsRoute, Store!Route
  <2>5. HasRoute(shards[ShardOf[p]], t[p].index, x.peer, x.nlri, x.nextHop)
    BY <2>3 DEF HasRoute
  <2>. QED  BY <2>3, <2>4, <2>5 DEF PromisedOf
<1>2. ASSUME IsRoute(x), PromisedOf(t, shards, x.prefix, x.peer, x.nlri, x.nextHop)
      PROVE  x \in RoutesIn(t, shards)
  <2> DEFINE p == x.prefix
  <2>1. PICK route \in ToSet(shards[ShardOf[p]].routes[t[p].index]) :
          /\ x.peer = route.peer
          /\ x.nlri = Get(shards[ShardOf[p]].nlris, route.nlri)
          /\ x.nextHop = Get(shards[ShardOf[p]].nextHops, route.nextHop)
    BY <1>2 DEF PromisedOf, HasRoute
  <2>2. x = [prefix |-> p, peer |-> route.peer,
             nlri |-> Get(shards[ShardOf[p]].nlris, route.nlri),
             nextHop |-> Get(shards[ShardOf[p]].nextHops, route.nextHop)]
    BY <1>2, <2>1 DEF IsRoute, Store!Route
  <2>3. p \in DOMAIN t
    BY <1>2 DEF PromisedOf
  <2>. QED  BY <2>2, <2>3 DEF RoutesIn
<1>. QED  BY <1>1, <1>2

LEMMA StoredAre ==
  ASSUME NEW x
  PROVE  /\ x \in AllRoutes <=> IsRoute(x) /\ Promised(x.prefix, x.peer, x.nlri, x.nextHop)
         /\ x \in AllRoutes' <=> IsRoute(x) /\ Promised(x.prefix, x.peer, x.nlri, x.nextHop)'
<1>1. AllRoutes = RoutesIn(tree, shard) /\ AllRoutes' = RoutesIn(tree', shard')
  BY DEF AllRoutes, StoredRoutes, RoutesIn
<1>2. /\ Promised(x.prefix, x.peer, x.nlri, x.nextHop)
           <=> PromisedOf(tree, shard, x.prefix, x.peer, x.nlri, x.nextHop)
      /\ Promised(x.prefix, x.peer, x.nlri, x.nextHop)'
           <=> PromisedOf(tree', shard', x.prefix, x.peer, x.nlri, x.nextHop)
  BY DEF Promised, PromisedOf
<1>3. x \in RoutesIn(tree, shard)
        <=> IsRoute(x) /\ PromisedOf(tree, shard, x.prefix, x.peer, x.nlri, x.nextHop)
  BY RoutesInAre
<1>4. x \in RoutesIn(tree', shard')
        <=> IsRoute(x) /\ PromisedOf(tree', shard', x.prefix, x.peer, x.nlri, x.nextHop)
  BY RoutesInAre
<1>. QED  BY <1>1, <1>2, <1>3, <1>4

LEMMA SameStored ==
  ASSUME \A p, w, v, h : Promised(p, w, v, h)' <=> Promised(p, w, v, h)
  PROVE  AllRoutes' = AllRoutes
<1>1. ASSUME NEW x PROVE x \in AllRoutes' <=> x \in AllRoutes
  BY StoredAre
<1>. QED  BY <1>1

LEMMA AddsRoute ==
  ASSUME NEW prefix, NEW peer, NEW nlri, NEW nextHop,
         \A p, w, v, h :
           Promised(p, w, v, h)'
             <=> \/ Promised(p, w, v, h) /\ ~ (p = prefix /\ w = peer /\ v = nlri)
                 \/ p = prefix /\ w = peer /\ v = nlri /\ h = nextHop
  PROVE  Store!AddRoute(prefix, peer, nlri, nextHop)
<1> DEFINE new == Store!Route(prefix, peer, nlri, nextHop)
           same == Store!Same(prefix, peer, nlri)
<1>1. new.prefix = prefix /\ new.peer = peer /\ new.nlri = nlri /\ new.nextHop = nextHop /\ IsRoute(new)
  BY DEF IsRoute, Store!Route
<1>2. ASSUME NEW x, IsRoute(x)
      PROVE  x = new <=> x.prefix = prefix /\ x.peer = peer /\ x.nlri = nlri /\ x.nextHop = nextHop
  BY <1>1, <1>2 DEF IsRoute
<1>3. ASSUME NEW x
      PROVE  x \in same <=> x \in AllRoutes /\ x.prefix = prefix /\ x.peer = peer /\ x.nlri = nlri
  BY DEF Store!Same
<1> HIDE DEF new, same
<1>4. ASSUME NEW x PROVE x \in AllRoutes' <=> x \in (AllRoutes \ same) \cup {new}
  <2>1. CASE IsRoute(x)
    BY <1>2, <1>3, <2>1, StoredAre
  <2>2. CASE ~ IsRoute(x)
    BY <1>1, <2>2, StoredAre
  <2>. QED  BY <2>1, <2>2
<1>5. AllRoutes' = (AllRoutes \ same) \cup {new}
  BY <1>4
<1>. QED  BY <1>5 DEF Store!AddRoute, new, same

LEMMA RemovesRoute ==
  ASSUME NEW prefix, NEW peer, NEW nlri,
         \A p, w, v, h :
           Promised(p, w, v, h)' <=> Promised(p, w, v, h) /\ ~ (p = prefix /\ w = peer /\ v = nlri)
  PROVE  Store!RemoveRoute(prefix, peer, nlri)
<1>1. ASSUME NEW x
      PROVE  x \in Store!Same(prefix, peer, nlri)
               <=> x \in AllRoutes /\ x.prefix = prefix /\ x.peer = peer /\ x.nlri = nlri
  BY DEF Store!Same
<1>2. ASSUME NEW x PROVE x \in AllRoutes' <=> x \in AllRoutes \ Store!Same(prefix, peer, nlri)
  BY <1>1, StoredAre
<1>3. AllRoutes' = AllRoutes \ Store!Same(prefix, peer, nlri)
  BY <1>2
<1>. QED  BY <1>3 DEF Store!RemoveRoute

LEMMA FlushesPeer ==
  ASSUME NEW peer, \A p, w, v, h : Promised(p, w, v, h)' <=> Promised(p, w, v, h) /\ w # peer
  PROVE  Store!FlushPeer(peer)
<1>1. ASSUME NEW x PROVE x \in AllRoutes' <=> x \in {r \in AllRoutes : r.peer # peer}
  BY StoredAre
<1>2. AllRoutes' = {r \in AllRoutes : r.peer # peer}
  BY <1>1
<1>. QED  BY <1>2 DEF Store!FlushPeer

(* The RIB is the set of routes that the updates describe: each update is  *)
(* one of RouteStore when its route is in, or is a step of it that cannot  *)
(* be seen, and no other step changes the routes.                          *)
THEOREM RibIsRouteStore == Spec => ImplementsRouteStore
<1>1. Init => Store!StoreInit
  <2> SUFFICES ASSUME Init PROVE AllRoutes = {}
    BY DEF Store!StoreInit
  <2>1. DOMAIN tree = {}
    BY DEF Init
  <2>. QED  BY <2>1 DEF AllRoutes
<1>2. RibInv /\ [Next]_vars => [Store!StoreNext]_AllRoutes
  <2> SUFFICES ASSUME RibInv, [Next]_vars PROVE Store!StoreNext \/ AllRoutes' = AllRoutes
    OBVIOUS
  <2>i. IndexInv /\ ValuesInv
    BY DEF RibInv
  <2>1. ASSUME NEW peer \in Peers, NEW prefix \in PrefixSet, NEW nlri \in NLRIs,
               NEW nextHop \in NextHops, AddRouteTree(peer, prefix, nlri, nextHop)
        PROVE  AllRoutes' = AllRoutes
    BY <2>i, <2>1, AddTreeValues, SameStored
  <2>2. ASSUME NEW peer \in Peers, NEW prefix \in PrefixSet, NEW nlri \in NLRIs,
               RemoveRoute(peer, prefix, nlri)
        PROVE  Store!StoreNext
    <3>1. Store!RemoveRoute(prefix, peer, nlri)
      BY <2>i, <2>2, RemoveValues, RemovesRoute
    <3>. QED  BY <3>1 DEF Store!StoreNext
  <2>3. ASSUME NEW peer \in Peers, AddRouteInsert(peer) PROVE Store!StoreNext
    <3>1. PICK prefix \in PrefixSet, nlri \in NLRIs, nextHop \in NextHops :
            \A p, w, v, h :
              Promised(p, w, v, h)'
                <=> \/ Promised(p, w, v, h) /\ ~ (p = prefix /\ w = peer /\ v = nlri)
                    \/ p = prefix /\ w = peer /\ v = nlri /\ h = nextHop
      BY <2>i, <2>3, AddInsertValues
    <3>2. Store!AddRoute(prefix, peer, nlri, nextHop)
      BY <3>1, AddsRoute
    <3>. QED  BY <3>2 DEF Store!StoreNext
  <2>4. ASSUME NEW peer \in Peers, FlushPeer(peer) PROVE Store!StoreNext
    <3>1. Store!FlushPeer(peer)
      BY <2>i, <2>4, FlushValues, FlushesPeer
    <3>. QED  BY <3>1 DEF Store!StoreNext
  <2>5. ASSUME NEW peer \in Peers, NEW s \in Shards, FlushPeerLock(peer, s)
        PROVE  AllRoutes' = AllRoutes
    <3>1. shard' = shard /\ tree' = tree /\ adding' = adding
      BY <2>5 DEF FlushPeerLock
    <3>. QED  BY <2>i, <3>1, NothingStored, SameStored
  <2>6. ASSUME NEW r \in Readers, NEW ip \in Addresses, NEW preferred \in NextHops,
               LookupTree(r, ip, preferred)
        PROVE  AllRoutes' = AllRoutes
    <3>1. shard' = shard /\ tree' = tree /\ adding' = adding
      BY <2>6 DEF LookupTree
    <3>. QED  BY <2>i, <3>1, NothingStored, SameStored
  <2>7. ASSUME NEW r \in Readers, LookupRead(r) PROVE AllRoutes' = AllRoutes
    <3>1. shard' = shard /\ tree' = tree /\ adding' = adding
      BY <2>7 DEF LookupRead
    <3>. QED  BY <2>i, <3>1, NothingStored, SameStored
  <2>8. CASE UNCHANGED vars
    <3>1. shard' = shard /\ tree' = tree /\ adding' = adding
      BY <2>8 DEF vars
    <3>. QED  BY <2>i, <3>1, NothingStored, SameStored
  <2>. QED  BY <2>1, <2>2, <2>3, <2>4, <2>5, <2>6, <2>7, <2>8 DEF Next
<1>. QED  BY <1>1, <1>2, RibInvariant, PTL DEF Spec, ImplementsRouteStore, Store!StoreSpec
=============================================================================
