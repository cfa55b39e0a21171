-------------------------------- MODULE Rib ---------------------------------
(***************************************************************************)
(* The RIB of the BMP provider.                                            *)
(*                                                                         *)
(* A tree gives the index of each prefix.  It is read without a lock and   *)
(* replaced as a whole.  The routes of a prefix, their interned values and *)
(* the free indexes are in a shard, with its lock.  An index that is freed *)
(* is used again for another prefix, with another generation: a reader     *)
(* that found it in an older tree must not use it.                         *)
(*                                                                         *)
(* The connection of each peer adds, replaces and removes its routes, or   *)
(* removes all of them, while flows are looked up.  A next hop stands for  *)
(* the next hop and the attributes of a route: both are interned, and      *)
(* handled together.                                                       *)
(***************************************************************************)
EXTENDS Intern, FiniteSets

CONSTANTS PrefixSet,       \* sequences of bits
          ShardOf,        \* shard of each prefix
          Shards,         \* 1..n
          Peers, NLRIs, NextHops,
          Readers, Addresses,
          MaxRoutes,      \* bound on the routes
          MaxAdded        \* bound on the prefixes added to the tree

NoPeer == "none"

Flush == "flush"

ASSUME RibAssumption ==
  /\ Shards # {} /\ Shards = 1..Cardinality(Shards)
  /\ ShardOf \in [PrefixSet -> Shards]
  /\ {NoPeer, Flush} \cap Peers = {}
  /\ PrefixSet \cup Addresses \subseteq Seq({0, 1})
  /\ \A value \in NLRIs \cup NextHops : Hash(value) \in Hashes
  /\ MaxRoutes \in Nat /\ MaxAdded \in Nat

VARIABLES
  tree,        \* index and generation of each prefix in the tree
  shard,       \* state of each shard
  shardLock,   \* peer that has the lock of each shard, Flush or NoPeer
  flushing,    \* peer being removed, or NoPeer
  adding,      \* route being added by each peer, see NotAdding
  lookup       \* lookup of each reader

vars == <<tree, shard, shardLock, flushing, adding, lookup>>

NotAdding == [busy |-> FALSE]

ReaderIdle == [step |-> "idle"]

EmptyShard ==
  [routes |-> <<>>, nlris |-> NewPool, nextHops |-> NewPool, free |-> <<>>, generations |-> <<>>]

Init ==
  /\ tree = <<>>
  /\ shard = [s \in Shards |-> EmptyShard]
  /\ shardLock = [s \in Shards |-> NoPeer]
  /\ flushing = NoPeer
  /\ adding = [peer \in Peers |-> NotAdding]
  /\ lookup = [r \in Readers |-> ReaderIdle]

-----------------------------------------------------------------------------
(* Indexes of prefixes.                                                    *)
NewPrefixIndex(s) ==
  LET free == shard[s].free
      index == IF free = <<>> THEN Len(shard[s].generations) + 1 ELSE Last(free)
  IN  [index |-> index,
       generation |-> IF free = <<>> THEN 0 ELSE shard[s].generations[index]]

WithNewPrefixIndex(state) ==
  IF state.free = <<>>
  THEN [state EXCEPT !.generations = Append(@, 0), !.routes = Append(@, <<>>)]
  ELSE [state EXCEPT !.free = Front(@)]

FreePrefixIndex(state, index) ==
  [state EXCEPT !.generations[index] = @ + 1, !.free = Append(@, index)]

OfPeer(state, index, peer) == {route \in ToSet(state.routes[index]) : route.peer = peer}

(* The elements of a sequence that are in a set, in their order.           *)
Among(seq, set) ==
  LET places == {i \in DOMAIN seq : seq[i] \in set}
      nth(n) == CHOOSE i \in places : Cardinality({j \in places : j <= i}) = n
  IN  [n \in 1..Cardinality(places) |-> seq[nth(n)]]

(* What is left of the routes of an index without those that match.        *)
Left(routes, matching) == Among(routes, ToSet(routes) \ matching)

(* The interned values of the routes that go.                              *)
Release(state, routes) ==
  [state EXCEPT !.nlris = TakeAll(@, [i \in DOMAIN routes |-> routes[i].nlri]),
                !.nextHops = TakeAll(@, [i \in DOMAIN routes |-> routes[i].nextHop])]

(* Routes of the index that match go, with their interned values.          *)
RemoveRoutes(state, index, matching) ==
  [Release(state, Among(state.routes[index], matching)) EXCEPT
     !.routes[index] = Left(@, matching)]

FreeIfEmpty(state, index) ==
  IF state.routes[index] = <<>> THEN FreePrefixIndex(state, index) ELSE state

(* The routes of a peer go from all the indexes, and those that are empty  *)
(* are free.  The order in which the tree is walked is left out.           *)
Flushed(state, indexes, peer) ==
  LET theirs(i) == {j \in DOMAIN state.routes[i] : state.routes[i][j].peer = peer}
      gone == SetToSeq(UNION {{i} \X theirs(i) : i \in indexes})
      left == [i \in DOMAIN state.routes |->
                 IF i \in indexes THEN Left(state.routes[i], OfPeer(state, i, peer))
                                  ELSE state.routes[i]]
      emptied == {i \in indexes : left[i] = <<>>}
  IN  [Release(state, [k \in DOMAIN gone |-> state.routes[gone[k][1]][gone[k][2]]]) EXCEPT
         !.routes = left,
         !.free = @ \o SetToSeq(emptied),
         !.generations = [i \in DOMAIN @ |-> IF i \in emptied THEN @[i] + 1 ELSE @[i]]]

Without(removed) == [p \in DOMAIN tree \ removed |-> tree[p]]

-----------------------------------------------------------------------------
(* Number of prefixes that were added to the tree.                         *)
Added ==
  Cardinality(DOMAIN tree)
    + FoldLeft(LAMBDA n, s : n + FoldLeft(+, 0, shard[s].generations), 0, [s \in Shards |-> s])

(* The routes as they are promised: see RouteStore.                        *)
StoredRoutes(prefix) ==
  LET state == shard[ShardOf[prefix]]
      routes == state.routes[tree[prefix].index]
  IN  {[prefix |-> prefix, peer |-> route.peer, nlri |-> Get(state.nlris, route.nlri),
        nextHop |-> Get(state.nextHops, route.nextHop)] : route \in ToSet(routes)}

AllRoutes == UNION {StoredRoutes(p) : p \in DOMAIN tree}

Store == INSTANCE RouteStore WITH routes <- AllRoutes

(* Values are interned, then the prefix is added to the tree if needed.    *)
AddRouteTree(peer, prefix, nlri, nextHop) ==
  LET s == ShardOf[prefix]
      nlris == Put(shard[s].nlris, nlri)
      nextHops == Put(shard[s].nextHops, nextHop)
      interned == [shard[s] EXCEPT !.nlris = nlris, !.nextHops = nextHops]
  IN  /\ ~adding[peer].busy
      /\ shardLock[s] = NoPeer
      /\ Cardinality(AllRoutes) < MaxRoutes \/ Store!Same(prefix, peer, nlri) # {}
      /\ prefix \in DOMAIN tree \/ Added < MaxAdded
      /\ shardLock' = [shardLock EXCEPT ![s] = peer]
      /\ adding' = [adding EXCEPT ![peer] =
                      [busy |-> TRUE, prefix |-> prefix,
                       route |-> [peer |-> peer, nlri |-> Ref(nlris, nlri),
                                  nextHop |-> Ref(nextHops, nextHop)]]]
      /\ IF prefix \in DOMAIN tree
         THEN /\ shard' = [shard EXCEPT ![s] = interned]
              /\ UNCHANGED tree
         ELSE /\ shard' = [shard EXCEPT ![s] = WithNewPrefixIndex(interned)]
              /\ tree' = [p \in DOMAIN tree \cup {prefix} |->
                            IF p = prefix THEN NewPrefixIndex(s) ELSE tree[p]]
      /\ UNCHANGED <<flushing, lookup>>

(* The route replaces the one of the same peer and NLRI, or comes last.    *)
AddRouteInsert(peer) ==
  LET prefix == adding[peer].prefix
      new == adding[peer].route
      s == ShardOf[prefix]
      index == tree[prefix].index
      routes == shard[s].routes[index]
      same == {i \in DOMAIN routes : routes[i].peer = peer /\ routes[i].nlri = new.nlri}
  IN  /\ adding[peer].busy
      /\ IF same = {}
         THEN shard' = [shard EXCEPT ![s].routes[index] = Append(@, new)]
         ELSE LET i == CHOOSE j \in same : TRUE
              IN  shard' = [shard EXCEPT ![s].routes[index][i] = new,
                                         ![s].nlris = Take(@, routes[i].nlri),
                                         ![s].nextHops = Take(@, routes[i].nextHop)]
      /\ shardLock' = [shardLock EXCEPT ![s] = NoPeer]
      /\ adding' = [adding EXCEPT ![peer] = NotAdding]
      /\ UNCHANGED <<tree, flushing, lookup>>

(* Mistake: the peer is not compared.                                      *)
RemoveRouteAnyPeer(peer, prefix, nlri) ==
  LET s == ShardOf[prefix]
      ref == Ref(shard[s].nlris, nlri)
      index == tree[prefix].index
      matching == {route \in ToSet(shard[s].routes[index]) : route.nlri = ref}
      removed == RemoveRoutes(shard[s], index, matching)
  IN  /\ ~adding[peer].busy
      /\ shardLock[s] = NoPeer
      /\ ref # 0
      /\ prefix \in DOMAIN tree
      /\ shard' = [shard EXCEPT ![s] = FreeIfEmpty(removed, index)]
      /\ tree' = Without(IF removed.routes[index] = <<>> THEN {prefix} ELSE {})
      /\ UNCHANGED <<shardLock, flushing, adding, lookup>>

RemoveRoute(peer, prefix, nlri) ==
  LET s == ShardOf[prefix]
      ref == Ref(shard[s].nlris, nlri)
      index == tree[prefix].index
      matching == {route \in OfPeer(shard[s], index, peer) : route.nlri = ref}
      removed == RemoveRoutes(shard[s], index, matching)
  IN  /\ ~adding[peer].busy
      /\ shardLock[s] = NoPeer
      /\ ref # 0
      /\ prefix \in DOMAIN tree
      /\ shard' = [shard EXCEPT ![s] = FreeIfEmpty(removed, index)]
      /\ tree' = Without(IF removed.routes[index] = <<>> THEN {prefix} ELSE {})
      /\ UNCHANGED <<shardLock, flushing, adding, lookup>>

(* Removing a peer, one at a time: the locks of all the shards are taken   *)
(* in order.                                                               *)
FlushPeerLock(peer, s) ==
  /\ flushing \in {NoPeer, peer}
  /\ shardLock[s] = NoPeer
  /\ \A t \in 1..(s - 1) : shardLock[t] = Flush
  /\ flushing' = peer
  /\ shardLock' = [shardLock EXCEPT ![s] = Flush]
  /\ UNCHANGED <<tree, shard, adding, lookup>>

FlushPeer(peer) ==
  LET indexes(s) == {tree[p].index : p \in {q \in DOMAIN tree : ShardOf[q] = s}}
      flushed == [s \in Shards |-> Flushed(shard[s], indexes(s), peer)]
  IN  /\ flushing = peer
      /\ \A s \in Shards : shardLock[s] = Flush
      /\ shard' = flushed
      /\ tree' = Without({p \in DOMAIN tree : flushed[ShardOf[p]].routes[tree[p].index] = <<>>})
      /\ shardLock' = [s \in Shards |-> NoPeer]
      /\ flushing' = NoPeer
      /\ UNCHANGED <<adding, lookup>>

-----------------------------------------------------------------------------
(* Looking up an address: first the tree, without any lock.                *)
LookupTree(r, ip, preferred) ==
  LET containing == {p \in DOMAIN tree : IsPrefix(p, ip)}
      longest == CHOOSE p \in containing : \A q \in containing : Len(q) <= Len(p)
  IN  /\ lookup[r].step # "found"
      /\ containing # {}
      /\ lookup' = [lookup EXCEPT ![r] =
                      [step |-> "found", prefix |-> longest, ref |-> tree[longest],
                       preferred |-> preferred]]
      /\ UNCHANGED <<tree, shard, shardLock, flushing, adding>>

(* Mistake: the reference is not checked.                                  *)
SelectUnchecked(s, ref, preferred) ==
  LET routes == shard[s].routes[ref.index]
      HasNextHop(i) == Get(shard[s].nextHops, routes[i].nextHop) = preferred
      candidates == {i \in DOMAIN routes : HasNextHop(i)}
  IN  IF routes = <<>>
      THEN <<>>
      ELSE <<routes[IF candidates = {} THEN 1
                    ELSE CHOOSE i \in candidates : \A j \in candidates : i <= j]>>

(* The route with the preferred next hop, or the first one, if any.        *)
Select(s, ref, preferred) ==
  LET routes == shard[s].routes[ref.index]
      HasNextHop(i) == Get(shard[s].nextHops, routes[i].nextHop) = preferred
      candidates == {i \in DOMAIN routes : HasNextHop(i)}
  IN  IF shard[s].generations[ref.index] # ref.generation \/ routes = <<>>
      THEN <<>>
      ELSE <<routes[IF candidates = {} THEN 1
                    ELSE CHOOSE i \in candidates : \A j \in candidates : i <= j]>>

(* Then the routes, with the lock of their shard.  Select is the answer.   *)
LookupRead(r) ==
  /\ lookup[r].step = "found"
  /\ shardLock[ShardOf[lookup[r].prefix]] = NoPeer
  /\ lookup' = [lookup EXCEPT ![r] = ReaderIdle]
  /\ UNCHANGED <<tree, shard, shardLock, flushing, adding>>

-----------------------------------------------------------------------------
Next ==
  \/ \E peer \in Peers :
       \/ \E prefix \in PrefixSet, nlri \in NLRIs :
            \/ \E nextHop \in NextHops : AddRouteTree(peer, prefix, nlri, nextHop)
            \/ RemoveRoute(peer, prefix, nlri)
       \/ AddRouteInsert(peer)
       \/ \E s \in Shards : FlushPeerLock(peer, s)
       \/ FlushPeer(peer)
  \/ \E r \in Readers :
       \/ \E ip \in Addresses, preferred \in NextHops : LookupTree(r, ip, preferred)
       \/ LookupRead(r)

Spec == Init /\ [][Next]_vars

-----------------------------------------------------------------------------
PoolType(pool, Values) ==
  /\ pool.values \in Seq([value : Values, refCount : Nat, next : 0..Len(pool.values)])
  /\ pool.available \in Seq(DOMAIN pool.values)
  /\ pool.heads \in [Hashes -> 0..Len(pool.values)]

RouteType(s) ==
  [peer : Peers, nlri : DOMAIN shard[s].nlris.values, nextHop : DOMAIN shard[s].nextHops.values]

TypeOK ==
  /\ \A p \in DOMAIN tree :
       /\ p \in PrefixSet
       /\ tree[p].index \in DOMAIN shard[ShardOf[p]].generations
       /\ tree[p].generation \in Nat
  /\ \A s \in Shards :
       /\ PoolType(shard[s].nlris, NLRIs) /\ PoolType(shard[s].nextHops, NextHops)
       /\ shard[s].generations \in Seq(Nat)
       /\ shard[s].routes \in Seq(Seq(RouteType(s)))
       /\ Len(shard[s].routes) = Len(shard[s].generations)
       /\ shard[s].free \in Seq(DOMAIN shard[s].generations)
  /\ shardLock \in [Shards -> Peers \cup {NoPeer, Flush}]
  /\ flushing \in Peers \cup {NoPeer}
  /\ \A peer \in Peers : adding[peer].busy => adding[peer].prefix \in DOMAIN tree
  /\ \A r \in Readers : lookup[r].step \in {"idle", "found"}

(* The RIB is the set of routes the BGP updates describe: no route is lost *)
(* or kept when indexes and interned values are used again.                *)
ImplementsRouteStore == Store!StoreSpec

(* A prefix has one route per peer and NLRI: a replaced route is not left  *)
(* behind.                                                                 *)
RoutesDistinct ==
  \A p \in DOMAIN tree :
    LET routes == shard[ShardOf[p]].routes[tree[p].index]
    IN  \A i, j \in DOMAIN routes :
          routes[i].peer = routes[j].peer /\ routes[i].nlri = routes[j].nlri => i = j

(* A lookup that is answered, however late after it read the tree, is      *)
(* answered with a route of the prefix it found there, with the preferred  *)
(* next hop when there is one.  It finds a route unless this prefix was    *)
(* removed meanwhile.                                                      *)
LookupsRight ==
  \A r \in Readers : lookup[r].step = "found" =>
    LET prefix == lookup[r].prefix
        state == shard[ShardOf[prefix]]
        answer == Select(ShardOf[prefix], lookup[r].ref, lookup[r].preferred)
        stored == IF prefix \in DOMAIN tree THEN StoredRoutes(prefix) ELSE {}
    IN  shardLock[ShardOf[prefix]] = NoPeer =>
          /\ answer # <<>> =>
               \E route \in stored :
                 /\ route.peer = answer[1].peer
                 /\ route.nlri = Get(state.nlris, answer[1].nlri)
                 /\ route.nextHop = Get(state.nextHops, answer[1].nextHop)
                 /\ \/ route.nextHop = lookup[r].preferred
                    \/ \A other \in stored : other.nextHop # lookup[r].preferred
          /\ answer = <<>> =>
               ~ (prefix \in DOMAIN tree /\ tree[prefix] = lookup[r].ref)

(* The interned values are counted as many times as routes use them, and   *)
(* are released with the last one: the memory of a shard does not leak.    *)
PoolsExact ==
  \A s \in Shards : shardLock[s] \in {NoPeer, Flush} =>
    LET routes == shard[s].routes
        places == UNION {{i} \X DOMAIN routes[i] : i \in DOMAIN routes}
    IN  /\ Exact(shard[s].nlris, [use \in places |-> routes[use[1]][use[2]].nlri])
        /\ Exact(shard[s].nextHops, [use \in places |-> routes[use[1]][use[2]].nextHop])

(* An index is free, or the one of a single prefix with routes, under its  *)
(* current generation.                                                     *)
IndexesExact ==
  \A s \in Shards : shardLock[s] \in {NoPeer, Flush} =>
    LET inTree == {p \in DOMAIN tree : ShardOf[p] = s}
    IN  /\ \A p \in inTree :
             /\ shard[s].routes[tree[p].index] # <<>>
             /\ shard[s].generations[tree[p].index] = tree[p].generation
        /\ \A i \in DOMAIN shard[s].generations :
             Cardinality({p \in inTree : tree[p].index = i})
               + Cardinality({j \in DOMAIN shard[s].free : shard[s].free[j] = i}) = 1

(* All that the RIB is made of agrees: shards, routes, interned values and *)
(* indexes.                                                                *)
RibSound == TypeOK /\ RoutesDistinct /\ PoolsExact /\ IndexesExact
=============================================================================
