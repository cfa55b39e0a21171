------------------------------- MODULE Intern -------------------------------
(***************************************************************************)
(* Pools of interned values: a value is replaced by a reference, which is  *)
(* counted.  Values with the same hash are chained.                        *)
(*                                                                         *)
(* A pool has its values (an index of this sequence is a reference), the   *)
(* references that are available again, and the head of the chain of each  *)
(* hash, or 0.  A value that is no longer used stays where it is.          *)
(***************************************************************************)
EXTENDS Naturals, Sequences, FiniteSets, SequencesExt

CONSTANTS Hashes, Hash(_)

NewPool == [values |-> <<>>, available |-> <<>>, heads |-> [h \in Hashes |-> 0]]

Get(pool, ref) == pool.values[ref].value

(* References of a chain, from its head.                                   *)
Chain(pool, h) ==
  LET from[i \in 0..Len(pool.values)] ==
        IF i = 0 THEN <<>> ELSE <<i>> \o from[pool.values[i].next]
  IN  from[pool.heads[h]]

(* Reference of a value, or 0.                                             *)
Ref(pool, value) ==
  LET chain == Chain(pool, Hash(value))
      same == {i \in DOMAIN chain : Get(pool, chain[i]) = value}
  IN  IF same = {} THEN 0 ELSE chain[CHOOSE i \in same : \A j \in same : i <= j]

NewIndex(pool) ==
  IF pool.available = <<>> THEN Len(pool.values) + 1 ELSE Last(pool.available)

(* A new value at the end of its chain.                                    *)
Insert(pool, value) ==
  LET index == NewIndex(pool)
      chain == Chain(pool, Hash(value))
      linked == IF chain = <<>>
                THEN pool.values
                ELSE [pool.values EXCEPT ![Last(chain)].next = index]
      new == [value |-> value, refCount |-> 1, next |-> 0]
  IN  [values |-> IF index \in DOMAIN linked
                  THEN [linked EXCEPT ![index] = new]
                  ELSE Append(linked, new),
       available |-> IF pool.available = <<>> THEN <<>> ELSE Front(pool.available),
       heads |-> IF chain = <<>> THEN [pool.heads EXCEPT ![Hash(value)] = index]
                                 ELSE pool.heads]

Put(pool, value) ==
  LET ref == Ref(pool, value)
  IN  IF ref = 0
      THEN Insert(pool, value)
      ELSE [pool EXCEPT !.values[ref].refCount = @ + 1]

(* Removing a reference from its chain.                                    *)
Unlink(pool, ref) ==
  LET next == pool.values[ref].next
      h == Hash(Get(pool, ref))
      chain == Chain(pool, h)
  IN  IF pool.heads[h] = ref
      THEN [pool EXCEPT !.heads[h] = next]
      ELSE [pool EXCEPT !.values[chain[(CHOOSE i \in DOMAIN chain : chain[i] = ref) - 1]].next
                          = next]

(* Mistake: the head of the chain is forgotten with the values after it.   *)
TakeHead(pool, ref) ==
  LET counted == [pool EXCEPT !.values[ref].refCount = @ - 1]
  IN  IF counted.values[ref].refCount # 0
      THEN counted
      ELSE [counted EXCEPT !.available = Append(@, ref),
                           !.heads[Hash(Get(pool, ref))] = 0]

Take(pool, ref) ==
  LET counted == [pool EXCEPT !.values[ref].refCount = @ - 1]
  IN  IF counted.values[ref].refCount # 0
      THEN counted
      ELSE [Unlink(counted, ref) EXCEPT !.available = Append(@, ref)]

TakeAll(pool, refs) ==
  LET after[n \in 0..Len(refs)] == IF n = 0 THEN pool ELSE Take(after[n - 1], refs[n])
  IN  after[Len(refs)]

-----------------------------------------------------------------------------
(* Each value has one reference, counted as many times as it is used: uses *)
(* gives the reference of each use.                                        *)
Exact(pool, uses) ==
  /\ \A ref \in DOMAIN pool.values :
       /\ pool.values[ref].refCount = Cardinality({use \in DOMAIN uses : uses[use] = ref})
       /\ pool.values[ref].refCount = 0 <=> ref \in ToSet(pool.available)
       /\ pool.values[ref].refCount > 0 => Ref(pool, Get(pool, ref)) = ref
  /\ IsInjective(pool.available)
=============================================================================
