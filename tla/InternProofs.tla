---------------------------- MODULE InternProofs ----------------------------
(***************************************************************************)
(* Proofs about the pools of interned values, for all values and hashes:   *)
(* the chains stay chains, each value has one reference, and what is put   *)
(* or taken changes the count of a single reference.                       *)
(***************************************************************************)
EXTENDS Intern, Integers, FiniteSetTheorems, SequenceTheorems, WellFoundedInduction, NaturalsInduction, TLAPS

-----------------------------------------------------------------------------
(* Sequences                                                               *)

List(q) == q \in Seq({q[i] : i \in DOMAIN q})

LEMMA Listed ==
  ASSUME NEW n \in Nat, NEW q, q = [i \in 1..n |-> q[i]]
  PROVE  List(q) /\ Len(q) = n /\ DOMAIN q = 1..n
<1> DEFINE S == {q[i] : i \in DOMAIN q}
<1>1. DOMAIN q = 1..n
  OBVIOUS
<1>2. q \in [1..n -> S]
  BY <1>1
<1>3. q \in Seq(S) /\ Len(q) = n
  <2> HIDE DEF S
  <2> QED  BY <1>2
<1>. QED  BY <1>1, <1>3 DEF List

LEMMA InSeq == ASSUME NEW n \in Nat, NEW S, NEW f \in [1..n -> S] PROVE f \in Seq(S) /\ Len(f) = n
OBVIOUS

LEMMA ListFacts ==
  ASSUME NEW q, List(q)
  PROVE  /\ Len(q) \in Nat /\ DOMAIN q = 1..Len(q)
         /\ q = [i \in 1..Len(q) |-> q[i]]
         /\ q = <<>> <=> Len(q) = 0
<1> DEFINE S == {q[i] : i \in DOMAIN q}
<1>1. q \in Seq(S)
  BY DEF List
<1> HIDE DEF S
<1>. QED  BY <1>1

LEMMA ListAppend ==
  ASSUME NEW q, NEW e, List(q)
  PROVE  /\ List(Append(q, e)) /\ Len(Append(q, e)) = Len(q) + 1
         /\ Append(q, e)[Len(q) + 1] = e
         /\ \A i \in 1..Len(q) : Append(q, e)[i] = q[i]
<1> DEFINE S == {q[i] : i \in DOMAIN q} \cup {e}
           a == Append(q, e)
<1>1. q \in Seq(S) /\ e \in S /\ Len(q) \in Nat
  <2>1. Len(q) \in Nat /\ q = [i \in 1..Len(q) |-> q[i]]
    BY ListFacts
  <2>2. \A i \in 1..Len(q) : q[i] \in S
    BY <2>1
  <2> HIDE DEF S
  <2>3. q \in [1..Len(q) -> S]
    BY <2>1, <2>2
  <2>4. q \in Seq(S)
    BY <2>1, <2>3
  <2>. QED  BY <2>1, <2>4 DEF S
<1>2. /\ Len(a) = Len(q) + 1 /\ a[Len(q) + 1] = e /\ Len(q) \in Nat
      /\ \A i \in 1..Len(q) : a[i] = q[i]
      /\ a = [i \in 1..Len(a) |-> a[i]]
  <2> HIDE DEF S
  <2>1. Len(a) = Len(q) + 1 /\ a[Len(q) + 1] = e /\ \A i \in 1..Len(q) : a[i] = q[i]
    BY <1>1
  <2>2. a \in Seq(S)
    BY <1>1
  <2> HIDE DEF a
  <2>3. a = [i \in 1..Len(a) |-> a[i]]
    BY <2>2
  <2>. QED  BY <1>1, <2>1, <2>3
<1>3. List(a)
  <2> HIDE DEF a
  <2>. QED  BY <1>2, Listed
<1>. QED  BY <1>2, <1>3

LEMMA ListUpdate ==
  ASSUME NEW q, NEW i, NEW e, List(q)
  PROVE  List([q EXCEPT ![i] = e]) /\ Len([q EXCEPT ![i] = e]) = Len(q)
<1> DEFINE u == [q EXCEPT ![i] = e]
<1>1. Len(q) \in Nat /\ DOMAIN q = 1..Len(q)
  BY ListFacts
<1>2. u = [j \in 1..Len(q) |-> u[j]]
  BY <1>1
<1>. QED
  <2> HIDE DEF u
  <2>1. List(u) /\ Len(u) = Len(q)
    BY <1>1, <1>2, Listed
  <2>. QED  BY <2>1 DEF u

(* The elements of a finite set as a sequence.                             *)
LEMMA SetToSeqFacts ==
  ASSUME NEW S, IsFiniteSet(S)
  PROVE  /\ SetToSeq(S) \in Seq(S)
         /\ \A i, j \in DOMAIN SetToSeq(S) : SetToSeq(S)[i] = SetToSeq(S)[j] => i = j
         /\ \A x \in S : \E i \in DOMAIN SetToSeq(S) : SetToSeq(S)[i] = x
<1> DEFINE n == Cardinality(S)
           f == SetToSeq(S)
<1>1. n \in Nat /\ ExistsBijection(1..n, S)
  BY FS_CardinalityType
<1>2. PICK b : b \in Bijection(1..n, S)
  BY <1>1 DEF ExistsBijection
<1>3. b \in [1..n -> S] /\ IsInjective(b)
  BY <1>2 DEF Bijection, Injection, IsInjective
<1>4. f \in [1..n -> S] /\ IsInjective(f)
  BY <1>3 DEF SetToSeq
<1>5. f \in Injection(1..n, S)
  BY <1>4 DEF Injection, IsInjective
<1>6. f \in Surjection(1..n, S)
  <2>1. IsFiniteSet(1..n) /\ Cardinality(1..n) = n
    BY <1>1, FS_Interval
  <2>. QED  BY <1>5, <2>1, FS_Injection
<1>7. \A x \in S : \E i \in 1..n : f[i] = x
  BY <1>6 DEF Surjection
<1> HIDE DEF f, n
<1>8. f \in Seq(S) /\ DOMAIN f = 1..n
  BY <1>1, <1>4
<1>. QED  BY <1>4, <1>7, <1>8 DEF f, IsInjective

(* What Front leaves of a sequence: the free indexes but the last one.     *)
LEMMA FrontFacts ==
  ASSUME NEW S, NEW s \in Seq(S), s # <<>>
  PROVE  /\ Front(s) \in Seq(S) /\ Len(Front(s)) = Len(s) - 1
         /\ DOMAIN Front(s) = 1..(Len(s) - 1)
         /\ \A i \in 1..(Len(s) - 1) : Front(s)[i] = s[i]
<1>1. Len(s) \in Nat \ {0} /\ DOMAIN s = 1..Len(s)
  OBVIOUS
<1>2. \A i \in 1..(Len(s) - 1) : s[i] \in S
  BY <1>1
<1>. QED  BY <1>1, <1>2 DEF Front

(* The least of a set of numbers, for proofs by least counterexample.      *)
LEMMA Least ==
  ASSUME NEW S \in SUBSET Nat, S # {}
  PROVE  \E m \in S : \A k \in S : m <= k
<1>1. PICK m \in S : \A k \in S : ~ (<<k, m>> \in OpToRel(<, Nat))
  BY NatLessThanWellFounded, WFMin
<1>2. ASSUME NEW k \in S PROVE m <= k
  <2>1. m \in Nat /\ k \in Nat
    OBVIOUS
  <2>2. ~ (k < m)
    BY <1>1, <2>1 DEF OpToRel
  <2>. QED  BY <2>1, <2>2
<1>. QED  BY <1>2

-----------------------------------------------------------------------------
(* Pools                                                                   *)

Refs(p) == 1..Len(p.values)

Live(p) == {r \in Refs(p) : p.values[r].refCount # 0}

After(q, k) == IF k = Len(q) THEN 0 ELSE q[k + 1]

Linked(p, q) == \A k \in 1..Len(q) : p.values[q[k]].next = After(q, k)

(* The values a chain links, from a reference to the end of the chain.     *)
IsPath(p, q, i) == IF i = 0 THEN q = <<>> ELSE Len(q) # 0 /\ q[1] = i /\ Linked(p, q)

(* Links go to values that were put later, so that chains end.             *)
Ranked(p) ==
  \E bound \in Nat : \E rank \in [Refs(p) -> 0..bound] :
    \A r \in Refs(p) : p.values[r].next # 0 =>
      p.values[r].next \in Refs(p) /\ rank[r] < rank[p.values[r].next]

(* A sequence is the chain of a hash: the live values with this hash.      *)
IsChain(p, h, c) ==
  /\ c \in Seq(Refs(p)) /\ IsPath(p, c, p.heads[h])
  /\ \A i, j \in 1..Len(c) : c[i] = c[j] => i = j
  /\ \A r \in Refs(p) :
       (\E i \in 1..Len(c) : c[i] = r) <=> r \in Live(p) /\ Hash(p.values[r].value) = h

PoolForm(p, Values) ==
  /\ p = [values |-> p.values, available |-> p.available, heads |-> p.heads]
  /\ p.values \in Seq([value : Values, refCount : Nat, next : Nat])
  /\ p.available \in Seq(Refs(p))
  /\ p.heads \in [Hashes -> 0..Len(p.values)]

AvailableInv(p) ==
  /\ \A i, j \in 1..Len(p.available) : p.available[i] = p.available[j] => i = j
  /\ \A r \in Refs(p) : r \notin Live(p) <=> \E i \in 1..Len(p.available) : p.available[i] = r

(* A pool as the operations leave it, whatever uses its values.            *)
Sound(p, Values) ==
  /\ PoolForm(p, Values)
  /\ Ranked(p)
  /\ \A h \in Hashes : \E c : IsChain(p, h, c)
  /\ \A r, s \in Live(p) : p.values[r].value = p.values[s].value => r = s
  /\ AvailableInv(p)

LEMMA FormFacts ==
  ASSUME NEW p, NEW Values, PoolForm(p, Values)
  PROVE  /\ Len(p.values) \in Nat /\ DOMAIN p.values = Refs(p) /\ Refs(p) = 1..Len(p.values)
         /\ \A r \in Refs(p) :
              /\ p.values[r] = [value |-> p.values[r].value, refCount |-> p.values[r].refCount,
                                next |-> p.values[r].next]
              /\ p.values[r].value \in Values /\ p.values[r].refCount \in Nat
              /\ p.values[r].next \in Nat
         /\ Len(p.available) \in Nat /\ DOMAIN p.available = 1..Len(p.available)
         /\ \A i \in 1..Len(p.available) : p.available[i] \in Refs(p)
<1> DEFINE E == [value : Values, refCount : Nat, next : Nat]
<1>1. p.values \in Seq(E)
  BY DEF PoolForm
<1>2. Len(p.values) \in Nat /\ DOMAIN p.values = 1..Len(p.values)
      /\ \A r \in 1..Len(p.values) : p.values[r] \in E
  <2> HIDE DEF E
  <2>. QED  BY <1>1
<1>3. \A e \in E : /\ e = [value |-> e.value, refCount |-> e.refCount, next |-> e.next]
                   /\ e.value \in Values /\ e.refCount \in Nat /\ e.next \in Nat
  OBVIOUS
<1>4. Len(p.available) \in Nat /\ DOMAIN p.available = 1..Len(p.available)
      /\ \A i \in 1..Len(p.available) : p.available[i] \in Refs(p)
  BY DEF PoolForm
<1> HIDE DEF E
<1>. QED  BY <1>2, <1>3, <1>4 DEF Refs

LEMMA TailFacts ==
  ASSUME NEW S, NEW q \in Seq(S), Len(q) # 0
  PROVE  /\ Len(q) \in Nat /\ Tail(q) \in Seq(S) /\ Len(Tail(q)) = Len(q) - 1
         /\ \A k \in 1..(Len(q) - 1) : Tail(q)[k] = q[k + 1]
         /\ q = <<q[1]>> \o Tail(q)
<1>1. Len(q) \in Nat /\ Tail(q) \in Seq(S) /\ Len(Tail(q)) = Len(q) - 1 /\ q # <<>>
  OBVIOUS
<1>2. ASSUME NEW k \in 1..(Len(q) - 1) PROVE Tail(q)[k] = q[k + 1]
  OBVIOUS
<1>3. q = <<Head(q)>> \o Tail(q)
  BY <1>1, HeadTailProperties
<1>. QED  BY <1>1, <1>2, <1>3

LEMMA ConsFacts ==
  ASSUME NEW S, NEW q \in Seq(S), NEW e \in S
  PROVE  /\ Len(q) \in Nat /\ <<e>> \o q \in Seq(S) /\ Len(<<e>> \o q) = Len(q) + 1
         /\ (<<e>> \o q)[1] = e
         /\ \A k \in 1..Len(q) : (<<e>> \o q)[k + 1] = q[k]
<1>1. <<e>> \in Seq(S) /\ Len(<<e>>) = 1
  OBVIOUS
<1>2. /\ Len(<<e>> \o q) = Len(<<e>>) + Len(q) /\ <<e>> \o q \in Seq(S)
      /\ \A k \in 1..(Len(<<e>>) + Len(q)) : (<<e>> \o q)[k] = IF k <= Len(<<e>>) THEN <<e>>[k] ELSE q[k - Len(<<e>>)]
  BY <1>1, ConcatProperties
<1>3. Len(q) \in Nat
  OBVIOUS
<1>4. \A k \in 1..Len(q) : (<<e>> \o q)[k + 1] = q[k]
  <2>1. ASSUME NEW k \in 1..Len(q) PROVE (<<e>> \o q)[k + 1] = q[k]
    <3>1. k + 1 \in 1..(Len(<<e>>) + Len(q)) /\ ~ (k + 1 <= 1) /\ k + 1 - 1 = k
      BY <1>1, <1>3
    <3>. QED  BY <1>1, <1>2, <3>1
  <2>. QED  BY <2>1
<1>. QED  BY <1>1, <1>2, <1>3, <1>4

LEMMA PathTail ==
  ASSUME NEW p, NEW q \in Seq(Refs(p)), NEW i \in Refs(p), IsPath(p, q, i), Len(p.values) \in Nat
  PROVE  /\ Tail(q) \in Seq(Refs(p)) /\ IsPath(p, Tail(q), p.values[i].next)
         /\ q = <<i>> \o Tail(q) /\ Len(Tail(q)) = Len(q) - 1 /\ Len(q) \in Nat
<1> DEFINE t == Tail(q)
<1>1. Len(q) # 0 /\ q[1] = i /\ Linked(p, q)
  <2>1. i # 0
    BY DEF Refs
  <2>. QED  BY <2>1 DEF IsPath
<1>2. /\ Len(q) \in Nat /\ t \in Seq(Refs(p)) /\ Len(t) = Len(q) - 1
      /\ \A k \in 1..(Len(q) - 1) : t[k] = q[k + 1]
      /\ q = <<i>> \o t
  BY <1>1, TailFacts
<1> HIDE DEF t
<1>3. p.values[i].next = After(q, 1)
  <2>1. 1 \in 1..Len(q)
    BY <1>1, <1>2
  <2>. QED  BY <1>1, <2>1 DEF Linked
<1>4. Linked(p, t)
  <2>1. SUFFICES ASSUME NEW k \in 1..Len(t) PROVE p.values[t[k]].next = After(t, k)
    BY DEF Linked
  <2>2. k \in Nat /\ k + 1 \in 1..Len(q) /\ t[k] = q[k + 1]
    BY <1>2
  <2>3. p.values[q[k + 1]].next = After(q, k + 1)
    BY <1>1, <2>2 DEF Linked
  <2>4. After(q, k + 1) = After(t, k)
    <3>1. CASE k = Len(t)
      BY <1>2, <2>2, <3>1 DEF After
    <3>2. CASE k # Len(t)
      <4>1. k + 1 \in 1..(Len(q) - 1) /\ k + 1 # Len(q)
        BY <1>2, <2>2, <3>2
      <4>2. t[k + 1] = q[k + 1 + 1]
        BY <1>2, <4>1
      <4>. QED  BY <3>2, <4>1, <4>2 DEF After
    <3>. QED  BY <3>1, <3>2
  <2>. QED  BY <2>2, <2>3, <2>4
<1>5. IsPath(p, t, p.values[i].next)
  <2>1. CASE Len(q) = 1
    <3>1. p.values[i].next = 0 /\ Len(t) = 0
      BY <1>2, <1>3, <2>1 DEF After
    <3>2. t = <<>>
      BY <1>2, <3>1
    <3>. QED  BY <3>1, <3>2 DEF IsPath
  <2>2. CASE Len(q) # 1
    <3>1. 1 \in 1..(Len(q) - 1) /\ 1 + 1 \in 1..Len(q) /\ Len(t) # 0
      BY <1>1, <1>2, <2>2
    <3>2. t[1] = q[1 + 1] /\ p.values[i].next = q[1 + 1]
      BY <1>2, <1>3, <2>2, <3>1 DEF After
    <3>3. q[1 + 1] \in Refs(p)
      BY <3>1
    <3>4. q[1 + 1] # 0
      BY <3>3 DEF Refs
    <3>. QED  BY <1>4, <3>1, <3>2, <3>4 DEF IsPath
  <2>. QED  BY <2>1, <2>2
<1>. QED  BY <1>2, <1>5 DEF t

LEMMA PathCons ==
  ASSUME NEW p, NEW i \in Refs(p), NEW q \in Seq(Refs(p)), IsPath(p, q, p.values[i].next),
         Len(p.values) \in Nat
  PROVE  <<i>> \o q \in Seq(Refs(p)) /\ IsPath(p, <<i>> \o q, i)
<1> DEFINE s == <<i>> \o q
<1>1. /\ Len(q) \in Nat /\ s \in Seq(Refs(p)) /\ Len(s) = Len(q) + 1 /\ s[1] = i
      /\ \A k \in 1..Len(q) : s[k + 1] = q[k]
  BY ConsFacts
<1> HIDE DEF s
<1>2. p.values[i].next = After(s, 1)
  <2>1. CASE p.values[i].next = 0
    <3>1. q = <<>>
      BY <2>1 DEF IsPath
    <3>. QED  BY <1>1, <2>1, <3>1 DEF After
  <2>2. CASE p.values[i].next # 0
    <3>1. Len(q) # 0 /\ q[1] = p.values[i].next
      BY <2>2 DEF IsPath
    <3>2. 1 \in 1..Len(q) /\ 1 # Len(s)
      BY <1>1, <3>1
    <3>. QED  BY <1>1, <3>1, <3>2 DEF After
  <2>. QED  BY <2>1, <2>2
<1>3. Linked(p, s)
  <2>1. SUFFICES ASSUME NEW k \in 1..Len(s) PROVE p.values[s[k]].next = After(s, k)
    BY DEF Linked
  <2>2. CASE k = 1
    BY <1>1, <1>2, <2>2
  <2>3. CASE k # 1
    <3>1. k \in Nat /\ k - 1 \in 1..Len(q) /\ k - 1 + 1 = k
      BY <1>1, <2>3
    <3>2. s[k] = q[k - 1]
      BY <1>1, <3>1
    <3>3. Linked(p, q)
      <4>1. q # <<>>
        BY <3>1
      <4>. QED  BY <4>1 DEF IsPath
    <3>4. p.values[q[k - 1]].next = After(q, k - 1)
      BY <3>1, <3>3 DEF Linked
    <3>5. After(q, k - 1) = After(s, k)
      <4>1. CASE k = Len(s)
        BY <1>1, <3>1, <4>1 DEF After
      <4>2. CASE k # Len(s)
        <5>1. k \in 1..Len(q) /\ k - 1 # Len(q)
          BY <1>1, <3>1, <4>2
        <5>. QED  BY <1>1, <3>1, <4>2, <5>1 DEF After
      <4>. QED  BY <4>1, <4>2
    <3>. QED  BY <3>2, <3>4, <3>5
  <2>. QED  BY <2>2, <2>3
<1>4. i # 0
  BY DEF Refs
<1>. QED  BY <1>1, <1>3, <1>4 DEF IsPath, s

(* Along the links, there is one path from each reference.                 *)
LEMMA PathUnique ==
  ASSUME NEW p, NEW i, NEW q \in Seq(Refs(p)), NEW t \in Seq(Refs(p)),
         IsPath(p, q, i), IsPath(p, t, i), Len(p.values) \in Nat
  PROVE  q = t
<1>1. CASE i = 0
  BY <1>1 DEF IsPath
<1>2. CASE i # 0
  <2>1. Len(q) # 0 /\ q[1] = i /\ Linked(p, q) /\ Len(t) # 0 /\ t[1] = i /\ Linked(p, t)
    BY <1>2 DEF IsPath
  <2>2. Len(q) \in Nat /\ Len(t) \in Nat
    OBVIOUS
  <2>3. ASSUME NEW k \in Nat, k \in 1..Len(q), k \in 1..Len(t) PROVE q[k] = t[k]
    <3> DEFINE Bad == {j \in Nat : j \in 1..Len(q) /\ j \in 1..Len(t) /\ q[j] # t[j]}
    <3>1. SUFFICES ASSUME Bad # {} PROVE FALSE
      BY <2>3
    <3>2. PICK m \in Bad : \A j \in Bad : m <= j
      <4>1. Bad \in SUBSET Nat
        OBVIOUS
      <4> HIDE DEF Bad
      <4>. QED  BY <3>1, <4>1, Least
    <3>3. m # 1
      BY <2>1
    <3>4. m - 1 \in Nat /\ m - 1 \in 1..Len(q) /\ m - 1 \in 1..Len(t) /\ m - 1 + 1 = m
          /\ m - 1 # Len(q) /\ m - 1 # Len(t)
      BY <2>2, <3>3
    <3>5. m - 1 \notin Bad
      <4>1. ~ (m <= m - 1)
        BY <3>4
      <4> HIDE DEF Bad
      <4>. QED  BY <3>2, <4>1
    <3>6. q[m - 1] = t[m - 1]
      BY <3>4, <3>5
    <3>7. p.values[q[m - 1]].next = q[m]
      BY <2>1, <3>4 DEF Linked, After
    <3>8. p.values[t[m - 1]].next = t[m]
      BY <2>1, <3>4 DEF Linked, After
    <3>9. q[m] # t[m]
      OBVIOUS
    <3>. QED  BY <3>6, <3>7, <3>8, <3>9
  <2>4. ASSUME NEW a \in Seq(Refs(p)), NEW b \in Seq(Refs(p)), Linked(p, a), Linked(p, b),
               Len(a) \in Nat, Len(b) \in Nat, Len(a) # 0,
               \A k \in Nat : k \in 1..Len(a) /\ k \in 1..Len(b) => a[k] = b[k]
        PROVE  ~ (Len(a) < Len(b))
    <3>1. SUFFICES ASSUME Len(a) < Len(b) PROVE FALSE
      OBVIOUS
    <3>2. Len(a) \in 1..Len(a) /\ Len(a) \in 1..Len(b) /\ Len(a) + 1 \in 1..Len(b) /\ Len(a) # Len(b)
      BY <2>4, <3>1
    <3>3. p.values[a[Len(a)]].next = 0
      BY <2>4, <3>2 DEF Linked, After
    <3>4. p.values[b[Len(a)]].next = b[Len(a) + 1]
      BY <2>4, <3>2 DEF Linked, After
    <3>5. b[Len(a) + 1] \in Refs(p)
      BY <3>2
    <3>6. a[Len(a)] = b[Len(a)]
      BY <2>4, <3>2
    <3>7. b[Len(a) + 1] # 0
      BY <3>5 DEF Refs
    <3>. QED  BY <3>3, <3>4, <3>6, <3>7
  <2>5. ~ (Len(q) < Len(t))
    BY <2>1, <2>2, <2>3, <2>4
  <2>6. ~ (Len(t) < Len(q))
    <3>1. \A k \in Nat : k \in 1..Len(t) /\ k \in 1..Len(q) => t[k] = q[k]
      BY <2>3
    <3>. QED  BY <2>1, <2>2, <2>4, <3>1
  <2>7. Len(q) = Len(t)
    BY <2>2, <2>5, <2>6
  <2>8. \A k \in 1..Len(q) : q[k] = t[k]
    BY <2>2, <2>3, <2>7
  <2>. QED  BY <2>7, <2>8, SeqEqual
<1>. QED  BY <1>1, <1>2

LEMMA PathExists ==
  ASSUME NEW p, NEW Values, PoolForm(p, Values), Ranked(p), NEW i \in 0..Len(p.values)
  PROVE  \E q \in Seq(Refs(p)) : IsPath(p, q, i)
<1>1. PICK bound \in Nat : \E rank \in [Refs(p) -> 0..bound] :
        \A r \in Refs(p) : p.values[r].next # 0 =>
          p.values[r].next \in Refs(p) /\ rank[r] < rank[p.values[r].next]
  BY DEF Ranked
<1>2. PICK rank \in [Refs(p) -> 0..bound] :
        \A r \in Refs(p) : p.values[r].next # 0 =>
          p.values[r].next \in Refs(p) /\ rank[r] < rank[p.values[r].next]
  BY <1>1
<1>3. Len(p.values) \in Nat
  BY FormFacts
<1> DEFINE Good(r) == \E q \in Seq(Refs(p)) : IsPath(p, q, r)
           Bad == {d \in Nat : \E r \in Refs(p) : ~ Good(r) /\ d = bound - rank[r]}
<1>4. ASSUME NEW r \in Refs(p), p.values[r].next = 0 \/ Good(p.values[r].next) PROVE Good(r)
  <2>1. Good(p.values[r].next)
    <3>1. CASE p.values[r].next = 0
      <4>1. <<>> \in Seq(Refs(p)) /\ IsPath(p, <<>>, 0)
        BY DEF IsPath
      <4>. QED  BY <3>1, <4>1
    <3>. QED  BY <1>4, <3>1
  <2>2. PICK q \in Seq(Refs(p)) : IsPath(p, q, p.values[r].next)
    BY <2>1
  <2>. QED  BY <1>3, <2>2, PathCons
<1>5. Bad = {}
  <2>1. SUFFICES ASSUME Bad # {} PROVE FALSE
    OBVIOUS
  <2>2. PICK m \in Bad : \A d \in Bad : m <= d
    <3>1. Bad \in SUBSET Nat
      OBVIOUS
    <3> HIDE DEF Bad
    <3>. QED  BY <2>1, <3>1, Least
  <2>3. PICK r \in Refs(p) : ~ Good(r) /\ m = bound - rank[r]
    <3> HIDE DEF Good
    <3>. QED  OBVIOUS
  <2>4. p.values[r].next # 0 /\ ~ Good(p.values[r].next)
    <3> HIDE DEF Good
    <3>. QED  BY <1>4, <2>3
  <2>5. p.values[r].next \in Refs(p) /\ rank[r] < rank[p.values[r].next]
    BY <1>2, <2>4
  <2> DEFINE n == p.values[r].next
  <2>6. rank[r] \in 0..bound /\ rank[n] \in 0..bound
    BY <2>5
  <2>7. bound - rank[n] \in Nat /\ bound - rank[n] < m
    BY <2>3, <2>5, <2>6
  <2>8. bound - rank[n] \in Bad
    <3> HIDE DEF Good
    <3>. QED  BY <2>4, <2>5, <2>7
  <2>9. m <= bound - rank[n]
    <3> HIDE DEF Bad
    <3>. QED  BY <2>2, <2>8
  <2>10. m \in Nat
    OBVIOUS
  <2> HIDE DEF Bad
  <2>. QED  BY <2>6, <2>7, <2>9, <2>10
<1>6. \A r \in Refs(p) : Good(r)
  <2> HIDE DEF Good
  <2>1. \A r \in Refs(p) : bound - rank[r] \in Nat
    BY <1>2
  <2>. QED  BY <1>5, <2>1
<1>7. CASE i = 0
  <2>1. <<>> \in Seq(Refs(p)) /\ IsPath(p, <<>>, 0)
    BY DEF IsPath
  <2>. QED  BY <1>7, <2>1
<1>8. CASE i # 0
  BY <1>3, <1>6, <1>8 DEF Refs
<1>. QED  BY <1>7, <1>8

(* What Chain computes is the path from the head of the chain.             *)
LEMMA ChainIs ==
  ASSUME NEW p, NEW Values, PoolForm(p, Values), Ranked(p), NEW h \in Hashes,
         NEW c \in Seq(Refs(p)), IsPath(p, c, p.heads[h])
  PROVE  Chain(p, h) = c
<1> DEFINE D == 0..Len(p.values)
           Def(g) == [i \in D |-> IF i = 0 THEN <<>> ELSE <<i>> \o g[p.values[i].next]]
           from == CHOOSE g : g = Def(g)
           paths == [i \in D |-> CHOOSE q \in Seq(Refs(p)) : IsPath(p, q, i)]
<1>1. Len(p.values) \in Nat /\ p.heads[h] \in D
  BY FormFacts DEF PoolForm
<1>2. \A i \in D : paths[i] \in Seq(Refs(p)) /\ IsPath(p, paths[i], i)
  BY PathExists
<1>3. \A i \in D : i # 0 => i \in Refs(p) /\ p.values[i].next \in D
  <2>1. ASSUME NEW i \in D, i # 0 PROVE i \in Refs(p) /\ p.values[i].next \in D
    <3>1. i \in Refs(p)
      BY <1>1, <2>1 DEF Refs
    <3>2. p.values[i].next # 0 => p.values[i].next \in Refs(p)
      BY <3>1 DEF Ranked
    <3>. QED  BY <1>1, <3>1, <3>2 DEF Refs
  <2>. QED  BY <2>1
<1>4. paths = Def(paths)
  <2>1. ASSUME NEW i \in D
        PROVE  paths[i] = IF i = 0 THEN <<>> ELSE <<i>> \o paths[p.values[i].next]
    <3>1. CASE i = 0
      <4>1. IsPath(p, paths[i], i)
        BY <1>2
      <4>. QED  BY <3>1, <4>1 DEF IsPath
    <3>2. CASE i # 0
      <4> DEFINE n == p.values[i].next
      <4>1. i \in Refs(p) /\ n \in D
        BY <1>3, <3>2
      <4>2. paths[n] \in Seq(Refs(p)) /\ IsPath(p, paths[n], n)
        BY <1>2, <4>1
      <4>3. paths[i] \in Seq(Refs(p)) /\ IsPath(p, paths[i], i)
        BY <1>2
      <4> HIDE DEF paths
      <4>4. <<i>> \o paths[n] \in Seq(Refs(p)) /\ IsPath(p, <<i>> \o paths[n], i)
        BY <1>1, <4>1, <4>2, PathCons
      <4>5. paths[i] = <<i>> \o paths[n]
        BY <1>1, <4>3, <4>4, PathUnique
      <4>. QED  BY <3>2, <4>5
    <3>. QED  BY <3>1, <3>2
  <2>2. paths = [i \in D |-> paths[i]]
    OBVIOUS
  <2> HIDE DEF paths
  <2>. QED  BY <2>1, <2>2
<1>5. from = Def(from)
  <2> HIDE DEF paths, Def
  <2>. QED  BY <1>4
<1>6. \A i \in D : from[i] = IF i = 0 THEN <<>> ELSE <<i>> \o from[p.values[i].next]
  <2> HIDE DEF from
  <2>. QED  BY <1>5
<1> HIDE DEF from
<1> DEFINE Bad == {n \in Nat : \E i \in D, q \in Seq(Refs(p)) :
                                 IsPath(p, q, i) /\ Len(q) = n /\ from[i] # q}
<1>7. Bad = {}
  <2>1. SUFFICES ASSUME Bad # {} PROVE FALSE
    OBVIOUS
  <2>2. PICK m \in Bad : \A n \in Bad : m <= n
    <3>1. Bad \in SUBSET Nat
      OBVIOUS
    <3> HIDE DEF Bad
    <3>. QED  BY <2>1, <3>1, Least
  <2>3. PICK i \in D, q \in Seq(Refs(p)) : IsPath(p, q, i) /\ Len(q) = m /\ from[i] # q
    OBVIOUS
  <2>4. i # 0
    <3>1. i = 0 => q = <<>> /\ from[i] = <<>>
      BY <1>6, <2>3 DEF IsPath
    <3>. QED  BY <2>3, <3>1
  <2> DEFINE n == p.values[i].next
  <2>5. i \in Refs(p) /\ n \in D /\ from[i] = <<i>> \o from[n]
    BY <1>3, <1>6, <2>4
  <2>6. /\ Tail(q) \in Seq(Refs(p)) /\ IsPath(p, Tail(q), n)
        /\ q = <<i>> \o Tail(q) /\ Len(Tail(q)) = Len(q) - 1 /\ Len(q) \in Nat
    BY <1>1, <2>3, <2>5, PathTail
  <2>7. Len(Tail(q)) \in Nat /\ ~ (m <= Len(Tail(q)))
    BY <2>3, <2>6
  <2>8. Len(Tail(q)) \notin Bad
    <3> HIDE DEF Bad
    <3>. QED  BY <2>2, <2>7
  <2>9. from[n] = Tail(q)
    BY <2>5, <2>6, <2>7, <2>8
  <2>. QED  BY <2>3, <2>5, <2>6, <2>9
<1>8. from[p.heads[h]] = c
  <2>1. Len(c) \in Nat
    OBVIOUS
  <2>. QED  BY <1>1, <1>7, <2>1
<1>. QED  BY <1>8 DEF Chain, from

(* A pool one part of which changes.                                       *)
LEMMA ValuesChange ==
  ASSUME NEW p, NEW Values, PoolForm(p, Values), NEW v,
         v \in Seq([value : Values, refCount : Nat, next : Nat]), Len(v) = Len(p.values)
  PROVE  LET q == [p EXCEPT !.values = v]
         IN  /\ PoolForm(q, Values) /\ Refs(q) = Refs(p)
             /\ q.values = v /\ q.heads = p.heads /\ q.available = p.available
<1> DEFINE q == [p EXCEPT !.values = v]
<1>1. q = [values |-> v, available |-> p.available, heads |-> p.heads]
  <2> DEFINE x == [values |-> p.values, available |-> p.available, heads |-> p.heads]
  <2>1. [x EXCEPT !.values = v] = [values |-> v, available |-> p.available, heads |-> p.heads]
    OBVIOUS
  <2>2. p = x
    BY DEF PoolForm
  <2> HIDE DEF x
  <2>. QED  BY <2>1, <2>2
<1> HIDE DEF q
<1>2. q.values = v /\ q.heads = p.heads /\ q.available = p.available
  BY <1>1
<1>3. Refs(q) = Refs(p)
  BY <1>2 DEF Refs
<1>. QED  BY <1>1, <1>2, <1>3 DEF PoolForm, q

LEMMA EntryChange ==
  ASSUME NEW p, NEW Values, PoolForm(p, Values), NEW ref \in Refs(p),
         NEW e \in [value : Values, refCount : Nat, next : Nat]
  PROVE  LET q == [p EXCEPT !.values = [p.values EXCEPT ![ref] = e]]
         IN  /\ PoolForm(q, Values) /\ Refs(q) = Refs(p)
             /\ q.heads = p.heads /\ q.available = p.available
             /\ \A r \in Refs(p) : q.values[r] = IF r = ref THEN e ELSE p.values[r]
<1> DEFINE E == [value : Values, refCount : Nat, next : Nat]
           v == [p.values EXCEPT ![ref] = e]
           q == [p EXCEPT !.values = v]
<1>1. p.values \in Seq(E) /\ DOMAIN p.values = Refs(p) /\ Len(p.values) \in Nat
      /\ Refs(p) = 1..Len(p.values)
  BY FormFacts DEF PoolForm
<1>2. v \in Seq(E) /\ Len(v) = Len(p.values) /\ \A r \in Refs(p) : v[r] = IF r = ref THEN e ELSE p.values[r]
  <2>1. e \in E
    OBVIOUS
  <2> HIDE DEF E
  <2>2. v \in [1..Len(p.values) -> E]
    BY <1>1, <2>1
  <2>. QED  BY <1>1, <2>1, <2>2
<1>3. /\ PoolForm(q, Values) /\ Refs(q) = Refs(p)
      /\ q.values = v /\ q.heads = p.heads /\ q.available = p.available
  <2> HIDE DEF v
  <2>. QED  BY <1>2, ValuesChange
<1>4. \A r \in Refs(p) : q.values[r] = IF r = ref THEN e ELSE p.values[r]
  <2> HIDE DEF v, q
  <2>. QED  BY <1>2, <1>3
<1>. QED  BY <1>3, <1>4

LEMMA Counted ==
  ASSUME NEW p, NEW Values, PoolForm(p, Values), NEW ref \in Refs(p), NEW n \in Nat
  PROVE  LET q == [p EXCEPT !.values[ref].refCount = n]
         IN  /\ PoolForm(q, Values) /\ Refs(q) = Refs(p)
             /\ q.heads = p.heads /\ q.available = p.available
             /\ \A r \in Refs(p) :
                  /\ q.values[r].value = p.values[r].value /\ q.values[r].next = p.values[r].next
                  /\ q.values[r].refCount = IF r = ref THEN n ELSE p.values[r].refCount
<1> DEFINE x == p.values[ref]
           e == [x EXCEPT !.refCount = n]
           q == [p EXCEPT !.values = [p.values EXCEPT ![ref] = e]]
<1>1. /\ x = [value |-> x.value, refCount |-> x.refCount, next |-> x.next]
      /\ x.value \in Values /\ x.next \in Nat
  BY FormFacts
<1>2. e = [value |-> x.value, refCount |-> n, next |-> x.next]
  <2> HIDE DEF x
  <2>. QED  BY <1>1
<1> HIDE DEF x
<1>3. /\ e \in [value : Values, refCount : Nat, next : Nat]
      /\ e.value = x.value /\ e.refCount = n /\ e.next = x.next
  BY <1>1, <1>2
<1> HIDE DEF e
<1>4. /\ PoolForm(q, Values) /\ Refs(q) = Refs(p)
      /\ q.heads = p.heads /\ q.available = p.available
      /\ \A r \in Refs(p) : q.values[r] = IF r = ref THEN e ELSE p.values[r]
  BY <1>3, EntryChange
<1> HIDE DEF q
<1>5. \A r \in Refs(p) :
        /\ q.values[r].value = p.values[r].value /\ q.values[r].next = p.values[r].next
        /\ q.values[r].refCount = IF r = ref THEN n ELSE p.values[r].refCount
  BY <1>3, <1>4 DEF x
<1>6. q = [p EXCEPT !.values[ref].refCount = n]
  BY DEF q, e, x
<1>. QED  BY <1>4, <1>5, <1>6

LEMMA Relinked ==
  ASSUME NEW p, NEW Values, PoolForm(p, Values), NEW ref \in Refs(p), NEW n \in Nat
  PROVE  LET q == [p EXCEPT !.values[ref].next = n]
         IN  /\ PoolForm(q, Values) /\ Refs(q) = Refs(p)
             /\ q.heads = p.heads /\ q.available = p.available
             /\ \A r \in Refs(p) :
                  /\ q.values[r].value = p.values[r].value
                  /\ q.values[r].refCount = p.values[r].refCount
                  /\ q.values[r].next = IF r = ref THEN n ELSE p.values[r].next
<1> DEFINE x == p.values[ref]
           e == [x EXCEPT !.next = n]
           q == [p EXCEPT !.values = [p.values EXCEPT ![ref] = e]]
<1>1. /\ x = [value |-> x.value, refCount |-> x.refCount, next |-> x.next]
      /\ x.value \in Values /\ x.refCount \in Nat
  BY FormFacts
<1>2. e = [value |-> x.value, refCount |-> x.refCount, next |-> n]
  <2> HIDE DEF x
  <2>. QED  BY <1>1
<1> HIDE DEF x
<1>3. /\ e \in [value : Values, refCount : Nat, next : Nat]
      /\ e.value = x.value /\ e.refCount = x.refCount /\ e.next = n
  BY <1>1, <1>2
<1> HIDE DEF e
<1>4. /\ PoolForm(q, Values) /\ Refs(q) = Refs(p)
      /\ q.heads = p.heads /\ q.available = p.available
      /\ \A r \in Refs(p) : q.values[r] = IF r = ref THEN e ELSE p.values[r]
  BY <1>3, EntryChange
<1> HIDE DEF q
<1>5. \A r \in Refs(p) :
        /\ q.values[r].value = p.values[r].value
        /\ q.values[r].refCount = p.values[r].refCount
        /\ q.values[r].next = IF r = ref THEN n ELSE p.values[r].next
  BY <1>3, <1>4 DEF x
<1>6. q = [p EXCEPT !.values[ref].next = n]
  BY DEF q, e, x
<1>. QED  BY <1>4, <1>5, <1>6

(* The head of a chain changes, the free references change.                *)
LEMMA Reheaded ==
  ASSUME NEW p, NEW Values, PoolForm(p, Values), NEW h \in Hashes, NEW n \in 0..Len(p.values)
  PROVE  LET q == [p EXCEPT !.heads[h] = n]
         IN  /\ PoolForm(q, Values) /\ Refs(q) = Refs(p)
             /\ q.values = p.values /\ q.available = p.available
             /\ q.heads = [p.heads EXCEPT ![h] = n]
<1> DEFINE q == [p EXCEPT !.heads[h] = n]
           g == [p.heads EXCEPT ![h] = n]
<1>1. q = [values |-> p.values, available |-> p.available, heads |-> g]
  <2> DEFINE x == [values |-> p.values, available |-> p.available, heads |-> p.heads]
  <2>1. [x EXCEPT !.heads = g] = [values |-> p.values, available |-> p.available, heads |-> g]
    OBVIOUS
  <2>2. p = x
    BY DEF PoolForm
  <2>3. q = [p EXCEPT !.heads = g]
    OBVIOUS
  <2> HIDE DEF x, g, q
  <2>. QED  BY <2>1, <2>2, <2>3
<1>2. g \in [Hashes -> 0..Len(p.values)]
  BY DEF PoolForm
<1> HIDE DEF q
<1>3. q.values = p.values /\ q.heads = g /\ q.available = p.available
  <2> HIDE DEF g
  <2>. QED  BY <1>1
<1>4. Refs(q) = Refs(p)
  BY <1>3 DEF Refs
<1>5. PoolForm(q, Values)
  <2> HIDE DEF g
  <2>. QED  BY <1>1, <1>2, <1>3, <1>4 DEF PoolForm
<1>. QED  BY <1>3, <1>4, <1>5 DEF q

LEMMA AvailableChange ==
  ASSUME NEW p, NEW Values, PoolForm(p, Values), NEW a \in Seq(Refs(p))
  PROVE  LET q == [p EXCEPT !.available = a]
         IN  /\ PoolForm(q, Values) /\ Refs(q) = Refs(p)
             /\ q.values = p.values /\ q.heads = p.heads /\ q.available = a
<1> DEFINE q == [p EXCEPT !.available = a]
<1>1. q = [values |-> p.values, available |-> a, heads |-> p.heads]
  <2> DEFINE x == [values |-> p.values, available |-> p.available, heads |-> p.heads]
  <2>1. [x EXCEPT !.available = a] = [values |-> p.values, available |-> a, heads |-> p.heads]
    OBVIOUS
  <2>2. p = x
    BY DEF PoolForm
  <2> HIDE DEF x
  <2>. QED  BY <2>1, <2>2
<1> HIDE DEF q
<1>2. q.values = p.values /\ q.heads = p.heads /\ q.available = a
  BY <1>1
<1>3. Refs(q) = Refs(p)
  BY <1>2 DEF Refs
<1>. QED  BY <1>1, <1>2, <1>3 DEF PoolForm, q

-----------------------------------------------------------------------------
(* Links and chains                                                        *)

SameLinks(p, q) ==
  /\ Refs(q) = Refs(p) /\ q.heads = p.heads
  /\ \A r \in Refs(p) : q.values[r].next = p.values[r].next

(* A path depends on the links of what it goes through.                    *)
LEMMA SamePath ==
  ASSUME NEW p, NEW q, NEW c, NEW i, IsPath(p, c, i),
         \A k \in 1..Len(c) : q.values[c[k]].next = p.values[c[k]].next
  PROVE  IsPath(q, c, i)
<1>1. Linked(p, c) => Linked(q, c)
  BY DEF Linked
<1>. QED  BY <1>1 DEF IsPath

LEMMA ElementsOf ==
  ASSUME NEW S, NEW c \in Seq(S)
  PROVE  Len(c) \in Nat /\ \A k \in 1..Len(c) : c[k] \in S
OBVIOUS

LEMMA SameRanks ==
  ASSUME NEW p, NEW q, Ranked(p), SameLinks(p, q)
  PROVE  Ranked(q)
BY DEF Ranked, SameLinks

LEMMA ChainOf ==
  ASSUME NEW p, NEW Values, Sound(p, Values), NEW h \in Hashes
  PROVE  IsChain(p, h, Chain(p, h))
<1>1. PICK c : IsChain(p, h, c)
  BY DEF Sound
<1>2. c \in Seq(Refs(p)) /\ IsPath(p, c, p.heads[h])
  BY <1>1 DEF IsChain
<1>3. PoolForm(p, Values) /\ Ranked(p)
  BY DEF Sound
<1>4. Chain(p, h) = c
  BY <1>2, <1>3, ChainIs
<1>. QED  BY <1>1, <1>4

(* A value is found when it has a live reference, and this is the one.     *)
LEMMA RefIs ==
  ASSUME NEW p, NEW Values, Sound(p, Values), NEW v \in Values, Hash(v) \in Hashes
  PROVE  /\ Ref(p, v) = 0 => \A r \in Live(p) : p.values[r].value # v
         /\ Ref(p, v) # 0 => Ref(p, v) \in Live(p) /\ p.values[Ref(p, v)].value = v
         /\ \A r \in Live(p) : p.values[r].value = v => Ref(p, v) = r
<1> DEFINE c == Chain(p, Hash(v))
           same == {i \in DOMAIN c : Get(p, c[i]) = v}
           least == CHOOSE i \in same : \A j \in same : i <= j
<1>1. IsChain(p, Hash(v), c)
  BY ChainOf
<1>2. Ref(p, v) = IF same = {} THEN 0 ELSE c[least]
  BY DEF Ref
<1> HIDE DEF c
<1>3. c \in Seq(Refs(p))
  BY <1>1 DEF IsChain
<1>4. Len(c) \in Nat /\ DOMAIN c = 1..Len(c) /\ \A k \in 1..Len(c) : c[k] \in Refs(p)
  BY <1>3
<1>5. \A r \in Refs(p) : (\E i \in 1..Len(c) : c[i] = r) <=> r \in Live(p) /\ Hash(p.values[r].value) = Hash(v)
  BY <1>1 DEF IsChain
<1>6. ASSUME NEW r \in Live(p), p.values[r].value = v PROVE same # {}
  <2>1. r \in Refs(p)
    BY DEF Live
  <2>2. PICK i \in 1..Len(c) : c[i] = r
    BY <1>5, <1>6, <2>1
  <2>. QED  BY <1>4, <1>6, <2>2 DEF Get
<1>7. ASSUME same # {} PROVE c[least] \in Live(p) /\ p.values[c[least]].value = v
  <2>1. same \in SUBSET Nat
    BY <1>4
  <2>2. \E i \in same : \A j \in same : i <= j
    <3> HIDE DEF same
    <3>. QED  BY <1>7, <2>1, Least
  <2>3. least \in same
    <3> HIDE DEF same
    <3>. QED  BY <2>2
  <2>4. least \in 1..Len(c) /\ Get(p, c[least]) = v
    <3> HIDE DEF least
    <3>. QED  BY <1>4, <2>3
  <2> HIDE DEF least, same
  <2>5. c[least] \in Refs(p)
    BY <1>4, <2>4
  <2>. QED  BY <1>5, <2>4, <2>5 DEF Get
<1>8. \A r \in Live(p) : r # 0
  BY DEF Live, Refs
<1>9. \A r, s \in Live(p) : p.values[r].value = p.values[s].value => r = s
  BY DEF Sound
<1> HIDE DEF same, least
<1>. QED  BY <1>2, <1>6, <1>7, <1>8, <1>9

(* Only counts change, and no value becomes live or dead.                  *)
LEMMA CountsChange ==
  ASSUME NEW p, NEW Values, Sound(p, Values), NEW q, PoolForm(q, Values),
         SameLinks(p, q), Live(q) = Live(p), q.available = p.available,
         \A r \in Refs(p) : q.values[r].value = p.values[r].value
  PROVE  Sound(q, Values)
<1>1. Ranked(q)
  BY SameRanks DEF Sound
<1>2. Refs(q) = Refs(p) /\ q.heads = p.heads
      /\ \A r \in Refs(p) : q.values[r].next = p.values[r].next
  BY DEF SameLinks
<1>3. ASSUME NEW h \in Hashes PROVE \E c : IsChain(q, h, c)
  <2>1. PICK c : IsChain(p, h, c)
    BY DEF Sound
  <2>2. c \in Seq(Refs(p)) /\ IsPath(p, c, p.heads[h])
        /\ (\A i, j \in 1..Len(c) : c[i] = c[j] => i = j)
        /\ (\A r \in Refs(p) :
              (\E i \in 1..Len(c) : c[i] = r) <=> r \in Live(p) /\ Hash(p.values[r].value) = h)
    BY <2>1 DEF IsChain
  <2>3. \A k \in 1..Len(c) : c[k] \in Refs(p)
    BY <2>2, ElementsOf
  <2>4. IsPath(q, c, q.heads[h])
    BY <1>2, <2>2, <2>3, SamePath
  <2>5. \A r \in Refs(q) :
          (\E i \in 1..Len(c) : c[i] = r) <=> r \in Live(q) /\ Hash(q.values[r].value) = h
    BY <1>2, <2>2
  <2>6. IsChain(q, h, c)
    BY <1>2, <2>2, <2>4, <2>5 DEF IsChain
  <2>. QED  BY <2>6
<1>4. \A r, s \in Live(q) : q.values[r].value = q.values[s].value => r = s
  <2>1. \A r \in Live(p) : r \in Refs(p)
    BY DEF Live
  <2>2. \A r, s \in Live(p) : p.values[r].value = p.values[s].value => r = s
    BY DEF Sound
  <2>. QED  BY <2>1, <2>2
<1>5. AvailableInv(q)
  BY <1>2 DEF AvailableInv, Sound
<1>. QED  BY <1>1, <1>3, <1>4, <1>5 DEF Sound

-----------------------------------------------------------------------------
(* Putting a value                                                         *)

(* What Insert gives, entry by entry.                                      *)
LEMMA InsertForm ==
  ASSUME NEW p, NEW Values, Sound(p, Values), NEW v \in Values, Hash(v) \in Hashes
  PROVE  LET index == NewIndex(p)
             c == Chain(p, Hash(v))
             q == Insert(p, v)
         IN  /\ PoolForm(q, Values) /\ Refs(q) = Refs(p) \cup {index}
             /\ index \in Nat \ {0} /\ index \notin Live(p)
             /\ \A r \in Refs(p) : r # index =>
                  /\ q.values[r].value = p.values[r].value
                  /\ q.values[r].refCount = p.values[r].refCount
                  /\ q.values[r].next = IF Len(c) # 0 /\ r = c[Len(c)] THEN index ELSE p.values[r].next
             /\ q.values[index].value = v /\ q.values[index].refCount = 1
             /\ q.values[index].next = 0
             /\ q.heads = IF Len(c) = 0 THEN [p.heads EXCEPT ![Hash(v)] = index] ELSE p.heads
             /\ q.available = IF p.available = <<>> THEN <<>> ELSE Front(p.available)
<1> DEFINE index == NewIndex(p)
           c == Chain(p, Hash(v))
           q == Insert(p, v)
           n == Len(p.values)
           E == [value : Values, refCount : Nat, next : Nat]
           new == [value |-> v, refCount |-> 1, next |-> 0]
           linked == IF c = <<>> THEN p.values ELSE [p.values EXCEPT ![Last(c)].next = index]
           vals == IF index \in DOMAIN linked THEN [linked EXCEPT ![index] = new] ELSE Append(linked, new)
           free == IF p.available = <<>> THEN <<>> ELSE Front(p.available)
           heads == IF c = <<>> THEN [p.heads EXCEPT ![Hash(v)] = index] ELSE p.heads
<1>1. q = [values |-> vals, available |-> free, heads |-> heads]
  BY DEF Insert
<1>2. /\ PoolForm(p, Values) /\ n \in Nat /\ Refs(p) = 1..n /\ DOMAIN p.values = 1..n
      /\ p.values \in Seq(E) /\ p.heads \in [Hashes -> 0..n]
      /\ p.available \in Seq(Refs(p))
      /\ Len(p.available) \in Nat /\ \A i \in 1..Len(p.available) : p.available[i] \in Refs(p)
  BY FormFacts DEF Sound, PoolForm
<1>n. n \in Nat
  BY <1>2
<1>p. PoolForm(p, Values)
  BY DEF Sound
<1>3. IsChain(p, Hash(v), c)
  BY ChainOf
<1> HIDE DEF c
<1>4. c \in Seq(Refs(p)) /\ Len(c) \in Nat /\ (c = <<>> <=> Len(c) = 0)
      /\ \A k \in 1..Len(c) : c[k] \in Refs(p)
  BY <1>3 DEF IsChain
<1>5. /\ index \in 1..(n + 1) /\ index \notin Live(p)
      /\ p.available = <<>> => index = n + 1
      /\ p.available # <<>> => index = p.available[Len(p.available)] /\ index \in 1..n
  <2>1. CASE p.available = <<>>
    <3>1. index = n + 1
      BY <2>1 DEF NewIndex
    <3>2. n + 1 \notin Refs(p)
      BY <1>2
    <3> HIDE DEF index
    <3>. QED  BY <1>2, <2>1, <3>1, <3>2 DEF Live
  <2>2. CASE p.available # <<>>
    <3>1. index = p.available[Len(p.available)]
      BY <2>2 DEF NewIndex, Last
    <3>2. Len(p.available) \in 1..Len(p.available)
      BY <1>2, <2>2
    <3>3. p.available[Len(p.available)] \notin Live(p)
      BY <1>2, <3>2 DEF Sound, AvailableInv
    <3> HIDE DEF index
    <3>. QED  BY SMTT(30), <1>2, <2>2, <3>1, <3>2, <3>3
  <2>. QED  BY <2>1, <2>2
<1> HIDE DEF index
<1>6. /\ linked \in Seq(E) /\ Len(linked) = n /\ DOMAIN linked = 1..n
      /\ \A r \in Refs(p) :
           /\ linked[r].value = p.values[r].value
           /\ linked[r].refCount = p.values[r].refCount
           /\ linked[r].next = IF Len(c) # 0 /\ r = c[Len(c)] THEN index ELSE p.values[r].next
  <2>1. CASE c = <<>>
    <3>1. linked = p.values
      BY <2>1
    <3> HIDE DEF linked, E
    <3>. QED  BY <1>2, <1>4, <2>1, <3>1
  <2>2. CASE c # <<>>
    <3> DEFINE last == c[Len(c)]
               y == [p EXCEPT !.values[last].next = index]
    <3>1. last \in Refs(p) /\ index \in Nat /\ Last(c) = last
      <4>1. Len(c) \in 1..Len(c)
        BY <1>4, <2>2
      <4>2. index \in Nat
        BY <1>n, <1>5
      <4>. QED  BY <1>4, <4>1, <4>2 DEF Last
    <3>2. linked = [p.values EXCEPT ![last].next = index]
      BY <2>2, <3>1
    <3> HIDE DEF last, linked, E
    <3>3. /\ PoolForm(y, Values) /\ Refs(y) = Refs(p)
          /\ \A r \in Refs(p) :
               /\ y.values[r].value = p.values[r].value
               /\ y.values[r].refCount = p.values[r].refCount
               /\ y.values[r].next = IF r = last THEN index ELSE p.values[r].next
      BY <1>p, <3>1, Relinked
    <3>4. y.values = linked
      <4> DEFINE x == [values |-> p.values, available |-> p.available, heads |-> p.heads]
      <4>1. [x EXCEPT !.values = linked].values = linked
        OBVIOUS
      <4>2. p = x
        BY <1>2 DEF PoolForm
      <4>3. y = [p EXCEPT !.values = linked]
        BY <3>2
      <4> HIDE DEF x, y
      <4>. QED  BY <4>1, <4>2, <4>3
    <3> HIDE DEF y
    <3>5. linked \in Seq(E) /\ DOMAIN linked = Refs(p)
      BY <3>3, <3>4, FormFacts DEF PoolForm, E
    <3>6. Len(linked) = n
      BY <1>2, <3>5
    <3>. QED  BY <1>2, <1>4, <2>2, <3>3, <3>4, <3>5, <3>6 DEF last
  <2>. QED  BY <2>1, <2>2
<1> HIDE DEF linked
<1>7. new \in E /\ new.value = v /\ new.refCount = 1 /\ new.next = 0
  OBVIOUS
<1>8. /\ vals \in Seq(E) /\ vals[index] = new
      /\ 1..Len(vals) = 1..n \cup {index} /\ Len(vals) \in Nat /\ Len(vals) >= n
      /\ \A r \in 1..n : r # index => vals[r] = linked[r]
  <2>1. CASE index \in 1..n
    <3>1. vals = [linked EXCEPT ![index] = new]
      BY <1>6, <2>1
    <3> HIDE DEF vals, new, E
    <3>2. [linked EXCEPT ![index] = new] \in [1..n -> E]
      <4>1. linked \in [1..n -> E]
        BY <1>6
      <4>. QED  BY <1>7, <4>1
    <3>3. vals \in Seq(E) /\ Len(vals) = n
      BY <1>n, <3>1, <3>2, InSeq
    <3>. QED  BY <1>2, <1>6, <2>1, <3>1, <3>3
  <2>2. CASE index \notin 1..n
    <3>1. index = n + 1
      BY <1>2, <1>5, <2>2
    <3>2. vals = Append(linked, new)
      BY <1>6, <2>2
    <3> HIDE DEF vals, new, E
    <3>3. vals \in Seq(E) /\ Len(vals) = n + 1 /\ vals[n + 1] = new /\ \A r \in 1..n : vals[r] = linked[r]
      BY <1>2, <1>6, <1>7, <3>2
    <3>4. 1..(n + 1) = 1..n \cup {n + 1}
      BY <1>2
    <3>. QED  BY <1>2, <3>1, <3>3, <3>4
  <2>. QED  BY <2>1, <2>2
<1>9. free \in Seq(Refs(p))
  <2>1. CASE p.available = <<>>
    BY <2>1
  <2>2. CASE p.available # <<>>
    BY <1>2, <2>2, FrontFacts
  <2>. QED  BY <2>1, <2>2
<1>10. heads \in [Hashes -> 0..Len(vals)]
  <2>1. index \in 0..Len(vals)
    <3>1. index \in 1..Len(vals)
      BY <1>8
    <3>. QED  BY <3>1
  <2>2. p.heads \in [Hashes -> 0..Len(vals)]
    <3>1. \A x \in 0..n : x \in 0..Len(vals)
      BY <1>2, <1>8
    <3>. QED  BY <1>2, <3>1
  <2> HIDE DEF vals
  <2>. QED  BY <2>1, <2>2
<1> HIDE DEF vals, free, heads, q, new
<1>11. q.values = vals /\ q.available = free /\ q.heads = heads
  BY <1>1
<1>12. Refs(q) = Refs(p) \cup {index}
  BY <1>2, <1>8, <1>11 DEF Refs
<1>13. PoolForm(q, Values)
  <2>1. free \in Seq(Refs(q))
    <3>1. \A x \in Refs(p) : x \in Refs(q)
      BY <1>12
    <3>. QED  BY <1>9, <3>1, SeqMonotonic
  <2>. QED  BY <1>1, <1>8, <1>10, <1>11, <2>1 DEF PoolForm
<1>14. index \in Nat \ {0}
  BY <1>5, <1>n
<1>15. \A r \in Refs(p) : r # index => q.values[r] = linked[r]
  <2>1. \A r \in Refs(p) : r \in 1..n
    BY <1>2
  <2>. QED  BY <1>8, <1>11, <2>1
<1>16. Len(c) = 0 <=> c = <<>>
  BY <1>4
<1>17. /\ heads = IF Len(c) = 0 THEN [p.heads EXCEPT ![Hash(v)] = index] ELSE p.heads
       /\ free = IF p.available = <<>> THEN <<>> ELSE Front(p.available)
  BY <1>16 DEF heads, free
<1>18. /\ \A r \in Refs(p) : r # index =>
            /\ q.values[r].value = p.values[r].value
            /\ q.values[r].refCount = p.values[r].refCount
            /\ q.values[r].next = IF Len(c) # 0 /\ r = c[Len(c)] THEN index ELSE p.values[r].next
       /\ q.values[index].value = v /\ q.values[index].refCount = 1
       /\ q.values[index].next = 0
  <2>1. q.values[index] = new
    BY <1>8, <1>11
  <2>. QED  BY <1>6, <1>7, <1>15, <2>1
<1>19. index \notin Live(p)
  BY <1>5
<1>. QED  BY <1>11, <1>12, <1>13, <1>14, <1>17, <1>18, <1>19 DEF q, c, index

LEMMA AppendFacts ==
  ASSUME NEW S, NEW c \in Seq(S), NEW e \in S
  PROVE  /\ Append(c, e) \in Seq(S) /\ Len(Append(c, e)) = Len(c) + 1 /\ Len(c) \in Nat
         /\ \A k \in 1..Len(c) : Append(c, e)[k] = c[k] /\ c[k] \in S
         /\ Append(c, e)[Len(c) + 1] = e
OBVIOUS

(* The last link of a path is the one without a next value.                *)
LEMMA LastLink ==
  ASSUME NEW p, NEW Values, PoolForm(p, Values), NEW c \in Seq(Refs(p)), NEW i, IsPath(p, c, i)
  PROVE  \A k \in 1..Len(c) : p.values[c[k]].next = After(c, k)
<1>1. i = 0 => Len(c) = 0
  BY DEF IsPath
<1>2. i # 0 => Linked(p, c)
  BY DEF IsPath
<1>. QED  BY <1>1, <1>2 DEF Linked

LEMMA InsertSound ==
  ASSUME NEW p, NEW Values, Sound(p, Values), NEW v \in Values, Hash(v) \in Hashes,
         \A r \in Live(p) : p.values[r].value # v
  PROVE  LET index == NewIndex(p)
             q == Insert(p, v)
         IN  /\ Sound(q, Values) /\ Live(q) = Live(p) \cup {index}
             /\ Refs(q) = Refs(p) \cup {index} /\ index \notin Live(p)
             /\ \A r \in Refs(p) : r # index =>
                  /\ q.values[r].value = p.values[r].value
                  /\ q.values[r].refCount = p.values[r].refCount
             /\ q.values[index].value = v /\ q.values[index].refCount = 1
<1> DEFINE index == NewIndex(p)
           h == Hash(v)
           c == Chain(p, h)
           q == Insert(p, v)
<1>1. /\ PoolForm(q, Values) /\ Refs(q) = Refs(p) \cup {index}
      /\ index \in Nat \ {0} /\ index \notin Live(p)
      /\ \A r \in Refs(p) : r # index =>
           /\ q.values[r].value = p.values[r].value
           /\ q.values[r].refCount = p.values[r].refCount
           /\ q.values[r].next = IF Len(c) # 0 /\ r = c[Len(c)] THEN index ELSE p.values[r].next
      /\ q.values[index].value = v /\ q.values[index].refCount = 1
      /\ q.values[index].next = 0
      /\ q.heads = IF Len(c) = 0 THEN [p.heads EXCEPT ![h] = index] ELSE p.heads
      /\ q.available = IF p.available = <<>> THEN <<>> ELSE Front(p.available)
  BY InsertForm
<1>2. IsChain(p, h, c)
  BY ChainOf
<1>3. PoolForm(p, Values) /\ Ranked(p) /\ AvailableInv(p)
      /\ \A r, s \in Live(p) : p.values[r].value = p.values[s].value => r = s
  BY DEF Sound
<1>f. NewIndex(p) = IF p.available = <<>> THEN Len(p.values) + 1 ELSE p.available[Len(p.available)]
  BY DEF NewIndex, Last
<1> HIDE DEF index, h, c, q
<1>4. c \in Seq(Refs(p)) /\ IsPath(p, c, p.heads[h])
      /\ (\A i, j \in 1..Len(c) : c[i] = c[j] => i = j)
      /\ (\A r \in Refs(p) :
            (\E i \in 1..Len(c) : c[i] = r) <=> r \in Live(p) /\ Hash(p.values[r].value) = h)
  BY <1>2 DEF IsChain
<1>5. Len(c) \in Nat /\ \A k \in 1..Len(c) : c[k] \in Refs(p) /\ c[k] \in Live(p) /\ c[k] # index
  <2>1. Len(c) \in Nat /\ \A k \in 1..Len(c) : c[k] \in Refs(p)
    BY <1>4, ElementsOf
  <2>. QED  BY <1>1, <1>4, <2>1
<1>6. \A k \in 1..Len(c) : p.values[c[k]].next = After(c, k)
  BY <1>3, <1>4, LastLink
<1>7. Live(q) = Live(p) \cup {index}
  <2>1. \A r \in Refs(q) : r \in Live(q) <=> r \in Live(p) \/ r = index
    <3>1. ASSUME NEW r \in Refs(q) PROVE r \in Live(q) <=> r \in Live(p) \/ r = index
      <4>1. CASE r = index
        BY <1>1, <4>1 DEF Live
      <4>2. CASE r # index
        <5>1. r \in Refs(p) /\ q.values[r].refCount = p.values[r].refCount
          BY <1>1, <4>2
        <5>. QED  BY <4>2, <5>1 DEF Live
      <4>. QED  BY <4>1, <4>2
    <3>. QED  BY <3>1
  <2>2. \A r \in Live(p) : r \in Refs(q)
    BY <1>1 DEF Live
  <2>3. \A r \in Live(q) : r \in Refs(q)
    BY DEF Live
  <2>. QED  BY <1>1, <2>1, <2>2, <2>3
<1>8. Ranked(q)
  <2>1. PICK bound \in Nat : \E rank \in [Refs(p) -> 0..bound] :
          \A r \in Refs(p) : p.values[r].next # 0 =>
            p.values[r].next \in Refs(p) /\ rank[r] < rank[p.values[r].next]
    BY <1>3 DEF Ranked
  <2>2. PICK rank \in [Refs(p) -> 0..bound] :
          \A r \in Refs(p) : p.values[r].next # 0 =>
            p.values[r].next \in Refs(p) /\ rank[r] < rank[p.values[r].next]
    BY <2>1
  <2> DEFINE later == [r \in Refs(q) |-> IF r = index THEN bound + 1 ELSE rank[r]]
  <2>3. \A r \in Refs(p) : rank[r] \in 0..bound
    OBVIOUS
  <2>4. later \in [Refs(q) -> 0..(bound + 1)]
    <3>1. ASSUME NEW r \in Refs(q) PROVE later[r] \in 0..(bound + 1)
      <4>1. r = index => later[r] = bound + 1
        OBVIOUS
      <4>2. r # index => later[r] \in 0..bound
        BY <1>1, <2>3
      <4> HIDE DEF later
      <4>. QED  BY <4>1, <4>2
    <3>. QED  BY <3>1
  <2>5. ASSUME NEW r \in Refs(q), q.values[r].next # 0
        PROVE  q.values[r].next \in Refs(q) /\ later[r] < later[q.values[r].next]
    <3>1. r # index /\ r \in Refs(p)
      BY <1>1, <2>5
    <3>2. later[r] = rank[r] /\ rank[r] \in 0..bound
      BY <1>1, <2>3, <3>1
    <3>3. CASE q.values[r].next = index
      <4>1. index \in Refs(q)
        BY <1>1
      <4>2. later[index] = bound + 1
        BY <4>1
      <4> HIDE DEF later
      <4>. QED  BY <3>2, <3>3, <4>1, <4>2
    <3>4. CASE q.values[r].next # index
      <4> DEFINE n == q.values[r].next
      <4>1. n = p.values[r].next
        BY <1>1, <3>1, <3>4
      <4>2. n \in Refs(p) /\ rank[r] < rank[n]
        BY <2>2, <2>5, <3>1, <4>1
      <4>3. n \in Refs(q) /\ later[n] = rank[n]
        BY <1>1, <3>4, <4>2
      <4> HIDE DEF later, n
      <4>4. later[r] < later[n]
        BY <3>2, <4>2, <4>3
      <4>. QED  BY <4>3, <4>4 DEF n
    <3>. QED  BY <3>3, <3>4
  <2> HIDE DEF later
  <2>6. bound + 1 \in Nat
    OBVIOUS
  <2>. QED  BY <2>4, <2>5, <2>6 DEF Ranked
<1>9. ASSUME NEW g \in Hashes PROVE \E d : IsChain(q, g, d)
  <2>1. CASE g = h
    <3> DEFINE d == Append(c, index)
    <3>1. c \in Seq(Refs(q)) /\ index \in Refs(q)
      <4>1. \A x \in Refs(p) : x \in Refs(q)
        BY <1>1
      <4>. QED  BY <1>1, <1>4, <4>1, SeqMonotonic
    <3>2. /\ d \in Seq(Refs(q)) /\ Len(d) = Len(c) + 1
          /\ \A k \in 1..Len(c) : d[k] = c[k]
          /\ d[Len(c) + 1] = index
      BY <3>1, AppendFacts
    <3> HIDE DEF d
    <3>3. Linked(q, d)
      <4>1. SUFFICES ASSUME NEW k \in 1..Len(d) PROVE q.values[d[k]].next = After(d, k)
        BY DEF Linked
      <4>2. CASE k = Len(c) + 1
        <5>1. After(d, k) = 0 /\ d[k] = index
          BY <3>2, <4>2 DEF After
        <5>. QED  BY <1>1, <5>1
      <4>3. CASE k # Len(c) + 1
        <5>1. k \in 1..Len(c) /\ k \in Nat /\ k # Len(d)
          BY <1>5, <3>2, <4>3
        <5>2. d[k] = c[k] /\ c[k] \in Refs(p) /\ c[k] # index /\ After(d, k) = d[k + 1]
          BY <1>5, <3>2, <5>1 DEF After
        <5>3. CASE k = Len(c)
          <6>1. d[k + 1] = index /\ Len(c) # 0
            BY <3>2, <5>1, <5>3
          <6>. QED  BY <1>1, <5>2, <5>3, <6>1
        <5>4. CASE k # Len(c)
          <6>1. k + 1 \in 1..Len(c) /\ Len(c) \in 1..Len(c)
            BY <1>5, <5>1, <5>4
          <6>2. c[k] # c[Len(c)]
            BY <1>4, <5>1, <5>4, <6>1
          <6>3. q.values[c[k]].next = p.values[c[k]].next
            BY <1>1, <5>2, <6>2
          <6>4. p.values[c[k]].next = c[k + 1]
            BY <1>6, <5>1, <5>4 DEF After
          <6>5. d[k + 1] = c[k + 1]
            BY <3>2, <6>1
          <6>. QED  BY <5>2, <6>3, <6>4, <6>5
        <5>. QED  BY <5>3, <5>4
      <4>. QED  BY <4>2, <4>3
    <3>4. IsPath(q, d, q.heads[g])
      <4>1. Len(d) # 0
        BY <1>5, <3>2
      <4>2. CASE Len(c) = 0
        <5>1. h \in DOMAIN p.heads
          BY <1>3, <2>1 DEF PoolForm
        <5>2. q.heads[g] = index
          BY <1>1, <2>1, <4>2, <5>1
        <5>3. d[1] = index
          BY <3>2, <4>2
        <5>. QED  BY <1>1, <3>3, <4>1, <5>2, <5>3 DEF IsPath
      <4>3. CASE Len(c) # 0
        <5>1. q.heads[g] = p.heads[h]
          BY <1>1, <2>1, <4>3
        <5>2. p.heads[h] # 0 /\ c[1] = p.heads[h]
          BY <1>4, <4>3 DEF IsPath
        <5>3. d[1] = c[1]
          <6>1. 1 \in 1..Len(c)
            BY <1>5, <4>3
          <6>. QED  BY <3>2, <6>1
        <5>. QED  BY <3>3, <4>1, <5>1, <5>2, <5>3 DEF IsPath
      <4>. QED  BY <4>2, <4>3
    <3>5. ASSUME NEW i \in 1..Len(d), NEW j \in 1..Len(d), d[i] = d[j] PROVE i = j
      <4>1. \A k \in 1..Len(d) : k = Len(c) + 1 \/ k \in 1..Len(c)
        BY <1>5, <3>2
      <4>. QED  BY <1>4, <1>5, <3>2, <3>5, <4>1
    <3>6. ASSUME NEW r \in Refs(q)
          PROVE  (\E i \in 1..Len(d) : d[i] = r) <=> r \in Live(q) /\ Hash(q.values[r].value) = g
      <4>1. CASE r = index
        <5>1. Len(c) + 1 \in 1..Len(d)
          BY <1>5, <3>2
        <5>2. Hash(v) = h
          BY DEF h
        <5>. QED  BY <1>1, <1>7, <2>1, <3>2, <4>1, <5>1, <5>2
      <4>2. CASE r # index
        <5>1. r \in Refs(p) /\ q.values[r].value = p.values[r].value /\ (r \in Live(q) <=> r \in Live(p))
          BY <1>1, <1>7, <4>2
        <5>2. (\E i \in 1..Len(d) : d[i] = r) <=> \E i \in 1..Len(c) : c[i] = r
          <6>1. \A k \in 1..Len(d) : k = Len(c) + 1 \/ k \in 1..Len(c)
            BY <1>5, <3>2
          <6>2. \A k \in 1..Len(c) : k \in 1..Len(d)
            BY <1>5, <3>2
          <6>. QED  BY <3>2, <4>2, <6>1, <6>2
        <5>. QED  BY <1>4, <2>1, <5>1, <5>2
      <4>. QED  BY <4>1, <4>2
    <3>7. IsChain(q, g, d)
      BY <3>2, <3>4, <3>5, <3>6 DEF IsChain
    <3>. QED  BY <3>7
  <2>2. CASE g # h
    <3>1. PICK d : IsChain(p, g, d)
      BY DEF Sound
    <3>2. d \in Seq(Refs(p)) /\ IsPath(p, d, p.heads[g])
          /\ (\A i, j \in 1..Len(d) : d[i] = d[j] => i = j)
          /\ (\A r \in Refs(p) :
                (\E i \in 1..Len(d) : d[i] = r) <=> r \in Live(p) /\ Hash(p.values[r].value) = g)
      BY <3>1 DEF IsChain
    <3>3. Len(d) \in Nat /\ \A k \in 1..Len(d) : d[k] \in Refs(p) /\ d[k] \in Live(p)
             /\ Hash(p.values[d[k]].value) = g
      <4>1. Len(d) \in Nat /\ \A k \in 1..Len(d) : d[k] \in Refs(p)
        BY <3>2, ElementsOf
      <4>. QED  BY <3>2, <4>1
    <3>4. ASSUME NEW k \in 1..Len(d) PROVE q.values[d[k]].next = p.values[d[k]].next
      <4>1. d[k] \in Refs(p) /\ d[k] # index
        BY <1>1, <3>3
      <4>2. ~ (Len(c) # 0 /\ d[k] = c[Len(c)])
        <5>1. SUFFICES ASSUME Len(c) # 0, d[k] = c[Len(c)] PROVE FALSE
          OBVIOUS
        <5>2. Len(c) \in 1..Len(c)
          BY <1>5, <5>1
        <5>3. Hash(p.values[c[Len(c)]].value) = h
          BY <1>4, <1>5, <5>2
        <5>. QED  BY <2>2, <3>3, <5>1, <5>3
      <4>. QED  BY <1>1, <4>1, <4>2
    <3>5. q.heads[g] = p.heads[g]
      <4>1. p.heads \in [Hashes -> 0..Len(p.values)]
        BY <1>3 DEF PoolForm
      <4>. QED  BY <1>1, <2>2, <4>1
    <3>6. IsPath(q, d, q.heads[g])
      BY <3>2, <3>4, <3>5, SamePath
    <3>7. d \in Seq(Refs(q))
      <4>1. \A x \in Refs(p) : x \in Refs(q)
        BY <1>1
      <4>. QED  BY <3>2, <4>1, SeqMonotonic
    <3>8. ASSUME NEW r \in Refs(q)
          PROVE  (\E i \in 1..Len(d) : d[i] = r) <=> r \in Live(q) /\ Hash(q.values[r].value) = g
      <4>1. CASE r = index
        <5>1. Hash(v) = h
          BY DEF h
        <5>2. ~ (\E i \in 1..Len(d) : d[i] = r)
          BY <1>1, <3>3, <4>1
        <5>. QED  BY <1>1, <2>2, <4>1, <5>1, <5>2
      <4>2. CASE r # index
        <5>1. r \in Refs(p) /\ q.values[r].value = p.values[r].value /\ (r \in Live(q) <=> r \in Live(p))
          BY <1>1, <1>7, <4>2
        <5>. QED  BY <3>2, <5>1
      <4>. QED  BY <4>1, <4>2
    <3>9. IsChain(q, g, d)
      BY <3>2, <3>6, <3>7, <3>8 DEF IsChain
    <3>. QED  BY <3>9
  <2>. QED  BY <2>1, <2>2
<1>10. ASSUME NEW r \in Live(q), NEW s \in Live(q), q.values[r].value = q.values[s].value PROVE r = s
  <2>1. \A x \in Live(p) : x \in Refs(p) /\ x # index /\ q.values[x].value = p.values[x].value
    <3>1. \A x \in Live(p) : x \in Refs(p)
      BY DEF Live
    <3>. QED  BY <1>1, <3>1
  <2>. QED  BY <1>1, <1>3, <1>7, <1>10, <2>1
<1>11. AvailableInv(q)
  <2>1. CASE p.available = <<>>
    <3>1. index = Len(p.values) + 1 /\ q.available = <<>>
      BY <1>1, <1>f, <2>1 DEF index
    <3>2. \A r \in Refs(p) : r \in Live(p)
      <4>1. \A r \in Refs(p) : r \notin Live(p) => \E i \in 1..Len(p.available) : p.available[i] = r
        BY <1>3 DEF AvailableInv
      <4>. QED  BY <2>1, <4>1
    <3>3. \A r \in Refs(q) : r \in Live(q)
      BY <1>1, <1>7, <3>2
    <3>. QED  BY <3>1, <3>3 DEF AvailableInv
  <2>2. CASE p.available # <<>>
    <3> DEFINE a == p.available
               b == q.available
    <3>1. a \in Seq(Refs(p))
      BY <1>3 DEF PoolForm
    <3>2. index = a[Len(a)] /\ b = Front(a)
      BY <1>1, <1>f, <2>2 DEF index
    <3>3. Len(a) \in Nat \ {0}
      BY <2>2, <3>1
    <3>4. Len(b) = Len(a) - 1 /\ \A i \in 1..(Len(a) - 1) : b[i] = a[i]
      BY <2>2, <3>1, <3>2, FrontFacts
    <3>5. /\ \A i, j \in 1..Len(a) : a[i] = a[j] => i = j
          /\ \A r \in Refs(p) : r \notin Live(p) <=> \E i \in 1..Len(a) : a[i] = r
      BY <1>3 DEF AvailableInv
    <3> HIDE DEF a, b
    <3>6. \A i \in 1..Len(b) : i \in 1..Len(a) /\ i # Len(a) /\ b[i] = a[i]
      BY <3>3, <3>4
    <3>7. \A i \in 1..Len(a) : i = Len(a) \/ i \in 1..Len(b)
      BY <3>3, <3>4
    <3>8. \A i, j \in 1..Len(b) : b[i] = b[j] => i = j
      BY <3>5, <3>6
    <3>9. Len(a) \in 1..Len(a)
      BY <3>3
    <3>10. ASSUME NEW r \in Refs(q) PROVE r \notin Live(q) <=> \E i \in 1..Len(b) : b[i] = r
      <4>1. CASE r = index
        <5>1. ~ \E i \in 1..Len(b) : b[i] = index
          BY <3>2, <3>5, <3>6, <3>9
        <5>. QED  BY <1>7, <4>1, <5>1
      <4>2. CASE r # index
        <5>1. r \in Refs(p) /\ (r \in Live(q) <=> r \in Live(p))
          BY <1>1, <1>7, <4>2
        <5>2. (\E i \in 1..Len(b) : b[i] = r) <=> \E i \in 1..Len(a) : a[i] = r
          BY <3>2, <3>6, <3>7, <4>2
        <5>. QED  BY <3>5, <5>1, <5>2
      <4>. QED  BY <4>1, <4>2
    <3>. QED  BY <3>8, <3>10 DEF AvailableInv, b
  <2>. QED  BY <2>1, <2>2
<1>12. Sound(q, Values)
  BY <1>1, <1>8, <1>9, <1>10, <1>11 DEF Sound
<1>13. \A r \in Refs(p) : r # index =>
         /\ q.values[r].value = p.values[r].value
         /\ q.values[r].refCount = p.values[r].refCount
  BY <1>1
<1>14. /\ Refs(q) = Refs(p) \cup {index} /\ index \notin Live(p)
       /\ q.values[index].value = v /\ q.values[index].refCount = 1
  BY <1>1
<1>. QED  BY <1>7, <1>12, <1>13, <1>14 DEF q, index

(* A value that is put has a live reference, counted once more.            *)
LEMMA PutFacts ==
  ASSUME NEW p, NEW Values, Sound(p, Values), NEW v \in Values, Hash(v) \in Hashes
  PROVE  LET q == Put(p, v)
             ref == Ref(q, v)
         IN  /\ Sound(q, Values) /\ ref \in Live(q) /\ q.values[ref].value = v
             /\ \A r \in Refs(p) : r \in Refs(q)
             /\ \A r \in Live(p) : r \in Live(q) /\ q.values[r].value = p.values[r].value
             /\ \A r \in Refs(q) : r # ref =>
                  /\ r \in Refs(p) /\ q.values[r].refCount = p.values[r].refCount
             /\ q.values[ref].refCount = IF ref \in Refs(p) THEN p.values[ref].refCount + 1 ELSE 1
<1> DEFINE q == Put(p, v)
           old == Ref(p, v)
           ref == Ref(q, v)
           index == NewIndex(p)
<1>1. /\ old = 0 => \A r \in Live(p) : p.values[r].value # v
      /\ old # 0 => old \in Live(p) /\ p.values[old].value = v
  BY RefIs
<1>2. PoolForm(p, Values)
  BY DEF Sound
<1>3. CASE old = 0
  <2>1. q = Insert(p, v)
    BY <1>3 DEF Put
  <2>2. \A r \in Live(p) : p.values[r].value # v
    BY <1>1, <1>3
  <2> HIDE DEF old
  <2>3. /\ Sound(q, Values) /\ Live(q) = Live(p) \cup {index}
        /\ Refs(q) = Refs(p) \cup {index} /\ index \notin Live(p)
        /\ \A r \in Refs(p) : r # index =>
             /\ q.values[r].value = p.values[r].value
             /\ q.values[r].refCount = p.values[r].refCount
        /\ q.values[index].value = v /\ q.values[index].refCount = 1
    <3> HIDE DEF q
    <3>. QED  BY <2>1, <2>2, InsertSound
  <2> HIDE DEF q, index
  <2>4. ref = index
    BY <2>3, RefIs
  <2>5. \A r \in Live(p) : r \in Refs(p)
    BY DEF Live
  <2>6. ref \in Refs(p) => p.values[ref].refCount = 0
    BY <2>3, <2>4 DEF Live
  <2> HIDE DEF ref
  <2>. QED  BY <2>3, <2>4, <2>5, <2>6 DEF q, ref
<1>4. CASE old # 0
  <2>1. old \in Live(p) /\ p.values[old].value = v /\ old \in Refs(p)
    BY <1>1, <1>4 DEF Live
  <2>2. p.values[old].refCount \in Nat
    BY <1>2, <2>1, FormFacts
  <2> DEFINE n == p.values[old].refCount + 1
             y == [p EXCEPT !.values[old].refCount = n]
  <2>3. q = y
    BY <1>4 DEF Put
  <2>4. /\ PoolForm(y, Values) /\ Refs(y) = Refs(p)
        /\ y.heads = p.heads /\ y.available = p.available
        /\ \A r \in Refs(p) :
             /\ y.values[r].value = p.values[r].value /\ y.values[r].next = p.values[r].next
             /\ y.values[r].refCount = IF r = old THEN n ELSE p.values[r].refCount
    <3>1. n \in Nat
      BY <2>2
    <3> HIDE DEF n, old
    <3>. QED  BY <1>2, <2>1, <3>1, Counted
  <2> HIDE DEF y, q, old
  <2>5. n # 0 /\ n \in Nat
    BY <2>2
  <2>6. Live(q) = Live(p)
    BY <2>1, <2>3, <2>4, <2>5 DEF Live
  <2>7. SameLinks(p, q)
    BY <2>3, <2>4 DEF SameLinks
  <2>8. Sound(q, Values)
    BY <2>3, <2>4, <2>6, <2>7, CountsChange
  <2>9. ref = old
    BY <2>1, <2>3, <2>4, <2>6, <2>8, RefIs
  <2>10. \A r \in Live(p) : r \in Refs(p)
    BY DEF Live
  <2> HIDE DEF ref
  <2>11. /\ ref \in Live(q) /\ q.values[ref].value = v
         /\ \A r \in Refs(p) : r \in Refs(q)
         /\ \A r \in Live(p) : r \in Live(q) /\ q.values[r].value = p.values[r].value
    BY <2>1, <2>3, <2>4, <2>6, <2>9, <2>10
  <2>12. \A r \in Refs(q) : r # ref => r \in Refs(p) /\ q.values[r].refCount = p.values[r].refCount
    BY <2>3, <2>4, <2>9
  <2>13. q.values[ref].refCount = IF ref \in Refs(p) THEN p.values[ref].refCount + 1 ELSE 1
    BY <2>1, <2>3, <2>4, <2>9
  <2>. QED  BY <2>8, <2>11, <2>12, <2>13 DEF q, ref
<1>. QED  BY <1>3, <1>4

-----------------------------------------------------------------------------
(* Taking a reference                                                      *)

(* What is left of a chain without one of its values.                      *)
Cut(c, k) == [j \in 1..(Len(c) - 1) |-> IF j < k THEN c[j] ELSE c[j + 1]]

LEMMA CutFacts ==
  ASSUME NEW S, NEW c \in Seq(S), NEW k \in 1..Len(c)
  PROVE  /\ Cut(c, k) \in Seq(S) /\ Len(Cut(c, k)) = Len(c) - 1 /\ Len(c) \in Nat
         /\ \A j \in 1..(Len(c) - 1) : Cut(c, k)[j] = IF j < k THEN c[j] ELSE c[j + 1]
<1>1. Len(c) \in Nat /\ Len(c) - 1 \in Nat /\ \A j \in 1..Len(c) : c[j] \in S
  OBVIOUS
<1>2. \A j \in 1..(Len(c) - 1) : Cut(c, k)[j] = IF j < k THEN c[j] ELSE c[j + 1]
  BY DEF Cut
<1>3. \A j \in 1..(Len(c) - 1) : j \in 1..Len(c) /\ j + 1 \in 1..Len(c)
  BY <1>1
<1>4. Cut(c, k) \in [1..(Len(c) - 1) -> S]
  <2>1. Cut(c, k) = [j \in 1..(Len(c) - 1) |-> Cut(c, k)[j]]
    BY DEF Cut
  <2>2. \A j \in 1..(Len(c) - 1) : Cut(c, k)[j] \in S
    BY <1>1, <1>2, <1>3
  <2>. QED  BY <2>1, <2>2
<1>. QED  BY <1>1, <1>2, <1>4, InSeq

(* What is left is linked, when the value before is linked to the one      *)
(* after.                                                                  *)
LEMMA CutLinked ==
  ASSUME NEW S, NEW c \in Seq(S), NEW k \in 1..Len(c), NEW p, NEW q,
         \A i, j \in 1..Len(c) : c[i] = c[j] => i = j,
         \A j \in 1..Len(c) : p.values[c[j]].next = After(c, j),
         \A j \in 1..Len(c) :
           q.values[c[j]].next = IF k # 1 /\ j = k - 1 THEN After(c, k) ELSE p.values[c[j]].next
  PROVE  Linked(q, Cut(c, k))
<1> DEFINE d == Cut(c, k)
<1>1. /\ Len(d) = Len(c) - 1 /\ Len(c) \in Nat
      /\ \A j \in 1..(Len(c) - 1) : d[j] = IF j < k THEN c[j] ELSE c[j + 1]
  BY CutFacts
<1> HIDE DEF d
<1>k. k \in Nat /\ k >= 1 /\ k <= Len(c)
  BY <1>1
<1>2. SUFFICES ASSUME NEW j \in 1..Len(d) PROVE q.values[d[j]].next = After(d, j)
  BY DEF Linked, d
<1>3. j \in Nat /\ j \in 1..(Len(c) - 1) /\ j \in 1..Len(c) /\ j + 1 \in 1..Len(c) /\ j # Len(c)
  BY <1>1
<1>a. j # Len(d) => j + 1 \in 1..(Len(c) - 1)
  BY <1>1, <1>3
<1>4. CASE j < k
  <2>1. d[j] = c[j]
    BY <1>1, <1>3, <1>4
  <2>2. CASE j = k - 1
    <3>1. k # 1 /\ j + 1 = k
      BY <1>k, <1>3, <2>2
    <3>2. q.values[d[j]].next = After(c, k)
      BY <1>3, <2>1, <2>2, <3>1
    <3>3. CASE k = Len(c)
      <4>1. j = Len(d)
        BY <1>1, <2>2, <3>3
      <4>. QED  BY <3>2, <3>3, <4>1 DEF After
    <3>4. CASE k # Len(c)
      <4>1. j # Len(d)
        BY <1>1, <1>k, <2>2, <3>4
      <4>2. d[j + 1] = c[j + 1 + 1]
        <5>1. ~ (j + 1 < k)
          BY <1>k, <3>1
        <5>. QED  BY <1>1, <1>a, <4>1, <5>1
      <4>. QED  BY <3>1, <3>2, <3>4, <4>1, <4>2 DEF After
    <3>. QED  BY <3>3, <3>4
  <2>3. CASE j # k - 1
    <3>1. q.values[d[j]].next = After(c, j) /\ After(c, j) = c[j + 1]
      BY <1>3, <2>1, <2>3 DEF After
    <3>2. j + 1 < k /\ j # Len(d)
      BY <1>1, <1>k, <1>3, <1>4, <2>3
    <3>3. d[j + 1] = c[j + 1]
      BY <1>1, <1>a, <3>2
    <3>. QED  BY <3>1, <3>2, <3>3 DEF After
  <2>. QED  BY <2>2, <2>3
<1>5. CASE ~ (j < k)
  <2>1. d[j] = c[j + 1]
    BY <1>1, <1>3, <1>5
  <2>2. j + 1 # k - 1
    BY <1>k, <1>3, <1>5
  <2>3. q.values[d[j]].next = After(c, j + 1)
    BY <1>3, <2>1, <2>2
  <2>4. CASE j = Len(d)
    <3>1. j + 1 = Len(c)
      BY <1>1, <2>4
    <3>. QED  BY <2>3, <2>4, <3>1 DEF After
  <2>5. CASE j # Len(d)
    <3>1. j + 1 # Len(c) /\ ~ (j + 1 < k)
      BY <1>1, <1>k, <1>3, <1>5, <2>5
    <3>2. d[j + 1] = c[j + 1 + 1]
      BY <1>1, <1>a, <2>5, <3>1
    <3>. QED  BY <2>3, <2>5, <3>1, <3>2 DEF After
  <2>. QED  BY <2>4, <2>5
<1>. QED  BY <1>4, <1>5

(* What Unlink gives, for a value at a place of its chain.                 *)
LEMMA UnlinkForm ==
  ASSUME NEW p, NEW Values, PoolForm(p, Values), Ranked(p), NEW c \in Seq(Refs(p)),
         NEW k \in 1..Len(c), Hash(p.values[c[k]].value) \in Hashes,
         IsPath(p, c, p.heads[Hash(p.values[c[k]].value)]),
         \A i, j \in 1..Len(c) : c[i] = c[j] => i = j
  PROVE  LET h == Hash(p.values[c[k]].value)
             u == Unlink(p, c[k])
         IN  /\ PoolForm(u, Values) /\ Refs(u) = Refs(p) /\ u.available = p.available
             /\ u.heads = IF k = 1 THEN [p.heads EXCEPT ![h] = After(c, 1)] ELSE p.heads
             /\ \A r \in Refs(p) :
                  /\ u.values[r].value = p.values[r].value
                  /\ u.values[r].refCount = p.values[r].refCount
                  /\ u.values[r].next =
                       IF k # 1 /\ r = c[k - 1] THEN After(c, k) ELSE p.values[r].next
<1> DEFINE ref == c[k]
           h == Hash(p.values[ref].value)
           n == p.values[ref].next
           u == Unlink(p, ref)
<1>1. Len(c) \in Nat /\ (\A j \in 1..Len(c) : c[j] \in Refs(p)) /\ DOMAIN c = 1..Len(c)
  BY ElementsOf
<1>2. Chain(p, h) = c
  BY ChainIs
<1>3. n = After(c, k)
  BY LastLink
<1>4. n \in 0..Len(p.values) /\ n \in Nat
  <2>1. n # 0 => n \in Refs(p)
    BY <1>1 DEF Ranked
  <2>2. Len(p.values) \in Nat
    BY FormFacts
  <2>. QED  BY <2>1, <2>2 DEF Refs
<1>5. p.heads[h] = c[1] /\ 1 \in 1..Len(c)
  <2>1. Len(c) # 0 /\ 1 \in 1..Len(c) /\ c # <<>>
    BY <1>1
  <2>. QED  BY <2>1 DEF IsPath
<1>6. p.heads[h] = ref <=> k = 1
  BY <1>5
<1>7. (CHOOSE i \in DOMAIN c : c[i] = ref) = k
  BY <1>1
<1>8. u = IF p.heads[h] = ref THEN [p EXCEPT !.heads[h] = n]
          ELSE [p EXCEPT !.values[c[k - 1]].next = n]
  <2> DEFINE at == CHOOSE i \in DOMAIN Chain(p, h) : Chain(p, h)[i] = ref
  <2>1. u = IF p.heads[h] = ref THEN [p EXCEPT !.heads[h] = n]
            ELSE [p EXCEPT !.values[Chain(p, h)[at - 1]].next = n]
    BY DEF Unlink, Get
  <2>2. at = k
    BY <1>2, <1>7
  <2> HIDE DEF at, u, n, h, ref
  <2>. QED  BY <1>2, <2>1, <2>2
<1>9. c[k] \in Refs(p) /\ h \in Hashes
  BY <1>1
<1> HIDE DEF n, u, h, ref
<1>10. CASE k = 1
  <2> DEFINE y == [p EXCEPT !.heads[h] = n]
  <2>1. /\ PoolForm(y, Values) /\ Refs(y) = Refs(p)
        /\ y.values = p.values /\ y.available = p.available
        /\ y.heads = [p.heads EXCEPT ![h] = n]
    BY <1>4, <1>9, Reheaded
  <2>2. u = y
    BY <1>6, <1>8, <1>10
  <2> HIDE DEF y
  <2>. QED  BY <1>3, <1>10, <2>1, <2>2 DEF u, ref, h
<1>11. CASE k # 1
  <2> DEFINE y == [p EXCEPT !.values[c[k - 1]].next = n]
  <2>0. c[k - 1] \in Refs(p)
    BY <1>1, <1>11
  <2>1. /\ PoolForm(y, Values) /\ Refs(y) = Refs(p)
        /\ y.heads = p.heads /\ y.available = p.available
        /\ \A r \in Refs(p) :
             /\ y.values[r].value = p.values[r].value
             /\ y.values[r].refCount = p.values[r].refCount
             /\ y.values[r].next = IF r = c[k - 1] THEN n ELSE p.values[r].next
    BY ZenonT(40), <1>4, <2>0, Relinked
  <2>2. u = y
    BY <1>6, <1>8, <1>11
  <2> HIDE DEF y
  <2>. QED  BY <1>3, <1>11, <2>1, <2>2 DEF u, ref, h
<1>. QED  BY <1>10, <1>11

(* All the values have a hash.                                             *)
Hashable(Values) == \A v \in Values : Hash(v) \in Hashes

(* What Take gives: a reference is counted once less, and the others stay. *)
LEMMA TakeFacts ==
  ASSUME NEW p, NEW Values, Sound(p, Values), NEW ref \in Live(p),
         Hashable(Values)
  PROVE  LET q == Take(p, ref)
         IN  /\ Sound(q, Values) /\ Refs(q) = Refs(p)
             /\ \A r \in Refs(p) :
                  /\ q.values[r].value = p.values[r].value
                  /\ q.values[r].refCount =
                       IF r = ref THEN p.values[r].refCount - 1 ELSE p.values[r].refCount
<1> DEFINE n == p.values[ref].refCount - 1
           d == [p EXCEPT !.values[ref].refCount = n]
           q == Take(p, ref)
<1>1. PoolForm(p, Values) /\ Ranked(p) /\ AvailableInv(p)
      /\ \A r, s \in Live(p) : p.values[r].value = p.values[s].value => r = s
  BY DEF Sound
<1>h. \A v \in Values : Hash(v) \in Hashes
  BY DEF Hashable
<1>2. ref \in Refs(p) /\ p.values[ref].refCount \in Nat /\ n \in Nat
      /\ p.values[ref].value \in Values
  <2>1. ref \in Refs(p) /\ p.values[ref].refCount # 0
    BY DEF Live
  <2>2. p.values[ref].refCount \in Nat /\ p.values[ref].value \in Values
    BY <1>1, <2>1, FormFacts
  <2>. QED  BY <2>1, <2>2
<1>3. /\ PoolForm(d, Values) /\ Refs(d) = Refs(p)
      /\ d.heads = p.heads /\ d.available = p.available
      /\ \A r \in Refs(p) :
           /\ d.values[r].value = p.values[r].value /\ d.values[r].next = p.values[r].next
           /\ d.values[r].refCount = IF r = ref THEN n ELSE p.values[r].refCount
  <2> HIDE DEF n
  <2>. QED  BY <1>1, <1>2, Counted
<1>4. q = IF d.values[ref].refCount # 0 THEN d
          ELSE [Unlink(d, ref) EXCEPT !.available = Append(@, ref)]
  BY DEF Take
<1> HIDE DEF d, q
<1>5. SameLinks(p, d)
  BY <1>3 DEF SameLinks
<1>6. CASE n # 0
  <2>1. q = d
    BY <1>2, <1>3, <1>4, <1>6
  <2>2. Live(d) = Live(p)
    <3> HIDE DEF n
    <3>. QED  BY <1>3, <1>6 DEF Live
  <2>3. Sound(d, Values)
    BY <1>3, <1>5, <2>2, CountsChange
  <2>. QED  BY <1>3, <2>1, <2>3 DEF q
<1>7. CASE n = 0
  <2> DEFINE h == Hash(p.values[ref].value)
             c == Chain(p, h)
             u == Unlink(d, ref)
  <2>1. q = [u EXCEPT !.available = Append(@, ref)]
    BY <1>2, <1>3, <1>4, <1>7
  <2>2. h \in Hashes /\ IsChain(p, h, c)
    BY <1>2, <1>h, ChainOf
  <2> HIDE DEF c, u
  <2>3. c \in Seq(Refs(p)) /\ IsPath(p, c, p.heads[h])
        /\ (\A i, j \in 1..Len(c) : c[i] = c[j] => i = j)
        /\ (\A r \in Refs(p) :
              (\E i \in 1..Len(c) : c[i] = r) <=> r \in Live(p) /\ Hash(p.values[r].value) = h)
    BY <2>2 DEF IsChain
  <2>4. Len(c) \in Nat /\ \A k \in 1..Len(c) : c[k] \in Refs(p)
    BY <2>3, ElementsOf
  <2>5. PICK k \in 1..Len(c) : c[k] = ref
    BY <1>2, <2>3
  <2>6. /\ PoolForm(u, Values) /\ Refs(u) = Refs(p) /\ u.available = p.available
        /\ u.heads = IF k = 1 THEN [p.heads EXCEPT ![h] = After(c, 1)] ELSE p.heads
        /\ \A r \in Refs(p) :
             /\ u.values[r].value = p.values[r].value
             /\ u.values[r].refCount = d.values[r].refCount
             /\ u.values[r].next =
                  IF k # 1 /\ r = c[k - 1] THEN After(c, k) ELSE p.values[r].next
    <3>1. c \in Seq(Refs(d)) /\ Ranked(d) /\ Hash(d.values[c[k]].value) = h
      BY <1>1, <1>2, <1>3, <1>5, <2>3, <2>5, SameRanks
    <3>2. IsPath(d, c, d.heads[Hash(d.values[c[k]].value)])
      <4>1. \A j \in 1..Len(c) : d.values[c[j]].next = p.values[c[j]].next
        BY <1>3, <2>4
      <4>. QED  BY <1>3, <2>3, <3>1, <4>1, SamePath
    <3> DEFINE w == Unlink(d, c[k])
               g == Hash(d.values[c[k]].value)
    <3>3. g \in Hashes
      BY <2>2, <3>1
    <3>4. /\ PoolForm(w, Values) /\ Refs(w) = Refs(d) /\ w.available = d.available
          /\ w.heads = IF k = 1 THEN [d.heads EXCEPT ![g] = After(c, 1)] ELSE d.heads
          /\ \A r \in Refs(d) :
               /\ w.values[r].value = d.values[r].value
               /\ w.values[r].refCount = d.values[r].refCount
               /\ w.values[r].next =
                    IF k # 1 /\ r = c[k - 1] THEN After(c, k) ELSE d.values[r].next
      BY SMTT(30), <1>3, <2>3, <3>1, <3>2, <3>3, UnlinkForm
    <3>5. w = u
      BY <2>5 DEF u
    <3> HIDE DEF w, g
    <3>6. g = h
      BY <3>1 DEF g
    <3>. QED  BY <1>3, <3>4, <3>5, <3>6
  <2> DEFINE a == Append(p.available, ref)
  <2>7. a \in Seq(Refs(u)) /\ p.available \in Seq(Refs(p))
    BY <1>1, <1>2, <2>6 DEF PoolForm
  <2>8. /\ PoolForm(q, Values) /\ Refs(q) = Refs(p)
        /\ q.values = u.values /\ q.heads = u.heads /\ q.available = a
    <3> HIDE DEF a
    <3>1. q = [u EXCEPT !.available = a]
      BY <2>1, <2>6 DEF a
    <3>. QED  BY <2>6, <2>7, <3>1, AvailableChange
  <2> HIDE DEF a
  <2>9. /\ q.heads = IF k = 1 THEN [p.heads EXCEPT ![h] = After(c, 1)] ELSE p.heads
        /\ \A r \in Refs(p) :
             /\ q.values[r].value = p.values[r].value
             /\ q.values[r].refCount = IF r = ref THEN 0 ELSE p.values[r].refCount
             /\ q.values[r].next =
                  IF k # 1 /\ r = c[k - 1] THEN After(c, k) ELSE p.values[r].next
    BY <1>3, <1>7, <2>6, <2>8
  <2>10. \A j \in 1..Len(c) : p.values[c[j]].next = After(c, j)
    BY <1>1, <2>3, LastLink
  <2>11. \A r : r \in Live(q) <=> r \in Live(p) /\ r # ref
    <3> HIDE DEF n
    <3>. QED  BY <2>8, <2>9 DEF Live
  <2>12. k # 1 => k - 1 \in 1..Len(c) /\ k - 1 # Len(c) /\ After(c, k - 1) = ref
    BY <2>4, <2>5 DEF After
  <2>13. Ranked(q)
    <3>1. PICK bound \in Nat : \E rank \in [Refs(p) -> 0..bound] :
            \A r \in Refs(p) : p.values[r].next # 0 =>
              p.values[r].next \in Refs(p) /\ rank[r] < rank[p.values[r].next]
      BY <1>1 DEF Ranked
    <3>2. PICK rank \in [Refs(p) -> 0..bound] :
            \A r \in Refs(p) : p.values[r].next # 0 =>
              p.values[r].next \in Refs(p) /\ rank[r] < rank[p.values[r].next]
      BY <3>1
    <3>3. ASSUME NEW r \in Refs(p), q.values[r].next # 0
          PROVE  q.values[r].next \in Refs(p) /\ rank[r] < rank[q.values[r].next]
      <4>1. CASE k # 1 /\ r = c[k - 1]
        <5>1. p.values[r].next = ref /\ ref # 0
          <6>1. ref # 0
            BY <1>2 DEF Refs
          <6>. QED  BY <2>10, <2>12, <4>1, <6>1
        <5>2. rank[r] < rank[ref]
          BY <3>2, <5>1
        <5>3. q.values[r].next = p.values[ref].next
          BY <2>5, <2>9, <2>10, <4>1
        <5>4. p.values[ref].next \in Refs(p) /\ rank[ref] < rank[p.values[ref].next]
          BY <1>2, <3>2, <3>3, <5>3
        <5>5. rank[r] \in Nat /\ rank[ref] \in Nat /\ rank[p.values[ref].next] \in Nat
          BY <1>2, <5>4
        <5>. QED  BY <5>2, <5>3, <5>4, <5>5
      <4>2. CASE ~ (k # 1 /\ r = c[k - 1])
        BY <2>9, <3>2, <3>3, <4>2
      <4>. QED  BY <4>1, <4>2
    <3>. QED  BY <2>8, <3>3 DEF Ranked
  <2>14. ASSUME NEW g \in Hashes PROVE \E e : IsChain(q, g, e)
    <3>1. CASE g = h
      <4> DEFINE e == Cut(c, k)
      <4>1. /\ e \in Seq(Refs(p)) /\ Len(e) = Len(c) - 1
            /\ \A j \in 1..(Len(c) - 1) : e[j] = IF j < k THEN c[j] ELSE c[j + 1]
        <5>1. c \in Seq(Refs(p)) /\ k \in 1..Len(c)
          BY <2>3
        <5> DEFINE S == Refs(p)
        <5> HIDE DEF S
        <5>2. c \in Seq(S)
          BY <5>1 DEF S
        <5>3. /\ Cut(c, k) \in Seq(S) /\ Len(Cut(c, k)) = Len(c) - 1
              /\ \A j \in 1..(Len(c) - 1) : Cut(c, k)[j] = IF j < k THEN c[j] ELSE c[j + 1]
          BY <5>1, <5>2, CutFacts
        <5>. QED  BY <5>3 DEF S
      <4>2. Linked(q, e)
        <5>1. ASSUME NEW j \in 1..Len(c)
              PROVE  q.values[c[j]].next = IF k # 1 /\ j = k - 1 THEN After(c, k) ELSE p.values[c[j]].next
          <6>1. k # 1 => (c[j] = c[k - 1] <=> j = k - 1)
            BY <2>3, <2>12
          <6>2. \A r \in Refs(p) : q.values[r].next =
                  IF k # 1 /\ r = c[k - 1] THEN After(c, k) ELSE p.values[r].next
            BY <2>9
          <6>3. c[j] \in Refs(p)
            BY <2>4
          <6>4. q.values[c[j]].next = IF k # 1 /\ c[j] = c[k - 1] THEN After(c, k) ELSE p.values[c[j]].next
            BY <6>2, <6>3, Zenon
          <6>5. CASE k # 1 /\ j = k - 1
            BY <6>1, <6>4, <6>5
          <6>6. CASE ~ (k # 1 /\ j = k - 1)
            BY <6>1, <6>4, <6>6
          <6>. QED  BY <6>5, <6>6
        <5>. QED  BY <2>3, <2>10, <5>1, CutLinked
      <4> HIDE DEF e
      <4>3. IsPath(q, e, q.heads[g])
        <5>0. h \in DOMAIN p.heads
          BY <1>1, <2>2 DEF PoolForm
        <5>a. p.heads[h] = c[1] /\ 1 \in 1..Len(c) /\ c[1] # 0
          <6>1. Len(c) # 0 /\ 1 \in 1..Len(c) /\ c # <<>>
            BY <2>4
          <6>2. c[1] # 0
            BY <2>4, <6>1 DEF Refs
          <6>. QED  BY <2>3, <6>1, <6>2 DEF IsPath
        <5>1. CASE k = 1
          <6>1. q.heads[g] = After(c, 1)
            BY <2>9, <3>1, <5>0, <5>1
          <6>2. CASE Len(c) = 1
            <7>1. After(c, 1) = 0 /\ Len(e) = 0
              BY <4>1, <6>2 DEF After
            <7>2. e = <<>>
              BY <4>1, <7>1
            <7>. QED  BY <6>1, <7>1, <7>2 DEF IsPath
          <6>3. CASE Len(c) # 1
            <7>1. 1 \in 1..(Len(c) - 1) /\ Len(e) # 0 /\ 1 + 1 \in 1..Len(c)
              BY <2>4, <4>1, <5>a, <6>3
            <7>2. e[1] = c[1 + 1] /\ After(c, 1) = c[1 + 1]
              BY <4>1, <5>1, <6>3, <7>1 DEF After
            <7>3. c[1 + 1] # 0
              BY <2>4, <7>1 DEF Refs
            <7>. QED  BY <4>2, <6>1, <7>1, <7>2, <7>3 DEF IsPath
          <6>. QED  BY <6>2, <6>3
        <5>2. CASE k # 1
          <6>1. q.heads[g] = c[1]
            BY <2>9, <3>1, <5>a, <5>2
          <6>2. 1 \in 1..(Len(c) - 1) /\ 1 < k /\ Len(e) # 0
            BY <2>4, <4>1, <5>2
          <6>3. e[1] = c[1]
            BY <4>1, <6>2
          <6>. QED  BY <4>2, <5>a, <6>1, <6>2, <6>3 DEF IsPath
        <5>. QED  BY <5>1, <5>2
      <4>4. \A j \in 1..Len(e) : \E i \in 1..Len(c) : i # k /\ e[j] = c[i] /\ i = IF j < k THEN j ELSE j + 1
        <5>1. ASSUME NEW j \in 1..Len(e)
              PROVE  \E i \in 1..Len(c) : i # k /\ e[j] = c[i] /\ i = IF j < k THEN j ELSE j + 1
          <6>1. j \in 1..(Len(c) - 1) /\ j \in 1..Len(c) /\ j + 1 \in 1..Len(c)
            BY <2>4, <4>1
          <6>2. CASE j < k
            BY <4>1, <6>1, <6>2
          <6>3. CASE ~ (j < k)
            <7>1. j + 1 # k
              BY <2>4, <6>1, <6>3
            <7>. QED  BY <4>1, <6>1, <6>3, <7>1
          <6>. QED  BY <6>2, <6>3
        <5>. QED  BY <5>1
      <4>5. \A i \in 1..Len(c) : i # k => \E j \in 1..Len(e) : e[j] = c[i]
        <5>1. ASSUME NEW i \in 1..Len(c), i # k PROVE \E j \in 1..Len(e) : e[j] = c[i]
          <6>1. CASE i < k
            <7>1. i \in 1..(Len(c) - 1)
              BY <2>4, <6>1
            <7>. QED  BY <4>1, <6>1, <7>1
          <6>2. CASE ~ (i < k)
            <7>1. i - 1 \in 1..(Len(c) - 1) /\ ~ (i - 1 < k) /\ i - 1 + 1 = i
              BY <2>4, <5>1, <6>2
            <7>2. e[i - 1] = c[i]
              BY <4>1, <7>1
            <7>. QED  BY <4>1, <7>1, <7>2
          <6>. QED  BY <6>1, <6>2
        <5>. QED  BY <5>1
      <4>6. ASSUME NEW i \in 1..Len(e), NEW j \in 1..Len(e), e[i] = e[j] PROVE i = j
        <5>1. PICK x \in 1..Len(c) : e[i] = c[x] /\ x = IF i < k THEN i ELSE i + 1
          BY <4>4
        <5>2. PICK y \in 1..Len(c) : e[j] = c[y] /\ y = IF j < k THEN j ELSE j + 1
          BY <4>4
        <5>3. x = y
          BY <2>3, <4>6, <5>1, <5>2
        <5>4. i \in Nat /\ j \in Nat /\ k \in Nat
          BY <2>4, <4>1
        <5>. QED  BY <5>1, <5>2, <5>3, <5>4
      <4>7. ASSUME NEW r \in Refs(p)
            PROVE  (\E i \in 1..Len(e) : e[i] = r) <=> r \in Live(q) /\ Hash(q.values[r].value) = g
        <5>1. (\E i \in 1..Len(e) : e[i] = r) <=> r # ref /\ \E i \in 1..Len(c) : c[i] = r
          <6>1. ASSUME NEW j \in 1..Len(e), e[j] = r PROVE r # ref /\ \E i \in 1..Len(c) : c[i] = r
            <7>1. PICK i \in 1..Len(c) : i # k /\ e[j] = c[i]
              BY <4>4
            <7>. QED  BY <2>3, <2>5, <6>1, <7>1
          <6>2. ASSUME r # ref, NEW i \in 1..Len(c), c[i] = r PROVE \E j \in 1..Len(e) : e[j] = r
            <7>1. i # k
              BY <2>5, <6>2
            <7>. QED  BY <4>5, <6>2, <7>1
          <6>. QED  BY <6>1, <6>2
        <5>2. (\E i \in 1..Len(c) : c[i] = r) <=> r \in Live(p) /\ Hash(p.values[r].value) = g
          BY <2>3, <3>1
        <5>3. q.values[r].value = p.values[r].value
          BY <2>9
        <5>. QED  BY <2>11, <5>1, <5>2, <5>3
      <4>8. IsChain(q, g, e)
        BY <2>8, <4>1, <4>3, <4>6, <4>7 DEF IsChain
      <4>. QED  BY <4>8
    <3>2. CASE g # h
      <4>1. PICK e : IsChain(p, g, e)
        BY DEF Sound
      <4>2. e \in Seq(Refs(p)) /\ IsPath(p, e, p.heads[g])
            /\ (\A i, j \in 1..Len(e) : e[i] = e[j] => i = j)
            /\ (\A r \in Refs(p) :
                  (\E i \in 1..Len(e) : e[i] = r) <=> r \in Live(p) /\ Hash(p.values[r].value) = g)
        BY <4>1 DEF IsChain
      <4>3. \A j \in 1..Len(e) : e[j] \in Refs(p) /\ Hash(p.values[e[j]].value) = g
        <5>1. \A j \in 1..Len(e) : e[j] \in Refs(p)
          BY <4>2, ElementsOf
        <5>. QED  BY <4>2, <5>1
      <4>4. ASSUME NEW j \in 1..Len(e) PROVE q.values[e[j]].next = p.values[e[j]].next
        <5>1. ~ (k # 1 /\ e[j] = c[k - 1])
          <6>1. k # 1 => Hash(p.values[c[k - 1]].value) = h
            BY <2>3, <2>4, <2>12
          <6>. QED  BY <3>2, <4>3, <6>1
        <5>. QED  BY <2>9, <4>3, <5>1
      <4>5. q.heads[g] = p.heads[g]
        <5>1. p.heads \in [Hashes -> 0..Len(p.values)]
          BY <1>1 DEF PoolForm
        <5>. QED  BY <2>9, <3>2, <5>1
      <4>6. IsPath(q, e, q.heads[g])
        BY <4>2, <4>4, <4>5, SamePath
      <4>7. ASSUME NEW r \in Refs(p)
            PROVE  (\E i \in 1..Len(e) : e[i] = r) <=> r \in Live(q) /\ Hash(q.values[r].value) = g
        <5>1. r = ref => Hash(p.values[r].value) # g
          BY <3>2
        <5>. QED  BY <2>9, <2>11, <4>2, <5>1
      <4>8. IsChain(q, g, e)
        BY <2>8, <4>2, <4>6, <4>7 DEF IsChain
      <4>. QED  BY <4>8
    <3>. QED  BY <3>1, <3>2
  <2>15. ASSUME NEW r \in Live(q), NEW s \in Live(q), q.values[r].value = q.values[s].value PROVE r = s
    <3>1. r \in Live(p) /\ s \in Live(p) /\ r \in Refs(p) /\ s \in Refs(p)
      BY <2>11 DEF Live
    <3>. QED  BY <1>1, <2>9, <2>15, <3>1
  <2>16. AvailableInv(q)
    <3>1. /\ Len(a) = Len(p.available) + 1 /\ Len(p.available) \in Nat
          /\ \A i \in 1..Len(p.available) : a[i] = p.available[i]
          /\ a[Len(p.available) + 1] = ref
      BY <1>2, <2>7, AppendFacts DEF a
    <3>2. /\ \A i, j \in 1..Len(p.available) : p.available[i] = p.available[j] => i = j
          /\ \A r \in Refs(p) : r \notin Live(p) <=> \E i \in 1..Len(p.available) : p.available[i] = r
      BY <1>1 DEF AvailableInv
    <3>3. \A i \in 1..Len(a) : i = Len(p.available) + 1 \/ i \in 1..Len(p.available)
      BY <3>1
    <3>4. \A i \in 1..Len(p.available) : i \in 1..Len(a) /\ a[i] # ref
      BY <1>2, <3>1, <3>2
    <3>5. Len(p.available) + 1 \in 1..Len(a)
      BY <3>1
    <3>6. \A i, j \in 1..Len(a) : a[i] = a[j] => i = j
      BY <3>1, <3>2, <3>3, <3>4
    <3>7. ASSUME NEW r \in Refs(p) PROVE r \notin Live(q) <=> \E i \in 1..Len(a) : a[i] = r
      BY <2>11, <3>1, <3>2, <3>3, <3>4, <3>5
    <3>. QED  BY <2>8, <3>6, <3>7 DEF AvailableInv
  <2>17. Sound(q, Values)
    BY <2>8, <2>13, <2>14, <2>15, <2>16 DEF Sound
  <2>18. \A r \in Refs(p) :
           /\ q.values[r].value = p.values[r].value
           /\ q.values[r].refCount = IF r = ref THEN p.values[r].refCount - 1 ELSE p.values[r].refCount
    BY <1>7, <2>9
  <2>. QED  BY <2>8, <2>17, <2>18 DEF q
<1>. QED  BY <1>6, <1>7

-----------------------------------------------------------------------------
(* Counting the uses of the values                                         *)

UsesOf(U, r) == {u \in DOMAIN U : U[u] = r}

(* A pool counts the uses of its values: U gives the reference of each.    *)
Counts(p, U) ==
  /\ IsFiniteSet(DOMAIN U)
  /\ \A u \in DOMAIN U : U[u] \in Refs(p)
  /\ \A r \in Refs(p) : p.values[r].refCount = Cardinality(UsesOf(U, r))

LEMMA NewPoolSound ==
  ASSUME NEW Values, NEW U, DOMAIN U = {}
  PROVE  Sound(NewPool, Values) /\ Counts(NewPool, U)
<1> DEFINE p == NewPool
<1>1. /\ p = [values |-> <<>>, available |-> <<>>, heads |-> [h \in Hashes |-> 0]]
      /\ p.values = <<>> /\ p.available = <<>> /\ p.heads = [h \in Hashes |-> 0]
  BY DEF NewPool
<1> HIDE DEF p
<1>2. Refs(p) = {} /\ Live(p) = {} /\ Len(p.available) = 0
  BY <1>1 DEF Refs, Live
<1>3. PoolForm(p, Values)
  BY <1>1, <1>2 DEF PoolForm
<1>4. Ranked(p)
  <2>1. [r \in {} |-> 0] \in [Refs(p) -> 0..0]
    BY <1>2
  <2>. QED  BY <1>2, <2>1 DEF Ranked
<1>5. ASSUME NEW h \in Hashes PROVE IsChain(p, h, <<>>)
  <2>1. IsPath(p, <<>>, p.heads[h])
    BY <1>1 DEF IsPath
  <2>. QED  BY <1>2, <2>1 DEF IsChain
<1>6. AvailableInv(p)
  BY <1>2 DEF AvailableInv
<1>7. Sound(p, Values)
  BY <1>2, <1>3, <1>4, <1>5, <1>6 DEF Sound
<1>8. Counts(p, U)
  BY <1>2, FS_EmptySet DEF Counts
<1>. QED  BY <1>7, <1>8 DEF p

LEMMA UsesFinite ==
  ASSUME NEW U, IsFiniteSet(DOMAIN U), NEW r
  PROVE  IsFiniteSet(UsesOf(U, r)) /\ Cardinality(UsesOf(U, r)) \in Nat
<1>1. UsesOf(U, r) \in SUBSET DOMAIN U
  BY DEF UsesOf
<1>. QED  BY <1>1, FS_Subset, FS_CardinalityType

LEMMA UsedLive ==
  ASSUME NEW p, NEW U, Counts(p, U), NEW u \in DOMAIN U
  PROVE  U[u] \in Live(p) /\ U[u] \in Refs(p)
<1> DEFINE S == UsesOf(U, U[u])
<1>1. u \in S
  BY DEF UsesOf
<1>2. IsFiniteSet(S)
  BY UsesFinite DEF Counts
<1>3. U[u] \in Refs(p) /\ p.values[U[u]].refCount = Cardinality(S)
  BY DEF Counts
<1>4. Cardinality(S) # 0
  <2> HIDE DEF S
  <2>. QED  BY <1>1, <1>2, FS_EmptySet
<1>. QED  BY <1>3, <1>4 DEF Live

(* A use more, and a use less.                                             *)
LEMMA OneMore ==
  ASSUME NEW U, IsFiniteSet(DOMAIN U), NEW e, e \notin DOMAIN U, NEW V,
         DOMAIN V = DOMAIN U \cup {e}, \A u \in DOMAIN U : V[u] = U[u], NEW r
  PROVE  /\ IsFiniteSet(DOMAIN V)
         /\ Cardinality(UsesOf(V, r))
              = Cardinality(UsesOf(U, r)) + IF V[e] = r THEN 1 ELSE 0
<1> DEFINE S == UsesOf(U, r)
           T == UsesOf(V, r)
<1>1. IsFiniteSet(S) /\ Cardinality(S) \in Nat
  BY UsesFinite
<1>2. IsFiniteSet(DOMAIN V)
  BY FS_AddElement
<1>3. e \notin S /\ T = IF V[e] = r THEN S \cup {e} ELSE S
  BY DEF UsesOf
<1> HIDE DEF S, T
<1>4. Cardinality(S \cup {e}) = Cardinality(S) + 1
  BY <1>1, <1>3, FS_AddElement
<1>5. Cardinality(T) = Cardinality(S) + IF V[e] = r THEN 1 ELSE 0
  BY <1>1, <1>3, <1>4
<1>. QED  BY <1>2, <1>5 DEF S, T

LEMMA OneLess ==
  ASSUME NEW U, IsFiniteSet(DOMAIN U), NEW e \in DOMAIN U, NEW V,
         DOMAIN V = DOMAIN U \ {e}, \A u \in DOMAIN V : V[u] = U[u], NEW r
  PROVE  /\ IsFiniteSet(DOMAIN V)
         /\ Cardinality(UsesOf(V, r))
              = Cardinality(UsesOf(U, r)) - IF U[e] = r THEN 1 ELSE 0
<1> DEFINE S == UsesOf(V, r)
           T == UsesOf(U, r)
<1>1. IsFiniteSet(DOMAIN V)
  BY FS_RemoveElement
<1>2. IsFiniteSet(S) /\ Cardinality(S) \in Nat
  BY <1>1, UsesFinite
<1>3. e \notin S /\ T = IF U[e] = r THEN S \cup {e} ELSE S
  BY DEF UsesOf
<1> HIDE DEF S, T
<1>4. Cardinality(S \cup {e}) = Cardinality(S) + 1
  BY <1>2, <1>3, FS_AddElement
<1>5. Cardinality(S) = Cardinality(T) - IF U[e] = r THEN 1 ELSE 0
  BY <1>2, <1>3, <1>4
<1>. QED  BY <1>1, <1>5 DEF S, T

(* A value that is put is used once more.                                  *)
LEMMA PutCounts ==
  ASSUME NEW p, NEW Values, Sound(p, Values), NEW U, Counts(p, U),
         NEW v \in Values, Hash(v) \in Hashes, NEW e, e \notin DOMAIN U,
         NEW V, DOMAIN V = DOMAIN U \cup {e}, \A u \in DOMAIN U : V[u] = U[u],
         V[e] = Ref(Put(p, v), v)
  PROVE  /\ Sound(Put(p, v), Values) /\ Counts(Put(p, v), V)
         /\ Get(Put(p, v), V[e]) = v
         /\ \A u \in DOMAIN U : Get(Put(p, v), V[u]) = Get(p, U[u])
<1> DEFINE q == Put(p, v)
           ref == Ref(q, v)
<1>1. /\ Sound(q, Values) /\ ref \in Live(q) /\ q.values[ref].value = v
      /\ \A r \in Refs(p) : r \in Refs(q)
      /\ \A r \in Live(p) : r \in Live(q) /\ q.values[r].value = p.values[r].value
      /\ \A r \in Refs(q) : r # ref =>
           /\ r \in Refs(p) /\ q.values[r].refCount = p.values[r].refCount
      /\ q.values[ref].refCount = IF ref \in Refs(p) THEN p.values[ref].refCount + 1 ELSE 1
  BY PutFacts
<1>2. V[e] = ref
  OBVIOUS
<1> HIDE DEF q, ref
<1>3. /\ \A u \in DOMAIN U : U[u] \in Refs(p) /\ U[u] \in Live(p)
      /\ IsFiniteSet(DOMAIN U)
      /\ \A r \in Refs(p) : p.values[r].refCount = Cardinality(UsesOf(U, r))
  BY UsedLive DEF Counts
<1>4. ref \in Refs(q)
  BY <1>1 DEF Live
<1>5. \A u \in DOMAIN V : V[u] \in Refs(q)
  BY <1>1, <1>2, <1>3, <1>4
<1>6. ASSUME NEW r \in Refs(q)
      PROVE  q.values[r].refCount = Cardinality(UsesOf(V, r))
  <2> DEFINE m == Cardinality(UsesOf(U, r))
             n == Cardinality(UsesOf(V, r))
  <2>1. n = m + IF ref = r THEN 1 ELSE 0
    BY <1>2, <1>3, OneMore
  <2>2. m \in Nat
    BY <1>3, UsesFinite
  <2>3. r \in Refs(p) => p.values[r].refCount = m
    BY <1>3
  <2>4. r \notin Refs(p) => m = 0
    <3>1. r \notin Refs(p) => UsesOf(U, r) = {}
      BY <1>3 DEF UsesOf
    <3>. QED  BY <3>1, FS_EmptySet
  <2> HIDE DEF m, n
  <2>5. r = ref => q.values[r].refCount = n
    BY <1>1, <2>1, <2>2, <2>3, <2>4
  <2>6. r # ref => q.values[r].refCount = n
    BY <1>1, <2>1, <2>2, <2>3
  <2>. QED  BY <2>5, <2>6 DEF n
<1>7. Counts(q, V)
  <2>1. IsFiniteSet(DOMAIN V)
    BY <1>3, FS_AddElement
  <2>. QED  BY <1>5, <1>6, <2>1 DEF Counts
<1>8. Get(q, V[e]) = v /\ \A u \in DOMAIN U : Get(q, V[u]) = Get(p, U[u])
  BY <1>1, <1>2, <1>3 DEF Get
<1>. QED  BY <1>1, <1>7, <1>8 DEF q

(* References stand for the same values.                                   *)
SameValues(p, q) == Refs(q) = Refs(p) /\ \A r \in Refs(p) : Get(q, r) = Get(p, r)

(* The uses but one.                                                       *)
OneUseLess(V, U, e) == e \in DOMAIN U /\ DOMAIN V = DOMAIN U \ {e} /\ \A u \in DOMAIN V : V[u] = U[u]

(* A use less of a reference that is taken.                                *)
LEMMA TakeCounts ==
  ASSUME NEW p, NEW Values, Sound(p, Values), Hashable(Values),
         NEW U, Counts(p, U), NEW e, NEW V, OneUseLess(V, U, e)
  PROVE  LET q == Take(p, U[e])
         IN  Sound(q, Values) /\ Counts(q, V) /\ SameValues(p, q)
<1> DEFINE ref == U[e]
           q == Take(p, ref)
<1>0. e \in DOMAIN U /\ DOMAIN V = DOMAIN U \ {e} /\ \A u \in DOMAIN V : V[u] = U[u]
  BY DEF OneUseLess
<1>1. ref \in Live(p) /\ ref \in Refs(p)
  BY <1>0, UsedLive
<1>2. /\ Sound(q, Values) /\ Refs(q) = Refs(p)
      /\ \A r \in Refs(p) :
           /\ q.values[r].value = p.values[r].value
           /\ q.values[r].refCount =
                IF r = ref THEN p.values[r].refCount - 1 ELSE p.values[r].refCount
  <2> HIDE DEF ref
  <2>. QED  BY <1>1, TakeFacts
<1> HIDE DEF q
<1>3. /\ \A u \in DOMAIN U : U[u] \in Refs(p)
      /\ IsFiniteSet(DOMAIN U)
      /\ \A r \in Refs(p) : p.values[r].refCount = Cardinality(UsesOf(U, r))
  BY DEF Counts
<1>4. ASSUME NEW r \in Refs(p)
      PROVE  q.values[r].refCount = Cardinality(UsesOf(V, r))
  <2> DEFINE m == Cardinality(UsesOf(U, r))
             n == Cardinality(UsesOf(V, r))
  <2>1. n = m - IF ref = r THEN 1 ELSE 0
    BY <1>0, <1>3, OneLess
  <2>2. m \in Nat
    BY <1>3, UsesFinite
  <2>3. p.values[r].refCount = m
    BY <1>3
  <2> HIDE DEF m, n
  <2>4. q.values[r].refCount = n
    BY <1>2, <2>1, <2>2, <2>3
  <2>. QED  BY <2>4 DEF n
<1>5. Counts(q, V)
  <2>1. IsFiniteSet(DOMAIN V)
    BY <1>0, <1>3, FS_RemoveElement
  <2>2. \A u \in DOMAIN V : V[u] \in Refs(p)
    BY <1>0, <1>3
  <2>. QED  BY <1>2, <1>4, <2>1, <2>2 DEF Counts
<1>. QED  BY <1>2, <1>5 DEF q, Get, SameValues

(* Uses under other names.                                                 *)
LEMMA Renamed ==
  ASSUME NEW p, NEW U, Counts(p, U), NEW V, NEW h,
         \A v \in DOMAIN V : h[v] \in DOMAIN U /\ V[v] = U[h[v]],
         \A v, w \in DOMAIN V : h[v] = h[w] => v = w,
         \A u \in DOMAIN U : \E v \in DOMAIN V : h[v] = u
  PROVE  Counts(p, V)
<1>1. ASSUME NEW S \in SUBSET DOMAIN V, NEW T \in SUBSET DOMAIN U,
             \A v \in DOMAIN V : v \in S <=> h[v] \in T
      PROVE  IsFiniteSet(S) /\ Cardinality(S) = Cardinality(T)
  <2> DEFINE f == [v \in S |-> h[v]]
  <2>1. f \in [S -> T] /\ \A v \in S : f[v] = h[v]
    BY <1>1
  <2> HIDE DEF f
  <2>2. f \in Injection(S, T)
    BY <2>1 DEF Injection, IsInjective
  <2>3. f \in Surjection(S, T)
    BY <1>1, <2>1 DEF Surjection
  <2>4. IsFiniteSet(T)
    BY FS_Subset DEF Counts
  <2>. QED  BY <2>2, <2>3, <2>4, FS_Injection
<1>2. IsFiniteSet(DOMAIN V)
  BY <1>1
<1>3. ASSUME NEW r \in Refs(p)
      PROVE  p.values[r].refCount = Cardinality(UsesOf(V, r))
  <2>1. Cardinality(UsesOf(V, r)) = Cardinality(UsesOf(U, r))
    <3> DEFINE S == UsesOf(V, r)
               T == UsesOf(U, r)
    <3>1. S \in SUBSET DOMAIN V /\ T \in SUBSET DOMAIN U /\ \A v \in DOMAIN V : v \in S <=> h[v] \in T
      BY DEF UsesOf
    <3> HIDE DEF S, T
    <3>2. Cardinality(S) = Cardinality(T)
      BY <1>1, <3>1
    <3>. QED  BY <3>2 DEF S, T
  <2>. QED  BY <2>1 DEF Counts
<1>. QED  BY <1>2, <1>3 DEF Counts

(* What is counted is what Exact asks for.                                 *)
LEMMA CountsExact ==
  ASSUME NEW p, NEW Values, Sound(p, Values), NEW U, Counts(p, U),
         Hashable(Values)
  PROVE  Exact(p, U)
<1>1. PoolForm(p, Values) /\ AvailableInv(p)
  BY DEF Sound
<1>2. /\ DOMAIN p.values = Refs(p) /\ DOMAIN p.available = 1..Len(p.available)
      /\ \A r \in Refs(p) : p.values[r].value \in Values /\ p.values[r].refCount \in Nat
  BY <1>1, FormFacts
<1>3. IsInjective(p.available)
  BY <1>1, <1>2 DEF IsInjective, AvailableInv
<1>4. ASSUME NEW r \in Refs(p)
      PROVE  /\ p.values[r].refCount = Cardinality(UsesOf(U, r))
             /\ p.values[r].refCount = 0 <=> r \in ToSet(p.available)
             /\ p.values[r].refCount > 0 => Ref(p, Get(p, r)) = r
  <2>1. p.values[r].refCount = Cardinality(UsesOf(U, r))
    BY DEF Counts
  <2>2. r \in ToSet(p.available) <=> \E i \in 1..Len(p.available) : p.available[i] = r
    BY <1>2 DEF ToSet
  <2>3. r \in ToSet(p.available) <=> r \notin Live(p)
    BY <1>1, <2>2 DEF AvailableInv
  <2>4. r \in Live(p) <=> p.values[r].refCount # 0
    BY DEF Live
  <2>5. r \in Live(p) => Ref(p, p.values[r].value) = r
    BY <1>2, RefIs DEF Hashable
  <2>6. p.values[r].refCount > 0 => p.values[r].refCount # 0
    BY <1>2
  <2>. QED  BY <2>1, <2>3, <2>4, <2>5, <2>6 DEF Get
<1>. QED  BY <1>2, <1>3, <1>4 DEF Exact, UsesOf

(* The uses that are left.                                                 *)
Except(U, gone) == [u \in DOMAIN U \ gone |-> U[u]]

LEMMA SameCounts ==
  ASSUME NEW p, NEW U, Counts(p, U), NEW V, DOMAIN V = DOMAIN U, \A u \in DOMAIN U : V[u] = U[u]
  PROVE  Counts(p, V)
<1>1. \A r : UsesOf(V, r) = UsesOf(U, r)
  BY DEF UsesOf
<1>. QED  BY <1>1 DEF Counts

(* What TakeAll computes: the pool after each reference.                   *)
LEMMA TakeAllSteps ==
  ASSUME NEW p, NEW refs, Len(refs) \in Nat
  PROVE  \E after : /\ TakeAll(p, refs) = after[Len(refs)] /\ after[0] = p
                    /\ \A i \in 1..Len(refs) : after[i] = Take(after[i - 1], refs[i])
<1> DEFINE n == Len(refs)
           Step(g, i) == IF i = 0 THEN p ELSE Take(g[i - 1], refs[i])
           Def(m, g) == [i \in 0..m |-> Step(g, i)]
           after == CHOOSE g : g = Def(n, g)
           Bad == {m \in 0..n : ~ \E g : g = Def(m, g)}
<1>1. Bad = {}
  <2>1. SUFFICES ASSUME Bad # {} PROVE FALSE
    OBVIOUS
  <2>2. PICK m \in Bad : \A k \in Bad : m <= k
    <3>1. Bad \in SUBSET Nat
      OBVIOUS
    <3> HIDE DEF Bad
    <3>. QED  BY <2>1, <3>1, Least
  <2>3. m \in 0..n /\ ~ \E g : g = Def(m, g)
    OBVIOUS
  <2>4. CASE m = 0
    <3> DEFINE g == [i \in 0..0 |-> p]
    <3>1. g = Def(0, g)
      OBVIOUS
    <3> HIDE DEF g, Def
    <3>. QED  BY <2>3, <2>4, <3>1
  <2>5. CASE m # 0
    <3>1. m - 1 \in 0..n /\ m - 1 \notin Bad
      <4>1. m - 1 \in 0..n /\ m \in Nat /\ ~ (m <= m - 1)
        BY <2>3, <2>5
      <4> HIDE DEF Bad
      <4>. QED  BY <2>2, <4>1
    <3>2. PICK h : h = Def(m - 1, h)
      <4> HIDE DEF Def
      <4>. QED  BY <3>1
    <3>3. \A i \in 0..(m - 1) : h[i] = Step(h, i)
      <4> HIDE DEF Step
      <4>. QED  BY <3>2
    <3> DEFINE g == [i \in 0..m |-> IF i = m THEN Take(h[m - 1], refs[m]) ELSE h[i]]
    <3>4. /\ g = [i \in 0..m |-> g[i]] /\ g[m] = Take(h[m - 1], refs[m])
          /\ \A i \in 0..(m - 1) : g[i] = h[i]
      BY <2>3
    <3> HIDE DEF g
    <3>5. ASSUME NEW i \in 0..m PROVE g[i] = Step(g, i)
      <4>1. CASE i = m
        <5>1. m - 1 \in 0..(m - 1)
          BY <2>3, <2>5
        <5>. QED  BY <2>5, <3>4, <4>1, <5>1
      <4>2. CASE i # m
        <5>1. i \in 0..(m - 1) /\ (i # 0 => i - 1 \in 0..(m - 1))
          BY <2>3, <4>2
        <5>2. g[i] = Step(h, i)
          BY <3>3, <3>4, <5>1
        <5>. QED  BY <3>4, <5>1, <5>2
      <4>. QED  BY <4>1, <4>2
    <3>6. g = Def(m, g)
      <4> HIDE DEF Step
      <4>. QED  BY <3>4, <3>5
    <3> HIDE DEF Def
    <3>. QED  BY <2>3, <3>6
  <2>. QED  BY <2>4, <2>5
<1>2. n \in 0..n
  OBVIOUS
<1>3. after = Def(n, after)
  <2> HIDE DEF Def, n
  <2>. QED  BY <1>1, <1>2
<1>4. TakeAll(p, refs) = after[n]
  BY DEF TakeAll
<1> HIDE DEF after
<1>5. \A i \in 0..n : after[i] = Step(after, i)
  <2> HIDE DEF Step, n
  <2>. QED  BY <1>3
<1>6. after[0] = p
  BY <1>5
<1>7. ASSUME NEW i \in 1..n PROVE after[i] = Take(after[i - 1], refs[i])
  <2>1. i \in 0..n /\ i # 0
    OBVIOUS
  <2>. QED  BY <1>5, <2>1
<1>. QED  BY <1>4, <1>6, <1>7

(* The uses that go are each at a place of the references.                 *)
Picked(U, refs, g, gone) ==
  /\ Len(refs) \in Nat
  /\ \A k \in 1..Len(refs) : g[k] \in DOMAIN U /\ refs[k] = U[g[k]]
  /\ \A j, k \in 1..Len(refs) : g[j] = g[k] => j = k
  /\ \A u : u \in gone <=> \E k \in 1..Len(refs) : u = g[k]

(* The uses that go are taken one by one.                                  *)
LEMMA TakeAllCounts ==
  ASSUME NEW p, NEW Values, Sound(p, Values), Hashable(Values),
         NEW U, Counts(p, U), NEW refs, NEW g, NEW gone, Picked(U, refs, g, gone)
  PROVE  LET q == TakeAll(p, refs)
         IN  /\ Sound(q, Values) /\ SameValues(p, q)
             /\ Counts(q, Except(U, gone))
<1> DEFINE n == Len(refs)
           Gone(i) == {g[k] : k \in 1..i}
           Rest(i) == Except(U, Gone(i))
<1>0. /\ n \in Nat
      /\ \A k \in 1..n : g[k] \in DOMAIN U /\ refs[k] = U[g[k]]
      /\ \A j, k \in 1..n : g[j] = g[k] => j = k
      /\ \A u : u \in gone <=> \E k \in 1..n : u = g[k]
  BY DEF Picked
<1>1. PICK after : /\ TakeAll(p, refs) = after[n] /\ after[0] = p
                   /\ \A i \in 1..n : after[i] = Take(after[i - 1], refs[i])
  BY <1>0, TakeAllSteps
<1> DEFINE Good(i) == Sound(after[i], Values) /\ Counts(after[i], Rest(i)) /\ SameValues(p, after[i])
           Bad == {i \in 0..n : ~ Good(i)}
<1>2. Good(0)
  <2>1. Gone(0) = {}
    OBVIOUS
  <2>2. DOMAIN Rest(0) = DOMAIN U /\ \A u \in DOMAIN U : Rest(0)[u] = U[u]
    <3> HIDE DEF Gone
    <3>. QED  BY <2>1 DEF Except
  <2> HIDE DEF Rest
  <2>3. Counts(p, Rest(0))
    BY <2>2, SameCounts
  <2>. QED  BY <1>1, <2>3 DEF SameValues
<1>3. ASSUME NEW i \in 1..n, Good(i - 1) PROVE Good(i)
  <2> DEFINE q == after[i - 1]
             W == Rest(i - 1)
             V == Rest(i)
             e == g[i]
  <2>1. Sound(q, Values) /\ Counts(q, W) /\ SameValues(p, q)
    BY <1>3
  <2>2. i - 1 \in 0..n /\ 1..i = 1..(i - 1) \cup {i} /\ \A k \in 1..(i - 1) : k \in 1..n /\ k # i
    BY <1>0
  <2>3. Gone(i) = Gone(i - 1) \cup {e}
    BY <2>2
  <2>4. e \in DOMAIN U /\ e \notin Gone(i - 1) /\ refs[i] = U[e]
    BY <1>0, <2>2
  <2> HIDE DEF Gone
  <2>5. /\ DOMAIN W = DOMAIN U \ Gone(i - 1) /\ DOMAIN V = DOMAIN U \ Gone(i)
        /\ \A u \in DOMAIN W : W[u] = U[u]
        /\ \A u \in DOMAIN V : V[u] = U[u]
    BY DEF Except
  <2> HIDE DEF Rest
  <2>6. /\ e \in DOMAIN W /\ DOMAIN V = DOMAIN W \ {e} /\ \A u \in DOMAIN V : V[u] = W[u]
        /\ refs[i] = W[e]
    BY <2>3, <2>4, <2>5
  <2>7. after[i] = Take(q, W[e])
    BY <1>1, <2>6
  <2> HIDE DEF q, W, e
  <2> DEFINE t == Take(q, W[e])
  <2>a. OneUseLess(V, W, e)
    BY <2>6 DEF OneUseLess
  <2>8. Sound(t, Values) /\ Counts(t, V) /\ SameValues(q, t)
    <3> HIDE DEF V
    <3>. QED  BY <2>1, <2>a, TakeCounts
  <2>9. SameValues(p, t)
    BY <2>1, <2>8 DEF SameValues
  <2>. QED  BY <2>7, <2>8, <2>9
<1>4. Bad = {}
  <2>1. SUFFICES ASSUME Bad # {} PROVE FALSE
    OBVIOUS
  <2>2. PICK m \in Bad : \A k \in Bad : m <= k
    <3>1. Bad \in SUBSET Nat
      <4> HIDE DEF Good
      <4>. QED  OBVIOUS
    <3> HIDE DEF Bad
    <3>. QED  BY <2>1, <3>1, Least
  <2>3. m \in 0..n /\ ~ Good(m)
    <3> HIDE DEF Good
    <3>. QED  OBVIOUS
  <2>4. m # 0
    <3> HIDE DEF Good
    <3>. QED  BY <1>2, <2>3
  <2>5. m \in 1..n /\ m - 1 \in 0..n /\ ~ (m <= m - 1)
    BY <2>3, <2>4
  <2>6. Good(m - 1)
    <3>1. m - 1 \notin Bad
      <4> HIDE DEF Bad
      <4>. QED  BY <2>2, <2>5
    <3> HIDE DEF Good
    <3>. QED  BY <2>5, <3>1
  <2>. QED
    <3> HIDE DEF Good
    <3>. QED  BY <1>3, <2>3, <2>5, <2>6
<1>5. Good(n)
  <2>1. n \in 0..n
    OBVIOUS
  <2> HIDE DEF Good, n
  <2>. QED  BY <1>4, <2>1
<1>6. Rest(n) = Except(U, gone)
  <2>1. gone = Gone(n)
    BY <1>0
  <2>. QED  BY <2>1
<1> HIDE DEF Rest
<1>. QED  BY <1>1, <1>5, <1>6
=============================================================================
