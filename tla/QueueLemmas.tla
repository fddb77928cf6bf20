---------------------------- MODULE QueueLemmas ----------------------------
(***************************************************************************)
(* Facts that the proofs of the components share, about the sequences that *)
(* stand for the queues of the Kernel (list.ArrayList) and about counting  *)
(* the pages of processes.                                                 *)
(***************************************************************************)
EXTENDS Integers, Sequences, SequencesExt, FiniteSets, FiniteSetsExt,
        WellFoundedInduction, FiniteSetTheorems, TLAPS

(* A nonempty set of naturals has a smallest element.                      *)
LEMMA LeastNatural ==
    ASSUME NEW S \in SUBSET Nat, S # {}
    PROVE  \E i \in S : \A j \in S : i <= j
<1> DEFINE R == OpToRel(<, Nat)
<1>1. PICK i \in S : \A j \in S : ~(<<j, i>> \in R)
    <2> HIDE DEF R
    <2> QED BY NatLessThanWellFounded, WFMin DEF R
<1>2. \A j \in S : ~(j < i)
    BY <1>1 DEF OpToRel
<1> QED BY <1>2

(* What a position of a sequence holds.                                    *)
LEMMA ElementOfSeq ==
    ASSUME NEW T, NEW q \in Seq(T), NEW i \in 1..Len(q) PROVE q[i] \in T
OBVIOUS

(* An element of a concatenation.                                          *)
LEMMA ConcatElement ==
    ASSUME NEW T, NEW a \in Seq(T), NEW b \in Seq(T),
           NEW k \in 1..(Len(a) + Len(b))
    PROVE  (a \o b)[k] = IF k <= Len(a) THEN a[k] ELSE b[k - Len(a)]
OBVIOUS

(* Taking position i out of a sequence keeps the others in order.          *)
LEMMA RemoveAtProperties ==
    ASSUME NEW T, NEW q \in Seq(T), NEW i \in DOMAIN q
    PROVE  /\ RemoveAt(q, i) \in Seq(T)
           /\ DOMAIN RemoveAt(q, i) = 1..(Len(q) - 1)
           /\ \A k \in 1..(Len(q) - 1) :
                 RemoveAt(q, i)[k] = IF k < i THEN q[k] ELSE q[k + 1]
<1> DEFINE front == SubSeq(q, 1, i - 1)
           back == SubSeq(q, i + 1, Len(q))
<1>1. /\ i \in 1..Len(q) /\ Len(q) \in Nat
      /\ \A k \in 1..Len(q) : q[k] \in T
    OBVIOUS
<1>2. /\ front \in Seq(T) /\ Len(front) = i - 1
      /\ \A k \in 1..(i - 1) : front[k] = q[k]
    BY <1>1
<1>3. /\ back \in Seq(T) /\ Len(back) = Len(q) - i
      /\ \A k \in 1..(Len(q) - i) : back[k] = q[i + k]
    BY <1>1
<1>4. RemoveAt(q, i) = front \o back
    BY DEF RemoveAt
<1> HIDE DEF front, back
<1>5. front \o back \in Seq(T) /\ Len(front \o back) = Len(q) - 1
    BY <1>1, <1>2, <1>3
<1>6. DOMAIN (front \o back) = 1..(Len(q) - 1)
    BY <1>5
<1>7. ASSUME NEW k \in 1..(Len(q) - 1)
      PROVE  (front \o back)[k] = IF k < i THEN q[k] ELSE q[k + 1]
    <2>0. k \in 1..(Len(front) + Len(back))
        BY <1>1, <1>2, <1>3
    <2>1. (front \o back)[k] = IF k <= i - 1 THEN front[k] ELSE back[k - (i - 1)]
        <3>1. front \in Seq(T) /\ back \in Seq(T)
            BY <1>2, <1>3
        <3>2. (front \o back)[k] = IF k <= Len(front) THEN front[k]
                                   ELSE back[k - Len(front)]
            BY <2>0, <3>1, ConcatElement
        <3> QED BY <1>2, <3>2
    <2>2. CASE k < i
        BY <2>1, <2>2, <1>1, <1>2
    <2>3. CASE ~(k < i)
        <3>1. k - (i - 1) \in 1..(Len(q) - i) /\ i + (k - (i - 1)) = k + 1
            BY <2>3, <1>1
        <3> QED BY <2>1, <2>3, <3>1, <1>1, <1>3, SMTT(30)
    <2> QED BY <2>2, <2>3
<1> QED BY <1>4, <1>5, <1>6, <1>7

(* Taken out of a sequence without repetitions, an element is gone and the *)
(* others stay.                                                            *)
LEMMA RemoveAtKeeps ==
    ASSUME NEW T, NEW q \in Seq(T), IsInjective(q), NEW i \in DOMAIN q
    PROVE  /\ IsInjective(RemoveAt(q, i))
           /\ \A p : Contains(RemoveAt(q, i), p) <=> Contains(q, p) /\ p # q[i]
<1> DEFINE r == RemoveAt(q, i)
           n == Len(q)
<1>1. /\ r \in Seq(T) /\ DOMAIN r = 1..(n - 1) /\ Len(r) = n - 1
      /\ \A k \in 1..(n - 1) : r[k] = IF k < i THEN q[k] ELSE q[k + 1]
    <2>1. r \in Seq(T) /\ DOMAIN r = 1..(n - 1)
        BY RemoveAtProperties
    <2>2. n \in Nat /\ i \in 1..n /\ Len(r) \in Nat /\ DOMAIN r = 1..Len(r)
        BY <2>1
    <2>3. Len(r) = n - 1
        BY <2>1, <2>2
    <2> QED BY <2>1, <2>3, RemoveAtProperties
<1>2. n \in Nat /\ i \in 1..n /\ \A a, b \in 1..n : q[a] = q[b] => a = b
    BY DEF IsInjective
<1> HIDE DEF r, n
<1> DEFINE old(k) == IF k < i THEN k ELSE k + 1
<1>0. ASSUME NEW k \in 1..(n - 1)
      PROVE  old(k) \in 1..n /\ old(k) # i /\ r[k] = q[old(k)]
    <2>1. CASE k < i
        BY <2>1, <1>1, <1>2
    <2>2. CASE ~(k < i)
        BY <2>2, <1>1, <1>2
    <2> QED BY <2>1, <2>2
<1>3. \A a, b \in 1..(n - 1) : r[a] = r[b] => a = b
    <2> SUFFICES ASSUME NEW a \in 1..(n - 1), NEW b \in 1..(n - 1), r[a] = r[b]
                 PROVE  a = b
        OBVIOUS
    <2>1. old(a) = old(b)
        BY <1>0, <1>2
    <2> QED BY <2>1, <1>2
<1>4. ASSUME NEW p, Contains(r, p) PROVE Contains(q, p) /\ p # q[i]
    <2>1. PICK k \in 1..(n - 1) : r[k] = p
        BY <1>1, <1>4 DEF Contains
    <2>2. PICK l \in 1..n : q[l] = p /\ l # i
        BY <2>1, <1>0
    <2> QED BY <2>2, <1>2 DEF Contains, n
<1>5. ASSUME NEW p, Contains(q, p), p # q[i] PROVE Contains(r, p)
    <2>1. PICK l \in 1..n : q[l] = p /\ l # i
        BY <1>5 DEF Contains, n
    <2>2. CASE l < i
        BY <2>1, <2>2, <1>1, <1>2 DEF Contains
    <2>3. CASE l > i
        <3>1. l - 1 \in 1..(n - 1) /\ ~(l - 1 < i) /\ (l - 1) + 1 = l
            BY <2>1, <2>3, <1>2
        <3>2. r[l - 1] = p
            BY <3>1, <2>1, <1>1
        <3> QED BY <3>1, <3>2, <1>1 DEF Contains
    <2> QED BY <2>1, <2>2, <2>3, <1>2
<1> QED BY <1>1, <1>3, <1>4, <1>5 DEF IsInjective, r

(* Appending an element the sequence does not have.                        *)
LEMMA AppendKeeps ==
    ASSUME NEW T, NEW q \in Seq(T), IsInjective(q), NEW e \in T, ~Contains(q, e)
    PROVE  /\ IsInjective(Append(q, e))
           /\ \A p : Contains(Append(q, e), p) <=> Contains(q, p) \/ p = e
<1> DEFINE r == Append(q, e)
           n == Len(q)
<1>1. /\ n \in Nat /\ Len(r) = n + 1 /\ DOMAIN r = 1..(n + 1)
      /\ \A k \in 1..n : r[k] = q[k]
      /\ r[n + 1] = e
    OBVIOUS
<1>2. /\ \A a, b \in 1..n : q[a] = q[b] => a = b
      /\ \A a \in 1..n : q[a] # e
    BY DEF IsInjective, Contains
<1> HIDE DEF r, n
<1>3. \A a, b \in 1..(n + 1) : r[a] = r[b] => a = b
    BY <1>1, <1>2
<1>4. ASSUME NEW p PROVE Contains(r, p) <=> Contains(q, p) \/ p = e
    <2>1. Contains(r, p) <=> \E k \in 1..(n + 1) : r[k] = p
        BY <1>1 DEF Contains
    <2>2. Contains(q, p) <=> \E k \in 1..n : q[k] = p
        BY DEF Contains, n
    <2> QED BY <2>1, <2>2, <1>1
<1> QED BY <1>1, <1>3, <1>4 DEF IsInjective, r

(* The head of a sequence without repetitions is not in its tail.          *)
LEMMA TailKeeps ==
    ASSUME NEW T, NEW q \in Seq(T), IsInjective(q), q # <<>>
    PROVE  /\ Head(q) \in T /\ Tail(q) \in Seq(T)
           /\ IsInjective(Tail(q))
           /\ Contains(q, Head(q))
           /\ \A p : Contains(Tail(q), p) <=> Contains(q, p) /\ p # Head(q)
<1> DEFINE n == Len(q)
<1>1. /\ n \in Nat /\ n # 0 /\ DOMAIN q = 1..n /\ 1 \in 1..n
      /\ Head(q) = q[1] /\ Head(q) \in T
    OBVIOUS
<1>2. /\ Tail(q) \in Seq(T) /\ Len(Tail(q)) = n - 1
      /\ DOMAIN Tail(q) = 1..(n - 1)
      /\ \A k \in 1..(n - 1) : Tail(q)[k] = q[k + 1]
    OBVIOUS
<1>3. \A a, b \in 1..n : q[a] = q[b] => a = b
    BY <1>1 DEF IsInjective
<1>4. Contains(q, Head(q))
    BY <1>1 DEF Contains
<1> HIDE DEF n
<1>5. IsInjective(Tail(q))
    <2> SUFFICES ASSUME NEW a \in 1..(n - 1), NEW b \in 1..(n - 1),
                        Tail(q)[a] = Tail(q)[b]
                 PROVE  a = b
        BY <1>2 DEF IsInjective
    <2>1. q[a + 1] = q[b + 1]
        BY <1>2
    <2>2. a + 1 \in 1..n /\ b + 1 \in 1..n
        BY <1>1
    <2> QED BY <1>3, <2>1, <2>2
<1>6. ASSUME NEW p PROVE Contains(Tail(q), p) <=> Contains(q, p) /\ p # Head(q)
    <2>1. ASSUME NEW k \in 1..(n - 1), Tail(q)[k] = p
          PROVE  Contains(q, p) /\ p # Head(q)
        <3>1. k + 1 \in 1..n /\ k + 1 # 1 /\ q[k + 1] = p
            BY <1>1, <1>2, <2>1
        <3> QED BY <1>1, <1>3, <3>1 DEF Contains, n
    <2>2. ASSUME NEW k \in 1..n, q[k] = p, p # Head(q)
          PROVE  Contains(Tail(q), p)
        <3>1. k - 1 \in 1..(n - 1) /\ (k - 1) + 1 = k
            BY <1>1, <2>2
        <3>2. Tail(q)[k - 1] = p
            BY <1>2, <2>2, <3>1
        <3> QED BY <1>2, <3>1, <3>2 DEF Contains
    <2>3. Contains(Tail(q), p) <=> \E k \in 1..(n - 1) : Tail(q)[k] = p
        BY <1>2 DEF Contains
    <2>4. Contains(q, p) <=> \E k \in 1..n : q[k] = p
        BY DEF Contains, n
    <2> QED BY <2>1, <2>2, <2>3, <2>4
<1> QED BY <1>1, <1>2, <1>4, <1>5, <1>6

(* RemoveWhere with the PID of a process leaves a queue, without the       *)
(* process if it was there once, and with the others.                      *)
LEMMA RemoveFirstIs ==
    ASSUME NEW T, NEW q \in Seq(T), NEW e
    PROVE  /\ ~Contains(q, e) => RemoveFirst(q, e) = q
           /\ Contains(q, e) => \E i \in DOMAIN q :
                 q[i] = e /\ RemoveFirst(q, e) = RemoveAt(q, i)
<1>1. ASSUME ~Contains(q, e) PROVE RemoveFirst(q, e) = q
    BY <1>1 DEF RemoveFirst, Contains
<1>2. ASSUME Contains(q, e)
      PROVE  \E i \in DOMAIN q : q[i] = e /\ RemoveFirst(q, e) = RemoveAt(q, i)
    <2> DEFINE I == {i \in 1..Len(q) : q[i] = e}
               m == Min(I)
    <2>1. I # {} /\ I \in SUBSET Nat
        BY <1>2 DEF Contains
    <2>2. m \in I
        BY <2>1, LeastNatural DEF Min
    <2>3. RemoveFirst(q, e) = RemoveAt(q, m)
        BY <1>2, <2>1 DEF RemoveFirst, SelectInSeq, Contains
    <2>4. m \in DOMAIN q /\ q[m] = e
        BY <2>2
    <2> QED BY <2>3, <2>4
<1> QED BY <1>1, <1>2

LEMMA RemoveFirstType ==
    ASSUME NEW T, NEW q \in Seq(T), NEW e
    PROVE  RemoveFirst(q, e) \in Seq(T)
<1>1. CASE ~Contains(q, e)
    BY <1>1, RemoveFirstIs
<1>2. CASE Contains(q, e)
    <2>1. PICK i \in DOMAIN q : RemoveFirst(q, e) = RemoveAt(q, i)
        BY <1>2, RemoveFirstIs
    <2> QED BY <2>1, RemoveAtProperties
<1> QED BY <1>1, <1>2

LEMMA RemoveFirstKeeps ==
    ASSUME NEW T, NEW q \in Seq(T), IsInjective(q), NEW e
    PROVE  /\ IsInjective(RemoveFirst(q, e))
           /\ \A p : Contains(RemoveFirst(q, e), p) <=> Contains(q, p) /\ p # e
<1>1. CASE ~Contains(q, e)
    <2>1. RemoveFirst(q, e) = q
        BY <1>1, RemoveFirstIs
    <2> QED BY <1>1, <2>1
<1>2. CASE Contains(q, e)
    <2>1. PICK i \in DOMAIN q : q[i] = e /\ RemoveFirst(q, e) = RemoveAt(q, i)
        BY <1>2, RemoveFirstIs
    <2> QED BY <2>1, RemoveAtKeeps
<1> QED BY <1>1, <1>2
-----------------------------------------------------------------------------
(* The pages of one process, as pairs, are as many as it needs.            *)
LEMMA PagesCount ==
    ASSUME NEW p, NEW n \in Nat
    PROVE  /\ IsFiniteSet({p} \X (1..n))
           /\ Cardinality({p} \X (1..n)) = n
<1> DEFINE f == [i \in 1..n |-> <<p, i>>]
<1>1. f \in [1..n -> {p} \X (1..n)]
    OBVIOUS
<1>2. IsInjective(f)
    BY DEF IsInjective
<1>3. \A t \in {p} \X (1..n) : \E s \in 1..n : f[s] = t
    OBVIOUS
<1> HIDE DEF f
<1>4. ExistsBijection(1..n, {p} \X (1..n))
    <2>1. f \in Injection(1..n, {p} \X (1..n))
        BY <1>1, <1>2 DEF Injection
    <2>2. f \in Surjection(1..n, {p} \X (1..n))
        BY <1>1, <1>3 DEF Surjection
    <2> QED BY <2>1, <2>2 DEF ExistsBijection, Bijection
<1>5. IsFiniteSet(1..n) /\ Cardinality(1..n) = n
    BY FS_Interval
<1> QED BY <1>4, <1>5, FS_Bijection

(* A set of n more elements at most is n larger at most.                   *)
LEMMA UnionCount ==
    ASSUME NEW S, IsFiniteSet(S), NEW T, IsFiniteSet(T)
    PROVE  /\ IsFiniteSet(S \union T)
           /\ Cardinality(S \union T) <= Cardinality(S) + Cardinality(T)
           /\ S \cap T = {} =>
                 Cardinality(S \union T) = Cardinality(S) + Cardinality(T)
<1>1. /\ IsFiniteSet(S \union T) /\ IsFiniteSet(S \cap T)
      /\ Cardinality(S \union T) =
            Cardinality(S) + Cardinality(T) - Cardinality(S \cap T)
    BY FS_Union, FS_Intersection
<1>2. /\ Cardinality(S) \in Nat /\ Cardinality(T) \in Nat
      /\ Cardinality(S \cap T) \in Nat
    BY <1>1, FS_CardinalityType
<1> QED BY <1>1, <1>2, FS_EmptySet

(* The least and the greatest element of a finite set of naturals.         *)
LEMMA LeastIs ==
    ASSUME NEW S \in SUBSET Nat, S # {}
    PROVE  Min(S) \in S /\ \A i \in S : Min(S) <= i
<1>1. \E i : i \in S /\ \A j \in S : i <= j
    BY LeastNatural
<1> QED BY <1>1 DEF Min

LEMMA GreatestIs ==
    ASSUME NEW n \in Nat, NEW S \in SUBSET (1..n), S # {}
    PROVE  Max(S) \in S /\ \A i \in S : Max(S) >= i
<1> DEFINE T == {i \in 0..n : n - i \in S}
<1>1. PICK i \in T : \A j \in T : i <= j
    <2>1. T \in SUBSET Nat /\ T # {}
        <3>1. PICK k \in S : TRUE
            OBVIOUS
        <3>2. n - k \in T
            BY <3>1
        <3>3. \A t \in T : t \in Nat
            OBVIOUS
        <3> HIDE DEF T
        <3> QED BY <3>2, <3>3
    <2> HIDE DEF T
    <2> QED BY <2>1, LeastNatural
<1>2. n - i \in S /\ \A k \in S : n - i >= k
    <2> SUFFICES ASSUME NEW k \in S PROVE n - i >= k
        BY <1>1
    <2>1. n - k \in T
        OBVIOUS
    <2>2. i <= n - k
        BY <1>1, <2>1
    <2> QED BY <2>2
<1>3. \E k : k \in S /\ \A j \in S : k >= j
    BY <1>2
<1> QED BY <1>3 DEF Max

(* Counting, for each element of a finite set of naturals, those that are  *)
(* not greater numbers the elements 1, 2, ... in their order.              *)
LEMMA RanksAreOnto ==
    ASSUME NEW S \in SUBSET Nat, IsFiniteSet(S)
    PROVE  LET rank == [k \in S |-> Cardinality({j \in S : j <= k})] IN
           /\ Cardinality(S) \in Nat
           /\ rank \in [S -> 1..Cardinality(S)]
           /\ \A k, m \in S : k < m => rank[k] < rank[m]
           /\ \A i \in 1..Cardinality(S) : \E k \in S : rank[k] = i
<1> DEFINE Below(k) == {j \in S : j <= k}
           rank == [k \in S |-> Cardinality(Below(k))]
           n == Cardinality(S)
<1>1. n \in Nat
    BY FS_CardinalityType
<1>2. \A k \in S : /\ IsFiniteSet(Below(k)) /\ Cardinality(Below(k)) \in Nat
                    /\ Cardinality(Below(k)) <= n /\ Cardinality(Below(k)) # 0
    <2> SUFFICES ASSUME NEW k \in S
                 PROVE  /\ IsFiniteSet(Below(k)) /\ Cardinality(Below(k)) \in Nat
                        /\ Cardinality(Below(k)) <= n /\ Cardinality(Below(k)) # 0
        OBVIOUS
    <2>1. Below(k) \in SUBSET S /\ k \in Below(k)
        OBVIOUS
    <2> HIDE DEF Below
    <2>2. IsFiniteSet(Below(k)) /\ Cardinality(Below(k)) <= n
        BY <2>1, FS_Subset
    <2> QED BY <2>1, <2>2, FS_CardinalityType, FS_EmptySet
<1>3. rank \in [S -> 1..n]
    <2> SUFFICES ASSUME NEW k \in S PROVE Cardinality(Below(k)) \in 1..n
        OBVIOUS
    <2> HIDE DEF Below
    <2> QED BY <1>1, <1>2
<1>4. ASSUME NEW k \in S, NEW m \in S, k < m PROVE rank[k] < rank[m]
    <2>1. Below(k) \in SUBSET Below(m) /\ m \in Below(m) /\ m \notin Below(k)
        <3>1. \A j \in S : j <= k => j <= m
            BY <1>4
        <3>2. \A j \in Below(k) : j \in Below(m)
            BY <3>1
        <3>3. m \in Below(m) /\ m \notin Below(k)
            BY <1>4
        <3> HIDE DEF Below
        <3> QED BY <3>2, <3>3
    <2>2. /\ IsFiniteSet(Below(m))
          /\ Cardinality(Below(k)) \in Nat /\ Cardinality(Below(m)) \in Nat
        BY <1>2
    <2>3. rank[k] = Cardinality(Below(k)) /\ rank[m] = Cardinality(Below(m))
        OBVIOUS
    <2> HIDE DEF Below, rank
    <2>4. /\ Cardinality(Below(k)) <= Cardinality(Below(m))
          /\ Cardinality(Below(k)) # Cardinality(Below(m))
        BY <2>1, <2>2, FS_Subset
    <2> QED BY <2>2, <2>3, <2>4
<1>5. rank \in Surjection(S, 1..n)
    <2>1. rank \in Injection(S, 1..n)
        <3>1. \A k, m \in S : rank[k] = rank[m] => k = m
            <4> SUFFICES ASSUME NEW k \in S, NEW m \in S, k # m
                         PROVE  rank[k] # rank[m]
                OBVIOUS
            <4>1. k < m \/ m < k
                OBVIOUS
            <4>2. rank[k] \in 1..n /\ rank[m] \in 1..n
                BY <1>3
            <4> HIDE DEF rank
            <4> QED BY <1>1, <1>4, <4>1, <4>2
        <3> HIDE DEF rank
        <3> QED BY <1>3, <3>1 DEF Injection, IsInjective
    <2>2. IsFiniteSet(1..n) /\ Cardinality(1..n) = n
        BY <1>1, FS_Interval
    <2> HIDE DEF rank
    <2> QED BY <2>1, <2>2, FS_Injection
<1>6. \A i \in 1..n : \E k \in S : rank[k] = i
    <2> HIDE DEF rank
    <2> QED BY <1>5 DEF Surjection
<1> QED BY <1>1, <1>3, <1>4, <1>6
=============================================================================
