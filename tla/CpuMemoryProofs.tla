------------------------- MODULE CpuMemoryProofs -------------------------
(***************************************************************************)
(* What TLAPS proves of CpuMemory: what the operators on TLB, cache and    *)
(* page tables return; from that the types and shapes, and that a victim   *)
(* is a cheapest one; and, in the Circumstances the code relies on, that   *)
(* every entry and every frame agree with what was written last            *)
(* (SoundInv), so that processes read what they wrote.                     *)
(***************************************************************************)
EXTENDS CpuMemory, QueueLemmas

(* Taking out the entries of a process: the others, each once, and all in  *)
(* their place if there were none of it.                                   *)
LEMMA WithoutIs ==
    ASSUME NEW T, NEW s \in Seq(T), NEW p
    PROVE  LET w == Without(s, p) IN
           /\ w \in Seq(T) /\ Len(w) <= Len(s)
           /\ \E pos \in [DOMAIN w -> DOMAIN s] :
                 /\ \A n \in DOMAIN w : w[n] = s[pos[n]] /\ s[pos[n]].pid # p
                 /\ \A k \in DOMAIN s : s[k].pid # p =>
                       \E n \in DOMAIN w : pos[n] = k
                 /\ \A n, m \in DOMAIN w : pos[n] = pos[m] => n = m
                 /\ Len(w) = Len(s) => \A n \in DOMAIN w : pos[n] = n
<1> DEFINE kept == {k \in DOMAIN s : s[k].pid # p}
           size == Cardinality(kept)
           rank == [k \in kept |-> Cardinality({j \in kept : j <= k})]
           pos == [n \in 1..size |-> Kth(kept, n)]
           w == Without(s, p)
<1>0. DOMAIN s = 1..Len(s) /\ Len(s) \in Nat /\ \A k \in DOMAIN s : s[k] \in T
    OBVIOUS
<1>1. /\ kept \in SUBSET (1..Len(s)) /\ kept \in SUBSET Nat
      /\ IsFiniteSet(kept) /\ size \in Nat /\ size <= Len(s)
      /\ size = Len(s) => kept = 1..Len(s)
    <2>1. kept \in SUBSET (1..Len(s))
        BY <1>0
    <2>2. IsFiniteSet(1..Len(s)) /\ Cardinality(1..Len(s)) = Len(s)
        BY <1>0, FS_Interval
    <2> HIDE DEF kept
    <2>3. kept \in SUBSET Nat
        BY <1>0, <2>1
    <2> QED BY <2>1, <2>2, <2>3, FS_Subset, FS_CardinalityType
<1>2. /\ rank \in [kept -> 1..size]
      /\ \A k, m \in kept : k < m => rank[k] < rank[m]
      /\ \A i \in 1..size : \E k \in kept : rank[k] = i
    <2> HIDE DEF kept
    <2> QED BY <1>1, RanksAreOnto
<1>3. \A n \in 1..size : pos[n] \in kept /\ rank[pos[n]] = n
    <2> SUFFICES ASSUME NEW n \in 1..size
                 PROVE  pos[n] \in kept /\ rank[pos[n]] = n
        OBVIOUS
    <2>1. \E k : k \in kept /\ Cardinality({j \in kept : j <= k}) = n
        <3> HIDE DEF kept
        <3> QED BY <1>2
    <2>2. pos[n] = CHOOSE k : k \in kept /\ Cardinality({j \in kept : j <= k}) = n
        <3> HIDE DEF kept
        <3> QED BY Zenon DEF Kth
    <2>3. pos[n] \in kept /\ Cardinality({j \in kept : j <= pos[n]}) = n
        <3> HIDE DEF kept, pos
        <3> QED BY <2>1, <2>2
    <2> HIDE DEF kept, pos
    <2> QED BY <2>3
<1>4. w = [n \in 1..size |-> s[pos[n]]]
    BY DEF Without
<1>5. ASSUME size = Len(s), NEW n \in 1..size PROVE pos[n] = n
    <2>1. kept = 1..Len(s)
        BY <1>1, <1>5
    <2>2. n \in kept /\ rank[n] = n
        <3>1. {j \in kept : j <= n} = 1..n
            <4> HIDE DEF kept
            <4> QED BY <1>0, <1>5, <2>1
        <3>2. Cardinality(1..n) = n
            BY <1>1, FS_Interval
        <3> HIDE DEF kept
        <3> QED BY <1>5, <2>1, <3>1, <3>2
    <2>3. pos[n] \in kept /\ rank[pos[n]] = n
        BY <1>3
    <2>4. pos[n] \in Nat /\ n \in Nat
        <3> HIDE DEF kept, pos, rank
        <3> QED BY <1>1, <1>5, <2>3
    <2>5. ~(pos[n] < n) /\ ~(n < pos[n])
        <3>1. n \in Nat
            BY <1>1, <1>5
        <3>2. \A k, m \in kept : k < m => rank[k] < rank[m]
            BY <1>2
        <3> HIDE DEF kept, pos, rank
        <3> QED BY <2>2, <2>3, <2>4, <3>1, <3>2
    <2> HIDE DEF kept, pos, rank
    <2> QED BY <2>4, <2>5
<1>6. \A k \in kept : rank[k] \in 1..size /\ pos[rank[k]] = k
    <2> SUFFICES ASSUME NEW k \in kept
                 PROVE  rank[k] \in 1..size /\ pos[rank[k]] = k
        OBVIOUS
    <2>1. rank[k] \in 1..size
        <3> HIDE DEF kept, pos, rank
        <3> QED BY <1>2
    <2>2. pos[rank[k]] \in kept /\ rank[pos[rank[k]]] = rank[k]
        <3> HIDE DEF kept, pos, rank
        <3> QED BY <1>3, <2>1
    <2>3. pos[rank[k]] \in Nat /\ k \in Nat
        <3> HIDE DEF kept, pos, rank
        <3> QED BY <1>1, <2>2
    <2>4. ~(pos[rank[k]] < k) /\ ~(k < pos[rank[k]])
        <3>1. rank[k] \in Nat
            <4> HIDE DEF rank, kept
            <4> QED BY <1>1, <2>1
        <3> HIDE DEF kept, pos, rank
        <3> QED BY <1>2, <2>2, <3>1
    <2> HIDE DEF kept, pos, rank
    <2> QED BY <2>1, <2>3, <2>4
<1>7. w \in Seq(T) /\ Len(w) = size /\ DOMAIN w = 1..size
    <2>1. \A n \in 1..size : s[pos[n]] \in T
        <3> HIDE DEF pos, rank
        <3> QED BY <1>0, <1>3
    <2> HIDE DEF kept, pos, rank, w
    <2> QED BY <1>1, <1>4, <2>1
<1>8. pos \in [DOMAIN w -> DOMAIN s]
    <2>1. \A n \in 1..size : pos[n] \in DOMAIN s
        <3> HIDE DEF pos, rank
        <3> QED BY <1>3
    <2>2. pos = [n \in 1..size |-> pos[n]]
        OBVIOUS
    <2> HIDE DEF kept, pos, rank, w
    <2> QED BY <1>7, <2>1, <2>2
<1>9. \A n \in DOMAIN w : w[n] = s[pos[n]] /\ s[pos[n]].pid # p
    <2>1. \A n \in 1..size : s[pos[n]].pid # p
        <3> HIDE DEF pos, rank
        <3> QED BY <1>3
    <2> HIDE DEF kept, pos, rank, w
    <2> QED BY <1>4, <1>7, <2>1
<1>10. \A k \in DOMAIN s : s[k].pid # p => \E n \in DOMAIN w : pos[n] = k
    <2> SUFFICES ASSUME NEW k \in DOMAIN s, s[k].pid # p
                 PROVE  \E n \in DOMAIN w : pos[n] = k
        OBVIOUS
    <2>1. k \in kept
        OBVIOUS
    <2> HIDE DEF kept, pos, rank, w
    <2> QED BY <1>6, <1>7, <2>1
<1>11. \A n, m \in DOMAIN w : pos[n] = pos[m] => n = m
    <2> HIDE DEF kept, pos, rank, w
    <2> QED BY <1>3, <1>7
<1>12. Len(w) = Len(s) => \A n \in DOMAIN w : pos[n] = n
    <2> HIDE DEF kept, pos, rank, w
    <2> QED BY <1>5, <1>7
<1>13. Len(w) <= Len(s)
    BY <1>1, <1>7
<1> HIDE DEF pos, w, kept, rank
<1> QED BY <1>7, <1>8, <1>9, <1>10, <1>11, <1>12, <1>13 DEF w
-----------------------------------------------------------------------------
(* The TLB.                                                                *)
TlbShape(t, n) ==
    /\ t = [entries |-> t.entries, fifo |-> t.fifo]
    /\ t.entries \in Seq(TlbEntries) /\ Len(t.entries) <= n
    /\ t.fifo \in {1} \union 1..n

SameTranslation(a, b) == a.pid = b.pid /\ a.page = b.page /\ a.frame = b.frame
(* Every entry of one TLB is an entry of another.                          *)
Covered(entries, others) ==
    \A k \in DOMAIN entries : \E j \in DOMAIN others :
        SameTranslation(entries[k], others[j])

(* Counting uses again changes nothing but the counts.                     *)
LEMMA RankedIs ==
    ASSUME NEW s \in Seq(TlbEntries)
    PROVE  /\ Ranked(s) \in Seq(TlbEntries) /\ Len(Ranked(s)) = Len(s)
           /\ \A k \in DOMAIN s : SameTranslation(Ranked(s)[k], s[k])
<1> DEFINE count(k) == Cardinality({j \in DOMAIN s : s[j].lastUsed <= s[k].lastUsed})
<1>0. DOMAIN s = 1..Len(s) /\ Len(s) \in Nat /\ \A k \in DOMAIN s : s[k] \in TlbEntries
    OBVIOUS
<1>1. \A k \in DOMAIN s : count(k) \in Nat
    <2> SUFFICES ASSUME NEW k \in DOMAIN s PROVE count(k) \in Nat
        OBVIOUS
    <2>1. IsFiniteSet(1..Len(s))
        BY <1>0, FS_Interval
    <2>2. {j \in DOMAIN s : s[j].lastUsed <= s[k].lastUsed} \in SUBSET (1..Len(s))
        BY <1>0
    <2> QED BY <2>1, <2>2, FS_Subset, FS_CardinalityType
<1>2. Ranked(s) = [k \in DOMAIN s |-> [s[k] EXCEPT !.lastUsed = count(k)]]
    BY DEF Ranked
<1> HIDE DEF count
<1>3. \A k \in DOMAIN s : /\ [s[k] EXCEPT !.lastUsed = count(k)] \in TlbEntries
                          /\ SameTranslation([s[k] EXCEPT !.lastUsed = count(k)], s[k])
    BY <1>0, <1>1 DEF TlbEntries, SameTranslation
<1>4. \A k \in DOMAIN s : Ranked(s)[k] = [s[k] EXCEPT !.lastUsed = count(k)]
    BY <1>2
<1>5. Ranked(s) = [k \in 1..Len(s) |-> Ranked(s)[k]]
    BY <1>0, <1>2
<1>6. \A k \in 1..Len(s) : Ranked(s)[k] \in TlbEntries
    BY <1>0, <1>3, <1>4
<1>7. Ranked(s) \in Seq(TlbEntries) /\ Len(Ranked(s)) = Len(s)
    BY <1>0, <1>5, <1>6
<1> QED BY <1>3, <1>4, <1>7

LEMMA JustUsedIs ==
    ASSUME NEW s \in Seq(TlbEntries), NEW k
    PROVE  /\ JustUsed(s, k) \in Seq(TlbEntries) /\ Len(JustUsed(s, k)) = Len(s)
           /\ \A j \in DOMAIN s : SameTranslation(JustUsed(s, k)[j], s[j])
<1> DEFINE u == [s EXCEPT ![k].lastUsed = Len(s) + 1]
<1>0. DOMAIN s = 1..Len(s) /\ Len(s) \in Nat /\ \A j \in DOMAIN s : s[j] \in TlbEntries
    OBVIOUS
<1>1. u = [j \in 1..Len(s) |->
              IF j = k THEN [s[j] EXCEPT !.lastUsed = Len(s) + 1] ELSE s[j]]
    BY <1>0
<1> HIDE DEF u
<1>2. \A j \in DOMAIN s : u[j] \in TlbEntries /\ SameTranslation(u[j], s[j])
    <2> SUFFICES ASSUME NEW j \in DOMAIN s
                 PROVE  u[j] \in TlbEntries /\ SameTranslation(u[j], s[j])
        OBVIOUS
    <2>1. /\ s[j] \in TlbEntries
          /\ u[j] \in {s[j], [s[j] EXCEPT !.lastUsed = Len(s) + 1]}
        BY <1>0, <1>1
    <2>2. CASE u[j] = s[j]
        BY <2>1, <2>2 DEF SameTranslation
    <2>3. CASE u[j] = [s[j] EXCEPT !.lastUsed = Len(s) + 1]
        <3>1. Len(s) + 1 \in Nat
            BY <1>0
        <3>2. [s[j] EXCEPT !.lastUsed = Len(s) + 1] \in TlbEntries
            BY <2>1, <3>1 DEF TlbEntries
        <3>3. SameTranslation([s[j] EXCEPT !.lastUsed = Len(s) + 1], s[j])
            BY <2>1 DEF TlbEntries, SameTranslation
        <3> QED BY <2>3, <3>2, <3>3
    <2> QED BY <2>1, <2>2, <2>3
<1>3. u \in Seq(TlbEntries) /\ Len(u) = Len(s) /\ DOMAIN u = DOMAIN s
    BY <1>0, <1>1, <1>2
<1>4. JustUsed(s, k) = Ranked(u)
    BY DEF JustUsed, u
<1>5. DOMAIN Ranked(u) = DOMAIN s
    BY <1>0, <1>3, <1>4, RankedIs
<1> QED BY <1>2, <1>3, <1>4, <1>5, RankedIs DEF SameTranslation

(* insert_tlb adds the translation, in a place of its own or of another.   *)
LEMMA InsertIs ==
    ASSUME NEW n \in Nat \ {0}, n = setting.tlbEntries, NEW t, TlbShape(t, n),
           NEW p \in Procs, NEW i \in Nat, NEW f \in Frames
    PROVE  LET new == insert_tlb(t, p, i, f)
               e == [pid |-> p, page |-> i, frame |-> f, lastUsed |-> 0]
           IN  /\ TlbShape(new, n)
               /\ Covered(new.entries, Append(t.entries, e))
<1> DEFINE e == [pid |-> p, page |-> i, frame |-> f, lastUsed |-> 0]
           s == t.entries
           slot == IF setting.tlbReplacement = "FIFO" THEN t.fifo
                   ELSE IF setting.tlbReplacement = "LRU"
                   THEN CHOOSE k \in 1..n : t.entries[k].lastUsed = 1 ELSE 1
           new == insert_tlb(t, p, i, f)
<1>0. /\ s \in Seq(TlbEntries) /\ DOMAIN s = 1..Len(s) /\ Len(s) \in Nat
      /\ Len(s) <= n /\ t = [entries |-> s, fifo |-> t.fifo]
      /\ t.fifo \in {1} \union 1..n
    BY DEF TlbShape
<1>1. e \in TlbEntries
    BY DEF TlbEntries
<1>2. \A j \in DOMAIN s : s[j] \in TlbEntries
    BY <1>0
<1> HIDE DEF e, s
<1>3. /\ Append(s, e) \in Seq(TlbEntries) /\ Len(Append(s, e)) = Len(s) + 1
      /\ DOMAIN Append(s, e) = 1..(Len(s) + 1)
      /\ \A j \in DOMAIN s : Append(s, e)[j] = s[j]
      /\ Append(s, e)[Len(s) + 1] = e
    BY <1>0, <1>1
<1>4. CASE Len(s) < n
    <2> DEFINE u == JustUsed(Append(s, e), Len(s) + 1)
    <2>1. new = [entries |-> u, fifo |-> t.fifo]
        <3> HIDE DEF slot, u
        <3>1. new = [t EXCEPT !.entries = u]
            BY <1>4 DEF insert_tlb, e, s, u
        <3> QED BY <1>0, <3>1
    <2>2. /\ u \in Seq(TlbEntries) /\ Len(u) = Len(s) + 1
          /\ \A j \in 1..(Len(s) + 1) : SameTranslation(u[j], Append(s, e)[j])
        BY <1>3, JustUsedIs
    <2> HIDE DEF u, new, slot
    <2>3. TlbShape(new, n)
        BY <1>0, <1>4, <2>1, <2>2 DEF TlbShape
    <2>4. Covered(u, Append(s, e))
        BY <1>0, <1>3, <2>2 DEF Covered
    <2> QED BY <2>1, <2>3, <2>4 DEF new, e, s
<1>5. CASE ~(Len(s) < n)
    <2> DEFINE v == [s EXCEPT ![slot] = e]
               u == JustUsed(v, slot)
               fifo == IF setting.tlbReplacement = "FIFO" THEN (t.fifo % n) + 1 ELSE t.fifo
    <2>1. new = [entries |-> u, fifo |-> fifo]
        <3>1. insert_tlb(t, p, i, f) =
                 [entries |-> JustUsed([t.entries EXCEPT ![slot] = e], slot),
                  fifo |-> fifo]
            BY <1>5 DEF insert_tlb, e, s
        <3> QED BY <3>1 DEF s
    <2> HIDE DEF slot
    <2>2. v = [j \in 1..Len(s) |-> IF j = slot THEN e ELSE s[j]]
        BY <1>0
    <2> HIDE DEF v
    <2>3. /\ v \in Seq(TlbEntries) /\ Len(v) = Len(s) /\ DOMAIN v = DOMAIN s
          /\ \A j \in DOMAIN s : v[j] = IF j = slot THEN e ELSE s[j]
        BY <1>0, <1>1, <1>2, <2>2
    <2>4. /\ u \in Seq(TlbEntries) /\ Len(u) = Len(s)
          /\ \A j \in DOMAIN s : SameTranslation(u[j], v[j])
        BY <2>3, JustUsedIs
    <2>5. fifo \in {1} \union 1..n
        BY <1>0
    <2> HIDE DEF u, new, fifo
    <2>6. TlbShape(new, n)
        BY <1>0, <2>1, <2>4, <2>5 DEF TlbShape
    <2>7. Covered(u, Append(s, e))
        <3> SUFFICES ASSUME NEW k \in DOMAIN u
                     PROVE  \E j \in DOMAIN Append(s, e) :
                                SameTranslation(u[k], Append(s, e)[j])
            BY DEF Covered
        <3>1. k \in DOMAIN s /\ SameTranslation(u[k], v[k])
            BY <1>0, <2>4
        <3>2. CASE k = slot
            <4>1. SameTranslation(u[k], Append(s, e)[Len(s) + 1])
                BY <1>3, <2>3, <3>1, <3>2
            <4>2. Len(s) + 1 \in DOMAIN Append(s, e)
                BY <1>0, <1>3
            <4> QED BY <4>1, <4>2
        <3>3. CASE k # slot
            <4>1. SameTranslation(u[k], Append(s, e)[k])
                BY <1>3, <2>3, <3>1, <3>3
            <4>2. k \in DOMAIN Append(s, e)
                BY <1>0, <1>3, <3>1
            <4> QED BY <4>1, <4>2
        <3> QED BY <3>2, <3>3
    <2> QED BY <2>1, <2>6, <2>7 DEF new, e, s
<1> QED BY <1>4, <1>5

(* TranslateAddress: the frame is the one the page table gives, or that of *)
(* an entry, and the TLB has nothing else that is new.                     *)
LEMMA TranslateIs ==
    ASSUME NEW n \in Nat, n = setting.tlbEntries, NEW c, TlbShape(tlb[c], n),
           NEW p \in Procs, NEW i \in Nat,
           SearchFrame(table[p], i) \in Frames \union {-1}
    PROVE  LET t == Translate(c, p, i)
               e == [pid |-> p, page |-> i, frame |-> t.frame, lastUsed |-> 0]
           IN  /\ t.frame \in Frames \union {-1}
               /\ TlbShape(t.tlb, n)
               /\ t.frame # -1 =>
                     Covered(t.tlb.entries, Append(tlb[c].entries, e))
               /\ \/ t.frame = SearchFrame(table[p], i)
                  \/ \E j \in DOMAIN tlb[c].entries :
                        SameTranslation(e, tlb[c].entries[j])
<1> DEFINE s == tlb[c].entries
           hits == {k \in DOMAIN s : s[k].pid = p /\ s[k].page = i}
           t == Translate(c, p, i)
           f == SearchFrame(table[p], i)
           e == [pid |-> p, page |-> i, frame |-> t.frame, lastUsed |-> 0]
<1>0. /\ s \in Seq(TlbEntries) /\ DOMAIN s = 1..Len(s) /\ Len(s) \in Nat
      /\ Len(s) <= n /\ tlb[c] = [entries |-> s, fifo |-> tlb[c].fifo]
      /\ tlb[c].fifo \in {1} \union 1..n
    BY DEF TlbShape
<1>1. \A j \in DOMAIN s : s[j] \in TlbEntries
    BY <1>0
<1>2. ASSUME NEW g \in Frames
      PROVE  LET a == [pid |-> p, page |-> i, frame |-> g, lastUsed |-> 0]
             IN  Covered(s, Append(s, a))
    <2> DEFINE a == [pid |-> p, page |-> i, frame |-> g, lastUsed |-> 0]
    <2>1. a \in TlbEntries
        BY DEF TlbEntries
    <2> HIDE DEF a, s
    <2>2. DOMAIN Append(s, a) = 1..(Len(s) + 1) /\ \A j \in DOMAIN s : Append(s, a)[j] = s[j]
        BY <1>0, <2>1
    <2>3. Covered(s, Append(s, a))
        BY <1>0, <2>2 DEF Covered, SameTranslation
    <2> QED BY <2>3 DEF a
<1>3. CASE TlbEnabled /\ hits # {}
    <2> DEFINE k == Min(hits)
               u == JustUsed(s, k)
    <2>1. k \in DOMAIN s /\ s[k].pid = p /\ s[k].page = i
        <3>1. hits \in SUBSET Nat
            BY <1>0
        <3>2. k \in hits
            <4> HIDE DEF hits
            <4> QED BY <1>3, <3>1, LeastIs
        <3> HIDE DEF k
        <3> QED BY <3>2
    <2>2. t = [frame |-> s[k].frame,
               tlb |-> IF setting.tlbReplacement = "LRU"
                       THEN [tlb[c] EXCEPT !.entries = u] ELSE tlb[c]]
        BY <1>3 DEF Translate
    <2> HIDE DEF k, u, hits, t, s
    <2>3. /\ u \in Seq(TlbEntries) /\ Len(u) = Len(s)
          /\ \A j \in DOMAIN s : SameTranslation(u[j], s[j])
        BY <1>0, JustUsedIs DEF u
    <2>4. t.frame = s[k].frame /\ t.frame \in Frames
        BY <1>1, <2>1, <2>2 DEF TlbEntries
    <2>5. SameTranslation(e, s[k])
        BY <2>1, <2>4 DEF SameTranslation
    <2>6. Covered(s, Append(s, e))
        BY <1>2, <2>4
    <2>7. t.tlb.entries \in {s, u} /\ TlbShape(t.tlb, n)
        <3>1. [tlb[c] EXCEPT !.entries = u] = [entries |-> u, fifo |-> tlb[c].fifo]
            BY <1>0
        <3> QED BY <1>0, <2>2, <2>3, <3>1 DEF TlbShape, s
    <2> HIDE DEF e
    <2>8. Covered(t.tlb.entries, Append(s, e))
        <3>1. DOMAIN u = DOMAIN s
            BY <1>0, <2>3
        <3>2. CASE t.tlb.entries = s
            BY <2>6, <3>2
        <3>3. CASE t.tlb.entries = u
            <4>1. \A j \in DOMAIN u : SameTranslation(u[j], s[j])
                BY <2>3, <3>1
            <4>2. \A j \in DOMAIN u : \E m \in DOMAIN Append(s, e) :
                      SameTranslation(u[j], Append(s, e)[m])
                BY <2>6, <3>1, <4>1 DEF Covered, SameTranslation
            <4> QED BY <3>3, <4>2 DEF Covered
        <3> QED BY <2>7, <3>2, <3>3
    <2> QED BY <2>1, <2>4, <2>5, <2>7, <2>8 DEF t, s, e
<1>4. CASE ~(TlbEnabled /\ hits # {})
    <2>1. t = [frame |-> f,
               tlb |-> IF TlbEnabled /\ f # -1 THEN insert_tlb(tlb[c], p, i, f)
                       ELSE tlb[c]]
        BY <1>4 DEF Translate
    <2> HIDE DEF hits, t
    <2>2. t.frame = f
        BY <2>1
    <2>3. CASE TlbEnabled /\ f # -1
        <3>1. n \in Nat \ {0} /\ f \in Frames
            BY <2>3 DEF TlbEnabled
        <3>2. t.tlb = insert_tlb(tlb[c], p, i, f)
            BY <2>1, <2>3
        <3> HIDE DEF f
        <3>3. TlbShape(t.tlb, n) /\ Covered(t.tlb.entries, Append(s, e))
            BY <2>2, <3>1, <3>2, InsertIs
        <3> QED BY <2>2, <3>1, <3>3 DEF t, f
    <2>4. CASE ~(TlbEnabled /\ f # -1)
        <3>1. t.tlb = tlb[c]
            BY <2>1, <2>4
        <3>2. t.frame # -1 => Covered(s, Append(s, e))
            BY <1>2, <2>2
        <3> QED BY <2>2, <3>1, <3>2 DEF t
    <2> QED BY <2>3, <2>4
<1> QED BY <1>3, <1>4

(* Taking out the translations of a process.                               *)
LEMMA RemoveTlbIs ==
    ASSUME NEW n \in Nat, NEW t, TlbShape(t, n), NEW p
    PROVE  LET new == RemoveTLBEntries(t, p) IN
           /\ TlbShape(new, n)
           /\ Covered(new.entries, t.entries)
           /\ \A k \in DOMAIN new.entries : new.entries[k].pid # p
<1> DEFINE s == t.entries
           w == Without(s, p)
           u == Ranked(w)
           new == RemoveTLBEntries(t, p)
<1>0. /\ s \in Seq(TlbEntries) /\ DOMAIN s = 1..Len(s) /\ Len(s) \in Nat
      /\ Len(s) <= n /\ t = [entries |-> s, fifo |-> t.fifo]
      /\ t.fifo \in {1} \union 1..n
    BY DEF TlbShape
<1>1. new = [entries |-> u, fifo |-> t.fifo]
    BY <1>0 DEF RemoveTLBEntries
<1> HIDE DEF s, w, u, new
<1>2. /\ w \in Seq(TlbEntries) /\ Len(w) <= Len(s)
      /\ \A k \in DOMAIN w : w[k].pid # p /\ \E j \in DOMAIN s : w[k] = s[j]
    BY <1>0, WithoutIs DEF w
<1>3. /\ u \in Seq(TlbEntries) /\ Len(u) = Len(w) /\ DOMAIN u = DOMAIN w
      /\ \A k \in DOMAIN w : SameTranslation(u[k], w[k])
    <2>1. /\ u \in Seq(TlbEntries) /\ Len(u) = Len(w)
          /\ \A k \in DOMAIN w : SameTranslation(u[k], w[k])
        BY <1>2, RankedIs DEF u
    <2> QED BY <1>2, <2>1
<1>4. TlbShape(new, n)
    BY <1>0, <1>1, <1>2, <1>3 DEF TlbShape
<1>5. Covered(u, s) /\ \A k \in DOMAIN u : u[k].pid # p
    BY <1>2, <1>3 DEF Covered, SameTranslation
<1> QED BY <1>1, <1>4, <1>5 DEF new, s
-----------------------------------------------------------------------------
(* The page cache: the map finds every entry at its slot.                  *)
KeyedBy(map, s) ==
    /\ map = [key \in DOMAIN map |-> map[key]]
    /\ DOMAIN map = {getEntryKey(s[k]) : k \in DOMAIN s}
    /\ \A k \in DOMAIN s : map[getEntryKey(s[k])] = k
CacheShape(ch, n) ==
    /\ ch = [entries |-> ch.entries, map |-> ch.map, clock |-> ch.clock]
    /\ ch.entries \in Seq(Entries) /\ Len(ch.entries) <= n
    /\ ch.clock \in {1} \union DOMAIN ch.entries
    /\ KeyedBy(ch.map, ch.entries)

(* Two entries that differ in their use bits at most.                      *)
SameData(a, b) ==
    /\ a.pid = b.pid /\ a.page = b.page /\ a.frame = b.frame
    /\ a.content = b.content /\ a.mod = b.mod
SameEntries(s, t) ==
    /\ s \in Seq(Entries) /\ Len(s) = Len(t)
    /\ \A k \in DOMAIN t : SameData(s[k], t[k])

LEMMA KeyedKeeps ==
    ASSUME NEW map, NEW s, NEW t, KeyedBy(map, s), DOMAIN t = DOMAIN s,
           \A k \in DOMAIN s : getEntryKey(t[k]) = getEntryKey(s[k])
    PROVE  KeyedBy(map, t)
<1>1. {getEntryKey(s[k]) : k \in DOMAIN s} = {getEntryKey(t[k]) : k \in DOMAIN t}
    OBVIOUS
<1> QED BY <1>1 DEF KeyedBy

LEMMA KeyedAppend ==
    ASSUME NEW map, NEW s \in Seq(Entries), NEW e \in Entries, KeyedBy(map, s),
           getEntryKey(e) \notin DOMAIN map
    PROVE  KeyedBy(Plus(map, getEntryKey(e), Len(s) + 1), Append(s, e))
<1> DEFINE new == Plus(map, getEntryKey(e), Len(s) + 1)
           t == Append(s, e)
<1>1. /\ DOMAIN t = 1..(Len(s) + 1) /\ DOMAIN s = 1..Len(s) /\ Len(s) \in Nat
      /\ t[Len(s) + 1] = e
      /\ \A k \in DOMAIN s : t[k] = s[k]
    OBVIOUS
<1>2. /\ DOMAIN new = DOMAIN map \union {getEntryKey(e)}
      /\ new = [key \in DOMAIN new |-> new[key]]
      /\ new[getEntryKey(e)] = Len(s) + 1
      /\ \A key \in DOMAIN map : new[key] = map[key]
    BY DEF Plus
<1> HIDE DEF new, t
<1>3. DOMAIN new = {getEntryKey(t[k]) : k \in DOMAIN t}
    <2>1. \A key \in DOMAIN new : \E k \in DOMAIN t : key = getEntryKey(t[k])
        <3> SUFFICES ASSUME NEW key \in DOMAIN new
                     PROVE  \E k \in DOMAIN t : key = getEntryKey(t[k])
            OBVIOUS
        <3>1. CASE key \in DOMAIN map
            <4>1. PICK k \in DOMAIN s : key = getEntryKey(s[k])
                BY <3>1 DEF KeyedBy
            <4> QED BY <1>1, <4>1
        <3>2. CASE key = getEntryKey(e)
            <4>1. Len(s) + 1 \in DOMAIN t
                BY <1>1
            <4> QED BY <1>1, <3>2, <4>1
        <3> QED BY <1>2, <3>1, <3>2
    <2>2. \A k \in DOMAIN t : getEntryKey(t[k]) \in DOMAIN new
        <3> SUFFICES ASSUME NEW k \in DOMAIN t PROVE getEntryKey(t[k]) \in DOMAIN new
            OBVIOUS
        <3>1. k \in DOMAIN s \/ k = Len(s) + 1
            BY <1>1
        <3>2. ASSUME k \in DOMAIN s PROVE getEntryKey(s[k]) \in DOMAIN map
            BY <3>2 DEF KeyedBy
        <3> QED BY <1>1, <1>2, <3>1, <3>2
    <2> QED BY <2>1, <2>2
<1>4. \A k \in DOMAIN t : new[getEntryKey(t[k])] = k
    <2> SUFFICES ASSUME NEW k \in DOMAIN t PROVE new[getEntryKey(t[k])] = k
        OBVIOUS
    <2>1. k \in DOMAIN s \/ k = Len(s) + 1
        BY <1>1
    <2>2. ASSUME k \in DOMAIN s
          PROVE  getEntryKey(s[k]) \in DOMAIN map /\ map[getEntryKey(s[k])] = k
        BY <2>2 DEF KeyedBy
    <2> QED BY <1>1, <1>2, <2>1, <2>2
<1> QED BY <1>2, <1>3, <1>4 DEF KeyedBy, new, t

(* An entry takes the slot of another.                                     *)
LEMMA KeyedReplace ==
    ASSUME NEW map, NEW s, KeyedBy(map, s), NEW slot \in DOMAIN s, NEW t, NEW e,
           getEntryKey(e) \notin DOMAIN map,
           DOMAIN t = DOMAIN s, t[slot] = e,
           \A k \in DOMAIN s \ {slot} : getEntryKey(t[k]) = getEntryKey(s[k])
    PROVE  KeyedBy(Plus(Only(map, DOMAIN map \ {getEntryKey(s[slot])}),
                        getEntryKey(e), slot), t)
<1> DEFINE old == getEntryKey(s[slot])
           new == Plus(Only(map, DOMAIN map \ {old}), getEntryKey(e), slot)
<1>1. /\ DOMAIN new = (DOMAIN map \ {old}) \union {getEntryKey(e)}
      /\ new = [key \in DOMAIN new |-> new[key]]
      /\ new[getEntryKey(e)] = slot
      /\ \A key \in DOMAIN map \ {old} : new[key] = map[key]
    BY DEF Plus, Only
<1>2. \A k \in DOMAIN s : /\ getEntryKey(s[k]) \in DOMAIN map
                          /\ map[getEntryKey(s[k])] = k
    BY DEF KeyedBy
<1>3. \A key \in DOMAIN map : \E k \in DOMAIN s : key = getEntryKey(s[k])
    BY DEF KeyedBy
<1>4. \A k \in DOMAIN s \ {slot} : getEntryKey(s[k]) # old
    BY <1>2
<1> HIDE DEF new, old
<1>5. DOMAIN new = {getEntryKey(t[k]) : k \in DOMAIN t}
    <2>1. \A key \in DOMAIN new : \E k \in DOMAIN t : key = getEntryKey(t[k])
        <3> SUFFICES ASSUME NEW key \in DOMAIN new
                     PROVE  \E k \in DOMAIN t : key = getEntryKey(t[k])
            OBVIOUS
        <3>1. CASE key \in DOMAIN map \ {old}
            <4>1. PICK k \in DOMAIN s : key = getEntryKey(s[k])
                BY <1>3, <3>1
            <4>2. k # slot
                BY <3>1, <4>1 DEF old
            <4> QED BY <4>1, <4>2
        <3>2. CASE key = getEntryKey(e)
            BY <3>2
        <3> QED BY <1>1, <3>1, <3>2
    <2>2. \A k \in DOMAIN t : getEntryKey(t[k]) \in DOMAIN new
        BY <1>1, <1>2, <1>4
    <2> QED BY <2>1, <2>2
<1>6. \A k \in DOMAIN t : new[getEntryKey(t[k])] = k
    BY <1>1, <1>2, <1>4
<1> QED BY <1>1, <1>5, <1>6 DEF KeyedBy, new, old

(* The entries of a process go, and the others move up.                    *)
LEMMA KeyedWithout ==
    ASSUME NEW map, NEW s \in Seq(Entries), KeyedBy(map, s), NEW p
    PROVE  LET w == Without(s, p)
               new == [key \in {k \in DOMAIN map : k[1] # p} |->
                          CHOOSE k \in DOMAIN w : getEntryKey(w[k]) = key]
           IN  KeyedBy(new, w)
<1> DEFINE w == Without(s, p)
           keys == {k \in DOMAIN map : k[1] # p}
           new == [key \in keys |-> CHOOSE k \in DOMAIN w : getEntryKey(w[k]) = key]
<1>1. PICK pos \in [DOMAIN w -> DOMAIN s] :
         /\ \A n \in DOMAIN w : w[n] = s[pos[n]] /\ s[pos[n]].pid # p
         /\ \A k \in DOMAIN s : s[k].pid # p => \E n \in DOMAIN w : pos[n] = k
         /\ \A n, m \in DOMAIN w : pos[n] = pos[m] => n = m
    BY WithoutIs
<1>2. \A k \in DOMAIN s : /\ getEntryKey(s[k]) \in DOMAIN map
                          /\ map[getEntryKey(s[k])] = k
    BY DEF KeyedBy
<1>3. \A key \in DOMAIN map : \E k \in DOMAIN s : key = getEntryKey(s[k])
    BY DEF KeyedBy
<1>4. \A e : getEntryKey(e)[1] = e.pid
    BY DEF getEntryKey
<1> HIDE DEF w
<1>5. \A n \in DOMAIN w : getEntryKey(w[n]) \in keys
    BY <1>1, <1>2, <1>4
<1>6. \A key \in keys : \E n \in DOMAIN w : key = getEntryKey(w[n])
    <2> SUFFICES ASSUME NEW key \in keys PROVE \E n \in DOMAIN w : key = getEntryKey(w[n])
        OBVIOUS
    <2>1. PICK k \in DOMAIN s : key = getEntryKey(s[k])
        BY <1>3
    <2>2. s[k].pid # p
        BY <1>4, <2>1
    <2> QED BY <1>1, <2>1, <2>2
<1>7. \A n, m \in DOMAIN w : getEntryKey(w[n]) = getEntryKey(w[m]) => n = m
    BY <1>1, <1>2
<1>8. DOMAIN new = keys /\ new = [key \in DOMAIN new |-> new[key]]
    OBVIOUS
<1>9. \A n \in DOMAIN w : new[getEntryKey(w[n])] = n
    <2> SUFFICES ASSUME NEW n \in DOMAIN w PROVE new[getEntryKey(w[n])] = n
        OBVIOUS
    <2> DEFINE m == CHOOSE k \in DOMAIN w : getEntryKey(w[k]) = getEntryKey(w[n])
    <2>1. new[getEntryKey(w[n])] = m
        BY <1>5
    <2>2. m \in DOMAIN w /\ getEntryKey(w[m]) = getEntryKey(w[n])
        OBVIOUS
    <2> HIDE DEF m, new
    <2> QED BY <1>7, <2>1, <2>2
<1> HIDE DEF keys, new
<1>10. DOMAIN new = {getEntryKey(w[k]) : k \in DOMAIN w}
    BY <1>5, <1>6, <1>8
<1> QED BY <1>8, <1>9, <1>10 DEF KeyedBy, keys, new, w
-----------------------------------------------------------------------------
(* The victim.                                                             *)
LEMMA Modulo ==
    ASSUME NEW n \in Nat \ {0}, NEW a \in Nat, a < 2 * n
    PROVE  a % n = IF a < n THEN a ELSE a - n
OBVIOUS

(* A turn of the pointer begins where it is and visits every slot.         *)
LEMMA VisitedIs ==
    ASSUME NEW ch, NEW n \in Nat \ {0}, Len(ch.entries) = n, NEW x \in 1..n,
           ch.clock = x
    PROVE  /\ \A j \in 1..(n + 1) : Visited(ch, j) \in 1..n
           /\ \A k \in 1..n : \E j \in 1..n : Visited(ch, j) = k
<1>1. \A j \in 1..(n + 1) :
         Visited(ch, j) = IF x + j - 2 < n THEN x + j - 1 ELSE x + j - 1 - n
    <2> SUFFICES ASSUME NEW j \in 1..(n + 1)
                 PROVE  Visited(ch, j) = IF x + j - 2 < n THEN x + j - 1
                                         ELSE x + j - 1 - n
        OBVIOUS
    <2>1. x + j - 2 \in Nat /\ x + j - 2 < 2 * n
        OBVIOUS
    <2>2. (x + j - 2) % n = IF x + j - 2 < n THEN x + j - 2 ELSE (x + j - 2) - n
        BY <2>1, Modulo
    <2>3. Visited(ch, j) = ((x + j - 2) % n) + 1
        BY DEF Visited
    <2> QED BY <2>1, <2>2, <2>3
<1>2. ASSUME NEW k \in 1..n PROVE \E j \in 1..n : Visited(ch, j) = k
    <2>1. CASE k >= x
        <3>1. k - x + 1 \in 1..n
            BY <2>1
        <3>2. Visited(ch, k - x + 1) = k
            BY <1>1, <2>1, <3>1
        <3> QED BY <3>1, <3>2
    <2>2. CASE k < x
        <3>1. k - x + 1 + n \in 1..n
            BY <2>2
        <3>2. Visited(ch, k - x + 1 + n) = k
            BY <1>1, <2>2, <3>1
        <3> QED BY <3>1, <3>2
    <2> QED BY <2>1, <2>2
<1>3. ASSUME NEW j \in 1..(n + 1) PROVE Visited(ch, j) \in 1..n
    BY <1>1, <1>3
<1> QED BY <1>2, <1>3

(* Clearing use bits leaves the data.                                      *)
LEMMA ClearedIs ==
    ASSUME NEW ch, ch.entries \in Seq(Entries), NEW m
    PROVE  /\ SameEntries(Cleared(ch, m), ch.entries)
           /\ \A k \in DOMAIN ch.entries :
                 Cleared(ch, m)[k].use =
                    IF \E j \in 1..m : Visited(ch, j) = k
                    THEN FALSE ELSE ch.entries[k].use
<1> DEFINE s == ch.entries
           passed(k) == \E j \in 1..m : Visited(ch, j) = k
           t == Cleared(ch, m)
<1>0. DOMAIN s = 1..Len(s) /\ Len(s) \in Nat /\ \A k \in DOMAIN s : s[k] \in Entries
    OBVIOUS
<1>1. t = [k \in DOMAIN s |-> IF passed(k) THEN [s[k] EXCEPT !.use = FALSE] ELSE s[k]]
    BY DEF Cleared
<1> HIDE DEF s, passed, t
<1>2. ASSUME NEW k \in DOMAIN s
      PROVE  /\ t[k] \in Entries /\ SameData(t[k], s[k])
             /\ t[k].use = IF passed(k) THEN FALSE ELSE s[k].use
    <2>1. CASE passed(k)
        <3>1. t[k] = [s[k] EXCEPT !.use = FALSE] /\ s[k] \in Entries
            BY <1>0, <1>1, <1>2, <2>1
        <3> QED BY <2>1, <3>1 DEF Entries, SameData
    <2>2. CASE ~passed(k)
        <3>1. t[k] = s[k] /\ s[k] \in Entries
            BY <1>0, <1>1, <1>2, <2>2
        <3> QED BY <2>2, <3>1 DEF SameData
    <2> QED BY <2>1, <2>2
<1>3. t = [k \in 1..Len(s) |-> t[k]]
    BY <1>0, <1>1
<1>4. \A k \in 1..Len(s) : t[k] \in Entries
    BY <1>0, <1>2
<1>5. t \in Seq(Entries) /\ Len(t) = Len(s)
    BY <1>0, <1>3, <1>4
<1> QED BY <1>2, <1>5 DEF SameEntries, s, t, passed

(* A slot that a turn finds.                                               *)
Finds(ch, n, use, mod) ==
    LET found == Where(ch, use, mod)
        slot == Visited(ch, Min(found))
    IN  /\ found # {} =>
              /\ Min(found) \in 1..n /\ slot \in 1..n
              /\ ch.entries[slot].use = use /\ ch.entries[slot].mod \in mod
        /\ found = {} => \A k \in 1..n :
              ~(ch.entries[k].use = use /\ ch.entries[k].mod \in mod)
LEMMA FoundIs ==
    ASSUME NEW ch, NEW n \in Nat \ {0}, ch.entries \in Seq(Entries),
           Len(ch.entries) = n, ch.clock \in 1..n,
           NEW mod, NEW use
    PROVE  Finds(ch, n, use, mod)
<1> DEFINE found == Where(ch, use, mod)
<1>1. DOMAIN ch.entries = 1..n
    OBVIOUS
<1>2. ASSUME found # {}
      PROVE  Min(found) \in found
    <2>1. found \in SUBSET Nat
        BY <1>1 DEF Where
    <2> HIDE DEF found
    <2> QED BY <1>2, <2>1, LeastIs
<1>3. \A j : j \in found <=> /\ j \in 1..n
                             /\ ch.entries[Visited(ch, j)].use = use
                             /\ ch.entries[Visited(ch, j)].mod \in mod
    BY <1>1 DEF Where
<1>4. /\ \A j \in 1..(n + 1) : Visited(ch, j) \in 1..n
      /\ \A k \in 1..n : \E j \in 1..n : Visited(ch, j) = k
    <2> PICK x \in 1..n : x = ch.clock
        OBVIOUS
    <2> QED BY VisitedIs
<1> HIDE DEF found
<1>5. ASSUME found = {}, NEW k \in 1..n
      PROVE  ~(ch.entries[k].use = use /\ ch.entries[k].mod \in mod)
    BY <1>3, <1>4, <1>5
<1>6. ASSUME found # {}
      PROVE  LET slot == Visited(ch, Min(found)) IN
             /\ Min(found) \in 1..n /\ slot \in 1..n
             /\ ch.entries[slot].use = use /\ ch.entries[slot].mod \in mod
    <2>1. Min(found) \in found
        BY <1>2, <1>6
    <2>2. Min(found) \in 1..n
        BY <1>3, <2>1
    <2>3. Visited(ch, Min(found)) \in 1..n
        BY <1>4, <2>2
    <2> QED BY <1>3, <2>1, <2>2, <2>3
<1> QED BY <1>5, <1>6 DEF found, Finds

VictimShape(v, ch) ==
    /\ v.slot \in DOMAIN ch.entries
    /\ SameEntries(v.entries, ch.entries)

(* The turns of CLOCK-M find an entry not in use, not modified if they can.*)
LEMMA TurnsIs ==
    ASSUME NEW ch, NEW n \in Nat \ {0}, ch.entries \in Seq(Entries),
           Len(ch.entries) = n, ch.clock \in 1..n,
           \E k \in 1..n : ch.entries[k].use = FALSE
    PROVE  LET v == Turns(ch) IN
           /\ VictimShape(v, ch)
           /\ ch.entries[v.slot].use = FALSE
           /\ ch.entries[v.slot].mod => \A k \in 1..n :
                 ch.entries[k].use = FALSE => ch.entries[k].mod
<1> DEFINE clean == Where(ch, FALSE, {FALSE})
           dirty == Where(ch, FALSE, {TRUE})
<1>0. DOMAIN ch.entries = 1..n /\ \A k \in 1..n : ch.entries[k] \in Entries
    OBVIOUS
<1>1. \A k \in 1..n : ch.entries[k].mod \in BOOLEAN
    BY <1>0 DEF Entries
<1>2. SameEntries(ch.entries, ch.entries)
    BY DEF SameEntries, SameData
<1>3. Finds(ch, n, FALSE, {FALSE}) /\ Finds(ch, n, FALSE, {TRUE})
    BY FoundIs
<1>4. CASE clean # {}
    <2>1. Turns(ch) = [entries |-> ch.entries, slot |-> Visited(ch, Min(clean))]
        BY <1>4 DEF Turns
    <2>2. LET slot == Visited(ch, Min(clean)) IN
          slot \in 1..n /\ ch.entries[slot].use = FALSE /\ ch.entries[slot].mod = FALSE
        BY <1>3, <1>4 DEF Finds
    <2> HIDE DEF clean
    <2> QED BY <1>0, <1>2, <2>1, <2>2 DEF VictimShape
<1>5. CASE clean = {}
    <2>1. Turns(ch) = [entries |-> Cleared(ch, Min(dirty) - 1),
                       slot |-> Visited(ch, Min(dirty))]
        BY <1>5 DEF Turns
    <2>2. \A k \in 1..n : ch.entries[k].use = FALSE => ch.entries[k].mod = TRUE
        BY <1>1, <1>3, <1>5 DEF Finds
    <2>3. dirty # {}
        BY <1>3, <2>2 DEF Finds
    <2>4. LET slot == Visited(ch, Min(dirty)) IN
          slot \in 1..n /\ ch.entries[slot].use = FALSE /\ ch.entries[slot].mod = TRUE
        BY <1>3, <2>3 DEF Finds
    <2>5. SameEntries(Cleared(ch, Min(dirty) - 1), ch.entries)
        BY ClearedIs
    <2> HIDE DEF dirty
    <2> QED BY <1>0, <2>1, <2>2, <2>4, <2>5 DEF VictimShape
<1> QED BY <1>4, <1>5

(* The victim, under every algorithm: no other entry is cheaper.           *)
LEMMA VictimIs ==
    ASSUME NEW ch, NEW n \in Nat \ {0}, ch.entries \in Seq(Entries),
           Len(ch.entries) = n, ch.clock \in 1..n,
           ch = [entries |-> ch.entries, map |-> ch.map, clock |-> ch.clock]
    PROVE  LET v == Victim(ch) IN
           /\ VictimShape(v, ch)
           /\ \A k \in 1..n : Cost(ch.entries[v.slot]) <= Cost(ch.entries[k])
<1> DEFINE s == ch.entries
           v == Victim(ch)
<1>0. /\ DOMAIN s = 1..n
      /\ \A k \in 1..n : s[k].use \in BOOLEAN /\ s[k].mod \in BOOLEAN
    <2>1. \A k \in 1..n : s[k] \in Entries
        OBVIOUS
    <2> QED BY <2>1 DEF Entries
<1>1. SameEntries(s, s)
    BY DEF SameEntries, SameData
<1>2. /\ \A j \in 1..(n + 1) : Visited(ch, j) \in 1..n
      /\ \A k \in 1..n : \E j \in 1..n : Visited(ch, j) = k
    <2> PICK x \in 1..n : x = ch.clock
        OBVIOUS
    <2> QED BY VisitedIs
<1>3. Finds(ch, n, FALSE, BOOLEAN)
    BY FoundIs
<1>4. CASE setting.cacheReplacement = "CLOCK"
    <2> DEFINE unused == Where(ch, FALSE, BOOLEAN)
               j == IF unused # {} THEN Min(unused) ELSE n + 1
    <2>1. v = [entries |-> Cleared(ch, j - 1), slot |-> Visited(ch, j)]
        BY <1>4 DEF Victim, findVictimIndexClock
    <2>2. SameEntries(Cleared(ch, j - 1), s)
        BY ClearedIs
    <2>3. unused # {} => j \in 1..n /\ s[Visited(ch, j)].use = FALSE
        BY <1>3 DEF Finds
    <2>4. unused = {} => j = n + 1 /\ \A k \in 1..n : s[k].use = TRUE
        BY <1>0, <1>3 DEF Finds
    <2> HIDE DEF v, j, unused, s
    <2>5. v.slot = Visited(ch, j) /\ v.slot \in 1..n
        <3>1. j \in 1..(n + 1)
            BY <2>3, <2>4
        <3> QED BY <1>2, <2>1, <3>1
    <2>6. \A k \in 1..n : Cost(s[k]) = IF s[k].use THEN 1 ELSE 0
        BY <1>4 DEF Cost
    <2>7. \A k \in 1..n : Cost(s[v.slot]) <= Cost(s[k])
        BY <1>0, <2>3, <2>4, <2>5, <2>6
    <2> QED BY <1>0, <2>1, <2>2, <2>5, <2>7 DEF VictimShape, v, s
<1>5. CASE setting.cacheReplacement = "CLOCK-M"
    <2>1. ASSUME NEW e, e.use \in BOOLEAN, e.mod \in BOOLEAN
          PROVE  Cost(e) = (IF e.use THEN 2 ELSE 0) + (IF e.mod THEN 1 ELSE 0)
        BY <1>5 DEF Cost
    <2>2. CASE Where(ch, FALSE, BOOLEAN) # {}
        <3>1. v = Turns(ch)
            BY <1>5, <2>2 DEF Victim, findVictimIndexClockM
        <3>2. \E k \in 1..n : s[k].use = FALSE
            BY <1>3, <2>2 DEF Finds
        <3>3. /\ VictimShape(v, ch) /\ s[v.slot].use = FALSE
              /\ s[v.slot].mod => \A k \in 1..n : s[k].use = FALSE => s[k].mod
            BY <3>1, <3>2, TurnsIs
        <3>4. v.slot \in 1..n
            BY <1>0, <3>3 DEF VictimShape
        <3> HIDE DEF v, s
        <3> QED BY <1>0, <2>1, <3>3, <3>4 DEF v, s
    <2>3. CASE Where(ch, FALSE, BOOLEAN) = {}
        <3> DEFINE new == [ch EXCEPT !.entries = Cleared(ch, Len(@))]
        <3>1. v = Turns(new)
            BY <1>5, <2>3 DEF Victim, findVictimIndexClockM
        <3>2. \A k \in 1..n : s[k].use = TRUE
            BY <1>0, <1>3, <2>3 DEF Finds
        <3> DEFINE t == Cleared(ch, n)
        <3>3. SameEntries(t, s) /\ \A k \in 1..n : t[k].use = FALSE
            <4>1. \A k \in 1..n : \E j \in 1..n : Visited(ch, j) = k
                BY <1>2
            <4>2. /\ SameEntries(t, s)
                  /\ \A k \in DOMAIN s : t[k].use =
                        IF \E j \in 1..n : Visited(ch, j) = k THEN FALSE ELSE s[k].use
                BY ClearedIs, ZenonT(60)
            <4> HIDE DEF t
            <4> QED BY <1>0, <4>1, <4>2
        <3>4. new = [entries |-> t, map |-> ch.map, clock |-> ch.clock]
            OBVIOUS
        <3> HIDE DEF new, t, v
        <3>5. /\ new.entries = t /\ new.clock = ch.clock
              /\ t \in Seq(Entries) /\ Len(t) = n /\ DOMAIN t = 1..n
            BY <3>3, <3>4 DEF SameEntries
        <3>6. /\ VictimShape(v, new)
              /\ t[v.slot].mod => \A k \in 1..n : t[k].use = FALSE => t[k].mod
            <4>1. \E k \in 1..n : new.entries[k].use = FALSE
                BY <3>3, <3>5
            <4> QED BY <3>1, <3>5, <4>1, TurnsIs
        <3>7. v.slot \in 1..n /\ SameEntries(v.entries, t)
            BY <3>5, <3>6 DEF VictimShape
        <3>8. SameEntries(v.entries, s)
            BY <1>0, <3>3, <3>5, <3>7 DEF SameEntries, SameData
        <3>9. \A k \in 1..n : s[k].mod = t[k].mod
            BY <1>0, <3>3 DEF SameEntries, SameData
        <3>10. s[v.slot].mod => \A k \in 1..n : s[k].mod
            BY <3>3, <3>6, <3>7, <3>9
        <3> HIDE DEF s
        <3>11. \A k \in 1..n : Cost(s[v.slot]) <= Cost(s[k])
            BY <1>0, <2>1, <3>2, <3>7, <3>10
        <3> QED BY <1>0, <3>7, <3>8, <3>11 DEF VictimShape, v, s
    <2> QED BY <2>2, <2>3
<1>6. CASE setting.cacheReplacement \notin {"CLOCK", "CLOCK-M"}
    <2>1. v = [entries |-> s, slot |-> ch.clock]
        BY <1>6 DEF Victim
    <2>2. \A k \in 1..n : Cost(s[k]) = 0
        BY <1>6 DEF Cost
    <2> QED BY <1>0, <1>1, <2>1, <2>2 DEF VictimShape
<1> QED BY <1>4, <1>5, <1>6
-----------------------------------------------------------------------------
(* Put, after a miss: the page is added, or takes the slot of the cheapest *)
(* page, which is written back if it was modified; one that cannot be      *)
(* stays.                                                                  *)
Added(ch, new, e) == new.entries = Append(ch.entries, e)
Refused(old) == old.mod /\ ~Known(old.pid)
Replaced(ch, new, e, slot) ==
    /\ Len(new.entries) = Len(ch.entries)
    /\ \A k \in DOMAIN ch.entries \ {slot} : SameData(new.entries[k], ch.entries[k])
    /\ IF Refused(ch.entries[slot])
       THEN SameData(new.entries[slot], ch.entries[slot])
       ELSE new.entries[slot] = e
    /\ \A k \in DOMAIN ch.entries : Cost(ch.entries[slot]) <= Cost(ch.entries[k])
PageEntry(p, i, f) ==
    [pid |-> p, page |-> i, frame |-> f, content |-> mem[f],
     use |-> TRUE, mod |-> FALSE]

LEMMA WriteBackType ==
    ASSUME mem \in [Frames -> Data], NEW e \in Entries
    PROVE  WriteBack(mem, e) \in [Frames -> Data]
BY DEF WriteBack, Entries

LEMMA PutIs ==
    ASSUME NEW n \in Nat \ {0}, n = setting.cacheEntries, NEW ch,
           CacheShape(ch, n), mem \in [Frames -> Data],
           NEW p \in Procs, NEW i \in Nat, NEW f \in Frames,
           <<p, i>> \notin DOMAIN ch.map
    PROVE  LET put == Put(ch, p, i, f)
               e == PageEntry(p, i, f)
           IN  /\ CacheShape(put.cache, n) /\ put.mem \in [Frames -> Data]
               /\ \/ Added(ch, put.cache, e) /\ put.mem = mem
                  \/ \E slot \in DOMAIN ch.entries :
                        /\ Replaced(ch, put.cache, e, slot)
                        /\ put.mem = WriteBack(mem, ch.entries[slot])
<1> DEFINE s == ch.entries
           e == PageEntry(p, i, f)
           put == Put(ch, p, i, f)
           v == Victim(ch)
           old == v.entries[v.slot]
<1>0. /\ s \in Seq(Entries) /\ DOMAIN s = 1..Len(s) /\ Len(s) \in Nat
      /\ Len(s) <= n /\ ch = [entries |-> s, map |-> ch.map, clock |-> ch.clock]
      /\ ch.clock \in {1} \union DOMAIN s
      /\ KeyedBy(ch.map, s)
      /\ \A k \in DOMAIN s : s[k] \in Entries
    BY DEF CacheShape
<1>1. e \in Entries /\ getEntryKey(e) = <<p, i>>
    BY DEF Entries, PageEntry, getEntryKey
<1>2. CASE Len(s) < n
    <2> DEFINE new == [entries |-> Append(s, e),
                       map |-> Plus(ch.map, <<p, i>>, Len(s) + 1),
                       clock |-> ch.clock]
    <2>1. put = [cache |-> new, mem |-> mem]
        BY <1>2 DEF Put, PageEntry
    <2> HIDE DEF s, e
    <2>2. KeyedBy(new.map, new.entries)
        BY <1>0, <1>1, KeyedAppend
    <2>3. /\ new.entries \in Seq(Entries) /\ Len(new.entries) = Len(s) + 1
          /\ new.clock \in {1} \union DOMAIN new.entries
        BY <1>0, <1>1
    <2>4. new = [entries |-> new.entries, map |-> new.map, clock |-> new.clock]
        OBVIOUS
    <2>5. Added(ch, new, e)
        BY DEF Added, s
    <2> HIDE DEF new, put
    <2>6. CacheShape(new, n)
        BY <1>0, <1>2, <2>2, <2>3, <2>4 DEF CacheShape
    <2> QED BY <2>1, <2>5, <2>6 DEF put, e
<1>3. CASE ~(Len(s) < n)
    <2>0. Len(s) = n /\ ch.clock \in 1..n /\ DOMAIN s = 1..n
        BY <1>0, <1>3
    <2>1. /\ VictimShape(v, ch)
          /\ \A k \in 1..n : Cost(s[v.slot]) <= Cost(s[k])
        BY <1>0, <2>0, VictimIs
    <2>2. /\ v.slot \in 1..n /\ v.entries \in Seq(Entries)
          /\ Len(v.entries) = n /\ DOMAIN v.entries = 1..n
          /\ \A k \in 1..n : SameData(v.entries[k], s[k]) /\ v.entries[k] \in Entries
        BY <2>0, <2>1 DEF VictimShape, SameEntries
    <2>3. /\ getEntryKey(old) = getEntryKey(s[v.slot])
          /\ WriteBack(mem, old) = WriteBack(mem, s[v.slot])
          /\ Refused(old) <=> Refused(s[v.slot])
        <3> HIDE DEF v, s
        <3> QED BY <2>2 DEF SameData, getEntryKey, WriteBack, Refused
    <2>4. WriteBack(mem, old) \in [Frames -> Data]
        <3> HIDE DEF v, s
        <3> QED BY <2>2, WriteBackType
    <2>5. \A k \in 1..n : getEntryKey(v.entries[k]) = getEntryKey(s[k])
        <3> HIDE DEF v, s
        <3> QED BY <2>2 DEF SameData, getEntryKey
    <2>6. CASE Refused(old)
        <3> DEFINE new == [entries |-> v.entries, map |-> ch.map, clock |-> v.slot]
        <3>1. put = [cache |-> new, mem |-> WriteBack(mem, old)]
            BY <1>3, <2>6 DEF Put, Refused
        <3> HIDE DEF s, v, e, put
        <3>2. KeyedBy(ch.map, v.entries)
            BY <1>0, <2>0, <2>2, <2>5, KeyedKeeps
        <3>3. CacheShape(new, n)
            BY <1>0, <2>2, <3>2 DEF CacheShape
        <3>4. Replaced(ch, new, e, v.slot)
            BY <2>0, <2>1, <2>2, <2>3, <2>6 DEF Replaced, s
        <3> HIDE DEF new
        <3> QED BY <2>0, <2>2, <2>3, <2>4, <3>1, <3>3, <3>4 DEF put, s, e
    <2>7. CASE ~Refused(old)
        <3> DEFINE t == [v.entries EXCEPT ![v.slot] = e]
                   map == Plus(Only(ch.map, DOMAIN ch.map \ {getEntryKey(old)}),
                               <<p, i>>, v.slot)
                   new == [entries |-> t, map |-> map, clock |-> (v.slot % n) + 1]
        <3>1. put = [cache |-> new, mem |-> WriteBack(mem, old)]
            BY <1>3, <2>7 DEF Put, PageEntry, Refused
        <3>2. (v.slot % n) + 1 \in 1..n
            <4> HIDE DEF v
            <4> QED BY <2>2
        <3> HIDE DEF s, v, e, put
        <3>3. /\ t \in Seq(Entries) /\ Len(t) = n /\ DOMAIN t = 1..n /\ t[v.slot] = e
              /\ \A k \in 1..n \ {v.slot} : t[k] = v.entries[k]
            BY <1>1, <2>2
        <3> HIDE DEF t
        <3>4. KeyedBy(map, t)
            <4>1. \A k \in DOMAIN s \ {v.slot} : getEntryKey(t[k]) = getEntryKey(s[k])
                BY <2>0, <2>5, <3>3
            <4>2. map = Plus(Only(ch.map, DOMAIN ch.map \ {getEntryKey(s[v.slot])}),
                             getEntryKey(e), v.slot)
                BY <1>1, <2>3
            <4> HIDE DEF map
            <4>3. getEntryKey(e) \notin DOMAIN ch.map
                BY <1>1
            <4>4. v.slot \in DOMAIN s /\ DOMAIN t = DOMAIN s /\ t[v.slot] = e
                BY <2>0, <2>2, <3>3
            <4> QED BY <1>0, <4>1, <4>2, <4>3, <4>4, KeyedReplace, ZenonT(40)
        <3> HIDE DEF map
        <3>5. CacheShape(new, n)
            BY <1>0, <2>0, <3>2, <3>3, <3>4 DEF CacheShape
        <3>6. Replaced(ch, new, e, v.slot)
            BY <2>0, <2>1, <2>2, <2>3, <2>7, <3>3 DEF Replaced, s
        <3> HIDE DEF new
        <3> QED BY <2>0, <2>2, <2>3, <2>4, <3>1, <3>5, <3>6 DEF put, s, e
    <2> QED BY <2>6, <2>7
<1> QED BY <1>2, <1>3

(* Get, and Put after a miss.                                              *)
LEMMA UsedIs ==
    ASSUME NEW s, NEW map, NEW clock, NEW x, NEW use, NEW ch,
           ch = [entries |-> s, map |-> map, clock |-> clock]
    PROVE  [ch EXCEPT !.entries[x].use = use] =
              [entries |-> [s EXCEPT ![x].use = use], map |-> map, clock |-> clock]
OBVIOUS

LEMMA AccessIs ==
    ASSUME NEW n \in Nat \ {0}, n = setting.cacheEntries, NEW c,
           CacheShape(cache[c], n), mem \in [Frames -> Data],
           NEW p \in Procs, NEW i \in Nat, NEW f \in Frames
    PROVE  LET ch == cache[c]
               a == Access(c, p, i, f)
               e == PageEntry(p, i, f)
           IN  /\ CacheShape(a.cache, n) /\ a.mem \in [Frames -> Data]
               /\ \/ /\ <<p, i>> \in DOMAIN ch.map /\ a.mem = mem
                     /\ SameEntries(a.cache.entries, ch.entries)
                  \/ /\ <<p, i>> \notin DOMAIN ch.map /\ a.mem = mem
                     /\ Added(ch, a.cache, e)
                  \/ /\ <<p, i>> \notin DOMAIN ch.map
                     /\ \E slot \in DOMAIN ch.entries :
                           /\ Replaced(ch, a.cache, e, slot)
                           /\ a.mem = WriteBack(mem, ch.entries[slot])
<1> DEFINE ch == cache[c]
           a == Access(c, p, i, f)
<1>1. CASE <<p, i>> \in DOMAIN ch.map
    <2> DEFINE s == ch.entries
               x == ch.map[<<p, i>>]
               t == [s EXCEPT ![x].use = TRUE]
               new == [entries |-> t, map |-> ch.map, clock |-> ch.clock]
    <2>0. /\ s \in Seq(Entries) /\ DOMAIN s = 1..Len(s) /\ Len(s) \in Nat
          /\ Len(s) <= n /\ ch = [entries |-> s, map |-> ch.map, clock |-> ch.clock]
          /\ ch.clock \in {1} \union DOMAIN s
          /\ KeyedBy(ch.map, s)
          /\ \A k \in DOMAIN s : s[k] \in Entries
        BY DEF CacheShape
    <2>1. a = [cache |-> new, mem |-> mem]
        <3>1. [ch EXCEPT !.entries[x].use = TRUE] = new
            <4>1. \A use : [ch EXCEPT !.entries[x].use = use] =
                     [entries |-> [s EXCEPT ![x].use = use],
                      map |-> ch.map, clock |-> ch.clock]
                <5> HIDE DEF x, ch
                <5> QED BY <2>0, UsedIs
            <4> QED BY <4>1, Zenon
        <3>2. a = [cache |-> [ch EXCEPT !.entries[x].use = TRUE], mem |-> mem]
            BY <1>1 DEF Access
        <3> QED BY <3>1, <3>2
    <2> HIDE DEF x, s
    <2>2. t = [k \in 1..Len(s) |->
                  IF k = x THEN [s[k] EXCEPT !.use = TRUE] ELSE s[k]]
        BY <2>0
    <2> HIDE DEF t
    <2>3. ASSUME NEW k \in 1..Len(s)
          PROVE  t[k] \in Entries /\ SameData(t[k], s[k])
        <3>1. s[k] \in Entries /\ t[k] \in {s[k], [s[k] EXCEPT !.use = TRUE]}
            BY <2>0, <2>2, <2>3
        <3>2. /\ [s[k] EXCEPT !.use = TRUE] \in Entries
              /\ SameData([s[k] EXCEPT !.use = TRUE], s[k]) /\ SameData(s[k], s[k])
            BY <3>1 DEF Entries, SameData
        <3> QED BY <3>1, <3>2
    <2>4. \A k \in 1..Len(s) : t[k] \in Entries
        BY <2>3
    <2>5. t \in Seq(Entries) /\ Len(t) = Len(s) /\ DOMAIN t = DOMAIN s
        BY <2>0, <2>2, <2>4
    <2>6. SameEntries(t, s)
        BY <2>0, <2>3, <2>5 DEF SameEntries
    <2>7. \A k \in DOMAIN s : getEntryKey(t[k]) = getEntryKey(s[k])
        BY <2>0, <2>3 DEF SameData, getEntryKey
    <2>8. KeyedBy(ch.map, t)
        BY <2>0, <2>5, <2>7, KeyedKeeps
    <2>9. CacheShape(new, n)
        BY <2>0, <2>5, <2>8 DEF CacheShape
    <2> HIDE DEF new
    <2>10. a.mem = mem /\ a.cache = new /\ new.entries = t
        BY <2>1 DEF new
    <2> HIDE DEF a
    <2> QED BY <1>1, <2>6, <2>9, <2>10 DEF a, s
<1>2. CASE <<p, i>> \notin DOMAIN ch.map
    <2>1. a = Put(ch, p, i, f)
        BY <1>2 DEF Access
    <2>2. /\ CacheShape(a.cache, n) /\ a.mem \in [Frames -> Data]
          /\ \/ Added(ch, a.cache, PageEntry(p, i, f)) /\ a.mem = mem
             \/ \E slot \in DOMAIN ch.entries :
                   /\ Replaced(ch, a.cache, PageEntry(p, i, f), slot)
                   /\ a.mem = WriteBack(mem, ch.entries[slot])
        <3> HIDE DEF a, ch
        <3>1. CacheShape(ch, n)
            BY DEF ch
        <3>2. <<p, i>> \notin DOMAIN ch.map
            BY <1>2
        <3> QED BY <2>1, <3>1, <3>2, PutIs
    <2> HIDE DEF a
    <2> QED BY <1>2, <2>2 DEF a
<1> QED BY <1>1, <1>2

(* ExecuteWrite in the cache.                                              *)
LEMMA ModifiedIs ==
    ASSUME NEW n \in Nat, NEW ch, CacheShape(ch, n), NEW p, NEW i,
           NEW content \in Data
    PROVE  LET k == IF <<p, i>> \in DOMAIN ch.map THEN ch.map[<<p, i>>] ELSE 1
               new == Modified(ch, p, i, content)
           IN  /\ CacheShape(new, n)
               /\ Len(new.entries) = Len(ch.entries) /\ new.map = ch.map
               /\ \A j \in DOMAIN ch.entries :
                     /\ new.entries[j].pid = ch.entries[j].pid
                     /\ new.entries[j].page = ch.entries[j].page
                     /\ new.entries[j].frame = ch.entries[j].frame
                     /\ new.entries[j].content =
                           IF j = k THEN content ELSE ch.entries[j].content
                     /\ new.entries[j].mod = (j = k \/ ch.entries[j].mod)
<1> DEFINE s == ch.entries
           x == IF <<p, i>> \in DOMAIN ch.map THEN ch.map[<<p, i>>] ELSE 1
           t == [s EXCEPT ![x] =
                    [@ EXCEPT !.content = content, !.mod = TRUE, !.use = TRUE]]
           new == [entries |-> t, map |-> ch.map, clock |-> ch.clock]
<1>0. /\ s \in Seq(Entries) /\ DOMAIN s = 1..Len(s) /\ Len(s) \in Nat
      /\ Len(s) <= n /\ ch = [entries |-> s, map |-> ch.map, clock |-> ch.clock]
      /\ ch.clock \in {1} \union DOMAIN s
      /\ KeyedBy(ch.map, s)
      /\ \A k \in DOMAIN s : s[k] \in Entries
    BY DEF CacheShape
<1>1. Modified(ch, p, i, content) = new
    <2>1. Modified(ch, p, i, content) =
             [ch EXCEPT !.entries[x] =
                [@ EXCEPT !.content = content, !.mod = TRUE, !.use = TRUE]]
        BY DEF Modified
    <2> HIDE DEF x
    <2>2. [ch EXCEPT !.entries[x] =
             [@ EXCEPT !.content = content, !.mod = TRUE, !.use = TRUE]] = new
        BY <1>0
    <2> QED BY <2>1, <2>2
<1> HIDE DEF x, s
<1>2. t = [k \in 1..Len(s) |->
              IF k = x
              THEN [s[k] EXCEPT !.content = content, !.mod = TRUE, !.use = TRUE]
              ELSE s[k]]
    BY <1>0
<1> HIDE DEF t
<1>3. ASSUME NEW k \in 1..Len(s)
      PROVE  /\ t[k] \in Entries
             /\ t[k].pid = s[k].pid /\ t[k].page = s[k].page
             /\ t[k].frame = s[k].frame
             /\ t[k].content = IF k = x THEN content ELSE s[k].content
             /\ t[k].mod = (k = x \/ s[k].mod)
    <2>1. s[k] \in Entries
        BY <1>0, <1>3
    <2>2. CASE k = x
        <3> DEFINE u == [s[k] EXCEPT !.content = content, !.mod = TRUE, !.use = TRUE]
        <3>1. t[k] = u
            BY <1>2, <1>3, <2>2
        <3>2. /\ u \in Entries /\ u.pid = s[k].pid /\ u.page = s[k].page
              /\ u.frame = s[k].frame /\ u.content = content /\ u.mod = TRUE
            BY <2>1 DEF Entries
        <3> HIDE DEF u
        <3> QED BY <2>2, <3>1, <3>2
    <2>3. CASE k # x
        <3>1. t[k] = s[k] /\ s[k].mod \in BOOLEAN
            BY <1>2, <1>3, <2>1, <2>3 DEF Entries
        <3> QED BY <2>1, <2>3, <3>1
    <2> QED BY <2>2, <2>3
<1>4. \A k \in 1..Len(s) : t[k] \in Entries
    BY <1>3
<1>5. t \in Seq(Entries) /\ Len(t) = Len(s) /\ DOMAIN t = DOMAIN s
    <2>1. t = [k \in 1..Len(s) |-> t[k]]
        BY <1>2
    <2> QED BY <1>0, <1>4, <2>1
<1>6. \A k \in DOMAIN s : getEntryKey(t[k]) = getEntryKey(s[k])
    BY <1>0, <1>3 DEF getEntryKey
<1>7. KeyedBy(ch.map, t)
    BY <1>0, <1>5, <1>6, KeyedKeeps
<1>8. CacheShape(new, n)
    BY <1>0, <1>5, <1>7 DEF CacheShape
<1>9. new.entries = t /\ new.map = ch.map
    OBVIOUS
<1> HIDE DEF new
<1> QED BY <1>0, <1>1, <1>3, <1>5, <1>8, <1>9 DEF s, x

(* RemoveProcessFromCache.                                                 *)
LEMMA RemoveProcessIs ==
    ASSUME NEW n \in Nat, NEW ch, CacheShape(ch, n), NEW p
    PROVE  LET new == RemoveProcess(ch, p) IN
           CacheShape(new, n) /\ new.entries = Without(ch.entries, p)
<1> DEFINE s == ch.entries
           w == Without(s, p)
           map == [key \in {k \in DOMAIN ch.map : k[1] # p} |->
                      CHOOSE k \in DOMAIN w : getEntryKey(w[k]) = key]
           clock == IF w = <<>> THEN 1 ELSE ((ch.clock - 1) % Len(w)) + 1
           new == RemoveProcess(ch, p)
<1>0. /\ s \in Seq(Entries) /\ DOMAIN s = 1..Len(s) /\ Len(s) \in Nat
      /\ Len(s) <= n /\ ch.clock \in {1} \union DOMAIN s
      /\ KeyedBy(ch.map, s)
    BY DEF CacheShape
<1>1. new = [entries |-> w, map |-> map, clock |-> clock]
    BY DEF RemoveProcess
<1>2. w \in Seq(Entries) /\ Len(w) <= Len(s) /\ DOMAIN w = 1..Len(w) /\ Len(w) \in Nat
    <2>1. w \in Seq(Entries) /\ Len(w) <= Len(s)
        <3> HIDE DEF s
        <3> QED BY <1>0, WithoutIs
    <2> HIDE DEF w
    <2> QED BY <2>1
<1>3. KeyedBy(map, w)
    <2> HIDE DEF s
    <2> QED BY <1>0, KeyedWithout
<1>4. clock \in {1} \union DOMAIN w
    <2> HIDE DEF w, s
    <2>1. CASE w = <<>>
        BY <2>1
    <2>2. CASE w # <<>>
        <3>1. Len(w) \in Nat \ {0} /\ ch.clock - 1 \in Nat
            BY <1>0, <1>2, <2>2
        <3>2. (ch.clock - 1) % Len(w) \in 0..(Len(w) - 1)
            BY <3>1
        <3>3. clock = ((ch.clock - 1) % Len(w)) + 1
            BY <2>2
        <3> QED BY <1>2, <3>1, <3>2, <3>3
    <2> QED BY <2>1, <2>2
<1> HIDE DEF w, map, clock, new, s
<1>5. CacheShape(new, n)
    BY <1>0, <1>1, <1>2, <1>3, <1>4 DEF CacheShape
<1> QED BY <1>1, <1>5 DEF new, w, s

(* The pages of a process that were modified are written back, and nothing *)
(* else.                                                                   *)
LEMMA WrittenBackIs ==
    ASSUME NEW n \in Nat, NEW ch, CacheShape(ch, n), mem \in [Frames -> Data], NEW p
    PROVE  LET dirty(f) == {k \in DOMAIN ch.entries :
                               /\ ch.entries[k].pid = p /\ ch.entries[k].mod
                               /\ ch.entries[k].frame = f}
           IN  /\ WrittenBack(ch, p) \in [Frames -> Data]
               /\ \A f \in Frames :
                     /\ dirty(f) = {} => WrittenBack(ch, p)[f] = mem[f]
                     /\ dirty(f) # {} => \E k \in dirty(f) :
                           WrittenBack(ch, p)[f] = ch.entries[k].content
<1> DEFINE s == ch.entries
           dirty(f) == {k \in DOMAIN s :
                           s[k].pid = p /\ s[k].mod /\ s[k].frame = f}
           m == WrittenBack(ch, p)
<1>0. /\ DOMAIN s = 1..Len(s) /\ Len(s) \in Nat
      /\ \A k \in DOMAIN s : s[k].content \in Data
    <2>1. s \in Seq(Entries)
        BY DEF CacheShape
    <2>2. \A k \in DOMAIN s : s[k] \in Entries
        BY <2>1
    <2> QED BY <2>1, <2>2 DEF Entries
<1>1. m = [f \in Frames |-> IF dirty(f) = {} THEN mem[f] ELSE s[Max(dirty(f))].content]
    BY DEF WrittenBack
<1>2. ASSUME NEW f \in Frames, dirty(f) # {}
      PROVE  Max(dirty(f)) \in dirty(f)
    <2>1. dirty(f) \in SUBSET (1..Len(s))
        BY <1>0
    <2> HIDE DEF dirty
    <2> QED BY <1>0, <1>2, <2>1, GreatestIs
<1>3. \A f \in Frames : dirty(f) \subseteq DOMAIN s
    OBVIOUS
<1> HIDE DEF m, dirty, s
<1>4. ASSUME NEW f \in Frames
      PROVE  /\ m[f] \in Data
             /\ dirty(f) = {} => m[f] = mem[f]
             /\ dirty(f) # {} => \E k \in dirty(f) : m[f] = s[k].content
    <2>1. CASE dirty(f) = {}
        BY <1>1, <1>4, <2>1
    <2>2. CASE dirty(f) # {}
        <3>1. m[f] = s[Max(dirty(f))].content
            BY <1>1, <1>4, <2>2
        <3>2. Max(dirty(f)) \in dirty(f) /\ Max(dirty(f)) \in DOMAIN s
            BY <1>2, <1>3, <1>4, <2>2
        <3> QED BY <1>0, <2>2, <3>1, <3>2
    <2> QED BY <2>1, <2>2
<1>5. m \in [Frames -> Data]
    BY <1>1, <1>4
<1> QED BY <1>4, <1>5 DEF m, dirty, s
-----------------------------------------------------------------------------
(* The page tables.                                                        *)
TableOK(tb) ==
    /\ tb = [path \in DOMAIN tb |-> tb[path]]
    /\ \A path \in DOMAIN tb : tb[path] \in [frame : Frames, presence : BOOLEAN]

LEMMA MapPagesType ==
    ASSUME NEW tb, TableOK(tb), NEW s \in Seq(Frames)
    PROVE  TableOK(MapPages(tb, s))
<1> DEFINE paths == {getPageIndices(i - 1) : i \in DOMAIN s}
           at(path) == {i \in DOMAIN s : getPageIndices(i - 1) = path}
           new == MapPages(tb, s)
<1>1. new = [path \in DOMAIN tb \union paths |->
                IF path \in paths
                THEN [frame |-> s[Max(at(path))], presence |-> TRUE] ELSE tb[path]]
    BY DEF MapPages
<1>2. \A path \in paths : Max(at(path)) \in DOMAIN s
    <2> SUFFICES ASSUME NEW path \in paths PROVE Max(at(path)) \in DOMAIN s
        OBVIOUS
    <2>1. at(path) \in SUBSET (1..Len(s)) /\ at(path) # {} /\ Len(s) \in Nat
        OBVIOUS
    <2>2. at(path) \subseteq DOMAIN s
        OBVIOUS
    <2> HIDE DEF at, paths
    <2> QED BY <2>1, <2>2, GreatestIs
<1>3. \A i \in DOMAIN s : s[i] \in Frames
    OBVIOUS
<1> HIDE DEF at, paths, new
<1>4. \A path \in DOMAIN new : new[path] \in [frame : Frames, presence : BOOLEAN]
    <2> SUFFICES ASSUME NEW path \in DOMAIN new
                 PROVE  new[path] \in [frame : Frames, presence : BOOLEAN]
        OBVIOUS
    <2>1. CASE path \in paths
        <3>1. new[path] = [frame |-> s[Max(at(path))], presence |-> TRUE]
            BY <1>1, <2>1
        <3> QED BY <1>2, <1>3, <2>1, <3>1
    <2>2. CASE path \notin paths
        <3>1. path \in DOMAIN tb /\ new[path] = tb[path]
            BY <1>1, <2>2
        <3> QED BY <3>1 DEF TableOK
    <2> QED BY <2>1, <2>2
<1>5. new = [path \in DOMAIN new |-> new[path]]
    BY <1>1
<1> QED BY <1>4, <1>5 DEF TableOK, new

LEMMA MarkAbsentType ==
    ASSUME NEW tb, TableOK(tb)
    PROVE  TableOK(MarkAbsent(tb))
<1>1. \A path \in DOMAIN tb :
         [tb[path] EXCEPT !.presence = FALSE] \in [frame : Frames, presence : BOOLEAN]
    BY DEF TableOK
<1> QED BY <1>1 DEF TableOK, MarkAbsent

LEMMA SearchFrameType ==
    ASSUME NEW tb, TableOK(tb), NEW i
    PROVE  SearchFrame(tb, i) \in Frames \union {-1}
BY DEF TableOK, SearchFrame
-----------------------------------------------------------------------------
(* The types.  A process has as many frames as it needs, or none, and as   *)
(* many pages in swap, or none.                                            *)
Place(p) ==
    /\ frames[p] \in Seq(Frames) /\ Len(frames[p]) \in {0, Need[p]}
    /\ swap[p] \in Seq(Data) /\ Len(swap[p]) \in {0, Need[p]}
    /\ TableOK(table[p])
Shape(c) ==
    /\ CacheShape(cache[c], setting.cacheEntries)
    /\ TlbShape(tlb[c], setting.tlbEntries)
Estados == {"NEW", "READY", "EXEC", "BLOCKED", "SUSPENDED", "EXIT"}
TypeInv ==
    /\ setting \in Settings
    /\ estado \in [Procs -> Estados]
    /\ running \in [Cpus -> Procs \union {None}]
    /\ mem \in [Frames -> Data]
    /\ frames = [p \in Procs |-> frames[p]] /\ table = [p \in Procs |-> table[p]]
    /\ swap = [p \in Procs |-> swap[p]]
    /\ cache = [c \in Cpus |-> cache[c]] /\ tlb = [c \in Cpus |-> tlb[c]]
    /\ \A p \in Procs : Place(p)
    /\ \A c \in Cpus : Shape(c)
MovingTyped == moving \in Procs \union {None}

LEMMA SettingType ==
    ASSUME setting \in Settings
    PROVE  setting.cacheEntries \in Nat /\ setting.tlbEntries \in Nat
BY CpuMemoryAssumption

(* The type invariant of the runs is part of it.                           *)
LEMMA TypeInvIsTypeOK == TypeInv /\ MovingTyped => TypeOK
<1> SUFFICES ASSUME TypeInv, MovingTyped PROVE TypeOK
    OBVIOUS
<1>1. ASSUME NEW c \in Cpus
      PROVE  /\ cache[c].entries \in Seq(Entries)
             /\ Len(cache[c].entries) <= setting.cacheEntries
             /\ cache[c].clock \in {1} \union DOMAIN cache[c].entries
             /\ DOMAIN cache[c].map =
                   {getEntryKey(cache[c].entries[k]) : k \in DOMAIN cache[c].entries}
             /\ \A k \in DOMAIN cache[c].entries :
                   cache[c].map[getEntryKey(cache[c].entries[k])] = k
             /\ tlb[c].entries \in Seq(TlbEntries)
             /\ Len(tlb[c].entries) <= setting.tlbEntries
             /\ tlb[c].fifo \in {1} \union 1..setting.tlbEntries
    BY <1>1 DEF TypeInv, Shape, CacheShape, KeyedBy, TlbShape
<1>2. \A p \in Procs : frames[p] \in Seq(Frames) /\ swap[p] \in Seq(Data)
    BY DEF TypeInv, Place
<1> QED BY <1>1, <1>2 DEF TypeInv, MovingTyped, TypeOK, Estados

LEMMA InitTypes == Init => TypeInv /\ MovingTyped
<1> SUFFICES ASSUME Init PROVE TypeInv /\ MovingTyped
    OBVIOUS
<1>1. ASSUME NEW p \in Procs PROVE Place(p)
    <2>1. TableOK(<<>>)
        BY DEF TableOK
    <2>2. frames[p] = <<>> /\ table[p] = <<>> /\ swap[p] = <<>>
        BY <1>1 DEF Init
    <2> QED BY <2>1, <2>2 DEF Place
<1>2. ASSUME NEW c \in Cpus PROVE Shape(c)
    <2>1. cache[c] = EmptyCache /\ tlb[c] = EmptyTlb
        BY <1>2 DEF Init
    <2>2. setting.cacheEntries \in Nat /\ setting.tlbEntries \in Nat
        BY SettingType DEF Init
    <2>3. CacheShape(EmptyCache, setting.cacheEntries)
        BY <2>2 DEF EmptyCache, CacheShape, KeyedBy
    <2>4. TlbShape(EmptyTlb, setting.tlbEntries)
        BY <2>2 DEF EmptyTlb, TlbShape
    <2> QED BY <2>1, <2>3, <2>4 DEF Shape
<1>3. Blank \in Data
    BY DEF Data
<1> QED BY <1>1, <1>2, <1>3 DEF Init, TypeInv, MovingTyped, Estados

(* What a step that moves one process must show of it.                     *)
LEMMA PlacesStep ==
    ASSUME TypeInv, NEW p \in Procs, NEW s, NEW tb, NEW sw, NEW to \in Estados,
           estado' = [estado EXCEPT ![p] = to],
           frames' = [frames EXCEPT ![p] = s],
           table' = [table EXCEPT ![p] = tb],
           swap' = [swap EXCEPT ![p] = sw],
           s \in Seq(Frames), TableOK(tb), sw \in Seq(Data),
           Len(s) \in {0, Need[p]}, Len(sw) \in {0, Need[p]}
    PROVE  /\ estado' \in [Procs -> Estados]
           /\ frames' = [q \in Procs |-> frames'[q]]
           /\ table' = [q \in Procs |-> table'[q]]
           /\ swap' = [q \in Procs |-> swap'[q]]
           /\ \A q \in Procs : Place(q)'
<1>1. /\ estado' = [q \in Procs |-> IF q = p THEN to ELSE estado[q]]
      /\ frames' = [q \in Procs |-> IF q = p THEN s ELSE frames[q]]
      /\ table' = [q \in Procs |-> IF q = p THEN tb ELSE table[q]]
      /\ swap' = [q \in Procs |-> IF q = p THEN sw ELSE swap[q]]
    <2>1. estado \in [Procs -> Estados]
        BY DEF TypeInv
    <2>2. /\ frames = [q \in Procs |-> frames[q]] /\ table = [q \in Procs |-> table[q]]
          /\ swap = [q \in Procs |-> swap[q]]
        BY DEF TypeInv
    <2> QED BY <2>1, <2>2
<1>2. ASSUME NEW q \in Procs PROVE Place(q)'
    <2>1. CASE q = p
        <3>1. frames'[q] = s /\ table'[q] = tb /\ swap'[q] = sw /\ estado'[q] = to
            BY <1>1, <2>1
        <3>2. TableOK(tb)' <=> TableOK(tb)
            BY DEF TableOK
        <3> QED BY <2>1, <3>1 DEF Place, TableOK
    <2>2. CASE q # p
        <3>1. /\ frames'[q] = frames[q] /\ table'[q] = table[q]
              /\ swap'[q] = swap[q] /\ estado'[q] = estado[q]
            BY <1>1, <1>2, <2>2
        <3>2. Place(q)
            BY <1>2 DEF TypeInv
        <3> QED BY <3>1, <3>2 DEF Place, TableOK
    <2> QED BY <2>1, <2>2
<1>3. estado \in [Procs -> Estados]
    BY DEF TypeInv
<1> QED BY <1>1, <1>2, <1>3, ZenonT(60)

(* What a step of a CPU must show of its cache and TLB.                    *)
LEMMA ShapesStep ==
    ASSUME TypeInv, NEW c \in Cpus, NEW x, NEW t, setting' = setting,
           cache' = [cache EXCEPT ![c] = x], CacheShape(x, setting.cacheEntries),
           tlb' = [tlb EXCEPT ![c] = t], TlbShape(t, setting.tlbEntries)
    PROVE  /\ cache' = [d \in Cpus |-> cache'[d]] /\ tlb' = [d \in Cpus |-> tlb'[d]]
           /\ \A d \in Cpus : Shape(d)'
<1>1. /\ cache' = [d \in Cpus |-> IF d = c THEN x ELSE cache[d]]
      /\ tlb' = [d \in Cpus |-> IF d = c THEN t ELSE tlb[d]]
    <2>1. cache = [d \in Cpus |-> cache[d]] /\ tlb = [d \in Cpus |-> tlb[d]]
        BY DEF TypeInv
    <2> QED BY <2>1
<1>2. ASSUME NEW d \in Cpus PROVE Shape(d)'
    <2>1. CASE d = c
        <3>1. cache'[d] = x /\ tlb'[d] = t
            BY <1>1, <2>1
        <3> QED BY <3>1 DEF Shape, CacheShape, KeyedBy, TlbShape
    <2>2. CASE d # c
        <3>1. cache'[d] = cache[d] /\ tlb'[d] = tlb[d] /\ Shape(d)
            BY <1>1, <1>2, <2>2 DEF TypeInv
        <3> QED BY <3>1 DEF Shape, CacheShape, KeyedBy, TlbShape
    <2> QED BY <2>1, <2>2
<1> QED BY <1>1, <1>2

LEMMA ShapesKept ==
    ASSUME TypeInv, UNCHANGED <<setting, cache, tlb>>
    PROVE  /\ cache' = [d \in Cpus |-> cache'[d]] /\ tlb' = [d \in Cpus |-> tlb'[d]]
           /\ \A d \in Cpus : Shape(d)'
<1>1. ASSUME NEW d \in Cpus PROVE Shape(d)'
    <2>1. cache'[d] = cache[d] /\ tlb'[d] = tlb[d] /\ Shape(d)
        BY <1>1 DEF TypeInv
    <2> QED BY <2>1 DEF Shape, CacheShape, KeyedBy, TlbShape
<1> QED BY <1>1 DEF TypeInv

(* A step that leaves the places of the processes where they are.          *)
LEMMA PlacesKept ==
    ASSUME TypeInv, NEW p \in Procs, NEW to \in Estados,
           estado' = [estado EXCEPT ![p] = to],
           UNCHANGED <<frames, table, swap>>
    PROVE  /\ estado' \in [Procs -> Estados]
           /\ frames' = [q \in Procs |-> frames'[q]]
           /\ table' = [q \in Procs |-> table'[q]]
           /\ swap' = [q \in Procs |-> swap'[q]]
           /\ \A q \in Procs : Place(q)'
<1>1. /\ frames = [q \in Procs |-> frames[q]] /\ table = [q \in Procs |-> table[q]]
      /\ swap = [q \in Procs |-> swap[q]]
    BY DEF TypeInv
<1>2. /\ frames' = [frames EXCEPT ![p] = frames[p]]
      /\ table' = [table EXCEPT ![p] = table[p]]
      /\ swap' = [swap EXCEPT ![p] = swap[p]]
    BY <1>1
<1>3. Place(p)
    BY DEF TypeInv
<1>4. /\ frames[p] \in Seq(Frames) /\ TableOK(table[p]) /\ swap[p] \in Seq(Data)
      /\ Len(frames[p]) \in {0, Need[p]} /\ Len(swap[p]) \in {0, Need[p]}
    BY <1>3 DEF Place
<1> QED BY <1>2, <1>4, PlacesStep

(* The frames a process is given are its own, and no other has them.       *)
LEMMA GiveIs ==
    ASSUME TypeInv, NEW p \in Procs, Give(p)
    PROVE  \E s \in Seq(Frames) :
              /\ Len(s) = Need[p] /\ DOMAIN s = 1..Need[p] /\ Need[p] \in Nat
              /\ \A k, j \in DOMAIN s : s[k] = s[j] => k = j
              /\ \A q \in Procs : \A k \in DOMAIN s, j \in DOMAIN frames[q] :
                    s[k] # frames[q][j]
              /\ frames' = [frames EXCEPT ![p] = s]
              /\ table' = [table EXCEPT ![p] = MapPages(table[p], s)]
<1>1. PICK s \in FirstFree(Need[p]) :
         /\ frames' = [frames EXCEPT ![p] = s]
         /\ table' = [table EXCEPT ![p] = MapPages(@, s)]
    BY DEF Give
<1>2. Need[p] \in Nat /\ \A f \in Frames : f \in Nat
    BY CpuMemoryAssumption
<1>3. /\ s \in [1..Need[p] -> FreeFrames]
      /\ \A k, j \in 1..Need[p] : k < j => s[k] < s[j]
    BY <1>1 DEF FirstFree
<1>4. \A f \in FreeFrames : f \in Frames /\ \A q \in Procs : f \notin Range(frames[q])
    BY DEF FreeFrames
<1>5. s \in Seq(Frames) /\ Len(s) = Need[p] /\ DOMAIN s = 1..Need[p]
    BY <1>2, <1>3, <1>4
<1>6. \A k, j \in DOMAIN s : s[k] = s[j] => k = j
    <2> SUFFICES ASSUME NEW k \in 1..Need[p], NEW j \in 1..Need[p], k # j
                 PROVE  s[k] # s[j]
        BY <1>5
    <2>1. k < j \/ j < k
        BY <1>2
    <2>2. s[k] \in Nat /\ s[j] \in Nat
        BY <1>2, <1>3, <1>4
    <2> QED BY <1>3, <2>1, <2>2
<1>7. \A q \in Procs : \A k \in DOMAIN s, j \in DOMAIN frames[q] : s[k] # frames[q][j]
    BY <1>3, <1>4 DEF Range
<1>8. table' = [table EXCEPT ![p] = MapPages(table[p], s)]
    BY <1>1 DEF TypeInv
<1> QED BY <1>1, <1>2, <1>5, <1>6, <1>7, <1>8

(* A CPU that uses a page.                                                 *)
LEMMA UseTypes ==
    ASSUME TypeInv, NEW c \in Cpus, running[c] # None, NEW i \in Pages,
           Translate(c, running[c], i).frame # -1
    PROVE  LET p == running[c]
               t == Translate(c, p, i)
               a == Access(c, p, i, t.frame)
           IN  /\ p \in Procs /\ i \in Nat /\ t.frame \in Frames
               /\ TlbShape(t.tlb, setting.tlbEntries)
               /\ IsEnabled => /\ setting.cacheEntries \in Nat \ {0}
                               /\ CacheShape(a.cache, setting.cacheEntries)
                               /\ a.mem \in [Frames -> Data]
<1> DEFINE p == running[c]
           t == Translate(c, p, i)
           a == Access(c, p, i, t.frame)
<1>1. p \in Procs /\ i \in Nat
    BY CpuMemoryAssumption DEF TypeInv
<1>2. setting.cacheEntries \in Nat /\ setting.tlbEntries \in Nat
    BY SettingType DEF TypeInv
<1>3. /\ CacheShape(cache[c], setting.cacheEntries)
      /\ TlbShape(tlb[c], setting.tlbEntries)
      /\ mem \in [Frames -> Data]
    BY DEF TypeInv, Shape
<1>4. SearchFrame(table[p], i) \in Frames \union {-1}
    <2>1. TableOK(table[p])
        BY <1>1 DEF TypeInv, Place
    <2> QED BY <2>1, SearchFrameType
<1> HIDE DEF p
<1>5. t.frame \in Frames \union {-1} /\ TlbShape(t.tlb, setting.tlbEntries)
    BY <1>1, <1>2, <1>3, <1>4, TranslateIs
<1>6. t.frame # -1
    BY DEF p
<1> HIDE DEF t
<1>7. IsEnabled => /\ setting.cacheEntries \in Nat \ {0}
                   /\ CacheShape(a.cache, setting.cacheEntries)
                   /\ a.mem \in [Frames -> Data]
    <2> SUFFICES ASSUME IsEnabled
                 PROVE  /\ setting.cacheEntries \in Nat \ {0}
                        /\ CacheShape(a.cache, setting.cacheEntries)
                        /\ a.mem \in [Frames -> Data]
        OBVIOUS
    <2>1. setting.cacheEntries \in Nat \ {0}
        BY <1>2 DEF IsEnabled
    <2> QED BY <1>1, <1>3, <1>5, <1>6, <2>1, AccessIs
<1> QED BY <1>1, <1>5, <1>6, <1>7 DEF t, p

LEMMA ReadTypes ==
    ASSUME TypeInv, NEW c \in Cpus, NEW i \in Pages, Read(c, i)
    PROVE  TypeInv'
<1> DEFINE p == running[c]
           t == Translate(c, p, i)
           a == Access(c, p, i, t.frame)
           x == IF IsEnabled THEN a.cache ELSE cache[c]
<1>1. /\ running[c] # None /\ t.frame # -1
      /\ tlb' = [tlb EXCEPT ![c] = t.tlb]
      /\ cache' = [cache EXCEPT ![c] = IF IsEnabled THEN a.cache ELSE @]
      /\ mem' = IF IsEnabled THEN a.mem ELSE mem
      /\ UNCHANGED <<setting, estado, running, frames, table, swap>>
    BY DEF Read
<1>2. /\ TlbShape(t.tlb, setting.tlbEntries)
      /\ IsEnabled => CacheShape(a.cache, setting.cacheEntries) /\ a.mem \in [Frames -> Data]
    BY <1>1, UseTypes
<1>3. /\ CacheShape(cache[c], setting.cacheEntries)
      /\ cache = [d \in Cpus |-> cache[d]] /\ mem \in [Frames -> Data]
    BY DEF TypeInv, Shape
<1> HIDE DEF p, t, a
<1>4. cache' = [cache EXCEPT ![c] = x]
    BY <1>1, <1>3
<1>5. CacheShape(x, setting.cacheEntries)
    BY <1>2, <1>3
<1> HIDE DEF x
<1>6. /\ cache' = [d \in Cpus |-> cache'[d]] /\ tlb' = [d \in Cpus |-> tlb'[d]]
      /\ \A d \in Cpus : Shape(d)'
    BY <1>1, <1>2, <1>4, <1>5, ShapesStep
<1>7. mem' \in [Frames -> Data]
    BY <1>1, <1>2, <1>3
<1>8. \A q \in Procs : Place(q)'
    BY <1>1 DEF TypeInv, Place, TableOK
<1> QED BY <1>1, <1>6, <1>7, <1>8 DEF TypeInv

LEMMA WriteTypes ==
    ASSUME TypeInv, NEW c \in Cpus, NEW i \in Pages, NEW v \in Values, Write(c, i, v)
    PROVE  TypeInv'
<1> DEFINE p == running[c]
           t == Translate(c, p, i)
           a == Access(c, p, i, t.frame)
           content == <<p, i, v>>
           x == IF IsEnabled THEN Modified(a.cache, p, i, content) ELSE cache[c]
<1>1. /\ running[c] # None /\ t.frame # -1
      /\ tlb' = [tlb EXCEPT ![c] = t.tlb]
      /\ IF IsEnabled
         THEN /\ cache' = [cache EXCEPT ![c] = Modified(a.cache, p, i, content)]
              /\ mem' = a.mem
         ELSE /\ mem' = [mem EXCEPT ![t.frame] = content]
              /\ UNCHANGED cache
      /\ UNCHANGED <<setting, estado, running, frames, table, swap>>
    BY DEF Write
<1>2. /\ p \in Procs /\ i \in Nat /\ t.frame \in Frames
      /\ TlbShape(t.tlb, setting.tlbEntries)
      /\ IsEnabled => /\ setting.cacheEntries \in Nat \ {0}
                      /\ CacheShape(a.cache, setting.cacheEntries)
                      /\ a.mem \in [Frames -> Data]
    BY <1>1, UseTypes
<1>3. /\ CacheShape(cache[c], setting.cacheEntries)
      /\ cache = [d \in Cpus |-> cache[d]] /\ mem \in [Frames -> Data]
    BY DEF TypeInv, Shape
<1>4. content \in Data
    BY <1>2 DEF Data
<1> HIDE DEF p, t, a, content
<1>5. cache' = [cache EXCEPT ![c] = x]
    <2>1. CASE IsEnabled
        BY <1>1, <2>1
    <2>2. CASE ~IsEnabled
        <3>1. cache' = cache /\ x = cache[c]
            BY <1>1, <2>2
        <3> QED BY <1>3, <3>1
    <2> QED BY <2>1, <2>2
<1>6. CacheShape(x, setting.cacheEntries)
    <2>1. CASE IsEnabled
        <3>1. CacheShape(Modified(a.cache, p, i, content), setting.cacheEntries)
            BY <1>2, <1>4, <2>1, ModifiedIs
        <3> QED BY <2>1, <3>1
    <2> QED BY <1>3, <2>1
<1> HIDE DEF x
<1>7. /\ cache' = [d \in Cpus |-> cache'[d]] /\ tlb' = [d \in Cpus |-> tlb'[d]]
      /\ \A d \in Cpus : Shape(d)'
    BY <1>1, <1>2, <1>5, <1>6, ShapesStep
<1>8. mem' \in [Frames -> Data]
    BY <1>1, <1>2, <1>3, <1>4
<1>9. \A q \in Procs : Place(q)'
    BY <1>1 DEF TypeInv, Place, TableOK
<1> QED BY <1>1, <1>7, <1>8, <1>9 DEF TypeInv

(* The pages of a process leave a CPU.                                     *)
LEMMA CleanTypes ==
    ASSUME TypeInv, NEW c \in Cpus, NEW p, Clean(c, p), setting' = setting
    PROVE  /\ cache' = [d \in Cpus |-> cache'[d]] /\ tlb' = [d \in Cpus |-> tlb'[d]]
           /\ \A d \in Cpus : Shape(d)'
           /\ mem' \in [Frames -> Data]
<1> DEFINE x == IF IsEnabled THEN RemoveProcess(cache[c], p) ELSE cache[c]
           t == RemoveTLBEntries(tlb[c], p)
<1>1. /\ CacheShape(cache[c], setting.cacheEntries)
      /\ TlbShape(tlb[c], setting.tlbEntries) /\ mem \in [Frames -> Data]
      /\ cache = [d \in Cpus |-> cache[d]] /\ tlb = [d \in Cpus |-> tlb[d]]
    BY DEF TypeInv, Shape
<1>2. setting.cacheEntries \in Nat /\ setting.tlbEntries \in Nat
    BY SettingType DEF TypeInv
<1>3. /\ cache' = [cache EXCEPT ![c] = x] /\ tlb' = [tlb EXCEPT ![c] = t]
      /\ mem' = WrittenBack(cache[c], p)
    BY <1>1 DEF Clean
<1>4. CacheShape(x, setting.cacheEntries)
    BY <1>1, <1>2, RemoveProcessIs
<1>5. TlbShape(t, setting.tlbEntries)
    BY <1>1, <1>2, RemoveTlbIs
<1>6. mem' \in [Frames -> Data]
    BY <1>1, <1>2, <1>3, WrittenBackIs
<1> HIDE DEF x, t
<1> QED BY <1>3, <1>4, <1>5, <1>6, ShapesStep

(* The steps of the Kernel and the ends of a burst.                        *)
LEMMA DispatchTypes ==
    ASSUME TypeInv, NEW c \in Cpus, NEW p \in Procs, Dispatch(c, p)
    PROVE  TypeInv'
<1>1. /\ running' = [running EXCEPT ![c] = p] /\ estado[p] = "READY"
      /\ estado' = [estado EXCEPT ![p] = "EXEC"]
      /\ UNCHANGED <<setting, frames, table, mem, swap, cache, tlb>>
    BY DEF Dispatch, Becomes, memVars
<1>2. "EXEC" \in Estados
    BY DEF Estados
<1>3. running' \in [Cpus -> Procs \union {None}]
    BY <1>1 DEF TypeInv
<1> QED BY <1>1, <1>2, <1>3, PlacesKept, ShapesKept DEF TypeInv

LEMMA PreemptTypes ==
    ASSUME TypeInv, NEW c \in Cpus, Preempt(c)
    PROVE  TypeInv'
<1>1. /\ running' = [running EXCEPT ![c] = None] /\ estado[running[c]] = "EXEC"
      /\ estado' = [estado EXCEPT ![running[c]] = "READY"]
      /\ UNCHANGED <<setting, frames, table, mem, swap, cache, tlb>>
    BY DEF Preempt, Becomes, memVars
<1>2. "READY" \in Estados /\ running[c] \in Procs
    BY DEF Estados, Preempt, TypeInv
<1>3. running' \in [Cpus -> Procs \union {None}]
    BY <1>1 DEF TypeInv
<1> QED BY <1>1, <1>2, <1>3, PlacesKept, ShapesKept DEF TypeInv

LEMMA WaitTypes ==
    ASSUME TypeInv, NEW p \in Procs, Unblock(p) \/ Suspend(p) \/ Resume(p)
    PROVE  TypeInv'
<1>1. PICK to \in {"READY", "SUSPENDED"} : estado' = [estado EXCEPT ![p] = to]
    BY DEF Unblock, Suspend, Resume, Becomes
<1>2. UNCHANGED <<setting, running, frames, table, mem, swap, cache, tlb>>
    BY DEF Unblock, Suspend, Resume, memVars
<1>3. to \in Estados
    BY DEF Estados
<1> QED BY <1>1, <1>2, <1>3, PlacesKept, ShapesKept DEF TypeInv

LEMMA SyscallTypes ==
    ASSUME TypeInv, NEW c \in Cpus, Syscall(c)
    PROVE  TypeInv'
<1>1. /\ running' = [running EXCEPT ![c] = None] /\ estado[running[c]] = "EXEC"
      /\ estado' = [estado EXCEPT ![running[c]] = "BLOCKED"]
      /\ Clean(c, running[c])
      /\ UNCHANGED <<setting, frames, table, swap>>
    BY DEF Syscall, Becomes
<1>2. "BLOCKED" \in Estados /\ running[c] \in Procs
    BY DEF Estados, Syscall, TypeInv
<1>3. running' \in [Cpus -> Procs \union {None}]
    BY <1>1 DEF TypeInv
<1>4. /\ cache' = [d \in Cpus |-> cache'[d]] /\ tlb' = [d \in Cpus |-> tlb'[d]]
      /\ \A d \in Cpus : Shape(d)' /\ mem' \in [Frames -> Data]
    BY <1>1, CleanTypes
<1> QED BY <1>1, <1>2, <1>3, <1>4, PlacesKept DEF TypeInv

(* A process that ends has nothing in Memory nor in swap.                  *)
LEMMA ForgetPlaces ==
    ASSUME TypeInv, NEW p \in Procs, Forget(p), estado' = [estado EXCEPT ![p] = "EXIT"]
    PROVE  /\ estado' \in [Procs -> Estados]
           /\ frames' = [q \in Procs |-> frames'[q]]
           /\ table' = [q \in Procs |-> table'[q]]
           /\ swap' = [q \in Procs |-> swap'[q]]
           /\ \A q \in Procs : Place(q)'
<1>1. /\ frames' = [frames EXCEPT ![p] = <<>>]
      /\ table' = [table EXCEPT ![p] = <<>>]
      /\ swap' = [swap EXCEPT ![p] = <<>>]
    BY DEF Forget
<1>2. TableOK(<<>>)
    BY DEF TableOK
<1>3. "EXIT" \in Estados /\ <<>> \in Seq(Frames) /\ <<>> \in Seq(Data) /\ Len(<<>>) = 0
    BY DEF Estados
<1> QED BY <1>1, <1>2, <1>3, PlacesStep

LEMMA ExitTypes ==
    ASSUME TypeInv, NEW c \in Cpus, Exit(c)
    PROVE  TypeInv'
<1>1. /\ running' = [running EXCEPT ![c] = None]
      /\ estado' = [estado EXCEPT ![running[c]] = "EXIT"]
      /\ Clean(c, running[c]) /\ Forget(running[c]) /\ setting' = setting
    BY DEF Exit, Becomes
<1>2. running[c] \in Procs
    BY DEF Exit, TypeInv
<1>3. running' \in [Cpus -> Procs \union {None}]
    BY <1>1 DEF TypeInv
<1>4. /\ cache' = [d \in Cpus |-> cache'[d]] /\ tlb' = [d \in Cpus |-> tlb'[d]]
      /\ \A d \in Cpus : Shape(d)' /\ mem' \in [Frames -> Data]
    BY <1>1, CleanTypes
<1> QED BY <1>1, <1>2, <1>3, <1>4, ForgetPlaces DEF TypeInv

LEMMA LastInstructionTypes ==
    ASSUME TypeInv, NEW c \in Cpus, LastInstruction(c)
    PROVE  TypeInv'
<1>1. /\ running' = [running EXCEPT ![c] = None]
      /\ estado' = [estado EXCEPT ![running[c]] = "EXIT"]
      /\ Forget(running[c]) /\ UNCHANGED <<setting, mem, cache, tlb>>
    BY DEF LastInstruction, Becomes
<1>2. running[c] \in Procs
    <2>1. setting.noExit \in SUBSET Procs
        BY CpuMemoryAssumption DEF TypeInv
    <2> QED BY <2>1 DEF LastInstruction
<1>3. running' \in [Cpus -> Procs \union {None}]
    BY <1>1 DEF TypeInv
<1> QED BY <1>1, <1>2, <1>3, ForgetPlaces, ShapesKept DEF TypeInv

LEMMA WithdrawTypes ==
    ASSUME TypeInv, NEW p \in Procs, Withdraw(p)
    PROVE  TypeInv'
<1>1. /\ estado' = [estado EXCEPT ![p] = "EXIT"] /\ Forget(p)
      /\ UNCHANGED <<setting, running, mem, cache, tlb>>
    BY DEF Withdraw
<1> QED BY <1>1, ForgetPlaces, ShapesKept DEF TypeInv

LEMMA AdmitTypes ==
    ASSUME TypeInv, NEW p \in Procs, Admit(p)
    PROVE  TypeInv'
<1>1. /\ estado[p] = "NEW" /\ estado' = [estado EXCEPT ![p] = "READY"]
      /\ Give(p) /\ UNCHANGED <<setting, running, mem, swap, cache, tlb>>
    BY DEF Admit, Becomes
<1>2. PICK s \in Seq(Frames) :
         /\ Len(s) = Need[p]
         /\ frames' = [frames EXCEPT ![p] = s]
         /\ table' = [table EXCEPT ![p] = MapPages(table[p], s)]
    BY <1>1, GiveIs
<1>3. Place(p) /\ swap = [q \in Procs |-> swap[q]]
    BY DEF TypeInv
<1>4. swap' = [swap EXCEPT ![p] = swap[p]]
    BY <1>1, <1>3
<1>5. /\ TableOK(MapPages(table[p], s)) /\ swap[p] \in Seq(Data)
      /\ Len(swap[p]) \in {0, Need[p]}
    BY <1>1, <1>3, MapPagesType DEF Place
<1>6. "READY" \in Estados
    BY DEF Estados
<1> QED BY <1>1, <1>2, <1>4, <1>5, <1>6, PlacesStep, ShapesKept DEF TypeInv

LEMMA SwapOutTypes ==
    ASSUME TypeInv, MovingTyped, SwapOut
    PROVE  TypeInv'
<1>0. PICK p \in Procs : p = moving
    BY DEF SwapOut, MovingTyped
<1> DEFINE sw == [k \in DOMAIN frames[p] |-> mem[frames[p][k]]]
<1>1. /\ swap' = [swap EXCEPT ![p] = sw]
      /\ frames' = [frames EXCEPT ![p] = <<>>]
      /\ table' = [table EXCEPT ![p] = MarkAbsent(@)]
      /\ UNCHANGED <<setting, estado, running, mem, cache, tlb>>
    BY <1>0 DEF SwapOut
<1>2. Place(p) /\ mem \in [Frames -> Data]
    BY DEF TypeInv
<1>3. /\ frames[p] \in Seq(Frames) /\ Len(frames[p]) \in {0, Need[p]}
      /\ TableOK(table[p])
    BY <1>2 DEF Place
<1>4. sw \in Seq(Data) /\ Len(sw) = Len(frames[p])
    <2>1. DOMAIN frames[p] = 1..Len(frames[p]) /\ Len(frames[p]) \in Nat
        BY <1>3
    <2>2. \A k \in 1..Len(frames[p]) : mem[frames[p][k]] \in Data
        BY <1>2, <1>3
    <2> QED BY <2>1, <2>2
<1>5. table' = [table EXCEPT ![p] = MarkAbsent(table[p])] /\ TableOK(MarkAbsent(table[p]))
    BY <1>1, <1>3, MarkAbsentType DEF TypeInv
<1>6. <<>> \in Seq(Frames) /\ Len(<<>>) = 0
    OBVIOUS
<1>7. estado' = [estado EXCEPT ![p] = estado[p]] /\ estado[p] \in Estados
    BY <1>1 DEF TypeInv
<1> HIDE DEF sw
<1>8. /\ estado' \in [Procs -> Estados]
      /\ frames' = [q \in Procs |-> frames'[q]]
      /\ table' = [q \in Procs |-> table'[q]]
      /\ swap' = [q \in Procs |-> swap'[q]]
      /\ \A q \in Procs : Place(q)'
    BY <1>1, <1>3, <1>4, <1>5, <1>6, <1>7, PlacesStep
<1> QED BY <1>1, <1>8, ShapesKept DEF TypeInv

LEMMA SwapInTypes ==
    ASSUME TypeInv, NEW p \in Procs, SwapIn(p)
    PROVE  TypeInv'
<1>1. /\ swap[p] # <<>> /\ estado' = [estado EXCEPT ![p] = "READY"]
      /\ Give(p) /\ swap' = [swap EXCEPT ![p] = <<>>]
      /\ mem' = [f \in Frames |->
            IF f \in Range(frames'[p])
            THEN swap[p][CHOOSE k \in DOMAIN frames'[p] : frames'[p][k] = f]
            ELSE mem[f]]
      /\ UNCHANGED <<setting, running, cache, tlb>>
    BY DEF SwapIn, Becomes
<1>2. PICK s \in Seq(Frames) :
         /\ Len(s) = Need[p] /\ DOMAIN s = 1..Need[p] /\ Need[p] \in Nat
         /\ frames' = [frames EXCEPT ![p] = s]
         /\ table' = [table EXCEPT ![p] = MapPages(table[p], s)]
    BY <1>1, GiveIs
<1>3. Place(p) /\ mem \in [Frames -> Data] /\ frames = [q \in Procs |-> frames[q]]
    BY DEF TypeInv
<1>4. frames'[p] = s
    BY <1>2, <1>3
<1>5. \A k \in DOMAIN s : swap[p][k] \in Data
    <2>1. swap[p] \in Seq(Data) /\ Len(swap[p]) = Need[p]
        BY <1>1, <1>3 DEF Place
    <2> QED BY <1>2, <2>1
<1>6. mem' \in [Frames -> Data]
    <2> SUFFICES ASSUME NEW f \in Frames
                 PROVE  (IF f \in Range(s)
                         THEN swap[p][CHOOSE k \in DOMAIN s : s[k] = f] ELSE mem[f]) \in Data
        BY <1>1, <1>4
    <2>1. f \in Range(s) => \E k \in DOMAIN s : s[k] = f
        BY DEF Range
    <2> QED BY <1>3, <1>5, <2>1
<1>7. TableOK(MapPages(table[p], s))
    BY <1>3, MapPagesType DEF Place
<1>8. "READY" \in Estados /\ <<>> \in Seq(Data) /\ Len(<<>>) = 0
    BY DEF Estados
<1>9. /\ estado' \in [Procs -> Estados]
      /\ frames' = [q \in Procs |-> frames'[q]]
      /\ table' = [q \in Procs |-> table'[q]]
      /\ swap' = [q \in Procs |-> swap'[q]]
      /\ \A q \in Procs : Place(q)'
    BY <1>1, <1>2, <1>7, <1>8, PlacesStep
<1> QED BY <1>1, <1>6, <1>9, ShapesKept DEF TypeInv

(* A step that changes no more than what the PMP asks.                     *)
LEMMA StutterTypes ==
    ASSUME TypeInv,
           UNCHANGED <<setting, estado, running, frames, table, mem, swap, cache, tlb>>
    PROVE  TypeInv'
<1>1. \A q \in Procs : Place(q)'
    BY DEF TypeInv, Place, TableOK
<1> QED BY <1>1, ShapesKept DEF TypeInv

LEMMA NextTypes ==
    TypeInv /\ MovingTyped /\ [Next]_vars => TypeInv' /\ MovingTyped'
<1> SUFFICES ASSUME TypeInv, MovingTyped, [Next]_vars PROVE TypeInv' /\ MovingTyped'
    OBVIOUS
<1>1. ASSUME NEW c \in Cpus, Execute(c) PROVE TypeInv' /\ moving' = moving
    <2>1. moving' = moving
        BY <1>1 DEF Execute, Read, Write, Preempt, Syscall, Exit, LastInstruction
    <2> QED BY <1>1, <2>1, ReadTypes, WriteTypes, PreemptTypes, SyscallTypes, ExitTypes,
               LastInstructionTypes DEF Execute
<1>2. ASSUME NEW p \in Procs, Schedule(p) PROVE TypeInv' /\ moving' \in {moving, p}
    <2>1. AskPut(p) => TypeInv'
        BY StutterTypes DEF AskPut, memVars
    <2>2. moving' \in {moving, p}
        BY <1>2 DEF Schedule, Admit, Unblock, Suspend, AskPut, SwapIn, Resume,
                    Withdraw, Dispatch
    <2> QED BY <1>2, <2>1, <2>2, AdmitTypes, WaitTypes, SwapInTypes, WithdrawTypes,
               DispatchTypes DEF Schedule
<1>3. ASSUME SwapOut PROVE TypeInv' /\ moving' = None
    BY <1>3, SwapOutTypes DEF SwapOut
<1>4. ASSUME SwapFails PROVE TypeInv' /\ moving' = None
    BY <1>4, StutterTypes DEF SwapFails, memVars
<1>5. CASE UNCHANGED vars
    <2>1. UNCHANGED <<setting, estado, running, frames, table, mem, swap, cache, tlb>>
        BY <1>5 DEF vars, memVars
    <2> QED BY <1>5, <2>1, StutterTypes DEF vars, MovingTyped
<1> QED BY <1>1, <1>2, <1>3, <1>4, <1>5 DEF Next, MovingTyped

(* The types of CpuMemory: the map of a cache finds every page at its slot *)
(* (cache_service.go), whatever is replaced, moved up or written.          *)
THEOREM CpuTypes == Spec => []TypeOK
<1>1. Spec => [](TypeInv /\ MovingTyped)
    BY InitTypes, NextTypes, PTL DEF Spec
<1> QED BY <1>1, TypeInvIsTypeOK, PTL
-----------------------------------------------------------------------------
(* The pages a cache replaces.                                             *)
Cheapest(old, new) ==
    Len(new) = Len(old) => \A k \in DOMAIN old :
        getEntryKey(new[k]) # getEntryKey(old[k]) =>
            \A j \in DOMAIN old : Cost(old[k]) <= Cost(old[j])

LEMMA AccessIsCheapest ==
    ASSUME TypeInv, NEW c \in Cpus, running[c] # None, NEW i \in Pages, IsEnabled,
           Translate(c, running[c], i).frame # -1
    PROVE  LET p == running[c]
               t == Translate(c, p, i)
               a == Access(c, p, i, t.frame)
           IN  /\ CacheShape(a.cache, setting.cacheEntries)
               /\ Cheapest(cache[c].entries, a.cache.entries)
<1> DEFINE p == running[c]
           t == Translate(c, p, i)
           a == Access(c, p, i, t.frame)
           ch == cache[c]
           e == PageEntry(p, i, t.frame)
           n == setting.cacheEntries
<1>1. /\ p \in Procs /\ i \in Nat /\ t.frame \in Frames /\ n \in Nat \ {0}
      /\ CacheShape(a.cache, n)
    BY UseTypes
<1>2. CacheShape(ch, n) /\ mem \in [Frames -> Data]
    BY DEF TypeInv, Shape
<1> HIDE DEF p, t
<1>3. \/ SameEntries(a.cache.entries, ch.entries)
      \/ Added(ch, a.cache, e)
      \/ \E slot \in DOMAIN ch.entries : Replaced(ch, a.cache, e, slot)
    BY <1>1, <1>2, AccessIs
<1>4. ch.entries \in Seq(Entries)
    BY <1>2 DEF CacheShape
<1> HIDE DEF a, ch, n, e
<1>5. ASSUME SameEntries(a.cache.entries, ch.entries)
      PROVE  Cheapest(ch.entries, a.cache.entries)
    <2>1. \A k \in DOMAIN ch.entries :
             getEntryKey(a.cache.entries[k]) = getEntryKey(ch.entries[k])
        BY <1>5 DEF SameEntries, SameData, getEntryKey
    <2> QED BY <2>1 DEF Cheapest
<1>6. ASSUME Added(ch, a.cache, e)
      PROVE  Cheapest(ch.entries, a.cache.entries)
    <2>1. Len(a.cache.entries) = Len(ch.entries) + 1 /\ Len(ch.entries) \in Nat
        BY <1>4, <1>6 DEF Added
    <2>2. Len(a.cache.entries) # Len(ch.entries)
        BY <2>1
    <2> QED BY <2>2 DEF Cheapest
<1>7. ASSUME NEW slot \in DOMAIN ch.entries, Replaced(ch, a.cache, e, slot)
      PROVE  Cheapest(ch.entries, a.cache.entries)
    <2>1. \A k \in DOMAIN ch.entries \ {slot} :
             getEntryKey(a.cache.entries[k]) = getEntryKey(ch.entries[k])
        BY <1>7 DEF Replaced, SameData, getEntryKey
    <2>2. \A k \in DOMAIN ch.entries : Cost(ch.entries[slot]) <= Cost(ch.entries[k])
        BY <1>7 DEF Replaced
    <2> QED BY <2>1, <2>2 DEF Cheapest
<1>8. Cheapest(ch.entries, a.cache.entries)
    BY <1>3, <1>5, <1>6, <1>7
<1> QED BY <1>1, <1>8 DEF a, ch, n, p, t

LEMMA CheapestStep ==
    ASSUME TypeInv, [Next]_vars, NEW d \in Cpus
    PROVE  Cheapest(cache[d].entries, cache'[d].entries)
<1> DEFINE Goal == Cheapest(cache[d].entries, cache'[d].entries)
<1>0. cache = [c \in Cpus |-> cache[c]] /\ CacheShape(cache[d], setting.cacheEntries)
    BY DEF TypeInv, Shape
<1>1. ASSUME cache'[d] = cache[d] PROVE Goal
    BY <1>1 DEF Cheapest
<1>2. ASSUME NEW c \in Cpus, NEW x, cache' = [cache EXCEPT ![c] = x],
             c = d => Cheapest(cache[d].entries, x.entries)
      PROVE  Goal
    <2>1. CASE c = d
        <3>1. cache'[d] = x
            BY <1>0, <1>2, <2>1
        <3> QED BY <1>2, <2>1, <3>1
    <2>2. CASE c # d
        <3>1. cache'[d] = cache[d]
            BY <1>0, <1>2, <2>2
        <3> QED BY <1>1, <3>1
    <2> QED BY <2>1, <2>2
<1>3. ASSUME NEW c \in Cpus, NEW i \in Pages, Read(c, i) PROVE Goal
    <2> DEFINE t == Translate(c, running[c], i)
               a == Access(c, running[c], i, t.frame)
    <2>1. /\ running[c] # None /\ t.frame # -1
          /\ cache' = [cache EXCEPT ![c] = IF IsEnabled THEN a.cache ELSE @]
        BY <1>3 DEF Read
    <2>2. CASE IsEnabled
        <3>1. Cheapest(cache[c].entries, a.cache.entries)
            BY <2>1, <2>2, AccessIsCheapest
        <3>2. cache' = [cache EXCEPT ![c] = a.cache]
            BY <2>1, <2>2
        <3> HIDE DEF Goal, a
        <3> QED BY <1>2, <3>1, <3>2
    <2>3. CASE ~IsEnabled
        <3>1. cache' = [cache EXCEPT ![c] = cache[c]]
            BY <2>1, <2>3
        <3>2. cache'[d] = cache[d]
            BY <1>0, <3>1
        <3> QED BY <1>1, <3>2
    <2> QED BY <2>2, <2>3
<1>4. ASSUME NEW c \in Cpus, NEW i \in Pages, NEW v \in Values, Write(c, i, v) PROVE Goal
    <2> DEFINE t == Translate(c, running[c], i)
               a == Access(c, running[c], i, t.frame)
               content == <<running[c], i, v>>
               x == Modified(a.cache, running[c], i, content)
    <2>1. /\ running[c] # None /\ t.frame # -1
          /\ IsEnabled => cache' = [cache EXCEPT ![c] = x]
          /\ ~IsEnabled => cache' = cache
        BY <1>4 DEF Write
    <2>2. CASE IsEnabled
        <3>1. /\ CacheShape(a.cache, setting.cacheEntries)
              /\ Cheapest(cache[c].entries, a.cache.entries)
            BY <2>1, <2>2, AccessIsCheapest
        <3>2. content \in Data /\ setting.cacheEntries \in Nat
            BY <2>1, <2>2, UseTypes DEF Data
        <3> HIDE DEF a, content
        <3> DEFINE k0 == IF <<running[c], i>> \in DOMAIN a.cache.map
                         THEN a.cache.map[<<running[c], i>>] ELSE 1
        <3>3. /\ CacheShape(x, setting.cacheEntries)
              /\ Len(x.entries) = Len(a.cache.entries)
              /\ \A j \in DOMAIN a.cache.entries :
                    /\ x.entries[j].pid = a.cache.entries[j].pid
                    /\ x.entries[j].page = a.cache.entries[j].page
            <4>1. /\ CacheShape(x, setting.cacheEntries)
                  /\ Len(x.entries) = Len(a.cache.entries) /\ x.map = a.cache.map
                  /\ \A j \in DOMAIN a.cache.entries :
                        /\ x.entries[j].pid = a.cache.entries[j].pid
                        /\ x.entries[j].page = a.cache.entries[j].page
                        /\ x.entries[j].frame = a.cache.entries[j].frame
                        /\ x.entries[j].content =
                              IF j = k0 THEN content ELSE a.cache.entries[j].content
                        /\ x.entries[j].mod = (j = k0 \/ a.cache.entries[j].mod)
                BY <3>1, <3>2, ModifiedIs, SMTT(30)
            <4> HIDE DEF x, k0
            <4> QED BY <4>1
        <3>4. Cheapest(cache[c].entries, x.entries)
            <4>1. /\ cache[c].entries \in Seq(Entries)
                  /\ a.cache.entries \in Seq(Entries)
                BY <3>1 DEF CacheShape, TypeInv, Shape
            <4> HIDE DEF x
            <4>2. SUFFICES ASSUME Len(x.entries) = Len(cache[c].entries),
                                  NEW k \in DOMAIN cache[c].entries,
                                  getEntryKey(x.entries[k]) # getEntryKey(cache[c].entries[k])
                           PROVE  \A j \in DOMAIN cache[c].entries :
                                     Cost(cache[c].entries[k]) <= Cost(cache[c].entries[j])
                BY DEF Cheapest
            <4>3. k \in DOMAIN a.cache.entries
                <5>1. /\ DOMAIN a.cache.entries = 1..Len(a.cache.entries)
                      /\ DOMAIN cache[c].entries = 1..Len(cache[c].entries)
                    BY <4>1
                <5>2. Len(a.cache.entries) = Len(cache[c].entries)
                    BY <3>3, <4>2
                <5> QED BY <4>2, <5>1, <5>2
            <4>4. getEntryKey(x.entries[k]) = getEntryKey(a.cache.entries[k])
                BY <3>3, <4>3 DEF getEntryKey
            <4> QED BY <3>1, <3>3, <4>2, <4>4 DEF Cheapest
        <3> HIDE DEF Goal, x
        <3> QED BY <1>2, <2>1, <2>2, <3>4
    <2>3. CASE ~IsEnabled
        BY <1>1, <2>1, <2>3
    <2> QED BY <2>2, <2>3
<1>5. ASSUME NEW c \in Cpus, NEW p, Clean(c, p) PROVE Goal
    <2> DEFINE w == Without(cache[c].entries, p)
    <2>1. /\ cache' = [cache EXCEPT ![c] = IF IsEnabled THEN RemoveProcess(@, p) ELSE @]
        BY <1>5 DEF Clean
    <2>2. CASE IsEnabled
        <3>1. cache' = [cache EXCEPT ![c] = RemoveProcess(cache[c], p)]
            BY <2>1, <2>2
        <3>2. RemoveProcess(cache[c], p).entries = w
            BY DEF RemoveProcess
        <3>3. Cheapest(cache[c].entries, w)
            <4>1. cache[c].entries \in Seq(Entries)
                BY DEF CacheShape, TypeInv, Shape
            <4>2. /\ w \in Seq(Entries)
                  /\ Len(w) = Len(cache[c].entries) =>
                        \A k \in DOMAIN w : w[k] = cache[c].entries[k]
                BY <4>1, WithoutIs
            <4>3. Len(w) = Len(cache[c].entries) => DOMAIN w = DOMAIN cache[c].entries
                BY <4>1, <4>2
            <4> HIDE DEF w
            <4> QED BY <4>2, <4>3 DEF Cheapest
        <3> HIDE DEF Goal, w
        <3> QED BY <1>2, <3>1, <3>2, <3>3
    <2>3. CASE ~IsEnabled
        <3>1. cache' = [cache EXCEPT ![c] = cache[c]]
            BY <2>1, <2>3
        <3>2. cache'[d] = cache[d]
            BY <1>0, <3>1
        <3> QED BY <1>1, <3>2
    <2> QED BY <2>2, <2>3
<1> HIDE DEF Goal
<1>6. ASSUME NEW c \in Cpus, Execute(c) PROVE Goal
    <2>1. ASSUME Preempt(c) \/ LastInstruction(c) PROVE Goal
        BY <1>1, <2>1 DEF Preempt, LastInstruction
    <2>2. ASSUME Syscall(c) \/ Exit(c) PROVE Goal
        BY <1>5, <2>2 DEF Syscall, Exit
    <2> QED BY <1>3, <1>4, <1>6, <2>1, <2>2 DEF Execute
<1>7. ASSUME NEW p \in Procs, Schedule(p) PROVE Goal
    <2>1. cache' = cache
        BY <1>7 DEF Schedule, Admit, Unblock, Suspend, AskPut, SwapIn, Resume,
                    Withdraw, Dispatch
    <2> QED BY <1>1, <2>1
<1>8. CASE SwapOut \/ SwapFails \/ UNCHANGED vars
    <2>1. cache'[d] = cache[d]
        BY <1>8 DEF SwapOut, SwapFails, vars
    <2> QED BY <1>1, <2>1 DEF Goal
<1> QED BY <1>6, <1>7, <1>8 DEF Next, Goal

(* No page is replaced while another costs less: for CLOCK one that is not *)
(* in use, and for CLOCK-M one that comes before in the order (0,0), (0,1),*)
(* (1,0), (1,1) (cache_service.go:156-300).                                *)
THEOREM TheVictimIsCheapest == Spec => VictimIsCheapest
<1>1. Spec => [](TypeInv /\ MovingTyped)
    BY InitTypes, NextTypes, PTL DEF Spec
<1> DEFINE Step == \A c \in Cpus :
         LET old == cache[c].entries
             new == cache'[c].entries
         IN  Len(new) = Len(old) => \A k \in DOMAIN old :
               getEntryKey(new[k]) # getEntryKey(old[k]) =>
                  \A j \in DOMAIN old : Cost(old[k]) <= Cost(old[j])
<1>2. TypeInv /\ [Next]_vars => [Step]_vars
    BY CheapestStep DEF Cheapest
<1>3. VictimIsCheapest <=> [][Step]_vars
    BY DEF VictimIsCheapest
<1> HIDE DEF Step
<1> QED BY <1>1, <1>2, <1>3, PTL DEF Spec
-----------------------------------------------------------------------------
(* Where the invariants hold: a CPU that preempts is the only one, a CPU   *)
(* with a cache cleans it when a process ends, no process returns to READY *)
(* from a wait after its timer has suspended it (process_service.go:14-18),*)
(* and no page named by a script has the path of another.                  *)
Circumstances ==
    /\ \A s \in Settings :
          /\ s.preempts => \A c, d \in s.cpus : c = d
          /\ s.noExit # {} => s.cacheEntries = 0
          /\ ~s.lateReturns
    /\ \A p \in Procs : \A i, j \in Own(p) \union Pages :
          getPageIndices(i) = getPageIndices(j) => i = j

(* A CPU may keep pages and translations of a process that it runs, or ran *)
(* until it was preempted.                                                 *)
MayKeep(c, p) ==
    \/ running[c] = p
    \/ c \in setting.cpus /\ setting.preempts /\ estado[p] = "READY"
OneEach ==
    /\ \A c \in Cpus : running[c] # None =>
          c \in setting.cpus /\ estado[running[c]] = "EXEC"
    /\ \A c, d \in Cpus : running[c] = running[d] /\ running[c] # None => c = d
Disjoint ==
    \A p, q \in Procs : \A k \in DOMAIN frames[p], j \in DOMAIN frames[q] :
        frames[p][k] = frames[q][j] => p = q /\ k = j
Resident(p) == frames[p] # <<>>
(* What a process has in frames and in swap, by its state.                 *)
Settled(p) ==
    /\ estado[p] \in {"READY", "EXEC", "BLOCKED"} =>
          frames[p] # <<>> /\ swap[p] = <<>>
    /\ estado[p] = "SUSPENDED" => (frames[p] = <<>> <=> swap[p] # <<>>)
    /\ estado[p] \in {"NEW", "EXIT"} => frames[p] = <<>> /\ swap[p] = <<>>
Mapped(p) ==
    /\ DOMAIN table[p] \subseteq {getPageIndices(i) : i \in Own(p)}
    /\ Resident(p) => \A i \in Own(p) :
          SearchFrame(table[p], i) = frames[p][i + 1]
Current(p, i, f) == i \in Own(p) /\ f = frames[p][i + 1]
EntrySound(c, e) ==
    /\ MayKeep(c, e.pid) /\ Current(e.pid, e.page, e.frame)
    /\ e.content = last[e.pid][e.page]
TranslationSound(c, e) ==
    \/ estado[e.pid] = "EXIT"
    \/ MayKeep(c, e.pid) /\ Current(e.pid, e.page, e.frame)
CacheSound(c) ==
    \A k \in DOMAIN cache[c].entries : EntrySound(c, cache[c].entries[k])
TlbSound(c) ==
    \A k \in DOMAIN tlb[c].entries : TranslationSound(c, tlb[c].entries[k])
(* A page that Memory does not have as it was last written is in a cache,  *)
(* modified.                                                               *)
DirtyIn(s, p, i) ==
    \E k \in DOMAIN s : s[k].pid = p /\ s[k].page = i /\ s[k].mod
Dirty(p, i) == \E c \in Cpus : DirtyIn(cache[c].entries, p, i)
MemSound(p) ==
    /\ Resident(p) => \A i \in Own(p) :
          mem[frames[p][i + 1]] = last[p][i] \/ Dirty(p, i)
    /\ swap[p] # <<>> => \A i \in Own(p) : swap[p][i + 1] = last[p][i]
SoundInv ==
    /\ TypeInv
    /\ last = [p \in Procs |-> [i \in Own(p) |-> last[p][i]]]
    /\ OneEach /\ Disjoint
    /\ \A p \in Procs : Settled(p) /\ Mapped(p) /\ MemSound(p)
    /\ \A c \in Cpus : CacheSound(c) /\ TlbSound(c)
(* What the PMP has asked Memory to move is still suspended in frames.     *)
Pending ==
    moving # None => /\ moving \in Procs /\ estado[moving] = "SUSPENDED"
                     /\ Resident(moving)

(* The page tables find the frames of a process, and no other page.        *)
LEMMA OwnPages ==
    ASSUME NEW p \in Procs
    PROVE  /\ Need[p] \in Nat \ {0} /\ 0 \in Own(p)
           /\ \A i \in Own(p) : i \in Nat /\ i + 1 \in 1..Need[p]
           /\ \A k \in 1..Need[p] : k - 1 \in Own(p)
<1>1. Need[p] \in Nat \ {0}
    BY CpuMemoryAssumption
<1> QED BY <1>1 DEF Own

LEMMA MapPagesFinds ==
    ASSUME Circumstances, NEW p \in Procs, NEW tb, NEW s \in Seq(Frames),
           Len(s) = Need[p],
           DOMAIN tb \subseteq {getPageIndices(i) : i \in Own(p)}
    PROVE  /\ DOMAIN MapPages(tb, s) \subseteq {getPageIndices(i) : i \in Own(p)}
           /\ \A i \in Own(p) : SearchFrame(MapPages(tb, s), i) = s[i + 1]
<1> DEFINE paths == {getPageIndices(k - 1) : k \in DOMAIN s}
           at(path) == {k \in DOMAIN s : getPageIndices(k - 1) = path}
           new == MapPages(tb, s)
<1>0. /\ Need[p] \in Nat \ {0} /\ DOMAIN s = 1..Need[p]
      /\ \A i \in Own(p) : i \in Nat /\ i + 1 \in 1..Need[p]
      /\ \A k \in 1..Need[p] : k - 1 \in Own(p)
    BY OwnPages
<1>1. new = [path \in DOMAIN tb \union paths |->
                IF path \in paths
                THEN [frame |-> s[Max(at(path))], presence |-> TRUE] ELSE tb[path]]
    BY DEF MapPages
<1>2. paths \subseteq {getPageIndices(i) : i \in Own(p)}
    BY <1>0
<1>3. ASSUME NEW i \in Own(p)
      PROVE  getPageIndices(i) \in paths /\ Max(at(getPageIndices(i))) = i + 1
    <2>1. i + 1 \in DOMAIN s /\ (i + 1) - 1 = i
        BY <1>0
    <2>2. getPageIndices(i) \in paths
        BY <2>1
    <2>3. \A k \in DOMAIN s : getPageIndices(k - 1) = getPageIndices(i) => k = i + 1
        <3> SUFFICES ASSUME NEW k \in DOMAIN s, getPageIndices(k - 1) = getPageIndices(i)
                     PROVE  k = i + 1
            OBVIOUS
        <3>1. k - 1 \in Own(p)
            BY <1>0
        <3>2. k - 1 = i
            BY <3>1 DEF Circumstances
        <3> QED BY <1>0, <3>2
    <2>4. at(getPageIndices(i)) = {i + 1}
        BY <2>1, <2>3
    <2> HIDE DEF at, paths
    <2>5. /\ at(getPageIndices(i)) \in SUBSET (1..Need[p])
          /\ at(getPageIndices(i)) # {} /\ Need[p] \in Nat
        BY <1>0, <2>1, <2>4
    <2>6. Max(at(getPageIndices(i))) \in at(getPageIndices(i))
        BY <2>5, GreatestIs
    <2> QED BY <2>2, <2>4, <2>6
<1> HIDE DEF paths, at, new
<1>4. \A i \in Own(p) : /\ getPageIndices(i) \in DOMAIN new
                        /\ new[getPageIndices(i)] = [frame |-> s[i + 1], presence |-> TRUE]
    BY <1>1, <1>3
<1>5. \A i \in Own(p) : SearchFrame(new, i) = s[i + 1]
    <2> SUFFICES ASSUME NEW i \in Own(p) PROVE SearchFrame(new, i) = s[i + 1]
        OBVIOUS
    <2> DEFINE path == getPageIndices(i)
    <2>1. /\ path \in DOMAIN new
          /\ new[path] = [frame |-> s[i + 1], presence |-> TRUE]
        BY <1>4
    <2>2. SearchFrame(new, i) =
             IF path \in DOMAIN new /\ new[path].presence THEN new[path].frame ELSE -1
        BY DEF SearchFrame
    <2> HIDE DEF path
    <2>3. new[path].presence = TRUE /\ new[path].frame = s[i + 1]
        BY <2>1
    <2> QED BY <2>1, <2>2, <2>3
<1>6. DOMAIN new \subseteq {getPageIndices(i) : i \in Own(p)}
    BY <1>1, <1>2
<1> QED BY <1>5, <1>6 DEF new

LEMMA Searched ==
    ASSUME SoundInv, Circumstances, NEW p \in Procs, Resident(p),
           NEW i \in Own(p) \union Pages
    PROVE  SearchFrame(table[p], i) = IF i \in Own(p) THEN frames[p][i + 1] ELSE -1
<1>1. Mapped(p)
    BY DEF SoundInv
<1>2. CASE i \in Own(p)
    BY <1>1, <1>2 DEF Mapped
<1>3. CASE i \notin Own(p)
    <2>1. getPageIndices(i) \notin DOMAIN table[p]
        <3> SUFFICES ASSUME getPageIndices(i) \in DOMAIN table[p] PROVE FALSE
            OBVIOUS
        <3>1. PICK j \in Own(p) : getPageIndices(i) = getPageIndices(j)
            BY <1>1 DEF Mapped
        <3>2. i = j
            BY <3>1 DEF Circumstances
        <3> QED BY <1>3, <3>2
    <2> QED BY <1>3, <2>1 DEF SearchFrame
<1> QED BY <1>2, <1>3

(* The frame of a page of a process.                                       *)
LEMMA FrameOf ==
    ASSUME SoundInv, NEW p \in Procs, Resident(p), NEW i \in Own(p)
    PROVE  i + 1 \in DOMAIN frames[p] /\ frames[p][i + 1] \in Frames /\ i \in Nat
<1>1. Place(p)
    BY DEF SoundInv, TypeInv
<1>2. frames[p] \in Seq(Frames) /\ Len(frames[p]) = Need[p]
    BY <1>1 DEF Place, Resident
<1>3. i + 1 \in 1..Need[p] /\ i \in Nat
    BY OwnPages
<1> QED BY <1>2, <1>3

LEMMA SameFrame ==
    ASSUME SoundInv, NEW p \in Procs, Resident(p), NEW i \in Own(p),
           NEW q \in Procs, Resident(q), NEW j \in Own(q),
           frames[p][i + 1] = frames[q][j + 1]
    PROVE  p = q /\ i = j
<1>1. i + 1 \in DOMAIN frames[p] /\ j + 1 \in DOMAIN frames[q] /\ i \in Nat /\ j \in Nat
    BY FrameOf
<1>2. p = q /\ i + 1 = j + 1
    BY <1>1 DEF SoundInv, Disjoint
<1> QED BY <1>1, <1>2

(* Who runs, and what a CPU may keep of a process.                         *)
LEMMA RunningIs ==
    ASSUME SoundInv, NEW c \in Cpus, running[c] # None
    PROVE  /\ running[c] \in Procs /\ estado[running[c]] = "EXEC"
           /\ Resident(running[c]) /\ swap[running[c]] = <<>>
           /\ MayKeep(c, running[c]) /\ c \in setting.cpus
           /\ \A d \in Cpus : MayKeep(d, running[c]) => d = c
<1>1. running[c] \in Procs
    BY DEF SoundInv, TypeInv
<1>2. estado[running[c]] = "EXEC" /\ c \in setting.cpus
    BY DEF SoundInv, OneEach
<1>3. \A d \in Cpus : MayKeep(d, running[c]) => d = c
    BY <1>2 DEF SoundInv, OneEach, MayKeep
<1>4. Resident(running[c]) /\ swap[running[c]] = <<>>
    BY <1>1, <1>2 DEF SoundInv, Settled, Resident
<1> QED BY <1>1, <1>2, <1>3, <1>4 DEF MayKeep

LEMMA KeepersRun ==
    ASSUME SoundInv, NEW c \in Cpus, NEW q \in Procs, MayKeep(c, q)
    PROVE  estado[q] \in {"EXEC", "READY"} /\ Resident(q)
<1>1. q # None
    BY CpuMemoryAssumption
<1>2. estado[q] \in {"EXEC", "READY"}
    BY <1>1 DEF SoundInv, OneEach, MayKeep
<1> QED BY <1>2 DEF SoundInv, Settled, Resident

LEMMA EntryTypes ==
    ASSUME SoundInv, NEW c \in Cpus
    PROVE  /\ \A k \in DOMAIN cache[c].entries : cache[c].entries[k] \in Entries
           /\ \A k \in DOMAIN tlb[c].entries : tlb[c].entries[k] \in TlbEntries
           /\ cache[c].entries \in Seq(Entries) /\ tlb[c].entries \in Seq(TlbEntries)
           /\ KeyedBy(cache[c].map, cache[c].entries)
           /\ CacheShape(cache[c], setting.cacheEntries)
           /\ TlbShape(tlb[c], setting.tlbEntries)
<1>1. /\ cache[c].entries \in Seq(Entries) /\ tlb[c].entries \in Seq(TlbEntries)
      /\ KeyedBy(cache[c].map, cache[c].entries)
      /\ CacheShape(cache[c], setting.cacheEntries)
      /\ TlbShape(tlb[c], setting.tlbEntries)
    BY DEF SoundInv, TypeInv, Shape, CacheShape, TlbShape
<1> QED BY <1>1

(* The translation of a page of the process that runs is its frame, and a  *)
(* page that is not its own has none.                                      *)
LEMMA Translated ==
    ASSUME SoundInv, Circumstances, NEW c \in Cpus, running[c] # None,
           NEW i \in Own(running[c]) \union Pages
    PROVE  LET p == running[c]
               t == Translate(c, p, i)
           IN  /\ i \in Own(p) => t.frame = frames[p][i + 1]
               /\ t.frame # -1 => /\ i \in Own(p)
                                  /\ \A k \in DOMAIN t.tlb.entries :
                                        TranslationSound(c, t.tlb.entries[k])
<1> DEFINE p == running[c]
           t == Translate(c, p, i)
           s == tlb[c].entries
           f == SearchFrame(table[p], i)
           e == [pid |-> p, page |-> i, frame |-> t.frame, lastUsed |-> 0]
<1>1. /\ p \in Procs /\ estado[p] = "EXEC" /\ Resident(p) /\ MayKeep(c, p)
    BY RunningIs
<1>2. i \in Nat
    BY <1>1, OwnPages, CpuMemoryAssumption
<1>3. f = IF i \in Own(p) THEN frames[p][i + 1] ELSE -1
    BY <1>1, Searched
<1>4. f \in Frames \union {-1}
    <2>1. TableOK(table[p])
        BY <1>1 DEF SoundInv, TypeInv, Place
    <2> QED BY <2>1, SearchFrameType
<1>5. \A j \in DOMAIN s : TranslationSound(c, s[j])
    BY DEF SoundInv, TlbSound
<1>6. setting.tlbEntries \in Nat /\ TlbShape(tlb[c], setting.tlbEntries)
    BY SettingType, EntryTypes DEF SoundInv, TypeInv
<1> HIDE DEF p, f
<1>7. /\ t.frame \in Frames \union {-1}
      /\ t.frame # -1 => Covered(t.tlb.entries, Append(s, e))
      /\ t.frame = f \/ \E j \in DOMAIN s : SameTranslation(e, s[j])
      /\ TlbShape(t.tlb, setting.tlbEntries)
    BY <1>1, <1>2, <1>4, <1>6, TranslateIs DEF f
<1> HIDE DEF t, s
<1>8. (\E j \in DOMAIN s : SameTranslation(e, s[j])) =>
         i \in Own(p) /\ t.frame = frames[p][i + 1]
    BY <1>1, <1>5 DEF SameTranslation, TranslationSound, Current
<1>9. /\ i \in Own(p) => t.frame = frames[p][i + 1]
      /\ t.frame # -1 => i \in Own(p)
    BY <1>3, <1>7, <1>8
<1>10. ASSUME t.frame # -1, NEW k \in DOMAIN t.tlb.entries
       PROVE  TranslationSound(c, t.tlb.entries[k])
    <2>1. PICK j \in DOMAIN Append(s, e) :
             SameTranslation(t.tlb.entries[k], Append(s, e)[j])
        BY <1>7, <1>10 DEF Covered
    <2>2. /\ s \in Seq(TlbEntries)
        BY <1>6 DEF TlbShape, s
    <2>3. TranslationSound(c, Append(s, e)[j])
        <3>1. TranslationSound(c, e)
            BY <1>1, <1>9, <1>10 DEF TranslationSound, Current
        <3> HIDE DEF e
        <3>2. Append(s, e)[j] = IF j \in DOMAIN s THEN s[j] ELSE e
            BY <2>1, <2>2
        <3> QED BY <1>5, <3>1, <3>2
    <2> QED BY <2>1, <2>3 DEF TranslationSound, SameTranslation
<1> QED BY <1>9, <1>10 DEF t, p

(* Memory and the pages a CPU has, when it has these and the others have   *)
(* what they have.                                                         *)
DirtyElsewhere(c, p, i) == \E d \in Cpus \ {c} : DirtyIn(cache[d].entries, p, i)
MemoryWith(c, s, m) ==
    \A q \in Procs : Resident(q) => \A j \in Own(q) :
        m[frames[q][j + 1]] = last[q][j] \/ DirtyIn(s, q, j) \/ DirtyElsewhere(c, q, j)

LEMMA MemoryBefore ==
    ASSUME SoundInv, NEW c \in Cpus
    PROVE  MemoryWith(c, cache[c].entries, mem)
<1> SUFFICES ASSUME NEW q \in Procs, Resident(q), NEW j \in Own(q)
             PROVE  \/ mem[frames[q][j + 1]] = last[q][j]
                    \/ DirtyIn(cache[c].entries, q, j) \/ DirtyElsewhere(c, q, j)
    BY DEF MemoryWith
<1>1. mem[frames[q][j + 1]] = last[q][j] \/ Dirty(q, j)
    BY DEF SoundInv, MemSound
<1> QED BY <1>1 DEF Dirty, DirtyElsewhere

(* A page that is not in the cache of the CPU that runs its process is in  *)
(* Memory as it was last written.                                          *)
LEMMA MissedIsInMemory ==
    ASSUME SoundInv, NEW c \in Cpus, running[c] # None, NEW i \in Own(running[c]),
           <<running[c], i>> \notin DOMAIN cache[c].map
    PROVE  mem[frames[running[c]][i + 1]] = last[running[c]][i]
<1> DEFINE p == running[c]
<1>1. /\ p \in Procs /\ Resident(p) /\ \A d \in Cpus : MayKeep(d, p) => d = c
    BY RunningIs
<1>2. ASSUME Dirty(p, i) PROVE FALSE
    <2>0. PICK d \in Cpus : DirtyIn(cache[d].entries, p, i)
        BY <1>2 DEF Dirty
    <2>1. PICK k \in DOMAIN cache[d].entries :
             cache[d].entries[k].pid = p /\ cache[d].entries[k].page = i
        BY <2>0 DEF DirtyIn
    <2>2. MayKeep(d, p)
        BY <2>1 DEF SoundInv, CacheSound, EntrySound
    <2>3. d = c
        BY <1>1, <2>2
    <2>4. <<p, i>> \in DOMAIN cache[c].map
        <3>1. k \in DOMAIN cache[c].entries /\ getEntryKey(cache[c].entries[k]) = <<p, i>>
            BY <2>1, <2>3 DEF getEntryKey
        <3>2. DOMAIN cache[c].map =
                 {getEntryKey(cache[c].entries[x]) : x \in DOMAIN cache[c].entries}
            BY EntryTypes DEF KeyedBy
        <3> QED BY <3>1, <3>2
    <2> QED BY <2>4
<1> QED BY <1>1, <1>2 DEF SoundInv, MemSound

(* Writing back the victim leaves in Memory what was last written.         *)
LEMMA VictimWrittenBack ==
    ASSUME SoundInv, NEW c \in Cpus, NEW slot \in DOMAIN cache[c].entries,
           NEW q \in Procs, Resident(q), NEW j \in Own(q)
    PROVE  LET old == cache[c].entries[slot]
               m == WriteBack(mem, old)
               f == frames[q][j + 1]
           IN  /\ m[f] = mem[f] \/ m[f] = last[q][j]
               /\ old.pid = q /\ old.page = j /\ old.mod => m[f] = last[q][j]
<1> DEFINE old == cache[c].entries[slot]
           m == WriteBack(mem, old)
           f == frames[q][j + 1]
<1>1. /\ old \in Entries /\ mem \in [Frames -> Data]
    BY EntryTypes DEF SoundInv, TypeInv
<1>2. EntrySound(c, old)
    BY DEF SoundInv, CacheSound
<1> HIDE DEF old
<1>3. /\ old.pid \in Procs /\ old.page \in Nat /\ old.frame \in Frames
      /\ MayKeep(c, old.pid) /\ old.page \in Own(old.pid)
      /\ old.frame = frames[old.pid][old.page + 1]
      /\ old.content = last[old.pid][old.page]
    BY <1>1, <1>2 DEF Entries, EntrySound, Current
<1>4. Resident(old.pid)
    BY <1>3, KeepersRun
<1>5. f \in Frames
    BY FrameOf
<1>6. f = old.frame => old.pid = q /\ old.page = j
    BY <1>3, <1>4, SameFrame
<1>7. m = IF old.mod THEN [mem EXCEPT ![old.frame] = old.content] ELSE mem
    BY DEF WriteBack
<1> HIDE DEF m
<1>8. CASE old.mod
    <2>1. m[f] = IF f = old.frame THEN old.content ELSE mem[f]
        BY <1>1, <1>5, <1>7, <1>8
    <2>2. old.pid = q /\ old.page = j => f = old.frame
        BY <1>3 DEF f
    <2> HIDE DEF f
    <2> QED BY <1>3, <1>6, <2>1, <2>2 DEF f, m, old
<1>9. CASE ~old.mod
    BY <1>7, <1>9 DEF m, old
<1> QED BY <1>8, <1>9

(* The lookup of a page, whatever it replaces.                             *)
LEMMA AccessSound ==
    ASSUME SoundInv, IsEnabled, NEW c \in Cpus, running[c] # None,
           NEW i \in Own(running[c])
    PROVE  LET p == running[c]
               a == Access(c, p, i, frames[p][i + 1])
           IN  /\ CacheShape(a.cache, setting.cacheEntries)
               /\ a.mem \in [Frames -> Data]
               /\ \A k \in DOMAIN a.cache.entries : EntrySound(c, a.cache.entries[k])
               /\ \E k \in DOMAIN a.cache.entries :
                     getEntryKey(a.cache.entries[k]) = <<p, i>>
               /\ MemoryWith(c, a.cache.entries, a.mem)
<1> DEFINE p == running[c]
           f == frames[p][i + 1]
           a == Access(c, p, i, f)
           e == PageEntry(p, i, f)
           s == cache[c].entries
           t == a.cache.entries
<1>1. /\ p \in Procs /\ Resident(p) /\ MayKeep(c, p)
    BY RunningIs
<1>2. i \in Nat /\ f \in Frames
    BY <1>1, FrameOf
<1>3. /\ setting.cacheEntries \in Nat \ {0}
      /\ CacheShape(cache[c], setting.cacheEntries) /\ mem \in [Frames -> Data]
    BY SettingType, EntryTypes DEF SoundInv, TypeInv, IsEnabled
<1>4. \A k \in DOMAIN s : EntrySound(c, s[k])
    BY DEF SoundInv, CacheSound
<1>5. MemoryWith(c, s, mem)
    BY MemoryBefore
<1>6. <<p, i>> \notin DOMAIN cache[c].map => EntrySound(c, e)
    <2> SUFFICES ASSUME <<p, i>> \notin DOMAIN cache[c].map PROVE EntrySound(c, e)
        OBVIOUS
    <2>1. mem[f] = last[p][i]
        BY MissedIsInMemory
    <2>2. e.pid = p /\ e.page = i /\ e.frame = f /\ e.content = mem[f]
        BY DEF PageEntry
    <2> HIDE DEF e
    <2> QED BY <1>1, <2>1, <2>2 DEF EntrySound, Current
<1>7. getEntryKey(e) = <<p, i>>
    BY DEF getEntryKey, PageEntry
<1> HIDE DEF p, f
<1>8. /\ CacheShape(a.cache, setting.cacheEntries) /\ a.mem \in [Frames -> Data]
      /\ \/ /\ <<p, i>> \in DOMAIN cache[c].map /\ a.mem = mem
            /\ SameEntries(t, s)
         \/ /\ <<p, i>> \notin DOMAIN cache[c].map /\ a.mem = mem
            /\ Added(cache[c], a.cache, e)
         \/ /\ <<p, i>> \notin DOMAIN cache[c].map
            /\ \E slot \in DOMAIN s :
                  /\ Replaced(cache[c], a.cache, e, slot)
                  /\ a.mem = WriteBack(mem, s[slot])
    BY <1>1, <1>2, <1>3, AccessIs
<1>9. /\ s \in Seq(Entries) /\ DOMAIN s = 1..Len(s) /\ Len(s) \in Nat
      /\ t \in Seq(Entries) /\ DOMAIN t = 1..Len(t) /\ Len(t) \in Nat
      /\ KeyedBy(cache[c].map, s)
    BY <1>3, <1>8 DEF CacheShape
<1> DEFINE Goal == /\ \A k \in DOMAIN t : EntrySound(c, t[k])
                   /\ \E k \in DOMAIN t : getEntryKey(t[k]) = <<p, i>>
                   /\ MemoryWith(c, t, a.mem)
<1> HIDE DEF a, e
<1>10. ASSUME <<p, i>> \in DOMAIN cache[c].map, a.mem = mem, SameEntries(t, s)
       PROVE  Goal
    <2>1. DOMAIN t = DOMAIN s /\ \A k \in DOMAIN s : SameData(t[k], s[k])
        BY <1>9, <1>10 DEF SameEntries
    <2>2. \A k \in DOMAIN t : EntrySound(c, t[k])
        BY <1>4, <2>1 DEF EntrySound, SameData
    <2>3. \E k \in DOMAIN t : getEntryKey(t[k]) = <<p, i>>
        <3>1. PICK k \in DOMAIN s : getEntryKey(s[k]) = <<p, i>>
            BY <1>9, <1>10 DEF KeyedBy
        <3> QED BY <2>1, <3>1 DEF SameData, getEntryKey
    <2>4. \A q, j : DirtyIn(s, q, j) => DirtyIn(t, q, j)
        BY <2>1 DEF DirtyIn, SameData
    <2>5. MemoryWith(c, t, a.mem)
        <3> HIDE DEF s, t
        <3> QED BY <1>5, <1>10, <2>4 DEF MemoryWith
    <2> QED BY <2>2, <2>3, <2>5
<1>11. ASSUME <<p, i>> \notin DOMAIN cache[c].map, a.mem = mem,
              Added(cache[c], a.cache, e)
       PROVE  Goal
    <2>1. t = Append(s, e)
        BY <1>11 DEF Added
    <2>2. /\ DOMAIN t = 1..(Len(s) + 1) /\ t[Len(s) + 1] = e
          /\ \A k \in DOMAIN s : k \in DOMAIN t /\ t[k] = s[k]
        BY <1>9, <2>1
    <2>3. \A k \in DOMAIN t : EntrySound(c, t[k])
        <3> SUFFICES ASSUME NEW k \in DOMAIN t PROVE EntrySound(c, t[k])
            OBVIOUS
        <3>1. k \in DOMAIN s \/ k = Len(s) + 1
            BY <1>9, <2>2
        <3> HIDE DEF s, t
        <3> QED BY <1>4, <1>6, <1>11, <2>2, <3>1
    <2>4. \E k \in DOMAIN t : getEntryKey(t[k]) = <<p, i>>
        <3>1. Len(s) + 1 \in DOMAIN t
            BY <1>9, <2>2
        <3> QED BY <1>7, <2>2, <3>1
    <2>5. \A q, j : DirtyIn(s, q, j) => DirtyIn(t, q, j)
        BY <2>2 DEF DirtyIn
    <2>6. MemoryWith(c, t, a.mem)
        <3> HIDE DEF s, t
        <3> QED BY <1>5, <1>11, <2>5 DEF MemoryWith
    <2> QED BY <2>3, <2>4, <2>6
<1>12. ASSUME <<p, i>> \notin DOMAIN cache[c].map, NEW slot \in DOMAIN s,
              Replaced(cache[c], a.cache, e, slot), a.mem = WriteBack(mem, s[slot])
       PROVE  Goal
    <2>1. ~Refused(s[slot])
        <3>1. s[slot].pid \in Procs /\ MayKeep(c, s[slot].pid)
            BY <1>4, EntryTypes DEF EntrySound, Entries
        <3>2. estado[s[slot].pid] \in {"EXEC", "READY"}
            BY <3>1, KeepersRun
        <3> QED BY <3>2 DEF Refused, Known
    <2>2. /\ DOMAIN t = DOMAIN s /\ t[slot] = e
          /\ \A k \in DOMAIN s \ {slot} : SameData(t[k], s[k])
        BY <1>9, <1>12, <2>1 DEF Replaced
    <2>3. \A k \in DOMAIN t : EntrySound(c, t[k])
        <3> SUFFICES ASSUME NEW k \in DOMAIN t PROVE EntrySound(c, t[k])
            OBVIOUS
        <3> HIDE DEF s, t
        <3>1. CASE k = slot
            BY <1>6, <1>12, <2>2, <3>1
        <3>2. CASE k # slot
            <4>1. SameData(t[k], s[k]) /\ EntrySound(c, s[k])
                BY <1>4, <2>2, <3>2
            <4> QED BY <4>1 DEF SameData, EntrySound
        <3> QED BY <3>1, <3>2
    <2>4. \E k \in DOMAIN t : getEntryKey(t[k]) = <<p, i>>
        BY <1>7, <1>12, <2>2
    <2>5. ASSUME NEW q \in Procs, Resident(q), NEW j \in Own(q)
          PROVE  \/ a.mem[frames[q][j + 1]] = last[q][j]
                 \/ DirtyIn(t, q, j) \/ DirtyElsewhere(c, q, j)
        <3>1. /\ \/ a.mem[frames[q][j + 1]] = mem[frames[q][j + 1]]
                 \/ a.mem[frames[q][j + 1]] = last[q][j]
              /\ s[slot].pid = q /\ s[slot].page = j /\ s[slot].mod =>
                    a.mem[frames[q][j + 1]] = last[q][j]
            BY <1>12, <2>5, VictimWrittenBack
        <3>2. \/ mem[frames[q][j + 1]] = last[q][j]
              \/ DirtyIn(s, q, j) \/ DirtyElsewhere(c, q, j)
            BY <1>5, <2>5 DEF MemoryWith
        <3> HIDE DEF s, t
        <3>3. ASSUME DirtyIn(s, q, j)
              PROVE  a.mem[frames[q][j + 1]] = last[q][j] \/ DirtyIn(t, q, j)
            <4>1. PICK k \in DOMAIN s : s[k].pid = q /\ s[k].page = j /\ s[k].mod
                BY <3>3 DEF DirtyIn
            <4>2. CASE k = slot
                BY <3>1, <4>1, <4>2
            <4>3. CASE k # slot
                BY <2>2, <4>1, <4>3 DEF SameData, DirtyIn
            <4> QED BY <4>2, <4>3
        <3> QED BY <3>1, <3>2, <3>3
    <2>6. MemoryWith(c, t, a.mem)
        BY <2>5 DEF MemoryWith
    <2> QED BY <2>3, <2>4, <2>6
<1>13. Goal
    <2> HIDE DEF Goal, s, t
    <2> QED BY <1>8, <1>10, <1>11, <1>12
<1> QED BY <1>8, <1>13 DEF a, p, f

(* What a use of a page must show.                                         *)
LEMMA UseSound ==
    ASSUME SoundInv, TypeInv', NEW c \in Cpus,
           UNCHANGED <<setting, estado, running, frames, table, swap>>,
           \A d \in Cpus \ {c} : cache'[d] = cache[d] /\ tlb'[d] = tlb[d],
           last' = [p \in Procs |-> [i \in Own(p) |-> last'[p][i]]],
           \A q \in Procs \ {running[c]} : last'[q] = last[q],
           CacheSound(c)', TlbSound(c)', running[c] # None,
           \A q \in Procs : Resident(q) => \A j \in Own(q) :
              mem'[frames[q][j + 1]] = last'[q][j] \/ Dirty(q, j)'
    PROVE  SoundInv'
<1>1. OneEach' /\ Disjoint'
    BY DEF SoundInv, OneEach, Disjoint
<1>2. ASSUME NEW q \in Procs PROVE Settled(q)' /\ Mapped(q)' /\ MemSound(q)'
    <2>1. Settled(q) /\ Mapped(q) /\ MemSound(q)
        BY DEF SoundInv
    <2>2. Settled(q)' /\ Mapped(q)'
        BY <2>1 DEF Settled, Mapped, Resident, SearchFrame
    <2>3. swap[q] # <<>> => last'[q] = last[q]
        BY RunningIs
    <2>4. MemSound(q)'
        BY <2>1, <2>3 DEF MemSound, Resident
    <2> QED BY <2>2, <2>4
<1>3. ASSUME NEW d \in Cpus PROVE CacheSound(d)' /\ TlbSound(d)'
    <2>1. CASE d = c
        BY <2>1
    <2>2. CASE d # c
        <3>1. cache'[d] = cache[d] /\ tlb'[d] = tlb[d]
            BY <2>2
        <3>2. CacheSound(d) /\ TlbSound(d)
            BY DEF SoundInv
        <3>3. ASSUME NEW k \in DOMAIN cache[d].entries
              PROVE  EntrySound(d, cache[d].entries[k])'
            <4> DEFINE e == cache[d].entries[k]
            <4>1. EntrySound(d, e) /\ e \in Entries
                BY <3>2, <3>3, EntryTypes DEF CacheSound
            <4>2. e.pid \in Procs /\ e' = e
                BY <3>1, <4>1 DEF Entries
            <4> HIDE DEF e
            <4>3. MayKeep(d, e.pid)
                BY <4>1 DEF EntrySound
            <4>4. e.pid # running[c]
                BY <2>2, <4>3, RunningIs
            <4>5. last'[e.pid] = last[e.pid]
                BY <4>2, <4>4
            <4>6. EntrySound(d, e)'
                BY <4>1, <4>2, <4>5 DEF EntrySound, MayKeep, Current
            <4> QED BY <4>6 DEF e
        <3>4. CacheSound(d)'
            BY <3>1, <3>3 DEF CacheSound
        <3>5. TlbSound(d)'
            BY <3>1, <3>2 DEF TlbSound, TranslationSound, MayKeep, Current
        <3> QED BY <3>4, <3>5
    <2> QED BY <2>1, <2>2
<1> QED BY <1>1, <1>2, <1>3 DEF SoundInv

LEMMA ReadSound ==
    ASSUME SoundInv, TypeInv', Circumstances, NEW c \in Cpus, NEW i \in Pages, Read(c, i)
    PROVE  SoundInv'
<1> DEFINE p == running[c]
           t == Translate(c, p, i)
           a == Access(c, p, i, t.frame)
<1>1. /\ running[c] # None /\ t.frame # -1
      /\ tlb' = [tlb EXCEPT ![c] = t.tlb]
      /\ cache' = [cache EXCEPT ![c] = IF IsEnabled THEN a.cache ELSE @]
      /\ mem' = IF IsEnabled THEN a.mem ELSE mem
      /\ UNCHANGED <<setting, estado, running, frames, table, swap, last>>
    BY DEF Read
<1>2. /\ i \in Own(p) /\ t.frame = frames[p][i + 1]
      /\ \A k \in DOMAIN t.tlb.entries : TranslationSound(c, t.tlb.entries[k])
    BY <1>1, Translated
<1>3. IsEnabled => /\ \A k \in DOMAIN a.cache.entries :
                        EntrySound(c, a.cache.entries[k])
                   /\ MemoryWith(c, a.cache.entries, a.mem)
    BY <1>1, <1>2, AccessSound
<1> HIDE DEF p, t, a
<1>4. cache = [d \in Cpus |-> cache[d]] /\ tlb = [d \in Cpus |-> tlb[d]]
    BY DEF SoundInv, TypeInv
<1>5. /\ \A d \in Cpus \ {c} : cache'[d] = cache[d] /\ tlb'[d] = tlb[d]
      /\ cache'[c] = IF IsEnabled THEN a.cache ELSE cache[c]
      /\ tlb'[c] = t.tlb
    BY <1>1, <1>4
<1>6. TlbSound(c)'
    BY <1>1, <1>2, <1>5 DEF TlbSound, TranslationSound, MayKeep, Current
<1>7. /\ \A k \in DOMAIN cache'[c].entries : EntrySound(c, cache'[c].entries[k])
      /\ MemoryWith(c, cache'[c].entries, mem')
    <2>1. CASE IsEnabled
        BY <1>1, <1>3, <1>5, <2>1
    <2>2. CASE ~IsEnabled
        BY <1>1, <1>5, <2>2, MemoryBefore DEF SoundInv, CacheSound
    <2> QED BY <2>1, <2>2
<1>8. CacheSound(c)'
    BY <1>1, <1>7 DEF CacheSound, EntrySound, MayKeep, Current
<1>9. ASSUME NEW q \in Procs, Resident(q), NEW j \in Own(q)
      PROVE  mem'[frames[q][j + 1]] = last'[q][j] \/ Dirty(q, j)'
    <2>1. \/ mem'[frames[q][j + 1]] = last[q][j]
          \/ DirtyIn(cache'[c].entries, q, j) \/ DirtyElsewhere(c, q, j)
        BY <1>7, <1>9 DEF MemoryWith
    <2>2. DirtyIn(cache'[c].entries, q, j) \/ DirtyElsewhere(c, q, j) => Dirty(q, j)'
        BY <1>5 DEF Dirty, DirtyElsewhere, DirtyIn
    <2> QED BY <1>1, <2>1, <2>2
<1>10. last' = [q \in Procs |-> [j \in Own(q) |-> last'[q][j]]]
    BY <1>1 DEF SoundInv
<1> QED BY <1>1, <1>5, <1>6, <1>8, <1>9, <1>10, UseSound

LEMMA WriteSound ==
    ASSUME SoundInv, TypeInv', Circumstances, NEW c \in Cpus, NEW i \in Pages,
           NEW v \in Values, Write(c, i, v)
    PROVE  SoundInv'
<1> DEFINE p == running[c]
           t == Translate(c, p, i)
           a == Access(c, p, i, t.frame)
           content == <<p, i, v>>
           x == Modified(a.cache, p, i, content)
<1>1. /\ running[c] # None /\ t.frame # -1
      /\ tlb' = [tlb EXCEPT ![c] = t.tlb]
      /\ IF IsEnabled
         THEN cache' = [cache EXCEPT ![c] = x] /\ mem' = a.mem
         ELSE mem' = [mem EXCEPT ![t.frame] = content] /\ UNCHANGED cache
      /\ last' = [last EXCEPT ![p] =
                    [j \in Own(p) |-> IF j = i THEN content ELSE @[j]]]
      /\ UNCHANGED <<setting, estado, running, frames, table, swap>>
    BY DEF Write
<1>2. /\ i \in Own(p) /\ t.frame = frames[p][i + 1]
      /\ \A k \in DOMAIN t.tlb.entries : TranslationSound(c, t.tlb.entries[k])
    BY <1>1, Translated
<1>3. p \in Procs /\ Resident(p) /\ \A d \in Cpus : MayKeep(d, p) => d = c
    BY <1>1, RunningIs
<1>4. i \in Nat /\ t.frame \in Frames
    BY <1>2, <1>3, FrameOf
<1>5. content \in Data
    BY <1>3, <1>4 DEF Data
<1>6. IsEnabled => /\ CacheShape(a.cache, setting.cacheEntries)
                   /\ a.mem \in [Frames -> Data]
                   /\ \A k \in DOMAIN a.cache.entries :
                        EntrySound(c, a.cache.entries[k])
                   /\ \E k \in DOMAIN a.cache.entries :
                        getEntryKey(a.cache.entries[k]) = <<p, i>>
                   /\ MemoryWith(c, a.cache.entries, a.mem)
    BY <1>1, <1>2, AccessSound
<1> HIDE DEF t, a, content
<1>7. /\ cache = [d \in Cpus |-> cache[d]] /\ tlb = [d \in Cpus |-> tlb[d]]
      /\ last = [q \in Procs |-> [j \in Own(q) |-> last[q][j]]]
      /\ mem \in [Frames -> Data] /\ setting.cacheEntries \in Nat
    BY SettingType DEF SoundInv, TypeInv
<1>8. /\ last'[p] = [j \in Own(p) |-> IF j = i THEN content ELSE last[p][j]]
      /\ \A q \in Procs \ {p} : last'[q] = last[q]
      /\ last' = [q \in Procs |-> [j \in Own(q) |-> last'[q][j]]]
    <2>1. last' = [last EXCEPT ![p] =
                     [j \in Own(p) |-> IF j = i THEN content ELSE last[p][j]]]
        BY <1>1, <1>3, <1>7
    <2> DEFINE lp == [j \in Own(p) |-> IF j = i THEN content ELSE last[p][j]]
    <2>2. lp = [j \in Own(p) |-> lp[j]]
        OBVIOUS
    <2> HIDE DEF lp, p
    <2>3. last' = [q \in Procs |-> IF q = p THEN lp ELSE last[q]]
        BY <1>3, <1>7, <2>1 DEF lp
    <2>4. ASSUME NEW q \in Procs PROVE last'[q] = [j \in Own(q) |-> last'[q][j]]
        <3>1. CASE q = p
            BY <2>2, <2>3, <3>1
        <3>2. CASE q # p
            <4>1. last'[q] = last[q]
                BY <2>3, <3>2
            <4> QED BY <1>7, <4>1
        <3> QED BY <3>1, <3>2
    <2> QED BY <1>3, <2>3, <2>4 DEF lp
<1>9. /\ \A d \in Cpus \ {c} : cache'[d] = cache[d] /\ tlb'[d] = tlb[d]
      /\ tlb'[c] = t.tlb
      /\ IsEnabled => cache'[c] = x
    <2> HIDE DEF x
    <2> QED BY <1>1, <1>7
<1>10. TlbSound(c)'
    BY <1>1, <1>2, <1>9 DEF TlbSound, TranslationSound, MayKeep, Current
<1> DEFINE Goal == /\ CacheSound(c)'
                   /\ \A q \in Procs : Resident(q) => \A j \in Own(q) :
                         mem'[frames[q][j + 1]] = last'[q][j] \/ Dirty(q, j)'
<1>11. ASSUME IsEnabled PROVE Goal
    <2> DEFINE r == a.cache.entries
               w == x.entries
               k0 == IF <<p, i>> \in DOMAIN a.cache.map
                     THEN a.cache.map[<<p, i>>] ELSE 1
    <2>1. /\ KeyedBy(a.cache.map, r) /\ r \in Seq(Entries)
          /\ \A k \in DOMAIN r : EntrySound(c, r[k])
          /\ \E k \in DOMAIN r : getEntryKey(r[k]) = <<p, i>>
          /\ MemoryWith(c, r, a.mem)
        BY <1>6, <1>11 DEF CacheShape
    <2>2. /\ CacheShape(x, setting.cacheEntries) /\ Len(w) = Len(r)
          /\ \A j \in DOMAIN r :
                /\ w[j].pid = r[j].pid /\ w[j].page = r[j].page
                /\ w[j].frame = r[j].frame
                /\ w[j].content = IF j = k0 THEN content ELSE r[j].content
                /\ w[j].mod = (j = k0 \/ r[j].mod)
        BY <1>5, <1>6, <1>7, <1>11, ModifiedIs, SMTT(40)
    <2>3. DOMAIN w = DOMAIN r
        <3>1. w \in Seq(Entries)
            BY <2>2 DEF CacheShape
        <3> HIDE DEF x, r
        <3> QED BY <2>1, <2>2, <3>1
    <2>4. /\ k0 \in DOMAIN r /\ r[k0].pid = p /\ r[k0].page = i
          /\ \A k \in DOMAIN r : r[k].pid = p /\ r[k].page = i => k = k0
        <3> HIDE DEF r, p
        <3>1. PICK k \in DOMAIN r : getEntryKey(r[k]) = <<p, i>>
            BY <2>1
        <3>2. <<p, i>> \in DOMAIN a.cache.map /\ a.cache.map[<<p, i>>] = k
            BY <2>1, <3>1 DEF KeyedBy
        <3>3. k0 = k
            BY <3>2
        <3>4. \A l \in DOMAIN r : r[l].pid = p /\ r[l].page = i => a.cache.map[<<p, i>>] = l
            BY <2>1 DEF KeyedBy, getEntryKey
        <3>5. r[k].pid = p /\ r[k].page = i
            BY <3>1 DEF getEntryKey
        <3> HIDE DEF k0
        <3> QED BY <3>2, <3>3, <3>4, <3>5
    <2>5. cache'[c].entries = w /\ mem' = a.mem
        BY <1>1, <1>9, <1>11
    <2> HIDE DEF k0, x, w, r
    <2>6. ASSUME NEW k \in DOMAIN w
          PROVE  /\ MayKeep(c, w[k].pid) /\ Current(w[k].pid, w[k].page, w[k].frame)
                 /\ w[k].content = last'[w[k].pid][w[k].page]
        <3> DEFINE e == r[k]
                   u == w[k]
        <3>1. /\ EntrySound(c, e) /\ e.pid \in Procs
              /\ u.pid = e.pid /\ u.page = e.page /\ u.frame = e.frame
              /\ u.content = IF k = k0 THEN content ELSE e.content
            <4>1. r[k] \in Entries
                BY <2>1, <2>3, <2>6
            <4> QED BY <2>1, <2>2, <2>3, <2>6, <4>1 DEF Entries
        <3>2. MayKeep(c, e.pid) /\ Current(e.pid, e.page, e.frame)
              /\ e.content = last[e.pid][e.page]
            BY <3>1 DEF EntrySound
        <3>3. MayKeep(c, u.pid) /\ Current(u.pid, u.page, u.frame)
            <4> HIDE DEF e, u
            <4> QED BY <3>1, <3>2 DEF MayKeep, Current
        <3>4. u.content = last'[u.pid][u.page]
            <4> HIDE DEF p
            <4>1. CASE k = k0
                BY <1>2, <1>8, <2>4, <3>1, <4>1
            <4>2. CASE k # k0
                <5>1. ~(e.pid = p /\ e.page = i)
                    BY <2>3, <2>4, <2>6, <4>2
                <5>2. e.page \in Own(e.pid)
                    BY <3>2 DEF Current
                <5> HIDE DEF e, u
                <5>3. last'[e.pid][e.page] = last[e.pid][e.page]
                    <6>1. CASE e.pid = p
                        BY <1>8, <5>1, <5>2, <6>1
                    <6>2. CASE e.pid # p
                        BY <1>8, <3>1, <6>2
                    <6> QED BY <6>1, <6>2
                <5> QED BY <3>1, <3>2, <4>2, <5>3
            <4> QED BY <4>1, <4>2
        <3> QED BY <3>3, <3>4
    <2>7. CacheSound(c)'
        BY <1>1, <2>5, <2>6 DEF CacheSound, EntrySound, MayKeep, Current
    <2>8. ASSUME NEW q \in Procs, Resident(q), NEW j \in Own(q)
          PROVE  mem'[frames[q][j + 1]] = last'[q][j] \/ Dirty(q, j)'
        <3> HIDE DEF p
        <3>1. \A d \in Cpus \ {c} : DirtyIn(cache[d].entries, q, j) => Dirty(q, j)'
            BY <1>9 DEF Dirty, DirtyIn
        <3>2. DirtyIn(w, q, j) => Dirty(q, j)'
            BY <2>5 DEF Dirty, DirtyIn
        <3>3. CASE q = p /\ j = i
            <4>1. w[k0].pid = q /\ w[k0].page = j /\ w[k0].mod
                BY <2>2, <2>4, <3>3
            <4>2. DirtyIn(w, q, j)
                BY <2>3, <2>4, <4>1 DEF DirtyIn
            <4> QED BY <3>2, <4>2
        <3>4. CASE ~(q = p /\ j = i)
            <4>1. last'[q][j] = last[q][j]
                <5>1. CASE q = p
                    BY <1>8, <2>8, <3>4, <5>1
                <5>2. CASE q # p
                    BY <1>8, <5>2
                <5> QED BY <5>1, <5>2
            <4>2. DirtyIn(r, q, j) => DirtyIn(w, q, j)
                BY <2>2, <2>3 DEF DirtyIn
            <4>3. \/ a.mem[frames[q][j + 1]] = last[q][j]
                  \/ DirtyIn(r, q, j) \/ DirtyElsewhere(c, q, j)
                BY <2>1, <2>8 DEF MemoryWith
            <4> QED BY <2>5, <3>1, <3>2, <4>1, <4>2, <4>3 DEF DirtyElsewhere
        <3> QED BY <3>3, <3>4
    <2> QED BY <2>7, <2>8
<1>12. ASSUME ~IsEnabled PROVE Goal
    <2>1. ASSUME NEW d \in Cpus PROVE cache[d].entries = <<>> /\ cache'[d] = cache[d]
        <3>1. cache[d].entries \in Seq(Entries) /\ Len(cache[d].entries) <= setting.cacheEntries
            BY EntryTypes DEF CacheShape
        <3>2. setting.cacheEntries = 0
            BY <1>7, <1>12 DEF IsEnabled
        <3> QED BY <1>1, <1>7, <1>12, <3>1, <3>2
    <2>2. CacheSound(c)'
        BY <2>1 DEF CacheSound
    <2>3. mem' = [mem EXCEPT ![t.frame] = content]
        BY <1>1, <1>12
    <2>4. ASSUME NEW q \in Procs, Resident(q), NEW j \in Own(q)
          PROVE  mem'[frames[q][j + 1]] = last'[q][j]
        <3>1. mem[frames[q][j + 1]] = last[q][j]
            <4>1. ~Dirty(q, j)
                BY <2>1 DEF Dirty, DirtyIn
            <4> QED BY <2>4, <4>1 DEF SoundInv, MemSound
        <3>2. frames[q][j + 1] \in Frames
            BY <2>4, FrameOf
        <3> HIDE DEF p
        <3>3. CASE q = p /\ j = i
            BY <1>2, <1>4, <1>7, <1>8, <2>3, <3>3
        <3>4. CASE ~(q = p /\ j = i)
            <4>1. frames[q][j + 1] # t.frame
                BY <1>2, <1>3, <2>4, <3>4, SameFrame
            <4>2. last'[q][j] = last[q][j]
                <5>1. CASE q = p
                    BY <1>8, <2>4, <3>4, <5>1
                <5>2. CASE q # p
                    BY <1>8, <5>2
                <5> QED BY <5>1, <5>2
            <4> QED BY <1>7, <2>3, <3>1, <3>2, <4>1, <4>2
        <3> QED BY <3>3, <3>4
    <2> QED BY <2>2, <2>4
<1>13. Goal
    BY <1>11, <1>12
<1> HIDE DEF x
<1> QED BY <1>1, <1>8, <1>9, <1>10, <1>13, UseSound

(* What a step of one process must show: the CPUs forget its pages, and    *)
(* the other processes stay as they are.                                   *)
CachesForget(p) ==
    \A c \in Cpus : LET s == cache[c].entries
                         t == cache'[c].entries IN
        /\ \A k \in DOMAIN t : t[k].pid # p /\ \E j \in DOMAIN s : t[k] = s[j]
        /\ \A j \in DOMAIN s : s[j].pid # p => \E k \in DOMAIN t : t[k] = s[j]
TlbsForget(p) ==
    \A c \in Cpus :
        /\ Covered(tlb'[c].entries, tlb[c].entries)
        /\ \A k \in DOMAIN tlb'[c].entries :
              tlb'[c].entries[k].pid = p => estado'[p] = "EXIT"
OthersStay(p) ==
    \A q \in Procs \ {p} :
        /\ estado'[q] = estado[q] /\ frames'[q] = frames[q] /\ table'[q] = table[q]
        /\ swap'[q] = swap[q] /\ last'[q] = last[q]
        /\ Resident(q) => \A j \in Own(q) :
              mem'[frames[q][j + 1]] = mem[frames[q][j + 1]] \/ mem'[frames[q][j + 1]] = last[q][j]

LEMMA MoveSound ==
    ASSUME SoundInv, TypeInv', NEW p \in Procs, setting' = setting,
           OthersStay(p), CachesForget(p), TlbsForget(p),
           \A d \in Cpus : running'[d] = IF running[d] = p THEN None ELSE running[d],
           \A k, j \in DOMAIN frames'[p] : frames'[p][k] = frames'[p][j] => k = j,
           \A q \in Procs \ {p} : \A k \in DOMAIN frames'[p], j \in DOMAIN frames[q] :
              frames'[p][k] # frames[q][j],
           last' = [q \in Procs |-> [j \in Own(q) |-> last'[q][j]]],
           Settled(p)', Mapped(p)', MemSound(p)'
    PROVE  SoundInv'
<1>0. p # None
    BY CpuMemoryAssumption
<1>1. ASSUME NEW c \in Cpus, NEW q \in Procs \ {p}, MayKeep(c, q)
      PROVE  \/ running'[c] = q
             \/ c \in setting.cpus /\ setting.preempts /\ estado'[q] = "READY"
    <2>1. CASE running[c] = q
        BY <2>1
    <2>2. CASE c \in setting.cpus /\ setting.preempts /\ estado[q] = "READY"
        BY <2>2 DEF OthersStay
    <2> QED BY <1>1, <2>1, <2>2 DEF MayKeep
<1>2. OneEach'
    <2>1. ASSUME NEW c \in Cpus, running'[c] # None
          PROVE  c \in setting.cpus /\ estado'[running'[c]] = "EXEC"
        <3>1. running'[c] = running[c] /\ running[c] # p
            BY <2>1
        <3>2. running[c] \in Procs /\ estado[running[c]] = "EXEC" /\ c \in setting.cpus
            BY <2>1, <3>1, RunningIs
        <3> QED BY <3>1, <3>2 DEF OthersStay
    <2>2. ASSUME NEW c \in Cpus, NEW d \in Cpus, running'[c] = running'[d], running'[c] # None
          PROVE  c = d
        <3>1. running[c] = running[d] /\ running[c] # None
            BY <2>2
        <3> QED BY <3>1 DEF SoundInv, OneEach
    <2> QED BY <2>1, <2>2 DEF OneEach
<1>3. Disjoint'
    <2> SUFFICES ASSUME NEW q \in Procs, NEW r \in Procs,
                        NEW k \in DOMAIN frames'[q], NEW j \in DOMAIN frames'[r],
                        frames'[q][k] = frames'[r][j]
                 PROVE  q = r /\ k = j
        BY DEF Disjoint
    <2>1. CASE q # p /\ r # p
        BY <2>1 DEF OthersStay, SoundInv, Disjoint
    <2>2. CASE q = p /\ r = p
        BY <2>2
    <2>3. CASE (q = p /\ r # p) \/ (q # p /\ r = p)
        BY <2>3 DEF OthersStay
    <2> QED BY <2>1, <2>2, <2>3
<1>4. ASSUME NEW q \in Procs PROVE Settled(q)' /\ Mapped(q)' /\ MemSound(q)'
    <2>1. CASE q = p
        BY <2>1
    <2>2. CASE q # p
        <3>1. /\ estado'[q] = estado[q] /\ frames'[q] = frames[q] /\ table'[q] = table[q]
              /\ swap'[q] = swap[q] /\ last'[q] = last[q]
            BY <2>2 DEF OthersStay
        <3>2. Settled(q) /\ Mapped(q) /\ MemSound(q)
            BY DEF SoundInv
        <3>3. Settled(q)' /\ Mapped(q)'
            BY <3>1, <3>2 DEF Settled, Mapped, Resident, SearchFrame
        <3>4. ASSUME NEW j, Dirty(q, j) PROVE Dirty(q, j)'
            <4>1. PICK c \in Cpus : DirtyIn(cache[c].entries, q, j)
                BY <3>4 DEF Dirty
            <4>2. PICK x \in DOMAIN cache[c].entries :
                     LET e == cache[c].entries[x] IN e.pid = q /\ e.page = j /\ e.mod
                BY <4>1 DEF DirtyIn
            <4>3. PICK k \in DOMAIN cache'[c].entries :
                     cache'[c].entries[k] = cache[c].entries[x]
                BY <2>2, <4>2 DEF CachesForget
            <4> QED BY <4>2, <4>3 DEF Dirty, DirtyIn
        <3>5. Resident(q) => \A j \in Own(q) :
                 mem'[frames[q][j + 1]] = last[q][j] \/ Dirty(q, j)'
            BY <2>2, <3>2, <3>4 DEF OthersStay, MemSound
        <3>6. MemSound(q)'
            BY <3>1, <3>2, <3>5 DEF MemSound, Resident
        <3> QED BY <3>3, <3>6
    <2> QED BY <2>1, <2>2
<1>5. ASSUME NEW c \in Cpus PROVE CacheSound(c)'
    <2> SUFFICES ASSUME NEW k \in DOMAIN cache'[c].entries
                 PROVE  LET e == cache'[c].entries[k] IN
                        /\ \/ running'[c] = e.pid
                           \/ /\ c \in setting.cpus /\ setting.preempts
                              /\ estado'[e.pid] = "READY"
                        /\ e.page \in Own(e.pid) /\ e.frame = frames'[e.pid][e.page + 1]
                        /\ e.content = last'[e.pid][e.page]
        BY DEF CacheSound, EntrySound, MayKeep, Current
    <2> DEFINE e == cache'[c].entries[k]
    <2>1. PICK j \in DOMAIN cache[c].entries : e = cache[c].entries[j]
        BY DEF CachesForget
    <2>2. e.pid # p
        BY DEF CachesForget
    <2>3. e \in Entries /\ EntrySound(c, e)
        BY <2>1, EntryTypes DEF SoundInv, CacheSound
    <2> HIDE DEF e
    <2>4. e.pid \in Procs \ {p}
        BY <2>2, <2>3 DEF Entries
    <2>5. MayKeep(c, e.pid) /\ Current(e.pid, e.page, e.frame)
          /\ e.content = last[e.pid][e.page]
        BY <2>3 DEF EntrySound
    <2>6. frames'[e.pid] = frames[e.pid] /\ last'[e.pid] = last[e.pid]
        BY <2>4 DEF OthersStay
    <2> QED BY <1>1, <2>4, <2>5, <2>6 DEF Current, e
<1>6. ASSUME NEW c \in Cpus PROVE TlbSound(c)'
    <2> SUFFICES ASSUME NEW k \in DOMAIN tlb'[c].entries
                 PROVE  LET e == tlb'[c].entries[k] IN
                        \/ estado'[e.pid] = "EXIT"
                        \/ /\ \/ running'[c] = e.pid
                              \/ /\ c \in setting.cpus /\ setting.preempts
                                 /\ estado'[e.pid] = "READY"
                           /\ e.page \in Own(e.pid) /\ e.frame = frames'[e.pid][e.page + 1]
        BY DEF TlbSound, TranslationSound, MayKeep, Current
    <2> DEFINE e == tlb'[c].entries[k]
    <2>1. PICK j \in DOMAIN tlb[c].entries : SameTranslation(e, tlb[c].entries[j])
        BY DEF TlbsForget, Covered
    <2> DEFINE old == tlb[c].entries[j]
    <2>2. old \in TlbEntries /\ TranslationSound(c, old)
        BY EntryTypes DEF SoundInv, TlbSound
    <2>3. e.pid = p => estado'[p] = "EXIT"
        BY DEF TlbsForget
    <2> HIDE DEF e, old
    <2>4. /\ e.pid = old.pid /\ e.page = old.page /\ e.frame = old.frame
          /\ old.pid \in Procs
        BY <2>1, <2>2 DEF SameTranslation, TlbEntries, old
    <2>5. CASE e.pid = p
        BY <2>3, <2>5 DEF e
    <2>6. CASE e.pid # p
        <3>1. /\ estado'[e.pid] = estado[e.pid] /\ frames'[e.pid] = frames[e.pid]
            BY <2>4, <2>6 DEF OthersStay
        <3>2. \/ estado[e.pid] = "EXIT"
              \/ MayKeep(c, e.pid) /\ Current(e.pid, e.page, e.frame)
            BY <2>2, <2>4 DEF TranslationSound
        <3> QED BY <1>1, <2>4, <2>6, <3>1, <3>2 DEF Current, e
    <2> QED BY <2>5, <2>6
<1> QED BY <1>2, <1>3, <1>4, <1>5, <1>6 DEF SoundInv

(* A process that neither runs nor is ready has nothing in the CPUs but    *)
(* translations, once it has ended.                                        *)
LEMMA NothingKept ==
    ASSUME SoundInv, NEW p \in Procs, estado[p] \notin {"READY", "EXEC"},
           UNCHANGED <<cache, tlb>>
    PROVE  /\ CachesForget(p)
           /\ estado[p] # "EXIT" => TlbsForget(p)
           /\ \A d \in Cpus : running[d] # p
           /\ \A i : ~Dirty(p, i)
<1>1. \A c \in Cpus : ~MayKeep(c, p)
    BY KeepersRun
<1>2. ASSUME NEW c \in Cpus, NEW k \in DOMAIN cache[c].entries
      PROVE  cache[c].entries[k].pid # p
    BY <1>1, <1>2 DEF SoundInv, CacheSound, EntrySound
<1>3. ASSUME NEW c \in Cpus, NEW k \in DOMAIN tlb[c].entries, estado[p] # "EXIT"
      PROVE  tlb[c].entries[k].pid # p
    BY <1>1, <1>3 DEF SoundInv, TlbSound, TranslationSound
<1>4. CachesForget(p)
    BY <1>2 DEF CachesForget
<1>5. estado[p] # "EXIT" => TlbsForget(p)
    BY <1>3 DEF TlbsForget, Covered, SameTranslation
<1>6. \A i : ~Dirty(p, i)
    BY <1>2 DEF Dirty, DirtyIn
<1>7. \A d \in Cpus : running[d] # p
    BY <1>1 DEF MayKeep
<1> QED BY <1>4, <1>5, <1>6, <1>7

(* The history after a step of one process.                                *)
LEMMA LastStep ==
    ASSUME SoundInv, NEW p \in Procs, NEW l, l = [i \in Own(p) |-> l[i]],
           last' = [last EXCEPT ![p] = l]
    PROVE  /\ last' = [q \in Procs |-> [i \in Own(q) |-> last'[q][i]]]
           /\ last'[p] = l /\ \A q \in Procs \ {p} : last'[q] = last[q]
<1>1. last = [q \in Procs |-> [i \in Own(q) |-> last[q][i]]]
    BY DEF SoundInv
<1>2. last' = [q \in Procs |-> IF q = p THEN l ELSE last[q]]
    BY <1>1
<1>3. ASSUME NEW q \in Procs PROVE last'[q] = [i \in Own(q) |-> last'[q][i]]
    <2>1. CASE q = p
        <3>1. last'[q] = l
            BY <1>2, <2>1
        <3> QED BY <2>1, <3>1
    <2>2. CASE q # p
        <3>1. last'[q] = last[q]
            BY <1>2, <2>2
        <3> QED BY <1>1, <3>1
    <2> QED BY <2>1, <2>2
<1> QED BY <1>2, <1>3

(* A process that ends.                                                    *)
LEMMA ForgetSound ==
    ASSUME SoundInv, TypeInv', NEW p \in Procs, setting' = setting, Forget(p),
           estado' = [estado EXCEPT ![p] = "EXIT"],
           CachesForget(p), TlbsForget(p),
           \A d \in Cpus : running'[d] = IF running[d] = p THEN None ELSE running[d],
           \A q \in Procs \ {p} : Resident(q) => \A j \in Own(q) :
              \/ mem'[frames[q][j + 1]] = mem[frames[q][j + 1]]
              \/ mem'[frames[q][j + 1]] = last[q][j]
    PROVE  SoundInv'
<1> DEFINE l == [i \in Own(p) |-> Blank]
<1>1. /\ estado \in [Procs -> Estados]
      /\ frames = [q \in Procs |-> frames[q]] /\ table = [q \in Procs |-> table[q]]
      /\ swap = [q \in Procs |-> swap[q]]
    BY DEF SoundInv, TypeInv
<1>2. /\ last' = [last EXCEPT ![p] = l]
      /\ frames' = [frames EXCEPT ![p] = <<>>]
      /\ table' = [table EXCEPT ![p] = <<>>]
      /\ swap' = [swap EXCEPT ![p] = <<>>]
    BY DEF Forget
<1>3. l = [i \in Own(p) |-> l[i]]
    OBVIOUS
<1> HIDE DEF l
<1>4. /\ last' = [q \in Procs |-> [i \in Own(q) |-> last'[q][i]]]
      /\ \A q \in Procs \ {p} : last'[q] = last[q]
    BY <1>2, <1>3, LastStep
<1>5. OthersStay(p)
    BY <1>1, <1>2, <1>4 DEF OthersStay
<1>6. /\ estado'[p] = "EXIT"
      /\ frames'[p] = <<>> /\ table'[p] = <<>> /\ swap'[p] = <<>>
    BY <1>1, <1>2
<1>7. Settled(p)' /\ Mapped(p)'
    BY <1>6 DEF Settled, Mapped, Resident
<1>8. MemSound(p)'
    BY <1>6 DEF MemSound, Resident
<1> QED BY <1>4, <1>5, <1>6, <1>7, <1>8, MoveSound

(* What IO, DUMP_MEMORY and EXIT leave in the CPUs and in Memory.          *)
LEMMA CleanSound ==
    ASSUME SoundInv, NEW c \in Cpus, running[c] # None, Clean(c, running[c])
    PROVE  /\ CachesForget(running[c]) /\ TlbsForget(running[c])
           /\ \A q \in Procs : Resident(q) => \A j \in Own(q) :
                 LET f == frames[q][j + 1] IN
                 /\ mem'[f] = mem[f] \/ mem'[f] = last[q][j]
                 /\ q = running[c] => mem'[f] = last[q][j]
<1> DEFINE p == running[c]
<1>1. /\ p \in Procs /\ estado[p] = "EXEC" /\ Resident(p)
      /\ \A d \in Cpus : MayKeep(d, p) => d = c
    BY RunningIs
<1>2. /\ setting.cacheEntries \in Nat /\ setting.tlbEntries \in Nat
      /\ mem \in [Frames -> Data]
      /\ cache = [d \in Cpus |-> cache[d]] /\ tlb = [d \in Cpus |-> tlb[d]]
    BY SettingType DEF SoundInv, TypeInv
<1> HIDE DEF p
<1>3. /\ cache' = [cache EXCEPT ![c] = IF IsEnabled THEN RemoveProcess(@, p) ELSE @]
      /\ mem' = WrittenBack(cache[c], p)
      /\ tlb' = [tlb EXCEPT ![c] = RemoveTLBEntries(@, p)]
    BY DEF Clean, p
<1>4. /\ \A d \in Cpus \ {c} : cache'[d] = cache[d] /\ tlb'[d] = tlb[d]
      /\ cache'[c] = IF IsEnabled THEN RemoveProcess(cache[c], p) ELSE cache[c]
      /\ tlb'[c] = RemoveTLBEntries(tlb[c], p)
    BY <1>2, <1>3
<1>5. ASSUME NEW d \in Cpus, NEW k \in DOMAIN cache[d].entries
      PROVE  EntrySound(d, cache[d].entries[k]) /\ cache[d].entries[k] \in Entries
    BY <1>5, EntryTypes DEF SoundInv, CacheSound
<1>6. CachesForget(p)
    <2>1. ASSUME NEW d \in Cpus
          PROVE  LET s == cache[d].entries
                     t == cache'[d].entries IN
                 /\ \A k \in DOMAIN t : t[k].pid # p /\ \E j \in DOMAIN s : t[k] = s[j]
                 /\ \A j \in DOMAIN s : s[j].pid # p => \E k \in DOMAIN t : t[k] = s[j]
        <3> DEFINE s == cache[d].entries
                   t == cache'[d].entries
        <3>1. CASE d # c
            <4>1. t = s
                BY <1>4, <3>1
            <4>2. \A k \in DOMAIN s : s[k].pid # p
                BY <1>1, <1>5, <3>1 DEF EntrySound
            <4> HIDE DEF s, t
            <4> QED BY <4>1, <4>2 DEF s, t
        <3>2. CASE d = c /\ IsEnabled
            <4>1. CacheShape(cache[c], setting.cacheEntries)
                BY EntryTypes
            <4>2. t = Without(s, p)
                BY <1>2, <1>4, <3>2, <4>1, RemoveProcessIs
            <4>3. s \in Seq(Entries)
                BY <3>2, <4>1 DEF CacheShape
            <4> HIDE DEF s, t
            <4>4. PICK pos \in [DOMAIN t -> DOMAIN s] :
                     /\ \A n \in DOMAIN t : t[n] = s[pos[n]] /\ s[pos[n]].pid # p
                     /\ \A k \in DOMAIN s : s[k].pid # p =>
                           \E n \in DOMAIN t : pos[n] = k
                BY <4>2, <4>3, WithoutIs
            <4>5. \A k \in DOMAIN t : t[k].pid # p /\ \E j \in DOMAIN s : t[k] = s[j]
                BY <4>4
            <4>6. \A j \in DOMAIN s : s[j].pid # p => \E k \in DOMAIN t : t[k] = s[j]
                BY <4>4
            <4> QED BY <4>5, <4>6 DEF s, t
        <3>3. CASE d = c /\ ~IsEnabled
            <4>1. t = s
                BY <1>4, <3>3
            <4>2. s \in Seq(Entries) /\ Len(s) <= setting.cacheEntries
                BY <3>3, EntryTypes DEF CacheShape
            <4>3. s = <<>>
                <5> HIDE DEF s, t
                <5> QED BY <1>2, <3>3, <4>2 DEF IsEnabled
            <4> HIDE DEF s, t
            <4> QED BY <4>1, <4>3 DEF s, t
        <3> QED BY <3>1, <3>2, <3>3
    <2> QED BY <2>1 DEF CachesForget
<1>7. TlbsForget(p)
    <2>1. ASSUME NEW d \in Cpus
          PROVE  /\ Covered(tlb'[d].entries, tlb[d].entries)
                 /\ \A k \in DOMAIN tlb'[d].entries : tlb'[d].entries[k].pid # p
        <3>1. CASE d = c
            <4>1. TlbShape(tlb[c], setting.tlbEntries)
                BY EntryTypes
            <4> QED BY <1>2, <1>4, <3>1, <4>1, RemoveTlbIs
        <3>2. CASE d # c
            <4>1. tlb'[d] = tlb[d]
                BY <1>4, <3>2
            <4>2. \A k \in DOMAIN tlb[d].entries : tlb[d].entries[k].pid # p
                BY <1>1, <3>2 DEF SoundInv, TlbSound, TranslationSound
            <4> QED BY <4>1, <4>2 DEF Covered, SameTranslation
        <3> QED BY <3>1, <3>2
    <2> QED BY <2>1 DEF TlbsForget
<1>8. ASSUME NEW q \in Procs, Resident(q), NEW j \in Own(q)
      PROVE  LET f == frames[q][j + 1] IN
             /\ mem'[f] = mem[f] \/ mem'[f] = last[q][j]
             /\ q = p => mem'[f] = last[q][j]
    <2> DEFINE s == cache[c].entries
               f == frames[q][j + 1]
               dirty(g) == {k \in DOMAIN s : s[k].pid = p /\ s[k].mod /\ s[k].frame = g}
    <2>1. f \in Frames
        BY <1>8, FrameOf
    <2>2. /\ dirty(f) = {} => mem'[f] = mem[f]
          /\ dirty(f) # {} => \E k \in dirty(f) : mem'[f] = s[k].content
        <3>1. CacheShape(cache[c], setting.cacheEntries)
            BY EntryTypes
        <3> HIDE DEF f
        <3> QED BY <1>2, <1>3, <2>1, <3>1, WrittenBackIs
    <2>3. ASSUME NEW k \in dirty(f)
          PROVE  q = p /\ s[k].content = last[q][j]
        <3>1. /\ s[k].pid = p /\ s[k].frame = f
              /\ EntrySound(c, s[k]) /\ s[k] \in Entries
            BY <1>5, <2>3
        <3> DEFINE e == s[k]
        <3> HIDE DEF e
        <3>2. /\ e.page \in Own(p) /\ f = frames[p][e.page + 1]
              /\ e.content = last[p][e.page]
            BY <3>1 DEF EntrySound, Current, e
        <3>3. q = p /\ e.page = j
            BY <1>1, <1>8, <3>2, SameFrame
        <3> QED BY <3>2, <3>3 DEF e
    <2>4. ASSUME q = p, dirty(f) = {} PROVE mem[f] = last[q][j]
        <3>1. ~Dirty(p, j)
            <4> SUFFICES ASSUME Dirty(p, j) PROVE FALSE
                OBVIOUS
            <4>1. PICK d \in Cpus : DirtyIn(cache[d].entries, p, j)
                BY DEF Dirty
            <4>2. PICK k \in DOMAIN cache[d].entries :
                     LET e == cache[d].entries[k] IN e.pid = p /\ e.page = j /\ e.mod
                BY <4>1 DEF DirtyIn
            <4>3. MayKeep(d, p) /\ Current(p, j, cache[d].entries[k].frame)
                BY <1>5, <4>2 DEF EntrySound
            <4>4. d = c
                BY <1>1, <4>3
            <4>5. k \in dirty(f)
                BY <2>4, <4>2, <4>3, <4>4 DEF Current
            <4> QED BY <2>4, <4>5
        <3> QED BY <1>8, <2>4, <3>1 DEF SoundInv, MemSound
    <2> HIDE DEF dirty, f
    <2> QED BY <2>2, <2>3, <2>4 DEF f
<1> QED BY <1>6, <1>7, <1>8 DEF p

(* The ends of a burst.                                                    *)
LEMMA RunnerLeaves ==
    ASSUME SoundInv, NEW c \in Cpus, running[c] # None,
           running' = [running EXCEPT ![c] = None]
    PROVE  \A d \in Cpus :
              running'[d] = IF running[d] = running[c] THEN None ELSE running[d]
<1>1. running \in [Cpus -> Procs \union {None}]
    BY DEF SoundInv, TypeInv
<1> QED BY <1>1 DEF SoundInv, OneEach

LEMMA SyscallSound ==
    ASSUME SoundInv, TypeInv', NEW c \in Cpus, Syscall(c)
    PROVE  SoundInv'
<1>0. PICK p \in Procs : p = running[c]
    BY RunningIs DEF Syscall
<1>1. /\ p # None /\ estado' = [estado EXCEPT ![p] = "BLOCKED"]
      /\ running' = [running EXCEPT ![c] = None] /\ Clean(c, p)
      /\ UNCHANGED <<setting, frames, table, swap, last>>
    BY <1>0 DEF Syscall, Becomes
<1>2. p \in Procs /\ Resident(p) /\ swap[p] = <<>>
    BY <1>0, <1>1, RunningIs
<1>3. /\ CachesForget(p) /\ TlbsForget(p)
      /\ \A q \in Procs : Resident(q) => \A j \in Own(q) :
            LET f == frames[q][j + 1] IN
            /\ mem'[f] = mem[f] \/ mem'[f] = last[q][j]
            /\ q = p => mem'[f] = last[q][j]
    BY <1>0, <1>1, CleanSound
<1>4. \A d \in Cpus : running'[d] = IF running[d] = p THEN None ELSE running[d]
    BY <1>0, <1>1, RunnerLeaves
<1>5. estado \in [Procs -> Estados]
    BY DEF SoundInv, TypeInv
<1>6. OthersStay(p)
    BY <1>1, <1>3, <1>5 DEF OthersStay
<1>7. /\ \A k, j \in DOMAIN frames'[p] : frames'[p][k] = frames'[p][j] => k = j
      /\ \A q \in Procs \ {p} : \A k \in DOMAIN frames'[p], j \in DOMAIN frames[q] :
            frames'[p][k] # frames[q][j]
    BY <1>1, <1>2 DEF SoundInv, Disjoint
<1>8. last' = [q \in Procs |-> [j \in Own(q) |-> last'[q][j]]]
    BY <1>1 DEF SoundInv
<1>9. Settled(p)' /\ Mapped(p)'
    <2>1. Mapped(p)
        BY DEF SoundInv
    <2>2. estado'[p] = "BLOCKED"
        BY <1>1, <1>2, <1>5
    <2>3. Mapped(p)'
        BY <1>1, <1>2, <2>1 DEF Mapped, Resident, SearchFrame
    <2> QED BY <1>1, <1>2, <2>2, <2>3 DEF Settled, Resident
<1>10. MemSound(p)'
    <2>1. \A j \in Own(p) : mem'[frames'[p][j + 1]] = last'[p][j]
        BY <1>1, <1>2, <1>3
    <2> QED BY <1>1, <1>2, <2>1 DEF MemSound
<1> QED BY <1>1, <1>2, <1>3, <1>4, <1>6, <1>7, <1>8, <1>9, <1>10, MoveSound

LEMMA ExitSound ==
    ASSUME SoundInv, TypeInv', NEW c \in Cpus, Exit(c)
    PROVE  SoundInv'
<1> DEFINE p == running[c]
<1>1. /\ p # None /\ estado' = [estado EXCEPT ![p] = "EXIT"]
      /\ running' = [running EXCEPT ![c] = None] /\ Clean(c, p)
      /\ Forget(p) /\ setting' = setting
    BY DEF Exit, Becomes
<1>2. p \in Procs
    BY <1>1, RunningIs
<1>3. /\ CachesForget(p) /\ TlbsForget(p)
      /\ \A q \in Procs : Resident(q) => \A j \in Own(q) :
            LET f == frames[q][j + 1] IN mem'[f] = mem[f] \/ mem'[f] = last[q][j]
    BY <1>1, CleanSound
<1>4. \A d \in Cpus : running'[d] = IF running[d] = p THEN None ELSE running[d]
    BY <1>1, RunnerLeaves
<1> HIDE DEF p
<1> QED BY <1>1, <1>2, <1>3, <1>4, ForgetSound

LEMMA LastInstructionSound ==
    ASSUME SoundInv, TypeInv', Circumstances, NEW c \in Cpus, LastInstruction(c)
    PROVE  SoundInv'
<1> DEFINE p == running[c]
<1>1. /\ p \in setting.noExit /\ estado' = [estado EXCEPT ![p] = "EXIT"]
      /\ estado[p] = "EXEC"
      /\ running' = [running EXCEPT ![c] = None]
      /\ Forget(p) /\ UNCHANGED <<setting, mem, cache, tlb>>
    BY DEF LastInstruction, Becomes
<1>2. /\ setting \in Settings /\ setting.noExit \subseteq Procs
    BY CpuMemoryAssumption DEF SoundInv, TypeInv
<1>3. p \in Procs /\ p # None
    BY <1>1, <1>2, CpuMemoryAssumption
<1>4. \A d \in Cpus : running'[d] = IF running[d] = p THEN None ELSE running[d]
    BY <1>1, <1>3, RunnerLeaves
<1>5. setting.cacheEntries = 0
    BY <1>1, <1>2 DEF Circumstances
<1>6. ASSUME NEW d \in Cpus PROVE cache[d].entries = <<>>
    <2>1. cache[d].entries \in Seq(Entries) /\ Len(cache[d].entries) <= 0
        BY <1>5, EntryTypes DEF CacheShape
    <2> QED BY <2>1
<1>7. CachesForget(p)
    BY <1>1, <1>6 DEF CachesForget
<1> HIDE DEF p
<1>8. estado'[p] = "EXIT"
    BY <1>1, <1>3 DEF SoundInv, TypeInv
<1>9. TlbsForget(p)
    BY <1>1, <1>8 DEF TlbsForget, Covered, SameTranslation
<1> QED BY <1>1, <1>3, <1>4, <1>7, <1>9, ForgetSound

(* The steps of the Kernel.  Two of them move a process to a CPU and back. *)
LEMMA RunsSound ==
    ASSUME SoundInv, TypeInv', Circumstances, NEW c \in Cpus, NEW p \in Procs,
           Dispatch(c, p) \/ (Preempt(c) /\ p = running[c])
    PROVE  SoundInv'
<1>1. /\ estado \in [Procs -> Estados] /\ running \in [Cpus -> Procs \union {None}]
      /\ setting \in Settings /\ p # None
    BY CpuMemoryAssumption DEF SoundInv, TypeInv
<1>2. /\ UNCHANGED <<setting, memVars, cache, tlb, last>> /\ c \in setting.cpus
      /\ \A q \in Procs \ {p} : estado'[q] = estado[q]
      /\ \A d \in Cpus \ {c} : running'[d] = running[d]
      /\ estado[p] \in {"READY", "EXEC"} /\ estado'[p] \in {"READY", "EXEC"}
      /\ \/ /\ running[c] = None /\ running'[c] = p
            /\ estado[p] = "READY" /\ estado'[p] = "EXEC"
         \/ /\ setting.preempts /\ running[c] = p /\ running'[c] = None
            /\ estado[p] = "EXEC" /\ estado'[p] = "READY"
    <2>1. CASE Dispatch(c, p)
        BY <1>1, <2>1 DEF Dispatch, Becomes
    <2>2. CASE Preempt(c) /\ p = running[c]
        BY <1>1, <2>2, RunningIs DEF Preempt, Becomes
    <2> QED BY <2>1, <2>2
<1>3. UNCHANGED <<setting, frames, table, mem, swap, cache, tlb, last>>
    BY <1>2 DEF memVars
<1>4. OneEach'
    BY <1>1, <1>2 DEF SoundInv, OneEach
<1>5. setting.preempts => \A d \in setting.cpus : d = c
    BY <1>1, <1>2 DEF Circumstances
<1>6. ASSUME NEW d \in Cpus, NEW q \in Procs, MayKeep(d, q)
      PROVE  MayKeep(d, q)'
    <2>1. CASE q = p
        <3>1. running[d] = p => running[c] = p
            BY <1>1, <1>2 DEF SoundInv, OneEach
        <3>2. d = c
            <4>1. CASE running[d] = p
                BY <1>1, <3>1, <4>1 DEF SoundInv, OneEach
            <4>2. CASE d \in setting.cpus /\ setting.preempts
                BY <1>5, <4>2
            <4> QED BY <1>6, <2>1, <4>1, <4>2 DEF MayKeep
        <3> QED BY <1>2, <2>1, <3>2 DEF MayKeep
    <2>2. CASE q # p
        <3>1. CASE running[d] = q
            <4>1. d # c /\ running'[d] = q
                BY <1>1, <1>2, <2>2, <3>1, CpuMemoryAssumption
            <4> QED BY <4>1 DEF MayKeep
        <3>2. CASE d \in setting.cpus /\ setting.preempts /\ estado[q] = "READY"
            BY <1>2, <2>2, <3>2 DEF MayKeep
        <3> QED BY <1>6, <3>1, <3>2 DEF MayKeep
    <2> QED BY <2>1, <2>2
<1>7. \A q \in Procs : estado'[q] = "EXIT" <=> estado[q] = "EXIT"
    BY <1>2
<1>8. Disjoint' /\ last' = [q \in Procs |-> [i \in Own(q) |-> last'[q][i]]]
    BY <1>3 DEF SoundInv, Disjoint
<1>9. ASSUME NEW q \in Procs PROVE Settled(q)' /\ Mapped(q)' /\ MemSound(q)'
    <2>1. Settled(q) /\ Mapped(q) /\ MemSound(q)
        BY DEF SoundInv
    <2>2. Settled(q)'
        <3>1. CASE q = p
            BY <1>2, <1>3, <2>1, <3>1 DEF Settled
        <3>2. CASE q # p
            BY <1>2, <1>3, <2>1, <3>2 DEF Settled
        <3> QED BY <3>1, <3>2
    <2>3. Mapped(q)'
        BY <1>3, <2>1 DEF Mapped, Resident, SearchFrame
    <2>4. MemSound(q)'
        BY <1>3, <2>1 DEF MemSound, Resident, Dirty, DirtyIn
    <2> QED BY <2>2, <2>3, <2>4
<1>10. ASSUME NEW d \in Cpus PROVE CacheSound(d)' /\ TlbSound(d)'
    <2>1. ASSUME NEW k \in DOMAIN cache[d].entries
          PROVE  EntrySound(d, cache[d].entries[k])'
        <3>1. EntrySound(d, cache[d].entries[k]) /\ cache[d].entries[k].pid \in Procs
            BY EntryTypes DEF SoundInv, CacheSound, Entries
        <3>2. MayKeep(d, cache[d].entries[k].pid)'
            BY <1>3, <1>6, <3>1 DEF EntrySound, MayKeep
        <3> QED BY <1>3, <3>1, <3>2 DEF EntrySound, Current
    <2>2. ASSUME NEW k \in DOMAIN tlb[d].entries
          PROVE  TranslationSound(d, tlb[d].entries[k])'
        <3>1. TranslationSound(d, tlb[d].entries[k]) /\ tlb[d].entries[k].pid \in Procs
            BY EntryTypes DEF SoundInv, TlbSound, TlbEntries
        <3>2. MayKeep(d, tlb[d].entries[k].pid) => MayKeep(d, tlb[d].entries[k].pid)'
            BY <1>3, <1>6, <3>1 DEF MayKeep
        <3>3. estado[tlb[d].entries[k].pid] = "EXIT" =>
                 estado'[tlb[d].entries[k].pid] = "EXIT"
            BY <1>7, <3>1
        <3> QED BY <1>3, <3>1, <3>2, <3>3 DEF TranslationSound, Current
    <2> QED BY <1>3, <2>1, <2>2 DEF CacheSound, TlbSound
<1> QED BY <1>4, <1>8, <1>9, <1>10 DEF SoundInv

(* The others leave a process that is in no CPU.  Three only change the    *)
(* state of one that waits.                                                *)
LEMMA WaiterSound ==
    ASSUME SoundInv, TypeInv', NEW p \in Procs, NEW to \in Estados,
           estado[p] \in {"BLOCKED", "SUSPENDED"},
           estado' = [estado EXCEPT ![p] = to],
           UNCHANGED <<setting, running, frames, table, mem, swap, cache, tlb, last>>,
           Settled(p)'
    PROVE  SoundInv'
<1>1. /\ CachesForget(p) /\ TlbsForget(p)
      /\ \A d \in Cpus : running[d] # p
      /\ \A i : ~Dirty(p, i)
    BY NothingKept
<1>2. estado \in [Procs -> Estados]
    BY DEF SoundInv, TypeInv
<1>3. OthersStay(p)
    BY <1>2 DEF OthersStay
<1>4. /\ \A k, j \in DOMAIN frames'[p] : frames'[p][k] = frames'[p][j] => k = j
      /\ \A q \in Procs \ {p} : \A k \in DOMAIN frames'[p], j \in DOMAIN frames[q] :
            frames'[p][k] # frames[q][j]
    BY DEF SoundInv, Disjoint
<1>5. last' = [q \in Procs |-> [j \in Own(q) |-> last'[q][j]]]
    BY DEF SoundInv
<1>6. Mapped(p)'
    BY DEF SoundInv, Mapped, Resident, SearchFrame
<1>7. MemSound(p)'
    BY <1>1 DEF SoundInv, MemSound, Resident
<1> QED BY <1>1, <1>3, <1>4, <1>5, <1>6, <1>7, MoveSound

LEMMA WaitSound ==
    ASSUME SoundInv, TypeInv', Circumstances, NEW p \in Procs,
           Unblock(p) \/ Suspend(p) \/ Resume(p)
    PROVE  SoundInv'
<1>1. Waits = {"BLOCKED"}
    BY DEF SoundInv, TypeInv, Circumstances, Waits
<1>2. UNCHANGED <<setting, running, frames, table, mem, swap, cache, tlb, last>>
    BY DEF Unblock, Suspend, Resume, memVars
<1>3. PICK to \in {"READY", "SUSPENDED"} :
         /\ estado[p] \in {"BLOCKED", "SUSPENDED"}
         /\ estado' = [estado EXCEPT ![p] = to]
         /\ estado[p] = "SUSPENDED" => swap[p] = <<>>
    BY <1>1 DEF Unblock, Suspend, Resume, Becomes
<1>4. Settled(p)'
    <2>1. estado'[p] = to
        BY <1>3 DEF SoundInv, TypeInv
    <2>2. frames[p] # <<>> /\ swap[p] = <<>>
        BY <1>3 DEF SoundInv, Settled
    <2> QED BY <1>2, <2>1, <2>2 DEF Settled
<1>5. to \in Estados
    BY DEF Estados
<1> QED BY <1>2, <1>3, <1>4, <1>5, WaiterSound

LEMMA WithdrawSound ==
    ASSUME SoundInv, TypeInv', NEW p \in Procs, Withdraw(p)
    PROVE  SoundInv'
<1>1. /\ estado[p] \in {"BLOCKED", "SUSPENDED"}
      /\ estado' = [estado EXCEPT ![p] = "EXIT"] /\ Forget(p)
      /\ UNCHANGED <<setting, running, mem, cache, tlb>>
    BY DEF Withdraw
<1>2. CachesForget(p) /\ TlbsForget(p) /\ \A d \in Cpus : running[d] # p
    BY <1>1, NothingKept
<1> QED BY <1>1, <1>2, ForgetSound

(* The frames a process is given are its own.                              *)
LEMMA GivenSound ==
    ASSUME SoundInv, Circumstances, NEW p \in Procs, Give(p)
    PROVE  /\ \A q \in Procs \ {p} : frames'[q] = frames[q] /\ table'[q] = table[q]
           /\ \A k, j \in DOMAIN frames'[p] : frames'[p][k] = frames'[p][j] => k = j
           /\ \A q \in Procs \ {p} : \A k \in DOMAIN frames'[p], j \in DOMAIN frames[q] :
                 frames'[p][k] # frames[q][j]
           /\ Mapped(p)' /\ Resident(p)' /\ DOMAIN frames'[p] = 1..Need[p]
           /\ \A k \in 1..Need[p] : frames'[p][k] \in Frames
<1>1. /\ frames = [q \in Procs |-> frames[q]] /\ table = [q \in Procs |-> table[q]]
      /\ TypeInv
    BY DEF SoundInv, TypeInv
<1>2. PICK s \in Seq(Frames) :
         /\ Len(s) = Need[p] /\ DOMAIN s = 1..Need[p]
         /\ \A k, j \in DOMAIN s : s[k] = s[j] => k = j
         /\ \A q \in Procs : \A k \in DOMAIN s, j \in DOMAIN frames[q] :
               s[k] # frames[q][j]
         /\ frames' = [frames EXCEPT ![p] = s]
         /\ table' = [table EXCEPT ![p] = MapPages(table[p], s)]
    BY <1>1, GiveIs
<1>3. /\ frames'[p] = s /\ table'[p] = MapPages(table[p], s)
      /\ \A q \in Procs \ {p} : frames'[q] = frames[q] /\ table'[q] = table[q]
    BY <1>1, <1>2
<1>4. DOMAIN table[p] \subseteq {getPageIndices(i) : i \in Own(p)}
    BY DEF SoundInv, Mapped
<1>5. /\ DOMAIN MapPages(table[p], s) \subseteq {getPageIndices(i) : i \in Own(p)}
      /\ \A i \in Own(p) : SearchFrame(MapPages(table[p], s), i) = s[i + 1]
    BY <1>2, <1>4, MapPagesFinds
<1>6. Mapped(p)'
    BY <1>3, <1>5 DEF Mapped, SearchFrame
<1>7. \A k \in 1..Need[p] : s[k] \in Frames
    BY <1>2
<1>8. Resident(p)'
    BY <1>2, <1>3, OwnPages DEF Resident
<1> QED BY <1>2, <1>3, <1>6, <1>7, <1>8

LEMMA AdmitSound ==
    ASSUME SoundInv, TypeInv', Circumstances, NEW p \in Procs, Admit(p)
    PROVE  SoundInv'
<1> DEFINE l == [i \in Own(p) |-> mem[frames'[p][i + 1]]]
<1>1. /\ estado[p] = "NEW" /\ estado' = [estado EXCEPT ![p] = "READY"]
      /\ Give(p) /\ last' = [last EXCEPT ![p] = l]
      /\ UNCHANGED <<setting, running, mem, swap, cache, tlb>>
    BY DEF Admit, Becomes
<1>2. CachesForget(p) /\ TlbsForget(p) /\ \A d \in Cpus : running[d] # p
    BY <1>1, NothingKept
<1>3. estado'[p] = "READY" /\ \A q \in Procs \ {p} : estado'[q] = estado[q]
    BY <1>1 DEF SoundInv, TypeInv
<1>4. /\ \A q \in Procs \ {p} : frames'[q] = frames[q] /\ table'[q] = table[q]
      /\ \A k, j \in DOMAIN frames'[p] : frames'[p][k] = frames'[p][j] => k = j
      /\ \A q \in Procs \ {p} : \A k \in DOMAIN frames'[p], j \in DOMAIN frames[q] :
            frames'[p][k] # frames[q][j]
      /\ Mapped(p)' /\ Resident(p)'
    BY <1>1, GivenSound
<1>5. /\ last' = [q \in Procs |-> [j \in Own(q) |-> last'[q][j]]]
      /\ last'[p] = l /\ \A q \in Procs \ {p} : last'[q] = last[q]
    <2>1. l = [i \in Own(p) |-> l[i]]
        OBVIOUS
    <2> HIDE DEF l
    <2> QED BY <1>1, <2>1, LastStep
<1>6. OthersStay(p)
    BY <1>1, <1>3, <1>4, <1>5 DEF OthersStay
<1>7. Settled(p)' /\ MemSound(p)'
    <2>1. \A i \in Own(p) : mem'[frames'[p][i + 1]] = last'[p][i]
        BY <1>1, <1>5
    <2>2. swap'[p] = <<>>
        BY <1>1 DEF SoundInv, Settled
    <2> QED BY <1>3, <1>4, <2>1, <2>2 DEF Settled, Resident, MemSound
<1> QED BY <1>1, <1>2, <1>4, <1>5, <1>6, <1>7, MoveSound

LEMMA SwapOutSound ==
    ASSUME SoundInv, TypeInv', Pending, SwapOut
    PROVE  SoundInv'
<1>0. PICK p \in Procs : p = moving
    BY DEF SwapOut, Pending
<1>1. /\ estado[p] = "SUSPENDED" /\ Resident(p)
      /\ swap' = [swap EXCEPT ![p] =
                     [k \in DOMAIN frames[p] |-> mem[frames[p][k]]]]
      /\ frames' = [frames EXCEPT ![p] = <<>>]
      /\ table' = [table EXCEPT ![p] = MarkAbsent(@)]
      /\ UNCHANGED <<setting, estado, running, mem, cache, tlb, last>>
    BY <1>0 DEF SwapOut, Pending
<1>2. /\ CachesForget(p) /\ TlbsForget(p) /\ \A d \in Cpus : running[d] # p
      /\ \A i : ~Dirty(p, i)
    BY <1>1, NothingKept
<1>3. /\ frames = [q \in Procs |-> frames[q]] /\ table = [q \in Procs |-> table[q]]
      /\ swap = [q \in Procs |-> swap[q]]
    BY DEF SoundInv, TypeInv
<1>4. /\ frames'[p] = <<>> /\ table'[p] = MarkAbsent(table[p])
      /\ swap'[p] = [k \in DOMAIN frames[p] |-> mem[frames[p][k]]]
      /\ \A q \in Procs \ {p} : /\ frames'[q] = frames[q]
                               /\ table'[q] = table[q] /\ swap'[q] = swap[q]
    BY <1>1, <1>3
<1>5. OthersStay(p)
    BY <1>1, <1>4 DEF OthersStay
<1>6. last' = [q \in Procs |-> [j \in Own(q) |-> last'[q][j]]]
    BY <1>1 DEF SoundInv
<1>7. Mapped(p)'
    <2>1. Mapped(p) /\ DOMAIN MarkAbsent(table[p]) = DOMAIN table[p]
        BY DEF SoundInv, MarkAbsent
    <2> QED BY <1>4, <2>1 DEF Mapped, Resident
<1>8. Settled(p)' /\ MemSound(p)'
    <2>1. swap'[p] # <<>>
        <3>1. 0 + 1 \in DOMAIN swap'[p]
            BY <1>1, <1>4, OwnPages, FrameOf
        <3> QED BY <3>1
    <2>2. ASSUME NEW i \in Own(p) PROVE swap'[p][i + 1] = last'[p][i]
        <3>1. i + 1 \in DOMAIN frames[p]
            BY <1>1, FrameOf
        <3>2. mem[frames[p][i + 1]] = last[p][i]
            BY <1>1, <1>2 DEF SoundInv, MemSound
        <3> QED BY <1>1, <1>4, <3>1, <3>2
    <2> QED BY <1>1, <1>4, <2>1, <2>2 DEF Settled, MemSound, Resident
<1> QED BY <1>1, <1>2, <1>4, <1>5, <1>6, <1>7, <1>8, MoveSound

LEMMA SwapInSound ==
    ASSUME SoundInv, TypeInv', Circumstances, NEW p \in Procs, SwapIn(p)
    PROVE  SoundInv'
<1> DEFINE at(f) == CHOOSE k \in DOMAIN frames'[p] : frames'[p][k] = f
<1>1. /\ estado[p] = "SUSPENDED" /\ estado' = [estado EXCEPT ![p] = "READY"]
      /\ swap[p] # <<>> /\ Give(p)
      /\ mem' = [f \in Frames |-> IF f \in Range(frames'[p]) THEN swap[p][at(f)]
                                  ELSE mem[f]]
      /\ swap' = [swap EXCEPT ![p] = <<>>]
      /\ UNCHANGED <<setting, running, cache, tlb, last>>
    BY DEF SwapIn, Becomes
<1>2. CachesForget(p) /\ TlbsForget(p) /\ \A d \in Cpus : running[d] # p
    BY <1>1, NothingKept
<1>3. /\ estado'[p] = "READY" /\ swap'[p] = <<>>
      /\ \A q \in Procs \ {p} : estado'[q] = estado[q] /\ swap'[q] = swap[q]
    BY <1>1 DEF SoundInv, TypeInv
<1>4. /\ \A q \in Procs \ {p} : frames'[q] = frames[q] /\ table'[q] = table[q]
      /\ \A k, j \in DOMAIN frames'[p] : frames'[p][k] = frames'[p][j] => k = j
      /\ \A q \in Procs \ {p} : \A k \in DOMAIN frames'[p], j \in DOMAIN frames[q] :
            frames'[p][k] # frames[q][j]
      /\ Mapped(p)' /\ Resident(p)' /\ DOMAIN frames'[p] = 1..Need[p]
      /\ \A k \in 1..Need[p] : frames'[p][k] \in Frames
    BY <1>1, GivenSound
<1>5. last' = [q \in Procs |-> [j \in Own(q) |-> last'[q][j]]]
    BY <1>1 DEF SoundInv
<1>6. ASSUME NEW q \in Procs \ {p}, Resident(q), NEW j \in Own(q)
      PROVE  mem'[frames[q][j + 1]] = mem[frames[q][j + 1]]
    <2>1. j + 1 \in DOMAIN frames[q] /\ frames[q][j + 1] \in Frames
        BY <1>6, FrameOf
    <2>2. frames[q][j + 1] \notin Range(frames'[p])
        BY <1>4, <2>1 DEF Range
    <2> HIDE DEF at
    <2> QED BY <1>1, <2>1, <2>2
<1>7. OthersStay(p)
    BY <1>1, <1>3, <1>4, <1>6 DEF OthersStay
<1>8. Settled(p)' /\ MemSound(p)'
    <2>1. ASSUME NEW i \in Own(p) PROVE mem'[frames'[p][i + 1]] = last'[p][i]
        <3> DEFINE f == frames'[p][i + 1]
        <3>1. i + 1 \in DOMAIN frames'[p] /\ f \in Frames
            BY <1>4, OwnPages
        <3>2. f \in Range(frames'[p])
            BY <3>1 DEF Range
        <3>3. at(f) = i + 1
            BY <1>4, <3>1
        <3>4. swap[p][i + 1] = last[p][i]
            BY <1>1 DEF SoundInv, MemSound
        <3> HIDE DEF at, f
        <3>5. mem'[f] = swap[p][at(f)]
            BY <1>1, <3>1, <3>2
        <3> QED BY <1>1, <3>3, <3>4, <3>5 DEF f
    <2> QED BY <1>3, <1>4, <2>1 DEF Settled, Resident, MemSound
<1> HIDE DEF at
<1> QED BY <1>1, <1>2, <1>4, <1>5, <1>7, <1>8, MoveSound

LEMMA InitSound == Init => SoundInv /\ Pending
<1> SUFFICES ASSUME Init PROVE SoundInv /\ Pending
    OBVIOUS
<1>0. DOMAIN <<>> = {}
    OBVIOUS
<1>1. TypeInv
    BY InitTypes
<1>2. /\ \A p \in Procs :
            /\ estado[p] = "NEW" /\ frames[p] = <<>> /\ table[p] = <<>>
            /\ swap[p] = <<>> /\ last[p] = [i \in Own(p) |-> Blank]
      /\ \A c \in Cpus : running[c] = None /\ cache[c] = EmptyCache /\ tlb[c] = EmptyTlb
    BY DEF Init
<1>3. last = [p \in Procs |-> [i \in Own(p) |-> last[p][i]]]
    BY DEF Init
<1>4. OneEach /\ Disjoint
    <2>1. OneEach
        BY <1>2 DEF OneEach
    <2>2. \A p \in Procs : DOMAIN frames[p] = {}
        BY <1>0, <1>2, Zenon
    <2> QED BY <2>1, <2>2 DEF Disjoint
<1>5. ASSUME NEW p \in Procs PROVE Settled(p) /\ Mapped(p) /\ MemSound(p)
    <2>1. /\ estado[p] = "NEW" /\ frames[p] = <<>> /\ swap[p] = <<>>
          /\ DOMAIN table[p] = {}
        BY <1>0, <1>2, Zenon
    <2> QED BY <2>1 DEF Settled, Mapped, MemSound, Resident
<1>6. \A c \in Cpus : CacheSound(c) /\ TlbSound(c)
    BY <1>2 DEF CacheSound, TlbSound, EmptyCache, EmptyTlb
<1>7. Pending
    BY DEF Init, Pending
<1> QED BY <1>1, <1>3, <1>4, <1>5, <1>6, <1>7 DEF SoundInv

(* Only the PMP and Memory end a move, and the process moved stays where   *)
(* it is until then.                                                       *)
LEMMA PendingStep ==
    ASSUME SoundInv, Pending, Circumstances, [Next]_vars
    PROVE  Pending'
<1> DEFINE Stays == /\ moving' = moving
                    /\ moving # None => /\ estado'[moving] = estado[moving]
                                        /\ frames'[moving] = frames[moving]
<1>0. /\ estado \in [Procs -> Estados] /\ frames = [q \in Procs |-> frames[q]]
      /\ Waits = {"BLOCKED"}
    BY DEF SoundInv, TypeInv, Circumstances, Waits
<1>1. ASSUME NEW c \in Cpus, Execute(c) PROVE Stays
    <2>1. CASE (\E i \in Pages : Read(c, i)) \/ (\E i \in Pages, x \in Values : Write(c, i, x))
        BY <2>1 DEF Read, Write
    <2>2. CASE Preempt(c) \/ Syscall(c) \/ Exit(c) \/ LastInstruction(c)
        <3>0. estado[running[c]] = "EXEC" /\ running[c] # None
            <4>1. setting.noExit \subseteq Procs
                BY CpuMemoryAssumption DEF SoundInv, TypeInv
            <4> QED BY <2>2, <4>1, CpuMemoryAssumption
                    DEF Preempt, Syscall, Exit, LastInstruction, Becomes
        <3>1. PICK p \in Procs : p = running[c] /\ estado[p] = "EXEC"
            BY <3>0, RunningIs
        <3>2. /\ moving' = moving /\ \E to : estado' = [estado EXCEPT ![p] = to]
              /\ frames' = frames \/ frames' = [frames EXCEPT ![p] = <<>>]
            BY <2>2, <3>1 DEF Preempt, Syscall, Exit, LastInstruction, Becomes, Forget, memVars
        <3>3. moving # p
            BY <3>1, CpuMemoryAssumption DEF Pending
        <3> QED BY <1>0, <3>2, <3>3 DEF Pending
    <2> QED BY <1>1, <2>1, <2>2 DEF Execute
<1>2. ASSUME NEW p \in Procs, Schedule(p), ~AskPut(p) PROVE Stays
    <2>1. /\ moving' = moving /\ moving # p
          /\ \E to : estado' = [estado EXCEPT ![p] = to]
          /\ frames' = frames \/ \E s : frames' = [frames EXCEPT ![p] = s]
        BY <1>0, <1>2, CpuMemoryAssumption
           DEF Schedule, Admit, Unblock, Suspend, SwapIn, Resume, Withdraw, Dispatch,
               Becomes, Give, Forget, memVars, Pending
    <2> QED BY <1>0, <2>1 DEF Pending
<1>3. ASSUME NEW p \in Procs, AskPut(p) PROVE Pending'
    BY <1>3 DEF AskPut, memVars, Pending, Resident
<1>4. CASE SwapOut \/ SwapFails
    BY <1>4 DEF SwapOut, SwapFails, Pending
<1>5. CASE UNCHANGED vars
    BY <1>5 DEF vars, memVars, Pending, Resident
<1>6. Stays => Pending'
    BY DEF Pending, Resident
<1> HIDE DEF Stays
<1> QED BY <1>1, <1>2, <1>3, <1>4, <1>5, <1>6 DEF Next, Stays

LEMMA NextSound ==
    ASSUME Circumstances
    PROVE  SoundInv /\ Pending /\ [Next]_vars => SoundInv' /\ Pending'
<1> SUFFICES ASSUME SoundInv, Pending, [Next]_vars PROVE SoundInv' /\ Pending'
    OBVIOUS
<1>0. Pending'
    BY PendingStep
<1>1. TypeInv'
    BY NextTypes DEF SoundInv, Pending, MovingTyped
<1>2. ASSUME NEW c \in Cpus, Execute(c) PROVE SoundInv'
    <2>1. CASE \E i \in Pages : Read(c, i)
        BY <1>1, <2>1, ReadSound
    <2>2. CASE \E i \in Pages, v \in Values : Write(c, i, v)
        BY <1>1, <2>2, WriteSound
    <2>3. CASE Preempt(c)
        <3>1. running[c] \in Procs
            BY <2>3, RunningIs DEF Preempt
        <3> QED BY <1>1, <2>3, <3>1, RunsSound
    <2>4. CASE Syscall(c)
        BY <1>1, <2>4, SyscallSound
    <2>5. CASE Exit(c)
        BY <1>1, <2>5, ExitSound
    <2>6. CASE LastInstruction(c)
        BY <1>1, <2>6, LastInstructionSound
    <2> QED BY <1>2, <2>1, <2>2, <2>3, <2>4, <2>5, <2>6 DEF Execute
<1>3. ASSUME UNCHANGED <<setting, estado, running, frames, table, mem, swap, cache, tlb, last>>
      PROVE  SoundInv'
    <2>1. \A p \in Procs : Settled(p)' /\ Mapped(p)' /\ MemSound(p)'
        BY <1>3 DEF SoundInv, Settled, Mapped, MemSound, Resident, SearchFrame, Dirty, DirtyIn
    <2>2. \A c \in Cpus : CacheSound(c)' /\ TlbSound(c)'
        BY <1>3, ZenonT(40) DEF SoundInv, CacheSound, TlbSound, EntrySound, TranslationSound,
                    MayKeep, Current
    <2>3. OneEach' /\ Disjoint'
        BY <1>3 DEF SoundInv, OneEach, Disjoint
    <2> QED BY <1>1, <1>3, <2>1, <2>2, <2>3 DEF SoundInv
<1>4. ASSUME NEW p \in Procs, Schedule(p) PROVE SoundInv'
    <2>1. CASE Admit(p)
        BY <1>1, <2>1, AdmitSound
    <2>2. CASE Unblock(p) \/ Suspend(p) \/ Resume(p)
        BY <1>1, <2>2, WaitSound
    <2>3. CASE AskPut(p)
        BY <1>1, <1>3, <2>3 DEF AskPut, memVars
    <2>4. CASE SwapIn(p)
        BY <1>1, <2>4, SwapInSound
    <2>5. CASE Withdraw(p)
        BY <1>1, <2>5, WithdrawSound
    <2>6. CASE \E c \in Cpus : Dispatch(c, p)
        BY <1>1, <2>6, RunsSound
    <2> QED BY <1>4, <2>1, <2>2, <2>3, <2>4, <2>5, <2>6 DEF Schedule
<1>5. CASE SwapOut
    BY <1>0, <1>1, <1>5, SwapOutSound
<1>6. CASE SwapFails \/ UNCHANGED vars
    BY <1>0, <1>3, <1>6 DEF SwapFails, vars, memVars
<1> QED BY <1>0, <1>2, <1>4, <1>5, <1>6 DEF Next

(* A process that runs has each of its pages at an address and reads there *)
(* what it wrote last, whatever was replaced, preempted, swapped or ended  *)
(* in between, where the circumstances hold: among them, that no wait ends *)
(* in READY after its timer has suspended the process (cache_service.go,   *)
(* mmu_tlb.go, cpu_services.go).                                           *)
THEOREM ProcessesReadTheirWrites ==
    ASSUME Circumstances PROVE Spec => []ReadsLastWrite
<1>1. ASSUME SoundInv PROVE ReadsLastWrite
    <2> SUFFICES ASSUME NEW c \in Cpus, running[c] # None, NEW i \in Own(running[c])
                 PROVE  /\ Translate(c, running[c], i).frame # -1
                        /\ Returns(c, running[c], i) = last[running[c]][i]
        BY DEF ReadsLastWrite
    <2> DEFINE p == running[c]
    <2>0. Translate(c, p, i).frame # -1
        <3>1. Translate(c, p, i).frame = frames[p][i + 1]
            BY <1>1, Translated
        <3>2. frames[p][i + 1] \in Frames
            BY <1>1, RunningIs, FrameOf
        <3> QED BY <3>1, <3>2, CpuMemoryAssumption
    <2>1. CASE <<p, i>> \in DOMAIN cache[c].map
        <3>1. PICK k \in DOMAIN cache[c].entries :
                 /\ getEntryKey(cache[c].entries[k]) = <<p, i>>
                 /\ cache[c].map[<<p, i>>] = k
            <4>1. KeyedBy(cache[c].map, cache[c].entries)
                BY <1>1, EntryTypes
            <4>2. PICK k \in DOMAIN cache[c].entries :
                     getEntryKey(cache[c].entries[k]) = <<p, i>>
                BY <2>1, <4>1 DEF KeyedBy
            <4>3. cache[c].map[getEntryKey(cache[c].entries[k])] = k
                BY <4>1 DEF KeyedBy
            <4> QED BY <4>2, <4>3
        <3>2. /\ cache[c].entries[k].pid = p /\ cache[c].entries[k].page = i
              /\ EntrySound(c, cache[c].entries[k])
            BY <1>1, <3>1 DEF getEntryKey, SoundInv, CacheSound
        <3>3. cache[c].entries[k].content = last[p][i]
            BY <3>2 DEF EntrySound
        <3>4. IsEnabled
            <4>1. Len(cache[c].entries) <= setting.cacheEntries
                  /\ cache[c].entries \in Seq(Entries)
                BY <1>1, EntryTypes DEF CacheShape
            <4>2. setting.cacheEntries \in Nat
                BY <1>1, SettingType DEF SoundInv, TypeInv
            <4> QED BY <3>1, <4>1, <4>2 DEF IsEnabled
        <3> QED BY <2>0, <2>1, <3>1, <3>3, <3>4 DEF Returns
    <2>2. CASE <<p, i>> \notin DOMAIN cache[c].map
        <3>1. Translate(c, p, i).frame = frames[p][i + 1]
            BY <1>1, Translated
        <3>2. mem[frames[p][i + 1]] = last[p][i]
            BY <1>1, <2>2, MissedIsInMemory
        <3> QED BY <2>0, <2>2, <3>1, <3>2 DEF Returns
    <2> QED BY <2>1, <2>2
<1>2. Spec => [](SoundInv /\ Pending)
    BY InitSound, NextSound, PTL DEF Spec
<1> QED BY <1>1, <1>2, PTL

(* A process that waits has everything it wrote in its frames, where the   *)
(* dump and the swap take it from, or in the swap file, and there only     *)
(* once it is suspended (cpu_services.go:71-84), where the circumstances   *)
(* hold: among them, that no wait ends in READY after its timer has        *)
(* suspended the process.                                                  *)
THEOREM WhatWaitsIsInMemory ==
    ASSUME Circumstances PROVE Spec => []WaitingIsWrittenBack
<1>1. ASSUME SoundInv PROVE WaitingIsWrittenBack
    <2>1. ASSUME NEW p \in Procs, estado[p] \in {"BLOCKED", "SUSPENDED"},
                 NEW i \in Own(p), swap[p] = <<>>
          PROVE  mem[SearchFrame(table[p], i)] = last[p][i]
        <3>1. Resident(p)
            BY <1>1, <2>1 DEF SoundInv, Settled, Resident
        <3>2. SearchFrame(table[p], i) = frames[p][i + 1]
            BY <1>1, <2>1, <3>1, Searched
        <3>3. ~Dirty(p, i)
            <4>1. \A c \in Cpus : ~MayKeep(c, p)
                BY <1>1, <2>1, KeepersRun
            <4> QED BY <1>1, <4>1, ZenonT(40) DEF SoundInv, CacheSound, EntrySound, Dirty, DirtyIn
        <3> QED BY <1>1, <2>1, <3>1, <3>2, <3>3 DEF SoundInv, MemSound
    <2>2. ASSUME NEW p \in Procs, NEW i \in Own(p), swap[p] # <<>>
          PROVE  swap[p][i + 1] = last[p][i]
        BY <1>1, <2>2 DEF SoundInv, MemSound
    <2>3. \A p \in Procs : estado[p] = "BLOCKED" => swap[p] = <<>>
        BY <1>1 DEF SoundInv, Settled
    <2> QED BY <2>1, <2>2, <2>3 DEF WaitingIsWrittenBack
<1>2. Spec => [](SoundInv /\ Pending)
    BY InitSound, NextSound, PTL DEF Spec
<1> QED BY <1>1, <1>2, PTL
=============================================================================
