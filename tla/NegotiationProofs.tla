-------------------------- MODULE NegotiationProofs --------------------------
(***************************************************************************)
(* The inductive invariant of Controller, for any number of ranks, any     *)
(* cache, any set of requests and any use of join() and shutdown: where    *)
(* every outstanding request is, what the caches hold, and how far apart   *)
(* the ranks can be.  Each action is shown to keep it.                     *)
(***************************************************************************)
EXTENDS Controller, FusionProofs

-----------------------------------------------------------------------------
(* The response cache.                                                     *)

\* What a cache may remember of a reduction.
Entries == {Entry(q.name, type, q) : q \in Requests, type \in Reductions}

\* A cache with room for its entries and one entry for a name.
GoodCache(c) ==
    /\ c \in Seq(Entries)
    /\ Len(c) <= Capacity
    /\ \A i, j \in DOMAIN c : c[i].name = c[j].name => i = j

\* A good cache is a function on its bits.
LEMMA CacheBits ==
    ASSUME NEW c, GoodCache(c)
    PROVE  /\ DOMAIN c = 1 .. Len(c) /\ Len(c) \in Nat
           /\ \A i \in DOMAIN c : c[i] \in Entries
           /\ IsInjective(c)
           /\ \A i \in DOMAIN c : peek_cache_bit(c, c[i].name) = i
           /\ \A n \in CachedNames(c) :
                 peek_cache_bit(c, n) \in DOMAIN c /\ c[peek_cache_bit(c, n)].name = n
<1>1. c \in Seq(Entries) BY DEF GoodCache
<1>2. DOMAIN c = 1 .. Len(c) /\ Len(c) \in Nat /\ \A i \in DOMAIN c : c[i] \in Entries
  BY <1>1
<1>3. IsInjective(c) BY DEF GoodCache, IsInjective
<1>4. \A i \in DOMAIN c : peek_cache_bit(c, c[i].name) = i
  BY DEF GoodCache, peek_cache_bit
<1>5. \A n \in CachedNames(c) :
         peek_cache_bit(c, n) \in DOMAIN c /\ c[peek_cache_bit(c, n)].name = n
  BY DEF CachedNames, peek_cache_bit
<1> QED BY <1>2, <1>3, <1>4, <1>5

\* A hit is an entry with the parameters of the request.
LEMMA HitIsEntry ==
    ASSUME NEW c, GoodCache(c), NEW q
    PROVE  /\ cached(c, q) \in {"HIT", "MISS", "INVALID"}
           /\ cached(c, q) = "MISS" <=> q.name \notin CachedNames(c)
           /\ \A i \in DOMAIN c : c[i].name = q.name =>
                 (cached(c, q) = "HIT" <=> c[i].dtype = q.dtype /\ c[i].shape = q.shape)
<1>1. \A i \in DOMAIN c : c[i].name = q.name =>
         q.name \in CachedNames(c) /\ peek_cache_bit(c, q.name) = i
  BY CacheBits DEF CachedNames
<1> QED BY <1>1 DEF cached

\* The entries at some bits make a good cache.
LEMMA SomeEntries ==
    ASSUME NEW c, GoodCache(c), NEW P \in SUBSET (DOMAIN c)
    PROVE  /\ At(c, P) \in Seq(Entries)
           /\ IsFiniteSet(P) /\ Len(At(c, P)) = Cardinality(P)
           /\ Cardinality(P) \in Nat /\ Cardinality(P) <= Len(c)
           /\ \A k \in DOMAIN At(c, P) : \E i \in P : At(c, P)[k] = c[i]
           /\ \A i \in P : \E k \in DOMAIN At(c, P) : At(c, P)[k] = c[i]
           /\ \A k, l \in DOMAIN At(c, P) :
                 At(c, P)[k].name = At(c, P)[l].name => k = l
<1>1. /\ c \in Seq(Entries) /\ Len(c) \in Nat /\ DOMAIN c = 1 .. Len(c) /\ IsInjective(c)
      /\ \A i, j \in DOMAIN c : c[i].name = c[j].name => i = j
  BY CacheBits DEF GoodCache
<1>2. /\ At(c, P) \in Seq(Entries)
      /\ ToSet(At(c, P)) = {c[i] : i \in P}
      /\ \A k \in DOMAIN At(c, P) : \E i \in P : At(c, P)[k] = c[i]
      /\ IsInjective(At(c, P))
      /\ IsFiniteSet(P) /\ Len(At(c, P)) = Cardinality(P)
  BY <1>1, AtElements
<1>3. Cardinality(P) \in Nat /\ Cardinality(P) <= Len(c)
  <2>1. P \in SUBSET (1 .. Len(c)) BY <1>1
  <2> QED BY <1>1, <2>1, UpTo
<1>4. \A i \in P : \E k \in DOMAIN At(c, P) : At(c, P)[k] = c[i]
  BY <1>2 DEF ToSet
<1>5. \A k, l \in DOMAIN At(c, P) : At(c, P)[k].name = At(c, P)[l].name => k = l
  BY <1>1, <1>2 DEF IsInjective
<1> QED BY <1>2, <1>3, <1>4, <1>5

\* Erasing entries leaves the others.
LEMMA EraseKeeps ==
    ASSUME NEW c, GoodCache(c), NEW bits
    PROVE  /\ GoodCache(EraseBits(c, bits))
           /\ \A k \in DOMAIN EraseBits(c, bits) :
                 \E i \in DOMAIN c \ bits : EraseBits(c, bits)[k] = c[i]
           /\ \A i \in DOMAIN c \ bits :
                 \E k \in DOMAIN EraseBits(c, bits) : EraseBits(c, bits)[k] = c[i]
           /\ bits = {} => EraseBits(c, bits) = c
<1> DEFINE P == DOMAIN c \ bits
<1>1. P \in SUBSET (DOMAIN c) /\ EraseBits(c, bits) = At(c, P) BY DEF EraseBits
<1>2. Len(c) <= Capacity /\ Len(c) \in Nat /\ c \in Seq(Entries) BY CacheBits DEF GoodCache
<1>3. bits = {} => At(c, P) = c
  BY <1>2, AtElements
<1> HIDE DEF P
<1>4. GoodCache(At(c, P))
  BY <1>1, <1>2, SomeEntries, CapacityAssumption DEF GoodCache
<1>5. /\ \A k \in DOMAIN At(c, P) : \E i \in P : At(c, P)[k] = c[i]
      /\ \A i \in P : \E k \in DOMAIN At(c, P) : At(c, P)[k] = c[i]
  BY <1>1, SomeEntries
<1> QED BY <1>1, <1>3, <1>4, <1>5 DEF P

\* Moving entries to the end keeps all of them.
LEMMA MoveKeeps ==
    ASSUME NEW c, GoodCache(c), NEW bits \in SUBSET (DOMAIN c)
    PROVE  /\ GoodCache(MoveToBack(c, bits))
           /\ CachedNames(MoveToBack(c, bits)) = CachedNames(c)
           /\ ToSet(MoveToBack(c, bits)) = ToSet(c)
<1> DEFINE P == DOMAIN c \ bits
           a == At(c, P)
           b == At(c, bits)
           m == MoveToBack(c, bits)
<1>1. P \in SUBSET (DOMAIN c) OBVIOUS
<1>2. m = a \o b BY DEF MoveToBack
<1>3. /\ a \in Seq(Entries) /\ IsFiniteSet(P) /\ Len(a) = Cardinality(P)
      /\ \A k \in DOMAIN a : \E i \in P : a[k] = c[i]
      /\ \A i \in P : \E k \in DOMAIN a : a[k] = c[i]
      /\ \A k, l \in DOMAIN a : a[k].name = a[l].name => k = l
  BY <1>1, SomeEntries
<1>4. /\ b \in Seq(Entries) /\ IsFiniteSet(bits) /\ Len(b) = Cardinality(bits)
      /\ \A k \in DOMAIN b : \E i \in bits : b[k] = c[i]
      /\ \A i \in bits : \E k \in DOMAIN b : b[k] = c[i]
      /\ \A k, l \in DOMAIN b : b[k].name = b[l].name => k = l
  BY SomeEntries
<1>5. Cardinality(P) + Cardinality(bits) = Len(c)
  <2>1. DOMAIN c = 1 .. Len(c) /\ Len(c) \in Nat BY CacheBits
  <2>2. IsFiniteSet(DOMAIN c) /\ Cardinality(DOMAIN c) = Len(c)
    BY <2>1, UpTo
  <2>3. DOMAIN c \cap bits = bits OBVIOUS
  <2>4. Cardinality(P) = Cardinality(DOMAIN c) - Cardinality(bits)
    <3>1. PICK D : D = DOMAIN c OBVIOUS
    <3>2. IsFiniteSet(D) BY <2>2, <3>1
    <3>3. Cardinality(D \ bits) = Cardinality(D) - Cardinality(D \cap bits)
      BY <3>2, FS_Difference
    <3> QED BY <2>3, <3>1, <3>3
  <2>5. Cardinality(bits) \in Nat BY <1>4, FS_CardinalityType
  <2> HIDE DEF P
  <2> QED BY <2>1, <2>2, <2>4, <2>5
<1> HIDE DEF P, a, b, m
<1>6. /\ m \in Seq(Entries) /\ Len(m) = Len(a) + Len(b)
      /\ Len(a) \in Nat /\ Len(b) \in Nat /\ DOMAIN a = 1 .. Len(a) /\ DOMAIN b = 1 .. Len(b)
  <2>1. a \in Seq(Entries) /\ b \in Seq(Entries) BY <1>3, <1>4
  <2> QED BY <1>2, <2>1, ConcatElements
<1>7. \A k \in DOMAIN a : k \in DOMAIN m /\ m[k] = a[k]
  BY <1>2, <1>3, <1>4, ConcatElements
<1>8. \A l \in DOMAIN b : Len(a) + l \in DOMAIN m /\ m[Len(a) + l] = b[l]
  BY <1>2, <1>3, <1>4, ConcatElements
<1>9. \A k \in DOMAIN m : k \in DOMAIN a \/ \E l \in DOMAIN b : k = Len(a) + l
  BY <1>2, <1>3, <1>4, ConcatElements
<1>10. \A k \in DOMAIN a, l \in DOMAIN b : a[k].name # b[l].name
  <2> SUFFICES ASSUME NEW k \in DOMAIN a, NEW l \in DOMAIN b, a[k].name = b[l].name
               PROVE  FALSE
    OBVIOUS
  <2>1. PICK i \in P : a[k] = c[i] BY <1>3
  <2>2. PICK j \in bits : b[l] = c[j] BY <1>4
  <2>3. i \in DOMAIN c /\ j \in DOMAIN c /\ i # j BY DEF P
  <2> QED BY <2>1, <2>2, <2>3 DEF GoodCache
<1>11. \A k, l \in DOMAIN m : m[k].name = m[l].name => k = l
  <2> SUFFICES ASSUME NEW k \in DOMAIN m, NEW l \in DOMAIN m, m[k].name = m[l].name
               PROVE  k = l
    OBVIOUS
  <2>1. CASE k \in DOMAIN a /\ l \in DOMAIN a
    BY <2>1, <1>3, <1>6, <1>7
  <2>2. CASE k \in DOMAIN a /\ \E y \in DOMAIN b : l = Len(a) + y
    BY <2>2, <1>6, <1>7, <1>8, <1>10
  <2>3. CASE l \in DOMAIN a /\ \E y \in DOMAIN b : k = Len(a) + y
    BY <2>3, <1>6, <1>7, <1>8, <1>10
  <2>4. ASSUME NEW x \in DOMAIN b, NEW y \in DOMAIN b, k = Len(a) + x, l = Len(a) + y
        PROVE  k = l
    BY <2>4, <1>4, <1>6, <1>8
  <2> QED BY <1>9, <2>1, <2>2, <2>3, <2>4
<1>12. Len(m) <= Capacity
  BY <1>3, <1>4, <1>5, <1>6 DEF GoodCache
<1>13. \A k \in DOMAIN m : \E i \in DOMAIN c : m[k] = c[i]
  <2> TAKE k \in DOMAIN m
  <2>1. CASE k \in DOMAIN a
    <3>1. PICK i \in P : a[k] = c[i] BY <2>1, <1>3
    <3> QED BY <2>1, <3>1, <1>7 DEF P
  <2>2. ASSUME NEW l \in DOMAIN b, k = Len(a) + l PROVE \E i \in DOMAIN c : m[k] = c[i]
    BY <2>2, <1>4, <1>6, <1>8
  <2> QED BY <1>9, <2>1, <2>2
<1>14. \A i \in DOMAIN c : \E k \in DOMAIN m : m[k] = c[i]
  <2> TAKE i \in DOMAIN c
  <2>1. CASE i \in bits
    <3>1. PICK l \in DOMAIN b : b[l] = c[i] BY <2>1, <1>4
    <3>2. Len(a) + l \in DOMAIN m BY <1>6
    <3> QED BY <3>1, <3>2, <1>6, <1>8
  <2>2. CASE i \notin bits
    <3>1. PICK k \in DOMAIN a : a[k] = c[i] BY <2>2, <1>3 DEF P
    <3>2. k \in DOMAIN m BY <1>6
    <3> QED BY <3>1, <3>2, <1>6, <1>7
  <2> QED BY <2>1, <2>2
<1>15. CachedNames(m) = CachedNames(c)
  BY <1>13, <1>14 DEF CachedNames
<1>16. ToSet(m) = ToSet(c)
  BY <1>13, <1>14 DEF ToSet
<1> QED BY <1>6, <1>11, <1>12, <1>15, <1>16 DEF GoodCache, m

\* put_ keeps a cache good and adds at most the name of the entry.
LEMMA PutOneKeeps ==
    ASSUME Capacity > 0, NEW c, GoodCache(c), NEW e \in Entries
    PROVE  /\ GoodCache(put_(c, e))
           /\ CachedNames(put_(c, e)) \subseteq CachedNames(c) \cup {e.name}
           /\ ToSet(put_(c, e)) \subseteq ToSet(c) \cup {e}
<1>1. CASE e.name \in CachedNames(c)
  <2>1. put_(c, e) = MoveToBack(c, {peek_cache_bit(c, e.name)}) BY <1>1 DEF put_
  <2>2. {peek_cache_bit(c, e.name)} \in SUBSET (DOMAIN c) BY <1>1, CacheBits
  <2> QED BY <2>1, <2>2, MoveKeeps
<1>2. CASE e.name \notin CachedNames(c)
  <2> DEFINE d == IF Len(c) = Capacity THEN Tail(c) ELSE c
             m == Append(d, e)
  <2>1. put_(c, e) = m BY <1>2 DEF put_
  <2>2. /\ c \in Seq(Entries) /\ Len(c) \in Nat /\ Len(c) <= Capacity /\ DOMAIN c = 1 .. Len(c)
        /\ \A i, j \in DOMAIN c : c[i].name = c[j].name => i = j
    BY CacheBits DEF GoodCache
  <2>3. /\ d \in Seq(Entries) /\ Len(d) < Capacity /\ Len(d) \in Nat
        /\ \A k, l \in DOMAIN d : d[k].name = d[l].name => k = l
        /\ \A k \in DOMAIN d : \E i \in DOMAIN c : d[k] = c[i]
    <3>1. CASE Len(c) = Capacity
      <4>1. d = Tail(c) /\ c # <<>> BY <3>1, <2>2
      <4>2. /\ d \in Seq(Entries) /\ Len(d) = Len(c) - 1 /\ DOMAIN d = 1 .. Len(c) - 1
            /\ \A k \in DOMAIN d : k + 1 \in DOMAIN c /\ d[k] = c[k + 1]
        <5>1. c \in Seq(Entries) /\ c # <<>> BY <4>1, <2>2
        <5> HIDE DEF d, m, Entries
        <5> QED BY <4>1, <5>1, TailElements
      <4>3. Len(d) < Capacity /\ Len(d) \in Nat
        BY <4>2, <3>1, <2>2, CapacityAssumption
      <4>4. \A k \in DOMAIN d : k \in Int BY <4>2
      <4> HIDE DEF d
      <4>5. \A k, l \in DOMAIN d : d[k].name = d[l].name => k = l
        <5> SUFFICES ASSUME NEW k \in DOMAIN d, NEW l \in DOMAIN d, d[k].name = d[l].name
                     PROVE  k = l
          OBVIOUS
        <5>1. k + 1 = l + 1 BY <2>2, <4>2
        <5> QED BY <4>4, <5>1
      <4> QED BY <4>2, <4>3, <4>5
    <3>2. CASE Len(c) # Capacity
      <4>1. d = c BY <3>2
      <4>2. Len(c) < Capacity
        <5>1. Len(c) \in Nat /\ Len(c) <= Capacity BY <2>2
        <5>2. Capacity \in Nat BY CapacityAssumption
        <5> HIDE DEF d, m
        <5> QED BY <3>2, <5>1, <5>2
      <4> HIDE DEF d
      <4> QED BY <4>1, <4>2, <2>2
    <3> QED BY <3>1, <3>2
  <2> HIDE DEF d
  <2>6. /\ m \in Seq(Entries) /\ Len(m) = Len(d) + 1
        /\ Len(d) + 1 \in DOMAIN m /\ m[Len(d) + 1] = e
        /\ \A k \in DOMAIN d : k \in DOMAIN m /\ m[k] = d[k]
        /\ \A k \in DOMAIN m : k = Len(d) + 1 \/ k \in DOMAIN d
    BY <2>3, AppendElements
  <2> HIDE DEF m
  <2>7. Len(m) <= Capacity BY <2>3, <2>6, CapacityAssumption
  <2>8. \A k \in DOMAIN d : d[k].name # e.name
    BY <1>2, <2>3 DEF CachedNames
  <2>9. \A k, l \in DOMAIN m : m[k].name = m[l].name => k = l
    BY <2>3, <2>6, <2>8
  <2>10. CachedNames(m) \subseteq CachedNames(c) \cup {e.name}
    BY <2>3, <2>6 DEF CachedNames
  <2>11. ToSet(m) \subseteq ToSet(c) \cup {e}
    BY <2>3, <2>6 DEF ToSet
  <2> QED BY <2>1, <2>6, <2>7, <2>9, <2>10, <2>11 DEF GoodCache
<1> QED BY <1>1, <1>2

\* g holds the caches that put goes through.
Puts(c, entries, g) ==
    /\ g[0] = c
    /\ \A i \in 1 .. Len(entries) : g[i] = put_(g[i - 1], entries[i])
    /\ put(c, entries) = g[Len(entries)]

\* put goes through some caches.
LEMMA PutsExist ==
    ASSUME NEW c, NEW entries, Len(entries) \in Nat
    PROVE  \E g : Puts(c, entries, g)
<1> DEFINE n == Len(entries)
<1> DEFINE After(g, i) == IF i = 0 THEN c ELSE put_(g[i - 1], entries[i])
           S == {m \in 0 .. n : \E g : \A i \in 0 .. m : g[i] = After(g, i)}
<1>1. 0 \in S
  <2> DEFINE g == [i \in 0 .. 0 |-> c]
  <2>1. \A i \in 0 .. 0 : g[i] = After(g, i) OBVIOUS
  <2> HIDE DEF g, After
  <2> QED BY <2>1
<1>2. ASSUME NEW m \in 1 .. n, m - 1 \in S PROVE m \in S
  <2>1. PICK g : \A i \in 0 .. m - 1 : g[i] = After(g, i)
    BY <1>2
  <2> DEFINE h == [i \in 0 .. m |-> IF i = m THEN After(g, m) ELSE g[i]]
  <2>2. ASSUME NEW i \in 0 .. m PROVE h[i] = After(h, i)
    <3>1. i # 0 => i - 1 \in 0 .. m - 1 /\ h[i - 1] = g[i - 1] OBVIOUS
    <3>2. After(h, i) = After(g, i) BY <3>1
    <3>3. CASE i = m BY <3>2, <3>3
    <3>4. CASE i # m
      <4>1. i \in 0 .. m - 1 BY <3>4
      <4> QED BY <2>1, <3>2, <3>4, <4>1
    <3> QED BY <3>3, <3>4
  <2> HIDE DEF After, h
  <2>3. m \in 0 .. n OBVIOUS
  <2> QED BY <2>2, <2>3
<1>3. 0 .. n \subseteq S
  <2> HIDE DEF S
  <2> QED BY <1>1, <1>2, UpToInduction
<1>4. PICK g : \A i \in 0 .. n : g[i] = After(g, i)
  <2>1. n \in S
    <3> n \in 0 .. n OBVIOUS
    <3> HIDE DEF S
    <3> QED BY <1>3
  <2> QED BY <2>1
<1> DEFINE Body(f) == [i \in 0 .. n |-> IF i = 0 THEN c ELSE put_(f[i - 1], entries[i])]
           f0 == [i \in 0 .. n |-> g[i]]
           h == CHOOSE f : f = Body(f)
<1>5. f0 = Body(f0)
  <2>1. ASSUME NEW i \in 0 .. n PROVE g[i] = After(f0, i)
    <3>1. i # 0 => i - 1 \in 0 .. n /\ f0[i - 1] = g[i - 1] OBVIOUS
    <3> QED BY <1>4, <3>1
  <2> QED BY <2>1
<1>6. h = Body(h)
  <2> HIDE DEF Body, f0
  <2> QED BY <1>5
<1>7. put(c, entries) = h[n]
  BY DEF put
<1> HIDE DEF h
<1>8. \A i \in 0 .. n : h[i] = After(h, i)
  BY <1>6
<1>9. h[0] = c /\ \A i \in 1 .. n : h[i] = put_(h[i - 1], entries[i])
  BY <1>8
<1> QED BY <1>7, <1>9 DEF Puts

\* put keeps a cache good and adds at most the names of the entries.
LEMMA PutKeeps ==
    ASSUME Capacity > 0, NEW c, GoodCache(c), NEW entries \in Seq(Entries)
    PROVE  /\ GoodCache(put(c, entries))
           /\ CachedNames(put(c, entries)) \subseteq CachedNames(c) \cup CachedNames(entries)
           /\ ToSet(put(c, entries)) \subseteq ToSet(c) \cup ToSet(entries)
<1> DEFINE n == Len(entries)
<1>1. n \in Nat /\ DOMAIN entries = 1 .. n /\ \A i \in 1 .. n : entries[i] \in Entries
  OBVIOUS
<1>0. PICK g : Puts(c, entries, g)
  BY <1>1, PutsExist
<1>2. /\ g[0] = c
      /\ \A i \in 1 .. n : g[i] = put_(g[i - 1], entries[i])
      /\ put(c, entries) = g[n]
  BY <1>0 DEF Puts
<1> DEFINE Good(i) == GoodCache(g[i])
                      /\ CachedNames(g[i]) \subseteq CachedNames(c) \cup CachedNames(entries)
                      /\ ToSet(g[i]) \subseteq ToSet(c) \cup ToSet(entries)
           S == {i \in 0 .. n : Good(i)}
<1> HIDE DEF n
<1>3. 0 \in S BY <1>1, <1>2
<1>4. ASSUME NEW i \in 1 .. n, i - 1 \in S PROVE i \in S
  <2>1. g[i] = put_(g[i - 1], entries[i]) /\ entries[i] \in Entries /\ i \in 0 .. n
    BY <1>1, <1>2
  <2>2. entries[i].name \in CachedNames(entries) /\ entries[i] \in ToSet(entries)
    BY <1>1 DEF CachedNames, ToSet
  <2>3. Good(i - 1) BY <1>4
  <2>4. GoodCache(g[i]) /\ CachedNames(g[i]) \subseteq CachedNames(g[i - 1]) \cup {entries[i].name}
        /\ ToSet(g[i]) \subseteq ToSet(g[i - 1]) \cup {entries[i]}
    BY <2>1, <2>3, PutOneKeeps
  <2> QED BY <2>1, <2>2, <2>3, <2>4
<1>5. 0 .. n \subseteq S
  <2> HIDE DEF S
  <2> QED BY <1>1, <1>3, <1>4, UpToInduction
<1>6. Good(n)
  <2>1. n \in 0 .. n BY <1>1
  <2> QED BY <1>5, <2>1
<1> QED BY <1>2, <1>6

-----------------------------------------------------------------------------
(* Fusion, seen from a rank.                                               *)

\* The name under which a rank waits in join().
J == JOIN_TENSOR_NAME

\* The types that a response can have.
ResponseTypes == {"ALLREDUCE", "ADASUM", "ALLGATHER", "BROADCAST", "ERROR", "JOIN"}

\* The tensors of a response.
NamesIn(response) == ToSet(response.names)

\* The tensor of a response to one tensor.
TensorOf(response) == Head(response.names)

\* Responses to one tensor each, none to the same.
OneEach(responses) ==
    /\ responses \in Seq(Response)
    /\ \A i \in DOMAIN responses :
          /\ TensorOf(responses[i]) \in Names \cup {J}
          /\ responses[i].names = <<TensorOf(responses[i])>>
    /\ \A i, j \in DOMAIN responses :
          TensorOf(responses[i]) = TensorOf(responses[j]) => i = j

\* The list has the tensors of the responses, each once, in responses of the
\* same type and with the same devices; a reduction has the sizes of the
\* response to its first tensor.
Merged(responses, list) ==
    /\ list \in Seq(Response)
    /\ \A k \in DOMAIN list :
          /\ list[k].names # <<>> /\ IsInjective(list[k].names)
          /\ \A n \in NamesIn(list[k]) : \E i \in DOMAIN responses :
                /\ TensorOf(responses[i]) = n
                /\ responses[i].type = list[k].type
                /\ responses[i].devices = list[k].devices
          /\ list[k].type \in Reductions => \E i \in DOMAIN responses :
                /\ TensorOf(responses[i]) = Head(list[k].names)
                /\ responses[i].type = list[k].type
                /\ responses[i].sizes = list[k].sizes
    /\ \A i \in DOMAIN responses : \E k \in DOMAIN list :
          TensorOf(responses[i]) \in NamesIn(list[k])
    /\ \A k, l \in DOMAIN list : NamesIn(list[k]) \cap NamesIn(list[l]) # {} => k = l

\* A list that is not fused.
LEMMA UnfusedIsMerged ==
    ASSUME NEW responses, OneEach(responses)
    PROVE  Merged(responses, responses)
<1>1. \A i \in DOMAIN responses :
         /\ responses[i].names = <<TensorOf(responses[i])>>
         /\ NamesIn(responses[i]) = {TensorOf(responses[i])}
         /\ responses[i].names # <<>> /\ IsInjective(responses[i].names)
  <2> TAKE i \in DOMAIN responses
  <2>1. responses[i].names = <<TensorOf(responses[i])>> BY DEF OneEach
  <2> HIDE DEF TensorOf
  <2>2. ToSet(<<TensorOf(responses[i])>>) = {TensorOf(responses[i])}
        /\ IsInjective(<<TensorOf(responses[i])>>)
        /\ <<TensorOf(responses[i])>> # <<>>
    BY DEF ToSet, IsInjective
  <2> QED BY <2>1, <2>2 DEF NamesIn
<1> HIDE DEF TensorOf, NamesIn
<1>2. /\ responses \in Seq(Response)
      /\ \A i, j \in DOMAIN responses :
            TensorOf(responses[i]) = TensorOf(responses[j]) => i = j
  BY DEF OneEach
<1>3. \A k, l \in DOMAIN responses : NamesIn(responses[k]) \cap NamesIn(responses[l]) # {} => k = l
  BY <1>1, <1>2
<1>4. \A k \in DOMAIN responses : \A n \in NamesIn(responses[k]) : n = TensorOf(responses[k])
  BY <1>1
<1>5. \A i \in DOMAIN responses : TensorOf(responses[i]) \in NamesIn(responses[i])
  BY <1>1
<1>6. \A i \in DOMAIN responses : TensorOf(responses[i]) = Head(responses[i].names)
  BY DEF TensorOf
<1> QED BY <1>1, <1>2, <1>3, <1>4, <1>5, <1>6 DEF Merged

\* Fused loses no tensor, and repeats none.
LEMMA FusedIsMerged ==
    ASSUME NEW r, NEW responses, OneEach(responses)
    PROVE  Merged(responses, Fused(r, responses))
<1>1. CASE \E i \in DOMAIN responses : LookupFails(r, Head(responses[i].names))
  BY <1>1, UnfusedIsMerged DEF Fused
<1>2. CASE ~\E i \in DOMAIN responses : LookupFails(r, Head(responses[i].names))
  <2> DEFINE items == [i \in DOMAIN responses |-> Item(r, responses[i])]
             I == {Item(r, responses[i]) : i \in DOMAIN responses}
             N == Names \cup {J}
             n == Len(responses)
             list == Fused(r, responses)
  <2>1. list = FuseResponses(items, Threshold) BY <1>2 DEF Fused
  <2>2. n \in Nat /\ DOMAIN responses = 1 .. n
        /\ \A i \in DOMAIN responses : responses[i] \in Response
    BY DEF OneEach
  <2>3. items \in Seq(I) /\ Len(items) = n /\ DOMAIN items = 1 .. n
    BY <2>2
  <2>4. \A i \in DOMAIN responses : items[i].response = responses[i]
    BY DEF Item
  <2>5. Response = Responses(ResponseTypes, N, SUBSET Rank, Nat)
    BY DEF Response, Responses, ResponseTypes, J
  <2>6. Single(I, ResponseTypes, N, SUBSET Rank, Nat)
    <3> SUFFICES ASSUME NEW i \in DOMAIN responses
                 PROVE  LET x == Item(r, responses[i])
                        IN  /\ x.response \in Responses(ResponseTypes, N, SUBSET Rank, Nat)
                            /\ NameOf(x) \in N
                            /\ x.response.names = <<NameOf(x)>>
      BY DEF Single
    <3>1. Item(r, responses[i]).response = responses[i] BY DEF Item
    <3>2. /\ TensorOf(responses[i]) \in N
          /\ responses[i].names = <<TensorOf(responses[i])>>
      BY DEF OneEach
    <3> QED BY <2>2, <2>5, <3>1, <3>2 DEF NameOf, TensorOf
  <2> HIDE DEF items, I, N, list
  <2>7. list \in Seq(Response) /\ \E src : Arranged(items, Threshold, list, src)
    BY <2>1, <2>3, <2>5, <2>6, FuseArranges
  <2>8. PICK src : Arranged(items, Threshold, list, src)
    BY <2>7
  <2> DEFINE m == Len(list)
  <2>9. m \in Nat /\ DOMAIN list = 1 .. m BY <2>7
  <2>10. ASSUME NEW k \in 1 .. m
         PROVE  /\ src[k] \in Seq(1 .. n) /\ DOMAIN src[k] = 1 .. Len(src[k]) /\ Len(src[k]) \in Nat
                /\ 1 \in DOMAIN src[k]
                /\ list[k].type = responses[src[k][1]].type
                /\ list[k].devices = responses[src[k][1]].devices
                /\ list[k].names = [x \in 1 .. Len(src[k]) |-> TensorOf(responses[src[k][x]])]
                /\ \A x \in DOMAIN src[k] :
                      /\ src[k][x] \in DOMAIN responses
                      /\ responses[src[k][x]].type = list[k].type
                      /\ responses[src[k][x]].devices = list[k].devices
                /\ Increasing(src[k])
                /\ list[k].type # "ALLGATHER" => list[k].sizes = responses[src[k][1]].sizes
    <3>1. Covers(items, Threshold, list[k], src[k])
      BY <2>8 DEF Arranged, Laid
    <3>2. src[k] \in Seq(1 .. n) /\ Len(src[k]) > 0 /\ Increasing(src[k])
      BY <2>3, <3>1 DEF Covers
    <3>3. /\ DOMAIN src[k] = 1 .. Len(src[k]) /\ Len(src[k]) \in Nat /\ 1 \in DOMAIN src[k]
          /\ \A x \in DOMAIN src[k] : src[k][x] \in DOMAIN responses
      BY <2>2, <3>2
    <3>4. \A x \in DOMAIN src[k] :
            /\ NameOf(items[src[k][x]]) = TensorOf(responses[src[k][x]])
            /\ items[src[k][x]].response = responses[src[k][x]]
      BY <2>4, <3>3 DEF NameOf, TensorOf
    <3>5. /\ list[k].type = responses[src[k][1]].type
          /\ list[k].devices = responses[src[k][1]].devices
          /\ list[k].type # "ALLGATHER" => list[k].sizes = responses[src[k][1]].sizes
      BY <3>1, <3>3, <3>4 DEF Covers
    <3>6. \A x \in DOMAIN src[k] :
            /\ responses[src[k][x]].type = list[k].type
            /\ responses[src[k][x]].devices = list[k].devices
      BY <3>1, <3>3, <3>4, <3>5 DEF Covers, SameClass
    <3>7. list[k].names = [x \in 1 .. Len(src[k]) |-> TensorOf(responses[src[k][x]])]
      <4>1. list[k].names = [x \in 1 .. Len(src[k]) |-> NameOf(items[src[k][x]])]
        BY <3>1 DEF Covers
      <4> QED BY <3>3, <3>4, <4>1
    <3> QED BY <3>2, <3>3, <3>5, <3>6, <3>7
  <2> HIDE DEF m, n
  <2>11. \A i, j \in DOMAIN responses : TensorOf(responses[i]) = TensorOf(responses[j]) => i = j
    BY DEF OneEach
  <2>12. ASSUME NEW k \in 1 .. m
         PROVE  /\ DOMAIN list[k].names = DOMAIN src[k]
                /\ \A x \in DOMAIN src[k] : list[k].names[x] = TensorOf(responses[src[k][x]])
                /\ NamesIn(list[k]) = {TensorOf(responses[src[k][x]]) : x \in DOMAIN src[k]}
                /\ Len(list[k].names) = Len(src[k])
    <3>1. /\ list[k].names = [x \in 1 .. Len(src[k]) |-> TensorOf(responses[src[k][x]])]
          /\ DOMAIN src[k] = 1 .. Len(src[k]) /\ Len(src[k]) \in Nat
      BY <2>10
    <3> HIDE DEF list, TensorOf
    <3>2. /\ DOMAIN list[k].names = 1 .. Len(src[k])
          /\ \A x \in 1 .. Len(src[k]) : list[k].names[x] = TensorOf(responses[src[k][x]])
      BY <3>1
    <3>3. NamesIn(list[k]) = {list[k].names[x] : x \in 1 .. Len(src[k])}
      BY <3>2 DEF NamesIn, ToSet
    <3>4. Len(list[k].names) = Len(src[k])
      BY <3>1
    <3> QED BY <3>1, <3>2, <3>3, <3>4
  <2>13. ASSUME NEW k \in DOMAIN list
         PROVE  /\ list[k].names # <<>> /\ IsInjective(list[k].names)
                /\ \A z \in NamesIn(list[k]) : \E i \in DOMAIN responses :
                      /\ TensorOf(responses[i]) = z
                      /\ responses[i].type = list[k].type
                      /\ responses[i].devices = list[k].devices
                /\ list[k].type \in Reductions => \E i \in DOMAIN responses :
                      /\ TensorOf(responses[i]) = Head(list[k].names)
                      /\ responses[i].type = list[k].type
                      /\ responses[i].sizes = list[k].sizes
    <3>0. k \in 1 .. m BY <2>9
    <3>1. list[k].names # <<>>
      <4>1. 1 \in DOMAIN list[k].names BY <3>0, <2>10, <2>12
      <4>2. DOMAIN <<>> = {} OBVIOUS
      <4> QED BY <4>1, <4>2
    <3>2. IsInjective(list[k].names)
      <4> SUFFICES ASSUME NEW x \in DOMAIN src[k], NEW y \in DOMAIN src[k],
                          list[k].names[x] = list[k].names[y]
                   PROVE  x = y
        BY <3>0, <2>12 DEF IsInjective
      <4>1. src[k][x] = src[k][y] /\ src[k][x] \in Nat /\ x \in Nat /\ y \in Nat
        <5>1. src[k][x] \in DOMAIN responses /\ src[k][y] \in DOMAIN responses
          BY <3>0, <2>10
        <5>2. TensorOf(responses[src[k][x]]) = TensorOf(responses[src[k][y]])
          BY <3>0, <2>12
        <5>3. src[k][x] = src[k][y] BY <5>1, <5>2, <2>11
        <5>4. DOMAIN src[k] = 1 .. Len(src[k]) /\ Len(src[k]) \in Nat BY <3>0, <2>10
        <5> QED BY <5>1, <5>3, <5>4, <2>2
      <4>2. ~(x < y) /\ ~(y < x)
        <5>1. Increasing(src[k]) BY <3>0, <2>10
        <5> QED BY <4>1, <5>1 DEF Increasing
      <4> QED BY <4>1, <4>2
    <3>3. \A z \in NamesIn(list[k]) : \E i \in DOMAIN responses :
              /\ TensorOf(responses[i]) = z
              /\ responses[i].type = list[k].type
              /\ responses[i].devices = list[k].devices
      <4> TAKE z \in NamesIn(list[k])
      <4>1. PICK x \in DOMAIN src[k] : z = TensorOf(responses[src[k][x]])
        BY <3>0, <2>12
      <4> QED BY <3>0, <4>1, <2>10
    <3>4. ASSUME list[k].type \in Reductions
          PROVE  LET i == src[k][1]
                 IN  /\ i \in DOMAIN responses
                     /\ TensorOf(responses[i]) = Head(list[k].names)
                     /\ responses[i].type = list[k].type
                     /\ responses[i].sizes = list[k].sizes
      <4>1. 1 \in DOMAIN src[k] /\ list[k].type # "ALLGATHER"
        BY <3>0, <3>4, <2>10 DEF Reductions
      <4>2. Head(list[k].names) = TensorOf(responses[src[k][1]])
        BY <3>0, <3>1, <4>1, <2>12
      <4> QED BY <3>0, <4>1, <4>2, <2>10
    <3> QED BY <3>1, <3>2, <3>3, <3>4
  <2>14. ASSUME NEW i \in DOMAIN responses
         PROVE  \E k \in DOMAIN list : TensorOf(responses[i]) \in NamesIn(list[k])
    <3>1. i \in 1 .. Len(items) BY <2>2, <2>3
    <3>2. PICK k \in 1 .. m : \E x \in DOMAIN src[k] : src[k][x] = i
      BY <2>8, <3>1 DEF Arranged, m
    <3> QED BY <2>9, <2>12, <3>2
  <2>15. ASSUME NEW k \in DOMAIN list, NEW l \in DOMAIN list,
                NamesIn(list[k]) \cap NamesIn(list[l]) # {}
         PROVE  k = l
    <3>0. k \in 1 .. m /\ l \in 1 .. m /\ k \in Nat /\ l \in Nat BY <2>9
    <3>1. PICK x \in DOMAIN src[k], y \in DOMAIN src[l] :
            TensorOf(responses[src[k][x]]) = TensorOf(responses[src[l][y]])
      <4>1. PICK z : z \in NamesIn(list[k]) /\ z \in NamesIn(list[l]) BY <2>15
      <4>2. /\ NamesIn(list[k]) = {TensorOf(responses[src[k][x]]) : x \in DOMAIN src[k]}
            /\ NamesIn(list[l]) = {TensorOf(responses[src[l][x]]) : x \in DOMAIN src[l]}
        BY <2>12, <3>0
      <4> HIDE DEF TensorOf, NamesIn
      <4>3. \E x \in DOMAIN src[k] : z = TensorOf(responses[src[k][x]])
        BY <4>1, <4>2
      <4>4. \E y \in DOMAIN src[l] : z = TensorOf(responses[src[l][y]])
        BY <4>1, <4>2
      <4> QED BY <4>3, <4>4
    <3>2. src[k][x] \in DOMAIN responses /\ src[l][y] \in DOMAIN responses
      BY <2>10, <3>0
    <3>3. src[k][x] = src[l][y] BY <2>11, <3>1, <3>2
    <3>4. ~(k < l) BY <2>8, <3>0, <3>3 DEF Arranged, Laid, Apart, m
    <3>5. ~(l < k) BY <2>8, <3>0, <3>3 DEF Arranged, Laid, Apart, m
    <3> QED BY <3>0, <3>4, <3>5
  <2> QED BY <2>7, <2>13, <2>14, <2>15 DEF Merged, list
<1> QED BY <1>1, <1>2

\* Ranks with the same tensors fuse alike.
LEMMA FusedAlike ==
    ASSUME NEW q \in Rank, NEW r \in Rank, NEW responses,
           \A i \in DOMAIN responses :
              LET n == TensorOf(responses[i])
              IN  /\ n # J /\ n \in Outstanding(q) /\ n \in Outstanding(r)
                  /\ table[q][n].dtype = table[r][n].dtype
                  /\ table[q][n].shape = table[r][n].shape
    PROVE  Fused(q, responses) = Fused(r, responses)
<1>1. \A i \in DOMAIN responses : /\ ~LookupFails(q, Head(responses[i].names))
                                  /\ ~LookupFails(r, Head(responses[i].names))
  <2> TAKE i \in DOMAIN responses
  <2>1. TensorOf(responses[i]) \in Outstanding(q) /\ TensorOf(responses[i]) \in Outstanding(r)
    OBVIOUS
  <2> QED BY <2>1 DEF LookupFails, Outstanding, TensorOf, J
<1>2. \A i \in DOMAIN responses : Item(q, responses[i]) = Item(r, responses[i])
  BY DEF Item, TensorOf, RequestBytes
<1>3. [i \in DOMAIN responses |-> Item(q, responses[i])]
        = [i \in DOMAIN responses |-> Item(r, responses[i])]
  BY <1>2
<1> QED BY <1>1, <1>3 DEF Fused

-----------------------------------------------------------------------------
(* The invariant.                                                          *)

\* Where a rank can be in its cycle.
Phases == {"perform", "sync", "ready", "stopped", "dead"}

\* The tables of outstanding requests.
Tables == UNION {[S -> Requests \cup {JoinRequest}] : S \in SUBSET (Names \cup {J})}

\* The variables have the types of the model.
Typed ==
    /\ table \in [Rank -> Tables]
    /\ queue \in [Rank -> Seq(Names \cup {J})]
    /\ shutDown \in [Rank -> BOOLEAN]
    /\ left \in [Rank -> 0 .. MaxSubmit]
    /\ phase \in [Rank -> Phases]
    /\ msgs \in [Rank -> Seq(Names \cup {J})]
    /\ coord \in [Rank -> [hits : SUBSET Nat, invalid : SUBSET Nat,
                           uncached : BOOLEAN, shut : BOOLEAN]]
    /\ cache \in [Rank -> Seq(Entries)]
    /\ stalled \in [Rank -> SUBSET Names]
    /\ joined \in [Rank -> BOOLEAN]
    /\ todo \in [Rank -> Seq(Response)]
    /\ stop \in [Rank -> BOOLEAN]
    /\ cachedHits \in Seq(Response)
    /\ messageTable \in [Names -> SUBSET Rank]
    /\ joinedSize \in Nat

\* The tensor table holds requests under their names; a rank that waits in
\* join() has no other.
TableOK(r) ==
    /\ IsFiniteSet(Outstanding(r))
    /\ \A n \in Outstanding(r) :
          /\ n # J => table[r][n] \in Requests /\ table[r][n].name = n
          /\ n = J => table[r][n] = JoinRequest /\ Outstanding(r) = {J} /\ r \in JoinRanks

\* A response that ends a join() comes alone and reaches ranks that joined.
TodoOK(r) ==
    \A i \in DOMAIN todo[r] :
        /\ todo[r][i].type = "JOIN" =>
              todo[r][i].names = <<J>> /\ joined[r] /\ Len(todo[r]) = 1
        /\ todo[r][i].type # "JOIN" => NamesIn(todo[r][i]) \subseteq Names

\* What a rank holds at each place in its cycle.
PhasesOK ==
    /\ \A r \in Rank :
          /\ phase[r] \in {"perform", "stopped"} => msgs[r] = <<>>
          /\ phase[r] # "perform" => todo[r] = <<>>
          /\ phase[r] = "dead" =>
                r = 0 /\ \A q \in Rank : q # 0 => phase[q] = "ready"
          /\ phase[r] = "sync" => Capacity > 0
    /\ cachedHits # <<>> =>
          Capacity > 0 /\ \A r \in Rank : phase[r] \in {"ready", "dead"}

\* Where the requests of rank r are: in its queue, in its messages, counted by
\* the coordinator, in a response, or in a response from the cache.
Q(r) == ToSet(queue[r])
M(r) == ToSet(msgs[r])
Counted(r) == {n \in Names : r \in messageTable[n]}
InList(list) == UNION {NamesIn(list[i]) : i \in DOMAIN list}
Once(list) == \A i, j \in DOMAIN list : NamesIn(list[i]) \cap NamesIn(list[j]) # {} => i = j

\* Every outstanding request is in one of these places, and in only one.
Located(r) ==
    /\ IsInjective(queue[r]) /\ IsInjective(msgs[r])
    /\ Q(r) \subseteq Outstanding(r)
    /\ M(r) \subseteq Outstanding(r)
    /\ Counted(r) \subseteq Outstanding(r)
    /\ InList(cachedHits) \subseteq Outstanding(r)
    /\ ~joined[r] => InList(todo[r]) \subseteq Outstanding(r)
    /\ \A n \in Outstanding(r) : n # J =>
          \/ n \in Q(r) \/ n \in M(r) \/ n \in Counted(r)
          \/ n \in InList(todo[r]) \/ n \in InList(cachedHits)
    /\ Q(r) \cap M(r) = {}
    /\ Counted(r) \cap Q(r) = {} /\ Counted(r) \cap M(r) = {}
    /\ \A n \in InList(cachedHits) : n \notin Q(r) /\ n \notin M(r) /\ n \notin Counted(r)
    /\ \A n \in InList(todo[r]) : n \notin Q(r) /\ n \notin M(r) /\ n \notin Counted(r)
    /\ Once(todo[r]) /\ Once(cachedHits)

\* A rank has joined from the cycle that takes its join() from the queue.
JoinsOK(r) ==
    /\ joined[r] => Outstanding(r) = {J} /\ J \notin Q(r)
    /\ ~joined[r] /\ J \in Outstanding(r) => J \in Q(r)
    /\ ~joined[r] => J \notin M(r)

\* Rank r is told that all ranks have joined.
HasJoin(r) == \E i \in DOMAIN todo[r] : todo[r][i].type = "JOIN"

\* The ranks whose join() the coordinator has counted.
CountedJoins == {r \in Rank : joined[r] /\ J \notin M(r) /\ ~HasJoin(r)}

\* The coordinator counts right, and forgets the joins when all ranks joined.
JoinCount == joinedSize = Cardinality(CountedJoins) /\ joinedSize < Size

\* What a rank brings into the exchange of the cache bits still holds.
HitNames(r) == {n \in M(r) : cached(cache[r], table[r][n]) = "HIT"}
InvalidNames(r) == {n \in M(r) : cached(cache[r], table[r][n]) = "INVALID"}

\* They are what the rank set its bits for, and a request that is not in the
\* cache makes it ask for the slow path.
SyncHolds(r) ==
    phase[r] = "sync" =>
        /\ coord[r].hits = Bits(r, HitNames(r))
        /\ Bits(r, InvalidNames(r)) \subseteq coord[r].invalid
        /\ coord[r].invalid \subseteq DOMAIN cache[r]
        /\ coord[r].invalid # {} \/ M(r) # HitNames(r) => coord[r].uncached

\* What is negotiated, now or in an earlier cycle, is not in the cache.
Uncached ==
    /\ \A n \in Names, r \in Rank : messageTable[n] # {} => n \notin CachedNames(cache[r])
    /\ \A r \in Rank : phase[r] \in {"ready", "dead"} => M(r) \cap CachedNames(cache[r]) = {}

\* What an entry says still holds of the tensor of every rank.
Stands(e) == \A r \in Rank : table[r][e.name].dtype = e.dtype /\ table[r][e.name].shape = e.shape

\* The hits that wait for the negotiated responses are such entries.
HitsStand ==
    \A i \in DOMAIN cachedHits : \E e \in ToSet(cache[0]) :
        cachedHits[i] = CachedResponse(e) /\ Stands(e)

\* The ranks that perform have the ends of one list of responses.
SameEnd(s, t) ==
    Len(s) <= Len(t) => \A i \in DOMAIN s : s[i] = t[Len(t) - Len(s) + i]

\* They are at different places of it.
Aligned == \A q, r \in Rank : phase[q] = "perform" /\ phase[r] = "perform" => SameEnd(todo[q], todo[r])

\* Only requests that are waiting can be overdue.
Waits(r) ==
    /\ phase[r] = "sync" => stalled[r] \subseteq Q(r) \cup M(r)
    /\ phase[r] \notin {"sync", "stopped"} => stalled[r] \subseteq Q(r)
    /\ phase[r] # "stopped" => (StallCheck /\ Capacity > 0) \/ stalled[r] = {}

\* Only ranks that join let a thread fail, and never for a missing tensor.
FaultOK == fault \in {"none", "devices", "fuse"} /\ (fault # "none" => JoinRanks # {})

\* The inductive invariant: each part is needed for another one.
Inv ==
    /\ Typed
    /\ \A r \in Rank : TableOK(r) /\ GoodCache(cache[r]) /\ TodoOK(r)
    /\ PhasesOK
    /\ \A r \in Rank : phase[r] # "stopped" => Located(r) /\ JoinsOK(r)
    /\ JoinCount
    /\ \A r \in Rank : SyncHolds(r)
    /\ Uncached
    /\ HitsStand
    /\ \A r \in Rank : Waits(r)
    /\ CacheConsistent
    /\ Aligned
    /\ FaultOK

-----------------------------------------------------------------------------
\* A request that rank r submits.
LEMMA AddKeeps ==
    ASSUME Inv, NEW r \in Rank, NEW q \in Requests \cup {JoinRequest}, Add(r, q),
           left[r] > 0, q.name \notin Outstanding(r), J \notin Outstanding(r),
           q = JoinRequest => Outstanding(r) = {} /\ r \in JoinRanks
    PROVE  Inv'
<1> DEFINE n == q.name
<1>0. /\ n \in Names \cup {J}
      /\ n = J => q = JoinRequest
      /\ n # J => q \in Requests
  BY RequestsAssumption DEF Names, J, JoinRequest
<1>1. /\ Typed
      /\ \A p \in Rank : TableOK(p) /\ GoodCache(cache[p]) /\ TodoOK(p)
      /\ PhasesOK
      /\ \A p \in Rank : phase[p] # "stopped" => Located(p) /\ JoinsOK(p)
      /\ JoinCount /\ (\A p \in Rank : SyncHolds(p)) /\ Uncached /\ HitsStand
      /\ (\A p \in Rank : Waits(p)) /\ CacheConsistent /\ Aligned /\ FaultOK
  BY DEF Inv
<1>2. /\ UNCHANGED <<shutDown, phase, msgs, coord, cache, stalled, joined, todo,
                     stop, cachedHits, messageTable, joinedSize, fault>>
      /\ table' = [table EXCEPT ![r] =
                    [m \in Outstanding(r) \cup {n} |-> IF m = n THEN q ELSE table[r][m]]]
      /\ queue' = [queue EXCEPT ![r] = Append(queue[r], n)]
      /\ left' = [left EXCEPT ![r] = left[r] - 1]
  BY DEF Add, Outstanding, coordVars
<1> HIDE DEF n
<1>3. /\ \A p \in Rank : p # r => table'[p] = table[p] /\ queue'[p] = queue[p]
      /\ table'[r] = [m \in Outstanding(r) \cup {n} |-> IF m = n THEN q ELSE table[r][m]]
      /\ queue'[r] = Append(queue[r], n)
  BY <1>1, <1>2 DEF Typed
<1>4. /\ Outstanding(r)' = Outstanding(r) \cup {n}
      /\ table'[r][n] = q
      /\ \A m \in Outstanding(r) : table'[r][m] = table[r][m]
      /\ \A p \in Rank : p # r => Outstanding(p)' = Outstanding(p)
      /\ \A p \in Rank : \A m \in Outstanding(p) : table'[p][m] = table[p][m]
  <2>1. n \notin Outstanding(r) BY DEF n
  <2> QED BY <1>3, <2>1 DEF Outstanding
<1>5. /\ queue[r] \in Seq(Names \cup {J})
      /\ Q(r)' = Q(r) \cup {n}
      /\ IsInjective(queue[r]) /\ n \notin Q(r) => IsInjective(queue'[r])
      /\ queue'[r] \in Seq(Names \cup {J})
      /\ \A p \in Rank : p # r => Q(p)' = Q(p)
  <2>1. queue[r] \in Seq(Names \cup {J}) BY <1>1 DEF Typed
  <2>2. ToSet(Append(queue[r], n)) = ToSet(queue[r]) \cup {n}
    BY <1>0, <2>1, AppendSet
  <2>3. IsInjective(queue[r]) /\ n \notin ToSet(queue[r]) => IsInjective(Append(queue[r], n))
    BY <1>0, <2>1, AppendSet
  <2>4. Append(queue[r], n) \in Seq(Names \cup {J}) BY <1>0, <2>1
  <2> QED BY <1>3, <2>1, <2>2, <2>3, <2>4 DEF Q
<1>6. Typed'
  <2>1. table' \in [Rank -> Tables]
    <3>1. table \in [Rank -> Tables] BY <1>1 DEF Typed
    <3>2. PICK S \in SUBSET (Names \cup {J}) : table[r] \in [S -> Requests \cup {JoinRequest}]
      BY <3>1 DEF Tables
    <3>3. Outstanding(r) = S BY <3>2 DEF Outstanding
    <3>4. Outstanding(r) \cup {n} \in SUBSET (Names \cup {J}) BY <1>0, <3>3
    <3>5. table'[r] \in [Outstanding(r) \cup {n} -> Requests \cup {JoinRequest}]
      BY <1>3, <3>2, <3>3
    <3>6. table'[r] \in Tables BY <3>4, <3>5 DEF Tables
    <3> HIDE DEF Tables
    <3> QED BY <1>2, <1>3, <3>1, <3>6
  <2>2. queue' \in [Rank -> Seq(Names \cup {J})]
    BY <1>1, <1>2, <1>3, <1>5 DEF Typed
  <2>3. left' \in [Rank -> 0 .. MaxSubmit]
    <3>1. left \in [Rank -> 0 .. MaxSubmit] /\ left[r] \in 0 .. MaxSubmit BY <1>1 DEF Typed
    <3>2. left[r] - 1 \in 0 .. MaxSubmit BY <3>1, MaxSubmitAssumption
    <3> QED BY <1>2, <3>1, <3>2
  <2> QED BY <1>1, <1>2, <2>1, <2>2, <2>3 DEF Typed
<1>7. ASSUME NEW p \in Rank PROVE TableOK(p)'
  <2>1. CASE p # r BY <1>1, <1>3, <1>4, <2>1 DEF TableOK
  <2>2. CASE p = r
    <3>1. \A m \in Outstanding(r) : m # J /\ table[r][m] \in Requests /\ table[r][m].name = m
      BY <1>1 DEF TableOK
    <3>2. n = J => Outstanding(r)' = {J} /\ r \in JoinRanks BY <1>0, <1>4
    <3>3. n # J => q \in Requests /\ q.name = n BY <1>0 DEF n
    <3>4. IsFiniteSet(Outstanding(r)) BY <1>1 DEF TableOK
    <3>5. IsFiniteSet(Outstanding(r) \cup {n}) BY <3>4, FS_AddElement
    <3>6. IsFiniteSet(Outstanding(r)') BY <1>4, <3>5
    <3> QED BY <1>0, <1>4, <2>2, <3>1, <3>2, <3>3, <3>6 DEF TableOK
  <2> QED BY <2>1, <2>2
<1>8. \A p \in Rank : GoodCache(cache[p])' /\ TodoOK(p)'
  BY <1>1, <1>2 DEF GoodCache, TodoOK
<1>9. PhasesOK'
  BY <1>1, <1>2 DEF PhasesOK
<1>10. ASSUME NEW p \in Rank, phase'[p] # "stopped" PROVE Located(p)' /\ JoinsOK(p)'
  <2>0. Located(p) /\ JoinsOK(p) BY <1>1, <1>2, <1>10
  <2>1. /\ M(p)' = M(p) /\ Counted(p)' = Counted(p) /\ joined' = joined
        /\ InList(cachedHits)' = InList(cachedHits)
        /\ todo' = todo /\ cachedHits' = cachedHits /\ msgs' = msgs
    BY <1>2 DEF M, Counted, InList
  <2>2. CASE p # r
    BY <2>0, <2>1, <2>2, <1>3, <1>4, <1>5 DEF Located, JoinsOK
  <2>3. CASE p = r
    <3>1. n \notin Outstanding(r) BY DEF n
    <3>2. ~joined[r] BY <2>0, <2>3 DEF JoinsOK
    <3>3. InList(todo[r]) \subseteq Outstanding(r) BY <2>0, <2>3, <3>2 DEF Located
    <3>4. Located(r)'
      BY <2>0, <2>1, <2>3, <1>4, <1>5, <3>1, <3>2, <3>3 DEF Located
    <3>5. J \notin M(r) BY <2>0, <2>3, <3>2 DEF JoinsOK
    <3>6. JoinsOK(r)'
      BY <2>0, <2>1, <2>3, <1>4, <1>5, <3>2, <3>5 DEF JoinsOK
    <3> QED BY <2>3, <3>4, <3>6
  <2> QED BY <2>2, <2>3
<1>11. JoinCount'
  BY <1>1, <1>2 DEF JoinCount, CountedJoins, M, HasJoin
<1>12. ASSUME NEW p \in Rank PROVE SyncHolds(p)'
  <2> SUFFICES ASSUME phase[p] = "sync"
               PROVE  /\ coord[p].hits = Bits(p, HitNames(p))'
                      /\ Bits(p, InvalidNames(p))' \subseteq coord[p].invalid
                      /\ coord[p].invalid \subseteq DOMAIN cache[p]
                      /\ coord[p].invalid # {} \/ M(p)' # HitNames(p)' => coord[p].uncached
    BY <1>2 DEF SyncHolds
  <2>1. M(p) \subseteq Outstanding(p) BY <1>1 DEF Located
  <2>2. M(p)' = M(p) /\ cache' = cache BY <1>2 DEF M
  <2>3. HitNames(p)' = HitNames(p) BY <1>4, <2>1, <2>2 DEF HitNames
  <2>4. InvalidNames(p)' = InvalidNames(p) BY <1>4, <2>1, <2>2 DEF InvalidNames
  <2>5. \A S : Bits(p, S)' = Bits(p, S) BY <2>2 DEF Bits
  <2>6. Bits(p, HitNames(p))' = Bits(p, HitNames(p)) BY <2>2, <2>3 DEF Bits
  <2>7. Bits(p, InvalidNames(p))' = Bits(p, InvalidNames(p)) BY <2>2, <2>4 DEF Bits
  <2> QED BY <1>1, <2>2, <2>3, <2>6, <2>7 DEF SyncHolds
<1>13. Uncached'
  BY <1>1, <1>2 DEF Uncached, M
<1>14. HitsStand'
  <2> SUFFICES ASSUME NEW i \in DOMAIN cachedHits
               PROVE  \E e \in ToSet(cache[0]) : cachedHits[i] = CachedResponse(e) /\ Stands(e)'
    BY <1>2 DEF HitsStand
  <2>1. PICK e \in ToSet(cache[0]) : cachedHits[i] = CachedResponse(e) /\ Stands(e)
    BY <1>1 DEF HitsStand
  <2>2. e.name \in InList(cachedHits)
    BY <2>1 DEF InList, NamesIn, CachedResponse, ToSet
  <2>3. cachedHits # <<>>
    <3>1. DOMAIN <<>> = {} OBVIOUS
    <3> QED BY <3>1
  <2>4. \A p \in Rank : phase[p] # "stopped" BY <1>1, <2>3 DEF PhasesOK
  <2>5. \A p \in Rank : e.name \in Outstanding(p) BY <1>1, <2>2, <2>4 DEF Located
  <2>6. Stands(e)' BY <1>4, <2>1, <2>5 DEF Stands
  <2> QED BY <2>1, <2>6
<1>15. \A p \in Rank : Waits(p)'
  BY <1>1, <1>2, <1>5 DEF Waits, M
<1>16. CacheConsistent' /\ Aligned' /\ FaultOK'
  BY <1>1, <1>2 DEF CacheConsistent, Aligned, FaultOK
<1> QED BY <1>6, <1>7, <1>8, <1>9, <1>10, <1>11, <1>12, <1>13, <1>14, <1>15, <1>16 DEF Inv

\* The parts of the invariant, to cite without their definitions.
LEMMA InvParts ==
    ASSUME Inv
    PROVE  /\ Typed
           /\ \A p \in Rank : TableOK(p) /\ GoodCache(cache[p]) /\ TodoOK(p)
           /\ PhasesOK
           /\ \A p \in Rank : phase[p] # "stopped" => Located(p) /\ JoinsOK(p)
           /\ JoinCount /\ (\A p \in Rank : SyncHolds(p)) /\ Uncached /\ HitsStand
           /\ (\A p \in Rank : Waits(p)) /\ CacheConsistent /\ Aligned /\ FaultOK
BY DEF Inv

\* Requests keep their names away from the name of join().
LEMMA JoinIsNoName == J \notin Names
BY RequestsAssumption DEF Names, J

\* Cached names are names of requests.
LEMMA CachedAreNames ==
    ASSUME NEW c, GoodCache(c)
    PROVE  CachedNames(c) \subseteq Names
<1> SUFFICES ASSUME NEW i \in DOMAIN c PROVE c[i].name \in Names
  BY DEF CachedNames
<1>1. c[i] \in Entries BY CacheBits
<1> QED BY <1>1 DEF Entries, Entry, Names

\* A program asks for a shutdown.
LEMMA ShutdownKeeps ==
    ASSUME Inv, NEW r \in Rank, HorovodShutdown(r)
    PROVE  Inv'
<1>1. /\ shutDown' = [shutDown EXCEPT ![r] = TRUE]
      /\ UNCHANGED <<table, queue, left, phase, msgs, coord, cache, stalled,
                     joined, todo, stop, cachedHits, messageTable, joinedSize, fault>>
  BY DEF HorovodShutdown, coordVars
<1>2. Typed' BY <1>1 DEF Inv, Typed
<1>3. \A p \in Rank : /\ TableOK(p)' = TableOK(p) /\ GoodCache(cache[p])' = GoodCache(cache[p])
                      /\ TodoOK(p)' = TodoOK(p) /\ SyncHolds(p)' = SyncHolds(p)
                      /\ Waits(p)' = Waits(p) /\ JoinsOK(p)' = JoinsOK(p)
                      /\ Outstanding(p)' = Outstanding(p) /\ Counted(p)' = Counted(p)
                      /\ M(p)' = M(p) /\ Q(p)' = Q(p)
  BY <1>1 DEF TableOK, GoodCache, TodoOK, SyncHolds, Waits, JoinsOK, Outstanding,
     Counted, M, Q, HitNames, InvalidNames, Bits
<1>4. \A p \in Rank : Located(p)' = Located(p)
  BY <1>1, <1>3 DEF Located
<1>5. PhasesOK' /\ JoinCount' /\ Uncached' /\ HitsStand' /\ CacheConsistent' /\ Aligned' /\ FaultOK'
  BY <1>1, <1>3 DEF Inv, PhasesOK, JoinCount, CountedJoins, HasJoin, M, Uncached, HitsStand, Stands,
     CacheConsistent, Aligned, FaultOK
<1> QED BY <1>1, <1>2, <1>3, <1>4, <1>5 DEF Inv

\* Rank r begins a cycle.
LEMMA PopKeeps ==
    ASSUME Inv, NEW r \in Rank, Pop(r)
    PROVE  Inv' /\ fault' = fault
<1> USE InvParts
<1>1. PICK stall \in StallResults(r) :
        /\ coord' = [coord EXCEPT ![r] =
              [hits     |-> Bits(r, InState(r, "HIT")),
               invalid  |-> BitsToErase(r, stall.overdue),
               uncached |-> ToSet(queue[r]) # InState(r, "HIT") \/ stall.overdue # {},
               shut     |-> shutDown[r] \/ stall.shut]]
        /\ phase' = [phase EXCEPT ![r] =
              IF stall.overdue \ CachedNames(cache[r]) # {} THEN "dead"
              ELSE IF Capacity > 0 THEN "sync" ELSE "ready"]
        /\ fault' = IF stall.overdue \ CachedNames(cache[r]) # {} THEN "stall" ELSE fault
  BY DEF Pop
<1>2. /\ phase[r] = "perform" /\ todo[r] = <<>>
      /\ stalled' = [stalled EXCEPT ![r] = StalledAfterPop(r)]
      /\ msgs'    = [msgs EXCEPT ![r] = queue[r]]
      /\ queue'   = [queue EXCEPT ![r] = <<>>]
      /\ joined'  = [joined EXCEPT ![r] = @ \/ J \in ToSet(queue[r])]
      /\ UNCHANGED <<table, shutDown, left, cache, todo, stop, cachedHits, messageTable, joinedSize>>
  BY DEF Pop, Idle, coordVars, J
<1> DEFINE hits == InState(r, "HIT")
           wrong == InState(r, "INVALID")
           over == stall.overdue
<1>3. /\ Q(r) \subseteq Outstanding(r) /\ Located(r) /\ JoinsOK(r)
      /\ M(r) = {} /\ msgs[r] = <<>> /\ cachedHits = <<>>
      /\ queue[r] \in Seq(Names \cup {J})
  <2>1. Located(r) /\ JoinsOK(r) BY <1>2
  <2>2. msgs[r] = <<>> /\ cachedHits = <<>> BY <1>2 DEF PhasesOK
  <2> QED BY <2>1, <2>2, NoElements DEF Located, M, Typed
<1>4. \A m \in Q(r) : m \in CachedNames(cache[r]) => m \in Names /\ m # J /\ table[r][m].name = m
  <2>1. CachedNames(cache[r]) \subseteq Names BY CachedAreNames
  <2> QED BY <2>1, <1>3, JoinIsNoName DEF TableOK
<1>5. \A m \in Q(r) : table[r][m].name = m
  BY <1>3 DEF TableOK, JoinRequest, J
<1>6. /\ hits \subseteq Q(r) /\ wrong \subseteq Q(r)
      /\ hits \subseteq CachedNames(cache[r]) /\ wrong \subseteq CachedNames(cache[r])
      /\ hits \cap wrong = {}
      /\ Capacity > 0 => hits = {m \in Q(r) : cached(cache[r], table[r][m]) = "HIT"}
      /\ Capacity > 0 => wrong = {m \in Q(r) : cached(cache[r], table[r][m]) = "INVALID"}
  <2>1. \A m \in Q(r) : m \notin CachedNames(cache[r]) => cached(cache[r], table[r][m]) = "MISS"
    BY <1>5 DEF cached
  <2> QED BY <2>1 DEF InState, Q
<1>7. over \subseteq stalled[r] /\ over \subseteq StalledAfterPop(r) /\ (over # {} => Capacity > 0 /\ StallCheck)
  BY DEF StallResults
<1>8. over \subseteq hits
  <2> SUFFICES ASSUME NEW m \in over PROVE m \in hits
    OBVIOUS
  <2>1. m \in Q(r) BY <1>2, <1>3, <1>7 DEF Waits
  <2> QED BY <2>1, <1>7 DEF StalledAfterPop, Q
<1>9. over \ CachedNames(cache[r]) = {} BY <1>6, <1>8
<1>10. phase' = [phase EXCEPT ![r] = IF Capacity > 0 THEN "sync" ELSE "ready"] /\ fault' = fault
  BY <1>1, <1>9
<1>11. StalledAfterPop(r) \subseteq Names /\ StalledAfterPop(r) \subseteq Q(r)
  <2>1. stalled[r] \subseteq Names /\ stalled[r] \subseteq Q(r)
    BY <1>2, <1>3 DEF Typed, Waits
  <2>2. hits \subseteq Names BY <1>4, <1>6
  <2> QED BY <2>1, <2>2, <1>6 DEF StalledAfterPop
<1> HIDE DEF hits, wrong, over
<1>12. /\ \A n \in CachedNames(cache[r]) : peek_cache_bit(cache[r], n) \in DOMAIN cache[r]
       /\ DOMAIN cache[r] \subseteq Nat
  <2>1. GoodCache(cache[r]) OBVIOUS
  <2>2. \A n \in CachedNames(cache[r]) : peek_cache_bit(cache[r], n) \in DOMAIN cache[r]
    BY <2>1, CacheBits
  <2>3. DOMAIN cache[r] = 1 .. Len(cache[r]) /\ Len(cache[r]) \in Nat
    BY <2>1, CacheBits
  <2> QED BY <2>2, <2>3
<1>13. \A S \in SUBSET CachedNames(cache[r]) : Bits(r, S) \subseteq DOMAIN cache[r]
  BY <1>12 DEF Bits
<1>14. BitsToErase(r, over) = Bits(r, wrong \cup over)
  <2>1. over \cap CachedNames(cache[r]) = over BY <1>6, <1>8
  <2> QED BY <2>1 DEF BitsToErase, wrong
<1>15. /\ Bits(r, hits) \in SUBSET Nat /\ BitsToErase(r, over) \in SUBSET Nat
       /\ BitsToErase(r, over) \subseteq DOMAIN cache[r]
  <2>1. wrong \cup over \subseteq CachedNames(cache[r]) BY <1>6, <1>8
  <2> QED BY <2>1, <1>6, <1>12, <1>13, <1>14
<1>16. /\ coord'[r].hits = Bits(r, hits)
       /\ coord'[r].invalid = BitsToErase(r, over)
       /\ coord'[r].uncached = (Q(r) # hits \/ over # {})
       /\ \A p \in Rank : p # r => coord'[p] = coord[p]
  <2>1. coord \in [Rank -> [hits : SUBSET Nat, invalid : SUBSET Nat,
                            uncached : BOOLEAN, shut : BOOLEAN]]
    BY DEF Typed
  <2> QED BY <1>1, <2>1 DEF hits, over, Q
<1>17. /\ phase'[r] = IF Capacity > 0 THEN "sync" ELSE "ready"
       /\ msgs'[r] = queue[r] /\ queue'[r] = <<>> /\ stalled'[r] = StalledAfterPop(r)
       /\ joined'[r] = (joined[r] \/ J \in Q(r))
       /\ \A p \in Rank : p # r =>
             /\ phase'[p] = phase[p] /\ msgs'[p] = msgs[p] /\ queue'[p] = queue[p]
             /\ stalled'[p] = stalled[p] /\ joined'[p] = joined[p]
  BY <1>2, <1>10 DEF Typed, Q
<1>18. /\ M(r)' = Q(r) /\ Q(r)' = {}
       /\ \A p \in Rank : p # r => M(p)' = M(p) /\ Q(p)' = Q(p)
  BY <1>17, NoElements DEF M, Q
<1>19. Typed'
  <2>1. coord' \in [Rank -> [hits : SUBSET Nat, invalid : SUBSET Nat,
                             uncached : BOOLEAN, shut : BOOLEAN]]
    <3>1. over = stall.overdue BY DEF over
    <3>2. shutDown[r] \in BOOLEAN /\ stall.shut \in BOOLEAN
      BY DEF Typed, StallResults
    <3>3. [hits     |-> Bits(r, InState(r, "HIT")),
           invalid  |-> BitsToErase(r, stall.overdue),
           uncached |-> ToSet(queue[r]) # InState(r, "HIT") \/ stall.overdue # {},
           shut     |-> shutDown[r] \/ stall.shut]
            \in [hits : SUBSET Nat, invalid : SUBSET Nat, uncached : BOOLEAN, shut : BOOLEAN]
      BY <1>15, <3>1, <3>2 DEF hits
    <3>4. coord \in [Rank -> [hits : SUBSET Nat, invalid : SUBSET Nat,
                            uncached : BOOLEAN, shut : BOOLEAN]]
      BY DEF Typed
    <3> QED BY <1>1, <3>3, <3>4
  <2>2. phase' \in [Rank -> Phases] BY <1>10 DEF Typed, Phases
  <2>3. stalled' \in [Rank -> SUBSET Names] BY <1>2, <1>11 DEF Typed
  <2>4. msgs' \in [Rank -> Seq(Names \cup {J})] /\ queue' \in [Rank -> Seq(Names \cup {J})]
    <3>1. <<>> \in Seq(Names \cup {J}) OBVIOUS
    <3> QED BY <1>2, <1>3, <3>1 DEF Typed
  <2>5. joined' \in [Rank -> BOOLEAN] BY <1>2 DEF Typed
  <2> QED BY <1>2, <2>1, <2>2, <2>3, <2>4, <2>5 DEF Typed
<1>20. ASSUME NEW p \in Rank PROVE TableOK(p)' /\ GoodCache(cache[p])' /\ TodoOK(p)'
  <2>1. TableOK(p)' /\ GoodCache(cache[p])' BY <1>2 DEF TableOK, GoodCache, Outstanding
  <2>2. joined[p] => joined'[p] BY <1>17
  <2>3. TodoOK(p) /\ todo' = todo BY <1>2
  <2>4. TodoOK(p)' BY <2>2, <2>3 DEF TodoOK
  <2> QED BY <2>1, <2>4
<1>21. PhasesOK'
  <2>1. \A p \in Rank : /\ phase[p] \in {"perform", "stopped"} => msgs[p] = <<>>
                        /\ phase[p] # "perform" => todo[p] = <<>>
                        /\ phase[p] = "sync" => Capacity > 0
    BY DEF PhasesOK
  <2>2. \A p \in Rank : phase'[p] # "dead"
    BY <1>2, <1>17 DEF PhasesOK
  <2>3. cachedHits' = <<>> BY <1>2, <1>3
  <2>4. Capacity > 0 \/ Capacity = 0 BY CapacityAssumption
  <2> QED BY <1>2, <1>17, <2>1, <2>2, <2>3, <2>4 DEF PhasesOK
<1>22. ASSUME NEW p \in Rank, phase'[p] # "stopped" PROVE Located(p)' /\ JoinsOK(p)'
  <2>1. /\ Outstanding(p)' = Outstanding(p) /\ Counted(p)' = Counted(p)
        /\ InList(cachedHits)' = InList(cachedHits) /\ todo' = todo /\ cachedHits' = cachedHits
    BY <1>2 DEF Outstanding, Counted, InList
  <2>2. CASE p # r
    <3>1. Located(p) /\ JoinsOK(p) BY <1>17, <1>22, <2>2
    <3> QED BY <2>1, <2>2, <3>1, <1>17, <1>18 DEF Located, JoinsOK
  <2>3. CASE p = r
    <3>1. Located(r)'
      <4>1. InList(todo[r]) = {}
        <5>1. DOMAIN <<>> = {} OBVIOUS
        <5> QED BY <1>2, <5>1 DEF InList
      <4> QED BY <2>1, <2>3, <4>1, <1>3, <1>17, <1>18, NoElements DEF Located
    <3>2. JoinsOK(r)'
      <4>1. J \in Q(r) => Outstanding(r) = {J} BY <1>3 DEF TableOK
      <4> QED BY <2>1, <2>3, <4>1, <1>3, <1>17, <1>18 DEF JoinsOK
    <3> QED BY <2>3, <3>1, <3>2
  <2> QED BY <2>2, <2>3
<1>23. JoinCount'
  <2>1. \A p \in Rank : HasJoin(p)' = HasJoin(p) BY <1>2 DEF HasJoin
  <2>2. joined'[r] /\ J \notin Q(r) <=> joined[r] /\ J \notin M(r)
    BY <1>3, <1>17 DEF JoinsOK
  <2>3. CountedJoins' = CountedJoins
    BY <2>1, <2>2, <1>17, <1>18 DEF CountedJoins
  <2> QED BY <1>2, <2>3 DEF JoinCount
<1>24. ASSUME NEW p \in Rank PROVE SyncHolds(p)'
  <2>1. /\ \A S : Bits(p, S)' = Bits(p, S)
        /\ cache' = cache /\ table' = table
    BY <1>2 DEF Bits
  <2>2. CASE p # r
    <3>1. HitNames(p)' = HitNames(p) /\ InvalidNames(p)' = InvalidNames(p) /\ M(p)' = M(p)
      BY <1>18, <2>1, <2>2 DEF HitNames, InvalidNames
    <3>2. Bits(p, HitNames(p))' = Bits(p, HitNames(p))
          /\ Bits(p, InvalidNames(p))' = Bits(p, InvalidNames(p))
      BY <2>1, <3>1 DEF Bits
    <3>3. SyncHolds(p) /\ phase'[p] = phase[p] /\ coord'[p] = coord[p] BY <1>16, <1>17, <2>2
    <3> QED BY <2>1, <3>1, <3>2, <3>3 DEF SyncHolds
  <2>3. CASE p = r
    <3> SUFFICES ASSUME Capacity > 0
                 PROVE  /\ coord'[r].hits = Bits(r, HitNames(r))'
                        /\ Bits(r, InvalidNames(r))' \subseteq coord'[r].invalid
                        /\ coord'[r].invalid \subseteq DOMAIN cache[r]
                        /\ coord'[r].invalid # {} \/ M(r)' # HitNames(r)' => coord'[r].uncached
      BY <1>17, <2>1, <2>3 DEF SyncHolds
    <3>1. HitNames(r)' = hits /\ InvalidNames(r)' = wrong
      BY <1>6, <1>18, <2>1 DEF HitNames, InvalidNames
    <3>2. Bits(r, HitNames(r))' = Bits(r, hits) /\ Bits(r, InvalidNames(r))' = Bits(r, wrong)
      BY <2>1, <3>1 DEF Bits
    <3>3. Bits(r, wrong) \subseteq Bits(r, wrong \cup over) BY DEF Bits
    <3>4. Bits(r, wrong \cup over) # {} => wrong # {} \/ over # {} BY DEF Bits
    <3>5. wrong # {} => Q(r) # hits BY <1>6
    <3> QED BY <1>14, <1>15, <1>16, <1>18, <3>1, <3>2, <3>3, <3>4, <3>5
  <2> QED BY <2>2, <2>3
<1>25. Uncached'
  <2>1. \A n \in Names, p \in Rank : messageTable'[n] # {} => n \notin CachedNames(cache'[p])
    BY <1>2 DEF Uncached
  <2>2. ASSUME NEW p \in Rank, phase'[p] \in {"ready", "dead"}
        PROVE  M(p)' \cap CachedNames(cache'[p]) = {}
    <3>1. CASE p # r BY <1>2, <1>17, <1>18, <2>2, <3>1 DEF Uncached
    <3>2. CASE p = r
      <4>1. Capacity = 0 BY <1>17, <2>2, <3>2, CapacityAssumption
      <4>2. GoodCache(cache[r]) /\ DOMAIN cache[r] = 1 .. Len(cache[r]) /\ Len(cache[r]) \in Nat
        BY CacheBits
      <4>3. DOMAIN cache[r] = {} BY <4>1, <4>2 DEF GoodCache
      <4> QED BY <1>2, <3>2, <4>3 DEF CachedNames
    <3> QED BY <3>1, <3>2
  <2> QED BY <2>1, <2>2 DEF Uncached
<1>26. HitsStand'
  <2>1. DOMAIN cachedHits' = {}
    <3>1. DOMAIN <<>> = {} OBVIOUS
    <3> QED BY <1>2, <1>3, <3>1
  <2> QED BY <2>1 DEF HitsStand
<1>27. \A p \in Rank : Waits(p)'
  <2> TAKE p \in Rank
  <2>1. CASE p # r BY <1>17, <1>18, <2>1 DEF Waits
  <2>2. CASE p = r
    <3>1. phase[r] # "stopped" BY <1>2
    <3>2. stalled[r] = {} \/ (StallCheck /\ Capacity > 0) BY <3>1 DEF Waits
    <3>3. Capacity > 0 \/ hits = {} BY DEF hits, InState
    <3>4. StalledAfterPop(r) = {} \/ (StallCheck /\ Capacity > 0)
      BY <3>2, <3>3 DEF StalledAfterPop, hits
    <3> QED BY <1>11, <1>17, <1>18, <2>2, <3>4 DEF Waits
  <2> QED BY <2>1, <2>2
<1>28. CacheConsistent' /\ FaultOK'
  BY <1>2, <1>10 DEF CacheConsistent, FaultOK
<1>29. Aligned'
  <2>1. \A p \in Rank : phase'[p] = "perform" => phase[p] = "perform" BY <1>2, <1>17
  <2> QED BY <1>2, <2>1 DEF Aligned
<1> QED BY <1>10, <1>19, <1>20, <1>21, <1>22, <1>23, <1>24, <1>25, <1>26, <1>27, <1>28, <1>29 DEF Inv

-----------------------------------------------------------------------------
(* A rank performs its responses.                                          *)

\* The rest of a list of responses.
LEMMA RestOfList ==
    ASSUME NEW s \in Seq(Response), s # <<>>, Once(s)
    PROVE  /\ InList(s) = NamesIn(Head(s)) \cup InList(Tail(s))
           /\ NamesIn(Head(s)) \cap InList(Tail(s)) = {}
           /\ Once(Tail(s))
<1> DEFINE t == Tail(s)
<1>1. /\ 1 \in DOMAIN s /\ Head(s) = s[1] /\ Len(s) \in Nat
      /\ DOMAIN t = 1 .. Len(s) - 1 
      /\ \A k \in DOMAIN t : k + 1 \in DOMAIN s /\ t[k] = s[k + 1]
      /\ \A i \in DOMAIN s : i # 1 => i - 1 \in DOMAIN t /\ t[i - 1] = s[i]
  BY TailElements
<1> HIDE DEF t
<1>2. InList(s) = NamesIn(Head(s)) \cup InList(t)
  <2>1. ASSUME NEW n \in InList(s) PROVE n \in NamesIn(Head(s)) \cup InList(t)
    <3>1. PICK i \in DOMAIN s : n \in NamesIn(s[i]) BY DEF InList
    <3> QED BY <1>1, <3>1 DEF InList
  <2>2. ASSUME NEW n \in InList(t) PROVE n \in InList(s)
    <3>1. PICK k \in DOMAIN t : n \in NamesIn(t[k]) BY DEF InList
    <3> QED BY <1>1, <3>1 DEF InList
  <2>3. NamesIn(Head(s)) \subseteq InList(s) BY <1>1 DEF InList
  <2> QED BY <2>1, <2>2, <2>3
<1>3. ASSUME NEW k \in DOMAIN t PROVE NamesIn(Head(s)) \cap NamesIn(t[k]) = {}
  <2>1. k + 1 # 1 BY <1>1
  <2> QED BY <1>1, <2>1 DEF Once
<1>4. NamesIn(Head(s)) \cap InList(t) = {} BY <1>3 DEF InList
<1>5. Once(t)
  <2> SUFFICES ASSUME NEW k \in DOMAIN t, NEW l \in DOMAIN t, NamesIn(t[k]) \cap NamesIn(t[l]) # {}
               PROVE  k = l
    BY DEF Once
  <2>1. k + 1 = l + 1 BY <1>1 DEF Once
  <2>2. k \in Int /\ l \in Int BY <1>1
  <2> QED BY <2>1, <2>2
<1> QED BY <1>2, <1>4, <1>5 DEF t

\* The rest of a list ends like the list.
LEMMA RestSameEnd ==
    ASSUME NEW s \in Seq(Response), s # <<>>, NEW t \in Seq(Response)
    PROVE  /\ SameEnd(s, t) /\ SameEnd(t, s) => SameEnd(Tail(s), t) /\ SameEnd(t, Tail(s))
           /\ SameEnd(Tail(s), Tail(s))
<1> DEFINE u == Tail(s)
<1>1. /\ Len(s) \in Nat \ {0} /\ Len(t) \in Nat /\ Len(u) = Len(s) - 1
      /\ DOMAIN s = 1 .. Len(s) /\ DOMAIN t = 1 .. Len(t) /\ DOMAIN u = 1 .. Len(s) - 1
      /\ \A k \in DOMAIN u : k + 1 \in DOMAIN s /\ u[k] = s[k + 1]
  BY TailElements
<1> HIDE DEF u
<1>2. ASSUME SameEnd(s, t), SameEnd(t, s), Len(u) <= Len(t), NEW i \in DOMAIN u
      PROVE  u[i] = t[Len(t) - Len(u) + i]
  <2>1. u[i] = s[i + 1] /\ i + 1 \in DOMAIN s /\ i \in Int BY <1>1
  <2>2. CASE Len(s) <= Len(t)
    <3>1. s[i + 1] = t[Len(t) - Len(s) + (i + 1)] BY <1>2, <2>1, <2>2 DEF SameEnd
    <3>2. Len(t) - Len(s) + (i + 1) = Len(t) - Len(u) + i BY <1>1, <2>1
    <3> QED BY <2>1, <3>1, <3>2
  <2>3. CASE ~(Len(s) <= Len(t))
    <3>1. Len(t) = Len(s) - 1 /\ Len(t) <= Len(s) /\ i \in DOMAIN t BY <1>1, <1>2, <2>3
    <3>2. t[i] = s[Len(s) - Len(t) + i] BY <1>2, <3>1 DEF SameEnd
    <3>3. Len(s) - Len(t) + i = i + 1 /\ Len(t) - Len(u) + i = i BY <1>1, <2>1, <3>1
    <3> QED BY <2>1, <3>2, <3>3
  <2> QED BY <2>2, <2>3
<1>3. ASSUME SameEnd(t, s), Len(t) <= Len(u), NEW i \in DOMAIN t
      PROVE  t[i] = u[Len(u) - Len(t) + i]
  <2>1. Len(t) <= Len(s) /\ i \in Int BY <1>1, <1>3
  <2>2. t[i] = s[Len(s) - Len(t) + i] BY <1>3, <2>1 DEF SameEnd
  <2>3. /\ Len(u) - Len(t) + i \in DOMAIN u
        /\ (Len(u) - Len(t) + i) + 1 = Len(s) - Len(t) + i
    BY <1>1, <1>3
  <2>4. u[Len(u) - Len(t) + i] = s[(Len(u) - Len(t) + i) + 1] BY <1>1, <2>3
  <2> QED BY <2>2, <2>3, <2>4
<1>4. SameEnd(u, u)
  <2>1. \A i \in DOMAIN u : Len(u) - Len(u) + i = i BY <1>1
  <2> QED BY <2>1 DEF SameEnd
<1> QED BY <1>2, <1>3, <1>4 DEF SameEnd, u

\* What rank r does with the next response.
LEMMA PerformCases ==
    ASSUME Inv, NEW r \in Rank, Perform(r)
    PROVE  LET response == Head(todo[r])
           IN  /\ phase[r] = "perform" /\ todo[r] # <<>> /\ todo[r] \in Seq(Response)
               /\ Served(r, response) \subseteq Outstanding(r)
               /\ \/ /\ response.type = "JOIN" /\ joined[r]
                     /\ Served(r, response) = {J} /\ Outstanding(r) = {J}
                     /\ Tail(todo[r]) = <<>>
                  \/ /\ response.type # "JOIN" /\ joined[r]
                     /\ Served(r, response) = {} /\ Outstanding(r) = {J}
                  \/ /\ response.type # "JOIN" /\ ~joined[r]
                     /\ Served(r, response) = NamesIn(response)
               /\ table' = [table EXCEPT ![r] =
                     [n \in Outstanding(r) \ Served(r, response) |-> table[r][n]]]
               /\ joined' = [joined EXCEPT ![r] = joined[r] /\ response.type # "JOIN"]
               /\ todo' = [todo EXCEPT ![r] = Tail(todo[r])]
               /\ UNCHANGED <<queue, shutDown, left, phase, msgs, coord, cache, stalled, stop,
                              cachedHits, messageTable, joinedSize, fault>>
<1> USE InvParts
<1> DEFINE response == Head(todo[r])
           S == Served(r, response)
<1>1. phase[r] = "perform" /\ todo[r] # <<>> BY DEF Perform
<1>2. todo[r] \in Seq(Response) /\ 1 \in DOMAIN todo[r] /\ response = todo[r][1]
  <2>1. todo[r] \in Seq(Response) BY DEF Typed
  <2> QED BY <1>1, <2>1, TailElements
<1>3. Located(r) /\ JoinsOK(r) /\ TodoOK(r) BY <1>1
<1>4. joined[r] => Outstanding(r) = {J} BY <1>3 DEF JoinsOK
<1>5. /\ response.type = "JOIN" => joined[r] /\ Len(todo[r]) = 1
  BY <1>2, <1>3 DEF TodoOK
<1>6. ~joined[r] => NamesIn(response) \subseteq Outstanding(r)
  BY <1>2, <1>3 DEF Located, InList
<1>7. response.type = "JOIN" => Tail(todo[r]) = <<>>
  <2>1. ASSUME response.type = "JOIN" PROVE Len(Tail(todo[r])) = 0 /\ Tail(todo[r]) \in Seq(Response)
    BY <1>1, <1>2, <1>5, <2>1, TailElements
  <2> HIDE DEF response
  <2> QED BY <2>1, EmptyByLength
<1>8. S = IF response.type = "JOIN" THEN (IF joined[r] THEN {J} ELSE {})
          ELSE IF joined[r] THEN {} ELSE NamesIn(response)
  BY DEF Served, J, NamesIn
<1>9. S \subseteq Outstanding(r) BY <1>4, <1>5, <1>6, <1>8
<1>10. S \ Outstanding(r) = {} BY <1>9
<1>11. /\ table' = [table EXCEPT ![r] = [n \in Outstanding(r) \ S |-> table[r][n]]]
       /\ joined' = [joined EXCEPT ![r] = joined[r] /\ response.type # "JOIN"]
       /\ todo' = [todo EXCEPT ![r] = Tail(todo[r])]
       /\ UNCHANGED <<queue, shutDown, left, msgs, coord, cache, stalled, stop,
                      cachedHits, messageTable, joinedSize>>
  BY DEF Perform, RemoveNames, Outstanding, coordVars
<1>12. phase' = phase /\ fault' = fault
  <2>1. phase' = [phase EXCEPT ![r] = IF S \ Outstanding(r) # {} THEN "dead" ELSE phase[r]]
        /\ fault' = IF S \ Outstanding(r) # {} THEN "tensor" ELSE fault
    BY DEF Perform
  <2>2. phase' = [phase EXCEPT ![r] = phase[r]] /\ fault' = fault BY <1>10, <2>1
  <2> QED BY <2>2 DEF Typed
<1> HIDE DEF S
<1>13. \/ /\ response.type = "JOIN" /\ joined[r] /\ S = {J} /\ Outstanding(r) = {J}
          /\ Tail(todo[r]) = <<>>
       \/ response.type # "JOIN" /\ joined[r] /\ S = {} /\ Outstanding(r) = {J}
       \/ response.type # "JOIN" /\ ~joined[r] /\ S = NamesIn(response)
  BY <1>4, <1>5, <1>7, <1>8
<1> HIDE DEF response
<1> QED BY <1>1, <1>2, <1>9, <1>11, <1>12, <1>13 DEF S, response

\* Rank r performs a response.
LEMMA PerformKeeps ==
    ASSUME Inv, NEW r \in Rank, Perform(r)
    PROVE  Inv'
<1> USE InvParts
<1> DEFINE response == Head(todo[r])
           S == Served(r, response)
           rest == Tail(todo[r])
<1>1. /\ phase[r] = "perform" /\ todo[r] # <<>> /\ todo[r] \in Seq(Response)
      /\ S \subseteq Outstanding(r)
      /\ \/ response.type = "JOIN" /\ joined[r] /\ S = {J} /\ Outstanding(r) = {J} /\ rest = <<>>
         \/ response.type # "JOIN" /\ joined[r] /\ S = {} /\ Outstanding(r) = {J}
         \/ response.type # "JOIN" /\ ~joined[r] /\ S = NamesIn(response)
      /\ table' = [table EXCEPT ![r] = [n \in Outstanding(r) \ S |-> table[r][n]]]
      /\ joined' = [joined EXCEPT ![r] = joined[r] /\ response.type # "JOIN"]
      /\ todo' = [todo EXCEPT ![r] = rest]
      /\ UNCHANGED <<queue, shutDown, left, phase, msgs, coord, cache, stalled, stop,
                     cachedHits, messageTable, joinedSize, fault>>
  BY PerformCases
<1>2. Located(r) /\ JoinsOK(r) /\ TodoOK(r) /\ msgs[r] = <<>> /\ cachedHits = <<>>
  <2>1. Located(r) /\ JoinsOK(r) /\ TodoOK(r) BY <1>1
  <2>2. msgs[r] = <<>> /\ cachedHits = <<>> BY <1>1 DEF PhasesOK
  <2> QED BY <2>1, <2>2
<1>3. /\ InList(todo[r]) = NamesIn(response) \cup InList(rest)
      /\ NamesIn(response) \cap InList(rest) = {} /\ Once(rest)
  <2>1. Once(todo[r]) BY <1>2 DEF Located
  <2> QED BY <1>1, <2>1, RestOfList
<1>4. /\ rest \in Seq(Response) /\ response = todo[r][1] /\ 1 \in DOMAIN todo[r]
      /\ Len(todo[r]) \in Nat /\ DOMAIN todo[r] = 1 .. Len(todo[r])
      /\ DOMAIN rest = 1 .. Len(todo[r]) - 1
      /\ \A k \in DOMAIN rest : k + 1 \in DOMAIN todo[r] /\ rest[k] = todo[r][k + 1]
  BY <1>1, TailElements
<1> HIDE DEF S, rest, response
<1>5. /\ table'[r] = [n \in Outstanding(r) \ S |-> table[r][n]]
      /\ joined'[r] = (joined[r] /\ response.type # "JOIN")
      /\ todo'[r] = rest
      /\ \A p \in Rank : p # r =>
            table'[p] = table[p] /\ joined'[p] = joined[p] /\ todo'[p] = todo[p]
  BY <1>1 DEF Typed
<1>6. /\ Outstanding(r)' = Outstanding(r) \ S
      /\ \A n \in Outstanding(r)' : table'[r][n] = table[r][n]
      /\ \A p \in Rank : p # r => Outstanding(p)' = Outstanding(p)
  BY <1>5 DEF Outstanding
<1>7. /\ \A p \in Rank : Q(p)' = Q(p) /\ M(p)' = M(p) /\ Counted(p)' = Counted(p)
      /\ InList(cachedHits)' = InList(cachedHits)
  BY <1>1 DEF Q, M, Counted, InList
<1>8. Typed'
  <2>1. table' \in [Rank -> Tables]
    <3>1. table \in [Rank -> Tables] BY DEF Typed
    <3>2. PICK T \in SUBSET (Names \cup {J}) : table[r] \in [T -> Requests \cup {JoinRequest}]
      BY <3>1 DEF Tables
    <3>3. Outstanding(r) = T BY <3>2 DEF Outstanding
    <3>4. Outstanding(r) \ S \in SUBSET (Names \cup {J}) BY <3>3
    <3>5. table'[r] \in [Outstanding(r) \ S -> Requests \cup {JoinRequest}]
      BY <1>5, <3>2, <3>3
    <3>6. table'[r] \in Tables BY <3>4, <3>5 DEF Tables
    <3> HIDE DEF Tables
    <3> QED BY <1>1, <1>5, <3>1, <3>6
  <2>2. joined' \in [Rank -> BOOLEAN] BY <1>1 DEF Typed
  <2>3. todo' \in [Rank -> Seq(Response)] BY <1>1, <1>4 DEF Typed
  <2> QED BY <1>1, <2>1, <2>2, <2>3 DEF Typed
<1>9. ASSUME NEW p \in Rank PROVE TableOK(p)'
  <2>1. CASE p # r
    <3>1. TableOK(p) OBVIOUS
    <3> QED BY <1>5, <1>6, <2>1, <3>1 DEF TableOK
  <2>2. CASE p = r
    <3>1. TableOK(r) OBVIOUS
    <3>2. ASSUME NEW n \in Outstanding(r)'
          PROVE  /\ n # J => table'[r][n] \in Requests /\ table'[r][n].name = n
                 /\ n = J => table'[r][n] = JoinRequest /\ Outstanding(r)' = {J} /\ r \in JoinRanks
      <4>1. n \in Outstanding(r) /\ table'[r][n] = table[r][n] BY <1>6
      <4>2. n = J => Outstanding(r)' = {J} BY <1>6, <3>1, <4>1 DEF TableOK
      <4> QED BY <3>1, <4>1, <4>2 DEF TableOK
    <3>3. Outstanding(r)' \subseteq Outstanding(r) BY <1>6
    <3>4. IsFiniteSet(Outstanding(r)') BY <3>1, <3>3, FS_Subset DEF TableOK
    <3> QED BY <2>2, <3>2, <3>4 DEF TableOK
  <2> QED BY <2>1, <2>2
<1>10. \A p \in Rank : GoodCache(cache[p])' BY <1>1 DEF GoodCache
<1>11. \A k \in DOMAIN rest : rest[k].type # "JOIN"
  <2> SUFFICES ASSUME NEW k \in DOMAIN rest, rest[k].type = "JOIN" PROVE FALSE
    OBVIOUS
  <2>1. Len(todo[r]) = 1 BY <1>2, <1>4 DEF TodoOK
  <2> QED BY <1>4, <2>1
<1>12. ASSUME NEW p \in Rank PROVE TodoOK(p)'
  <2>1. CASE p # r
    <3>1. TodoOK(p) OBVIOUS
    <3> QED BY <1>5, <2>1, <3>1 DEF TodoOK
  <2>2. CASE p = r
    <3>1. \A k \in DOMAIN rest : NamesIn(rest[k]) \subseteq Names
      BY <1>2, <1>4, <1>11 DEF TodoOK
    <3> QED BY <1>5, <1>11, <2>2, <3>1 DEF TodoOK
  <2> QED BY <2>1, <2>2
<1>13. PhasesOK'
  <2>1. \A p \in Rank : phase[p] # "perform" => todo'[p] = todo[p] BY <1>1, <1>5
  <2> QED BY <1>1, <2>1 DEF PhasesOK
<1>14. ASSUME NEW p \in Rank, phase'[p] # "stopped" PROVE Located(p)' /\ JoinsOK(p)'
  <2>0. Located(p) /\ JoinsOK(p) BY <1>1, <1>14
  <2>1. queue' = queue /\ msgs' = msgs /\ cachedHits' = cachedHits BY <1>1
  <2>2. CASE p # r
    <3>1. InList(todo[p])' = InList(todo[p]) /\ todo'[p] = todo[p] BY <1>5, <2>2 DEF InList
    <3> QED BY <2>0, <2>1, <2>2, <3>1, <1>5, <1>6, <1>7 DEF Located, JoinsOK
  <2>3. CASE p = r
    <3>1. /\ InList(todo[r])' = InList(rest) /\ Once(todo[r])' = Once(rest)
          /\ M(r) = {} /\ InList(cachedHits) = {}
      <4>1. DOMAIN <<>> = {} OBVIOUS
      <4> QED BY <1>2, <1>5, <4>1, NoElements DEF InList, Once, M
    <3>2. CASE response.type = "JOIN" /\ joined[r] /\ S = {J} /\ Outstanding(r) = {J} /\ rest = <<>>
      <4>1. Outstanding(r)' = {} BY <1>6, <3>2
      <4>2. Q(r) = {} BY <1>2, <3>2 DEF Located, JoinsOK
      <4>3. Counted(r) = {} BY <1>2, <3>2, JoinIsNoName DEF Located, Counted
      <4>4. InList(rest) = {}
        <5>1. DOMAIN <<>> = {} OBVIOUS
        <5> QED BY <3>2, <5>1 DEF InList
      <4>5. Located(r)'
        BY <1>2, <1>3, <1>5, <1>7, <2>1, <3>1, <4>1, <4>2, <4>3, <4>4 DEF Located
      <4>6. JoinsOK(r)' BY <1>5, <1>7, <3>1, <3>2, <4>1 DEF JoinsOK
      <4> QED BY <2>3, <4>5, <4>6
    <3>3. CASE response.type # "JOIN" /\ joined[r] /\ S = {} /\ Outstanding(r) = {J}
      <4>1. Outstanding(r)' = Outstanding(r) /\ joined'[r] BY <1>5, <1>6, <3>3
      <4>2. Located(r)'
        BY <1>2, <1>3, <1>5, <1>7, <2>1, <3>1, <3>3, <4>1 DEF Located
      <4>3. JoinsOK(r)' BY <1>2, <1>7, <3>1, <3>3, <4>1 DEF JoinsOK
      <4> QED BY <2>3, <4>2, <4>3
    <3>4. CASE response.type # "JOIN" /\ ~joined[r] /\ S = NamesIn(response)
      <4>1. Outstanding(r)' = Outstanding(r) \ NamesIn(response) /\ ~joined'[r] BY <1>5, <1>6, <3>4
      <4>2. \A n \in NamesIn(response) : n \notin Q(r) /\ n \notin Counted(r)
        BY <1>2, <1>3 DEF Located
      <4>3. InList(rest) \subseteq Outstanding(r) BY <1>2, <1>3, <3>4 DEF Located
      <4>4. Located(r)'
        BY <1>2, <1>3, <1>5, <1>7, <2>1, <3>1, <3>4, <4>1, <4>2, <4>3 DEF Located
      <4>5. JoinsOK(r)' BY <1>2, <1>7, <3>4, <4>1 DEF JoinsOK
      <4> QED BY <2>3, <4>4, <4>5
    <3> QED BY <1>1, <3>2, <3>3, <3>4
  <2> QED BY <2>2, <2>3
<1>15. JoinCount'
  <2>1. ~HasJoin(r)' BY <1>5, <1>11 DEF HasJoin
  <2>2. r \in CountedJoins <=> joined'[r]
    <3>1. M(r) = {} BY <1>2, NoElements DEF M
    <3>2. response.type = "JOIN" => HasJoin(r) BY <1>4 DEF HasJoin
    <3>3. response.type # "JOIN" => ~HasJoin(r)
      <4> SUFFICES ASSUME NEW i \in DOMAIN todo[r], todo[r][i].type = "JOIN" PROVE response.type = "JOIN"
        BY DEF HasJoin
      <4>1. Len(todo[r]) = 1 BY <1>2 DEF TodoOK
      <4>2. i = 1 BY <1>4, <4>1
      <4> QED BY <1>4, <4>2
    <3> QED BY <1>5, <3>1, <3>2, <3>3 DEF CountedJoins
  <2>3. \A p \in Rank : p # r => HasJoin(p)' = HasJoin(p) BY <1>5 DEF HasJoin
  <2>4. M(r) = {} BY <1>2, NoElements DEF M
  <2>5. CountedJoins' = CountedJoins
    <3>1. r \in CountedJoins' <=> joined'[r] BY <2>1, <2>4, <1>7 DEF CountedJoins
    <3>2. \A p \in Rank : p # r => (p \in CountedJoins' <=> p \in CountedJoins)
      BY <2>3, <1>5, <1>7 DEF CountedJoins
    <3>3. CountedJoins' \subseteq Rank /\ CountedJoins \subseteq Rank BY DEF CountedJoins
    <3> QED BY <2>2, <3>1, <3>2, <3>3
  <2> QED BY <1>1, <2>5 DEF JoinCount
<1>16. ASSUME NEW p \in Rank PROVE SyncHolds(p)'
  <2> SUFFICES ASSUME phase[p] = "sync" PROVE SyncHolds(p)'
    BY <1>1 DEF SyncHolds
  <2>1. table'[p] = table[p] /\ M(p)' = M(p) /\ cache' = cache /\ coord' = coord /\ phase' = phase
    BY <1>1, <1>5, <1>7
  <2>2. HitNames(p)' = HitNames(p) /\ InvalidNames(p)' = InvalidNames(p)
    BY <2>1 DEF HitNames, InvalidNames
  <2>3. Bits(p, HitNames(p))' = Bits(p, HitNames(p))
        /\ Bits(p, InvalidNames(p))' = Bits(p, InvalidNames(p))
    BY <2>1, <2>2 DEF Bits
  <2> QED BY <2>1, <2>2, <2>3 DEF SyncHolds
<1>17. Uncached' BY <1>1, <1>7 DEF Uncached
<1>18. HitsStand'
  <2>1. DOMAIN <<>> = {} OBVIOUS
  <2> QED BY <1>1, <1>2, <2>1 DEF HitsStand
<1>19. \A p \in Rank : Waits(p)' BY <1>1, <1>7 DEF Waits
<1>20. CacheConsistent' /\ FaultOK' BY <1>1 DEF CacheConsistent, FaultOK
<1>21. Aligned'
  <2> SUFFICES ASSUME NEW p \in Rank, NEW q \in Rank, phase[p] = "perform", phase[q] = "perform"
               PROVE  SameEnd(todo'[p], todo'[q])
    BY <1>1 DEF Aligned
  <2>1. SameEnd(todo[p], todo[q]) /\ SameEnd(todo[q], todo[p]) /\ SameEnd(todo[p], todo[p])
    BY DEF Aligned
  <2>2. todo[p] \in Seq(Response) /\ todo[q] \in Seq(Response) BY DEF Typed
  <2>3. CASE p # r /\ q # r BY <1>5, <2>1, <2>3
  <2>4. CASE p = r /\ q # r BY <1>1, <1>5, <2>1, <2>2, <2>4, RestSameEnd DEF rest
  <2>5. CASE p # r /\ q = r BY <1>1, <1>5, <2>1, <2>2, <2>5, RestSameEnd DEF rest
  <2>6. CASE p = r /\ q = r BY <1>1, <1>5, <2>1, <2>2, <2>6, RestSameEnd DEF rest
  <2> QED BY <2>3, <2>4, <2>5, <2>6
<1> QED BY <1>8, <1>9, <1>10, <1>12, <1>13, <1>14, <1>15, <1>16, <1>17, <1>18, <1>19, <1>20, <1>21 DEF Inv

\* Rank r stops.
LEMMA StopKeeps ==
    ASSUME Inv, NEW r \in Rank, Stop(r)
    PROVE  Inv'
<1> USE InvParts
<1>1. /\ phase[r] = "perform" /\ todo[r] = <<>> /\ msgs[r] = <<>> /\ cachedHits = <<>>
      /\ phase' = [phase EXCEPT ![r] = "stopped"]
      /\ shutDown' = [shutDown EXCEPT ![r] = TRUE]
      /\ table' = [table EXCEPT ![r] = EmptyTable]
      /\ queue' = [queue EXCEPT ![r] = <<>>]
      /\ UNCHANGED <<left, msgs, coord, cache, stalled, joined, todo, stop,
                     cachedHits, messageTable, joinedSize, fault>>
  <2>1. phase[r] = "perform" /\ todo[r] = <<>> BY DEF Stop, Idle
  <2>2. msgs[r] = <<>> /\ cachedHits = <<>> BY <2>1 DEF PhasesOK
  <2> QED BY <2>1, <2>2 DEF Stop, coordVars
<1>2. /\ phase'[r] = "stopped" /\ table'[r] = EmptyTable /\ queue'[r] = <<>>
      /\ \A p \in Rank : p # r => phase'[p] = phase[p] /\ table'[p] = table[p] /\ queue'[p] = queue[p]
  BY <1>1 DEF Typed
<1>3. /\ Outstanding(r)' = {}
      /\ \A p \in Rank : p # r => Outstanding(p)' = Outstanding(p) /\ Q(p)' = Q(p)
      /\ \A p \in Rank : M(p)' = M(p) /\ Counted(p)' = Counted(p) /\ HasJoin(p)' = HasJoin(p)
      /\ InList(cachedHits)' = InList(cachedHits)
  BY <1>1, <1>2 DEF Outstanding, EmptyTable, Q, M, Counted, HasJoin, InList
<1>4. Typed'
  <2>1. table' \in [Rank -> Tables]
    <3>1. EmptyTable \in [{} -> Requests \cup {JoinRequest}] BY DEF EmptyTable
    <3>2. {} \in SUBSET (Names \cup {J}) OBVIOUS
    <3>3. EmptyTable \in Tables BY <3>1, <3>2 DEF Tables
    <3> HIDE DEF Tables
    <3> QED BY <1>1, <3>3 DEF Typed
  <2>2. queue' \in [Rank -> Seq(Names \cup {J})]
    <3>1. <<>> \in Seq(Names \cup {J}) OBVIOUS
    <3> QED BY <1>1, <3>1 DEF Typed
  <2>3. phase' \in [Rank -> Phases] /\ shutDown' \in [Rank -> BOOLEAN] BY <1>1 DEF Typed, Phases
  <2> QED BY <1>1, <2>1, <2>2, <2>3 DEF Typed
<1>5. ASSUME NEW p \in Rank PROVE TableOK(p)' /\ GoodCache(cache[p])' /\ TodoOK(p)'
  <2>0. TableOK(p) /\ GoodCache(cache[p]) /\ TodoOK(p) OBVIOUS
  <2>1. TableOK(p)'
    <3>1. CASE p # r BY <1>2, <1>3, <2>0, <3>1 DEF TableOK
    <3>2. CASE p = r BY <1>3, <3>2, FS_EmptySet DEF TableOK
    <3> QED BY <3>1, <3>2
  <2>2. GoodCache(cache[p])' /\ TodoOK(p)' BY <1>1, <2>0 DEF GoodCache, TodoOK
  <2> QED BY <2>1, <2>2
<1>6. PhasesOK'
  <2>1. ASSUME NEW p \in Rank, phase'[p] = "dead" PROVE FALSE
    <3>1. phase[p] = "dead" /\ p # r BY <1>2, <2>1
    <3> QED BY <1>1, <3>1 DEF PhasesOK
  <2> QED BY <1>1, <1>2, <2>1 DEF PhasesOK
<1>7. ASSUME NEW p \in Rank, phase'[p] # "stopped" PROVE Located(p)' /\ JoinsOK(p)'
  <2>1. p # r BY <1>2, <1>7
  <2>2. Located(p) /\ JoinsOK(p) BY <1>2, <1>7, <2>1
  <2> QED BY <1>1, <1>2, <1>3, <2>1, <2>2 DEF Located, JoinsOK
<1>8. JoinCount' BY <1>1, <1>3 DEF JoinCount, CountedJoins
<1>9. ASSUME NEW p \in Rank PROVE SyncHolds(p)'
  <2> SUFFICES ASSUME phase'[p] = "sync" PROVE SyncHolds(p)'
    BY DEF SyncHolds
  <2>1. table'[p] = table[p] /\ M(p)' = M(p) /\ cache' = cache /\ coord' = coord /\ phase'[p] = phase[p]
    BY <1>1, <1>2, <1>3
  <2>2. HitNames(p)' = HitNames(p) /\ InvalidNames(p)' = InvalidNames(p)
    BY <2>1 DEF HitNames, InvalidNames
  <2>3. Bits(p, HitNames(p))' = Bits(p, HitNames(p))
        /\ Bits(p, InvalidNames(p))' = Bits(p, InvalidNames(p))
    BY <2>1, <2>2 DEF Bits
  <2> QED BY <2>1, <2>2, <2>3 DEF SyncHolds
<1>10. Uncached' BY <1>1, <1>2, <1>3 DEF Uncached
<1>11. HitsStand'
  <2>1. DOMAIN <<>> = {} OBVIOUS
  <2> QED BY <1>1, <2>1 DEF HitsStand
<1>12. \A p \in Rank : Waits(p)' BY <1>1, <1>2, <1>3 DEF Waits
<1>13. CacheConsistent' /\ FaultOK' /\ Aligned'
  BY <1>1, <1>2 DEF CacheConsistent, FaultOK, Aligned
<1> QED BY <1>4, <1>5, <1>6, <1>7, <1>8, <1>9, <1>10, <1>11, <1>12, <1>13 DEF Inv

-----------------------------------------------------------------------------
(* The exchange of the cache bits.                                         *)

\* The tensors of a merged list.
LEMMA MergedNames ==
    ASSUME NEW responses, OneEach(responses), NEW list, Merged(responses, list)
    PROVE  /\ list \in Seq(Response)
           /\ InList(list) = {TensorOf(responses[i]) : i \in DOMAIN responses}
           /\ Once(list)
<1>1. list \in Seq(Response) /\ Once(list) BY DEF Merged, Once
<1>2. ASSUME NEW n \in InList(list) PROVE \E i \in DOMAIN responses : TensorOf(responses[i]) = n
  <2>1. PICK k \in DOMAIN list : n \in NamesIn(list[k]) BY DEF InList
  <2> QED BY <2>1 DEF Merged
<1>3. ASSUME NEW i \in DOMAIN responses PROVE TensorOf(responses[i]) \in InList(list)
  BY DEF Merged, InList
<1> QED BY <1>1, <1>2, <1>3

\* The names of the hits that are common to all ranks.
Common == {cache[0][b].name : b \in CacheHits(0)}

\* All ranks find the same bits and flags.
LEMMA SameBits ==
    ASSUME NEW q \in Rank, NEW r \in Rank
    PROVE  /\ CacheHits(q) = CacheHits(r) /\ InvalidBits(q) = InvalidBits(r)
           /\ UncachedInQueue(q) = UncachedInQueue(r) /\ ShouldShutDown(q) = ShouldShutDown(r)
BY DEF CacheHits, InvalidBits, UncachedInQueue, ShouldShutDown

\* There is at least the coordinator.
LEMMA Coordinator0 == 0 \in Rank
BY SizeAssumption DEF Rank

\* A common hit is among the messages of every rank, and fits its tensor.
LEMMA HitsAreCommon ==
    ASSUME Inv, \A r \in Rank : phase[r] = "sync", NEW b \in CacheHits(0)
    PROVE  /\ b \in DOMAIN cache[0] /\ b \notin InvalidBits(0)
           /\ \A r \in Rank : cache[0][b].name \in M(r)
           /\ Stands(cache[0][b])
<1> USE InvParts
<1>1. GoodCache(cache[0]) BY Coordinator0
<1>2. ASSUME NEW r \in Rank
      PROVE  /\ b \in DOMAIN cache[0] /\ cache[0][b].name \in M(r)
             /\ table[r][cache[0][b].name].dtype = cache[0][b].dtype
             /\ table[r][cache[0][b].name].shape = cache[0][b].shape
  <2>1. b \in coord[r].hits BY DEF CacheHits
  <2>2. coord[r].hits = Bits(r, HitNames(r)) BY DEF SyncHolds
  <2>3. PICK n \in HitNames(r) : b = peek_cache_bit(cache[r], n)
    BY <2>1, <2>2 DEF Bits
  <2>4. cache[r] = cache[0] /\ GoodCache(cache[r]) BY Coordinator0 DEF CacheConsistent
  <2>5. n \in M(r) /\ cached(cache[r], table[r][n]) = "HIT" BY DEF HitNames
  <2>6. table[r][n].name = n
    <3>1. n \in Outstanding(r) BY <2>5 DEF Located
    <3> QED BY <3>1 DEF TableOK, JoinRequest, J
  <2>7. n \in CachedNames(cache[r]) BY <2>5, <2>6 DEF cached
  <2>8. b \in DOMAIN cache[r] /\ cache[r][b].name = n BY <2>3, <2>4, <2>7, CacheBits
  <2>9. cache[r][b].dtype = table[r][n].dtype /\ cache[r][b].shape = table[r][n].shape
    BY <2>4, <2>5, <2>6, <2>8, HitIsEntry
  <2> QED BY <2>4, <2>5, <2>8, <2>9
<1>3. b \notin InvalidBits(0) BY DEF CacheHits, InvalidBits
<1> QED BY <1>2, <1>3, Coordinator0 DEF Stands

\* What becomes of the messages of rank r.
LEMMA MessagesSplit ==
    ASSUME Inv, \A p \in Rank : phase[p] = "sync", NEW r \in Rank
    PROVE  /\ Common \subseteq M(r) /\ \A n \in Common : IsHit(r, n)
           /\ \A n \in M(r) : IsHit(r, n) => n \in Names
           /\ \A n \in M(r) : ~IsHit(r, n) =>
                 n \notin CachedNames(EraseBits(cache[r], InvalidBits(r)))
           /\ BackOnQueue(r) \in Seq(Names \cup {J}) /\ IsInjective(BackOnQueue(r))
           /\ ToSet(BackOnQueue(r)) = {n \in M(r) : IsHit(r, n) /\ n \notin Common}
           /\ ToNegotiate(r) \in Seq(Names \cup {J}) /\ IsInjective(ToNegotiate(r))
           /\ ToSet(ToNegotiate(r)) = {n \in M(r) : ~IsHit(r, n)}
           /\ ~UncachedInQueue(0) => ToNegotiate(r) = <<>> /\ \A n \in M(r) : IsHit(r, n)
<1> USE InvParts
<1> DEFINE c == cache[r]
           d == EraseBits(c, InvalidBits(r))
           m == msgs[r]
<1>1. /\ GoodCache(c) /\ c = cache[0] /\ Located(r) /\ SyncHolds(r)
      /\ CacheHits(r) = CacheHits(0) /\ InvalidBits(r) = InvalidBits(0)
      /\ m \in Seq(Names \cup {J}) /\ IsInjective(m)
  <2>1. Located(r) BY DEF PhasesOK
  <2> QED BY <2>1, Coordinator0, SameBits DEF CacheConsistent, Typed, Located
<1>2. /\ GoodCache(d)
      /\ \A k \in DOMAIN d : \E i \in DOMAIN c \ InvalidBits(r) : d[k] = c[i]
      /\ \A i \in DOMAIN c \ InvalidBits(r) : \E k \in DOMAIN d : d[k] = c[i]
      /\ InvalidBits(r) = {} => d = c
  BY <1>1, EraseKeeps
<1>3. ASSUME NEW n \in M(r) PROVE table[r][n].name = n
  <2>1. n \in Outstanding(r) BY <1>1 DEF Located
  <2> QED BY <2>1 DEF TableOK, JoinRequest, J
<1> HIDE DEF d, c, m
<1>4. ASSUME NEW n \in M(r)
      PROVE  IsHit(r, n) <=> \E b \in DOMAIN c : /\ b \notin InvalidBits(r)
                                                 /\ c[b].name = n
                                                 /\ c[b].dtype = table[r][n].dtype
                                                 /\ c[b].shape = table[r][n].shape
  <2>1. IsHit(r, n) <=> cached(d, table[r][n]) = "HIT" BY DEF IsHit, d, c
  <2>2. table[r][n].name = n BY <1>3
  <2>3. ASSUME cached(d, table[r][n]) = "HIT"
        PROVE  \E b \in DOMAIN c : /\ b \notin InvalidBits(r)
                                   /\ c[b].name = n
                                   /\ c[b].dtype = table[r][n].dtype
                                   /\ c[b].shape = table[r][n].shape
    <3>1. n \in CachedNames(d) BY <2>2, <2>3 DEF cached
    <3>2. PICK k \in DOMAIN d : d[k].name = n BY <3>1 DEF CachedNames
    <3>3. d[k].dtype = table[r][n].dtype /\ d[k].shape = table[r][n].shape
      BY <1>2, <2>2, <2>3, <3>2, HitIsEntry
    <3> QED BY <1>2, <3>2, <3>3
  <2>4. ASSUME NEW b \in DOMAIN c, b \notin InvalidBits(r), c[b].name = n,
               c[b].dtype = table[r][n].dtype, c[b].shape = table[r][n].shape
        PROVE  cached(d, table[r][n]) = "HIT"
    <3>1. PICK k \in DOMAIN d : d[k] = c[b] BY <1>2, <2>4
    <3> QED BY <1>2, <2>2, <2>4, <3>1, HitIsEntry
  <2> QED BY <2>1, <2>3, <2>4
<1>5. ASSUME NEW n \in Common PROVE n \in M(r) /\ IsHit(r, n)
  <2>1. PICK b \in CacheHits(0) : n = cache[0][b].name BY DEF Common
  <2>2. /\ b \in DOMAIN c /\ b \notin InvalidBits(r) /\ c[b].name \in M(r) /\ Stands(c[b])
    BY <1>1, HitsAreCommon DEF c
  <2>3. c[b].name = n BY <1>1, <2>1 DEF c
  <2> QED BY <1>4, <2>2, <2>3 DEF Stands
<1>6. ASSUME NEW n \in M(r), IsHit(r, n)
      PROVE  n \in Names /\ (peek_cache_bit(c, n) \in CacheHits(r) <=> n \in Common)
  <2>1. PICK b \in DOMAIN c : c[b].name = n BY <1>4, <1>6
  <2>2. peek_cache_bit(c, n) = b BY <1>1, <2>1, CacheBits DEF c
  <2>3. CachedNames(c) \subseteq Names BY <1>1, CachedAreNames DEF c
  <2>4. n \in Names BY <2>1, <2>3 DEF CachedNames
  <2>5. ASSUME b \in CacheHits(r) PROVE n \in Common
    BY <1>1, <2>1, <2>5 DEF Common, c
  <2>6. ASSUME n \in Common PROVE b \in CacheHits(r)
    <3>1. PICK x \in CacheHits(0) : n = cache[0][x].name BY <2>6 DEF Common
    <3>2. x \in DOMAIN c BY <1>1, HitsAreCommon DEF c
    <3>3. x = b BY <1>1, <2>1, <3>1, <3>2 DEF GoodCache, c
    <3> QED BY <1>1, <3>3
  <2> QED BY <2>2, <2>4, <2>5, <2>6
<1>7. ASSUME NEW n \in M(r), ~IsHit(r, n) PROVE n \notin CachedNames(d)
  <2> SUFFICES ASSUME n \in CachedNames(d) PROVE FALSE
    OBVIOUS
  <2>1. PICK k \in DOMAIN d : d[k].name = n BY DEF CachedNames
  <2>2. PICK b \in DOMAIN c : b \notin InvalidBits(r) /\ d[k] = c[b] BY <1>2
  <2>3. ~(c[b].dtype = table[r][n].dtype /\ c[b].shape = table[r][n].shape)
    BY <1>4, <1>7, <2>1, <2>2
  <2>4. table[r][n].name = n /\ c[b].name = n BY <1>3, <2>1, <2>2
  <2>5. cached(c, table[r][n]) # "HIT" BY <1>1, <2>3, <2>4, HitIsEntry DEF c
  <2>6. cached(c, table[r][n]) # "MISS" BY <2>4 DEF cached, CachedNames
  <2>7. n \in InvalidNames(r) BY <1>1, <2>5, <2>6, HitIsEntry DEF InvalidNames, c
  <2>8. peek_cache_bit(c, n) = b BY <1>1, <2>4, CacheBits DEF c
  <2>9. b \in Bits(r, InvalidNames(r)) BY <2>7, <2>8 DEF Bits, c
  <2>10. b \in coord[r].invalid BY <1>1, <2>9 DEF SyncHolds
  <2> QED BY <2>2, <2>10 DEF InvalidBits
<1> DEFINE back == {i \in DOMAIN m : IsHit(r, m[i]) /\ peek_cache_bit(c, m[i]) \notin CacheHits(r)}
           neg == {i \in DOMAIN m : ~IsHit(r, m[i])}
<1>8. M(r) = {m[i] : i \in DOMAIN m} BY DEF M, ToSet, m
<1>9. /\ BackOnQueue(r) \in Seq(Names \cup {J}) /\ IsInjective(BackOnQueue(r))
      /\ ToSet(BackOnQueue(r)) = {n \in M(r) : IsHit(r, n) /\ n \notin Common}
  <2>1. BackOnQueue(r) = At(m, back) BY DEF BackOnQueue, m, c
  <2>2. back \in SUBSET (DOMAIN m) OBVIOUS
  <2>3. ToSet(At(m, back)) = {m[i] : i \in back} /\ At(m, back) \in Seq(Names \cup {J})
        /\ IsInjective(At(m, back))
    BY <1>1, <2>2, AtElements
  <2>4. {m[i] : i \in back} = {n \in M(r) : IsHit(r, n) /\ n \notin Common}
    BY <1>6, <1>8
  <2> QED BY <2>1, <2>3, <2>4
<1>10. /\ ToNegotiate(r) \in Seq(Names \cup {J}) /\ IsInjective(ToNegotiate(r))
       /\ ToSet(ToNegotiate(r)) = {n \in M(r) : ~IsHit(r, n)}
       /\ neg = {} => ToNegotiate(r) = <<>>
  <2>1. ToNegotiate(r) = At(m, neg) BY DEF ToNegotiate, m
  <2>2. neg \in SUBSET (DOMAIN m) OBVIOUS
  <2>3. ToSet(At(m, neg)) = {m[i] : i \in neg} /\ At(m, neg) \in Seq(Names \cup {J})
        /\ IsInjective(At(m, neg)) /\ (neg = {} => At(m, neg) = <<>>)
    BY <1>1, <2>2, AtElements
  <2>4. {m[i] : i \in neg} = {n \in M(r) : ~IsHit(r, n)}
    BY <1>8
  <2> QED BY <2>1, <2>3, <2>4
<1>11. ASSUME ~UncachedInQueue(0)
       PROVE  ToNegotiate(r) = <<>> /\ \A n \in M(r) : IsHit(r, n)
  <2>1. \A q \in Rank : ~coord[q].uncached BY <1>11 DEF UncachedInQueue
  <2>2. \A q \in Rank : coord[q].invalid = {} /\ M(q) = HitNames(q)
    BY <2>1 DEF SyncHolds
  <2>3. InvalidBits(r) = {} BY <2>2 DEF InvalidBits
  <2>4. \A n \in M(r) : cached(c, table[r][n]) = "HIT" BY <2>2 DEF HitNames, c
  <2>5. \A n \in M(r) : IsHit(r, n) BY <1>2, <2>3, <2>4 DEF IsHit, d, c
  <2>6. neg = {} BY <1>8, <2>5
  <2> QED BY <1>10, <2>5, <2>6
<1> QED BY <1>5, <1>6, <1>7, <1>9, <1>10, <1>11 DEF d, c

\* The responses from the cache are the same on every rank, one to each
\* common hit.
LEMMA CacheAnswers ==
    ASSUME Inv, \A p \in Rank : phase[p] = "sync"
    PROVE  /\ \A r \in Rank : FromCache(r) = FromCache(0)
           /\ OneEach(FromCache(0))
           /\ \A i \in DOMAIN FromCache(0) : \E b \in CacheHits(0) :
                 FromCache(0)[i] = CachedResponse(cache[0][b])
           /\ {TensorOf(FromCache(0)[i]) : i \in DOMAIN FromCache(0)} = Common
<1> USE InvParts
<1> DEFINE c == cache[0]
           P == CacheHits(0)
           hits == At(c, P)
           answers == FromCache(0)
<1>1. ASSUME NEW r \in Rank PROVE FromCache(r) = answers
  <2>1. cache[r] = c /\ CacheHits(r) = P BY Coordinator0, SameBits DEF CacheConsistent
  <2> QED BY <2>1 DEF FromCache
<1>2. GoodCache(c) /\ P \in SUBSET (DOMAIN c)
  BY Coordinator0, HitsAreCommon
<1>3. /\ hits \in Seq(Entries) /\ Len(hits) = Cardinality(P) /\ Cardinality(P) \in Nat
      /\ \A k \in DOMAIN hits : \E i \in P : hits[k] = c[i]
      /\ \A i \in P : \E k \in DOMAIN hits : hits[k] = c[i]
      /\ \A k, l \in DOMAIN hits : hits[k].name = hits[l].name => k = l
  BY <1>2, SomeEntries
<1>4. answers = [i \in DOMAIN hits |-> CachedResponse(hits[i])] BY DEF FromCache
<1> HIDE DEF hits, answers
<1>5. DOMAIN hits = 1 .. Len(hits) /\ Len(hits) \in Nat /\ \A i \in DOMAIN hits : hits[i] \in Entries
  BY <1>3
<1>6. ASSUME NEW e \in Entries
      PROVE  /\ CachedResponse(e) \in Response
             /\ TensorOf(CachedResponse(e)) = e.name /\ e.name \in Names \cup {J}
             /\ CachedResponse(e).names = <<TensorOf(CachedResponse(e))>>
  <2>1. e.name \in Names /\ e.type \in Reductions BY DEF Entries, Entry, Names
  <2>2. e.type \in {"ALLREDUCE", "ADASUM", "ALLGATHER", "BROADCAST", "ERROR", "JOIN"}
    BY <2>1 DEF Reductions
  <2>3. <<e.name>> \in Seq(Names \cup {J}) /\ <<>> \in Seq(Nat) /\ Rank \in SUBSET Rank
    BY <2>1
  <2> QED BY <2>1, <2>2, <2>3 DEF CachedResponse, Response, TensorOf, J
<1>7. answers \in Seq(Response)
  BY <1>4, <1>5, <1>6
<1>8. DOMAIN answers = DOMAIN hits /\ \A i \in DOMAIN hits : answers[i] = CachedResponse(hits[i])
  BY <1>4
<1> HIDE DEF TensorOf
<1>9. OneEach(answers)
  <2>1. \A i \in DOMAIN answers : /\ TensorOf(answers[i]) = hits[i].name
                                  /\ TensorOf(answers[i]) \in Names \cup {J}
                                  /\ answers[i].names = <<TensorOf(answers[i])>>
    BY <1>5, <1>6, <1>8
  <2> QED BY <1>3, <1>7, <1>8, <2>1 DEF OneEach
<1>10. \A i \in DOMAIN answers : \E b \in P : answers[i] = CachedResponse(c[b])
  BY <1>3, <1>8
<1>11. {TensorOf(answers[i]) : i \in DOMAIN answers} = {c[b].name : b \in P}
  <2>1. \A i \in DOMAIN answers : TensorOf(answers[i]) = hits[i].name
    BY <1>5, <1>6, <1>8
  <2>2. \A i \in DOMAIN answers : \E b \in P : TensorOf(answers[i]) = c[b].name
    BY <1>3, <1>8, <2>1
  <2>3. \A b \in P : \E i \in DOMAIN answers : TensorOf(answers[i]) = c[b].name
    BY <1>3, <1>8, <2>1
  <2> QED BY <2>2, <2>3
<1> QED BY <1>1, <1>9, <1>10, <1>11 DEF answers, Common

\* What the exchange of the bits leaves of the messages, on either path.
LEMMA SyncMoves ==
    ASSUME Inv, Sync
    PROVE  /\ \A r \in Rank :
                 /\ phase[r] = "sync" /\ todo[r] = <<>> /\ Located(r) /\ JoinsOK(r)
                 /\ queue'[r] \in Seq(Names \cup {J}) /\ IsInjective(queue'[r])
                 /\ Q(r)' = Q(r) \cup {n \in M(r) : IsHit(r, n) /\ n \notin Common}
                 /\ msgs'[r] \in Seq(Names \cup {J}) /\ IsInjective(msgs'[r])
                 /\ M(r)' = {n \in M(r) : ~IsHit(r, n)}
                 /\ Outstanding(r)' = Outstanding(r) /\ Counted(r)' = Counted(r)
           /\ cachedHits = <<>> /\ Capacity > 0 /\ InList(<<>>) = {}
           /\ queue' \in [Rank -> Seq(Names \cup {J})]
           /\ msgs' \in [Rank -> Seq(Names \cup {J})]
           /\ UNCHANGED <<table, shutDown, left, joined, messageTable, joinedSize, fault>>
<1> USE InvParts
<1>1. \A r \in Rank : phase[r] = "sync" BY DEF Sync
<1>2. /\ UNCHANGED <<table, shutDown, left, joined, messageTable, joinedSize, fault>>
      /\ queue' = [r \in Rank |-> queue[r] \o BackOnQueue(r)]
      /\ msgs' = [r \in Rank |-> ToNegotiate(r)]
  BY DEF Sync
<1>3. ASSUME NEW r \in Rank
      PROVE  /\ todo[r] = <<>> /\ Located(r) /\ JoinsOK(r)
             /\ queue'[r] \in Seq(Names \cup {J}) /\ IsInjective(queue'[r])
             /\ Q(r)' = Q(r) \cup {n \in M(r) : IsHit(r, n) /\ n \notin Common}
             /\ msgs'[r] \in Seq(Names \cup {J}) /\ IsInjective(msgs'[r])
             /\ M(r)' = {n \in M(r) : ~IsHit(r, n)}
             /\ Outstanding(r)' = Outstanding(r) /\ Counted(r)' = Counted(r)
  <2>1. todo[r] = <<>> /\ Located(r) /\ JoinsOK(r) BY <1>1 DEF PhasesOK
  <2>2. /\ BackOnQueue(r) \in Seq(Names \cup {J}) /\ IsInjective(BackOnQueue(r))
        /\ ToSet(BackOnQueue(r)) = {n \in M(r) : IsHit(r, n) /\ n \notin Common}
        /\ ToNegotiate(r) \in Seq(Names \cup {J}) /\ IsInjective(ToNegotiate(r))
        /\ ToSet(ToNegotiate(r)) = {n \in M(r) : ~IsHit(r, n)}
    BY <1>1, MessagesSplit
  <2>3. queue[r] \in Seq(Names \cup {J}) BY DEF Typed
  <2>4. IsInjective(queue[r]) /\ ToSet(queue[r]) \cap M(r) = {}
    BY <2>1 DEF Located, Q
  <2>5. ToSet(queue[r]) \cap ToSet(BackOnQueue(r)) = {} BY <2>2, <2>4
  <2>6. /\ queue[r] \o BackOnQueue(r) \in Seq(Names \cup {J})
        /\ IsInjective(queue[r] \o BackOnQueue(r))
        /\ ToSet(queue[r] \o BackOnQueue(r)) = ToSet(queue[r]) \cup ToSet(BackOnQueue(r))
    BY <2>2, <2>3, <2>4, <2>5, ConcatSet, ConcatElements
  <2>7. queue'[r] = queue[r] \o BackOnQueue(r) /\ msgs'[r] = ToNegotiate(r) BY <1>2
  <2>8. Outstanding(r)' = Outstanding(r) /\ Counted(r)' = Counted(r)
    BY <1>2 DEF Outstanding, Counted
  <2>9. Q(r)' = Q(r) \cup {n \in M(r) : IsHit(r, n) /\ n \notin Common}
    BY <2>2, <2>6, <2>7 DEF Q
  <2>10. M(r)' = {n \in M(r) : ~IsHit(r, n)} BY <2>2, <2>7 DEF M
  <2> QED BY <2>1, <2>2, <2>6, <2>7, <2>8, <2>9, <2>10
<1>4. cachedHits = <<>> /\ Capacity > 0
  BY <1>1, Coordinator0 DEF PhasesOK
<1>5. InList(<<>>) = {} BY DEF InList
<1>6. queue' \in [Rank -> Seq(Names \cup {J})] /\ msgs' \in [Rank -> Seq(Names \cup {J})]
  BY <1>2, <1>3
<1> QED BY <1>1, <1>2, <1>3, <1>4, <1>5, <1>6

\* The exchange of the bits, with something to negotiate.
LEMMA SlowSyncKeeps ==
    ASSUME Inv, Sync, UncachedInQueue(0)
    PROVE  Inv'
<1> USE InvParts
<1>1. /\ \A r \in Rank :
           /\ phase[r] = "sync" /\ todo[r] = <<>> /\ Located(r) /\ JoinsOK(r)
           /\ queue'[r] \in Seq(Names \cup {J}) /\ IsInjective(queue'[r])
           /\ Q(r)' = Q(r) \cup {n \in M(r) : IsHit(r, n) /\ n \notin Common}
           /\ msgs'[r] \in Seq(Names \cup {J}) /\ IsInjective(msgs'[r])
           /\ M(r)' = {n \in M(r) : ~IsHit(r, n)}
           /\ Outstanding(r)' = Outstanding(r) /\ Counted(r)' = Counted(r)
      /\ cachedHits = <<>> /\ Capacity > 0 /\ InList(<<>>) = {}
      /\ queue' \in [Rank -> Seq(Names \cup {J})]
      /\ msgs' \in [Rank -> Seq(Names \cup {J})]
      /\ UNCHANGED <<table, shutDown, left, joined, messageTable, joinedSize, fault>>
  BY SyncMoves
<1>2. \A r \in Rank : UncachedInQueue(r) /\ InvalidBits(r) = InvalidBits(0)
  BY Coordinator0, SameBits
<1>3. /\ stalled' = [r \in Rank |->
            IF StallCheck THEN stalled[r] \ Handled(r) ELSE stalled[r]]
      /\ phase' = [r \in Rank |-> "ready"]
      /\ cache' = [r \in Rank |-> EraseBits(cache[r], InvalidBits(r))]
      /\ todo' = [r \in Rank |-> <<>>]
      /\ stop' = [r \in Rank |-> FALSE]
      /\ coord' = coord
      /\ cachedHits' = FromCache(0)
  <2>1. coord = [r \in Rank |-> coord[r]] BY DEF Typed
  <2> QED BY <1>2, <2>1, Coordinator0 DEF Sync
<1>4. \A r \in Rank :
         /\ phase'[r] = "ready" /\ todo'[r] = <<>>
         /\ cache'[r] = EraseBits(cache[r], InvalidBits(r))
         /\ GoodCache(cache'[r]) /\ cache'[r] \in Seq(Entries)
         /\ CachedNames(cache'[r]) \subseteq CachedNames(cache[r])
  <2> TAKE r \in Rank
  <2>1. phase'[r] = "ready" /\ todo'[r] = <<>>
        /\ cache'[r] = EraseBits(cache[r], InvalidBits(r)) BY <1>3
  <2>2. GoodCache(cache[r]) OBVIOUS
  <2>3. GoodCache(EraseBits(cache[r], InvalidBits(r)))
        /\ \A k \in DOMAIN EraseBits(cache[r], InvalidBits(r)) :
             \E i \in DOMAIN cache[r] \ InvalidBits(r) :
                EraseBits(cache[r], InvalidBits(r))[k] = cache[r][i]
    BY <2>2, EraseKeeps
  <2>4. CachedNames(EraseBits(cache[r], InvalidBits(r))) \subseteq CachedNames(cache[r])
    BY <2>3 DEF CachedNames
  <2> QED BY <2>1, <2>3, <2>4 DEF GoodCache
<1>5. /\ OneEach(FromCache(0))
      /\ \A i \in DOMAIN FromCache(0) : \E b \in CacheHits(0) :
            FromCache(0)[i] = CachedResponse(cache[0][b])
      /\ {TensorOf(FromCache(0)[i]) : i \in DOMAIN FromCache(0)} = Common
  BY <1>1, CacheAnswers
<1>6. /\ FromCache(0) \in Seq(Response)
      /\ InList(FromCache(0)) = Common /\ Once(FromCache(0))
  BY <1>5, UnfusedIsMerged, MergedNames
<1>7. \A r \in Rank :
         /\ Common \subseteq M(r) /\ (\A n \in Common : IsHit(r, n))
         /\ \A n \in M(r) : IsHit(r, n) => n \in Names
         /\ \A n \in M(r) : ~IsHit(r, n) =>
               n \notin CachedNames(EraseBits(cache[r], InvalidBits(r)))
  BY <1>1, MessagesSplit
<1>8. Typed'
  <2>1. cache' \in [Rank -> Seq(Entries)] BY <1>3, <1>4
  <2>2. stalled' \in [Rank -> SUBSET Names] BY <1>3 DEF Typed
  <2>3. phase' \in [Rank -> Phases] BY <1>3 DEF Phases
  <2>4. <<>> \in Seq(Response) OBVIOUS
  <2>5. todo' \in [Rank -> Seq(Response)] BY <1>3, <2>4
  <2>6. stop' \in [Rank -> BOOLEAN] BY <1>3
  <2>7. coord' \in [Rank -> [hits : SUBSET Nat, invalid : SUBSET Nat,
                             uncached : BOOLEAN, shut : BOOLEAN]]
    BY <1>3 DEF Typed
  <2> QED BY <1>1, <1>3, <1>6, <2>1, <2>2, <2>3, <2>5, <2>6, <2>7 DEF Typed
<1>9. \A r \in Rank : TableOK(r)' /\ GoodCache(cache[r])' /\ TodoOK(r)'
  <2> TAKE r \in Rank
  <2>1. TableOK(r)' BY <1>1 DEF TableOK
  <2>2. GoodCache(cache[r])' BY <1>4 DEF GoodCache
  <2>3. DOMAIN <<>> = {} OBVIOUS
  <2>4. TodoOK(r)' BY <1>4, <2>3 DEF TodoOK
  <2> QED BY <2>1, <2>2, <2>4
<1>10. PhasesOK' BY <1>1, <1>4 DEF PhasesOK
<1>11. ASSUME NEW r \in Rank PROVE Located(r)' /\ JoinsOK(r)'
  <2>0. Located(r) /\ JoinsOK(r) BY <1>1
  <2>1. InList(cachedHits)' = Common /\ InList(todo[r])' = {}
        /\ Once(cachedHits)' /\ Once(todo[r])'
    <3>1. DOMAIN <<>> = {} OBVIOUS
    <3>2. InList(todo[r])' = {} BY <1>1, <1>4 DEF InList
    <3>3. Once(todo[r])' BY <1>4, <3>1 DEF Once
    <3>4. InList(cachedHits)' = Common BY <1>3, <1>6 DEF InList
    <3>5. Once(cachedHits)' BY <1>3, <1>6 DEF Once
    <3> QED BY <3>2, <3>3, <3>4, <3>5
  <2>2. InList(todo[r]) = {} /\ InList(cachedHits) = {} BY <1>1
  <2> HIDE DEF InList, Once
  <2>3. Located(r)'
    <3>1. \A n \in Outstanding(r)' : n # J =>
            \/ n \in Q(r)' \/ n \in M(r)' \/ n \in Counted(r)'
            \/ n \in InList(cachedHits)'
      BY <1>1, <2>0, <2>1, <2>2 DEF Located
    <3>2. /\ Q(r)' \subseteq Outstanding(r)' /\ M(r)' \subseteq Outstanding(r)'
          /\ Counted(r)' \subseteq Outstanding(r)'
          /\ InList(cachedHits)' \subseteq Outstanding(r)'
      BY <1>1, <1>7, <2>0, <2>1 DEF Located
    <3>3. /\ Q(r)' \cap M(r)' = {}
          /\ Counted(r)' \cap Q(r)' = {} /\ Counted(r)' \cap M(r)' = {}
      BY <1>1, <2>0 DEF Located
    <3>4. \A n \in InList(cachedHits)' : n \notin Q(r)' /\ n \notin M(r)' /\ n \notin Counted(r)'
      BY <1>1, <1>7, <2>0, <2>1 DEF Located
    <3>5. IsInjective(queue[r])' /\ IsInjective(msgs[r])' BY <1>1 DEF IsInjective
    <3> QED BY <2>1, <3>1, <3>2, <3>3, <3>4, <3>5 DEF Located
  <2>4. JoinsOK(r)'
    BY <1>1, <1>7, <2>0, JoinIsNoName DEF JoinsOK
  <2> QED BY <2>3, <2>4
<1>12. JoinCount'
  <2>1. \A r \in Rank : (J \in M(r)' <=> J \in M(r)) /\ (HasJoin(r)' <=> HasJoin(r))
    <3>1. DOMAIN <<>> = {} OBVIOUS
    <3> QED BY <1>1, <1>4, <1>7, <3>1, JoinIsNoName DEF HasJoin
  <2>2. CountedJoins' = CountedJoins BY <1>1, <2>1 DEF CountedJoins
  <2> QED BY <1>1, <2>2 DEF JoinCount
<1>13. \A r \in Rank : SyncHolds(r)' BY <1>4 DEF SyncHolds
<1>14. Uncached'
  <2>1. \A n \in Names, r \in Rank : messageTable'[n] # {} => n \notin CachedNames(cache'[r])
    BY <1>1, <1>4 DEF Uncached
  <2>2. \A r \in Rank : M(r)' \cap CachedNames(cache'[r]) = {}
    BY <1>1, <1>4, <1>7
  <2> QED BY <2>1, <2>2 DEF Uncached
<1>15. HitsStand'
  <2> SUFFICES ASSUME NEW i \in DOMAIN FromCache(0)
               PROVE  \E e \in ToSet(cache'[0]) : FromCache(0)[i] = CachedResponse(e) /\ Stands(e)'
    BY <1>3 DEF HitsStand
  <2>1. PICK b \in CacheHits(0) : FromCache(0)[i] = CachedResponse(cache[0][b]) BY <1>5
  <2>2. b \in DOMAIN cache[0] /\ b \notin InvalidBits(0) /\ Stands(cache[0][b])
    BY <1>1, HitsAreCommon
  <2>3. PICK e : e = cache[0][b] OBVIOUS
  <2>4. GoodCache(cache[0]) BY Coordinator0
  <2>5. \A x \in DOMAIN cache[0] \ InvalidBits(0) :
          \E k \in DOMAIN EraseBits(cache[0], InvalidBits(0)) :
             EraseBits(cache[0], InvalidBits(0))[k] = cache[0][x]
    BY <2>4, EraseKeeps
  <2>6. \E k \in DOMAIN EraseBits(cache[0], InvalidBits(0)) :
           EraseBits(cache[0], InvalidBits(0))[k] = e
    BY <2>2, <2>3, <2>5
  <2>7. e \in ToSet(cache'[0]) BY <1>4, <2>6, Coordinator0 DEF ToSet
  <2>8. Stands(e)' BY <1>1, <2>2, <2>3 DEF Stands
  <2> QED BY <2>1, <2>3, <2>7, <2>8
<1>16. \A r \in Rank : Waits(r)'
  <2> TAKE r \in Rank
  <2>1. stalled[r] \subseteq Q(r) \cup M(r) BY <1>1 DEF Waits
  <2>2. ToSet(BackOnQueue(r)) = {n \in M(r) : IsHit(r, n) /\ n \notin Common}
    BY <1>1, MessagesSplit
  <2>3. CASE StallCheck
    BY <1>1, <1>3, <2>1, <2>2, <2>3 DEF Waits, Handled, M
  <2>4. CASE ~StallCheck
    <3>1. stalled[r] = {} BY <1>1, <2>4 DEF Waits
    <3> QED BY <1>3, <2>4, <3>1 DEF Waits
  <2> QED BY <2>3, <2>4
<1>17. CacheConsistent'
  BY <1>2, <1>4, CacheConsistent DEF CacheConsistent
<1>18. Aligned' /\ FaultOK' BY <1>1, <1>4 DEF Aligned, FaultOK
<1> QED BY <1>8, <1>9, <1>10, <1>11, <1>12, <1>13, <1>14, <1>15, <1>16, <1>17, <1>18 DEF Inv

\* What every rank performs on the fast path.
LEMMA FastList ==
    ASSUME Inv, \A r \in Rank : phase[r] = "sync"
    PROVE  /\ \A r \in Rank : Fused(r, FromCache(r)) = Fused(0, FromCache(0))
           /\ Fused(0, FromCache(0)) \in Seq(Response)
           /\ InList(Fused(0, FromCache(0))) = Common
           /\ Once(Fused(0, FromCache(0)))
           /\ \A k \in DOMAIN Fused(0, FromCache(0)) :
                 Fused(0, FromCache(0))[k].type # "JOIN"
<1> USE InvParts
<1> DEFINE answers == FromCache(0)
           list == Fused(0, answers)
<1>1. /\ \A r \in Rank : FromCache(r) = answers
      /\ OneEach(answers)
      /\ \A i \in DOMAIN answers : \E b \in CacheHits(0) :
            answers[i] = CachedResponse(cache[0][b])
      /\ {TensorOf(answers[i]) : i \in DOMAIN answers} = Common
  BY CacheAnswers
<1>2. Merged(answers, list) BY <1>1, FusedIsMerged
<1>3. /\ list \in Seq(Response)
      /\ InList(list) = {TensorOf(answers[i]) : i \in DOMAIN answers}
      /\ Once(list)
  BY <1>1, <1>2, MergedNames
<1>4. ASSUME NEW i \in DOMAIN answers
      PROVE  /\ answers[i].type \in Reductions
             /\ TensorOf(answers[i]) # J
             /\ \A r \in Rank :
                   /\ TensorOf(answers[i]) \in Outstanding(r)
                   /\ table[r][TensorOf(answers[i])].dtype = table[0][TensorOf(answers[i])].dtype
                   /\ table[r][TensorOf(answers[i])].shape = table[0][TensorOf(answers[i])].shape
  <2>1. PICK b \in CacheHits(0) : answers[i] = CachedResponse(cache[0][b]) BY <1>1
  <2>2. PICK e : e = cache[0][b] OBVIOUS
  <2>3. /\ b \in DOMAIN cache[0] /\ \A r \in Rank : e.name \in M(r)
        /\ Stands(e)
    BY <2>2, HitsAreCommon
  <2>4. GoodCache(cache[0]) BY Coordinator0
  <2>5. e \in Entries BY <2>2, <2>3, <2>4, CacheBits
  <2>6. e.type \in Reductions /\ e.name \in Names BY <2>5 DEF Entries, Entry, Names
  <2>7. TensorOf(answers[i]) = e.name /\ answers[i].type = e.type
    BY <2>1, <2>2 DEF CachedResponse, TensorOf
  <2>8. \A r \in Rank : e.name \in Outstanding(r)
    BY <2>3 DEF Located
  <2>9. \A r \in Rank : table[r][e.name].dtype = table[0][e.name].dtype
                        /\ table[r][e.name].shape = table[0][e.name].shape
    BY <2>3, Coordinator0 DEF Stands
  <2> QED BY <2>6, <2>7, <2>8, <2>9, JoinIsNoName
<1>5. ASSUME NEW r \in Rank PROVE Fused(r, FromCache(r)) = list
  <2> HIDE DEF answers
  <2>1. \A i \in DOMAIN answers :
              LET n == TensorOf(answers[i])
              IN  /\ n # J /\ n \in Outstanding(r) /\ n \in Outstanding(0)
                  /\ table[r][n].dtype = table[0][n].dtype
                  /\ table[r][n].shape = table[0][n].shape
    BY <1>4, Coordinator0
  <2>2. Fused(r, answers) = Fused(0, answers) BY <2>1, Coordinator0, FusedAlike
  <2> QED BY <1>1, <2>2
<1>6. ASSUME NEW k \in DOMAIN list PROVE list[k].type # "JOIN"
  <2> HIDE DEF answers, list
  <2>1. list[k].names # <<>> /\ list[k] \in Response BY <1>2, <1>3 DEF Merged
  <2>2. list[k].names \in Seq(Names \cup {J}) BY <2>1 DEF Response, J
  <2>3. list[k].names[1] \in NamesIn(list[k]) BY <2>1, <2>2, TailElements DEF NamesIn, ToSet
  <2>4. PICK i \in DOMAIN answers : answers[i].type = list[k].type
    BY <1>2, <2>3 DEF Merged
  <2> QED BY <1>4, <2>4 DEF Reductions
<1> QED BY <1>1, <1>3, <1>5, <1>6

\* The exchange of the bits, with nothing to negotiate.
LEMMA FastSyncKeeps ==
    ASSUME Inv, Sync, ~UncachedInQueue(0)
    PROVE  Inv'
<1> USE InvParts
<1> DEFINE list == Fused(0, FromCache(0))
<1>1. /\ \A r \in Rank :
           /\ phase[r] = "sync" /\ todo[r] = <<>> /\ Located(r) /\ JoinsOK(r)
           /\ queue'[r] \in Seq(Names \cup {J}) /\ IsInjective(queue'[r])
           /\ Q(r)' = Q(r) \cup {n \in M(r) : IsHit(r, n) /\ n \notin Common}
           /\ msgs'[r] \in Seq(Names \cup {J}) /\ IsInjective(msgs'[r])
           /\ M(r)' = {n \in M(r) : ~IsHit(r, n)}
           /\ Outstanding(r)' = Outstanding(r) /\ Counted(r)' = Counted(r)
      /\ cachedHits = <<>> /\ Capacity > 0 /\ InList(<<>>) = {}
      /\ queue' \in [Rank -> Seq(Names \cup {J})]
      /\ msgs' \in [Rank -> Seq(Names \cup {J})]
      /\ UNCHANGED <<table, shutDown, left, joined, messageTable, joinedSize, fault>>
  BY SyncMoves
<1>2. \A r \in Rank : ~UncachedInQueue(r) /\ CacheHits(r) = CacheHits(0)
                      /\ ShouldShutDown(r) \in BOOLEAN
  <2>1. \A r \in Rank : UncachedInQueue(r) = UncachedInQueue(0) /\ CacheHits(r) = CacheHits(0)
    BY Coordinator0, SameBits
  <2> QED BY <2>1 DEF ShouldShutDown
<1>3. /\ \A r \in Rank : Fused(r, FromCache(r)) = list
      /\ list \in Seq(Response) /\ InList(list) = Common /\ Once(list)
      /\ \A k \in DOMAIN list : list[k].type # "JOIN"
  BY <1>1, FastList
<1>4. /\ stalled' = [r \in Rank |->
            IF StallCheck THEN stalled[r] \ Handled(r) ELSE stalled[r]]
      /\ phase' = [r \in Rank |-> "perform"]
      /\ cache' = [r \in Rank |-> MoveToBack(cache[r], CacheHits(r))]
      /\ todo' = [r \in Rank |-> Fused(r, FromCache(r))]
      /\ stop' = [r \in Rank |-> CacheHits(r) = {} /\ ShouldShutDown(r)]
      /\ coord' = [r \in Rank |-> NoCoord]
      /\ cachedHits' = <<>>
      /\ msgs' = [r \in Rank |-> ToNegotiate(r)]
  BY <1>2, Coordinator0 DEF Sync
<1> HIDE DEF list
<1>5. todo' = [r \in Rank |-> list] BY <1>3, <1>4
<1>6. \A r \in Rank :
         /\ phase'[r] = "perform" /\ todo'[r] = list
         /\ cache'[r] = MoveToBack(cache[r], CacheHits(0))
         /\ GoodCache(cache'[r]) /\ cache'[r] \in Seq(Entries)
         /\ CachedNames(cache'[r]) = CachedNames(cache[r])
         /\ cache[r] = cache[0]
  <2> TAKE r \in Rank
  <2>1. phase'[r] = "perform" /\ todo'[r] = list
        /\ cache'[r] = MoveToBack(cache[r], CacheHits(0)) BY <1>2, <1>4, <1>5
  <2>2. cache[r] = cache[0] BY Coordinator0 DEF CacheConsistent
  <2>3. GoodCache(cache[r]) OBVIOUS
  <2>4. CacheHits(0) \in SUBSET (DOMAIN cache[r]) BY <1>1, <2>2, HitsAreCommon
  <2>5. GoodCache(MoveToBack(cache[r], CacheHits(0)))
        /\ CachedNames(MoveToBack(cache[r], CacheHits(0))) = CachedNames(cache[r])
    BY <2>3, <2>4, MoveKeeps
  <2> QED BY <2>1, <2>2, <2>5 DEF GoodCache
<1>7. \A r \in Rank :
         /\ Common \subseteq M(r) /\ (\A n \in M(r) : IsHit(r, n))
         /\ \A n \in M(r) : IsHit(r, n) => n \in Names
         /\ ToNegotiate(r) = <<>>
         /\ ToSet(BackOnQueue(r)) = {n \in M(r) : IsHit(r, n) /\ n \notin Common}
  BY <1>1, MessagesSplit
<1>8. \A r \in Rank : msgs'[r] = <<>> /\ M(r)' = {}
                      /\ M(r) \subseteq Names /\ M(r) = (M(r) \ Common) \cup Common
                      /\ Q(r)' = Q(r) \cup (M(r) \ Common)
  <2>1. \A r \in Rank : msgs'[r] = <<>> BY <1>4, <1>7
  <2>2. \A r \in Rank : M(r)' = {} BY <1>1, <1>7
  <2> QED BY <1>1, <1>7, <2>1, <2>2
<1>9. Typed'
  <2>1. cache' \in [Rank -> Seq(Entries)] BY <1>4, <1>6
  <2>2. stalled' \in [Rank -> SUBSET Names] BY <1>4 DEF Typed
  <2>3. phase' \in [Rank -> Phases] BY <1>4 DEF Phases
  <2>4. <<>> \in Seq(Response) OBVIOUS
  <2>5. todo' \in [Rank -> Seq(Response)] BY <1>3, <1>5
  <2>6. stop' \in [Rank -> BOOLEAN] BY <1>2, <1>4
  <2>7. coord' \in [Rank -> [hits : SUBSET Nat, invalid : SUBSET Nat,
                             uncached : BOOLEAN, shut : BOOLEAN]]
    BY <1>4 DEF NoCoord
  <2> QED BY <1>1, <1>4, <2>1, <2>2, <2>3, <2>4, <2>5, <2>6, <2>7 DEF Typed
<1>10. \A r \in Rank : TableOK(r)' /\ GoodCache(cache[r])' /\ TodoOK(r)'
  <2> TAKE r \in Rank
  <2>1. TableOK(r)' BY <1>1 DEF TableOK
  <2>2. GoodCache(cache[r])' BY <1>6 DEF GoodCache
  <2>3. \A k \in DOMAIN list : NamesIn(list[k]) \subseteq Names
    BY <1>3, <1>7, <1>8 DEF InList
  <2>4. TodoOK(r)' BY <1>3, <1>6, <2>3 DEF TodoOK, NamesIn
  <2> QED BY <2>1, <2>2, <2>4
<1>11. PhasesOK' BY <1>1, <1>4, <1>6, <1>8 DEF PhasesOK
<1>12. ASSUME NEW r \in Rank PROVE Located(r)' /\ JoinsOK(r)'
  <2>0. Located(r) /\ JoinsOK(r) BY <1>1
  <2>1. InList(cachedHits)' = {} /\ InList(todo[r])' = Common
        /\ Once(cachedHits)' /\ Once(todo[r])'
    <3>1. DOMAIN <<>> = {} OBVIOUS
    <3>2. InList(cachedHits)' = {} BY <1>1, <1>4 DEF InList
    <3>3. Once(cachedHits)' BY <1>4, <3>1 DEF Once
    <3>4. InList(todo[r])' = Common BY <1>3, <1>6 DEF InList
    <3>5. Once(todo[r])' BY <1>3, <1>6 DEF Once
    <3> QED BY <3>2, <3>3, <3>4, <3>5
  <2>2. InList(todo[r]) = {} /\ InList(cachedHits) = {} BY <1>1
  <2> HIDE DEF InList, Once
  <2>3. Located(r)'
    <3>1. \A n \in Outstanding(r)' : n # J =>
            \/ n \in Q(r)' \/ n \in Counted(r)' \/ n \in InList(todo[r])'
      BY <1>1, <1>8, <2>0, <2>1, <2>2 DEF Located
    <3>2. /\ Q(r)' \subseteq Outstanding(r)' /\ M(r)' \subseteq Outstanding(r)'
          /\ Counted(r)' \subseteq Outstanding(r)'
          /\ InList(todo[r])' \subseteq Outstanding(r)'
      BY <1>1, <1>7, <1>8, <2>0, <2>1 DEF Located
    <3>3. /\ Q(r)' \cap M(r)' = {}
          /\ Counted(r)' \cap Q(r)' = {} /\ Counted(r)' \cap M(r)' = {}
      BY <1>1, <1>8, <2>0 DEF Located
    <3>4. \A n \in InList(todo[r])' : n \notin Q(r)' /\ n \notin M(r)' /\ n \notin Counted(r)'
      BY <1>1, <1>7, <1>8, <2>0, <2>1 DEF Located
    <3>5. IsInjective(queue[r])' /\ IsInjective(msgs[r])' BY <1>1 DEF IsInjective
    <3> QED BY <2>1, <3>1, <3>2, <3>3, <3>4, <3>5 DEF Located
  <2>4. JoinsOK(r)'
    BY <1>1, <1>8, <2>0, JoinIsNoName DEF JoinsOK
  <2> QED BY <2>3, <2>4
<1>13. JoinCount'
  <2>1. \A r \in Rank : ~HasJoin(r) /\ ~HasJoin(r)' /\ J \notin M(r) /\ J \notin M(r)'
    <3>1. DOMAIN <<>> = {} OBVIOUS
    <3>2. \A r \in Rank : ~HasJoin(r) /\ ~HasJoin(r)' BY <1>1, <1>3, <1>6, <3>1 DEF HasJoin
    <3> QED BY <1>8, <3>2, JoinIsNoName
  <2>2. CountedJoins' = CountedJoins BY <1>1, <2>1 DEF CountedJoins
  <2> QED BY <1>1, <2>2 DEF JoinCount
<1>14. \A r \in Rank : SyncHolds(r)' BY <1>6 DEF SyncHolds
<1>15. Uncached'
  <2>1. \A n \in Names, r \in Rank : messageTable'[n] # {} => n \notin CachedNames(cache'[r])
    BY <1>1, <1>6 DEF Uncached
  <2>2. \A r \in Rank : phase'[r] = "perform" BY <1>6
  <2> QED BY <2>1, <2>2 DEF Uncached
<1>16. HitsStand'
  <2>1. DOMAIN cachedHits' = {}
    <3>1. DOMAIN <<>> = {} OBVIOUS
    <3> QED BY <1>4, <3>1
  <2> QED BY <2>1 DEF HitsStand
<1>17. \A r \in Rank : Waits(r)'
  <2> TAKE r \in Rank
  <2>1. stalled[r] \subseteq Q(r) \cup M(r) BY <1>1 DEF Waits
  <2>2. CASE StallCheck
    BY <1>1, <1>4, <1>7, <2>1, <2>2 DEF Waits, Handled, M
  <2>3. CASE ~StallCheck
    <3>1. stalled[r] = {} BY <1>1, <2>3 DEF Waits
    <3> QED BY <1>4, <2>3, <3>1 DEF Waits
  <2> QED BY <2>2, <2>3
<1>18. CacheConsistent' BY <1>6 DEF CacheConsistent
<1>19. Aligned'
  <2>1. Len(list) \in Nat BY <1>3
  <2>2. SameEnd(list, list) BY <1>3, <2>1 DEF SameEnd
  <2> QED BY <1>6, <2>2 DEF Aligned, SameEnd
<1>20. FaultOK' BY <1>1 DEF FaultOK
<1> QED BY <1>9, <1>10, <1>11, <1>12, <1>13, <1>14, <1>15, <1>16, <1>17, <1>18, <1>19, <1>20 DEF Inv

\* The exchange of the bits.
LEMMA SyncKeeps ==
    ASSUME Inv, Sync
    PROVE  Inv'
BY SlowSyncKeeps, FastSyncKeeps

-----------------------------------------------------------------------------
(* The coordinator.                                                        *)

\* What the coordinator gathers: who sent which name.
Sent == [rank : Rank, name : Names \cup {J}]

\* What every rank sends in a cycle arrives once.
LEMMA WhatArrives ==
    ASSUME msgs \in [Rank -> Seq(Names \cup {J})],
           \A r \in Rank : IsInjective(msgs[r])
    PROVE  /\ Incoming \in Seq(Sent)
           /\ \A r \in Rank : \A n \in M(r) : \E i \in DOMAIN Incoming :
                 Incoming[i].rank = r /\ Incoming[i].name = n
           /\ \A i \in DOMAIN Incoming :
                 Incoming[i].rank \in Rank /\ Incoming[i].name \in M(Incoming[i].rank)
           /\ \A i, j \in DOMAIN Incoming :
                 Incoming[i].rank = Incoming[j].rank /\ Incoming[i].name = Incoming[j].name
                    => i = j
<1> DEFINE From(r) == [k \in DOMAIN msgs[r] |-> [rank |-> r, name |-> msgs[r][k]]]
           seqs == [i \in 1 .. Size |->
                [k \in DOMAIN msgs[i - 1] |-> [rank |-> i - 1, name |-> msgs[i - 1][k]]]]
           all == FlattenSeq(seqs)
<1>1. Incoming = all BY DEF Incoming
<1>2. Size \in Nat BY SizeAssumption
<1>3. ASSUME NEW i \in 1 .. Size
      PROVE  /\ i - 1 \in Rank /\ seqs[i] \in Seq(Sent)
             /\ Len(seqs[i]) = Len(msgs[i - 1])
             /\ \A k \in 1 .. Len(seqs[i]) : seqs[i][k] = [rank |-> i - 1, name |-> msgs[i - 1][k]]
  <2>1. i - 1 \in Rank BY <1>2 DEF Rank
  <2>2. msgs[i - 1] \in Seq(Names \cup {J}) BY <2>1
  <2>3. /\ DOMAIN msgs[i - 1] = 1 .. Len(msgs[i - 1]) /\ Len(msgs[i - 1]) \in Nat
        /\ \A k \in DOMAIN msgs[i - 1] : msgs[i - 1][k] \in Names \cup {J}
    BY <2>2
  <2>4. \A k \in DOMAIN msgs[i - 1] : [rank |-> i - 1, name |-> msgs[i - 1][k]] \in Sent
    BY <2>1, <2>3 DEF Sent
  <2>5. seqs[i] = [k \in 1 .. Len(msgs[i - 1]) |-> [rank |-> i - 1, name |-> msgs[i - 1][k]]]
    BY <2>3
  <2> HIDE DEF seqs
  <2>6. seqs[i] \in [1 .. Len(msgs[i - 1]) -> Sent] BY <2>3, <2>4, <2>5
  <2>7. seqs[i] \in Seq(Sent) /\ Len(seqs[i]) = Len(msgs[i - 1])
    <3> HIDE DEF Sent
    <3>1. PICK n \in Nat : n = Len(msgs[i - 1]) BY <2>3
    <3>2. seqs[i] \in [1 .. n -> Sent] BY <2>6, <3>1
    <3>3. seqs[i] \in Seq(Sent) /\ Len(seqs[i]) = n BY <3>2
    <3> QED BY <3>1, <3>3
  <2> QED BY <2>1, <2>5, <2>7
<1>4. seqs \in Seq(Seq(Sent)) /\ Len(seqs) = Size
  <2>1. seqs \in [1 .. Size -> Seq(Sent)] BY <1>3
  <2> QED BY <1>2, <2>1
<1> HIDE DEF seqs
<1>5. all \in Seq(Sent) /\ LaidOut(seqs, all)
  <2> HIDE DEF Sent
  <2> QED BY <1>4, FlattenLayout
<1> HIDE DEF all
<1>6. PICK off \in [0 .. Size -> Nat] :
                /\ \A a \in 1 .. Size : \A k \in 1 .. Len(seqs[a]) :
                      /\ off[a - 1] + k \in 1 .. Len(all)
                      /\ all[off[a - 1] + k] = seqs[a][k]
                /\ \A j \in 1 .. Len(all) :
                      \E a \in 1 .. Size : \E k \in 1 .. Len(seqs[a]) :
                          j = off[a - 1] + k
  BY <1>4, <1>5 DEF LaidOut
<1>7. DOMAIN all = 1 .. Len(all) BY <1>5
<1>8. ASSUME NEW r \in Rank, NEW n \in M(r)
      PROVE  \E i \in DOMAIN all : all[i].rank = r /\ all[i].name = n
  <2>1. r + 1 \in 1 .. Size /\ (r + 1) - 1 = r BY <1>2 DEF Rank
  <2>2. msgs[r] \in Seq(Names \cup {J}) OBVIOUS
  <2>3. PICK k \in 1 .. Len(msgs[r]) : msgs[r][k] = n
    <3>1. DOMAIN msgs[r] = 1 .. Len(msgs[r]) BY <2>2
    <3> QED BY <3>1 DEF M, ToSet
  <2>4. k \in 1 .. Len(seqs[r + 1]) /\ seqs[r + 1][k] = [rank |-> r, name |-> n]
    BY <1>3, <2>1, <2>3
  <2>5. off[r] + k \in 1 .. Len(all) /\ all[off[r] + k] = seqs[r + 1][k]
    BY <1>6, <2>1, <2>4
  <2> QED BY <1>7, <2>4, <2>5
<1>9. ASSUME NEW i \in DOMAIN all
      PROVE  \E a \in 1 .. Size : \E k \in DOMAIN msgs[a - 1] :
                /\ i = off[a - 1] + k /\ a - 1 \in Rank
                /\ all[i].rank = a - 1 /\ all[i].name = msgs[a - 1][k]
  <2>1. PICK a \in 1 .. Size : \E k \in 1 .. Len(seqs[a]) : i = off[a - 1] + k
    BY <1>6, <1>7
  <2>2. PICK k \in 1 .. Len(seqs[a]) : i = off[a - 1] + k BY <2>1
  <2>3. all[i] = [rank |-> a - 1, name |-> msgs[a - 1][k]] BY <1>3, <1>6, <2>2
  <2>4. k \in DOMAIN msgs[a - 1]
    <3>1. msgs[a - 1] \in Seq(Names \cup {J}) /\ Len(seqs[a]) = Len(msgs[a - 1]) BY <1>3
    <3> QED BY <3>1
  <2>5. a - 1 \in Rank BY <1>3
  <2>6. all[i].rank = a - 1 /\ all[i].name = msgs[a - 1][k] BY <2>3
  <2> QED BY <2>2, <2>4, <2>5, <2>6
<1>10. ASSUME NEW i \in DOMAIN all
       PROVE  all[i].rank \in Rank /\ all[i].name \in M(all[i].rank)
  BY <1>9 DEF M, ToSet
<1>11. ASSUME NEW i \in DOMAIN all, NEW j \in DOMAIN all,
              all[i].rank = all[j].rank, all[i].name = all[j].name
       PROVE  i = j
  <2>1. PICK a \in 1 .. Size : \E k \in DOMAIN msgs[a - 1] :
                /\ i = off[a - 1] + k /\ a - 1 \in Rank
                /\ all[i].rank = a - 1 /\ all[i].name = msgs[a - 1][k]
    BY <1>9
  <2>2. PICK k \in DOMAIN msgs[a - 1] :
                /\ i = off[a - 1] + k /\ a - 1 \in Rank
                /\ all[i].rank = a - 1 /\ all[i].name = msgs[a - 1][k]
    BY <2>1
  <2>3. PICK b \in 1 .. Size : \E l \in DOMAIN msgs[b - 1] :
                /\ j = off[b - 1] + l /\ b - 1 \in Rank
                /\ all[j].rank = b - 1 /\ all[j].name = msgs[b - 1][l]
    BY <1>9
  <2>4. PICK l \in DOMAIN msgs[b - 1] :
                /\ j = off[b - 1] + l /\ b - 1 \in Rank
                /\ all[j].rank = b - 1 /\ all[j].name = msgs[b - 1][l]
    BY <2>3
  <2>5. a - 1 = b - 1 BY <1>11, <2>2, <2>4
  <2>6. msgs[a - 1][k] = msgs[a - 1][l] /\ l \in DOMAIN msgs[a - 1]
    BY <1>11, <2>2, <2>4, <2>5
  <2>7. k = l BY <2>2, <2>6 DEF IsInjective
  <2> QED BY <2>2, <2>4, <2>5, <2>7
<1> QED BY <1>1, <1>5, <1>8, <1>10, <1>11

-----------------------------------------------------------------------------
\* The ranks that have not joined.
Active == {r \in Rank : ~joined[r]}

\* The first i messages that are a join.
JoinsIn(i) == {k \in 1 .. i : Incoming[k].name = J}

\* What the coordinator counts when all ranks have sent their messages.
LEMMA WhatIsCounted ==
    ASSUME Inv, \A r \in Rank : phase[r] = "ready"
    PROVE  /\ \A n \in Names : Requesters(n) = messageTable[n] \cup {r \in Rank : n \in M(r)}
           /\ \A n \in Names : Requesters(n) \subseteq Active
           /\ \A n \in Names : \A r \in Requesters(n) : n \in Outstanding(r)
           /\ Joins \in Nat /\ Joins = Size - Cardinality(Active)
           /\ IsFiniteSet(Active) /\ Cardinality(Active) \in 0 .. Size
           /\ Joins = Size <=> Active = {}
           /\ \A i \in DOMAIN Incoming : JoinsAfter(i) \in Nat /\ JoinsAfter(i) <= Joins
<1> USE InvParts
<1>1. /\ Incoming \in Seq(Sent)
      /\ \A r \in Rank : \A n \in M(r) : \E i \in DOMAIN Incoming :
            Incoming[i].rank = r /\ Incoming[i].name = n
      /\ \A i \in DOMAIN Incoming :
            Incoming[i].rank \in Rank /\ Incoming[i].name \in M(Incoming[i].rank)
      /\ \A i, j \in DOMAIN Incoming :
            Incoming[i].rank = Incoming[j].rank /\ Incoming[i].name = Incoming[j].name
               => i = j
  <2>1. msgs \in [Rank -> Seq(Names \cup {J})] BY DEF Typed
  <2>2. \A r \in Rank : IsInjective(msgs[r]) BY DEF Located
  <2> QED BY <2>1, <2>2, WhatArrives
<1> DEFINE L == Len(Incoming)
<1>2. L \in Nat /\ DOMAIN Incoming = 1 .. L BY <1>1
<1>3. \A r \in Rank : Located(r) /\ JoinsOK(r) /\ todo[r] = <<>> BY DEF PhasesOK
<1>4. ASSUME NEW n \in Names
      PROVE  /\ Requesters(n) = messageTable[n] \cup {r \in Rank : n \in M(r)}
             /\ Requesters(n) \subseteq Active
             /\ \A r \in Requesters(n) : n \in Outstanding(r)
  <2>1. messageTable[n] \subseteq Rank BY DEF Typed
  <2>2. {Incoming[k].rank : k \in {j \in 1 .. L : Incoming[j].name = n}}
          = {r \in Rank : n \in M(r)}
    BY <1>1, <1>2
  <2>3. Requesters(n) = messageTable[n] \cup {r \in Rank : n \in M(r)}
    BY <2>2 DEF Requesters, RanksAfter
  <2>4. ASSUME NEW r \in Requesters(n) PROVE r \in Active /\ n \in Outstanding(r)
    <3>1. r \in Rank /\ (n \in M(r) \/ n \in Counted(r)) BY <2>1, <2>3 DEF Counted
    <3>2. n \in Outstanding(r) BY <1>3, <3>1 DEF Located
    <3>3. n # J BY JoinIsNoName
    <3> QED BY <1>3, <3>1, <3>2, <3>3 DEF JoinsOK, Active
  <2> QED BY <2>3, <2>4
<1> DEFINE JM == {r \in Rank : J \in M(r)}
           K == JoinsIn(L)
<1>5. /\ IsFiniteSet(Rank) /\ Cardinality(Rank) = Size /\ Size \in Nat \ {0}
  <2>1. Size \in Nat \ {0} BY SizeAssumption
  <2>2. 0 \in Int /\ Size - 1 \in Int BY <2>1
  <2>3. IsFiniteSet(0 .. Size - 1) /\ Cardinality(0 .. Size - 1) = IF 0 > Size - 1 THEN 0 ELSE (Size - 1) - 0 + 1
    BY <2>2, FS_Interval
  <2> QED BY <2>1, <2>3 DEF Rank
<1>6. /\ IsFiniteSet(Active) /\ IsFiniteSet(JM) /\ IsFiniteSet(CountedJoins)
      /\ Cardinality(Active) \in Nat /\ Cardinality(JM) \in Nat /\ Cardinality(CountedJoins) \in Nat
      /\ IsFiniteSet(Rank \ Active) /\ Cardinality(Rank \ Active) \in Nat
      /\ Cardinality(Active) <= Size
  <2>1. Active \in SUBSET Rank /\ JM \in SUBSET Rank /\ CountedJoins \in SUBSET Rank
        /\ Rank \ Active \in SUBSET Rank
    BY DEF Active, CountedJoins
  <2> HIDE DEF JM
  <2>2. IsFiniteSet(Active) /\ IsFiniteSet(JM) /\ IsFiniteSet(CountedJoins) /\ IsFiniteSet(Rank \ Active)
        /\ Cardinality(Active) <= Cardinality(Rank)
    BY <1>5, <2>1, FS_Subset
  <2> QED BY <1>5, <2>2, FS_CardinalityType
<1>7. \A i \in 0 .. L : IsFiniteSet(JoinsIn(i)) /\ Cardinality(JoinsIn(i)) \in Nat
                        /\ Cardinality(JoinsIn(i)) <= Cardinality(K)
  <2> TAKE i \in 0 .. L
  <2>1. JoinsIn(i) \in SUBSET (1 .. L) /\ K \in SUBSET (1 .. L) /\ JoinsIn(i) \in SUBSET K
    BY <1>2 DEF JoinsIn
  <2> HIDE DEF K, L
  <2>2. IsFiniteSet(1 .. L) BY <1>2, UpTo
  <2>3. IsFiniteSet(JoinsIn(i)) /\ IsFiniteSet(K) BY <2>1, <2>2, FS_Subset
  <2>4. Cardinality(JoinsIn(i)) <= Cardinality(K) BY <2>1, <2>3, FS_Subset
  <2> QED BY <2>3, <2>4, FS_CardinalityType
<1>8. Cardinality(K) = Cardinality(JM)
  <2> DEFINE f == [k \in K |-> Incoming[k].rank]
  <2>1. \A k \in K : k \in DOMAIN Incoming /\ Incoming[k].name = J BY <1>2 DEF JoinsIn
  <2>2. f \in [K -> JM] BY <1>1, <2>1
  <2>3. \A k, l \in K : f[k] = f[l] => k = l BY <1>1, <2>1
  <2>4. \A r \in JM : \E k \in K : f[k] = r
    <3> TAKE r \in JM
    <3>1. PICK i \in DOMAIN Incoming : Incoming[i].rank = r /\ Incoming[i].name = J BY <1>1
    <3>2. i \in K BY <1>2, <3>1 DEF JoinsIn
    <3> QED BY <3>1, <3>2
  <2> HIDE DEF f, JM, K
  <2>5. f \in Injection(K, JM) /\ f \in Surjection(K, JM)
    BY <2>2, <2>3, <2>4 DEF Injection, IsInjective, Surjection
  <2> QED BY <1>6, <2>5, FS_Injection
<1>9. Joins = joinedSize + Cardinality(K) BY DEF Joins, JoinsAfter, JoinsIn, J
<1>10. joinedSize = Cardinality(CountedJoins) BY DEF JoinCount
<1>11. Rank \ Active = CountedJoins \cup JM /\ CountedJoins \cap JM = {}
  <2>1. \A r \in Rank : ~HasJoin(r)
    <3>1. DOMAIN <<>> = {} OBVIOUS
    <3> QED BY <1>3, <3>1 DEF HasJoin
  <2>2. \A r \in JM : joined[r] BY <1>3 DEF JoinsOK
  <2> QED BY <2>1, <2>2 DEF Active, CountedJoins
<1> HIDE DEF JM, K, L
<1>12. Cardinality(Rank \ Active) = Cardinality(CountedJoins) + Cardinality(JM)
  <2>1. Cardinality(CountedJoins \cup JM) = Cardinality(CountedJoins) + Cardinality(JM)
           - Cardinality(CountedJoins \cap JM)
    BY <1>6, FS_Union
  <2>2. Cardinality({}) = 0 BY FS_EmptySet
  <2>3. Cardinality(CountedJoins \cap JM) = 0 BY <1>11, <2>2
  <2>4. Cardinality(Rank \ Active) = Cardinality(CountedJoins \cup JM) BY <1>11
  <2> QED BY <1>6, <2>1, <2>3, <2>4
<1>13. Cardinality(Rank \ Active) = Size - Cardinality(Active)
  <2>1. Cardinality(Rank \ Active) = Cardinality(Rank) - Cardinality(Rank \cap Active)
    BY <1>5, <1>6, FS_Difference
  <2>2. Rank \cap Active = Active BY DEF Active
  <2> QED BY <1>5, <2>1, <2>2
<1>14. Joins \in Nat /\ Joins = Size - Cardinality(Active)
  BY <1>5, <1>6, <1>8, <1>9, <1>10, <1>12, <1>13
<1>15. Joins = Size <=> Active = {}
  <2>1. Cardinality(Active) = 0 <=> Active = {} BY <1>6, FS_EmptySet
  <2> QED BY <1>5, <1>6, <1>14, <2>1
<1>16. \A i \in DOMAIN Incoming : JoinsAfter(i) \in Nat /\ JoinsAfter(i) <= Joins
  <2> TAKE i \in DOMAIN Incoming
  <2>1. JoinsAfter(i) = joinedSize + Cardinality(JoinsIn(i)) BY DEF JoinsAfter, JoinsIn, J
  <2>2. i \in 0 .. L BY <1>2 
  <2>3. Cardinality(JoinsIn(i)) \in Nat /\ Cardinality(JoinsIn(i)) <= Cardinality(K) BY <1>7, <2>2
  <2>4. joinedSize \in Nat /\ Cardinality(K) \in Nat BY <1>6, <1>8, <1>10
  <2> QED BY <1>9, <2>1, <2>3, <2>4
<1>17. Cardinality(Active) \in 0 .. Size BY <1>5, <1>6
<1> QED BY <1>4, <1>6, <1>14, <1>15, <1>16, <1>17

\* A message that completes its tensor is the last one that was missing: with
\* it all ranks that have not joined have asked for the tensor.
LEMMA WhatCompletes ==
    ASSUME Inv, \A r \in Rank : phase[r] = "ready",
           NEW i \in DOMAIN Incoming, Completes(i)
    PROVE  /\ Incoming[i].name \in Names
           /\ RanksAfter(i, Incoming[i].name) = Active
           /\ Requesters(Incoming[i].name) = Active
           /\ Active # {}
<1> USE InvParts
<1> DEFINE n == Incoming[i].name
           L == Len(Incoming)
<1>1. /\ Incoming \in Seq(Sent)
      /\ Incoming[i].rank \in Rank /\ n \in M(Incoming[i].rank)
  <2>1. msgs \in [Rank -> Seq(Names \cup {J})] BY DEF Typed
  <2>2. \A r \in Rank : IsInjective(msgs[r]) BY DEF Located
  <2> QED BY <2>1, <2>2, WhatArrives
<1>2. L \in Nat /\ i \in 1 .. L BY <1>1
<1>3. n \in Names
  <2>1. Incoming[i] \in Sent BY <1>1
  <2> QED BY <2>1 DEF Completes, Sent, J
<1>4. /\ Requesters(n) \subseteq Active
      /\ Joins \in Nat /\ Joins = Size - Cardinality(Active)
      /\ IsFiniteSet(Active) /\ Cardinality(Active) \in 0 .. Size
      /\ JoinsAfter(i) \in Nat /\ JoinsAfter(i) <= Joins
  BY <1>3, WhatIsCounted
<1>5. RanksAfter(i, n) \subseteq Requesters(n)
  BY <1>2 DEF Requesters, RanksAfter
<1>6. Cardinality(RanksAfter(i, n)) = Size - JoinsAfter(i) BY DEF Completes
<1> HIDE DEF n
<1>7. RanksAfter(i, n) \in SUBSET Active BY <1>4, <1>5
<1>8. Cardinality(RanksAfter(i, n)) <= Cardinality(Active)
      /\ (Cardinality(Active) = Cardinality(RanksAfter(i, n)) => Active = RanksAfter(i, n))
  BY <1>4, <1>7, FS_Subset
<1>9. Size \in Nat BY SizeAssumption
<1>10. Active = RanksAfter(i, n) BY <1>4, <1>6, <1>8, <1>9
<1>11. Incoming[i].rank \in RanksAfter(i, n)
  BY <1>2 DEF RanksAfter, n
<1>12. Requesters(n) = Active BY <1>4, <1>5, <1>10
<1> QED BY <1>3, <1>10, <1>11, <1>12 DEF n

\* No tensor is completed twice.
LEMMA CompletesOnce ==
    ASSUME Inv, \A r \in Rank : phase[r] = "ready",
           NEW i \in DOMAIN Incoming, NEW j \in DOMAIN Incoming,
           Completes(i), Completes(j), Incoming[i].name = Incoming[j].name, i < j
    PROVE  FALSE
<1> USE InvParts
<1> DEFINE n == Incoming[j].name
           p == Incoming[j].rank
<1>1. /\ Incoming \in Seq(Sent)
      /\ p \in Rank /\ n \in M(p)
      /\ \A k, l \in DOMAIN Incoming :
            Incoming[k].rank = Incoming[l].rank /\ Incoming[k].name = Incoming[l].name
               => k = l
  <2>1. msgs \in [Rank -> Seq(Names \cup {J})] BY DEF Typed
  <2>2. \A r \in Rank : IsInjective(msgs[r]) BY DEF Located
  <2> QED BY <2>1, <2>2, WhatArrives
<1>2. n \in Names /\ RanksAfter(i, n) = Active /\ Requesters(n) = Active
  BY WhatCompletes
<1>3. /\ Requesters(n) = messageTable[n] \cup {r \in Rank : n \in M(r)}
  BY <1>2, WhatIsCounted
<1>4. p \in RanksAfter(i, n) BY <1>1, <1>2, <1>3
<1>5. DOMAIN Incoming = 1 .. Len(Incoming) /\ Len(Incoming) \in Nat BY <1>1
<1>6. p \notin messageTable[n]
  <2>1. Counted(p) \cap M(p) = {} BY <1>1 DEF Located
  <2> QED BY <1>1, <1>2, <2>1 DEF Counted
<1>7. PICK k \in 1 .. i : Incoming[k].name = n /\ Incoming[k].rank = p
  BY <1>4, <1>6 DEF RanksAfter
<1>8. k \in DOMAIN Incoming BY <1>5
<1>9. k = j BY <1>1, <1>7, <1>8
<1> QED BY <1>5, <1>9

\* The names that become ready: once each, asked for by all that have not
\* joined.
LEMMA WhatIsReady ==
    ASSUME Inv, \A r \in Rank : phase[r] = "ready",
           NEW late \in SetToSeqs(ReadyAfterJoins)
    PROVE  /\ ReadyInOrder \o late \in Seq(Names)
           /\ IsInjective(ReadyInOrder \o late)
           /\ \A n \in ToSet(ReadyInOrder \o late) :
                 n \in Names /\ Requesters(n) = Active /\ Active # {}
<1> USE InvParts
<1>1. /\ Incoming \in Seq(Sent)
      /\ \A k, l \in DOMAIN Incoming :
            Incoming[k].rank = Incoming[l].rank /\ Incoming[k].name = Incoming[l].name
               => k = l
  <2>1. msgs \in [Rank -> Seq(Names \cup {J})] BY DEF Typed
  <2>2. \A r \in Rank : IsInjective(msgs[r]) BY DEF Located
  <2> QED BY <2>1, <2>2, WhatArrives
<1> DEFINE P == {i \in DOMAIN Incoming : Completes(i)}
           completing == At(Incoming, P)
<1>2. P \in SUBSET (DOMAIN Incoming) /\ IsInjective(Incoming)
  BY <1>1 DEF IsInjective
<1>3. /\ completing \in Seq(Sent)
      /\ \A k \in DOMAIN completing : \E i \in P : completing[k] = Incoming[i]
      /\ IsInjective(completing)
  <2> HIDE DEF P
  <2> QED BY <1>1, <1>2, AtElements
<1>4. ReadyInOrder = [k \in DOMAIN completing |-> completing[k].name]
  BY DEF ReadyInOrder
<1>5. \A i, j \in P : Incoming[i].name = Incoming[j].name => i = j
  <2> SUFFICES ASSUME NEW i \in P, NEW j \in P, Incoming[i].name = Incoming[j].name, i # j
               PROVE  FALSE
    OBVIOUS
  <2>1. i \in Nat /\ j \in Nat BY <1>1
  <2>2. i < j \/ j < i BY <2>1
  <2> QED BY <2>2, CompletesOnce
<1>6. \A i \in P : Incoming[i].name \in Names /\ Requesters(Incoming[i].name) = Active /\ Active # {}
  BY WhatCompletes
<1> HIDE DEF completing, P
<1>7. /\ ReadyInOrder \in Seq(Names) /\ IsInjective(ReadyInOrder)
      /\ \A n \in ToSet(ReadyInOrder) : Requesters(n) = Active /\ Active # {}
  <2>1. DOMAIN completing = 1 .. Len(completing) /\ Len(completing) \in Nat BY <1>3
  <2>2. \A k \in DOMAIN completing : completing[k].name \in Names
                                     /\ Requesters(completing[k].name) = Active /\ Active # {}
    BY <1>3, <1>6
  <2>3. ReadyInOrder \in Seq(Names) BY <1>4, <2>1, <2>2
  <2>4. IsInjective(ReadyInOrder)
    <3> SUFFICES ASSUME NEW k \in DOMAIN completing, NEW l \in DOMAIN completing,
                        completing[k].name = completing[l].name
                 PROVE  k = l
      BY <1>4 DEF IsInjective
    <3>1. PICK i \in P : completing[k] = Incoming[i] BY <1>3
    <3>2. PICK j \in P : completing[l] = Incoming[j] BY <1>3
    <3>3. i = j BY <1>5, <3>1, <3>2
    <3> QED BY <1>3, <3>1, <3>2, <3>3 DEF IsInjective
  <2> QED BY <1>4, <2>2, <2>3, <2>4 DEF ToSet
<1> DEFINE R == ReadyAfterJoins
<1>8. \A n \in R : n \in Names /\ Requesters(n) = Active /\ Active # {} /\ n \notin ToSet(ReadyInOrder)
  <2> TAKE n \in R
  <2>1. n \in Names /\ Requesters(n) # {} /\ n \notin ToSet(ReadyInOrder)
        /\ Cardinality(Requesters(n)) = Size - Joins
    BY DEF ReadyAfterJoins
  <2>2. /\ Requesters(n) \in SUBSET Active /\ IsFiniteSet(Active)
        /\ Joins = Size - Cardinality(Active) /\ Cardinality(Active) \in Nat
    <3>1. /\ Requesters(n) \subseteq Active /\ IsFiniteSet(Active)
          /\ Joins = Size - Cardinality(Active) /\ Cardinality(Active) \in 0 .. Size
      BY <2>1, WhatIsCounted
    <3>2. Size \in Nat BY SizeAssumption
    <3> QED BY <3>1, <3>2
  <2>3. Cardinality(Active) = Cardinality(Requesters(n)) BY <2>1, <2>2, SizeAssumption
  <2>4. Active = Requesters(n) BY <2>2, <2>3, FS_Subset
  <2> QED BY <2>1, <2>4
<1>9. IsFiniteSet(R) /\ Cardinality(R) \in Nat
  <2>1. CASE R = {} BY <2>1, FS_EmptySet, FS_CardinalityType
  <2>2. CASE R # {}
    <3>1. PICK r : r \in Active BY <1>8, <2>2
    <3>2. r \in Rank BY <3>1 DEF Active
    <3>3. \A n \in R : n \in Outstanding(r) BY <1>8, <3>1, WhatIsCounted
    <3>4. IsFiniteSet(Outstanding(r)) BY <3>2 DEF TableOK
    <3>5. R \in SUBSET Outstanding(r) BY <3>3
    <3> HIDE DEF R
    <3>6. IsFiniteSet(R) BY <3>4, <3>5, FS_Subset
    <3> QED BY <3>6, FS_CardinalityType
  <2> QED BY <2>1, <2>2
<1>10. /\ late \in [1 .. Cardinality(R) -> R]
       /\ \A i, j \in 1 .. Cardinality(R) : i # j => late[i] # late[j]
  BY DEF SetToSeqs
<1> HIDE DEF R
<1>11. /\ late \in Seq(Names) /\ IsInjective(late)
       /\ \A n \in ToSet(late) : n \in R
  <2>1. late \in [1 .. Cardinality(R) -> Names] BY <1>8, <1>10
  <2>2. PICK m \in Nat : m = Cardinality(R) BY <1>9
  <2>3. late \in [1 .. m -> Names] BY <2>1, <2>2
  <2>4. late \in Seq(Names) BY <2>3
  <2> QED BY <1>10, <2>4 DEF IsInjective, ToSet
<1>12. ToSet(ReadyInOrder) \cap ToSet(late) = {} BY <1>8, <1>11
<1>13. /\ ReadyInOrder \o late \in Seq(Names) /\ IsInjective(ReadyInOrder \o late)
       /\ ToSet(ReadyInOrder \o late) = ToSet(ReadyInOrder) \cup ToSet(late)
  BY <1>7, <1>11, <1>12, ConcatSet, ConcatElements
<1>14. ToSet(ReadyInOrder) \subseteq Names BY <1>7 DEF ToSet
<1> QED BY <1>7, <1>8, <1>11, <1>13, <1>14

\* The requests that are not in error ask for one operation.
LEMMA MatchAgrees ==
    ASSUME NEW n, NEW ranks, NEW joins, ~Mismatch(n, ranks, joins),
           NEW q \in ranks, NEW r \in ranks
    PROVE  /\ table[q][n].dtype = table[r][n].dtype
           /\ table[q][n].op = table[r][n].op
           /\ table[r][n].op \in Reductions \cup {"BROADCAST"} =>
                 table[q][n].shape = table[r][n].shape
           /\ table[r][n].op = "ALLGATHER" => table[r][n].shape # <<>>
           /\ table[r][n].op = "BROADCAST" => table[q][n].root = table[r][n].root
<1> DEFINE requests == {table[p][n] : p \in ranks}
           ops == {x.op : x \in requests}
<1>1. /\ \A x, y \in requests : x.dtype = y.dtype
      /\ \A x, y \in requests : x.op = y.op
      /\ ops \subseteq Reductions \cup {"BROADCAST"} => \A x, y \in requests : x.shape = y.shape
      /\ ops = {"ALLGATHER"} => \A x \in requests : x.shape # <<>>
      /\ ops = {"BROADCAST"} => \A x, y \in requests : x.root = y.root
  BY DEF Mismatch
<1>2. table[q][n] \in requests /\ table[r][n] \in requests OBVIOUS
<1>3. ops = {table[r][n].op} BY <1>1, <1>2
<1> HIDE DEF requests, ops
<1> QED BY <1>1, <1>2, <1>3

\* What the coordinator answers to the requests for n.
Answer(n) == ConstructResponse(n, Requesters(n), Joins)

\* The response to a tensor that all ranks that have not joined asked for.
LEMMA AnswerIs ==
    ASSUME Inv, \A r \in Rank : phase[r] = "ready",
           NEW n \in Names, Requesters(n) = Active, Active # {}
    PROVE  /\ Answer(n) \in Response
           /\ Answer(n).names = <<n>> /\ TensorOf(Answer(n)) = n
           /\ Answer(n).devices = Active /\ Answer(n).type # "JOIN"
           /\ Answer(n).type # "ERROR" =>
                 /\ ~Mismatch(n, Active, Joins)
                 /\ \A r \in Active : table[r][n].op = Answer(n).type
<1> USE InvParts
<1> DEFINE first == table[Min(Active)][n]
           error == Mismatch(n, Active, Joins)
           rows == Ascending(Active)
           c == Answer(n)
<1>1. /\ \A r \in Active : n \in Outstanding(r)
      /\ IsFiniteSet(Active)
  BY WhatIsCounted
<1>2. ASSUME NEW r \in Active
      PROVE  /\ r \in Rank /\ table[r][n] \in Requests
             /\ table[r][n].op \in {"ALLREDUCE", "ADASUM", "ALLGATHER", "BROADCAST"}
             /\ table[r][n].shape \in Seq(Nat)
  <2>1. r \in Rank /\ n # J BY JoinIsNoName DEF Active
  <2>2. table[r][n] \in Requests BY <1>1, <2>1 DEF TableOK
  <2> QED BY <2>1, <2>2, RequestsAssumption
<1>3. Active \in SUBSET Nat /\ Active \in SUBSET Rank BY DEF Active, Rank
<1>4. Min(Active) \in Active
  <2>1. \E m \in Active : \A k \in Active : m <= k BY <1>3, LeastElement
  <2> QED BY <2>1 DEF Min
<1>5. c = [type    |-> IF error THEN "ERROR" ELSE first.op,
           names   |-> <<n>>,
           devices |-> Active,
           sizes   |-> IF error THEN <<>>
                       ELSE IF first.op = "ALLGATHER"
                       THEN [i \in DOMAIN rows |-> Head(table[rows[i]][n].shape)]
                       ELSE IF Joins > 0 THEN <<NumElements(first.shape)>>
                       ELSE <<>>]
  BY DEF Answer, ConstructResponse
<1> HIDE DEF rows, error, first, c
<1>6. ASSUME ~error, first.op = "ALLGATHER"
      PROVE  [i \in DOMAIN rows |-> Head(table[rows[i]][n].shape)] \in Seq(Nat)
  <2>1. rows \in Seq(Active) BY <1>1, <1>3, AscendingEnumerates DEF rows
  <2>2. DOMAIN rows = 1 .. Len(rows) /\ Len(rows) \in Nat
        /\ \A i \in DOMAIN rows : rows[i] \in Active
    BY <2>1
  <2>3. \A r \in Active : table[r][n].shape # <<>>
    <3> TAKE r \in Active
    <3>1. table[r][n].op = first.op
      BY <1>4, <1>6, MatchAgrees DEF error, first
    <3> QED BY <1>4, <1>6, <3>1, MatchAgrees DEF error
  <2>4. \A r \in Active : Head(table[r][n].shape) \in Nat
    <3> TAKE r \in Active
    <3>1. table[r][n].shape \in Seq(Nat) /\ table[r][n].shape # <<>> BY <1>2, <2>3
    <3> QED BY <3>1, TailElements
  <2>5. \A i \in 1 .. Len(rows) : Head(table[rows[i]][n].shape) \in Nat BY <2>2, <2>4
  <2> QED BY <2>2, <2>5
<1>7. NumElements(first.shape) \in Nat
  <2>1. first.shape \in Seq(Nat) BY <1>2, <1>4 DEF first
  <2> QED BY <2>1, ProductIsNatural DEF NumElements
<1>8. c.sizes \in Seq(Nat)
  <2>1. <<>> \in Seq(Nat) /\ <<NumElements(first.shape)>> \in Seq(Nat) BY <1>7
  <2> QED BY <1>5, <1>6, <2>1
<1>9. c.type \in {"ALLREDUCE", "ADASUM", "ALLGATHER", "BROADCAST", "ERROR"}
  BY <1>2, <1>4, <1>5 DEF first
<1>10. c \in Response
  <2>1. <<n>> \in Seq(Names \cup {JOIN_TENSOR_NAME}) OBVIOUS
  <2> QED BY <1>3, <1>5, <1>8, <1>9, <2>1 DEF Response
<1>11. c.names = <<n>> /\ TensorOf(c) = n /\ c.devices = Active
  BY <1>5 DEF TensorOf
<1>12. ASSUME c.type # "ERROR"
       PROVE  ~error /\ \A r \in Active : table[r][n].op = c.type
  <2>1. ~error /\ c.type = first.op BY <1>5, <1>12
  <2>2. \A r \in Active : table[r][n].op = first.op
    BY <1>4, <2>1, MatchAgrees DEF error, first
  <2> QED BY <2>1, <2>2
<1> QED BY <1>9, <1>10, <1>11, <1>12 DEF c, error

\* The tensors of a list of responses to one tensor each.
Tensors(list) == {TensorOf(list[i]) : i \in DOMAIN list}

\* Two such lists with different tensors make one.
LEMMA OneEachConcat ==
    ASSUME NEW s, OneEach(s), NEW t, OneEach(t),
           \A i \in DOMAIN s : \A j \in DOMAIN t : TensorOf(s[i]) # TensorOf(t[j])
    PROVE  OneEach(s \o t) /\ Tensors(s \o t) = Tensors(s) \cup Tensors(t)
<1> DEFINE u == s \o t
<1>1. s \in Seq(Response) /\ t \in Seq(Response) BY DEF OneEach
<1>2. /\ u \in Seq(Response)
      /\ Len(s) \in Nat
      /\ DOMAIN s \subseteq Nat /\ DOMAIN t \subseteq Nat
      /\ \A k \in DOMAIN s : k \in DOMAIN u /\ u[k] = s[k]
      /\ \A l \in DOMAIN t : Len(s) + l \in DOMAIN u /\ u[Len(s) + l] = t[l]
      /\ \A k \in DOMAIN u : k \in DOMAIN s \/ \E l \in DOMAIN t : k = Len(s) + l
  BY <1>1, ConcatElements
<1> HIDE DEF u
<1> HIDE DEF TensorOf
<1>3. ASSUME NEW i \in DOMAIN u
      PROVE  TensorOf(u[i]) \in Names \cup {J} /\ u[i].names = <<TensorOf(u[i])>>
  <2>1. CASE i \in DOMAIN s BY <1>2, <2>1 DEF OneEach
  <2>2. CASE i \notin DOMAIN s
    <3>1. PICK l \in DOMAIN t : u[i] = t[l] BY <1>2, <2>2
    <3> QED BY <3>1 DEF OneEach
  <2> QED BY <2>1, <2>2
<1>4. ASSUME NEW i \in DOMAIN u, NEW j \in DOMAIN u, TensorOf(u[i]) = TensorOf(u[j])
      PROVE  i = j
  <2>1. CASE i \in DOMAIN s /\ j \in DOMAIN s BY <1>2, <1>4, <2>1 DEF OneEach
  <2>2. CASE i \in DOMAIN s /\ j \notin DOMAIN s BY <1>2, <1>4, <2>2
  <2>3. CASE i \notin DOMAIN s /\ j \in DOMAIN s BY <1>2, <1>4, <2>3
  <2>4. CASE i \notin DOMAIN s /\ j \notin DOMAIN s
    <3>1. PICK k \in DOMAIN t : i = Len(s) + k BY <1>2, <2>4
    <3>2. PICK l \in DOMAIN t : j = Len(s) + l BY <1>2, <2>4
    <3>3. TensorOf(t[k]) = TensorOf(t[l]) BY <1>2, <1>4, <3>1, <3>2
    <3> QED BY <3>1, <3>2, <3>3 DEF OneEach
  <2> QED BY <2>1, <2>2, <2>3, <2>4
<1>5. OneEach(u) BY <1>2, <1>3, <1>4 DEF OneEach
<1>6. {TensorOf(u[i]) : i \in DOMAIN u}
        = {TensorOf(s[i]) : i \in DOMAIN s} \cup {TensorOf(t[i]) : i \in DOMAIN t}
  <2>1. \A i \in DOMAIN u : \/ \E k \in DOMAIN s : TensorOf(u[i]) = TensorOf(s[k])
                            \/ \E k \in DOMAIN t : TensorOf(u[i]) = TensorOf(t[k])
    BY <1>2
  <2>2. \A k \in DOMAIN s : \E i \in DOMAIN u : TensorOf(u[i]) = TensorOf(s[k]) BY <1>2
  <2>3. \A k \in DOMAIN t : \E i \in DOMAIN u : TensorOf(u[i]) = TensorOf(t[k]) BY <1>2
  <2> QED BY <2>1, <2>2, <2>3
<1> QED BY <1>5, <1>6 DEF u, Tensors

\* The responses from the cache that wait for the negotiated ones.
LEMMA HitsAre ==
    ASSUME Inv
    PROVE  /\ OneEach(cachedHits)
           /\ InList(cachedHits) = Tensors(cachedHits)
           /\ InList(cachedHits) \subseteq Names
           /\ InList(cachedHits) = {} => cachedHits = <<>>
           /\ \A i \in DOMAIN cachedHits : \E e \in ToSet(cache[0]) :
                 /\ e \in Entries /\ cachedHits[i] = CachedResponse(e) /\ Stands(e)
                 /\ TensorOf(cachedHits[i]) = e.name
<1> USE InvParts
<1>1. GoodCache(cache[0]) BY Coordinator0
<1>2. \A e \in ToSet(cache[0]) : e \in Entries /\ e.name \in Names
  <2>1. \A e \in ToSet(cache[0]) : e \in Entries BY <1>1, CacheBits DEF ToSet
  <2> QED BY <2>1 DEF Entries, Entry, Names
<1>3. \A i \in DOMAIN cachedHits : \E e \in ToSet(cache[0]) :
                 /\ e \in Entries /\ cachedHits[i] = CachedResponse(e) /\ Stands(e)
                 /\ TensorOf(cachedHits[i]) = e.name
  BY <1>2 DEF HitsStand, CachedResponse, TensorOf
<1>4. \A i \in DOMAIN cachedHits :
         /\ TensorOf(cachedHits[i]) \in Names
         /\ cachedHits[i].names = <<TensorOf(cachedHits[i])>>
         /\ NamesIn(cachedHits[i]) = {TensorOf(cachedHits[i])}
  <2> TAKE i \in DOMAIN cachedHits
  <2>1. PICK e \in ToSet(cache[0]) :
                 /\ e \in Entries /\ cachedHits[i] = CachedResponse(e) /\ Stands(e)
                 /\ TensorOf(cachedHits[i]) = e.name
    BY <1>3
  <2>2. cachedHits[i].names = <<e.name>> BY <2>1 DEF CachedResponse
  <2>3. ToSet(<<e.name>>) = {e.name} BY DEF ToSet
  <2> QED BY <1>2, <2>1, <2>2, <2>3 DEF NamesIn
<1>5. cachedHits \in Seq(Response) BY DEF Typed
<1>6. Once(cachedHits)
  <2>1. CASE cachedHits = <<>>
    <3>1. DOMAIN <<>> = {} OBVIOUS
    <3> QED BY <2>1, <3>1 DEF Once
  <2>2. CASE cachedHits # <<>> BY <2>2, Coordinator0 DEF PhasesOK, Located
  <2> QED BY <2>1, <2>2
<1>7. OneEach(cachedHits)
  <2> HIDE DEF TensorOf
  <2>1. \A i, j \in DOMAIN cachedHits :
          TensorOf(cachedHits[i]) = TensorOf(cachedHits[j]) => i = j
    BY <1>4, <1>6 DEF Once
  <2> QED BY <1>4, <1>5, <2>1 DEF OneEach
<1>8. InList(cachedHits) = Tensors(cachedHits)
  BY <1>4 DEF InList, Tensors
<1>9. InList(cachedHits) = {} => cachedHits = <<>>
  <2> SUFFICES ASSUME InList(cachedHits) = {} PROVE cachedHits = <<>>
    OBVIOUS
  <2>1. DOMAIN cachedHits = {} BY <1>8 DEF Tensors
  <2>2. Len(cachedHits) = 0 BY <1>5, <2>1
  <2> QED BY <1>5, <2>2, EmptyByLength
<1>10. InList(cachedHits) \subseteq Names BY <1>4, <1>8 DEF Tensors
<1> QED BY <1>3, <1>7, <1>8, <1>9, <1>10

\* The negotiated responses: those from the cache and those to the tensors
\* that became ready, one to each, or the response to join() alone.
AreNegotiated(responses, ready) ==
    /\ OneEach(responses)
    /\ Active = {} => /\ responses = <<JoinResponse>>
                      /\ ToSet(ready) = {} /\ InList(cachedHits) = {}
    /\ Active # {} => \A i \in DOMAIN responses :
          \/ \E k \in DOMAIN cachedHits : responses[i] = cachedHits[k]
          \/ \E n \in ToSet(ready) : responses[i] = Answer(n)
    /\ Tensors(responses)
         = InList(cachedHits) \cup ToSet(ready) \cup (IF Active = {} THEN {J} ELSE {})

\* That is what ComputeResponseList negotiates.
LEMMA WhatIsNegotiated ==
    ASSUME Inv, \A r \in Rank : phase[r] = "ready",
           NEW late \in SetToSeqs(ReadyAfterJoins), NEW ready, ready = ReadyInOrder \o late
    PROVE  AreNegotiated(Negotiated(ready), ready)
<1> USE InvParts DEF AreNegotiated
<1> DEFINE answers == [i \in DOMAIN ready |-> Answer(ready[i])]
<1>1. /\ ready \in Seq(Names) /\ IsInjective(ready)
      /\ \A n \in ToSet(ready) : n \in Names /\ Requesters(n) = Active /\ Active # {}
  BY WhatIsReady
<1>2. /\ DOMAIN ready = 1 .. Len(ready) /\ Len(ready) \in Nat
      /\ \A i \in DOMAIN ready : ready[i] \in ToSet(ready)
  BY <1>1 DEF ToSet
<1>3. Negotiated(ready) = (cachedHits \o answers)
                            \o (IF Joins = Size THEN <<JoinResponse>> ELSE <<>>)
  BY DEF Negotiated, Answer
<1>4. Joins = Size <=> Active = {} BY WhatIsCounted
<1>5. \A i \in DOMAIN ready : /\ answers[i] = Answer(ready[i])
                              /\ Answer(ready[i]) \in Response
                              /\ Answer(ready[i]).names = <<ready[i]>>
                              /\ TensorOf(Answer(ready[i])) = ready[i]
                              /\ ready[i] \in Names
  BY <1>1, <1>2, AnswerIs
<1>6. DOMAIN answers = DOMAIN ready OBVIOUS
<1>7. answers \in Seq(Response)
  <2> HIDE DEF Response
  <2>1. answers \in [1 .. Len(ready) -> Response] BY <1>2, <1>5
  <2> HIDE DEF answers
  <2>2. PICK m \in Nat : m = Len(ready) BY <1>2
  <2>3. answers \in [1 .. m -> Response] BY <2>1, <2>2
  <2> QED BY <2>3
<1> HIDE DEF answers
<1>8. /\ OneEach(cachedHits)
      /\ InList(cachedHits) = Tensors(cachedHits)
      /\ InList(cachedHits) \subseteq Names
      /\ InList(cachedHits) = {} => cachedHits = <<>>
  BY HitsAre
<1>9. \A i \in DOMAIN answers : TensorOf(answers[i]) = ready[i]
  BY <1>5, <1>6
<1>10. OneEach(answers) /\ Tensors(answers) = ToSet(ready)
  <2> HIDE DEF TensorOf
  <2>1. \A i, j \in DOMAIN answers : TensorOf(answers[i]) = TensorOf(answers[j]) => i = j
    BY <1>1, <1>6, <1>9 DEF IsInjective
  <2>2. OneEach(answers)
    <3>1. \A i \in DOMAIN answers : /\ TensorOf(answers[i]) \in Names \cup {J}
                                    /\ answers[i].names = <<TensorOf(answers[i])>>
      BY <1>5, <1>6, <1>9
    <3> QED BY <1>7, <2>1, <3>1 DEF OneEach
  <2>3. ToSet(ready) = {ready[i] : i \in DOMAIN ready} BY DEF ToSet
  <2> QED BY <1>6, <1>9, <2>2, <2>3 DEF Tensors
<1>11. CASE Active = {}
  <2>1. ToSet(ready) = {} BY <1>1, <1>11
  <2>2. DOMAIN answers = {} BY <1>2, <1>6, <2>1
  <2>3. answers = <<>>
    <3>1. Len(answers) = 0 BY <1>7, <2>2
    <3> QED BY <1>7, <3>1, EmptyByLength
  <2>4. InList(cachedHits) = {}
    <3>1. joined[0] /\ Located(0) /\ JoinsOK(0) BY <1>11, Coordinator0 DEF Active
    <3>2. InList(cachedHits) \subseteq {J} BY <3>1 DEF Located, JoinsOK
    <3> QED BY <1>8, <3>2, JoinIsNoName
  <2>5. cachedHits = <<>> BY <1>8, <2>4
  <2>6. Negotiated(ready) = (<<>> \o <<>>) \o <<JoinResponse>>
    BY <1>3, <1>4, <1>11, <2>3, <2>5
  <2>7. JoinResponse \in Response
    <3>1. <<J>> \in Seq(Names \cup {J}) /\ <<>> \in Seq(Nat) /\ {} \in SUBSET Rank OBVIOUS
    <3> QED BY <3>1 DEF JoinResponse, Response, J
  <2>8. Negotiated(ready) = <<JoinResponse>>
    <3> HIDE DEF JoinResponse
    <3>1. <<JoinResponse>> \in Seq(Response) BY <2>7
    <3>2. (<<>> \o <<>>) \o <<JoinResponse>> = <<JoinResponse>> BY <3>1
    <3> QED BY <2>6, <3>2
  <2>9. TensorOf(JoinResponse) = J /\ JoinResponse.names = <<J>>
    BY DEF TensorOf, JoinResponse, J
  <2>10. OneEach(<<JoinResponse>>)
         /\ Tensors(<<JoinResponse>>) = {J}
    <3> HIDE DEF JoinResponse, TensorOf, Response
    <3>1. <<JoinResponse>> \in Seq(Response) /\ DOMAIN <<JoinResponse>> = {1}
          /\ <<JoinResponse>>[1] = JoinResponse
      BY <2>7
    <3> QED BY <2>9, <3>1 DEF OneEach, Tensors
  <2> QED BY <1>11, <2>1, <2>4, <2>8, <2>10
<1>12. CASE Active # {}
  <2>1. \A i \in DOMAIN cachedHits : \A j \in DOMAIN answers :
           TensorOf(cachedHits[i]) # TensorOf(answers[j])
    <3> SUFFICES ASSUME NEW i \in DOMAIN cachedHits, NEW j \in DOMAIN answers,
                        TensorOf(cachedHits[i]) = TensorOf(answers[j])
                 PROVE  FALSE
      OBVIOUS
    <3>1. PICK n : n = ready[j] OBVIOUS
    <3>2. n \in InList(cachedHits) BY <1>8, <1>9, <3>1 DEF Tensors
    <3>3. n \in Names /\ Requesters(n) = Active BY <1>1, <1>2, <1>6, <3>1
    <3>4. PICK r : r \in Active BY <1>12
    <3>5. r \in messageTable[n] \cup {p \in Rank : n \in M(p)} BY <3>3, <3>4, WhatIsCounted
    <3>6. r \in Rank /\ (n \in M(r) \/ n \in Counted(r)) BY <3>3, <3>4, <3>5 DEF Active, Counted
    <3>7. Located(r) BY <3>6
    <3> QED BY <3>2, <3>6, <3>7 DEF Located
  <2>2. /\ OneEach(cachedHits \o answers)
        /\ Tensors(cachedHits \o answers) = InList(cachedHits) \cup ToSet(ready)
    BY <1>8, <1>10, <2>1, OneEachConcat
  <2>3. Negotiated(ready) = cachedHits \o answers
    <3>1. cachedHits \o answers \in Seq(Response) BY <2>2 DEF OneEach
    <3>2. (cachedHits \o answers) \o <<>> = cachedHits \o answers BY <3>1
    <3> QED BY <1>3, <1>4, <1>12, <3>2
  <2>4. ASSUME NEW i \in DOMAIN Negotiated(ready)
        PROVE  \/ \E k \in DOMAIN cachedHits : Negotiated(ready)[i] = cachedHits[k]
               \/ \E n \in ToSet(ready) : Negotiated(ready)[i] = Answer(n)
    <3>1. cachedHits \in Seq(Response) BY <1>8 DEF OneEach
    <3>2. /\ \A k \in DOMAIN cachedHits : (cachedHits \o answers)[k] = cachedHits[k]
          /\ \A l \in DOMAIN answers : (cachedHits \o answers)[Len(cachedHits) + l] = answers[l]
          /\ \A k \in DOMAIN (cachedHits \o answers) :
                k \in DOMAIN cachedHits \/ \E l \in DOMAIN answers : k = Len(cachedHits) + l
      BY <1>7, <3>1, ConcatElements
    <3>3. CASE i \in DOMAIN cachedHits BY <2>3, <3>2, <3>3
    <3>4. CASE i \notin DOMAIN cachedHits
      <4>1. PICK l \in DOMAIN answers : i = Len(cachedHits) + l BY <2>3, <3>2, <3>4
      <4>2. Negotiated(ready)[i] = answers[l] BY <2>3, <3>2, <4>1
      <4>3. l \in DOMAIN ready /\ answers[l] = Answer(ready[l]) BY <1>5, <1>6
      <4> QED BY <1>2, <4>2, <4>3
    <3> QED BY <3>3, <3>4
  <2> QED BY <1>12, <2>2, <2>3, <2>4
<1> QED BY <1>11, <1>12

\* A tensor whose request every rank has, as every other rank has it.
InCommon(n) ==
    /\ n \in Names
    /\ \A r \in Rank : /\ n \in Outstanding(r)
                       /\ table[r][n].dtype = table[0][n].dtype
                       /\ table[r][n].shape = table[0][n].shape

\* What the reductions of a list add to the caches: requests that all ranks
\* have in common, and that no entry contradicts.
Cacheable(list) ==
    \A k \in DOMAIN list :
        list[k].type \in Reductions /\ list[k].devices = Rank =>
            \A n \in NamesIn(list[k]) :
                /\ InCommon(n)
                /\ \A r \in Rank : \A e \in ToSet(cache[r]) :
                      e.name = n => e.dtype = table[r][n].dtype /\ e.shape = table[r][n].shape

\* The list of a negotiated cycle.
LEMMA ListIs ==
    ASSUME Inv, \A r \in Rank : phase[r] = "ready",
           NEW late \in SetToSeqs(ReadyAfterJoins), NEW ready, ready = ReadyInOrder \o late,
           NEW list, list = Fused(0, Negotiated(ready))
    PROVE  /\ list \in Seq(Response) /\ Once(list)
           /\ InList(list) = InList(cachedHits) \cup ToSet(ready)
                                \cup (IF Active = {} THEN {J} ELSE {})
           /\ Active = {} => list = <<JoinResponse>>
           /\ Active # {} => \A k \in DOMAIN list : list[k].type # "JOIN"
           /\ Cacheable(list)
<1> USE InvParts
<1> DEFINE responses == Negotiated(ready)
<1>1. /\ OneEach(responses)
      /\ Active = {} => responses = <<JoinResponse>>
      /\ Active # {} => \A i \in DOMAIN responses :
            \/ \E k \in DOMAIN cachedHits : responses[i] = cachedHits[k]
            \/ \E n \in ToSet(ready) : responses[i] = Answer(n)
      /\ Tensors(responses)
           = InList(cachedHits) \cup ToSet(ready) \cup (IF Active = {} THEN {J} ELSE {})
  <2>1. AreNegotiated(responses, ready) BY WhatIsNegotiated
  <2> HIDE DEF responses
  <2> QED BY <2>1 DEF AreNegotiated
<1> HIDE DEF responses
<1>2. Merged(responses, list) BY <1>1, FusedIsMerged DEF responses
<1>3. /\ list \in Seq(Response)
      /\ InList(list) = Tensors(responses)
      /\ Once(list)
  BY <1>1, <1>2, MergedNames DEF Tensors
<1>4. ASSUME Active = {} PROVE list = <<JoinResponse>>
  <2>1. responses = <<JoinResponse>> BY <1>1, <1>4
  <2>2. 1 \in DOMAIN <<JoinResponse>> /\ <<JoinResponse>>[1].names = <<J>>
    BY DEF JoinResponse, J
  <2>3. LookupFails(0, Head(<<JoinResponse>>[1].names))
    BY <2>2 DEF LookupFails, J
  <2>4. Fused(0, <<JoinResponse>>) = <<JoinResponse>> BY <2>2, <2>3 DEF Fused
  <2> QED BY <2>1, <2>4 DEF responses
<1>5. ASSUME NEW i \in DOMAIN responses, Active # {}
      PROVE  /\ responses[i].type # "JOIN"
             /\ responses[i].type \in Reductions /\ responses[i].devices = Rank =>
                  /\ InCommon(TensorOf(responses[i]))
                  /\ \A r \in Rank : \A e \in ToSet(cache[r]) :
                        e.name = TensorOf(responses[i]) =>
                           /\ e.dtype = table[r][TensorOf(responses[i])].dtype
                           /\ e.shape = table[r][TensorOf(responses[i])].shape
  <2>1. CASE \E k \in DOMAIN cachedHits : responses[i] = cachedHits[k]
    <3>1. PICK k \in DOMAIN cachedHits : responses[i] = cachedHits[k] BY <2>1
    <3>2. PICK e \in ToSet(cache[0]) :
                 /\ e \in Entries /\ cachedHits[k] = CachedResponse(e) /\ Stands(e)
                 /\ TensorOf(cachedHits[k]) = e.name
      BY HitsAre
    <3>3. e.name \in Names /\ e.type \in Reductions BY <3>2 DEF Entries, Entry, Names
    <3>4. responses[i].type # "JOIN" /\ TensorOf(responses[i]) = e.name
      BY <3>1, <3>2, <3>3 DEF CachedResponse, Reductions
    <3>5. \A r \in Rank : e.name \in Outstanding(r)
      <4> TAKE r \in Rank
      <4>1. e.name \in InList(cachedHits) BY <3>2, HitsAre DEF Tensors
      <4>2. Located(r) OBVIOUS
      <4> QED BY <4>1, <4>2 DEF Located
    <3>6. InCommon(e.name) BY <3>2, <3>3, <3>5, Coordinator0 DEF InCommon, Stands
    <3>7. ASSUME NEW r \in Rank, NEW f \in ToSet(cache[r]), f.name = e.name
          PROVE  f.dtype = table[r][e.name].dtype /\ f.shape = table[r][e.name].shape
      <4>1. cache[r] = cache[0] /\ GoodCache(cache[0]) BY Coordinator0 DEF CacheConsistent
      <4>2. f = e BY <3>2, <3>7, <4>1 DEF GoodCache, ToSet
      <4> QED BY <3>2, <4>2 DEF Stands
    <3> QED BY <3>4, <3>6, <3>7
  <2>2. CASE \E n \in ToSet(ready) : responses[i] = Answer(n)
    <3>1. PICK n \in ToSet(ready) : responses[i] = Answer(n) BY <2>2
    <3>2. n \in Names /\ Requesters(n) = Active BY <3>1, WhatIsReady
    <3>3. /\ Answer(n).devices = Active /\ Answer(n).type # "JOIN"
          /\ TensorOf(Answer(n)) = n
          /\ Answer(n).type # "ERROR" =>
                 /\ ~Mismatch(n, Active, Joins)
                 /\ \A r \in Active : table[r][n].op = Answer(n).type
      BY <1>5, <3>2, AnswerIs
    <3>4. ASSUME Answer(n).type \in Reductions, Active = Rank
          PROVE  /\ InCommon(n)
                 /\ \A r \in Rank : n \notin CachedNames(cache[r])
      <4>1. ~Mismatch(n, Rank, Joins) /\ \A r \in Rank : table[r][n].op \in Reductions
        BY <3>3, <3>4 DEF Reductions
      <4>2. \A r \in Rank : n \in Outstanding(r) BY <3>2, <3>4, WhatIsCounted
      <4>3. \A r \in Rank : table[r][n].dtype = table[0][n].dtype
                            /\ table[r][n].shape = table[0][n].shape
        BY <4>1, Coordinator0, MatchAgrees
      <4>4. ASSUME NEW r \in Rank PROVE n \notin CachedNames(cache[r])
        <5>1. r \in messageTable[n] \cup {p \in Rank : n \in M(p)} BY <3>2, <3>4, WhatIsCounted
        <5> QED BY <3>2, <5>1 DEF Uncached
      <4> QED BY <3>2, <4>2, <4>3, <4>4 DEF InCommon
    <3>5. \A r \in Rank : \A e \in ToSet(cache[r]) : e.name \in CachedNames(cache[r])
      BY DEF ToSet, CachedNames
    <3> QED BY <3>1, <3>3, <3>4, <3>5
  <2> QED BY <1>1, <1>5, <2>1, <2>2
<1>6. ASSUME NEW k \in DOMAIN list, NEW n \in NamesIn(list[k])
      PROVE  \E i \in DOMAIN responses : /\ TensorOf(responses[i]) = n
                                         /\ responses[i].type = list[k].type
                                         /\ responses[i].devices = list[k].devices
  BY <1>2 DEF Merged
<1>7. ASSUME Active # {}, NEW k \in DOMAIN list PROVE list[k].type # "JOIN"
  <2>1. list[k].names # <<>> /\ list[k] \in Response BY <1>2, <1>3 DEF Merged
  <2>2. list[k].names \in Seq(Names \cup {J}) BY <2>1 DEF Response, J
  <2>3. list[k].names[1] \in NamesIn(list[k]) BY <2>1, <2>2, TailElements DEF NamesIn, ToSet
  <2> QED BY <1>5, <1>6, <1>7, <2>3
<1>8. ASSUME NEW k \in DOMAIN list,
             list[k].type \in Reductions /\ list[k].devices = Rank,
             NEW n \in NamesIn(list[k])
      PROVE  /\ InCommon(n)
             /\ \A r \in Rank : \A e \in ToSet(cache[r]) :
                   e.name = n => e.dtype = table[r][n].dtype /\ e.shape = table[r][n].shape
  <2>1. Active # {}
    <3> SUFFICES ASSUME Active = {} PROVE FALSE
      OBVIOUS
    <3>1. list[k].type = "JOIN"
      <4>1. DOMAIN <<JoinResponse>> = {1} /\ <<JoinResponse>>[1] = JoinResponse OBVIOUS
      <4> QED BY <1>4, <4>1 DEF JoinResponse
    <3> QED BY <1>8, <3>1 DEF Reductions
  <2>2. PICK i \in DOMAIN responses : /\ TensorOf(responses[i]) = n
                                      /\ responses[i].type = list[k].type
                                      /\ responses[i].devices = list[k].devices
    BY <1>6
  <2> QED BY <1>5, <1>8, <2>1, <2>2
<1>9. Cacheable(list) BY <1>8 DEF Cacheable
<1> QED BY <1>1, <1>3, <1>4, <1>7, <1>9

\* What rank r adds to its cache for one response.
PartOf(r, response) ==
    IF response.type \in Reductions /\ response.devices = Rank
    THEN [i \in DOMAIN response.names |->
            Entry(response.names[i], response.type, table[r][response.names[i]])]
    ELSE <<>>

\* An entry remembers a tensor of a reduction of the list.
ComesFrom(e, list) ==
    \E k \in DOMAIN list :
        e.name \in NamesIn(list[k]) /\ e.type = list[k].type /\ list[k].type \in Reductions

\* All ranks add the same entries to their caches, and none contradicts one
\* that is there.
LEMMA EntriesAgree ==
    ASSUME Inv, NEW list \in Seq(Response),
           Cacheable(list),
           NEW r \in Rank
    PROVE  /\ EntriesOf(r, list) \in Seq(Entries)
           /\ EntriesOf(r, list) = EntriesOf(0, list)
           /\ CachedNames(EntriesOf(r, list)) \subseteq InList(list)
           /\ \A e \in ToSet(EntriesOf(r, list)) : ComesFrom(e, list)
           /\ ~PutThrows(r, list)
<1> USE InvParts
<1> DEFINE Parts(p) == [i \in DOMAIN list |-> PartOf(p, list[i])]
<1>1. \A p : EntriesOf(p, list) = FlattenSeq(Parts(p)) BY DEF EntriesOf, PartOf
<1>2. ASSUME NEW k \in DOMAIN list
      PROVE  /\ PartOf(r, list[k]) = PartOf(0, list[k])
             /\ PartOf(r, list[k]) \in Seq(Entries)
             /\ \A i \in DOMAIN PartOf(r, list[k]) :
                   PartOf(r, list[k])[i].type = list[k].type /\ list[k].type \in Reductions
             /\ \A i \in DOMAIN PartOf(r, list[k]) :
                   \E n \in NamesIn(list[k]) :
                      /\ PartOf(r, list[k])[i].name = n
                      /\ PartOf(r, list[k])[i].dtype = table[r][n].dtype
                      /\ PartOf(r, list[k])[i].shape = table[r][n].shape
                      /\ \A e \in ToSet(cache[r]) : e.name = n =>
                            e.dtype = table[r][n].dtype /\ e.shape = table[r][n].shape
  <2> DEFINE names == list[k].names
             type == list[k].type
  <2>1. CASE ~(type \in Reductions /\ list[k].devices = Rank)
    <3>1. PartOf(r, list[k]) = <<>> /\ PartOf(0, list[k]) = <<>> BY <2>1 DEF PartOf
    <3>2. DOMAIN <<>> = {} /\ <<>> \in Seq(Entries) OBVIOUS
    <3> QED BY <3>1, <3>2
  <2>2. CASE type \in Reductions /\ list[k].devices = Rank
    <3>1. list[k] \in Response OBVIOUS
    <3>2. names \in Seq(Names \cup {J}) BY <3>1 DEF Response, J
    <3>3. /\ DOMAIN names = 1 .. Len(names) /\ Len(names) \in Nat
          /\ \A i \in DOMAIN names : names[i] \in NamesIn(list[k])
      BY <3>2 DEF NamesIn, ToSet
    <3>4. \A i \in DOMAIN names : /\ InCommon(names[i])
                                  /\ \A e \in ToSet(cache[r]) : e.name = names[i] =>
                                        /\ e.dtype = table[r][names[i]].dtype
                                        /\ e.shape = table[r][names[i]].shape
      BY <2>2, <3>3 DEF Cacheable
    <3>5. \A i \in DOMAIN names :
             /\ Entry(names[i], type, table[r][names[i]]) = Entry(names[i], type, table[0][names[i]])
             /\ Entry(names[i], type, table[r][names[i]]) \in Entries
      <4> TAKE i \in DOMAIN names
      <4>1. PICK n : n = names[i] OBVIOUS
      <4>2. n \in Names /\ n \in Outstanding(r) /\ table[r][n].dtype = table[0][n].dtype
            /\ table[r][n].shape = table[0][n].shape
        BY <3>4, <4>1 DEF InCommon
      <4>3. table[r][n] \in Requests /\ table[r][n].name = n
        BY <4>2, JoinIsNoName DEF TableOK
      <4>4. Entry(n, type, table[r][n]) \in Entries BY <2>2, <4>3 DEF Entries
      <4>5. Entry(n, type, table[r][n]) = Entry(n, type, table[0][n]) BY <4>2 DEF Entry
      <4> QED BY <4>1, <4>4, <4>5
    <3>6. /\ PartOf(r, list[k]) = [i \in DOMAIN names |-> Entry(names[i], type, table[r][names[i]])]
          /\ PartOf(0, list[k]) = [i \in DOMAIN names |-> Entry(names[i], type, table[0][names[i]])]
      BY <2>2 DEF PartOf
    <3>7. PartOf(r, list[k]) = PartOf(0, list[k]) BY <3>5, <3>6
    <3>8. PartOf(r, list[k]) \in Seq(Entries)
      <4> HIDE DEF names
      <4>1. PICK m \in Nat : m = Len(names) BY <3>3
      <4> HIDE DEF Entries
      <4>2. PartOf(r, list[k]) \in [1 .. m -> Entries] BY <3>3, <3>5, <3>6, <4>1
      <4> QED BY <4>2
    <3>9. \A i \in DOMAIN names : /\ PartOf(r, list[k])[i].name = names[i]
                                  /\ PartOf(r, list[k])[i].dtype = table[r][names[i]].dtype
                                  /\ PartOf(r, list[k])[i].shape = table[r][names[i]].shape
                                  /\ PartOf(r, list[k])[i].type = type
      BY <3>6 DEF Entry
    <3>10. DOMAIN PartOf(r, list[k]) = DOMAIN names BY <3>6
    <3>11. \A i \in DOMAIN PartOf(r, list[k]) :
              PartOf(r, list[k])[i].type = list[k].type /\ list[k].type \in Reductions
      BY <2>2, <3>9, <3>10
    <3>12. \A i \in DOMAIN PartOf(r, list[k]) :
                   \E n \in NamesIn(list[k]) :
                      /\ PartOf(r, list[k])[i].name = n
                      /\ PartOf(r, list[k])[i].dtype = table[r][n].dtype
                      /\ PartOf(r, list[k])[i].shape = table[r][n].shape
                      /\ \A e \in ToSet(cache[r]) : e.name = n =>
                            e.dtype = table[r][n].dtype /\ e.shape = table[r][n].shape
      <4> HIDE DEF names, type
      <4> QED BY <3>3, <3>4, <3>9, <3>10
    <3> QED BY <3>7, <3>8, <3>11, <3>12
  <2> QED BY <2>1, <2>2
<1>3. Parts(r) = Parts(0) BY <1>2
<1>4. DOMAIN list = 1 .. Len(list) /\ Len(list) \in Nat OBVIOUS
<1>5. Parts(r) \in Seq(Seq(Entries)) /\ DOMAIN Parts(r) = DOMAIN list
  <2>1. \A k \in DOMAIN list : PartOf(r, list[k]) \in Seq(Entries)
    <3> TAKE k \in DOMAIN list
    <3> HIDE DEF Entries
    <3> QED BY <1>2
  <2>2. PICK m \in Nat : m = Len(list) BY <1>4
  <2> HIDE DEF Entries
  <2>3. Parts(r) \in [1 .. m -> Seq(Entries)] BY <1>4, <2>1, <2>2
  <2>4. DOMAIN Parts(r) = DOMAIN list OBVIOUS
  <2> HIDE DEF Parts
  <2> QED BY <2>3, <2>4
<1> DEFINE flat == EntriesOf(r, list)
<1>6. /\ flat \in Seq(Entries)
      /\ \A j \in DOMAIN flat : \E k \in DOMAIN list :
            \E i \in DOMAIN PartOf(r, list[k]) : flat[j] = PartOf(r, list[k])[i]
  <2>1. /\ flat \in Seq(Entries)
        /\ \A j \in DOMAIN flat : \E k \in DOMAIN Parts(r) :
              \E i \in DOMAIN Parts(r)[k] : flat[j] = Parts(r)[k][i]
    <3> HIDE DEF Parts, Entries
    <3> QED BY <1>1, <1>5, FlattenElements
  <2> QED BY <1>5, <2>1
<1>7. flat = EntriesOf(0, list) BY <1>1, <1>3
<1> HIDE DEF flat
<1>8. \A j \in DOMAIN flat : \E k \in DOMAIN list : \E n \in NamesIn(list[k]) :
         /\ flat[j].name = n /\ flat[j].dtype = table[r][n].dtype
         /\ flat[j].shape = table[r][n].shape
         /\ \A e \in ToSet(cache[r]) : e.name = n =>
               e.dtype = table[r][n].dtype /\ e.shape = table[r][n].shape
  <2> TAKE j \in DOMAIN flat
  <2>1. PICK k \in DOMAIN list : \E i \in DOMAIN PartOf(r, list[k]) :
           flat[j] = PartOf(r, list[k])[i]
    BY <1>6
  <2>2. PICK i \in DOMAIN PartOf(r, list[k]) : flat[j] = PartOf(r, list[k])[i] BY <2>1
  <2>3. PICK n \in NamesIn(list[k]) :
                      /\ PartOf(r, list[k])[i].name = n
                      /\ PartOf(r, list[k])[i].dtype = table[r][n].dtype
                      /\ PartOf(r, list[k])[i].shape = table[r][n].shape
                      /\ \A e \in ToSet(cache[r]) : e.name = n =>
                            e.dtype = table[r][n].dtype /\ e.shape = table[r][n].shape
    BY <1>2
  <2> QED BY <2>2, <2>3
<1>9. CachedNames(flat) \subseteq InList(list)
  BY <1>8 DEF CachedNames, InList
<1>10. ~PutThrows(r, list)
  <2>1. \A e \in ToSet(flat), k \in ToSet(cache[r]) :
           e.name = k.name => e.dtype = k.dtype /\ e.shape = k.shape
    BY <1>8 DEF ToSet
  <2> QED BY <2>1 DEF PutThrows, flat
<1>11. \A e \in ToSet(flat) : ComesFrom(e, list)
  <2> TAKE e \in ToSet(flat)
  <2>1. PICK j \in DOMAIN flat : e = flat[j] BY DEF ToSet
  <2>2. PICK k \in DOMAIN list : \E i \in DOMAIN PartOf(r, list[k]) :
           flat[j] = PartOf(r, list[k])[i]
    BY <1>6
  <2>3. PICK i \in DOMAIN PartOf(r, list[k]) : flat[j] = PartOf(r, list[k])[i] BY <2>2
  <2>4. /\ PartOf(r, list[k])[i].type = list[k].type /\ list[k].type \in Reductions
        /\ PartOf(r, list[k])[i].name \in NamesIn(list[k])
    BY <1>2
  <2> QED BY <2>1, <2>3, <2>4 DEF ComesFrom
<1> QED BY <1>6, <1>7, <1>9, <1>10, <1>11 DEF flat

\* There are Size ranks.
LEMMA RankSize == IsFiniteSet(Rank) /\ Cardinality(Rank) = Size
<1>1. Size \in Nat \ {0} BY SizeAssumption
<1>2. 0 \in Int /\ Size - 1 \in Int BY <1>1
<1>3. IsFiniteSet(0 .. Size - 1)
      /\ Cardinality(0 .. Size - 1) = IF 0 > Size - 1 THEN 0 ELSE (Size - 1) - 0 + 1
  BY <1>2, FS_Interval
<1> QED BY <1>1, <1>3 DEF Rank

\* A rank has joined before a higher one.
EarlyJoin == \E q, r \in Rank : q < r /\ joined[q] /\ ~joined[r]

\* The coordinator fails only if a rank joined before a higher one.
LEMMA FailuresAreEarlyJoins ==
    ASSUME Inv, \A r \in Rank : phase[r] = "ready",
           NEW late \in SetToSeqs(ReadyAfterJoins), NEW ready, ready = ReadyInOrder \o late,
           \/ FusionThrows(0, Negotiated(ready))
           \/ \E n \in ToSet(ready) : DevicesOverflow(Requesters(n))
    PROVE  EarlyJoin /\ JoinRanks # {}
<1> USE InvParts
<1>1. \A n \in ToSet(ready) : n \in Names /\ Requesters(n) = Active /\ Active # {}
  BY WhatIsReady
<1>2. ASSUME \E n \in ToSet(ready) : DevicesOverflow(Requesters(n))
      PROVE  EarlyJoin
  <2>1. PICK r \in Active : r >= Cardinality(Active) BY <1>1, <1>2 DEF DevicesOverflow
  <2>2. r \in Rank /\ r \in Nat /\ ~joined[r] BY <2>1 DEF Active, Rank
  <2> SUFFICES ASSUME \A q \in Rank : q < r => ~joined[q] PROVE FALSE
    BY <2>2 DEF EarlyJoin
  <2>3. 0 .. r \in SUBSET Active
    <3>1. Size \in Nat BY SizeAssumption
    <3> SUFFICES ASSUME NEW q \in 0 .. r PROVE q \in Active
      OBVIOUS
    <3>2. q \in Rank BY <2>2, <3>1 DEF Rank
    <3>3. q < r \/ q = r BY <2>2
    <3>4. ~joined[q] BY <2>2, <3>2, <3>3
    <3> QED BY <3>2, <3>4 DEF Active
  <2>4. IsFiniteSet(Active) /\ Cardinality(Active) \in 0 .. Size BY WhatIsCounted
  <2>5. Cardinality(0 .. r) <= Cardinality(Active) BY <2>3, <2>4, FS_Subset
  <2>6. Cardinality(0 .. r) = r + 1
    <3>1. 0 \in Int /\ r \in Int /\ ~(0 > r) BY <2>2
    <3>2. Cardinality(0 .. r) = IF 0 > r THEN 0 ELSE r - 0 + 1 BY <3>1, FS_Interval
    <3> QED BY <2>2, <3>1, <3>2
  <2>7. Size \in Nat BY SizeAssumption
  <2> QED BY <2>1, <2>2, <2>4, <2>5, <2>6, <2>7
<1>3. ASSUME FusionThrows(0, Negotiated(ready))
      PROVE  EarlyJoin
  <2> DEFINE responses == Negotiated(ready)
  <2>1. /\ OneEach(responses)
        /\ Active = {} => responses = <<JoinResponse>>
        /\ Active # {} => \A i \in DOMAIN responses :
              \/ \E k \in DOMAIN cachedHits : responses[i] = cachedHits[k]
              \/ \E n \in ToSet(ready) : responses[i] = Answer(n)
    <3>1. AreNegotiated(responses, ready) BY WhatIsNegotiated
    <3> HIDE DEF responses
    <3> QED BY <3>1 DEF AreNegotiated
  <2> HIDE DEF responses
  <2>2. PICK i \in 2 .. Len(responses) : LookupFails(0, TensorOf(responses[i]))
    BY <1>3 DEF FusionThrows, responses, TensorOf
  <2>3. i \in DOMAIN responses
    <3>1. responses \in Seq(Response) BY <2>1 DEF OneEach
    <3> QED BY <3>1
  <2>4. Active # {}
    <3>1. Len(<<JoinResponse>>) = 1 OBVIOUS
    <3> QED BY <2>1, <2>2, <3>1
  <2>5. ASSUME NEW n \in Names, n \in Outstanding(0) PROVE ~LookupFails(0, n)
    BY <2>5, JoinIsNoName DEF LookupFails, Outstanding, J
  <2>6. ~\E k \in DOMAIN cachedHits : responses[i] = cachedHits[k]
    <3> SUFFICES ASSUME NEW k \in DOMAIN cachedHits, responses[i] = cachedHits[k] PROVE FALSE
      OBVIOUS
    <3>1. TensorOf(cachedHits[k]) \in InList(cachedHits) /\ InList(cachedHits) \subseteq Names
      BY HitsAre DEF Tensors
    <3>2. Located(0) BY Coordinator0
    <3>3. TensorOf(cachedHits[k]) \in Outstanding(0) BY <3>1, <3>2 DEF Located
    <3> QED BY <2>2, <2>5, <3>1, <3>3
  <2>7. PICK n \in ToSet(ready) : responses[i] = Answer(n) BY <2>1, <2>3, <2>4, <2>6
  <2>8. n \in Names /\ Requesters(n) = Active /\ TensorOf(responses[i]) = n
    BY <1>1, <2>4, <2>7, AnswerIs
  <2>9. n \notin Outstanding(0) BY <2>2, <2>5, <2>8
  <2>10. 0 \notin Active BY <2>8, <2>9, WhatIsCounted
  <2>11. PICK r : r \in Active BY <2>4
  <2>12. r \in Rank /\ ~joined[r] /\ joined[0] /\ 0 < r
    BY <2>10, <2>11, Coordinator0 DEF Active, Rank
  <2> QED BY <2>12, Coordinator0 DEF EarlyJoin
<1>4. EarlyJoin BY <1>2, <1>3
<1>5. JoinRanks # {}
  <2>1. PICK q \in Rank : joined[q] BY <1>4 DEF EarlyJoin
  <2>2. JoinsOK(q) /\ TableOK(q) OBVIOUS
  <2>3. J \in Outstanding(q) BY <2>1, <2>2 DEF JoinsOK
  <2> QED BY <2>2, <2>3 DEF TableOK
<1> QED BY <1>4, <1>5

\* The coordinator dies.
LEMMA CoordinatorDiesKeeps ==
    ASSUME Inv, CoordinatorDies
    PROVE  Inv' /\ EarlyJoin /\ fault' \in {"devices", "fuse"}
<1> USE InvParts
<1>1. /\ \A r \in Rank : phase[r] = "ready"
      /\ phase' = [phase EXCEPT ![0] = "dead"]
      /\ UNCHANGED <<table, queue, shutDown, left, msgs, coord, cache, stalled, joined, todo,
                     stop, cachedHits, messageTable, joinedSize>>
  BY DEF CoordinatorDies, appVars, coordVars
<1>2. EarlyJoin /\ JoinRanks # {} /\ fault' \in {"devices", "fuse"}
  <2>1. PICK late \in SetToSeqs(ReadyAfterJoins) :
          LET ready == ReadyInOrder \o late
          IN  \/ FusionThrows(0, Negotiated(ready)) /\ fault' = "fuse"
              \/ (\E n \in ToSet(ready) : DevicesOverflow(Requesters(n))) /\ fault' = "devices"
    BY DEF CoordinatorDies
  <2>2. PICK ready : ready = ReadyInOrder \o late OBVIOUS
  <2>3. fault' \in {"devices", "fuse"} BY <2>1
  <2>4. \/ FusionThrows(0, Negotiated(ready))
        \/ \E n \in ToSet(ready) : DevicesOverflow(Requesters(n))
    BY <2>1, <2>2
  <2> QED BY <1>1, <2>2, <2>3, <2>4, FailuresAreEarlyJoins
<1>3. /\ phase'[0] = "dead"
      /\ \A r \in Rank : r # 0 => phase'[r] = "ready"
      /\ phase' \in [Rank -> Phases]
  BY <1>1, Coordinator0 DEF Typed, Phases
<1>4. \A r \in Rank : phase'[r] \in {"ready", "dead"} BY <1>3
<1>5. Typed' BY <1>1, <1>3 DEF Typed
<1>6. \A r \in Rank : TableOK(r)' /\ GoodCache(cache[r])' /\ TodoOK(r)'
  BY <1>1 DEF TableOK, Outstanding, GoodCache, TodoOK
<1>7. PhasesOK' BY <1>1, <1>3, <1>4 DEF PhasesOK
<1>8. ASSUME NEW r \in Rank PROVE Located(r)' /\ JoinsOK(r)'
  <2>1. Located(r) /\ JoinsOK(r) BY <1>1
  <2>2. /\ Outstanding(r)' = Outstanding(r) /\ Q(r)' = Q(r) /\ M(r)' = M(r)
        /\ Counted(r)' = Counted(r) /\ InList(cachedHits)' = InList(cachedHits)
    BY <1>1 DEF Outstanding, Q, M, Counted, InList
  <2> QED BY <1>1, <2>1, <2>2 DEF Located, JoinsOK
<1>9. JoinCount' BY <1>1 DEF JoinCount, CountedJoins, M, HasJoin
<1>10. \A r \in Rank : SyncHolds(r)' BY <1>4 DEF SyncHolds
<1>11. Uncached' BY <1>1, <1>4 DEF Uncached, M
<1>12. HitsStand' BY <1>1 DEF HitsStand, Stands
<1>13. \A r \in Rank : Waits(r)' BY <1>1, <1>4 DEF Waits, Q
<1>14. CacheConsistent' BY <1>1 DEF CacheConsistent
<1>15. Aligned' BY <1>4 DEF Aligned
<1>16. FaultOK' BY <1>2 DEF FaultOK
<1>17. Inv' BY <1>5, <1>6, <1>7, <1>8, <1>9, <1>10, <1>11, <1>12, <1>13, <1>14, <1>15, <1>16 DEF Inv
<1> QED BY <1>2, <1>17

\* The coordinator decides.
LEMMA CoordinateKeeps ==
    ASSUME Inv, Coordinate
    PROVE  Inv' /\ (fault' # fault => fault' = "devices" /\ EarlyJoin)
<1> USE InvParts
<1>1. \A r \in Rank : phase[r] = "ready" BY DEF Coordinate
<1>2. /\ joinedSize' = IF Joins = Size THEN 0 ELSE Joins
      /\ stop' = [r \in Rank |-> ShouldShutDown(r)]
      /\ msgs' = [r \in Rank |-> <<>>]
      /\ coord' = [r \in Rank |-> NoCoord]
      /\ cachedHits' = <<>>
      /\ UNCHANGED <<table, queue, shutDown, left, stalled, joined>>
  BY DEF Coordinate, appVars
<1>3. PICK late \in SetToSeqs(ReadyAfterJoins) :
         LET ready == ReadyInOrder \o late
             list == Fused(0, Negotiated(ready))
         IN  /\ todo'  = [r \in Rank |-> list]
             /\ cache' = [r \in Rank |->
                    IF Capacity > 0 THEN put(cache[r], EntriesOf(r, list))
                    ELSE cache[r]]
             /\ phase' = [r \in Rank |-> IF Capacity > 0 /\ PutThrows(r, list) THEN "dead" ELSE "perform"]
             /\ fault' = IF \E r \in Rank : Capacity > 0 /\ PutThrows(r, list) THEN "put"
                         ELSE IF \E n \in ToSet(ready) : DevicesOverflow(Requesters(n))
                         THEN "devices" ELSE fault
             /\ messageTable' = [n \in Names |->
                    IF n \in ToSet(ready) THEN {} ELSE Requesters(n)]
  BY DEF Coordinate
<1>4. PICK ready : ready = ReadyInOrder \o late OBVIOUS
<1>5. PICK list : list = Fused(0, Negotiated(ready)) OBVIOUS
<1>6. /\ \A n \in ToSet(ready) : n \in Names /\ Requesters(n) = Active /\ Active # {}
  BY <1>1, <1>4, WhatIsReady
<1>7. /\ list \in Seq(Response) /\ Once(list)
      /\ InList(list) = InList(cachedHits) \cup ToSet(ready)
                          \cup (IF Active = {} THEN {J} ELSE {})
      /\ Active = {} => list = <<JoinResponse>>
      /\ Active # {} => \A k \in DOMAIN list : list[k].type # "JOIN"
      /\ Cacheable(list)
  <2> HIDE DEF Fused, Negotiated, ReadyInOrder, ReadyAfterJoins, JoinResponse, InList, Once, Cacheable
  <2>1. late \in SetToSeqs(ReadyAfterJoins) /\ ready = ReadyInOrder \o late BY <1>4
  <2> QED BY <1>1, <1>5, <2>1, ListIs, Zenon
<1>8. \A r \in Rank :
         /\ EntriesOf(r, list) \in Seq(Entries)
         /\ EntriesOf(r, list) = EntriesOf(0, list)
         /\ CachedNames(EntriesOf(r, list)) \subseteq InList(list)
         /\ ~PutThrows(r, list)
  BY <1>7, EntriesAgree
<1>9. /\ todo' = [r \in Rank |-> list]
      /\ cache' = [r \in Rank |->
             IF Capacity > 0 THEN put(cache[r], EntriesOf(r, list)) ELSE cache[r]]
      /\ phase' = [r \in Rank |-> "perform"]
      /\ fault' = IF \E n \in ToSet(ready) : DevicesOverflow(Requesters(n))
                  THEN "devices" ELSE fault
      /\ messageTable' = [n \in Names |->
             IF n \in ToSet(ready) THEN {} ELSE Requesters(n)]
  BY <1>3, <1>4, <1>5, <1>8
<1>10. /\ \A n \in Names : Requesters(n) = messageTable[n] \cup {r \in Rank : n \in M(r)}
       /\ \A n \in Names : Requesters(n) \subseteq Active
       /\ \A n \in Names : \A r \in Requesters(n) : n \in Outstanding(r)
       /\ Joins \in Nat /\ Joins = Size - Cardinality(Active)
       /\ IsFiniteSet(Active) /\ Cardinality(Active) \in 0 .. Size
       /\ Joins = Size <=> Active = {}
  BY <1>1, WhatIsCounted
<1>11. InList(cachedHits) \subseteq Names BY HitsAre
<1>12. \A r \in Rank :
         /\ phase'[r] = "perform" /\ todo'[r] = list /\ msgs'[r] = <<>> /\ M(r)' = {}
         /\ Located(r) /\ JoinsOK(r) /\ todo[r] = <<>>
         /\ Outstanding(r)' = Outstanding(r) /\ Q(r)' = Q(r)
         /\ cache[r] = cache[0] /\ cache'[r] = cache'[0]
         /\ GoodCache(cache'[r]) /\ cache'[r] \in Seq(Entries)
         /\ CachedNames(cache'[r]) \subseteq CachedNames(cache[r]) \cup InList(list)
  <2> TAKE r \in Rank
  <2>1. phase'[r] = "perform" /\ todo'[r] = list /\ msgs'[r] = <<>> BY <1>2, <1>9
  <2>2. M(r)' = {} BY <2>1, NoElements DEF M
  <2>3. Located(r) /\ JoinsOK(r) /\ todo[r] = <<>> BY <1>1 DEF PhasesOK
  <2>4. Outstanding(r)' = Outstanding(r) /\ Q(r)' = Q(r) BY <1>2 DEF Outstanding, Q
  <2>5. cache[r] = cache[0] /\ GoodCache(cache[r]) BY Coordinator0 DEF CacheConsistent
  <2>6. cache'[r] = cache'[0] BY <1>8, <1>9, <2>5, Coordinator0
  <2>7. GoodCache(cache'[r]) /\ CachedNames(cache'[r]) \subseteq CachedNames(cache[r]) \cup InList(list)
    <3>1. CASE Capacity > 0
      <4>1. cache'[r] = put(cache[r], EntriesOf(r, list)) BY <1>9, <3>1
      <4>2. EntriesOf(r, list) \in Seq(Entries)
            /\ CachedNames(EntriesOf(r, list)) \subseteq InList(list) BY <1>8
      <4>3. /\ GoodCache(put(cache[r], EntriesOf(r, list)))
            /\ CachedNames(put(cache[r], EntriesOf(r, list)))
                 \subseteq CachedNames(cache[r]) \cup CachedNames(EntriesOf(r, list))
        BY <2>5, <3>1, <4>2, PutKeeps
      <4> QED BY <4>1, <4>2, <4>3
    <3>2. CASE ~(Capacity > 0) BY <1>9, <2>5, <3>2
    <3> QED BY <3>1, <3>2
  <2> QED BY <2>1, <2>2, <2>3, <2>4, <2>5, <2>6, <2>7 DEF GoodCache
<1>13. \A r \in Rank : Counted(r)' = {n \in Counted(r) \cup (M(r) \cap Names) : n \notin ToSet(ready)}
  BY <1>9, <1>10 DEF Counted
<1>14. \A r \in Rank : \A n \in ToSet(ready) :
          ~joined[r] => n \in M(r) \/ n \in Counted(r)
  <2> TAKE r \in Rank
  <2> TAKE n \in ToSet(ready)
  <2>1. ~joined[r] => r \in Requesters(n) BY <1>6 DEF Active
  <2>2. n \in Names BY <1>6
  <2> QED BY <1>10, <2>1, <2>2 DEF Counted
<1>15. fault' # fault => fault' = "devices" /\ EarlyJoin /\ JoinRanks # {}
  <2> SUFFICES ASSUME fault' # fault PROVE fault' = "devices" /\ EarlyJoin /\ JoinRanks # {}
    OBVIOUS
  <2>1. fault' = "devices" /\ \E n \in ToSet(ready) : DevicesOverflow(Requesters(n)) BY <1>9
  <2> QED BY <1>1, <1>4, <2>1, FailuresAreEarlyJoins
<1>16. Typed'
  <2>1. cache' \in [Rank -> Seq(Entries)] BY <1>9, <1>12
  <2>2. phase' \in [Rank -> Phases] BY <1>9 DEF Phases
  <2>3. <<>> \in Seq(Response) /\ <<>> \in Seq(Names \cup {J}) OBVIOUS
  <2>4. todo' \in [Rank -> Seq(Response)] BY <1>7, <1>9
  <2>5. stop' \in [Rank -> BOOLEAN] BY <1>2 DEF ShouldShutDown
  <2>6. coord' \in [Rank -> [hits : SUBSET Nat, invalid : SUBSET Nat,
                             uncached : BOOLEAN, shut : BOOLEAN]]
    BY <1>2 DEF NoCoord
  <2>7. msgs' \in [Rank -> Seq(Names \cup {J})] BY <1>2, <2>3
  <2>8. messageTable' \in [Names -> SUBSET Rank]
    <3>1. \A n \in Names : Requesters(n) \subseteq Rank BY <1>10 DEF Active
    <3> QED BY <1>9, <3>1
  <2>9. joinedSize' \in Nat BY <1>2, <1>10
  <2> QED BY <1>2, <2>1, <2>2, <2>3, <2>4, <2>5, <2>6, <2>7, <2>8, <2>9 DEF Typed
<1>17. \A r \in Rank : TableOK(r)' /\ GoodCache(cache[r])' /\ TodoOK(r)'
  <2> TAKE r \in Rank
  <2>1. TableOK(r)' BY <1>2 DEF TableOK, Outstanding
  <2>2. GoodCache(cache[r])' BY <1>12 DEF GoodCache
  <2>3. ASSUME NEW i \in DOMAIN list, list[i].type = "JOIN"
        PROVE  list[i].names = <<J>> /\ joined[r] /\ Len(list) = 1
    <3>1. Active = {} BY <1>7, <2>3
    <3>2. list = <<JoinResponse>> BY <1>7, <3>1
    <3>3. DOMAIN <<JoinResponse>> = {1} /\ <<JoinResponse>>[1] = JoinResponse
          /\ Len(<<JoinResponse>>) = 1
      OBVIOUS
    <3>4. joined[r] BY <3>1 DEF Active
    <3> QED BY <3>2, <3>3, <3>4 DEF JoinResponse, J
  <2>4. ASSUME NEW i \in DOMAIN list, list[i].type # "JOIN"
        PROVE  NamesIn(list[i]) \subseteq Names
    <3>1. Active # {}
      <4>1. DOMAIN <<JoinResponse>> = {1} /\ <<JoinResponse>>[1] = JoinResponse OBVIOUS
      <4> QED BY <1>7, <2>4, <4>1 DEF JoinResponse
    <3>2. InList(list) \subseteq Names BY <1>6, <1>7, <1>11, <3>1
    <3> QED BY <3>2 DEF InList
  <2>5. TodoOK(r)' BY <1>2, <1>12, <2>3, <2>4 DEF TodoOK, NamesIn
  <2> QED BY <2>1, <2>2, <2>5
<1>18. PhasesOK' BY <1>2, <1>12 DEF PhasesOK
<1>19. ASSUME NEW r \in Rank PROVE Located(r)' /\ JoinsOK(r)'
  <2>0. Located(r) /\ JoinsOK(r) /\ TableOK(r) BY <1>12
  <2>1. InList(cachedHits)' = {} /\ InList(todo[r])' = InList(list) /\ InList(todo[r]) = {}
        /\ Once(cachedHits)' /\ Once(todo[r])'
    <3>1. DOMAIN <<>> = {} OBVIOUS
    <3>2. InList(cachedHits)' = {} BY <1>2, <3>1 DEF InList
    <3>3. Once(cachedHits)' BY <1>2, <3>1 DEF Once
    <3>4. InList(todo[r])' = InList(list) BY <1>12 DEF InList
    <3>5. Once(todo[r])' BY <1>7, <1>12 DEF Once
    <3>6. InList(todo[r]) = {} BY <1>12, <3>1 DEF InList
    <3> QED BY <3>2, <3>3, <3>4, <3>5, <3>6
  <2> HIDE DEF InList, Once
  <2>2. ~joined[r] => r \in Active BY DEF Active
  <2>3. joined[r] => Q(r) = {} /\ M(r) \subseteq {J} /\ Counted(r) = {} /\ InList(cachedHits) = {}
    <3> SUFFICES ASSUME joined[r]
                 PROVE  Q(r) = {} /\ M(r) \subseteq {J} /\ Counted(r) = {} /\ InList(cachedHits) = {}
      OBVIOUS
    <3>1. Outstanding(r) = {J} /\ J \notin Q(r) BY <2>0 DEF JoinsOK
    <3>2. Counted(r) \subseteq Names BY DEF Counted
    <3> QED BY <1>11, <2>0, <3>1, <3>2, JoinIsNoName DEF Located
  <2>4. Located(r)'
    <3>1. ~joined[r] => InList(list) \subseteq Outstanding(r)
      BY <1>7, <1>14, <2>0, <2>2 DEF Located
    <3>2. \A n \in Outstanding(r) : n # J =>
            \/ n \in Q(r) \/ n \in Counted(r)' \/ n \in InList(list)
      <4> SUFFICES ASSUME NEW n \in Outstanding(r), n # J
                   PROVE  \/ n \in Q(r) \/ n \in Counted(r)' \/ n \in InList(list)
        OBVIOUS
      <4>1. n \in Names BY <2>0, JoinIsNoName DEF TableOK, Names
      <4>2. \/ n \in Q(r) \/ n \in M(r) \/ n \in Counted(r) \/ n \in InList(cachedHits)
        BY <2>0, <2>1 DEF Located
      <4> QED BY <1>7, <1>13, <4>1, <4>2
    <3>3. Counted(r)' \subseteq Outstanding(r) BY <1>13, <2>0 DEF Located
    <3>4. Counted(r)' \cap Q(r) = {} BY <1>13, <2>0 DEF Located
    <3>5. \A n \in InList(list) : n \notin Q(r)
      <4> TAKE n \in InList(list)
      <4>1. CASE joined[r] BY <2>3, <4>1
      <4>2. CASE ~joined[r] BY <1>7, <1>14, <2>0, <2>2, <4>2 DEF Located
      <4> QED BY <4>1, <4>2
    <3>6. \A n \in InList(list) : n \notin Counted(r)'
      <4> TAKE n \in InList(list)
      <4>1. CASE n \in InList(cachedHits)
        <5>1. n \notin M(r) /\ n \notin Counted(r) BY <2>0, <4>1 DEF Located
        <5> QED BY <1>13, <5>1
      <4>2. CASE n \in ToSet(ready) BY <1>13, <4>2
      <4>3. CASE n = J
        <5>1. Counted(r)' \subseteq Names BY <1>13 DEF Counted
        <5> QED BY <4>3, <5>1, JoinIsNoName
      <4> QED BY <1>7, <4>1, <4>2, <4>3
    <3>7. IsInjective(queue[r])' /\ IsInjective(msgs[r])'
      <4>1. IsInjective(msgs[r])' BY <1>12, NoElements
      <4>2. IsInjective(queue[r])' BY <1>2, <2>0 DEF Located
      <4> QED BY <4>1, <4>2
    <3>8. Q(r) \subseteq Outstanding(r) BY <2>0 DEF Located
    <3> QED BY <1>2, <1>12, <2>1, <3>1, <3>2, <3>3, <3>4, <3>5, <3>6, <3>7, <3>8 DEF Located
  <2>5. JoinsOK(r)' BY <1>2, <1>12, <2>0 DEF JoinsOK
  <2> QED BY <2>4, <2>5
<1>20. JoinCount'
  <2>1. \A r \in Rank : HasJoin(r)' <=> Active = {}
    <3> TAKE r \in Rank
    <3>1. DOMAIN <<JoinResponse>> = {1} /\ <<JoinResponse>>[1] = JoinResponse OBVIOUS
    <3> QED BY <1>7, <1>12, <3>1 DEF HasJoin, JoinResponse
  <2>2. CountedJoins' = IF Active = {} THEN {} ELSE Rank \ Active
    BY <1>2, <1>12, <2>1 DEF CountedJoins, Active
  <2>3. Size \in Nat \ {0} BY SizeAssumption
  <2>4. CASE Active = {}
    <3>1. joinedSize' = 0 BY <1>2, <1>10, <2>4
    <3>2. CountedJoins' = {} BY <2>2, <2>4
    <3>3. Cardinality({}) = 0 BY FS_EmptySet
    <3> QED BY <2>3, <3>1, <3>2, <3>3 DEF JoinCount
  <2>5. CASE Active # {}
    <3>1. joinedSize' = Joins BY <1>2, <1>10, <2>5
    <3>2. IsFiniteSet(Rank) /\ Cardinality(Rank) = Size BY RankSize
    <3>3. Cardinality(Rank \ Active) = Cardinality(Rank) - Cardinality(Rank \cap Active)
      BY <1>10, <3>2, FS_Difference
    <3>4. Rank \cap Active = Active BY DEF Active
    <3>5. Cardinality(Rank \ Active) = Joins BY <1>10, <3>2, <3>3, <3>4
    <3>6. CountedJoins' = Rank \ Active BY <2>2, <2>5
    <3>7. Joins < Size BY <1>10, <2>3, <2>5
    <3> QED BY <3>1, <3>5, <3>6, <3>7 DEF JoinCount
  <2> QED BY <2>4, <2>5
<1>21. \A r \in Rank : SyncHolds(r)' BY <1>12 DEF SyncHolds
<1>22. Uncached'
  <2>1. ASSUME NEW n \in Names, NEW r \in Rank, messageTable'[n] # {}
        PROVE  n \notin CachedNames(cache'[r])
    <3>1. n \notin ToSet(ready) /\ messageTable'[n] = Requesters(n) BY <1>9, <2>1
    <3>2. PICK p \in Rank : n \in M(p) \/ n \in Counted(p)
      <4>1. PICK p : p \in Requesters(n) BY <2>1, <3>1
      <4>2. p \in Rank BY <1>10, <4>1 DEF Active
      <4> QED BY <1>10, <4>1, <4>2 DEF Counted
    <3>3. n \notin CachedNames(cache[p])
      BY <1>1, <3>2 DEF Uncached, Counted
    <3>4. n \notin CachedNames(cache[r]) BY <1>12, <3>3
    <3>5. n \notin InList(cachedHits) BY <1>12, <3>2 DEF Located
    <3>6. n \notin InList(list) BY <1>7, <3>1, <3>5, JoinIsNoName
    <3> QED BY <1>12, <3>4, <3>6
  <2> QED BY <1>12, <2>1 DEF Uncached
<1>23. HitsStand'
  <2>1. DOMAIN cachedHits' = {}
    <3>1. DOMAIN <<>> = {} OBVIOUS
    <3> QED BY <1>2, <3>1
  <2> QED BY <2>1 DEF HitsStand
<1>24. \A r \in Rank : Waits(r)' BY <1>1, <1>2, <1>12 DEF Waits
<1>25. CacheConsistent' BY <1>12 DEF CacheConsistent
<1>26. Aligned'
  <2>1. SameEnd(list, list)
    <3>1. Len(list) \in Nat /\ DOMAIN list = 1 .. Len(list) BY <1>7
    <3>2. \A i \in DOMAIN list : Len(list) - Len(list) + i = i BY <3>1
    <3> QED BY <3>2 DEF SameEnd
  <2> QED BY <1>12, <2>1 DEF Aligned
<1>27. FaultOK' BY <1>15 DEF FaultOK
<1>28. Inv'
  BY <1>16, <1>17, <1>18, <1>19, <1>20, <1>21, <1>22, <1>23, <1>24, <1>25, <1>26, <1>27 DEF Inv
<1> QED BY <1>15, <1>28

-----------------------------------------------------------------------------
(* Every behaviour.                                                        *)

\* The job starts with nothing submitted.
LEMMA InitInv == Init => Inv
<1> SUFFICES ASSUME Init PROVE Inv
  OBVIOUS
<1>1. /\ DOMAIN <<>> = {} /\ <<>> \in Seq(Names \cup {J}) /\ <<>> \in Seq(Response)
      /\ <<>> \in Seq(Entries) /\ Len(<<>>) = 0
  OBVIOUS
<1>2. /\ table = [r \in Rank |-> EmptyTable] /\ DOMAIN EmptyTable = {}
      /\ queue = [r \in Rank |-> <<>>] /\ shutDown = [r \in Rank |-> FALSE]
      /\ left = [r \in Rank |-> MaxSubmit] /\ phase = [r \in Rank |-> "perform"]
      /\ msgs = [r \in Rank |-> <<>>] /\ coord = [r \in Rank |-> NoCoord]
      /\ cache = [r \in Rank |-> <<>>] /\ stalled = [r \in Rank |-> {}]
      /\ joined = [r \in Rank |-> FALSE] /\ todo = [r \in Rank |-> <<>>]
      /\ stop = [r \in Rank |-> FALSE] /\ cachedHits = <<>>
      /\ messageTable = [n \in Names |-> {}] /\ joinedSize = 0 /\ fault = "none"
  BY DEF Init, EmptyTable
<1>3. \A r \in Rank :
         /\ Outstanding(r) = {} /\ Q(r) = {} /\ M(r) = {} /\ Counted(r) = {}
         /\ InList(todo[r]) = {} /\ InList(cachedHits) = {}
  BY <1>1, <1>2, NoElements DEF Outstanding, Q, M, Counted, InList
<1>4. Typed
  <2>1. table \in [Rank -> Tables]
    <3>1. EmptyTable \in [{} -> Requests \cup {JoinRequest}] BY DEF EmptyTable
    <3>2. EmptyTable \in Tables BY <3>1 DEF Tables
    <3> HIDE DEF Tables
    <3> QED BY <1>2, <3>2
  <2>2. coord \in [Rank -> [hits : SUBSET Nat, invalid : SUBSET Nat,
                            uncached : BOOLEAN, shut : BOOLEAN]]
    BY <1>2 DEF NoCoord
  <2>3. left \in [Rank -> 0 .. MaxSubmit] BY <1>2, MaxSubmitAssumption
  <2>4. cache \in [Rank -> Seq(Entries)] BY <1>1, <1>2
  <2>5. phase \in [Rank -> Phases] BY <1>2 DEF Phases
  <2> QED BY <1>1, <1>2, <2>1, <2>2, <2>3, <2>4, <2>5 DEF Typed
<1>5. ASSUME NEW r \in Rank PROVE TableOK(r) /\ GoodCache(cache[r]) /\ TodoOK(r)
  <2>1. TableOK(r) BY <1>3, FS_EmptySet DEF TableOK
  <2>2. GoodCache(cache[r])
    <3>1. cache[r] = <<>> BY <1>2
    <3> QED BY <1>1, <3>1, CapacityAssumption DEF GoodCache
  <2>3. TodoOK(r) BY <1>1, <1>2 DEF TodoOK
  <2> QED BY <2>1, <2>2, <2>3
<1>6. PhasesOK BY <1>2 DEF PhasesOK
<1>7. ASSUME NEW r \in Rank PROVE Located(r) /\ JoinsOK(r)
  <2>1. IsInjective(queue[r]) /\ IsInjective(msgs[r]) BY <1>2, NoElements
  <2>2. Once(todo[r]) /\ Once(cachedHits) BY <1>1, <1>2 DEF Once
  <2>3. Located(r) BY <1>3, <2>1, <2>2 DEF Located
  <2>4. JoinsOK(r) BY <1>2, <1>3 DEF JoinsOK
  <2> QED BY <2>3, <2>4
<1>8. JoinCount
  <2>1. CountedJoins = {} BY <1>2 DEF CountedJoins
  <2>2. Cardinality({}) = 0 BY FS_EmptySet
  <2> QED BY <1>2, <2>1, <2>2, SizeAssumption DEF JoinCount
<1>9. \A r \in Rank : SyncHolds(r) BY <1>2 DEF SyncHolds
<1>10. Uncached BY <1>2 DEF Uncached
<1>11. HitsStand BY <1>1, <1>2 DEF HitsStand
<1>12. \A r \in Rank : Waits(r) BY <1>2 DEF Waits
<1>13. CacheConsistent BY <1>2 DEF CacheConsistent
<1>14. Aligned BY <1>1, <1>2 DEF Aligned, SameEnd
<1>15. FaultOK BY <1>2 DEF FaultOK
<1> QED BY <1>4, <1>5, <1>6, <1>7, <1>8, <1>9, <1>10, <1>11, <1>12, <1>13, <1>14, <1>15 DEF Inv

\* The invariant does not depend on anything but the variables.
LEMMA StutterKeeps ==
    ASSUME Inv, UNCHANGED vars
    PROVE  Inv'
<1>1. UNCHANGED <<table, queue, shutDown, left, phase, msgs, coord, cache, stalled,
                  joined, todo, stop, cachedHits, messageTable, joinedSize, fault>>
  BY DEF vars
<1>2. Typed' BY <1>1 DEF Inv, Typed
<1>3. \A p \in Rank : /\ TableOK(p)' = TableOK(p) /\ GoodCache(cache[p])' = GoodCache(cache[p])
                      /\ TodoOK(p)' = TodoOK(p) /\ SyncHolds(p)' = SyncHolds(p)
                      /\ Waits(p)' = Waits(p) /\ JoinsOK(p)' = JoinsOK(p)
                      /\ Outstanding(p)' = Outstanding(p) /\ Counted(p)' = Counted(p)
                      /\ M(p)' = M(p) /\ Q(p)' = Q(p)
  BY <1>1 DEF TableOK, GoodCache, TodoOK, SyncHolds, Waits, JoinsOK, Outstanding,
     Counted, M, Q, HitNames, InvalidNames, Bits
<1>4. \A p \in Rank : Located(p)' = Located(p)
  BY <1>1, <1>3 DEF Located
<1>5. PhasesOK' /\ HitsStand' /\ CacheConsistent' /\ Aligned' /\ FaultOK'
  BY <1>1 DEF Inv, PhasesOK, HitsStand, Stands, CacheConsistent, Aligned, FaultOK
<1>6. JoinCount' BY <1>1, <1>3 DEF Inv, JoinCount, CountedJoins, HasJoin, M
<1>7. Uncached' BY <1>1, <1>3 DEF Inv, Uncached, M
<1> QED BY <1>1, <1>2, <1>3, <1>4, <1>5, <1>6, <1>7 DEF Inv

\* A fault is what it was, or the consequence of an early join.
Excused == fault' # fault => fault' \in {"devices", "fuse"} /\ EarlyJoin

\* No step breaks the invariant, and only early joins break a thread.
LEMMA NextInv ==
    ASSUME Inv, [Next]_vars
    PROVE  Inv' /\ Excused
<1>1. ASSUME NEW r \in Rank, NEW q \in Requests, Enqueue(r, q) PROVE Inv' /\ Excused
  <2>1. /\ Add(r, q) /\ left[r] > 0 /\ q.name \notin Outstanding(r) /\ J \notin Outstanding(r)
    BY <1>1 DEF Enqueue, Joining, J
  <2>2. q # JoinRequest BY RequestsAssumption DEF JoinRequest
  <2>3. fault' = fault BY <2>1 DEF Add
  <2> QED BY <2>1, <2>2, <2>3, AddKeeps DEF Excused
<1>2. ASSUME NEW r \in Rank, EnqueueJoin(r) PROVE Inv' /\ Excused
  <2>1. /\ Add(r, JoinRequest) /\ left[r] > 0 /\ Outstanding(r) = {} /\ r \in JoinRanks
    BY <1>2 DEF EnqueueJoin
  <2>2. fault' = fault BY <2>1 DEF Add
  <2> QED BY <2>1, <2>2, AddKeeps DEF Excused
<1>3. ASSUME NEW r \in Rank, HorovodShutdown(r) PROVE Inv' /\ Excused
  <2>1. fault' = fault BY <1>3 DEF HorovodShutdown
  <2> QED BY <1>3, <2>1, ShutdownKeeps DEF Excused
<1>4. ASSUME NEW r \in Rank, Pop(r) PROVE Inv' /\ Excused
  BY <1>4, PopKeeps DEF Excused
<1>5. ASSUME Sync PROVE Inv' /\ Excused
  <2>1. fault' = fault BY <1>5 DEF Sync
  <2> QED BY <1>5, <2>1, SyncKeeps DEF Excused
<1>6. ASSUME Coordinate PROVE Inv' /\ Excused
  BY <1>6, CoordinateKeeps DEF Excused
<1>7. ASSUME CoordinatorDies PROVE Inv' /\ Excused
  BY <1>7, CoordinatorDiesKeeps DEF Excused
<1>8. ASSUME NEW r \in Rank, Perform(r) PROVE Inv' /\ Excused
  <2>1. fault' = fault BY <1>8, PerformCases
  <2> QED BY <1>8, <2>1, PerformKeeps DEF Excused
<1>9. ASSUME NEW r \in Rank, Stop(r) PROVE Inv' /\ Excused
  <2>1. fault' = fault BY <1>9 DEF Stop
  <2> QED BY <1>9, <2>1, StopKeeps DEF Excused
<1>10. ASSUME UNCHANGED vars PROVE Inv' /\ Excused
  <2>1. fault' = fault BY <1>10 DEF vars
  <2> QED BY <1>10, <2>1, StutterKeeps DEF Excused
<1> QED BY <1>1, <1>2, <1>3, <1>4, <1>5, <1>6, <1>7, <1>8, <1>9, <1>10 DEF Next, Terminated

\* The invariant holds in every behaviour.
LEMMA InvHolds == Spec => []Inv
<1>1. Inv /\ [Next]_vars => Inv' BY NextInv
<1> QED BY <1>1, InitInv, PTL DEF Spec

==============================================================================
