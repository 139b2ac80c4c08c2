--------------------------- MODULE EventQueuesProofs ---------------------------
(***************************************************************************)
(* No event is lost or doubled, each is delivered in its tick and in the   *)
(* documented order, for any number of events, through saves, failures,    *)
(* restores and loads of timers in any order.                              *)
(***************************************************************************)
EXTENDS EventQueues, CommonLemmas

Entries == [id : Nat, step : Nat, sequence : Nat]

InOrder(q) == \A i, j \in DOMAIN q : i < j => Before(q[i], q[j])

(* Any two of the entries have a different step or number. *)
Comparable(S) == \A d, e \in S : d = e \/ Before(d, e) \/ Before(e, d)

(* No two entries of a queue have the same id. *)
OnceEach(q) == \A i, j \in DOMAIN q : q[i].id = q[j].id => i = j

LEMMA BeforeIsOrder ==
  ASSUME NEW a \in Entries, NEW b \in Entries, NEW c \in Entries
  PROVE  /\ ~ Before(a, a)
         /\ Before(a, b) => ~ Before(b, a)
         /\ Before(a, b) /\ Before(b, c) => Before(a, c)
BY DEF Before, Entries

-------------------------------------------------------------------------------
(* Insertion *)

LEMMA InsertFacts ==
  ASSUME NEW q \in Seq(Entries), NEW e \in Entries
  PROVE  /\ Insert(q, e) \in Seq(Entries)
         /\ \E k \in 1 .. Len(q) + 1 :
              /\ Len(Insert(q, e)) = Len(q) + 1
              /\ \A i \in 1 .. Len(q) + 1 :
                   Insert(q, e)[i] = IF i < k THEN q[i] ELSE IF i = k THEN e ELSE q[i - 1]
              /\ \A i \in 1 .. k - 1 : ~ Before(e, q[i])
              /\ k <= Len(q) => Before(e, q[k])
<1> DEFINE n == Len(q)
           S == {i \in DOMAIN q : Before(e, q[i])}
           k == Min(S \cup {n + 1})
           t == SubSeq(q, 1, k - 1) \o <<e>> \o SubSeq(q, k, n)
<1>1. n \in Nat /\ DOMAIN q = 1 .. n /\ \A i \in 1 .. n : q[i] \in Entries
  BY LenProperties, ElementOfSeq
<1>2. S \in SUBSET (1 .. n)  BY <1>1
<1>3. k \in 1 .. n + 1 /\ (k <= n => k \in S) /\ \A i \in 1 .. k - 1 : i \notin S
  <2> HIDE DEF S, n
  <2> QED  BY <1>1, <1>2, FirstIndex
<1>4. Insert(q, e) = t  BY DEF Insert, InsertAt, First
<1>5. \A i \in 1 .. k - 1 : ~ Before(e, q[i])  BY <1>1, <1>3
<1>6. k <= n => Before(e, q[k])  BY <1>3
<1> HIDE DEF k, S
<1> DEFINE a == SubSeq(q, 1, k - 1)
           b == SubSeq(q, k, n)
<1>7. a \in Seq(Entries) /\ Len(a) = k - 1 /\ \A i \in 1 .. k - 1 : a[i] = q[i]
  <2>1. \A i \in 1 .. k - 1 : q[i] \in Entries  BY <1>1, <1>3
  <2> QED  BY <1>1, <1>3, <2>1, SubSeqProperties
<1>8. b \in Seq(Entries) /\ Len(b) = n - k + 1 /\ \A i \in 1 .. n - k + 1 : b[i] = q[k + i - 1]
  <2>1. \A i \in k .. n : q[i] \in Entries  BY <1>1, <1>3
  <2> QED  BY <1>1, <1>3, <2>1, SubSeqProperties
<1> HIDE DEF a, b, n
<1>9. a \o <<e>> \in Seq(Entries) /\ Len(a \o <<e>>) = k
      /\ \A i \in 1 .. k : (a \o <<e>>)[i] = IF i < k THEN a[i] ELSE e
  <2>1. <<e>> \in Seq(Entries) /\ Len(<<e>>) = 1 /\ <<e>>[1] = e  OBVIOUS
  <2> QED  BY <1>3, <1>1, <1>7, <2>1, ConcatProperties
<1>10. t \in Seq(Entries) /\ Len(t) = n + 1
       /\ \A i \in 1 .. n + 1 : t[i] = IF i <= k THEN (a \o <<e>>)[i] ELSE b[i - k]
  <2> DEFINE c == a \o <<e>>
  <2>1. t = c \o b  BY DEF a, b, n
  <2>2. c \in Seq(Entries) /\ Len(c) = k  BY <1>9
  <2> HIDE DEF t, c
  <2>3. Len(c) + Len(b) = n + 1  BY <1>1, <1>3, <1>8, <2>2
  <2>4. t \in Seq(Entries) /\ Len(t) = n + 1
        /\ \A i \in 1 .. n + 1 : t[i] = IF i <= k THEN c[i] ELSE b[i - k]
    <3>1. t \in Seq(Entries) /\ Len(t) = Len(c) + Len(b)
          /\ \A i \in 1 .. Len(c) + Len(b) : t[i] = IF i <= Len(c) THEN c[i] ELSE b[i - Len(c)]
      BY <1>8, <2>1, <2>2, ConcatProperties
    <3> QED  BY <2>2, <2>3, <3>1
  <2> QED  BY <2>4 DEF c
<1>11. \A i \in 1 .. n + 1 : t[i] = IF i < k THEN q[i] ELSE IF i = k THEN e ELSE q[i - 1]
  <2> SUFFICES ASSUME NEW i \in 1 .. n + 1
               PROVE  t[i] = IF i < k THEN q[i] ELSE IF i = k THEN e ELSE q[i - 1]
    OBVIOUS
  <2> HIDE DEF t
  <2>1. CASE i < k
    <3>1. i \in 1 .. k - 1 /\ i \in 1 .. k  BY <1>1, <1>3, <2>1
    <3> QED  BY <1>7, <1>9, <1>10, <2>1, <3>1
  <2>2. CASE i = k
    <3>1. k \in 1 .. k  BY <1>1, <1>3
    <3> QED  BY <1>1, <1>3, <1>9, <1>10, <2>2, <3>1
  <2>3. CASE i > k
    <3>1. i - k \in 1 .. n - k + 1 /\ k + (i - k) - 1 = i - 1
          /\ ~ (i <= k) /\ ~ (i < k) /\ i # k
      BY <1>1, <1>3, <2>3
    <3>2. t[i] = b[i - k]  BY <1>10, <3>1
    <3>3. b[i - k] = q[k + (i - k) - 1]  BY <1>8, <3>1
    <3> QED  BY <3>1, <3>2, <3>3
  <2> QED  BY <1>1, <1>3, <2>1, <2>2, <2>3
<1> HIDE DEF t
<1> QED  BY <1>3, <1>4, <1>5, <1>6, <1>10, <1>11 DEF n

(* Insertion into entries in order keeps them in order. *)
LEMMA InsertKeepsOrder ==
  ASSUME NEW q \in Seq(Entries), NEW e \in Entries, InOrder(q),
         \A d \in ToSet(q) : Before(d, e) \/ Before(e, d)
  PROVE  /\ InOrder(Insert(q, e))
         /\ ToSet(Insert(q, e)) = ToSet(q) \cup {e}
<1> DEFINE n == Len(q)
           t == Insert(q, e)
<1>1. n \in Nat /\ DOMAIN q = 1 .. n /\ \A i \in 1 .. n : q[i] \in Entries /\ q[i] \in ToSet(q)
  BY LenProperties, ElementOfSeq DEF ToSet
<1>2. t \in Seq(Entries)  BY InsertFacts
<1>3. PICK k \in 1 .. n + 1 :
        /\ Len(t) = n + 1
        /\ \A i \in 1 .. n + 1 : t[i] = IF i < k THEN q[i] ELSE IF i = k THEN e ELSE q[i - 1]
        /\ \A i \in 1 .. k - 1 : ~ Before(e, q[i])
        /\ k <= n => Before(e, q[k])
  BY InsertFacts
<1> HIDE DEF t, n
<1>4. DOMAIN t = 1 .. n + 1  BY <1>2, <1>3, LenProperties
<1>5. \A i \in 1 .. n : i < k => Before(q[i], e)  BY <1>1, <1>3
<1>6. \A i \in 1 .. n : i >= k => Before(e, q[i])
  <2> SUFFICES ASSUME NEW i \in 1 .. n, i >= k PROVE Before(e, q[i])  OBVIOUS
  <2>1. k \in 1 .. n /\ Before(e, q[k])  BY <1>1, <1>3
  <2>2. i = k \/ Before(q[k], q[i])  BY <1>1, <2>1 DEF InOrder
  <2>3. q[k] \in Entries /\ q[i] \in Entries  BY <1>1, <2>1
  <2> QED  BY <2>1, <2>2, <2>3, BeforeIsOrder
<1>7. InOrder(t)
  <2> SUFFICES ASSUME NEW i \in 1 .. n + 1, NEW j \in 1 .. n + 1, i < j
               PROVE  Before(t[i], t[j])
    BY <1>4 DEF InOrder
  <2>1. CASE j < k
    <3>1. t[i] = q[i] /\ t[j] = q[j] /\ i \in 1 .. n /\ j \in 1 .. n  BY <1>1, <1>3, <2>1
    <3> QED  BY <1>1, <3>1 DEF InOrder
  <2>2. CASE j = k
    <3>1. t[i] = q[i] /\ t[j] = e /\ i \in 1 .. n /\ i < k  BY <1>1, <1>3, <2>2
    <3> QED  BY <1>5, <3>1
  <2>3. CASE j > k /\ i < k
    <3>1. t[i] = q[i] /\ t[j] = q[j - 1] /\ i \in 1 .. n /\ j - 1 \in 1 .. n /\ i < j - 1
      BY <1>1, <1>3, <2>3
    <3> QED  BY <1>1, <3>1 DEF InOrder
  <2>4. CASE j > k /\ i = k
    <3>1. t[i] = e /\ t[j] = q[j - 1] /\ j - 1 \in 1 .. n /\ j - 1 >= k  BY <1>1, <1>3, <2>4
    <3> QED  BY <1>6, <3>1
  <2>5. CASE j > k /\ i > k
    <3>1. t[i] = q[i - 1] /\ t[j] = q[j - 1] /\ i - 1 \in 1 .. n /\ j - 1 \in 1 .. n
          /\ i - 1 < j - 1
      BY <1>1, <1>3, <2>5
    <3> QED  BY <1>1, <3>1 DEF InOrder
  <2> QED  BY <1>1, <1>3, <2>1, <2>2, <2>3, <2>4, <2>5
<1>8. ToSet(t) \subseteq ToSet(q) \cup {e}
  <2> SUFFICES ASSUME NEW i \in 1 .. n + 1 PROVE t[i] \in ToSet(q) \cup {e}
    BY <1>4 DEF ToSet
  <2>1. CASE i < k
    <3>1. i \in 1 .. n /\ t[i] = q[i]  BY <1>1, <1>3, <2>1
    <3> QED  BY <1>1, <3>1
  <2>2. CASE i = k  BY <1>3, <2>2
  <2>3. CASE i > k
    <3>1. i - 1 \in 1 .. n /\ t[i] = q[i - 1]  BY <1>1, <1>3, <2>3
    <3> QED  BY <1>1, <3>1
  <2> QED  BY <1>1, <1>3, <2>1, <2>2, <2>3
<1>9. ToSet(q) \subseteq ToSet(t)
  <2> SUFFICES ASSUME NEW i \in 1 .. n PROVE q[i] \in ToSet(t)
    BY <1>1 DEF ToSet
  <2>1. CASE i < k
    <3>1. i \in 1 .. n + 1 /\ t[i] = q[i]  BY <1>1, <1>3, <2>1
    <3> QED  BY <1>4, <3>1 DEF ToSet
  <2>2. CASE i >= k
    <3>1. i + 1 \in 1 .. n + 1 /\ t[i + 1] = q[i]
      <4>1. i + 1 \in 1 .. n + 1 /\ ~ (i + 1 < k) /\ i + 1 # k /\ (i + 1) - 1 = i
        BY <1>1, <1>3, <2>2
      <4> QED  BY <1>3, <4>1
    <3> QED  BY <1>4, <3>1 DEF ToSet
  <2> QED  BY <1>1, <1>3, <2>1, <2>2
<1>10. e \in ToSet(t)
  <2>1. k \in 1 .. n + 1 /\ t[k] = e  BY <1>3, <1>1
  <2> QED  BY <1>4, <2>1 DEF ToSet
<1> QED  BY <1>7, <1>8, <1>9, <1>10 DEF t

LEMMA InsertFold ==
  ASSUME NEW base \in Seq(Entries), NEW q \in Seq(Entries)
  PROVE  \E g \in [0 .. Len(q) -> Seq(Entries)] :
           /\ g[0] = base
           /\ \A k \in 1 .. Len(q) : g[k] = Insert(g[k - 1], q[k])
           /\ g[Len(q)] = FoldLeft(Insert, base, q)
<1> DEFINE V == Seq(Entries)
           n == Len(q)
           F == [p \in V \X (1 .. n) |-> Insert(p[1], q[p[2]])]
           Solves(it) == it = [s \in SUBSET (1 .. n) |->
                                 IF s = {} THEN base ELSE Insert(it[s \ {Max(s)}], q[Max(s)])]
<1>1. n \in Nat /\ DOMAIN q = 1 .. n /\ \A i \in 1 .. n : q[i] \in Entries
  BY LenProperties, ElementOfSeq
<1> HIDE DEF n
<1>2. /\ F \in [V \X (1 .. n) -> V]
      /\ \A v \in V, k \in 1 .. n : F[<<v, k>>] = Insert(v, q[k])
  BY <1>1, InsertFacts
<1> HIDE DEF F
<1>3. PICK f \in [SUBSET (1 .. n) -> V] : FoldsWith(f, base, F, V, n)
  BY <1>1, <1>2, FoldRecursion
<1>4. Solves(f)
  <2> SUFFICES ASSUME NEW s \in SUBSET (1 .. n), s # {}
               PROVE  f[s] = Insert(f[s \ {Max(s)}], q[Max(s)])
    BY <1>3 DEF FoldsWith
  <2>1. Max(s) \in 1 .. n  BY <1>1, MaxIsThere
  <2>2. f[s \ {Max(s)}] \in V  OBVIOUS
  <2> QED  BY <1>2, <1>3, <2>1, <2>2 DEF FoldsWith
<1> DEFINE it == CHOOSE h : Solves(h)
<1>5. Solves(it)
  <2> HIDE DEF Solves
  <2> QED  BY <1>4
<1>6. FoldLeft(Insert, base, q) = it[1 .. n]  BY <1>1 DEF FoldLeft, MapThenFoldSet
<1> HIDE DEF it
<1>7. FoldsWith(it, base, F, V, n)
  <2>1. it[{}] = base  BY <1>5
  <2>2. ASSUME NEW s \in SUBSET (1 .. n), s # {}, it[s \ {Max(s)}] \in V
        PROVE  it[s] = F[<<it[s \ {Max(s)}], Max(s)>>]
    <3>1. Max(s) \in 1 .. n  BY <1>1, <2>2, MaxIsThere
    <3>2. it[s] = Insert(it[s \ {Max(s)}], q[Max(s)])  BY <1>5, <2>2
    <3> HIDE DEF V, Solves
    <3> QED  BY <1>2, <2>2, <3>1, <3>2
  <2> QED  BY <2>1, <2>2 DEF FoldsWith
<1>8. PICK g : FoldSteps(g, it, base, F, V, n)
  <2> HIDE DEF V
  <2>1. base \in V  BY DEF V
  <2> QED  BY <1>1, <1>2, <1>7, <2>1, FoldValues
<1>9. \A k \in 1 .. n : g[k] = Insert(g[k - 1], q[k])
  <2> SUFFICES ASSUME NEW k \in 1 .. n PROVE g[k] = Insert(g[k - 1], q[k])  OBVIOUS
  <2>1. g[k - 1] \in V
    <3>1. k - 1 \in 0 .. n  BY <1>1
    <3> HIDE DEF V
    <3> QED  BY <1>8, <3>1 DEF FoldSteps
  <2> QED  BY <1>2, <1>8, <2>1 DEF FoldSteps
<1> QED  BY <1>6, <1>8, <1>9 DEF n, FoldSteps

(* Entries inserted one after the other, each comparable with the others.  *)
LEMMA InsertAllFacts ==
  ASSUME NEW base \in Seq(Entries), NEW q \in Seq(Entries), InOrder(base),
         \A i, j \in DOMAIN q : i # j => Before(q[i], q[j]) \/ Before(q[j], q[i]),
         \A d \in ToSet(base), i \in DOMAIN q : Before(d, q[i]) \/ Before(q[i], d)
  PROVE  LET r == FoldLeft(Insert, base, q)
         IN  r \in Seq(Entries) /\ InOrder(r) /\ ToSet(r) = ToSet(base) \cup ToSet(q)
<1> DEFINE n == Len(q)
           some(k) == {q[i] : i \in 1 .. k}
<1>1. n \in Nat /\ DOMAIN q = 1 .. n /\ \A i \in 1 .. n : q[i] \in Entries
  BY LenProperties, ElementOfSeq
<1>2. PICK g \in [0 .. n -> Seq(Entries)] :
        /\ g[0] = base
        /\ \A k \in 1 .. n : g[k] = Insert(g[k - 1], q[k])
        /\ g[n] = FoldLeft(Insert, base, q)
  BY InsertFold
<1> HIDE DEF n
<1> DEFINE T == {k \in Nat : k <= n => InOrder(g[k]) /\ ToSet(g[k]) = ToSet(base) \cup some(k)}
<1>3. 0 \in T
  <2>1. some(0) = {}  OBVIOUS
  <2> QED  BY <1>2, <2>1
<1>4. ASSUME NEW k \in Nat, k \in T PROVE k + 1 \in T
  <2> SUFFICES ASSUME k + 1 <= n
               PROVE  InOrder(g[k + 1]) /\ ToSet(g[k + 1]) = ToSet(base) \cup some(k + 1)
    OBVIOUS
  <2>1. /\ k \in 0 .. n /\ k + 1 \in 1 .. n /\ (k + 1) - 1 = k /\ g[k] \in Seq(Entries)
        /\ q[k + 1] \in Entries
    BY <1>1, <1>2
  <2>2. InOrder(g[k]) /\ ToSet(g[k]) = ToSet(base) \cup some(k)  BY <1>4, <2>1
  <2>3. some(k + 1) = some(k) \cup {q[k + 1]}
    <3>1. 1 .. k + 1 = (1 .. k) \cup {k + 1}  OBVIOUS
    <3> QED  BY <3>1
  <2>4. \A d \in ToSet(g[k]) : Before(d, q[k + 1]) \/ Before(q[k + 1], d)
    <3> SUFFICES ASSUME NEW i \in 1 .. k PROVE Before(q[i], q[k + 1]) \/ Before(q[k + 1], q[i])
      BY <1>1, <2>1, <2>2
    <3>1. i \in DOMAIN q /\ k + 1 \in DOMAIN q /\ i # k + 1  BY <1>1, <2>1
    <3> QED  BY <3>1
  <2>5. g[k + 1] = Insert(g[k], q[k + 1])
    <3>1. g[k + 1] = Insert(g[(k + 1) - 1], q[k + 1])  BY <1>2, <2>1
    <3> QED  BY <2>1, <3>1
  <2>6. InOrder(g[k + 1]) /\ ToSet(g[k + 1]) = ToSet(g[k]) \cup {q[k + 1]}
    BY <2>1, <2>2, <2>4, <2>5, InsertKeepsOrder
  <2> HIDE DEF some
  <2> QED  BY <2>2, <2>3, <2>6
<1>5. \A k \in Nat : k \in T
  <2> HIDE DEF T
  <2> QED  BY <1>3, <1>4, Induction
<1>6. InOrder(g[n]) /\ ToSet(g[n]) = ToSet(base) \cup some(n)
  <2> HIDE DEF some
  <2>1. n \in T /\ n <= n  BY <1>1, <1>5
  <2> QED  BY <2>1
<1>7. some(n) = ToSet(q)  BY <1>1 DEF ToSet
<1>8. g[n] \in Seq(Entries)
  <2>1. n \in 0 .. n  BY <1>1
  <2> QED  BY <1>2, <2>1
<1> HIDE DEF some
<1> QED  BY <1>2, <1>6, <1>7, <1>8

LEMMA EmptyIsInOrder == <<>> \in Seq(Entries) /\ InOrder(<<>>) /\ ToSet(<<>>) = {}
BY DEF InOrder, ToSet

(* Sorting entries that are all comparable. *)
LEMMA SortedFacts ==
  ASSUME NEW q \in Seq(Entries),
         \A i, j \in DOMAIN q : i # j => Before(q[i], q[j]) \/ Before(q[j], q[i])
  PROVE  Sorted(q) \in Seq(Entries) /\ InOrder(Sorted(q)) /\ ToSet(Sorted(q)) = ToSet(q)
<1>1. LET r == FoldLeft(Insert, <<>>, q)
      IN  r \in Seq(Entries) /\ InOrder(r) /\ ToSet(r) = ToSet(<<>>) \cup ToSet(q)
  <2>1. \A d \in ToSet(<<>>), i \in DOMAIN q : Before(d, q[i]) \/ Before(q[i], d)
    BY EmptyIsInOrder
  <2> QED  BY <2>1, EmptyIsInOrder, InsertAllFacts
<1>2. FoldLeft(Insert, <<>>, q) = Sorted(q)  BY DEF Sorted
<1> QED  BY <1>1, <1>2, EmptyIsInOrder

(* A part of entries in order. *)
LEMMA SubSeqFacts ==
  ASSUME NEW q \in Seq(Entries), InOrder(q),
         NEW l \in 1 .. Len(q) + 1, NEW h \in 0 .. Len(q), l <= h + 1
  PROVE  LET r == SubSeq(q, l, h)
         IN  r \in Seq(Entries) /\ InOrder(r) /\ ToSet(r) = {q[i] : i \in l .. h}
<1> DEFINE r == SubSeq(q, l, h)
           n == Len(q)
<1>1. n \in Nat /\ DOMAIN q = 1 .. n /\ \A i \in 1 .. n : q[i] \in Entries
  BY LenProperties, ElementOfSeq
<1> HIDE DEF n
<1>2. /\ r \in Seq(Entries) /\ Len(r) = h - l + 1
      /\ \A i \in 1 .. h - l + 1 : r[i] = q[l + i - 1]
  <2>1. \A i \in l .. h : q[i] \in Entries  BY <1>1 DEF n
  <2>2. l \in Int /\ h \in Int /\ h - l + 1 = (IF l <= h THEN h - l + 1 ELSE 0)
    BY <1>1 DEF n
  <2> QED  BY <2>1, <2>2, SubSeqProperties
<1>3. DOMAIN r = 1 .. h - l + 1  BY <1>2, LenProperties
<1> HIDE DEF r
<1>4. InOrder(r)
  <2> SUFFICES ASSUME NEW i \in 1 .. h - l + 1, NEW j \in 1 .. h - l + 1, i < j
               PROVE  Before(r[i], r[j])
    BY <1>3 DEF InOrder
  <2>1. l + i - 1 \in DOMAIN q /\ l + j - 1 \in DOMAIN q /\ l + i - 1 < l + j - 1
    BY <1>1 DEF n
  <2> QED  BY <1>2, <2>1 DEF InOrder
<1>5. ToSet(r) \subseteq {q[i] : i \in l .. h}
  <2> SUFFICES ASSUME NEW i \in 1 .. h - l + 1 PROVE r[i] \in {q[m] : m \in l .. h}
    BY <1>3 DEF ToSet
  <2>1. l + i - 1 \in l .. h  BY <1>1 DEF n
  <2> QED  BY <1>2, <2>1
<1>6. {q[i] : i \in l .. h} \subseteq ToSet(r)
  <2> SUFFICES ASSUME NEW i \in l .. h PROVE q[i] \in ToSet(r)  OBVIOUS
  <2>1. i - l + 1 \in 1 .. h - l + 1 /\ l + (i - l + 1) - 1 = i  BY <1>1 DEF n
  <2>2. r[i - l + 1] = q[l + (i - l + 1) - 1]  BY <1>2, <2>1
  <2>3. r[i - l + 1] = q[i]  BY <2>1, <2>2
  <2> QED  BY <1>3, <2>1, <2>3 DEF ToSet
<1> QED  BY <1>2, <1>4, <1>5, <1>6 DEF r

(* What has come and what has not, of entries in order. *)
LEMMA SplitFacts ==
  ASSUME NEW q \in Seq(Entries), InOrder(q), NEW s \in Nat
  PROVE  /\ Due(q, s) \in Seq(Entries) /\ InOrder(Due(q, s))
         /\ ToSet(Due(q, s)) = {e \in ToSet(q) : e.step <= s}
         /\ Pending(q, s) \in Seq(Entries) /\ InOrder(Pending(q, s))
         /\ ToSet(Pending(q, s)) = {e \in ToSet(q) : e.step > s}
<1> DEFINE n == Len(q)
           S == {i \in DOMAIN q : q[i].step > s}
           k == Min(S \cup {n + 1})
<1>1. n \in Nat /\ DOMAIN q = 1 .. n /\ \A i \in 1 .. n : q[i] \in Entries
  BY LenProperties, ElementOfSeq
<1>2. S \in SUBSET (1 .. n)  BY <1>1
<1>3. k \in 1 .. n + 1 /\ (k <= n => k \in S) /\ \A i \in 1 .. k - 1 : i \notin S
  <2> HIDE DEF S, n
  <2> QED  BY <1>1, <1>2, FirstIndex
<1>4. Due(q, s) = SubSeq(q, 1, k - 1) /\ Pending(q, s) = SubSeq(q, k, n)
  BY DEF Due, Pending, First
<1> HIDE DEF k, n
<1>5. \A i \in 1 .. k - 1 : q[i].step <= s
  <2> SUFFICES ASSUME NEW i \in 1 .. k - 1 PROVE q[i].step <= s  OBVIOUS
  <2>1. i \in DOMAIN q /\ q[i] \in Entries /\ ~ (q[i].step > s)  BY <1>1, <1>3
  <2> QED  BY <2>1 DEF Entries
<1>6. \A i \in k .. n : q[i].step > s
  <2> SUFFICES ASSUME NEW i \in k .. n PROVE q[i].step > s  OBVIOUS
  <2>1. k \in DOMAIN q /\ i \in DOMAIN q /\ q[k].step > s  BY <1>1, <1>3
  <2>2. q[k] \in Entries /\ q[i] \in Entries  BY <1>1, <2>1
  <2>3. i = k \/ Before(q[k], q[i])  BY <1>1, <1>3, <2>1 DEF InOrder
  <2> QED  BY <2>1, <2>2, <2>3 DEF Before, Entries
<1> HIDE DEF S
<1>7. /\ Due(q, s) \in Seq(Entries) /\ InOrder(Due(q, s))
      /\ ToSet(Due(q, s)) = {q[i] : i \in 1 .. k - 1}
  <2>1. 1 \in 1 .. n + 1 /\ k - 1 \in 0 .. n /\ 1 <= (k - 1) + 1  BY <1>1, <1>3
  <2> QED  BY <1>4, <2>1, SubSeqFacts DEF n
<1>8. /\ Pending(q, s) \in Seq(Entries) /\ InOrder(Pending(q, s))
      /\ ToSet(Pending(q, s)) = {q[i] : i \in k .. n}
  <2>1. n \in 0 .. n /\ k <= n + 1  BY <1>1, <1>3
  <2> QED  BY <1>3, <1>4, <2>1, SubSeqFacts DEF n
<1>9. ToSet(q) = {q[i] : i \in 1 .. k - 1} \cup {q[i] : i \in k .. n}
  <2>1. 1 .. n = (1 .. k - 1) \cup (k .. n)  BY <1>1, <1>3
  <2> QED  BY <1>1, <2>1 DEF ToSet
<1>10. \A e \in Entries : ~ (e.step <= s /\ e.step > s)  BY DEF Entries
<1>11. ToSet(q) \subseteq Entries  BY <1>1 DEF ToSet
<1> QED  BY <1>5, <1>6, <1>7, <1>8, <1>9, <1>10, <1>11

LEMMA WithoutFacts ==
  ASSUME NEW q \in Seq(Entries), InOrder(q), NEW id
  PROVE  /\ Without(q, id) \in Seq(Entries) /\ InOrder(Without(q, id))
         /\ ToSet(Without(q, id)) \subseteq ToSet(q)
<1> DEFINE n == Len(q)
           I == {i \in 1 .. n : q[i].id = id}
<1>1. n \in Nat /\ DOMAIN q = 1 .. n /\ \A i \in 1 .. n : q[i] \in Entries
  BY LenProperties, ElementOfSeq
<1>2. CASE I = {}
  <2>1. Without(q, id) = q  BY <1>2 DEF Without, RemoveFirstMatch
  <2> QED  BY <2>1
<1>3. CASE I # {}
  <2> DEFINE k == Min(I)
  <2>1. k \in 1 .. n
    <3>1. I \subseteq Nat  BY <1>1
    <3>2. \E i \in I : \A m \in I : i <= m  BY <1>3, <3>1, Least
    <3> QED  BY <3>2 DEF Min
  <2>2. Without(q, id) = SubSeq(q, 1, k - 1) \o SubSeq(q, k + 1, n)
    BY <1>3 DEF Without, RemoveFirstMatch, RemoveAt, SelectInSeq
  <2> HIDE DEF k
  <2> DEFINE a == SubSeq(q, 1, k - 1)
             b == SubSeq(q, k + 1, n)
             t == Without(q, id)
  <2>3. a \in Seq(Entries) /\ Len(a) = k - 1 /\ \A i \in 1 .. k - 1 : a[i] = q[i]
    <3>1. \A i \in 1 .. k - 1 : q[i] \in Entries  BY <1>1, <2>1
    <3> QED  BY <1>1, <2>1, <3>1, SubSeqProperties
  <2>4. b \in Seq(Entries) /\ Len(b) = n - k /\ \A i \in 1 .. n - k : b[i] = q[k + i]
    <3>1. \A i \in k + 1 .. n : q[i] \in Entries  BY <1>1, <2>1
    <3> HIDE DEF n
    <3>2. b \in Seq(Entries) /\ Len(b) = (IF k + 1 <= n THEN n - (k + 1) + 1 ELSE 0)
          /\ \A i \in 1 .. n - (k + 1) + 1 : b[i] = q[k + 1 + i - 1]
      BY <1>1, <2>1, <3>1, SubSeqProperties
    <3> QED  BY <1>1, <2>1, <3>2
  <2>5. t = a \o b  BY <2>2
  <2> HIDE DEF a, b, n, t
  <2>6. t \in Seq(Entries) /\ Len(t) = n - 1
        /\ \A i \in 1 .. n - 1 : t[i] = IF i <= k - 1 THEN a[i] ELSE b[i - (k - 1)]
    <3>1. t \in Seq(Entries) /\ Len(t) = Len(a) + Len(b)
          /\ \A i \in 1 .. Len(a) + Len(b) : t[i] = IF i <= Len(a) THEN a[i] ELSE b[i - Len(a)]
      BY <2>3, <2>4, <2>5, ConcatProperties
    <3>2. Len(a) + Len(b) = n - 1  BY <1>1, <2>1, <2>3, <2>4
    <3> QED  BY <2>3, <3>1, <3>2
  <2>7. \A i \in 1 .. n - 1 : t[i] = IF i < k THEN q[i] ELSE q[i + 1]
    <3> SUFFICES ASSUME NEW i \in 1 .. n - 1 PROVE t[i] = IF i < k THEN q[i] ELSE q[i + 1]
      OBVIOUS
    <3>1. CASE i < k
      <4>1. i \in 1 .. k - 1 /\ i <= k - 1  BY <1>1, <2>1, <3>1
      <4> QED  BY <2>3, <2>6, <3>1, <4>1
    <3>2. CASE ~ (i < k)
      <4>1. i - (k - 1) \in 1 .. n - k /\ k + (i - (k - 1)) = i + 1 /\ ~ (i <= k - 1)
        BY <1>1, <2>1, <3>2
      <4>2. t[i] = b[i - (k - 1)]  BY <2>6, <4>1
      <4>3. b[i - (k - 1)] = q[k + (i - (k - 1))]  BY <2>4, <4>1
      <4> QED  BY <3>2, <4>1, <4>2, <4>3
    <3> QED  BY <3>1, <3>2
  <2>8. DOMAIN t = 1 .. n - 1  BY <2>6, LenProperties
  <2>9. InOrder(t)
    <3> SUFFICES ASSUME NEW i \in 1 .. n - 1, NEW j \in 1 .. n - 1, i < j
                 PROVE  Before(t[i], t[j])
      BY <2>8 DEF InOrder
    <3>1. i \in DOMAIN q /\ i + 1 \in DOMAIN q /\ j \in DOMAIN q /\ j + 1 \in DOMAIN q
          /\ i < j + 1 /\ i + 1 < j + 1 /\ (j < k => i < k)
      BY <1>1, <2>1
    <3> QED  BY <2>7, <3>1 DEF InOrder
  <2>10. ToSet(t) \subseteq ToSet(q)
    <3>1. \A i \in 1 .. n - 1 : i \in DOMAIN q /\ i + 1 \in DOMAIN q  BY <1>1
    <3> QED  BY <2>7, <2>8, <3>1 DEF ToSet
  <2> QED  BY <2>6, <2>9, <2>10 DEF t
<1> QED  BY <1>2, <1>3

(* Cancellations one after the other. *)
LEMMA WithoutFold ==
  ASSUME NEW base \in Seq(Entries), InOrder(base), NEW q \in Seq(Nat)
  PROVE  \E g \in [0 .. Len(q) -> {r \in Seq(Entries) : InOrder(r)}] :
           /\ g[0] = base
           /\ \A k \in 1 .. Len(q) : g[k] = Without(g[k - 1], q[k])
           /\ g[Len(q)] = FoldLeft(Without, base, q)
<1> DEFINE V == {r \in Seq(Entries) : InOrder(r)}
           n == Len(q)
           F == [p \in V \X (1 .. n) |-> Without(p[1], q[p[2]])]
           Solves(it) == it = [s \in SUBSET (1 .. n) |->
                                 IF s = {} THEN base ELSE Without(it[s \ {Max(s)}], q[Max(s)])]
<1>1. n \in Nat /\ DOMAIN q = 1 .. n /\ \A i \in 1 .. n : q[i] \in Nat
  BY LenProperties, ElementOfSeq
<1> HIDE DEF n
<1>2. /\ F \in [V \X (1 .. n) -> V]
      /\ \A v \in V, k \in 1 .. n : F[<<v, k>>] = Without(v, q[k])
  BY <1>1, WithoutFacts
<1> HIDE DEF F
<1>3. PICK f \in [SUBSET (1 .. n) -> V] : FoldsWith(f, base, F, V, n)
  BY <1>1, <1>2, FoldRecursion
<1>4. Solves(f)
  <2> SUFFICES ASSUME NEW s \in SUBSET (1 .. n), s # {}
               PROVE  f[s] = Without(f[s \ {Max(s)}], q[Max(s)])
    BY <1>3 DEF FoldsWith
  <2>1. Max(s) \in 1 .. n  BY <1>1, MaxIsThere
  <2>2. f[s \ {Max(s)}] \in V  OBVIOUS
  <2> QED  BY <1>2, <1>3, <2>1, <2>2 DEF FoldsWith
<1> DEFINE it == CHOOSE h : Solves(h)
<1>5. Solves(it)
  <2> HIDE DEF Solves
  <2> QED  BY <1>4
<1>6. FoldLeft(Without, base, q) = it[1 .. n]  BY <1>1 DEF FoldLeft, MapThenFoldSet
<1> HIDE DEF it
<1>7. FoldsWith(it, base, F, V, n)
  <2>1. it[{}] = base  BY <1>5
  <2>2. ASSUME NEW s \in SUBSET (1 .. n), s # {}, it[s \ {Max(s)}] \in V
        PROVE  it[s] = F[<<it[s \ {Max(s)}], Max(s)>>]
    <3>1. Max(s) \in 1 .. n  BY <1>1, <2>2, MaxIsThere
    <3>2. it[s] = Without(it[s \ {Max(s)}], q[Max(s)])  BY <1>5, <2>2
    <3> HIDE DEF V, Solves
    <3> QED  BY <1>2, <2>2, <3>1, <3>2
  <2> QED  BY <2>1, <2>2 DEF FoldsWith
<1>8. PICK g : FoldSteps(g, it, base, F, V, n)
  <2> HIDE DEF V
  <2>1. base \in V  BY DEF V
  <2> QED  BY <1>1, <1>2, <1>7, <2>1, FoldValues
<1>9. \A k \in 1 .. n : g[k] = Without(g[k - 1], q[k])
  <2> SUFFICES ASSUME NEW k \in 1 .. n PROVE g[k] = Without(g[k - 1], q[k])  OBVIOUS
  <2>1. g[k - 1] \in V
    <3>1. k - 1 \in 0 .. n  BY <1>1
    <3> HIDE DEF V
    <3> QED  BY <1>8, <3>1 DEF FoldSteps
  <2> QED  BY <1>2, <1>8, <2>1 DEF FoldSteps
<1> QED  BY <1>6, <1>8, <1>9 DEF n, FoldSteps

LEMMA WithoutAllFacts ==
  ASSUME NEW base \in Seq(Entries), InOrder(base), NEW q \in Seq(Nat)
  PROVE  LET r == FoldLeft(Without, base, q)
         IN  r \in Seq(Entries) /\ InOrder(r) /\ ToSet(r) \subseteq ToSet(base)
<1> DEFINE n == Len(q)
<1>1. n \in Nat  BY LenProperties
<1>2. PICK g \in [0 .. n -> {r \in Seq(Entries) : InOrder(r)}] :
        /\ g[0] = base
        /\ \A k \in 1 .. n : g[k] = Without(g[k - 1], q[k])
        /\ g[n] = FoldLeft(Without, base, q)
  BY WithoutFold
<1> HIDE DEF n
<1> DEFINE T == {k \in Nat : k <= n => ToSet(g[k]) \subseteq ToSet(base)}
<1>3. 0 \in T  BY <1>2
<1>4. ASSUME NEW k \in Nat, k \in T PROVE k + 1 \in T
  <2> SUFFICES ASSUME k + 1 <= n PROVE ToSet(g[k + 1]) \subseteq ToSet(base)
    OBVIOUS
  <2>1. k \in 0 .. n /\ k + 1 \in 1 .. n /\ (k + 1) - 1 = k  BY <1>1
  <2>2. g[k] \in Seq(Entries) /\ InOrder(g[k])  BY <1>2, <2>1
  <2>3. g[k + 1] = Without(g[k], q[k + 1])
    <3>1. g[k + 1] = Without(g[(k + 1) - 1], q[k + 1])  BY <1>2, <2>1
    <3> QED  BY <2>1, <3>1
  <2>4. ToSet(g[k + 1]) \subseteq ToSet(g[k])  BY <2>2, <2>3, WithoutFacts
  <2>5. ToSet(g[k]) \subseteq ToSet(base)  BY <1>4, <2>1
  <2> QED  BY <2>4, <2>5
<1>5. \A k \in Nat : k \in T
  <2> HIDE DEF T
  <2> QED  BY <1>3, <1>4, Induction
<1>6. ToSet(g[n]) \subseteq ToSet(base)
  <2>1. n \in T /\ n <= n  BY <1>1, <1>5
  <2> QED  BY <2>1
<1>7. g[n] \in Seq(Entries) /\ InOrder(g[n])
  <2>1. n \in 0 .. n  BY <1>1
  <2> QED  BY <1>2, <2>1
<1> QED  BY <1>2, <1>6, <1>7

-------------------------------------------------------------------------------
(* The invariant *)

MadeRecords == [timer : BOOLEAN, due : Steps, at : Steps]
Deliveries == [id : Nat, at : Nat]

(* FirstTick and ComesBefore for any history. *)
Trigger(m, id) == IF m[id].due > m[id].at THEN m[id].due ELSE m[id].at + 1

Precedes(m, a, b) ==
  \/ m[a].due < m[b].due
  \/ /\ m[a].due = m[b].due
     /\ \/ ~ m[a].timer /\ m[b].timer
        \/ m[a].timer = m[b].timer /\ a < b

IdsOf(S) == {e.id : e \in S}

(* The entries of a queue are as they were made, their tick is still to    *)
(* come, and their sequence numbers are in the order of their ids.         *)
Waits(S, m, timer, next, now) ==
  /\ \A e \in S : /\ e.id \in DOMAIN m
                  /\ m[e.id].timer = timer
                  /\ m[e.id].due = e.step
                  /\ e.sequence < next
                  /\ Trigger(m, e.id) > now
  /\ \A d, e \in S : d.id < e.id <=> d.sequence < e.sequence

(* What was delivered came in its tick, in order in each tick. *)
Delivers(d, m, now) ==
  /\ \A n \in DOMAIN d : d[n].id \in DOMAIN m /\ d[n].at = Trigger(m, d[n].id) /\ d[n].at <= now
  /\ \A i, j \in DOMAIN d : i < j => d[i].at <= d[j].at
  /\ \A i, j \in DOMAIN d : i < j /\ d[i].at = d[j].at => Precedes(m, d[i].id, d[j].id)

(* Four sets of ids are the parts of a whole. *)
Parts(whole, a, b, c, d) ==
  /\ whole = a \cup b \cup c \cup d
  /\ a \cap b = {} /\ a \cap c = {} /\ a \cap d = {}
  /\ b \cap c = {} /\ b \cap d = {} /\ c \cap d = {}

Shape(s) ==
  /\ s.step \in Steps /\ s.next_id \in 1 .. MaxEvent + 1
  /\ s.next_timer \in Nat /\ s.next_event \in Nat
  /\ s.delayed \in Seq(Entries) /\ s.queued \in Seq(Entries)
  /\ s.made \in Seq(MadeRecords) /\ Len(s.made) = s.next_id - 1
  /\ \A id \in DOMAIN s.made : s.made[id].at <= s.step
  /\ s.delivered \in Seq(Deliveries)

Sound(s) ==
  /\ Shape(s)
  /\ InOrder(s.delayed) /\ OnceEach(s.queued) /\ OnceEach(s.delivered)
  /\ Waits(ToSet(s.delayed), s.made, TRUE, s.next_timer, s.step)
  /\ Waits(ToSet(s.queued), s.made, FALSE, s.next_event, s.step)
  /\ Delivers(s.delivered, s.made, s.step)
  /\ Parts(1 .. s.next_id - 1, IdsOf(ToSet(s.delayed)), IdsOf(ToSet(s.queued)),
           IdsOf(ToSet(s.delivered)), s.removed)

IInv ==
  /\ failed \in BOOLEAN
  /\ Sound(State)
  /\ \A s \in saved : Sound(s)

-------------------------------------------------------------------------------
(* Queues and histories *)

Extends(m, m2) == \A id \in DOMAIN m : id \in DOMAIN m2 /\ m2[id] = m[id]

LEMMA TriggerType ==
  ASSUME NEW m \in Seq(MadeRecords), NEW id \in DOMAIN m
  PROVE  /\ m[id] \in MadeRecords /\ m[id].due \in Nat /\ m[id].at \in Nat
         /\ Trigger(m, id) \in Nat /\ Trigger(m, id) >= m[id].due /\ Trigger(m, id) > m[id].at
         /\ Trigger(m, id) = m[id].due \/ Trigger(m, id) = m[id].at + 1
<1>1. m[id] \in MadeRecords  BY ElementOfSeq
<1>2. m[id].due \in Nat /\ m[id].at \in Nat  BY <1>1 DEF MadeRecords, Steps
<1> QED  BY <1>1, <1>2 DEF Trigger

LEMMA TriggerIsKept ==
  ASSUME NEW m, NEW m2, Extends(m, m2), NEW id \in DOMAIN m
  PROVE  Trigger(m2, id) = Trigger(m, id)
BY DEF Extends, Trigger

(* Entries of a queue are told apart by id, by sequence and by order.      *)
LEMMA WaitsUnique ==
  ASSUME NEW S \in SUBSET Entries, NEW m, NEW timer, NEW next, NEW now,
         Waits(S, m, timer, next, now), NEW d \in S, NEW e \in S
  PROVE  /\ d.id = e.id \/ d.sequence = e.sequence => d = e
         /\ d = e \/ Before(d, e) \/ Before(e, d)
<1>1. d \in Entries /\ e \in Entries  OBVIOUS
<1>2. d.id \in Nat /\ e.id \in Nat /\ d.sequence \in Nat /\ e.sequence \in Nat
      /\ d.step \in Nat /\ e.step \in Nat
  BY <1>1 DEF Entries
<1>3. (d.id < e.id <=> d.sequence < e.sequence) /\ (e.id < d.id <=> e.sequence < d.sequence)
      /\ d.step = m[d.id].due /\ e.step = m[e.id].due
  BY DEF Waits
<1>4. d.id = e.id <=> d.sequence = e.sequence  BY <1>2, <1>3
<1>5. d.id = e.id /\ d.sequence = e.sequence /\ d.step = e.step => d = e
  BY <1>1 DEF Entries
<1>6. d.id = e.id => d = e  BY <1>3, <1>4, <1>5
<1> QED  BY <1>2, <1>4, <1>6 DEF Before

LEMMA OrderedOnce ==
  ASSUME NEW q \in Seq(Entries), InOrder(q),
         \A d, e \in ToSet(q) : d.id = e.id => d = e
  PROVE  OnceEach(q)
<1> SUFFICES ASSUME NEW i \in DOMAIN q, NEW j \in DOMAIN q, q[i].id = q[j].id, i # j
             PROVE  FALSE
  BY DEF OnceEach
<1>1. q[i] \in ToSet(q) /\ q[j] \in ToSet(q) /\ q[i] \in Entries
  BY ElementOfSeq DEF ToSet
<1>2. q[i] = q[j]  BY <1>1
<1>3. i < j \/ j < i
  <2>1. i \in Nat /\ j \in Nat  BY LenProperties
  <2> QED  BY <2>1
<1>4. Before(q[i], q[i])  BY <1>2, <1>3 DEF InOrder
<1> QED  BY <1>1, <1>4 DEF Before, Entries

(* A queue that loses entries, and gets those of events made since. *)
LEMMA WaitsMore ==
  ASSUME NEW S \in SUBSET Entries, NEW m \in Seq(MadeRecords), NEW timer \in BOOLEAN,
         NEW next \in Nat, NEW now \in Nat, Waits(S, m, timer, next, now),
         NEW m2, Extends(m, m2), NEW next2 \in Nat, next <= next2, NEW now2 \in Nat,
         NEW R \in SUBSET S, \A e \in R : Trigger(m, e.id) > now2,
         NEW T \in SUBSET Entries,
         \A e \in T : /\ e.id > Len(m) /\ e.id \in DOMAIN m2
                      /\ m2[e.id].timer = timer /\ m2[e.id].due = e.step
                      /\ next <= e.sequence /\ e.sequence < next2
                      /\ Trigger(m2, e.id) > now2,
         \A d, e \in T : d.id < e.id <=> d.sequence < e.sequence
  PROVE  Waits(R \cup T, m2, timer, next2, now2)
<1>1. DOMAIN m = 1 .. Len(m) /\ Len(m) \in Nat  BY LenProperties
<1>2. \A e \in R \cup T : e.id \in Nat /\ e.sequence \in Nat  BY DEF Entries
<1>3. \A e \in R : e.id <= Len(m) /\ e.sequence < next  BY <1>1 DEF Waits
<1>4. ASSUME NEW e \in R
      PROVE  /\ e.id \in DOMAIN m2 /\ m2[e.id].timer = timer /\ m2[e.id].due = e.step
             /\ e.sequence < next2 /\ Trigger(m2, e.id) > now2
  <2>1. e.id \in DOMAIN m /\ m[e.id].timer = timer /\ m[e.id].due = e.step
    BY DEF Waits
  <2>2. e.id \in DOMAIN m2 /\ m2[e.id] = m[e.id]  BY <2>1 DEF Extends
  <2>3. Trigger(m2, e.id) > now2  BY <2>1, TriggerIsKept
  <2>4. e.sequence < next2  BY <1>2, <1>3
  <2> QED  BY <2>1, <2>2, <2>3, <2>4
<1>5. ASSUME NEW d \in R \cup T, NEW e \in R \cup T
      PROVE  d.id < e.id <=> d.sequence < e.sequence
  <2>1. CASE d \in R /\ e \in R  BY <2>1 DEF Waits
  <2>2. CASE d \in T /\ e \in T  BY <2>2
  <2>3. CASE d \in R /\ e \in T  BY <1>1, <1>2, <1>3, <2>3
  <2>4. CASE d \in T /\ e \in R  BY <1>1, <1>2, <1>3, <2>4
  <2> QED  BY <2>1, <2>2, <2>3, <2>4
<1> QED  BY <1>4, <1>5 DEF Waits

(* A history that grows by what one tick, the next one, delivers.          *)
LEMMA DeliversMore ==
  ASSUME NEW d \in Seq(Deliveries), NEW m \in Seq(MadeRecords), NEW now \in Nat,
         Delivers(d, m, now), NEW m2 \in Seq(MadeRecords), Extends(m, m2),
         NEW h \in Seq(Deliveries),
         \A n \in DOMAIN h : /\ h[n].id \in DOMAIN m /\ h[n].at = now + 1
                             /\ Trigger(m, h[n].id) = now + 1,
         \A i, j \in DOMAIN h : i < j => Precedes(m, h[i].id, h[j].id)
  PROVE  Delivers(d \o h, m2, now + 1)
<1> DEFINE r == d \o h
<1>1. /\ Len(d) \in Nat /\ DOMAIN d = 1 .. Len(d) /\ Len(h) \in Nat /\ DOMAIN h = 1 .. Len(h)
      /\ \A n \in DOMAIN d : d[n] \in Deliveries
  BY LenProperties, ElementOfSeq
<1>2. /\ Len(r) = Len(d) + Len(h) /\ r \in Seq(Deliveries)
      /\ \A i \in 1 .. Len(d) + Len(h) : r[i] = IF i <= Len(d) THEN d[i] ELSE h[i - Len(d)]
  BY ConcatProperties
<1>3. DOMAIN r = 1 .. Len(d) + Len(h)  BY <1>2, LenProperties
<1> HIDE DEF r
<1>4. \A n \in DOMAIN r : \/ n \in DOMAIN d /\ r[n] = d[n]
                          \/ n - Len(d) \in DOMAIN h /\ r[n] = h[n - Len(d)] /\ n > Len(d)
  BY <1>1, <1>2, <1>3
<1>5. ASSUME NEW n \in DOMAIN d
      PROVE  d[n].id \in DOMAIN m /\ d[n].at = Trigger(m, d[n].id) /\ d[n].at <= now
             /\ d[n].at \in Nat
  BY <1>1 DEF Delivers, Deliveries
<1>6. ASSUME NEW n \in DOMAIN r
      PROVE  r[n].id \in DOMAIN m /\ r[n].at = Trigger(m, r[n].id) /\ r[n].at <= now + 1
  <2>1. CASE n \in DOMAIN d /\ r[n] = d[n]
    <3>1. d[n].at <= now + 1  BY <1>5, <2>1
    <3> QED  BY <1>5, <2>1, <3>1
  <2>2. CASE n - Len(d) \in DOMAIN h /\ r[n] = h[n - Len(d)]  BY <2>2
  <2> QED  BY <1>4, <2>1, <2>2
<1>7. ASSUME NEW n \in DOMAIN r
      PROVE  r[n].id \in DOMAIN m2 /\ r[n].at = Trigger(m2, r[n].id) /\ r[n].at <= now + 1
  BY <1>6, TriggerIsKept DEF Extends
<1>8. ASSUME NEW i \in DOMAIN r, NEW j \in DOMAIN r, i < j
      PROVE  r[i].at <= r[j].at /\ (r[i].at = r[j].at => Precedes(m, r[i].id, r[j].id))
  <2>1. i \in Nat /\ j \in Nat  BY <1>1, <1>3
  <2>2. CASE j \in DOMAIN d /\ r[j] = d[j]
    <3>1. i \in DOMAIN d /\ r[i] = d[i]  BY <1>1, <1>3, <1>4, <1>8, <2>1, <2>2
    <3> QED  BY <1>8, <2>2, <3>1 DEF Delivers
  <2>3. CASE j - Len(d) \in DOMAIN h /\ r[j] = h[j - Len(d)]
    <3>1. CASE i \in DOMAIN d /\ r[i] = d[i]  BY <1>5, <2>3, <3>1
    <3>2. CASE i - Len(d) \in DOMAIN h /\ r[i] = h[i - Len(d)]
      <4>1. i - Len(d) < j - Len(d)  BY <1>1, <1>8, <2>1
      <4>2. r[i].at = now + 1 /\ r[j].at = now + 1  BY <2>3, <3>2
      <4>3. Precedes(m, r[i].id, r[j].id)  BY <2>3, <3>2, <4>1
      <4> QED  BY <4>2, <4>3
    <3> QED  BY <1>4, <3>1, <3>2
  <2> QED  BY <1>4, <2>2, <2>3
<1>9. ASSUME NEW i \in DOMAIN r, NEW j \in DOMAIN r, Precedes(m, r[i].id, r[j].id)
      PROVE  Precedes(m2, r[i].id, r[j].id)
  BY <1>6, <1>9 DEF Extends, Precedes
<1> QED  BY <1>7, <1>8, <1>9 DEF Delivers, r

LEMMA OnceMore ==
  ASSUME NEW X, NEW a \in Seq(X), NEW b \in Seq(X), OnceEach(a), OnceEach(b),
         \A i \in DOMAIN a, j \in DOMAIN b : a[i].id # b[j].id
  PROVE  OnceEach(a \o b) /\ ToSet(a \o b) = ToSet(a) \cup ToSet(b)
<1> DEFINE r == a \o b
<1>1. Len(a) \in Nat /\ DOMAIN a = 1 .. Len(a) /\ Len(b) \in Nat /\ DOMAIN b = 1 .. Len(b)
  BY LenProperties
<1>2. /\ Len(r) = Len(a) + Len(b) /\ r \in Seq(X)
      /\ \A i \in 1 .. Len(a) + Len(b) : r[i] = IF i <= Len(a) THEN a[i] ELSE b[i - Len(a)]
  BY ConcatProperties
<1>3. DOMAIN r = 1 .. Len(a) + Len(b)  BY <1>2, LenProperties
<1> HIDE DEF r
<1>4. \A n \in DOMAIN r : \/ n \in DOMAIN a /\ r[n] = a[n]
                          \/ n - Len(a) \in DOMAIN b /\ r[n] = b[n - Len(a)]
  BY <1>1, <1>2, <1>3
<1>5. OnceEach(r)
  <2> SUFFICES ASSUME NEW i \in DOMAIN r, NEW j \in DOMAIN r, r[i].id = r[j].id PROVE i = j
    BY DEF OnceEach
  <2>1. i \in Int /\ j \in Int  BY <1>3
  <2>2. CASE i \in DOMAIN a /\ r[i] = a[i] /\ j \in DOMAIN a /\ r[j] = a[j]
    BY <2>2 DEF OnceEach
  <2>3. CASE i - Len(a) \in DOMAIN b /\ r[i] = b[i - Len(a)]
             /\ j - Len(a) \in DOMAIN b /\ r[j] = b[j - Len(a)]
    <3>1. i - Len(a) = j - Len(a)  BY <2>3 DEF OnceEach
    <3> QED  BY <1>1, <2>1, <3>1
  <2> QED  BY <1>4, <2>2, <2>3
<1>6. ToSet(r) \subseteq ToSet(a) \cup ToSet(b)  BY <1>4 DEF ToSet
<1>7. ToSet(a) \subseteq ToSet(r)
  <2>1. \A n \in DOMAIN a : n \in DOMAIN r /\ r[n] = a[n]  BY <1>1, <1>2, <1>3
  <2> QED  BY <2>1 DEF ToSet
<1>8. ToSet(b) \subseteq ToSet(r)
  <2>1. ASSUME NEW n \in DOMAIN b PROVE n + Len(a) \in DOMAIN r /\ r[n + Len(a)] = b[n]
    <3>1. n + Len(a) \in 1 .. Len(a) + Len(b) /\ ~ (n + Len(a) <= Len(a))
          /\ (n + Len(a)) - Len(a) = n
      BY <1>1
    <3> QED  BY <1>2, <1>3, <3>1
  <2> QED  BY <2>1 DEF ToSet
<1> QED  BY <1>5, <1>6, <1>7, <1>8 DEF r

-------------------------------------------------------------------------------
(* What one tick makes ready *)

Numbered(q, next) == [n \in DOMAIN q |-> [q[n] EXCEPT !.sequence = next + n - 1]]

LEMMA NumberedFacts ==
  ASSUME NEW q \in Seq(Entries), NEW next \in Nat
  PROVE  /\ Numbered(q, next) \in Seq(Entries)
         /\ Len(Numbered(q, next)) = Len(q) /\ DOMAIN Numbered(q, next) = DOMAIN q
         /\ \A n \in DOMAIN q : /\ Numbered(q, next)[n].id = q[n].id
                                /\ Numbered(q, next)[n].step = q[n].step
                                /\ Numbered(q, next)[n].sequence = next + n - 1
<1> DEFINE t == Numbered(q, next)
<1>1. Len(q) \in Nat /\ DOMAIN q = 1 .. Len(q) /\ \A i \in DOMAIN q : q[i] \in Entries
  BY LenProperties, ElementOfSeq
<1>2. \A n \in DOMAIN q : /\ t[n] \in Entries /\ t[n].id = q[n].id /\ t[n].step = q[n].step
                          /\ t[n].sequence = next + n - 1
  <2> SUFFICES ASSUME NEW n \in DOMAIN q
               PROVE  /\ t[n] \in Entries /\ t[n].id = q[n].id /\ t[n].step = q[n].step
                      /\ t[n].sequence = next + n - 1
    OBVIOUS
  <2>1. q[n] \in Entries /\ next + n - 1 \in Nat  BY <1>1
  <2>2. t[n] = [q[n] EXCEPT !.sequence = next + n - 1]  BY DEF Numbered
  <2> QED  BY <2>1, <2>2 DEF Entries
<1>3. DOMAIN t = 1 .. Len(q)  BY <1>1 DEF Numbered
<1>4. t = [n \in 1 .. Len(q) |-> t[n]]  BY <1>3 DEF Numbered
<1> HIDE DEF t
<1>5. t \in [1 .. Len(q) -> Entries]  BY <1>1, <1>2, <1>4
<1>6. t \in Seq(Entries)  BY <1>1, <1>5, SeqDef
<1>7. Len(t) = Len(q)  BY <1>1, <1>3, <1>6, LenProperties
<1> QED  BY <1>1, <1>2, <1>3, <1>6, <1>7 DEF t

LEMMA PushedFacts ==
  ASSUME NEW q \in Seq(Entries), NEW next \in Nat, NEW events \in Seq(Entries)
  PROVE  Pushed(q, next, events) = q \o Numbered(events, next)
         /\ Pushed(q, next, events) \in Seq(Entries)
<1>1. Pushed(q, next, events) = q \o Numbered(events, next)  BY DEF Pushed, Numbered
<1>2. Numbered(events, next) \in Seq(Entries)  BY NumberedFacts
<1> QED  BY <1>1, <1>2, ConcatProperties

(* The queues before a tick, and what it hands over and keeps. *)
BeforeTick(q, timers, m, nt, ne, now) ==
  /\ q \in Seq(Entries) /\ OnceEach(q) /\ timers \in Seq(Entries) /\ InOrder(timers)
  /\ m \in Seq(MadeRecords) /\ nt \in Nat /\ ne \in Nat /\ now \in Nat
  /\ Waits(ToSet(q), m, FALSE, ne, now) /\ Waits(ToSet(timers), m, TRUE, nt, now)
  /\ IdsOf(ToSet(q)) \cap IdsOf(ToSet(timers)) = {}
  /\ \A id \in DOMAIN m : m[id].at <= now

HandsOver(ready, later, q, timers, m, now) ==
  /\ ready \in Seq(Entries) /\ OnceEach(ready)
  /\ IdsOf(ToSet(ready)) = IdsOf({e \in ToSet(q) : e.step <= now})
                             \cup IdsOf({e \in ToSet(timers) : e.step <= now})
  /\ \A n \in DOMAIN ready : ready[n].id \in DOMAIN m /\ Trigger(m, ready[n].id) = now
  /\ \A i, j \in DOMAIN ready : i < j => Precedes(m, ready[i].id, ready[j].id)
  /\ later \in Seq(Entries) /\ InOrder(later)
  /\ ToSet(later) = {e \in ToSet(q) : e.step > now}

LEMMA ReadyFacts ==
  ASSUME NEW q, NEW timers, NEW m, NEW nt, NEW ne, NEW step0,
         BeforeTick(q, timers, m, nt, ne, step0)
  PROVE  LET waiting == Pushed(q, ne, Due(timers, step0 + 1))
         IN  HandsOver(Ready(waiting, step0 + 1), Later(waiting, step0 + 1), q, timers, m, step0 + 1)
<1> USE DEF BeforeTick
<1> DEFINE now == step0 + 1
           due == Due(timers, now)
           moved == Numbered(due, ne)
           waiting == Pushed(q, ne, due)
           sorted == Sorted(waiting)
           ready == Ready(waiting, now)
           later == Later(waiting, now)
<1>0. now \in Nat /\ now = step0 + 1  OBVIOUS
<1>1. ToSet(q) \in SUBSET Entries /\ ToSet(timers) \in SUBSET Entries
      /\ \A i \in DOMAIN q : q[i] \in ToSet(q)
  BY ElementOfSeq DEF ToSet
<1>2. /\ due \in Seq(Entries) /\ InOrder(due)
      /\ ToSet(due) = {e \in ToSet(timers) : e.step <= now}
  BY <1>0, SplitFacts
<1> HIDE DEF now, due
<1>3. ToSet(due) \subseteq ToSet(timers) /\ \A i \in DOMAIN due : due[i] \in ToSet(due)
  BY <1>2 DEF ToSet
<1>4. OnceEach(due)
  <2>1. \A d, e \in ToSet(due) : d.id = e.id => d = e  BY <1>1, <1>3, WaitsUnique
  <2> QED  BY <1>2, <2>1, OrderedOnce
<1>5. /\ moved \in Seq(Entries) /\ DOMAIN moved = DOMAIN due
      /\ \A n \in DOMAIN due : /\ moved[n].id = due[n].id /\ moved[n].step = due[n].step
                               /\ moved[n].sequence = ne + n - 1
  BY <1>2, NumberedFacts
<1>6. waiting = q \o moved /\ waiting \in Seq(Entries)  BY <1>2, PushedFacts
<1> HIDE DEF moved, waiting
<1>7. DOMAIN due \subseteq Nat \ {0} /\ \A i \in DOMAIN due : due[i] \in Entries
  BY <1>2, LenProperties, ElementOfSeq
<1>8. OnceEach(moved)  BY <1>4, <1>5 DEF OnceEach
<1>9. \A i \in DOMAIN q, j \in DOMAIN moved : q[i].id # moved[j].id
  <2> SUFFICES ASSUME NEW i \in DOMAIN q, NEW j \in DOMAIN due PROVE q[i].id # due[j].id
    BY <1>5
  <2>1. q[i].id \in IdsOf(ToSet(q)) /\ due[j].id \in IdsOf(ToSet(timers))
    BY <1>1, <1>3 DEF IdsOf
  <2> QED  BY <2>1
<1>10. OnceEach(waiting) /\ ToSet(waiting) = ToSet(q) \cup ToSet(moved)
  <2>1. OnceEach(q \o moved) /\ ToSet(q \o moved) = ToSet(q) \cup ToSet(moved)
    BY <1>5, <1>8, <1>9, OnceMore
  <2> QED  BY <1>6, <2>1
<1>11. ASSUME NEW d \in ToSet(moved)
       PROVE  \E i \in DOMAIN due : /\ d = moved[i] /\ d.id = due[i].id /\ d.step = due[i].step
                                    /\ d.sequence = ne + i - 1 /\ due[i] \in ToSet(timers)
  <2>1. PICK i \in DOMAIN due : d = moved[i]  BY <1>5 DEF ToSet
  <2> QED  BY <1>3, <1>5, <2>1
<1>12. ASSUME NEW d \in ToSet(q)
       PROVE  d \in Entries /\ d.sequence < ne /\ d.id \in DOMAIN m /\ m[d.id].timer = FALSE
              /\ m[d.id].due = d.step /\ Trigger(m, d.id) > step0
  BY <1>1 DEF Waits
<1>13. ASSUME NEW d \in ToSet(moved)
       PROVE  d \in Entries /\ d.sequence >= ne /\ d.id \in DOMAIN m /\ m[d.id].timer = TRUE
              /\ m[d.id].due = d.step /\ Trigger(m, d.id) > step0 /\ d.step <= now
  <2>1. PICK i \in DOMAIN due : /\ d = moved[i] /\ d.id = due[i].id /\ d.step = due[i].step
                                /\ d.sequence = ne + i - 1 /\ due[i] \in ToSet(timers)
    BY <1>11
  <2>2. due[i].step <= now  BY <1>2, <1>3
  <2>3. d.sequence >= ne  BY <1>7, <2>1
  <2>4. d \in Entries  BY <1>5, <2>1, ElementOfSeq
  <2> QED  BY <2>1, <2>2, <2>3, <2>4 DEF Waits
<1>14. ASSUME NEW d \in ToSet(waiting), NEW e \in ToSet(waiting)
       PROVE  d = e \/ Before(d, e) \/ Before(e, d)
  <2>1. CASE d \in ToSet(q) /\ e \in ToSet(q)  BY <1>1, <2>1, WaitsUnique
  <2>2. CASE d \in ToSet(moved) /\ e \in ToSet(moved)
    <3>1. PICK i \in DOMAIN due : d = moved[i] /\ d.sequence = ne + i - 1  BY <1>11, <2>2
    <3>2. PICK j \in DOMAIN due : e = moved[j] /\ e.sequence = ne + j - 1  BY <1>11, <2>2
    <3>3. i = j \/ i < j \/ j < i  BY <1>7
    <3>4. d.sequence = e.sequence => d = e  BY <1>7, <3>1, <3>2
    <3>5. d \in Entries /\ e \in Entries  BY <1>13, <2>2
    <3> QED  BY <3>4, <3>5 DEF Before, Entries
  <2>3. CASE d \in ToSet(q) /\ e \in ToSet(moved)
    <3>1. d \in Entries /\ e \in Entries /\ d.sequence < ne /\ e.sequence >= ne
      BY <1>12, <1>13, <2>3
    <3> QED  BY <3>1 DEF Before, Entries
  <2>4. CASE d \in ToSet(moved) /\ e \in ToSet(q)
    <3>1. d \in Entries /\ e \in Entries /\ d.sequence >= ne /\ e.sequence < ne
      BY <1>12, <1>13, <2>4
    <3> QED  BY <3>1 DEF Before, Entries
  <2> QED  BY <1>10, <2>1, <2>2, <2>3, <2>4
<1>15. \A i, j \in DOMAIN waiting :
         i # j => Before(waiting[i], waiting[j]) \/ Before(waiting[j], waiting[i])
  <2> SUFFICES ASSUME NEW i \in DOMAIN waiting, NEW j \in DOMAIN waiting, i # j
               PROVE  Before(waiting[i], waiting[j]) \/ Before(waiting[j], waiting[i])
    OBVIOUS
  <2>1. waiting[i] \in ToSet(waiting) /\ waiting[j] \in ToSet(waiting)  BY DEF ToSet
  <2>2. waiting[i] # waiting[j]  BY <1>10 DEF OnceEach
  <2> QED  BY <1>14, <2>1, <2>2
<1>16. sorted \in Seq(Entries) /\ InOrder(sorted) /\ ToSet(sorted) = ToSet(waiting)
  BY <1>6, <1>15, SortedFacts
<1>17. ready = Due(sorted, now) /\ later = Pending(sorted, now)  BY DEF Ready, Later
<1> HIDE DEF sorted, ready, later
<1>18. /\ ready \in Seq(Entries) /\ InOrder(ready)
       /\ ToSet(ready) = {e \in ToSet(waiting) : e.step <= now}
       /\ later \in Seq(Entries) /\ InOrder(later)
       /\ ToSet(later) = {e \in ToSet(waiting) : e.step > now}
  <2>1. /\ Due(sorted, now) \in Seq(Entries) /\ InOrder(Due(sorted, now))
        /\ ToSet(Due(sorted, now)) = {e \in ToSet(sorted) : e.step <= now}
        /\ Pending(sorted, now) \in Seq(Entries) /\ InOrder(Pending(sorted, now))
        /\ ToSet(Pending(sorted, now)) = {e \in ToSet(sorted) : e.step > now}
    BY <1>0, <1>16, SplitFacts
  <2> QED  BY <1>16, <1>17, <2>1
<1>19. ToSet(later) = {e \in ToSet(q) : e.step > now}
  <2>1. ASSUME NEW d \in ToSet(moved) PROVE ~ (d.step > now)
    <3>1. d \in Entries /\ d.step <= now  BY <1>13
    <3>2. d.step \in Nat  BY <3>1 DEF Entries
    <3> QED  BY <1>0, <3>1, <3>2
  <2> QED  BY <1>10, <1>18, <2>1
<1>20. ToSet(ready) = {e \in ToSet(q) : e.step <= now} \cup ToSet(moved)
  <2>1. \A d \in ToSet(moved) : d.step <= now  BY <1>13
  <2> QED  BY <1>10, <1>18, <2>1
<1>21. IdsOf(ToSet(moved)) = IdsOf(ToSet(due))
  <2>1. IdsOf(ToSet(moved)) \subseteq IdsOf(ToSet(due))
    <3> SUFFICES ASSUME NEW d \in ToSet(moved) PROVE d.id \in IdsOf(ToSet(due))
      BY DEF IdsOf
    <3> QED  BY <1>3, <1>11 DEF IdsOf
  <2>2. IdsOf(ToSet(due)) \subseteq IdsOf(ToSet(moved))
    <3> SUFFICES ASSUME NEW i \in DOMAIN due PROVE due[i].id \in IdsOf(ToSet(moved))
      BY DEF IdsOf, ToSet
    <3>1. moved[i] \in ToSet(moved) /\ moved[i].id = due[i].id  BY <1>5 DEF ToSet
    <3> QED  BY <3>1 DEF IdsOf
  <2> QED  BY <2>1, <2>2
<1>22. IdsOf(ToSet(ready)) = IdsOf({e \in ToSet(q) : e.step <= now}) \cup IdsOf(ToSet(due))
  BY <1>20, <1>21 DEF IdsOf
<1>23. OnceEach(ready)
  <2> SUFFICES ASSUME NEW d \in ToSet(waiting), NEW e \in ToSet(waiting), d.id = e.id
               PROVE  d = e
    BY <1>18, OrderedOnce
  <2>1. PICK i \in DOMAIN waiting : d = waiting[i]  BY DEF ToSet
  <2>2. PICK j \in DOMAIN waiting : e = waiting[j]  BY DEF ToSet
  <2> QED  BY <1>10, <2>1, <2>2 DEF OnceEach
<1>24. ASSUME NEW n \in DOMAIN ready
       PROVE  ready[n].id \in DOMAIN m /\ Trigger(m, ready[n].id) = now
  <2> DEFINE e == ready[n]
  <2>1. e \in ToSet(ready) /\ e \in ToSet(q) \cup ToSet(moved) /\ e.step <= now
    BY <1>10, <1>18 DEF ToSet
  <2> HIDE DEF e
  <2>2. e.id \in DOMAIN m /\ Trigger(m, e.id) > step0 /\ m[e.id].due = e.step
    BY <1>12, <1>13, <2>1
  <2>3. m[e.id].at <= step0  BY <2>2
  <2>4. Trigger(m, e.id) \in Nat /\ m[e.id].at \in Nat /\ m[e.id].due \in Nat
        /\ (Trigger(m, e.id) = m[e.id].due \/ Trigger(m, e.id) = m[e.id].at + 1)
    BY <2>2, TriggerType
  <2>5. Trigger(m, e.id) <= now  BY <1>0, <2>1, <2>2, <2>3, <2>4
  <2>6. Trigger(m, e.id) = now  BY <1>0, <2>2, <2>4, <2>5
  <2> QED  BY <2>2, <2>6 DEF e
<1>25. ASSUME NEW d \in ToSet(waiting), NEW e \in ToSet(waiting), Before(d, e)
       PROVE  Precedes(m, d.id, e.id)
  <2>1. d \in Entries /\ e \in Entries /\ m[d.id].due = d.step /\ m[e.id].due = e.step
    BY <1>10, <1>12, <1>13
  <2>2. CASE d.step < e.step  BY <2>1, <2>2 DEF Precedes
  <2>3. CASE d.step = e.step /\ d.sequence < e.sequence
    <3>1. CASE d \in ToSet(q) /\ e \in ToSet(q)
      <4>1. d.id < e.id  BY <2>3, <3>1 DEF Waits
      <4> QED  BY <1>12, <2>1, <2>3, <3>1, <4>1 DEF Precedes
    <3>2. CASE d \in ToSet(q) /\ e \in ToSet(moved)
      BY <1>12, <1>13, <2>1, <2>3, <3>2 DEF Precedes
    <3>3. CASE d \in ToSet(moved) /\ e \in ToSet(q)
      <4>1. d.sequence >= ne /\ e.sequence < ne  BY <1>12, <1>13, <3>3
      <4> QED  BY <2>1, <2>3, <4>1 DEF Entries
    <3>4. CASE d \in ToSet(moved) /\ e \in ToSet(moved)
      <4>1. PICK i \in DOMAIN due : /\ d.id = due[i].id /\ d.step = due[i].step
                                    /\ d.sequence = ne + i - 1 /\ due[i] \in ToSet(timers)
        BY <1>11, <3>4
      <4>2. PICK j \in DOMAIN due : /\ e.id = due[j].id /\ e.step = due[j].step
                                    /\ e.sequence = ne + j - 1 /\ due[j] \in ToSet(timers)
        BY <1>11, <3>4
      <4>3. i < j  BY <1>7, <2>3, <4>1, <4>2
      <4>4. Before(due[i], due[j])  BY <1>2, <4>3 DEF InOrder
      <4>5. due[i].sequence < due[j].sequence
        <5>1. due[i] \in Entries /\ due[j] \in Entries  BY <1>7
        <5>2. due[i].step \in Nat /\ due[i].step = due[j].step
          BY <2>3, <4>1, <4>2, <5>1 DEF Entries
        <5> QED  BY <4>4, <5>2 DEF Before
      <4>6. d.id < e.id  BY <4>1, <4>2, <4>5 DEF Waits
      <4>7. m[d.id].timer = TRUE /\ m[e.id].timer = TRUE  BY <4>1, <4>2 DEF Waits
      <4> QED  BY <2>1, <2>3, <4>6, <4>7 DEF Precedes
    <3> QED  BY <1>10, <3>1, <3>2, <3>3, <3>4
  <2> QED  BY <1>25, <2>2, <2>3 DEF Before
<1>26. ASSUME NEW i \in DOMAIN ready, NEW j \in DOMAIN ready, i < j
       PROVE  Precedes(m, ready[i].id, ready[j].id)
  <2>1. ready[i] \in ToSet(waiting) /\ ready[j] \in ToSet(waiting)  BY <1>18 DEF ToSet
  <2>2. Before(ready[i], ready[j])  BY <1>18, <1>26 DEF InOrder
  <2> QED  BY <1>25, <2>1, <2>2
<1> QED
  <2>1. ToSet(due) = {e \in ToSet(timers) : e.step <= now}  BY <1>2
  <2>2. IdsOf(ToSet(ready)) = IdsOf({e \in ToSet(q) : e.step <= now})
                                \cup IdsOf({e \in ToSet(timers) : e.step <= now})
    BY <1>22, <2>1
  <2>3. HandsOver(ready, later, q, timers, m, now)
    BY <1>18, <1>19, <1>23, <1>24, <1>26, <2>2 DEF HandsOver
  <2> QED  BY <2>3 DEF now, due, waiting, ready, later

-------------------------------------------------------------------------------
(* What a step adds *)

LEMMA SeqByIndex ==
  ASSUME NEW X, NEW n \in Nat, NEW f \in [1 .. n -> X]
  PROVE  f \in Seq(X) /\ Len(f) = n /\ DOMAIN f = 1 .. n
<1>1. f \in Seq(X)  BY SeqDef
<1> QED  BY <1>1, LenProperties

LEMMA AddedFacts ==
  ASSUME NEW m \in Seq(MadeRecords), NEW x \in Seq(MadeRecords)
  PROVE  /\ m \o x \in Seq(MadeRecords) /\ Len(m \o x) = Len(m) + Len(x)
         /\ Extends(m, m \o x)
         /\ \A n \in DOMAIN x : Len(m) + n \in DOMAIN (m \o x) /\ (m \o x)[Len(m) + n] = x[n]
<1> DEFINE r == m \o x
<1>1. Len(m) \in Nat /\ DOMAIN m = 1 .. Len(m) /\ Len(x) \in Nat /\ DOMAIN x = 1 .. Len(x)
  BY LenProperties
<1>2. /\ Len(r) = Len(m) + Len(x) /\ r \in Seq(MadeRecords)
      /\ \A i \in 1 .. Len(m) + Len(x) : r[i] = IF i <= Len(m) THEN m[i] ELSE x[i - Len(m)]
  BY ConcatProperties
<1>3. DOMAIN r = 1 .. Len(m) + Len(x)  BY <1>2, LenProperties
<1> HIDE DEF r
<1>4. Extends(m, r)  BY <1>1, <1>2, <1>3 DEF Extends
<1>5. ASSUME NEW n \in DOMAIN x PROVE Len(m) + n \in DOMAIN r /\ r[Len(m) + n] = x[n]
  <2>1. Len(m) + n \in 1 .. Len(m) + Len(x) /\ ~ (Len(m) + n <= Len(m))
        /\ (Len(m) + n) - Len(m) = n
    BY <1>1
  <2> QED  BY <1>2, <1>3, <2>1
<1> QED  BY <1>2, <1>4, <1>5 DEF r

LEMMA AppendIsAdded ==
  ASSUME NEW m \in Seq(MadeRecords), NEW r \in MadeRecords
  PROVE  /\ Append(m, r) \in Seq(MadeRecords) /\ Len(Append(m, r)) = Len(m) + 1
         /\ Extends(m, Append(m, r))
         /\ Len(m) + 1 \in DOMAIN Append(m, r) /\ Append(m, r)[Len(m) + 1] = r
<1>1. /\ Append(m, r) \in Seq(MadeRecords) /\ Len(Append(m, r)) = Len(m) + 1
      /\ \A i \in 1 .. Len(m) : Append(m, r)[i] = m[i]
      /\ Append(m, r)[Len(m) + 1] = r
  BY AppendProperties
<1>2. /\ DOMAIN m = 1 .. Len(m) /\ Len(m) \in Nat
      /\ DOMAIN Append(m, r) = 1 .. Len(m) + 1
  BY <1>1, LenProperties
<1> QED  BY <1>1, <1>2 DEF Extends

(* The timers of a tick, and the events. *)
NewTimers(id, dues, sequence) ==
  [n \in DOMAIN dues |-> Entry(id + n - 1, dues[n], sequence + n - 1)]

NewEvents(id, emitted, now) == [n \in 1 .. emitted |-> Event(id + n - 1, now)]

LEMMA NewTimersFacts ==
  ASSUME NEW id \in Nat \ {0}, NEW dues \in Seq(Steps), NEW sequence \in Nat
  PROVE  /\ NewTimers(id, dues, sequence) \in Seq(Entries)
         /\ DOMAIN NewTimers(id, dues, sequence) = DOMAIN dues
         /\ \A n \in DOMAIN dues :
              NewTimers(id, dues, sequence)[n] = Entry(id + n - 1, dues[n], sequence + n - 1)
<1>1. Len(dues) \in Nat /\ DOMAIN dues = 1 .. Len(dues) /\ \A n \in DOMAIN dues : dues[n] \in Steps
  BY LenProperties, ElementOfSeq
<1>2. ASSUME NEW n \in DOMAIN dues PROVE Entry(id + n - 1, dues[n], sequence + n - 1) \in Entries
  <2>1. dues[n] \in Nat /\ id + n - 1 \in Nat /\ sequence + n - 1 \in Nat  BY <1>1 DEF Steps
  <2> QED  BY <2>1 DEF Entry, Entries
<1>3. NewTimers(id, dues, sequence) \in [1 .. Len(dues) -> Entries]
  BY <1>1, <1>2 DEF NewTimers
<1> QED  BY <1>1, <1>3, SeqByIndex DEF NewTimers

LEMMA NewEventsFacts ==
  ASSUME NEW id \in Nat \ {0}, NEW emitted \in Nat, NEW now \in Nat
  PROVE  /\ NewEvents(id, emitted, now) \in Seq(Entries)
         /\ DOMAIN NewEvents(id, emitted, now) = 1 .. emitted
         /\ \A n \in 1 .. emitted : NewEvents(id, emitted, now)[n] = Event(id + n - 1, now)
<1>1. ASSUME NEW n \in 1 .. emitted PROVE Event(id + n - 1, now) \in Entries
  <2>1. id + n - 1 \in Nat  OBVIOUS
  <2> QED  BY <2>1 DEF Event, Entry, Entries
<1>2. NewEvents(id, emitted, now) \in [1 .. emitted -> Entries]  BY <1>1 DEF NewEvents
<1> QED  BY <1>2, SeqByIndex DEF NewEvents

(* The history after a tick. *)
Grown(m, dues, emitted, now) ==
  m \o [n \in DOMAIN dues |-> Made(TRUE, dues[n], now)] \o [n \in 1 .. emitted |-> Made(FALSE, now, now)]

GrownTo(m, r, dues, emitted, now) ==
  /\ r \in Seq(MadeRecords) /\ Len(r) = Len(m) + Len(dues) + emitted
  /\ Extends(m, r)
  /\ \A n \in DOMAIN dues : Len(m) + n \in DOMAIN r /\ r[Len(m) + n] = Made(TRUE, dues[n], now)
  /\ \A n \in 1 .. emitted : /\ Len(m) + Len(dues) + n \in DOMAIN r
                             /\ r[Len(m) + Len(dues) + n] = Made(FALSE, now, now)
  /\ \A id \in DOMAIN r : id \in DOMAIN m \/ r[id].at = now

LEMMA GrownFacts ==
  ASSUME NEW m \in Seq(MadeRecords), NEW dues \in Seq(Steps), NEW emitted \in Nat,
         NEW now \in Steps
  PROVE  GrownTo(m, Grown(m, dues, emitted, now), dues, emitted, now)
<1> DEFINE x == [n \in DOMAIN dues |-> Made(TRUE, dues[n], now)]
           y == [n \in 1 .. emitted |-> Made(FALSE, now, now)]
           k == m \o x
           r == k \o y
<1>1. Len(m) \in Nat /\ DOMAIN m = 1 .. Len(m)
      /\ Len(dues) \in Nat /\ DOMAIN dues = 1 .. Len(dues) /\ \A n \in DOMAIN dues : dues[n] \in Steps
  BY LenProperties, ElementOfSeq
<1>2. x \in [1 .. Len(dues) -> MadeRecords]  BY <1>1 DEF Made, MadeRecords
<1>3. y \in [1 .. emitted -> MadeRecords]  BY <1>1 DEF Made, MadeRecords
<1>4. x \in Seq(MadeRecords) /\ Len(x) = Len(dues)
      /\ \A n \in DOMAIN dues : n \in DOMAIN x /\ x[n] = Made(TRUE, dues[n], now)
  BY <1>1, <1>2, SeqByIndex
<1>5. y \in Seq(MadeRecords) /\ Len(y) = emitted
      /\ \A n \in 1 .. emitted : n \in DOMAIN y /\ y[n] = Made(FALSE, now, now)
  BY <1>3, SeqByIndex
<1> HIDE DEF x, y
<1>6. /\ k \in Seq(MadeRecords) /\ Len(k) = Len(m) + Len(dues) /\ Extends(m, k)
      /\ \A n \in DOMAIN dues : Len(m) + n \in DOMAIN k /\ k[Len(m) + n] = Made(TRUE, dues[n], now)
  BY <1>4, AddedFacts
<1>8. r = Grown(m, dues, emitted, now)  BY DEF Grown, x, y
<1> HIDE DEF k
<1>7. /\ r \in Seq(MadeRecords) /\ Len(r) = Len(m) + Len(dues) + emitted /\ Extends(k, r)
      /\ \A n \in 1 .. emitted : /\ Len(m) + Len(dues) + n \in DOMAIN r
                                 /\ r[Len(m) + Len(dues) + n] = Made(FALSE, now, now)
  <2>1. /\ r \in Seq(MadeRecords) /\ Len(r) = Len(k) + Len(y) /\ Extends(k, r)
        /\ \A n \in DOMAIN y : Len(k) + n \in DOMAIN r /\ r[Len(k) + n] = y[n]
    BY <1>5, <1>6, AddedFacts
  <2> HIDE DEF r
  <2>2. \A n \in 1 .. emitted : Len(k) + n \in DOMAIN r /\ r[Len(k) + n] = Made(FALSE, now, now)
    BY <1>5, <2>1
  <2>3. Len(k) = Len(m) + Len(dues) /\ Len(y) = emitted  BY <1>5, <1>6
  <2> QED  BY <2>1, <2>2, <2>3
<1> HIDE DEF r
<1>9. Extends(m, r)  BY <1>6, <1>7 DEF Extends
<1>10. \A n \in DOMAIN dues : Len(m) + n \in DOMAIN r /\ r[Len(m) + n] = Made(TRUE, dues[n], now)
  BY <1>6, <1>7 DEF Extends
<1>11. ASSUME NEW id \in DOMAIN r PROVE id \in DOMAIN m \/ r[id].at = now
  <2>1. DOMAIN r = 1 .. Len(m) + Len(dues) + emitted  BY <1>7, LenProperties
  <2>2. CASE id > Len(m) /\ id <= Len(m) + Len(dues)
    <3>1. id - Len(m) \in DOMAIN dues /\ Len(m) + (id - Len(m)) = id  BY <1>1, <2>1, <2>2
    <3>2. r[Len(m) + (id - Len(m))] = Made(TRUE, dues[id - Len(m)], now)  BY <1>10, <3>1
    <3> QED  BY <3>1, <3>2 DEF Made
  <2>3. CASE id > Len(m) + Len(dues)
    <3> DEFINE n == id - Len(m) - Len(dues)
    <3>1. n \in 1 .. emitted /\ Len(m) + Len(dues) + n = id  BY <1>1, <2>1, <2>3
    <3> HIDE DEF n
    <3>2. r[Len(m) + Len(dues) + n] = Made(FALSE, now, now)  BY <1>7, <3>1
    <3> QED  BY <3>1, <3>2 DEF Made
  <2> QED  BY <1>1, <2>1, <2>2, <2>3
<1>12. GrownTo(m, r, dues, emitted, now)  BY <1>7, <1>9, <1>10, <1>11 DEF GrownTo
<1> QED  BY <1>8, <1>12

-------------------------------------------------------------------------------
(* Parts of the ids *)

LEMMA Intervals ==
  ASSUME NEW a \in Nat \ {0}, NEW b \in Nat, NEW c \in Nat
  PROVE  /\ 1 .. a + b + c - 1 = (1 .. a - 1) \cup (a .. a + b - 1) \cup (a + b .. a + b + c - 1)
         /\ (a .. a + b - 1) \cap (1 .. a - 1) = {}
         /\ (a + b .. a + b + c - 1) \cap (1 .. a - 1) = {}
         /\ (a .. a + b - 1) \cap (a + b .. a + b + c - 1) = {}
OBVIOUS

LEMMA PartsMove ==
  ASSUME NEW whole, NEW a, NEW b, NEW c, NEW d, Parts(whole, a, b, c, d),
         NEW a1, NEW a2, NEW a3, a = a1 \cup a2 \cup a3,
         a1 \cap a2 = {}, a1 \cap a3 = {}, a2 \cap a3 = {},
         NEW b1, NEW b2, b = b1 \cup b2, b1 \cap b2 = {},
         NEW x, NEW y, x \cap whole = {}, y \cap whole = {}, x \cap y = {}
  PROVE  Parts(whole \cup x \cup y, a1 \cup x, b1 \cup y, c \cup (b2 \cup a3), d \cup a2)
BY DEF Parts

-------------------------------------------------------------------------------
(* The steps keep the invariant *)

(* Sound(State), over the variables. *)
SoundNow ==
  /\ step \in Steps /\ next_id \in 1 .. MaxEvent + 1
  /\ next_timer \in Nat /\ next_event \in Nat
  /\ delayed \in Seq(Entries) /\ queued \in Seq(Entries)
  /\ made \in Seq(MadeRecords) /\ Len(made) = next_id - 1
  /\ \A id \in DOMAIN made : made[id].at <= step
  /\ delivered \in Seq(Deliveries)
  /\ InOrder(delayed) /\ OnceEach(queued) /\ OnceEach(delivered)
  /\ Waits(ToSet(delayed), made, TRUE, next_timer, step)
  /\ Waits(ToSet(queued), made, FALSE, next_event, step)
  /\ Delivers(delivered, made, step)
  /\ Parts(1 .. next_id - 1, IdsOf(ToSet(delayed)), IdsOf(ToSet(queued)),
           IdsOf(ToSet(delivered)), removed)

LEMMA StateIsSound == Sound(State) <=> SoundNow
BY DEF Sound, Shape, State, SoundNow

LEMMA Bounds ==
  ASSUME SoundNow
  PROVE  /\ step \in Nat /\ next_id \in Nat \ {0} /\ MaxStep \in Nat /\ MaxEvent \in Nat
         /\ Len(made) = next_id - 1 /\ DOMAIN made = 1 .. next_id - 1
         /\ ToSet(delayed) \in SUBSET Entries /\ ToSet(queued) \in SUBSET Entries
         /\ \A e \in ToSet(delayed) \cup ToSet(queued) :
              e.id \in DOMAIN made /\ Trigger(made, e.id) > step
         /\ \A e \in ToSet(delayed) : e.sequence < next_timer
         /\ \A e \in ToSet(queued) : e.sequence < next_event
<1>1. DOMAIN made = 1 .. Len(made)  BY LenProperties DEF SoundNow
<1>2. ToSet(delayed) \in SUBSET Entries /\ ToSet(queued) \in SUBSET Entries
  BY ElementOfSeq DEF SoundNow, ToSet
<1>3. step \in Nat /\ next_id \in Nat \ {0} /\ MaxStep \in Nat /\ MaxEvent \in Nat
  BY EventBounds DEF SoundNow, Steps
<1> QED  BY <1>1, <1>2, <1>3 DEF SoundNow, Waits

LEMMA PushIsSound ==
  ASSUME SoundNow, NEW s \in Steps, PushEvent(s)
  PROVE  SoundNow'
<1> DEFINE e == Entry(next_id, s, next_event)
           q == <<Event(next_id, s)>>
           r == Made(FALSE, s, step)
           numbered == Numbered(q, next_event)
<1>1. /\ next_id' = next_id + 1 /\ queued' = Pushed(queued, next_event, q)
      /\ next_event' = next_event + 1 /\ made' = Append(made, r) /\ next_id <= MaxEvent
      /\ UNCHANGED <<step, delayed, next_timer, delivered, removed>>
  BY DEF PushEvent, Fresh
<1>2. /\ step \in Nat /\ next_id \in Nat \ {0} /\ MaxEvent \in Nat
      /\ Len(made) = next_id - 1 /\ DOMAIN made = 1 .. next_id - 1
      /\ ToSet(delayed) \in SUBSET Entries /\ ToSet(queued) \in SUBSET Entries
      /\ \A d \in ToSet(delayed) \cup ToSet(queued) :
           d.id \in DOMAIN made /\ Trigger(made, d.id) > step
  BY Bounds
<1>3. step \in Steps /\ next_event \in Nat /\ next_timer \in Nat /\ made \in Seq(MadeRecords)
      /\ queued \in Seq(Entries) /\ s \in Nat
  BY DEF SoundNow, Steps
<1>4. r \in MadeRecords /\ r.timer = FALSE /\ r.due = s /\ r.at = step
  BY <1>3 DEF Made, MadeRecords
<1>5. e \in Entries /\ e.id = next_id /\ e.step = s /\ e.sequence = next_event
  BY <1>2, <1>3 DEF Entry, Entries
<1>6. /\ q \in Seq(Entries) /\ Len(q) = 1 /\ DOMAIN q = {1} /\ q[1].id = next_id /\ q[1].step = s
  BY <1>2, <1>3 DEF Event, Entry, Entries
<1> HIDE DEF r, q
<1>7. /\ made' \in Seq(MadeRecords) /\ Len(made') = Len(made) + 1 /\ Extends(made, made')
      /\ Len(made) + 1 \in DOMAIN made' /\ made'[Len(made) + 1] = r
  BY <1>1, <1>3, <1>4, AppendIsAdded
<1>8. next_id \in DOMAIN made' /\ made'[next_id] = r /\ Len(made') = next_id
  BY <1>2, <1>7
<1>9. /\ numbered \in Seq(Entries) /\ DOMAIN numbered = {1}
      /\ numbered[1].id = next_id /\ numbered[1].step = s /\ numbered[1].sequence = next_event
  <2>1. /\ numbered \in Seq(Entries) /\ DOMAIN numbered = DOMAIN q
        /\ \A n \in DOMAIN q : /\ numbered[n].id = q[n].id /\ numbered[n].step = q[n].step
                               /\ numbered[n].sequence = next_event + n - 1
    BY <1>3, <1>6, NumberedFacts
  <2> QED  BY <1>3, <1>6, <2>1
<1> HIDE DEF numbered
<1>10. ToSet(numbered) = {e}
  <2>1. numbered[1] \in Entries  BY <1>9, ElementOfSeq
  <2>2. numbered[1] = e  BY <1>5, <1>9, <2>1 DEF Entries
  <2> QED  BY <1>9, <2>2 DEF ToSet
<1>11. queued' = queued \o numbered /\ queued' \in Seq(Entries)
  BY <1>1, <1>3, <1>6, PushedFacts DEF numbered
<1>12. OnceEach(queued') /\ ToSet(queued') = ToSet(queued) \cup {e}
  <2>1. OnceEach(numbered)  BY <1>9 DEF OnceEach
  <2>2. \A i \in DOMAIN queued, j \in DOMAIN numbered : queued[i].id # numbered[j].id
    <3> SUFFICES ASSUME NEW i \in DOMAIN queued PROVE queued[i].id # next_id  BY <1>9
    <3>1. queued[i] \in ToSet(queued)  BY DEF ToSet
    <3>2. queued[i].id \in 1 .. next_id - 1  BY <1>2, <3>1
    <3> QED  BY <1>2, <3>2
  <2>3. OnceEach(queued)  BY DEF SoundNow
  <2> QED  BY <1>3, <1>9, <1>10, <1>11, <2>1, <2>2, <2>3, OnceMore
<1> HIDE DEF e
<1>13. Trigger(made', next_id) > step
  BY <1>2, <1>3, <1>4, <1>7, <1>8, TriggerType
<1>14. Waits(ToSet(delayed) \cup {}, made', TRUE, next_timer, step)
  <2>1. Waits(ToSet(delayed), made, TRUE, next_timer, step)  BY DEF SoundNow
  <2>2. {} \in SUBSET Entries /\ ToSet(delayed) \in SUBSET ToSet(delayed)
        /\ next_timer <= next_timer /\ TRUE \in BOOLEAN
    BY <1>3
  <2> QED  BY <1>2, <1>3, <1>7, <2>1, <2>2, WaitsMore
<1>15. Waits(ToSet(queued) \cup {e}, made', FALSE, next_event + 1, step)
  <2>1. Waits(ToSet(queued), made, FALSE, next_event, step)  BY DEF SoundNow
  <2>2. {e} \in SUBSET Entries /\ ToSet(queued) \in SUBSET ToSet(queued)
        /\ next_event + 1 \in Nat /\ next_event <= next_event + 1 /\ FALSE \in BOOLEAN
    BY <1>3, <1>5
  <2>3. \A d \in {e} : /\ d.id > Len(made) /\ d.id \in DOMAIN made'
                       /\ made'[d.id].timer = FALSE /\ made'[d.id].due = d.step
                       /\ next_event <= d.sequence /\ d.sequence < next_event + 1
                       /\ Trigger(made', d.id) > step
    BY <1>2, <1>3, <1>4, <1>5, <1>8, <1>13
  <2>4. \A d, f \in {e} : d.id < f.id <=> d.sequence < f.sequence  BY <1>2, <1>3, <1>5
  <2> QED  BY <1>2, <1>3, <1>7, <2>1, <2>2, <2>3, <2>4, WaitsMore
<1>16. Delivers(delivered, made', step)
  <2>1. Delivers(delivered, made, step)  BY DEF SoundNow
  <2>2. \A n \in DOMAIN delivered : delivered[n].id \in DOMAIN made  BY <2>1 DEF Delivers
  <2>3. \A a, b \in DOMAIN made : Precedes(made, a, b) => Precedes(made', a, b)
    BY <1>7 DEF Extends, Precedes
  <2> QED  BY <1>7, <2>1, <2>2, <2>3, TriggerIsKept DEF Delivers, Extends
<1>17. Parts(1 .. next_id, IdsOf(ToSet(delayed)), IdsOf(ToSet(queued) \cup {e}),
             IdsOf(ToSet(delivered)), removed)
  <2>1. Parts(1 .. next_id - 1, IdsOf(ToSet(delayed)), IdsOf(ToSet(queued)),
              IdsOf(ToSet(delivered)), removed)
    BY DEF SoundNow
  <2>2. 1 .. next_id = (1 .. next_id - 1) \cup {next_id} /\ next_id \notin 1 .. next_id - 1
    BY <1>2
  <2>3. IdsOf(ToSet(queued) \cup {e}) = IdsOf(ToSet(queued)) \cup {next_id}
    BY <1>5 DEF IdsOf
  <2> QED  BY <2>1, <2>2, <2>3 DEF Parts
<1>18. \A id \in DOMAIN made' : made'[id].at <= step
  <2>1. DOMAIN made' = 1 .. next_id  BY <1>7, <1>8, LenProperties
  <2>2. \A id \in DOMAIN made : made'[id].at <= step  BY <1>7 DEF SoundNow, Extends
  <2> QED  BY <1>2, <1>4, <1>8, <2>1, <2>2
<1>19. next_id' \in 1 .. MaxEvent + 1 /\ next_id' - 1 = next_id  BY <1>1, <1>2
<1> QED
  <2>1. Waits(ToSet(delayed'), made', TRUE, next_timer', step')  BY <1>1, <1>14
  <2>2. Waits(ToSet(queued'), made', FALSE, next_event', step')  BY <1>1, <1>12, <1>15
  <2>3. Delivers(delivered', made', step')  BY <1>1, <1>16
  <2>4. Parts(1 .. next_id' - 1, IdsOf(ToSet(delayed')), IdsOf(ToSet(queued')),
              IdsOf(ToSet(delivered')), removed')
    BY <1>1, <1>12, <1>17, <1>19
  <2>5. /\ step' \in Steps /\ next_id' \in 1 .. MaxEvent + 1
        /\ next_timer' \in Nat /\ next_event' \in Nat
        /\ delayed' \in Seq(Entries) /\ queued' \in Seq(Entries)
        /\ made' \in Seq(MadeRecords) /\ Len(made') = next_id' - 1
        /\ delivered' \in Seq(Deliveries)
        /\ InOrder(delayed') /\ OnceEach(queued') /\ OnceEach(delivered')
    BY <1>1, <1>3, <1>7, <1>8, <1>11, <1>12, <1>19 DEF SoundNow
  <2>6. \A id \in DOMAIN made' : made'[id].at <= step'  BY <1>1, <1>18
  <2> QED  BY <2>1, <2>2, <2>3, <2>4, <2>5, <2>6 DEF SoundNow

LEMMA ScheduleIsSound ==
  ASSUME SoundNow, NEW due \in Steps, ScheduleEvent(due)
  PROVE  SoundNow'
<1> DEFINE e == Entry(next_id, due, next_timer)
           r == Made(TRUE, due, step)
<1>1. /\ next_id' = next_id + 1 /\ delayed' = Insert(delayed, e)
      /\ next_timer' = next_timer + 1 /\ made' = Append(made, r) /\ next_id <= MaxEvent
      /\ UNCHANGED <<step, queued, next_event, delivered, removed>>
  BY DEF ScheduleEvent, Fresh
<1>2. /\ step \in Nat /\ next_id \in Nat \ {0} /\ MaxEvent \in Nat
      /\ Len(made) = next_id - 1 /\ DOMAIN made = 1 .. next_id - 1
      /\ ToSet(delayed) \in SUBSET Entries /\ ToSet(queued) \in SUBSET Entries
      /\ \A d \in ToSet(delayed) \cup ToSet(queued) :
           d.id \in DOMAIN made /\ Trigger(made, d.id) > step
      /\ \A d \in ToSet(delayed) : d.sequence < next_timer
  BY Bounds
<1>3. step \in Steps /\ next_event \in Nat /\ next_timer \in Nat /\ made \in Seq(MadeRecords)
      /\ queued \in Seq(Entries) /\ delayed \in Seq(Entries) /\ due \in Nat
  BY DEF SoundNow, Steps
<1>4. r \in MadeRecords /\ r.timer = TRUE /\ r.due = due /\ r.at = step
  BY <1>3 DEF Made, MadeRecords
<1>5. e \in Entries /\ e.id = next_id /\ e.step = due /\ e.sequence = next_timer
  BY <1>2, <1>3 DEF Entry, Entries
<1> HIDE DEF r, e
<1>7. /\ made' \in Seq(MadeRecords) /\ Len(made') = Len(made) + 1 /\ Extends(made, made')
      /\ Len(made) + 1 \in DOMAIN made' /\ made'[Len(made) + 1] = r
  BY <1>1, <1>3, <1>4, AppendIsAdded
<1>8. next_id \in DOMAIN made' /\ made'[next_id] = r /\ Len(made') = next_id
  BY <1>2, <1>7
<1>9. \A d \in ToSet(delayed) : Before(d, e) \/ Before(e, d)
  <2> SUFFICES ASSUME NEW d \in ToSet(delayed) PROVE Before(d, e) \/ Before(e, d)  OBVIOUS
  <2>1. d \in Entries /\ d.sequence < next_timer  BY <1>2
  <2> QED  BY <1>3, <1>5, <2>1 DEF Before, Entries
<1>10. delayed' \in Seq(Entries)  BY <1>1, <1>3, <1>5, InsertFacts
<1>11. InOrder(delayed') /\ ToSet(delayed') = ToSet(delayed) \cup {e}
  <2>1. InOrder(delayed)  BY DEF SoundNow
  <2> QED  BY <1>1, <1>3, <1>5, <1>9, <2>1, InsertKeepsOrder
<1>13. Trigger(made', next_id) > step
  BY <1>2, <1>3, <1>4, <1>7, <1>8, TriggerType
<1>14. Waits(ToSet(queued) \cup {}, made', FALSE, next_event, step)
  <2>1. Waits(ToSet(queued), made, FALSE, next_event, step)  BY DEF SoundNow
  <2>2. {} \in SUBSET Entries /\ ToSet(queued) \in SUBSET ToSet(queued)
        /\ next_event <= next_event /\ FALSE \in BOOLEAN
    BY <1>3
  <2> QED  BY <1>2, <1>3, <1>7, <2>1, <2>2, WaitsMore
<1>15. Waits(ToSet(delayed) \cup {e}, made', TRUE, next_timer + 1, step)
  <2>1. Waits(ToSet(delayed), made, TRUE, next_timer, step)  BY DEF SoundNow
  <2>2. {e} \in SUBSET Entries /\ ToSet(delayed) \in SUBSET ToSet(delayed)
        /\ next_timer + 1 \in Nat /\ next_timer <= next_timer + 1 /\ TRUE \in BOOLEAN
    BY <1>3, <1>5
  <2>3. \A d \in {e} : /\ d.id > Len(made) /\ d.id \in DOMAIN made'
                       /\ made'[d.id].timer = TRUE /\ made'[d.id].due = d.step
                       /\ next_timer <= d.sequence /\ d.sequence < next_timer + 1
                       /\ Trigger(made', d.id) > step
    BY <1>2, <1>3, <1>4, <1>5, <1>8, <1>13
  <2>4. \A d, f \in {e} : d.id < f.id <=> d.sequence < f.sequence  BY <1>2, <1>3, <1>5
  <2> QED  BY <1>2, <1>3, <1>7, <2>1, <2>2, <2>3, <2>4, WaitsMore
<1>16. Delivers(delivered, made', step)
  <2>1. Delivers(delivered, made, step)  BY DEF SoundNow
  <2>2. \A n \in DOMAIN delivered : delivered[n].id \in DOMAIN made  BY <2>1 DEF Delivers
  <2>3. \A a, b \in DOMAIN made : Precedes(made, a, b) => Precedes(made', a, b)
    BY <1>7 DEF Extends, Precedes
  <2> QED  BY <1>7, <2>1, <2>2, <2>3, TriggerIsKept DEF Delivers, Extends
<1>17. Parts(1 .. next_id, IdsOf(ToSet(delayed) \cup {e}), IdsOf(ToSet(queued)),
             IdsOf(ToSet(delivered)), removed)
  <2>1. Parts(1 .. next_id - 1, IdsOf(ToSet(delayed)), IdsOf(ToSet(queued)),
              IdsOf(ToSet(delivered)), removed)
    BY DEF SoundNow
  <2>2. 1 .. next_id = (1 .. next_id - 1) \cup {next_id} /\ next_id \notin 1 .. next_id - 1
    BY <1>2
  <2>3. IdsOf(ToSet(delayed) \cup {e}) = IdsOf(ToSet(delayed)) \cup {next_id}
    BY <1>5 DEF IdsOf
  <2> QED  BY <2>1, <2>2, <2>3 DEF Parts
<1>18. \A id \in DOMAIN made' : made'[id].at <= step
  <2>1. DOMAIN made' = 1 .. next_id  BY <1>7, <1>8, LenProperties
  <2>2. \A id \in DOMAIN made : made'[id].at <= step  BY <1>7 DEF SoundNow, Extends
  <2> QED  BY <1>2, <1>4, <1>8, <2>1, <2>2
<1>19. next_id' \in 1 .. MaxEvent + 1 /\ next_id' - 1 = next_id  BY <1>1, <1>2
<1> QED
  <2>1. Waits(ToSet(queued'), made', FALSE, next_event', step')  BY <1>1, <1>14
  <2>2. Waits(ToSet(delayed'), made', TRUE, next_timer', step')  BY <1>1, <1>11, <1>15
  <2>3. Delivers(delivered', made', step')  BY <1>1, <1>16
  <2>4. Parts(1 .. next_id' - 1, IdsOf(ToSet(delayed')), IdsOf(ToSet(queued')),
              IdsOf(ToSet(delivered')), removed')
    BY <1>1, <1>11, <1>17, <1>19
  <2>5. /\ step' \in Steps /\ next_id' \in 1 .. MaxEvent + 1
        /\ next_timer' \in Nat /\ next_event' \in Nat
        /\ delayed' \in Seq(Entries) /\ queued' \in Seq(Entries)
        /\ made' \in Seq(MadeRecords) /\ Len(made') = next_id' - 1
        /\ delivered' \in Seq(Deliveries)
        /\ InOrder(delayed') /\ OnceEach(queued') /\ OnceEach(delivered')
    BY <1>1, <1>3, <1>7, <1>8, <1>10, <1>11, <1>19 DEF SoundNow
  <2>6. \A id \in DOMAIN made' : made'[id].at <= step'  BY <1>1, <1>18
  <2> QED  BY <2>1, <2>2, <2>3, <2>4, <2>5, <2>6 DEF SoundNow

LEMMA CancelIsSound ==
  ASSUME SoundNow, NEW id, CancelDelayedEvent(id)
  PROVE  SoundNow'
<1>1. /\ delayed' = Without(delayed, id)
      /\ removed' = removed \cup IdsOf(ToSet(delayed) \ ToSet(delayed'))
      /\ UNCHANGED <<step, next_id, next_timer, queued, next_event, made, delivered>>
  BY DEF CancelDelayedEvent, IdsOf
<1>2. delayed \in Seq(Entries) /\ InOrder(delayed)  BY DEF SoundNow
<1>3. delayed' \in Seq(Entries) /\ InOrder(delayed') /\ ToSet(delayed') \subseteq ToSet(delayed)
  BY <1>1, <1>2, WithoutFacts
<1>4. Waits(ToSet(delayed'), made, TRUE, next_timer, step)
  BY <1>3 DEF SoundNow, Waits
<1>5. \A d, e \in ToSet(delayed) : d.id = e.id => d = e
  BY Bounds, WaitsUnique DEF SoundNow
<1>6. Parts(1 .. next_id - 1, IdsOf(ToSet(delayed')), IdsOf(ToSet(queued)),
            IdsOf(ToSet(delivered)), removed')
  <2> DEFINE left == ToSet(delayed')
             gone == ToSet(delayed) \ ToSet(delayed')
  <2>1. left \in SUBSET ToSet(delayed) /\ gone \in SUBSET ToSet(delayed) /\ left \cap gone = {}
        /\ ToSet(delayed) = left \cup gone
    BY <1>3
  <2> HIDE DEF left, gone
  <2>2. IdsOf(left) \cap IdsOf(gone) = {} /\ IdsOf(ToSet(delayed)) = IdsOf(left) \cup IdsOf(gone)
    BY <1>5, <2>1 DEF IdsOf
  <2>3. Parts(1 .. next_id - 1, IdsOf(ToSet(delayed)), IdsOf(ToSet(queued)),
              IdsOf(ToSet(delivered)), removed)
    BY DEF SoundNow
  <2>4. removed' = removed \cup IdsOf(gone)  BY <1>1 DEF gone
  <2>5. Parts(1 .. next_id - 1, IdsOf(left), IdsOf(ToSet(queued)),
              IdsOf(ToSet(delivered)), removed')
    BY <2>2, <2>3, <2>4 DEF Parts
  <2> QED  BY <2>5 DEF left
<1> QED  BY <1>1, <1>3, <1>4, <1>6 DEF SoundNow

LEMMA TickIsSound ==
  ASSUME SoundNow, NEW cancels \in Seq(Nat), NEW dues \in Seq(Steps), NEW emitted \in Nat,
         NEW fails, Tick(cancels, dues, emitted, fails)
  PROVE  SoundNow'
<1> DEFINE now == step + 1
           due == Due(delayed, now)
           waiting == Pushed(queued, next_event, due)
           ready == Ready(waiting, now)
           later == Later(waiting, now)
           kept == Pending(delayed, now)
           left == FoldLeft(Without, kept, cancels)
           timers == NewTimers(next_id, dues, next_timer)
           events == NewEvents(next_id + Len(dues), emitted, now)
           numbered == Numbered(events, next_event + Len(due))
           hands == [n \in DOMAIN ready |-> [id |-> ready[n].id, at |-> now]]
           came(S) == {e \in S : e.step <= now}
           comes(S) == {e \in S : e.step > now}
<1>1. /\ step < MaxStep /\ next_id + Len(dues) + emitted <= MaxEvent + 1
      /\ step' = now /\ next_id' = next_id + Len(dues) + emitted
      /\ delayed' = FoldLeft(Insert, left, timers) /\ next_timer' = next_timer + Len(dues)
      /\ queued' = Pushed(later, next_event + Len(due), events)
      /\ next_event' = next_event + Len(due) + emitted
      /\ made' = Grown(made, dues, emitted, now)
      /\ delivered' = delivered \o hands
      /\ removed' = removed \cup IdsOf(ToSet(kept) \ ToSet(left))
  <2>1. /\ step < MaxStep /\ next_id + Len(dues) + emitted <= MaxEvent + 1
        /\ step' = now /\ next_id' = next_id + Len(dues) + emitted
        /\ next_timer' = next_timer + Len(dues)
        /\ next_event' = next_event + Len(due) + emitted
    BY DEF Tick
  <2>2. delayed' = FoldLeft(Insert, left, timers)  BY DEF Tick, NewTimers
  <2>3. queued' = Pushed(later, next_event + Len(due), events)  BY DEF Tick, NewEvents
  <2>4. made' = Grown(made, dues, emitted, now)  BY DEF Tick, Grown
  <2>5. delivered' = delivered \o hands  BY DEF Tick
  <2>6. removed' = removed \cup IdsOf(ToSet(kept) \ ToSet(left))  BY DEF Tick, IdsOf
  <2> QED  BY <2>1, <2>2, <2>3, <2>4, <2>5, <2>6
<1>2. /\ step \in Nat /\ next_id \in Nat \ {0} /\ MaxStep \in Nat /\ MaxEvent \in Nat
      /\ Len(made) = next_id - 1 /\ DOMAIN made = 1 .. next_id - 1
      /\ ToSet(delayed) \in SUBSET Entries /\ ToSet(queued) \in SUBSET Entries
      /\ \A d \in ToSet(delayed) \cup ToSet(queued) :
           d.id \in DOMAIN made /\ Trigger(made, d.id) > step
      /\ \A d \in ToSet(delayed) : d.sequence < next_timer
      /\ \A d \in ToSet(queued) : d.sequence < next_event
  BY Bounds
<1>3. /\ next_event \in Nat /\ next_timer \in Nat /\ made \in Seq(MadeRecords)
      /\ queued \in Seq(Entries) /\ delayed \in Seq(Entries) /\ delivered \in Seq(Deliveries)
      /\ InOrder(delayed) /\ OnceEach(queued) /\ OnceEach(delivered)
      /\ Waits(ToSet(queued), made, FALSE, next_event, step)
      /\ Waits(ToSet(delayed), made, TRUE, next_timer, step)
      /\ \A id \in DOMAIN made : made[id].at <= step
      /\ Delivers(delivered, made, step)
  BY DEF SoundNow
<1>4. Parts(1 .. next_id - 1, IdsOf(ToSet(delayed)), IdsOf(ToSet(queued)),
            IdsOf(ToSet(delivered)), removed)
  BY DEF SoundNow
<1>5. now \in Nat /\ now = step + 1 /\ now \in Steps /\ now > step
  BY <1>1, <1>2 DEF Steps
<1>6. Len(dues) \in Nat /\ DOMAIN dues = 1 .. Len(dues)
      /\ \A n \in DOMAIN dues : dues[n] \in Steps /\ dues[n] \in Nat
  <2>1. Len(dues) \in Nat /\ DOMAIN dues = 1 .. Len(dues)
        /\ \A n \in DOMAIN dues : dues[n] \in Steps
    BY LenProperties, ElementOfSeq
  <2>2. \A t \in Steps : t \in Nat  BY DEF Steps
  <2> QED  BY <2>1, <2>2
<1>7. /\ due \in Seq(Entries) /\ ToSet(due) = came(ToSet(delayed))
      /\ kept \in Seq(Entries) /\ InOrder(kept) /\ ToSet(kept) = comes(ToSet(delayed))
  BY <1>3, <1>5, SplitFacts
<1>8. /\ left \in Seq(Entries) /\ InOrder(left) /\ ToSet(left) \subseteq ToSet(kept)
  BY <1>7, WithoutAllFacts
<1>9. IdsOf(ToSet(queued)) \cap IdsOf(ToSet(delayed)) = {}  BY <1>4 DEF Parts
<1>10. /\ ready \in Seq(Entries) /\ OnceEach(ready)
       /\ IdsOf(ToSet(ready)) = IdsOf(came(ToSet(queued))) \cup IdsOf(came(ToSet(delayed)))
       /\ \A n \in DOMAIN ready : ready[n].id \in DOMAIN made /\ Trigger(made, ready[n].id) = now
       /\ \A i, j \in DOMAIN ready : i < j => Precedes(made, ready[i].id, ready[j].id)
       /\ later \in Seq(Entries) /\ InOrder(later)
       /\ ToSet(later) = comes(ToSet(queued))
  <2>1. BeforeTick(queued, delayed, made, next_timer, next_event, step)
    BY <1>2, <1>3, <1>9 DEF BeforeTick
  <2>2. HandsOver(ready, later, queued, delayed, made, now)  BY <2>1, ReadyFacts
  <2> HIDE DEF now, ready, later
  <2> QED  BY <2>2 DEF HandsOver
<1>11. Len(due) \in Nat  BY <1>7, LenProperties
<1> HIDE DEF now, due, kept, left, waiting, ready, later
<1>12. /\ timers \in Seq(Entries) /\ DOMAIN timers = DOMAIN dues
       /\ \A n \in DOMAIN dues : timers[n] = Entry(next_id + n - 1, dues[n], next_timer + n - 1)
  BY <1>2, <1>3, NewTimersFacts
<1>13. /\ events \in Seq(Entries) /\ DOMAIN events = 1 .. emitted
       /\ \A n \in 1 .. emitted : events[n] = Event(next_id + Len(dues) + n - 1, now)
  <2>1. next_id + Len(dues) \in Nat \ {0}  BY <1>2, <1>6
  <2> QED  BY <1>5, <2>1, NewEventsFacts
<1> HIDE DEF timers, events
<1>14. /\ made' \in Seq(MadeRecords) /\ Len(made') = Len(made) + Len(dues) + emitted
       /\ Extends(made, made')
       /\ \A n \in DOMAIN dues : /\ Len(made) + n \in DOMAIN made'
                                 /\ made'[Len(made) + n] = Made(TRUE, dues[n], now)
       /\ \A n \in 1 .. emitted : /\ Len(made) + Len(dues) + n \in DOMAIN made'
                                  /\ made'[Len(made) + Len(dues) + n] = Made(FALSE, now, now)
       /\ \A id \in DOMAIN made' : id \in DOMAIN made \/ made'[id].at = now
  <2>1. made' = Grown(made, dues, emitted, now)  BY <1>1
  <2>2. made \in Seq(MadeRecords) /\ now \in Steps  BY <1>3, <1>5
  <2>3. GrownTo(made, made', dues, emitted, now)  BY <2>1, <2>2, GrownFacts
  <2> QED  BY <2>3 DEF GrownTo
<1>15. ASSUME NEW e \in ToSet(timers)
       PROVE  \E n \in DOMAIN dues : /\ e = timers[n] /\ e \in Entries
                                     /\ e.id = Len(made) + n /\ e.step = dues[n]
                                     /\ e.sequence = next_timer + n - 1
                                     /\ e.id \in DOMAIN made'
                                     /\ made'[e.id] = Made(TRUE, dues[n], now)
  <2>1. PICK n \in DOMAIN dues : e = timers[n]  BY <1>12 DEF ToSet
  <2>2. e.id = next_id + n - 1 /\ e.step = dues[n] /\ e.sequence = next_timer + n - 1
    BY <1>12, <2>1 DEF Entry
  <2>3. e.id = Len(made) + n  BY <1>2, <1>6, <2>2
  <2>4. e \in Entries  BY <1>12, <2>1, ElementOfSeq
  <2> QED  BY <1>14, <2>1, <2>2, <2>3, <2>4
<1>16. /\ numbered \in Seq(Entries) /\ DOMAIN numbered = 1 .. emitted
       /\ \A n \in 1 .. emitted : /\ numbered[n].id = Len(made) + Len(dues) + n
                                  /\ numbered[n].step = now
                                  /\ numbered[n].sequence = next_event + Len(due) + n - 1
  <2>1. /\ numbered \in Seq(Entries) /\ DOMAIN numbered = DOMAIN events
        /\ \A n \in DOMAIN events : /\ numbered[n].id = events[n].id
                                    /\ numbered[n].step = events[n].step
                                    /\ numbered[n].sequence = (next_event + Len(due)) + n - 1
    <3>1. next_event + Len(due) \in Nat  BY <1>3, <1>11
    <3> QED  BY <1>13, <3>1, NumberedFacts
  <2> HIDE DEF numbered
  <2>2. ASSUME NEW n \in 1 .. emitted
        PROVE  events[n].id = Len(made) + Len(dues) + n /\ events[n].step = now
    <3>1. events[n].id = next_id + Len(dues) + n - 1 /\ events[n].step = now
      BY <1>13 DEF Event, Entry
    <3> QED  BY <1>2, <1>6, <3>1
  <2> QED  BY <1>13, <2>1, <2>2
<1>17. queued' = later \o numbered /\ queued' \in Seq(Entries)
  <2>1. next_event + Len(due) \in Nat  BY <1>3, <1>11
  <2> QED  BY <1>1, <1>10, <1>13, <2>1, PushedFacts
<1> HIDE DEF numbered
<1>18. ASSUME NEW e \in ToSet(numbered)
       PROVE  \E n \in 1 .. emitted : /\ e = numbered[n] /\ e \in Entries
                                      /\ e.id = Len(made) + Len(dues) + n /\ e.step = now
                                      /\ e.sequence = next_event + Len(due) + n - 1
                                      /\ e.id \in DOMAIN made'
                                      /\ made'[e.id] = Made(FALSE, now, now)
  <2>1. PICK n \in 1 .. emitted : e = numbered[n]  BY <1>16 DEF ToSet
  <2>2. e \in Entries  BY <1>16, <2>1, ElementOfSeq
  <2> QED  BY <1>14, <1>16, <2>1, <2>2
<1>19. \A n : /\ Made(TRUE, n, now).timer = TRUE /\ Made(TRUE, n, now).due = n
              /\ Made(TRUE, n, now).at = now /\ Made(FALSE, now, now).timer = FALSE
              /\ Made(FALSE, now, now).due = now /\ Made(FALSE, now, now).at = now
  BY DEF Made
<1>20. \A e \in ToSet(kept) : e \in ToSet(delayed) /\ e.step > now /\ e \in Entries
  BY <1>2, <1>7
<1>21. \A e \in ToSet(later) : e \in ToSet(queued) /\ e.step > now /\ e \in Entries
  BY <1>2, <1>10
(* What stays waits for a later tick. *)
<1>22. ASSUME NEW e \in ToSet(kept) \cup ToSet(later)
       PROVE  Trigger(made, e.id) > now
  <2>1. e.id \in DOMAIN made /\ e.step > now /\ made[e.id].due = e.step
    BY <1>2, <1>3, <1>20, <1>21 DEF Waits
  <2>2. Trigger(made, e.id) \in Nat /\ made[e.id].due \in Nat
        /\ Trigger(made, e.id) >= made[e.id].due
    BY <1>3, <2>1, TriggerType
  <2> QED  BY <1>5, <2>1, <2>2
<1>23. delayed' \in Seq(Entries) /\ InOrder(delayed') /\ ToSet(delayed') = ToSet(left) \cup ToSet(timers)
  <2>1. \A i, j \in DOMAIN timers :
          i # j => Before(timers[i], timers[j]) \/ Before(timers[j], timers[i])
    <3> SUFFICES ASSUME NEW i \in DOMAIN timers, NEW j \in DOMAIN timers, i # j
                 PROVE  Before(timers[i], timers[j]) \/ Before(timers[j], timers[i])
      OBVIOUS
    <3>1. timers[i] \in Entries /\ timers[j] \in Entries /\ i \in Nat /\ j \in Nat
      BY <1>6, <1>12, ElementOfSeq
    <3>2. timers[i].sequence = next_timer + i - 1 /\ timers[j].sequence = next_timer + j - 1
      BY <1>12 DEF Entry
    <3>3. timers[i].sequence # timers[j].sequence  BY <1>3, <3>1, <3>2
    <3> QED  BY <3>1, <3>3 DEF Before, Entries
  <2>2. \A d \in ToSet(left), i \in DOMAIN timers : Before(d, timers[i]) \/ Before(timers[i], d)
    <3> SUFFICES ASSUME NEW d \in ToSet(left), NEW i \in DOMAIN timers
                 PROVE  Before(d, timers[i]) \/ Before(timers[i], d)
      OBVIOUS
    <3>1. d \in Entries /\ d.sequence < next_timer  BY <1>2, <1>8, <1>20
    <3>2. timers[i] \in Entries /\ i \in Nat \ {0} /\ timers[i].sequence = next_timer + i - 1
      BY <1>6, <1>12, ElementOfSeq DEF Entry
    <3>3. d.sequence \in Nat /\ d.sequence < timers[i].sequence
      BY <1>3, <3>1, <3>2 DEF Entries
    <3> QED  BY <3>1, <3>2, <3>3 DEF Before, Entries
  <2>3. LET r == FoldLeft(Insert, left, timers)
        IN  r \in Seq(Entries) /\ InOrder(r) /\ ToSet(r) = ToSet(left) \cup ToSet(timers)
    BY <1>8, <1>12, <2>1, <2>2, InsertAllFacts
  <2> QED  BY <1>1, <2>3
<1>24. OnceEach(queued') /\ ToSet(queued') = ToSet(later) \cup ToSet(numbered)
  <2>1. OnceEach(later)
    <3>1. \A d, e \in ToSet(later) : d.id = e.id => d = e
      BY <1>2, <1>3, <1>21, WaitsUnique
    <3> QED  BY <1>10, <3>1, OrderedOnce
  <2>2. OnceEach(numbered)
    <3>1. Len(made) + Len(dues) \in Nat  BY <1>2, <1>6
    <3> QED  BY <1>16, <3>1 DEF OnceEach
  <2>3. ASSUME NEW i \in DOMAIN later, NEW j \in DOMAIN numbered PROVE later[i].id # numbered[j].id
    <3>1. later[i] \in ToSet(later)  BY DEF ToSet
    <3>2. later[i].id \in 1 .. next_id - 1  BY <1>2, <1>21, <3>1
    <3>3. numbered[j].id = Len(made) + Len(dues) + j /\ j \in Nat \ {0}  BY <1>16
    <3>4. Len(made) = next_id - 1 /\ next_id \in Nat /\ Len(dues) \in Nat  BY <1>2, <1>6
    <3>5. later[i].id <= Len(made) /\ later[i].id \in Nat  BY <3>2, <3>4
    <3>6. numbered[j].id > Len(made)  BY <3>3, <3>4
    <3> QED  BY <3>4, <3>5, <3>6
  <2>4. later \in Seq(Entries) /\ numbered \in Seq(Entries)  BY <1>10, <1>16
  <2>5. OnceEach(later \o numbered)
        /\ ToSet(later \o numbered) = ToSet(later) \cup ToSet(numbered)
    BY <2>1, <2>2, <2>3, <2>4, OnceMore
  <2> QED  BY <1>17, <2>5
<1>25. Waits(ToSet(delayed'), made', TRUE, next_timer', now)
  <2> DEFINE T == ToSet(timers)
             R == ToSet(left)
             next2 == next_timer + Len(dues)
  <2>1. R \in SUBSET ToSet(delayed) /\ \A e \in R : Trigger(made, e.id) > now
    BY <1>8, <1>20, <1>22
  <2>2. T \in SUBSET Entries  BY <1>15
  <2>3. ASSUME NEW e \in T
        PROVE  /\ e.id > Len(made) /\ e.id \in DOMAIN made'
               /\ made'[e.id].timer = TRUE /\ made'[e.id].due = e.step
               /\ next_timer <= e.sequence /\ e.sequence < next2
               /\ Trigger(made', e.id) > now
    <3>1. PICK n \in DOMAIN dues : /\ e.id = Len(made) + n /\ e.step = dues[n]
                                   /\ e.sequence = next_timer + n - 1
                                   /\ e.id \in DOMAIN made'
                                   /\ made'[e.id] = Made(TRUE, dues[n], now)
      BY <1>15
    <3>2. e.id > Len(made) /\ next_timer <= e.sequence /\ e.sequence < next2
      BY <1>2, <1>3, <1>6, <3>1
    <3>3. made'[e.id].timer = TRUE /\ made'[e.id].due = e.step /\ made'[e.id].at = now
      BY <1>19, <3>1
    <3>4. Trigger(made', e.id) > now  BY <1>14, <3>1, <3>3, TriggerType
    <3> QED  BY <3>1, <3>2, <3>3, <3>4
  <2>4. ASSUME NEW d \in T, NEW e \in T PROVE d.id < e.id <=> d.sequence < e.sequence
    <3>1. PICK i \in 1 .. Len(dues) : d.id = Len(made) + i /\ d.sequence = next_timer + i - 1
      BY <1>6, <1>15
    <3>2. PICK j \in 1 .. Len(dues) : e.id = Len(made) + j /\ e.sequence = next_timer + j - 1
      BY <1>6, <1>15
    <3> QED  BY <1>2, <1>3, <1>6, <3>1, <3>2
  <2>5. next2 \in Nat /\ next_timer <= next2 /\ TRUE \in BOOLEAN  BY <1>3, <1>6
  <2> HIDE DEF T, R, next2
  <2>6. Waits(R \cup T, made', TRUE, next2, now)
    <3>1. /\ ToSet(delayed) \in SUBSET Entries /\ made \in Seq(MadeRecords)
          /\ next_timer \in Nat /\ step \in Nat /\ now \in Nat
          /\ Waits(ToSet(delayed), made, TRUE, next_timer, step) /\ Extends(made, made')
      BY <1>2, <1>3, <1>5, <1>14
    <3> QED  BY <2>1, <2>2, <2>3, <2>4, <2>5, <3>1, WaitsMore
  <2> QED  BY <1>1, <1>23, <2>6 DEF T, R, next2
<1>26. Waits(ToSet(queued'), made', FALSE, next_event', now)
  <2> DEFINE T == ToSet(numbered)
             R == ToSet(later)
             next2 == next_event + Len(due) + emitted
  <2>1. R \in SUBSET ToSet(queued) /\ \A e \in R : Trigger(made, e.id) > now
    BY <1>21, <1>22
  <2>2. T \in SUBSET Entries  BY <1>18
  <2>3. ASSUME NEW e \in T
        PROVE  /\ e.id > Len(made) /\ e.id \in DOMAIN made'
               /\ made'[e.id].timer = FALSE /\ made'[e.id].due = e.step
               /\ next_event <= e.sequence /\ e.sequence < next2
               /\ Trigger(made', e.id) > now
    <3>1. PICK n \in 1 .. emitted : /\ e.id = Len(made) + Len(dues) + n /\ e.step = now
                                    /\ e.sequence = next_event + Len(due) + n - 1
                                    /\ e.id \in DOMAIN made'
                                    /\ made'[e.id] = Made(FALSE, now, now)
      BY <1>18
    <3>2. e.id > Len(made) /\ next_event <= e.sequence /\ e.sequence < next2
      BY <1>2, <1>3, <1>6, <1>11, <3>1
    <3>3. made'[e.id].timer = FALSE /\ made'[e.id].due = e.step /\ made'[e.id].at = now
      BY <1>19, <3>1
    <3>4. Trigger(made', e.id) > now  BY <1>14, <3>1, <3>3, TriggerType
    <3> QED  BY <3>1, <3>2, <3>3, <3>4
  <2>4. ASSUME NEW d \in T, NEW e \in T PROVE d.id < e.id <=> d.sequence < e.sequence
    <3>1. PICK i \in 1 .. emitted : /\ d.id = Len(made) + Len(dues) + i
                                    /\ d.sequence = next_event + Len(due) + i - 1
      BY <1>18
    <3>2. PICK j \in 1 .. emitted : /\ e.id = Len(made) + Len(dues) + j
                                    /\ e.sequence = next_event + Len(due) + j - 1
      BY <1>18
    <3> QED  BY <1>2, <1>3, <1>6, <1>11, <3>1, <3>2
  <2>5. next2 \in Nat /\ next_event <= next2 /\ FALSE \in BOOLEAN  BY <1>3, <1>11
  <2> HIDE DEF T, R, next2
  <2>6. Waits(R \cup T, made', FALSE, next2, now)
    <3>1. /\ ToSet(queued) \in SUBSET Entries /\ made \in Seq(MadeRecords)
          /\ next_event \in Nat /\ step \in Nat /\ now \in Nat
          /\ Waits(ToSet(queued), made, FALSE, next_event, step) /\ Extends(made, made')
      BY <1>2, <1>3, <1>5, <1>14
    <3> QED  BY <2>1, <2>2, <2>3, <2>4, <2>5, <3>1, WaitsMore
  <2> QED  BY <1>1, <1>24, <2>6 DEF T, R, next2
<1>27. /\ hands \in Seq(Deliveries) /\ DOMAIN hands = DOMAIN ready
       /\ \A n \in DOMAIN ready : hands[n].id = ready[n].id /\ hands[n].at = now
  <2>1. Len(ready) \in Nat /\ DOMAIN ready = 1 .. Len(ready)  BY <1>10, LenProperties
  <2>2. \A n \in DOMAIN ready : ready[n].id \in Nat  BY <1>2, <1>10
  <2>3. hands \in [1 .. Len(ready) -> Deliveries]  BY <1>5, <2>1, <2>2 DEF Deliveries
  <2>4. \A n \in DOMAIN ready : hands[n].id = ready[n].id /\ hands[n].at = now  OBVIOUS
  <2>5. DOMAIN hands = DOMAIN ready  OBVIOUS
  <2> HIDE DEF hands
  <2> QED  BY <2>1, <2>3, <2>4, <2>5, SeqByIndex
<1> HIDE DEF hands
<1>28. Delivers(delivered', made', now)
  <2>1. \A n \in DOMAIN hands : /\ hands[n].id \in DOMAIN made /\ hands[n].at = step + 1
                                /\ Trigger(made, hands[n].id) = step + 1
    BY <1>5, <1>10, <1>27
  <2>2. \A i, j \in DOMAIN hands : i < j => Precedes(made, hands[i].id, hands[j].id)
    BY <1>10, <1>27
  <2>3. Delivers(delivered \o hands, made', step + 1)
    BY <1>2, <1>3, <1>14, <1>27, <2>1, <2>2, DeliversMore
  <2> QED  BY <1>1, <1>5, <2>3
<1>29. IdsOf(ToSet(hands)) = IdsOf(ToSet(ready))
  <2>1. \A n \in DOMAIN ready : ready[n] \in ToSet(ready) /\ hands[n] \in ToSet(hands)
    BY <1>27 DEF ToSet
  <2>2. IdsOf(ToSet(hands)) \subseteq IdsOf(ToSet(ready))
    <3> SUFFICES ASSUME NEW n \in DOMAIN hands PROVE hands[n].id \in IdsOf(ToSet(ready))
      BY DEF IdsOf, ToSet
    <3> QED  BY <1>27, <2>1 DEF IdsOf
  <2>3. IdsOf(ToSet(ready)) \subseteq IdsOf(ToSet(hands))
    <3> SUFFICES ASSUME NEW n \in DOMAIN ready PROVE ready[n].id \in IdsOf(ToSet(hands))
      BY DEF IdsOf, ToSet
    <3>1. ready[n].id = hands[n].id  BY <1>27
    <3> QED  BY <2>1, <3>1 DEF IdsOf
  <2> QED  BY <2>2, <2>3
<1>30. OnceEach(delivered') /\ ToSet(delivered') = ToSet(delivered) \cup ToSet(hands)
       /\ delivered' \in Seq(Deliveries)
  <2>1. OnceEach(hands)  BY <1>10, <1>27 DEF OnceEach
  <2>2. ASSUME NEW i \in DOMAIN delivered, NEW j \in DOMAIN hands
        PROVE  delivered[i].id # hands[j].id
    <3>1. delivered[i].id \in IdsOf(ToSet(delivered))  BY DEF IdsOf, ToSet
    <3>2. hands[j].id \in IdsOf(ToSet(ready))  BY <1>29 DEF IdsOf, ToSet
    <3>3. IdsOf(ToSet(ready)) \subseteq IdsOf(ToSet(queued)) \cup IdsOf(ToSet(delayed))
      BY <1>10 DEF IdsOf
    <3> QED  BY <1>4, <3>1, <3>2, <3>3 DEF Parts
  <2>3. OnceEach(delivered \o hands) /\ ToSet(delivered \o hands) = ToSet(delivered) \cup ToSet(hands)
    BY <1>3, <1>27, <2>1, <2>2, OnceMore
  <2>4. delivered \o hands \in Seq(Deliveries)  BY <1>3, <1>27, ConcatProperties
  <2> QED  BY <1>1, <2>3, <2>4
<1>31. Parts(1 .. next_id' - 1, IdsOf(ToSet(delayed')), IdsOf(ToSet(queued')),
             IdsOf(ToSet(delivered')), removed')
  <2> DEFINE whole == 1 .. next_id - 1
             a1 == IdsOf(ToSet(left))
             a2 == IdsOf(ToSet(kept) \ ToSet(left))
             a3 == IdsOf(came(ToSet(delayed)))
             b1 == IdsOf(ToSet(later))
             b2 == IdsOf(came(ToSet(queued)))
             x == IdsOf(ToSet(timers))
             y == IdsOf(ToSet(numbered))
  <2>1. \A d, e \in ToSet(delayed) : d.id = e.id => d = e  BY <1>2, <1>3, WaitsUnique
  <2>2. \A d, e \in ToSet(queued) : d.id = e.id => d = e  BY <1>2, <1>3, WaitsUnique
  <2>3. \A e \in ToSet(delayed) \cup ToSet(queued) :
          (e.step <= now) = ~ (e.step > now)
    <3> SUFFICES ASSUME NEW e \in ToSet(delayed) \cup ToSet(queued)
                 PROVE  (e.step <= now) = ~ (e.step > now)
      OBVIOUS
    <3>1. e \in Entries  BY <1>2
    <3>2. e.step \in Nat  BY <3>1 DEF Entries
    <3> QED  BY <1>5, <3>2
  <2>4. IdsOf(ToSet(delayed)) = a1 \cup a2 \cup a3
    BY <1>7, <1>8, <2>3 DEF IdsOf
  <2>5. a1 \cap a2 = {} /\ a1 \cap a3 = {} /\ a2 \cap a3 = {}
    <3> DEFINE A1 == ToSet(left)
               A2 == ToSet(kept) \ ToSet(left)
               A3 == came(ToSet(delayed))
    <3>1. /\ A1 \subseteq ToSet(delayed) /\ A2 \subseteq ToSet(delayed) /\ A3 \subseteq ToSet(delayed)
          /\ A1 \cap A2 = {} /\ A1 \cap A3 = {} /\ A2 \cap A3 = {}
      BY <1>7, <1>8, <2>3
    <3> HIDE DEF A1, A2, A3
    <3>2. IdsOf(A1) \cap IdsOf(A2) = {}  BY <2>1, <3>1 DEF IdsOf
    <3>3. IdsOf(A1) \cap IdsOf(A3) = {}  BY <2>1, <3>1 DEF IdsOf
    <3>4. IdsOf(A2) \cap IdsOf(A3) = {}  BY <2>1, <3>1 DEF IdsOf
    <3> QED  BY <3>2, <3>3, <3>4 DEF A1, A2, A3
  <2>6. IdsOf(ToSet(queued)) = b1 \cup b2 /\ b1 \cap b2 = {}
    BY <1>10, <2>2, <2>3 DEF IdsOf
  <2>7. x = next_id .. next_id + Len(dues) - 1
    <3>1. x \subseteq next_id .. next_id + Len(dues) - 1
      <4> SUFFICES ASSUME NEW e \in ToSet(timers) PROVE e.id \in next_id .. next_id + Len(dues) - 1
        BY DEF IdsOf
      <4>1. PICK n \in DOMAIN dues : e.id = Len(made) + n  BY <1>15
      <4> QED  BY <1>2, <1>6, <4>1
    <3>2. next_id .. next_id + Len(dues) - 1 \subseteq x
      <4> SUFFICES ASSUME NEW id \in next_id .. next_id + Len(dues) - 1 PROVE id \in x
        OBVIOUS
      <4>1. id - next_id + 1 \in DOMAIN dues /\ next_id + (id - next_id + 1) - 1 = id
        BY <1>2, <1>6
      <4>2. timers[id - next_id + 1].id = next_id + (id - next_id + 1) - 1
        BY <1>12, <4>1 DEF Entry
      <4>3. timers[id - next_id + 1] \in ToSet(timers)  BY <1>12, <4>1 DEF ToSet
      <4> QED  BY <4>1, <4>2, <4>3 DEF IdsOf
    <3> QED  BY <3>1, <3>2
  <2>8. y = next_id + Len(dues) .. next_id + Len(dues) + emitted - 1
    <3>1. y \subseteq next_id + Len(dues) .. next_id + Len(dues) + emitted - 1
      <4> SUFFICES ASSUME NEW e \in ToSet(numbered)
                   PROVE  e.id \in next_id + Len(dues) .. next_id + Len(dues) + emitted - 1
        BY DEF IdsOf
      <4>1. PICK n \in 1 .. emitted : e.id = Len(made) + Len(dues) + n  BY <1>18
      <4> QED  BY <1>2, <1>6, <4>1
    <3>2. next_id + Len(dues) .. next_id + Len(dues) + emitted - 1 \subseteq y
      <4> SUFFICES ASSUME NEW id \in next_id + Len(dues) .. next_id + Len(dues) + emitted - 1
                   PROVE  id \in y
        OBVIOUS
      <4> DEFINE n == id - next_id - Len(dues) + 1
      <4>1. n \in 1 .. emitted /\ Len(made) + Len(dues) + n = id
        BY <1>2, <1>6
      <4> HIDE DEF n
      <4>2. numbered[n].id = id  BY <1>16, <4>1
      <4>3. numbered[n] \in ToSet(numbered)  BY <1>16, <4>1 DEF ToSet
      <4> QED  BY <4>2, <4>3 DEF IdsOf
    <3> QED  BY <3>1, <3>2
  <2>9. /\ 1 .. next_id' - 1 = whole \cup x \cup y
        /\ x \cap whole = {} /\ y \cap whole = {} /\ x \cap y = {}
    <3> HIDE DEF x, y
    <3>1. next_id' - 1 = next_id + Len(dues) + emitted - 1  BY <1>1, <1>2, <1>6
    <3> QED  BY <1>2, <1>6, <2>7, <2>8, <3>1, Intervals
  <2>10. /\ IdsOf(ToSet(delayed')) = a1 \cup x
         /\ IdsOf(ToSet(queued')) = b1 \cup y
    BY <1>23, <1>24 DEF IdsOf
  <2>11. IdsOf(ToSet(delivered')) = IdsOf(ToSet(delivered)) \cup (b2 \cup a3)
    <3>1. IdsOf(ToSet(delivered')) = IdsOf(ToSet(delivered)) \cup IdsOf(ToSet(hands))
      BY <1>30 DEF IdsOf
    <3> QED  BY <1>10, <1>29, <3>1
  <2>12. removed' = removed \cup a2  BY <1>1
  <2>13. Parts(whole, IdsOf(ToSet(delayed)), IdsOf(ToSet(queued)), IdsOf(ToSet(delivered)), removed)
    BY <1>4
  <2> HIDE DEF whole, a1, a2, a3, b1, b2, x, y
  <2>14. Parts(whole \cup x \cup y, a1 \cup x, b1 \cup y,
               IdsOf(ToSet(delivered)) \cup (b2 \cup a3), removed \cup a2)
    BY <2>4, <2>5, <2>6, <2>9, <2>13, PartsMove
  <2> QED  BY <2>9, <2>10, <2>11, <2>12, <2>14
<1>32. \A id \in DOMAIN made' : made'[id].at <= now
  <2>1. \A id \in DOMAIN made : made'[id].at <= step /\ made'[id].at \in Nat
    BY <1>3, <1>14, TriggerType DEF Extends
  <2> QED  BY <1>2, <1>5, <1>14, <2>1
<1> QED
  <2>1. /\ step' \in Steps /\ next_id' \in 1 .. MaxEvent + 1
        /\ next_timer' \in Nat /\ next_event' \in Nat
        /\ Len(made') = next_id' - 1
    <3>1. step' \in Steps  BY <1>1, <1>5
    <3>2. next_id' \in 1 .. MaxEvent + 1 /\ Len(made') = next_id' - 1
      BY <1>1, <1>2, <1>6, <1>14
    <3>3. next_timer' \in Nat /\ next_event' \in Nat  BY <1>1, <1>3, <1>6, <1>11
    <3> QED  BY <3>1, <3>2, <3>3
  <2>2. step' = now  BY <1>1
  <2>3. /\ Waits(ToSet(delayed'), made', TRUE, next_timer', step')
        /\ Waits(ToSet(queued'), made', FALSE, next_event', step')
        /\ Delivers(delivered', made', step')
        /\ \A id \in DOMAIN made' : made'[id].at <= step'
    BY <1>25, <1>26, <1>28, <1>32, <2>2
  <2>4. /\ delayed' \in Seq(Entries) /\ queued' \in Seq(Entries)
        /\ made' \in Seq(MadeRecords) /\ delivered' \in Seq(Deliveries)
        /\ InOrder(delayed') /\ OnceEach(queued') /\ OnceEach(delivered')
    BY <1>14, <1>17, <1>23, <1>24, <1>30
  <2> QED  BY <1>31, <2>1, <2>3, <2>4 DEF SoundNow

LEMMA LoadedFacts ==
  ASSUME NEW q \in Seq(Entries), InOrder(q), NEW order \in Bijection(DOMAIN q, DOMAIN q)
  PROVE  LET r == Normalized([i \in DOMAIN q |-> q[order[i]]])
         IN  r \in Seq(Entries) /\ InOrder(r) /\ ToSet(r) = ToSet(q)
<1> DEFINE n == Len(q)
           p == [i \in DOMAIN q |-> q[order[i]]]
<1>1. n \in Nat /\ DOMAIN q = 1 .. n /\ \A i \in 1 .. n : q[i] \in Entries
  BY LenProperties, ElementOfSeq
<1> HIDE DEF n
<1>2. order \in [1 .. n -> 1 .. n] /\ \A j \in 1 .. n : \E i \in 1 .. n : order[i] = j
  BY <1>1 DEF Bijection, Surjection
<1>3. \A i, j \in 1 .. n : order[i] = order[j] => i = j
  BY <1>1 DEF Bijection, Injection, IsInjective
<1>4. p \in Seq(Entries) /\ DOMAIN p = 1 .. n /\ \A i \in 1 .. n : p[i] = q[order[i]]
  <2>1. \A i \in 1 .. n : p[i] = q[order[i]]  BY <1>1
  <2>2. p \in [1 .. n -> Entries]  BY <1>1, <1>2
  <2> HIDE DEF p
  <2> QED  BY <1>1, <2>1, <2>2, SeqByIndex
<1>5. \A i, j \in DOMAIN p : i # j => Before(p[i], p[j]) \/ Before(p[j], p[i])
  <2> SUFFICES ASSUME NEW i \in 1 .. n, NEW j \in 1 .. n, i # j
               PROVE  Before(p[i], p[j]) \/ Before(p[j], p[i])
    BY <1>4
  <2>1. order[i] \in 1 .. n /\ order[j] \in 1 .. n /\ order[i] # order[j]  BY <1>2, <1>3
  <2>2. order[i] < order[j] \/ order[j] < order[i]  BY <2>1
  <2>3. Before(q[order[i]], q[order[j]]) \/ Before(q[order[j]], q[order[i]])
    BY <1>1, <2>1, <2>2 DEF InOrder
  <2> HIDE DEF p
  <2> QED  BY <1>4, <2>3
<1>6. ToSet(p) = ToSet(q)
  <2> HIDE DEF p
  <2>1. \A i \in 1 .. n : p[i] \in ToSet(q)  BY <1>1, <1>2, <1>4 DEF ToSet
  <2>2. \A j \in 1 .. n : q[j] \in ToSet(p)
    <3> SUFFICES ASSUME NEW j \in 1 .. n PROVE q[j] \in ToSet(p)  OBVIOUS
    <3>1. PICK i \in 1 .. n : order[i] = j  BY <1>2
    <3>2. p[i] = q[j]  BY <1>4, <3>1
    <3> QED  BY <1>4, <3>2 DEF ToSet
  <2> QED  BY <1>1, <1>4, <2>1, <2>2 DEF ToSet
<1> HIDE DEF p
<1>7. Sorted(p) \in Seq(Entries) /\ InOrder(Sorted(p)) /\ ToSet(Sorted(p)) = ToSet(p)
  BY <1>4, <1>5, SortedFacts
<1>8. Normalized(p) = Sorted(p)  BY DEF Normalized
<1>9. Normalized(p) \in Seq(Entries) /\ InOrder(Normalized(p)) /\ ToSet(Normalized(p)) = ToSet(q)
  BY <1>6, <1>7, <1>8
<1> QED  BY <1>9 DEF p

(* A restore depends on the timers of the save, not on how they are written. *)
LEMMA RestoreIsSound ==
  ASSUME NEW s, Sound(s), NEW timers \in Seq(Entries), InOrder(timers),
         ToSet(timers) = ToSet(s.delayed), RestoreWith(s, timers)
  PROVE  SoundNow'
<1>1. /\ step' = s.step /\ next_id' = s.next_id /\ delayed' = timers
      /\ next_timer' = s.next_timer /\ queued' = s.queued /\ next_event' = s.next_event
      /\ made' = s.made /\ delivered' = s.delivered /\ removed' = s.removed
  BY DEF RestoreWith
<1>2. ToSet(delayed') = ToSet(s.delayed)  BY <1>1
<1>3. /\ Waits(ToSet(delayed'), made', TRUE, next_timer', step')
      /\ Waits(ToSet(queued'), made', FALSE, next_event', step')
      /\ Delivers(delivered', made', step')
      /\ Parts(1 .. next_id' - 1, IdsOf(ToSet(delayed')), IdsOf(ToSet(queued')),
               IdsOf(ToSet(delivered')), removed')
      /\ \A id \in DOMAIN made' : made'[id].at <= step'
  BY <1>1, <1>2 DEF Sound, Shape
<1>4. /\ step' \in Steps /\ next_id' \in 1 .. MaxEvent + 1
      /\ next_timer' \in Nat /\ next_event' \in Nat
      /\ delayed' \in Seq(Entries) /\ queued' \in Seq(Entries)
      /\ made' \in Seq(MadeRecords) /\ Len(made') = next_id' - 1
      /\ delivered' \in Seq(Deliveries)
      /\ InOrder(delayed') /\ OnceEach(queued') /\ OnceEach(delivered')
  BY <1>1 DEF Sound, Shape
<1> QED  BY <1>3, <1>4 DEF SoundNow

LEMMA SmallSeq ==
  ASSUME NEW S, NEW q \in SeqOf(S, 1)
  PROVE  q \in Seq(S)
<1>1. PICK m \in 0 .. 1 : q \in [1 .. m -> S]  BY DEF SeqOf
<1> QED  BY <1>1, SeqByIndex

LEMMA NextIsSound ==
  ASSUME IInv, [Next]_vars
  PROVE  IInv'
<1>1. SoundNow /\ (\A s \in saved : Sound(s)) /\ failed \in BOOLEAN
  BY StateIsSound DEF IInv
<1>2. SUFFICES SoundNow' /\ (\A s \in saved' : Sound(s)) /\ failed' \in BOOLEAN
  <2>1. Sound(State)' <=> SoundNow'  BY DEF Sound, Shape, State, SoundNow
  <2> QED  BY <2>1 DEF IInv
<1>3. ASSUME NEW s \in Steps, PushEvent(s)
      PROVE  SoundNow' /\ (\A t \in saved' : Sound(t)) /\ failed' \in BOOLEAN
  <2>1. SoundNow'  BY <1>1, <1>3, PushIsSound
  <2> QED  BY <1>1, <1>3, <2>1 DEF PushEvent
<1>4. ASSUME NEW due \in Steps, ScheduleEvent(due)
      PROVE  SoundNow' /\ (\A t \in saved' : Sound(t)) /\ failed' \in BOOLEAN
  <2>1. SoundNow'  BY <1>1, <1>4, ScheduleIsSound
  <2> QED  BY <1>1, <1>4, <2>1 DEF ScheduleEvent
<1>5. ASSUME NEW id, CancelDelayedEvent(id)
      PROVE  SoundNow' /\ (\A t \in saved' : Sound(t)) /\ failed' \in BOOLEAN
  <2>1. SoundNow'  BY <1>1, <1>5, CancelIsSound
  <2> QED  BY <1>1, <1>5, <2>1 DEF CancelDelayedEvent
<1>6. ASSUME NEW dues \in SeqOf(Steps, 1), NEW emitted \in 0 .. 1, NEW fails \in BOOLEAN,
             NEW cancels \in SeqOf(1 .. next_id - 1 + Len(dues), 1),
             Tick(cancels, dues, emitted, fails)
      PROVE  SoundNow' /\ (\A t \in saved' : Sound(t)) /\ failed' \in BOOLEAN
  <2>1. dues \in Seq(Steps)  BY SmallSeq
  <2>2. cancels \in Seq(Nat)
    <3>1. PICK m \in 0 .. 1 : cancels \in [1 .. m -> 1 .. next_id - 1 + Len(dues)]  BY DEF SeqOf
    <3>2. cancels \in [1 .. m -> Nat]  BY <3>1
    <3> QED  BY <3>1, <3>2, SeqByIndex
  <2>3. emitted \in Nat  OBVIOUS
  <2>4. SoundNow'  BY <1>1, <1>6, <2>1, <2>2, <2>3, TickIsSound
  <2>5. failed' = fails /\ saved' = saved  BY <1>6 DEF Tick
  <2> QED  BY <1>1, <2>4, <2>5
<1>7. ASSUME Save
      PROVE  SoundNow' /\ (\A t \in saved' : Sound(t)) /\ failed' \in BOOLEAN
  <2>1. Sound(State)  BY <1>1, StateIsSound
  <2>2. saved' = {State}  BY <1>7 DEF Save
  <2>3. UNCHANGED <<step, failed, next_id, delayed, next_timer, queued, next_event,
                    made, delivered, removed>>
    BY <1>7 DEF Save, queueVars, historyVars
  <2> QED  BY <1>1, <2>1, <2>2, <2>3 DEF SoundNow
<1>8. ASSUME NEW s \in saved, RestoreSnapshot(s)
      PROVE  SoundNow' /\ (\A t \in saved' : Sound(t)) /\ failed' \in BOOLEAN
  <2>1. RestoreWith(s, s.delayed)  BY <1>8 DEF RestoreSnapshot
  <2>2. Sound(s)  BY <1>1
  <2>3. s.delayed \in Seq(Entries) /\ InOrder(s.delayed)  BY <2>2 DEF Sound, Shape
  <2>4. SoundNow'  BY <2>1, <2>2, <2>3, RestoreIsSound
  <2> QED  BY <1>1, <2>1, <2>4 DEF RestoreWith
<1>9. ASSUME NEW s \in saved, NEW order \in Bijection(DOMAIN s.delayed, DOMAIN s.delayed), Load(s, order)
      PROVE  SoundNow' /\ (\A t \in saved' : Sound(t)) /\ failed' \in BOOLEAN
  <2> DEFINE timers == Normalized([i \in DOMAIN s.delayed |-> s.delayed[order[i]]])
  <2>1. RestoreWith(s, timers)  BY <1>9 DEF Load
  <2>2. Sound(s)  BY <1>1
  <2>3. s.delayed \in Seq(Entries) /\ InOrder(s.delayed)  BY <2>2 DEF Sound, Shape
  <2>4. timers \in Seq(Entries) /\ InOrder(timers) /\ ToSet(timers) = ToSet(s.delayed)
    BY <2>3, LoadedFacts
  <2> HIDE DEF timers
  <2>5. SoundNow'  BY <2>1, <2>2, <2>4, RestoreIsSound
  <2> QED  BY <1>1, <2>1, <2>5 DEF RestoreWith
<1>10. ASSUME UNCHANGED vars
       PROVE  SoundNow' /\ (\A t \in saved' : Sound(t)) /\ failed' \in BOOLEAN
  BY <1>1, <1>10 DEF vars, queueVars, historyVars, SoundNow
<1> QED  BY <1>3, <1>4, <1>5, <1>6, <1>7, <1>8, <1>9, <1>10 DEF Next

-------------------------------------------------------------------------------
(* Theorems *)

(* The invariant holds: both queues hold only what is still to come, in an *)
(* order their sequence numbers agree with, through every operation.       *)
THEOREM Invariance == Spec => []IInv
<1>1. Init => IInv
  <2> SUFFICES ASSUME Init PROVE SoundNow /\ saved = {} /\ failed \in BOOLEAN
    BY StateIsSound DEF IInv
  <2>1. step = 0 /\ next_id = 1 /\ delayed = <<>> /\ next_timer = 0 /\ queued = <<>>
        /\ next_event = 0 /\ made = <<>> /\ delivered = <<>> /\ removed = {}
    BY DEF Init
  <2>2. ToSet(<<>>) = {} /\ IdsOf({}) = {} /\ 1 .. 1 - 1 = {}  BY DEF ToSet, IdsOf
  <2>3. /\ step \in Steps /\ next_id \in 1 .. MaxEvent + 1
        /\ next_timer \in Nat /\ next_event \in Nat
    BY <2>1, EventBounds DEF Steps
  <2>4. /\ delayed \in Seq(Entries) /\ queued \in Seq(Entries)
        /\ made \in Seq(MadeRecords) /\ Len(made) = next_id - 1
        /\ delivered \in Seq(Deliveries)
    BY <2>1
  <2>5. /\ DOMAIN delayed = {} /\ DOMAIN queued = {} /\ DOMAIN made = {} /\ DOMAIN delivered = {}
    BY <2>1
  <2>6. InOrder(delayed) /\ OnceEach(queued) /\ OnceEach(delivered)
    BY <2>5 DEF InOrder, OnceEach
  <2>7. Waits(ToSet(delayed), made, TRUE, next_timer, step)
        /\ Waits(ToSet(queued), made, FALSE, next_event, step)
    BY <2>1, <2>2 DEF Waits
  <2>8. Delivers(delivered, made, step)  BY <2>5 DEF Delivers
  <2>9. Parts(1 .. next_id - 1, IdsOf(ToSet(delayed)), IdsOf(ToSet(queued)),
              IdsOf(ToSet(delivered)), removed)
    BY <2>1, <2>2 DEF Parts
  <2>10. SoundNow  BY <2>3, <2>4, <2>5, <2>6, <2>7, <2>8, <2>9 DEF SoundNow
  <2> QED  BY <2>10 DEF Init
<1>2. IInv /\ [Next]_vars => IInv'  BY NextIsSound
<1> QED  BY <1>1, <1>2, PTL DEF Spec

(* Sequence numbers in the queues were given, ids are those made so far.   *)
THEOREM TypeCorrect == Spec => []TypeOK
<1>1. IInv => TypeOK
  <2> SUFFICES ASSUME IInv PROVE TypeOK  OBVIOUS
  <2>1. SoundNow  BY StateIsSound DEF IInv
  <2>2. /\ made \in Seq(MadeRecords) /\ DOMAIN made = 1 .. next_id - 1 /\ next_id \in Nat
        /\ \A e \in ToSet(delayed) \cup ToSet(queued) : e.id \in DOMAIN made
    BY <2>1, Bounds DEF SoundNow
  <2>3. /\ \A e \in ToSet(delayed) : made[e.id].due = e.step /\ e.sequence < next_timer
        /\ \A e \in ToSet(queued) : made[e.id].due = e.step /\ e.sequence < next_event
    BY <2>1 DEF SoundNow, Waits
  <2>4. \A id \in DOMAIN made : made[id].due \in Steps
    BY <2>2, TriggerType DEF MadeRecords
  <2>5. \A e \in ToSet(delayed) \cup ToSet(queued) : e.id < next_id  BY <2>2
  <2>6. removed \subseteq 1 .. next_id - 1  BY <2>1 DEF SoundNow, Parts
  <2>7. failed \in BOOLEAN  BY DEF IInv
  <2> QED  BY <2>1, <2>2, <2>3, <2>4, <2>5, <2>6, <2>7 DEF SoundNow, TypeOK
<1> QED  BY <1>1, Invariance, PTL

LEMMA TimesIsOne ==
  ASSUME NEW q, OnceEach(q), NEW id
  PROVE  Times(q, id) = IF id \in IdsOf(ToSet(q)) THEN 1 ELSE 0
<1> DEFINE S == {n \in DOMAIN q : q[n].id = id}
<1>1. CASE id \in IdsOf(ToSet(q))
  <2>1. PICK n \in DOMAIN q : q[n].id = id  BY <1>1 DEF IdsOf, ToSet
  <2>2. S = {n}  BY <2>1 DEF OnceEach
  <2>3. Cardinality(S) = 1  BY <2>2, FS_Singleton
  <2> QED  BY <1>1, <2>3 DEF Times
<1>2. CASE id \notin IdsOf(ToSet(q))
  <2>1. S = {}  BY <1>2 DEF IdsOf, ToSet
  <2>2. Cardinality(S) = 0  BY <2>1, FS_EmptySet
  <2> QED  BY <1>2, <2>2 DEF Times
<1> QED  BY <1>1, <1>2

(* No event is lost and none is delivered twice: each is in exactly one of *)
(* the timers, the queue, what machines were given and what was cancelled. *)
THEOREM AllAccountedFor == Spec => []EachEventOnce
<1>1. IInv => EachEventOnce
  <2> SUFFICES ASSUME IInv, NEW id \in DOMAIN made
               PROVE  Times(delayed, id) + Times(queued, id) + Times(delivered, id)
                        + (IF id \in removed THEN 1 ELSE 0) = 1
    BY DEF EachEventOnce
  <2>1. SoundNow  BY StateIsSound DEF IInv
  <2>2. OnceEach(queued) /\ OnceEach(delivered) /\ OnceEach(delayed)
    <3>1. \A d, e \in ToSet(delayed) : d.id = e.id => d = e
      BY <2>1, Bounds, WaitsUnique DEF SoundNow
    <3> QED  BY <2>1, <3>1, OrderedOnce DEF SoundNow
  <2>3. /\ Times(delayed, id) = IF id \in IdsOf(ToSet(delayed)) THEN 1 ELSE 0
        /\ Times(queued, id) = IF id \in IdsOf(ToSet(queued)) THEN 1 ELSE 0
        /\ Times(delivered, id) = IF id \in IdsOf(ToSet(delivered)) THEN 1 ELSE 0
    BY <2>2, TimesIsOne
  <2>4. id \in 1 .. next_id - 1  BY <2>1, Bounds
  <2>5. Parts(1 .. next_id - 1, IdsOf(ToSet(delayed)), IdsOf(ToSet(queued)),
              IdsOf(ToSet(delivered)), removed)
    BY <2>1 DEF SoundNow
  <2> QED  BY <2>3, <2>4, <2>5 DEF Parts
<1> QED  BY <1>1, Invariance, PTL

LEMMA FirstTickIsTrigger ==
  ASSUME SoundNow, NEW id \in DOMAIN made
  PROVE  FirstTick(id) = Trigger(made, id)
<1>1. made[id].due \in Nat /\ made[id].at \in Nat  BY TriggerType DEF SoundNow
<1> DEFINE S == {made[id].due, made[id].at + 1}
<1>2. Trigger(made, id) \in S /\ \A m \in S : m \in Int /\ m <= Trigger(made, id)
  BY <1>1 DEF Trigger
<1>3. Max(S) = Trigger(made, id)
  <2> HIDE DEF S
  <2> QED  BY <1>2, MaxIsGreatest
<1> QED  BY <1>3 DEF FirstTick

(* Every event reaches the machines in its tick, also after a load.        *)
THEOREM OnTime == Spec => []DeliveredOnTime
<1>1. IInv => DeliveredOnTime
  <2> SUFFICES ASSUME IInv PROVE DeliveredOnTime  OBVIOUS
  <2>1. SoundNow  BY StateIsSound DEF IInv
  <2>2. \A n \in DOMAIN delivered : /\ delivered[n].id \in DOMAIN made
                                    /\ delivered[n].at = Trigger(made, delivered[n].id)
    BY <2>1 DEF SoundNow, Delivers
  <2>3. \A e \in ToSet(delayed) \cup ToSet(queued) :
          e.id \in DOMAIN made /\ Trigger(made, e.id) > step
    BY <2>1, Bounds
  <2> QED  BY <2>1, <2>2, <2>3, FirstTickIsTrigger DEF DeliveredOnTime
<1> QED  BY <1>1, Invariance, PTL

(* In a tick events come in the documented order, whatever the order       *)
(* timers were made, cancelled, moved and loaded in.                       *)
THEOREM InItsOrder == Spec => []DeliveredInOrder
<1>1. IInv => DeliveredInOrder
  <2> SUFFICES ASSUME IInv, NEW m \in DOMAIN delivered, NEW n \in DOMAIN delivered,
                      m < n, delivered[m].at = delivered[n].at
               PROVE  ComesBefore(delivered[m].id, delivered[n].id)
    BY DEF DeliveredInOrder
  <2>1. SoundNow  BY StateIsSound DEF IInv
  <2>2. Precedes(made, delivered[m].id, delivered[n].id)  BY <2>1 DEF SoundNow, Delivers
  <2> QED  BY <2>2 DEF Precedes, ComesBefore
<1> QED  BY <1>1, Invariance, PTL
===============================================================================
