---------------------------- MODULE CommonLemmas ----------------------------
(***************************************************************************)
(* Lemmas that the proofs of several components cite: induction over       *)
(* numbers and the values of folds, stated with sets (they follow from the *)
(* fact that < is well-founded, and can be used where a rule with an       *)
(* operator as parameter cannot), and the progress of task groups, which   *)
(* presentation fences and text tasks keep too.                            *)
(***************************************************************************)
EXTENDS TaskGroupState, FiniteSetTheorems, SequenceTheorems, TLAPS

(* A set of numbers has a least one. *)
LEMMA Least ==
  ASSUME NEW T, T \subseteq Nat, T # {}
  PROVE  \E n \in T : \A m \in T : n <= m
<1> DEFINE R == OpToRel(<, Nat)
<1>1. IsWellFoundedOn(R, Nat)  BY NatLessThanWellFounded
<1>2. \A a, b \in Nat : a < b => <<a, b>> \in R  BY DEF OpToRel
<1> HIDE DEF R
<1>3. PICK x \in T : \A y \in T : ~ (<<y, x>> \in R)  BY <1>1, WFMin
<1>4. \A y \in T : x \in Nat /\ y \in Nat /\ ~ (y < x)  BY <1>2, <1>3
<1>5. \A y \in T : x <= y  BY <1>4
<1> QED BY <1>5

(* A set with 0 and the successor of each of its numbers has them all. *)
LEMMA Induction ==
  ASSUME NEW T, 0 \in T, \A n \in Nat : n \in T => n + 1 \in T
  PROVE  \A n \in Nat : n \in T
<1>1. SUFFICES ASSUME Nat \ T # {} PROVE FALSE  OBVIOUS
<1>2. PICK n \in Nat \ T : \A m \in Nat \ T : n <= m  BY <1>1, Least
<1>3. n # 0 /\ n - 1 \in Nat  BY <1>2
<1>4. n - 1 \in T  BY <1>2, <1>3
<1> QED  BY <1>2, <1>3, <1>4

(* A set of numbers with a bound has a greatest one. *)
LEMMA Greatest ==
  ASSUME NEW S, S \subseteq Nat, S # {}, NEW k \in Nat, \A m \in S : m <= k
  PROVE  \E n \in S : \A m \in S : m <= n
<1> DEFINE T == {n \in Nat : \A m \in S : m <= n}
<1>1. T \subseteq Nat /\ k \in T  OBVIOUS
<1>2. PICK n \in T : \A m \in T : n <= m  BY <1>1, Least
<1>3. n \in S
  <2> SUFFICES ASSUME n \notin S PROVE FALSE  OBVIOUS
  <2>1. PICK m \in S : TRUE  OBVIOUS
  <2>2. m \in Nat /\ m <= n /\ m # n  BY <1>2, <2>1
  <2>3. n - 1 \in T  BY <2>2, <1>2
  <2> QED  BY <1>2, <2>3
<1> QED  BY <1>2, <1>3

(* So has a finite set of numbers. *)
LEMMA FiniteHasBound ==
  ASSUME NEW S, S \subseteq Nat, IsFiniteSet(S)
  PROVE  \E k \in Nat : \A m \in S : m <= k
<1> DEFINE T == {n \in Nat : \A U \in SUBSET Nat : IsFiniteSet(U) /\ Cardinality(U) = n
                               => \E k \in Nat : \A m \in U : m <= k}
<1>1. 0 \in T  BY FS_EmptySet
<1>2. ASSUME NEW n \in Nat, n \in T PROVE n + 1 \in T
  <2> SUFFICES ASSUME NEW U \in SUBSET Nat, IsFiniteSet(U), Cardinality(U) = n + 1
               PROVE  \E k \in Nat : \A m \in U : m <= k
    OBVIOUS
  <2>6. n + 1 # 0  OBVIOUS
  <2>7. U # {}  BY <2>6, FS_EmptySet, Zenon
  <2>1. PICK x \in U : x \in U  BY <2>7
  <2>8. IsFiniteSet(U \ {x}) /\ Cardinality(U \ {x}) = Cardinality(U) - 1
    BY <2>1, FS_RemoveElement, Zenon
  <2>2. IsFiniteSet(U \ {x}) /\ Cardinality(U \ {x}) = n  BY <2>8
  <2>3. PICK k \in Nat : \A m \in U \ {x} : m <= k  BY <1>2, <2>2
  <2>4. CASE x <= k  BY <2>3, <2>4
  <2>5. CASE k < x
    <3>1. \A m \in U : m <= x  BY <2>3, <2>5
    <3> QED  BY <3>1
  <2> QED  BY <2>4, <2>5
<1>3. \A n \in Nat : n \in T
  <2> HIDE DEF T
  <2> QED  BY <1>1, <1>2, Induction
<1>4. Cardinality(S) \in Nat  BY FS_CardinalityType
<1> QED  BY <1>3, <1>4
-------------------------------------------------------------------------------
(* Folds over sequences.  FoldLeft recurses on the subsets of the domain,  *)
(* taking the greatest index away.                                         *)

LEMMA MaxIsGreatest ==
  ASSUME NEW S, NEW k \in S, \A m \in S : m \in Int /\ m <= k
  PROVE  Max(S) = k
<1>1. \A x \in S : (\A y \in S : x >= y) => x = k  OBVIOUS
<1>2. \A y \in S : k >= y  OBVIOUS
<1>3. Max(S) \in S /\ \A y \in S : Max(S) >= y  BY <1>2 DEF Max
<1> QED  BY <1>1, <1>3

LEMMA MaxIsThere ==
  ASSUME NEW k \in Nat, NEW S \in SUBSET (1 .. k), S # {}
  PROVE  Max(S) \in S
<1>1. PICK n \in S : \A m \in S : m <= n
  <2>1. S \subseteq Nat /\ \A m \in S : m <= k  OBVIOUS
  <2> QED  BY <2>1, Greatest
<1>2. \A m \in S : m \in Int /\ m <= n  BY <1>1
<1> QED  BY <1>2, MaxIsGreatest

(* What the recursion of a fold over n elements gives for each set of      *)
(* them, with steps F[<<value, index>>], as long as it stays in V.         *)
FoldsWith(it, base, F, V, n) ==
  /\ it[{}] = base
  /\ \A s \in SUBSET (1 .. n) :
       s # {} /\ it[s \ {Max(s)}] \in V => it[s] = F[<<it[s \ {Max(s)}], Max(s)>>]

(* It has a solution. *)
LEMMA FoldRecursion ==
  ASSUME NEW V, NEW base \in V, NEW n \in Nat, NEW F \in [V \X (1 .. n) -> V]
  PROVE  \E it \in [SUBSET (1 .. n) -> V] : FoldsWith(it, base, F, V, n)
<1> DEFINE Step(it, s) == IF s = {} THEN base ELSE F[<<it[s \ {Max(s)}], Max(s)>>]
           Solves(k, it) == /\ it \in [SUBSET (1 .. k) -> V]
                            /\ \A s \in SUBSET (1 .. k) : it[s] = Step(it, s)
           T == {k \in Nat : k <= n => \E it : Solves(k, it)}
<1>1. 0 \in T
  <2> DEFINE it == [s \in SUBSET (1 .. 0) |-> base]
  <2>1. \A s \in SUBSET (1 .. 0) : s = {}  OBVIOUS
  <2>2. Solves(0, it)  BY <2>1
  <2> HIDE DEF it, Solves
  <2> QED  BY <2>2
<1>2. ASSUME NEW k \in Nat, k \in T PROVE k + 1 \in T
  <2> SUFFICES ASSUME k + 1 <= n PROVE \E it : Solves(k + 1, it)
    <3> HIDE DEF Solves
    <3> QED  OBVIOUS
  <2>1. PICK f : Solves(k, f)
    <3> HIDE DEF Solves
    <3> QED  BY <1>2
  <2> DEFINE h == [s \in SUBSET (1 .. k + 1) |->
                     IF k + 1 \in s THEN F[<<f[s \ {k + 1}], k + 1>>] ELSE f[s]]
  <2>2. ASSUME NEW s \in SUBSET (1 .. k + 1), k + 1 \notin s
        PROVE  s \in SUBSET (1 .. k) /\ h[s] = f[s]
    BY <2>2
  <2>3. h \in [SUBSET (1 .. k + 1) -> V]
    <3> SUFFICES ASSUME NEW s \in SUBSET (1 .. k + 1) PROVE h[s] \in V  OBVIOUS
    <3>1. CASE k + 1 \in s
      <4>1. s \ {k + 1} \in SUBSET (1 .. k)
        <5>1. \A x \in 1 .. k + 1 : x # k + 1 => x \in 1 .. k  OBVIOUS
        <5> QED  BY <5>1
      <4>2. f[s \ {k + 1}] \in V /\ k + 1 \in 1 .. n  BY <2>1, <4>1
      <4> QED  BY <3>1, <4>2
    <3>2. CASE k + 1 \notin s  BY <2>1, <2>2, <3>2
    <3> QED  BY <3>1, <3>2
  <2>4. ASSUME NEW s \in SUBSET (1 .. k + 1) PROVE h[s] = Step(h, s)
    <3>1. CASE k + 1 \in s
      <4>1. Max(s) = k + 1
        <5>1. \A m \in s : m \in Int /\ m <= k + 1  OBVIOUS
        <5> QED  BY <3>1, <5>1, MaxIsGreatest
      <4>2. h[s \ {k + 1}] = f[s \ {k + 1}]
        <5>1. s \ {k + 1} \in SUBSET (1 .. k + 1) /\ k + 1 \notin s \ {k + 1}  OBVIOUS
        <5> HIDE DEF h
        <5> QED  BY <2>2, <5>1
      <4>3. h[s] = F[<<f[s \ {k + 1}], k + 1>>]  BY <3>1
      <4> HIDE DEF h
      <4> QED  BY <3>1, <4>1, <4>2, <4>3
    <3>2. CASE k + 1 \notin s /\ s # {}
      <4>1. s \in SUBSET (1 .. k) /\ h[s] = f[s]  BY <2>2, <3>2
      <4>2. f[s] = Step(f, s)  BY <2>1, <4>1
      <4>3. s \ {Max(s)} \in SUBSET (1 .. k + 1) /\ k + 1 \notin s \ {Max(s)}  BY <3>2
      <4>4. h[s \ {Max(s)}] = f[s \ {Max(s)}]
        <5> HIDE DEF h
        <5> QED  BY <2>2, <4>3
      <4> HIDE DEF h
      <4> QED  BY <3>2, <4>1, <4>2, <4>4
    <3>3. CASE s = {}
      <4>1. s \in SUBSET (1 .. k) /\ h[s] = f[s]  BY <2>2, <3>3
      <4>2. f[s] = Step(f, s)  BY <2>1, <4>1
      <4> HIDE DEF h
      <4> QED  BY <3>3, <4>1, <4>2
    <3> QED  BY <3>1, <3>2, <3>3
  <2>5. Solves(k + 1, h)
    <3> HIDE DEF h, Step
    <3> QED  BY <2>3, <2>4
  <2> HIDE DEF h, Solves
  <2> QED  BY <2>5
<1>3. \A k \in Nat : k \in T
  <2> HIDE DEF T
  <2> QED  BY <1>1, <1>2, Induction
<1>4. PICK it : Solves(n, it)
  <2> HIDE DEF Solves
  <2> QED  BY <1>3
<1>5. it[{}] = base
  <2>1. {} \in SUBSET (1 .. n)  OBVIOUS
  <2> QED  BY <1>4, <2>1
<1> QED  BY <1>4, <1>5 DEF FoldsWith

(* The values of a fold, one after the other. *)
FoldSteps(g, it, base, F, V, n) ==
  /\ g \in [0 .. n -> V]
  /\ g[0] = base
  /\ \A k \in 1 .. n : g[k] = F[<<g[k - 1], k>>]
  /\ g[n] = it[1 .. n]

LEMMA FoldValues ==
  ASSUME NEW V, NEW base \in V, NEW n \in Nat, NEW F \in [V \X (1 .. n) -> V],
         NEW it, FoldsWith(it, base, F, V, n)
  PROVE  \E g : FoldSteps(g, it, base, F, V, n)
<1> DEFINE at(k) == it[1 .. k]
<1>1. at(0) = base
  <2>1. 1 .. 0 = {}  OBVIOUS
  <2> QED  BY <2>1 DEF FoldsWith
<1>2. ASSUME NEW k \in 1 .. n, at(k - 1) \in V PROVE at(k) = F[<<at(k - 1), k>>]
  <2> DEFINE s == 1 .. k
  <2>1. s \in SUBSET (1 .. n) /\ s # {}
    <3>1. k \in s  OBVIOUS
    <3> QED  BY <3>1
  <2>2. Max(s) = k
    <3>1. k \in s /\ \A m \in s : m \in Int /\ m <= k  OBVIOUS
    <3> HIDE DEF s
    <3> QED  BY <3>1, MaxIsGreatest
  <2>3. s \ {k} = 1 .. (k - 1)  OBVIOUS
  <2>4. at(k) = it[s] /\ at(k - 1) = it[s \ {k}]  BY <2>3
  <2> HIDE DEF s, at
  <2> QED  BY <1>2, <2>1, <2>2, <2>4 DEF FoldsWith
<1> HIDE DEF at
<1> DEFINE T == {k \in Nat : k <= n => at(k) \in V}
<1>3. 0 \in T  BY <1>1
<1>4. ASSUME NEW k \in Nat, k \in T PROVE k + 1 \in T
  <2> SUFFICES ASSUME k + 1 <= n PROVE at(k + 1) \in V  OBVIOUS
  <2>1. k + 1 \in 1 .. n /\ (k + 1) - 1 = k /\ at(k) \in V  BY <1>4
  <2>2. at(k + 1) = F[<<at(k), k + 1>>]
    <3>1. at((k + 1) - 1) \in V  BY <2>1
    <3>2. at(k + 1) = F[<<at((k + 1) - 1), k + 1>>]  BY <1>2, <2>1, <3>1
    <3> QED  BY <2>1, <3>2
  <2> QED  BY <2>1, <2>2
<1>5. \A k \in Nat : k \in T
  <2> HIDE DEF T
  <2> QED  BY <1>3, <1>4, Induction
<1>6. \A k \in 0 .. n : at(k) \in V  BY <1>5
<1> DEFINE g == [k \in 0 .. n |-> at(k)]
<1>7. g \in [0 .. n -> V] /\ g[0] = base /\ g[n] = at(n)  BY <1>1, <1>6
<1>8. ASSUME NEW k \in 1 .. n PROVE g[k] = F[<<g[k - 1], k>>]
  <2>1. k - 1 \in 0 .. n /\ k \in 0 .. n  OBVIOUS
  <2>2. g[k - 1] = at(k - 1) /\ g[k] = at(k) /\ at(k - 1) \in V  BY <1>6, <2>1
  <2> HIDE DEF g
  <2> QED  BY <1>2, <2>2
<1> HIDE DEF g
<1> QED  BY <1>7, <1>8 DEF at, FoldSteps

(* The least of a set of indices, or the one after the last. *)
LEMMA FirstIndex ==
  ASSUME NEW n \in Nat, NEW S \in SUBSET (1 .. n)
  PROVE  LET k == Min(S \cup {n + 1})
         IN  k \in 1 .. n + 1 /\ (k <= n => k \in S) /\ \A i \in 1 .. k - 1 : i \notin S
<1> DEFINE T == S \cup {n + 1}
<1>1. T \subseteq Nat /\ T # {} /\ T \subseteq 1 .. n + 1  OBVIOUS
<1>2. \E k \in T : \A m \in T : k <= m  BY <1>1, Least
<1>3. Min(T) \in T /\ \A m \in T : Min(T) <= m  BY <1>2 DEF Min
<1> DEFINE k == Min(T)
<1> HIDE DEF k
<1>4. k \in T /\ \A m \in T : k <= m  BY <1>3 DEF k
<1>5. k \in 1 .. n + 1 /\ (k <= n => k \in S)  BY <1>1, <1>4
<1>6. \A i \in 1 .. k - 1 : i \notin S
  <2> SUFFICES ASSUME NEW i \in 1 .. k - 1, i \in S PROVE FALSE  OBVIOUS
  <2>1. i \in T /\ i < k  BY <1>5
  <2> QED  BY <1>4, <1>5, <2>1
<1> QED  BY <1>5, <1>6 DEF k

(* Members that differ are as many as there are, when each is among them.  *)
Distinct(a, length, count) ==
  /\ a \in [1 .. length -> 1 .. count]
  /\ \A n, o \in 1 .. length : a[n] = a[o] => n = o

Everyone(a, length, count) == \A i \in 1 .. count : \E n \in 1 .. length : a[n] = i

LEMMA AllAccepted ==
  ASSUME NEW a, NEW length \in Nat, NEW count \in Nat, Distinct(a, length, count)
  PROVE  length <= count /\ (length = count <=> Everyone(a, length, count))
<1>0. /\ a \in [1 .. length -> 1 .. count]
      /\ \A n, o \in 1 .. length : a[n] = a[o] => n = o
  BY DEF Distinct
<1>1. a \in Injection(1 .. length, 1 .. count)  BY <1>0 DEF Injection, IsInjective
<1>2. IsFiniteSet(1 .. count) /\ Cardinality(1 .. count) = count
      /\ Cardinality(1 .. length) = length
  BY FS_Interval
<1>3. /\ Cardinality(1 .. length) <= Cardinality(1 .. count)
      /\ Cardinality(1 .. length) = Cardinality(1 .. count)
           <=> a \in Surjection(1 .. length, 1 .. count)
  BY <1>1, <1>2, FS_Injection
<1>4. a \in Surjection(1 .. length, 1 .. count) <=> Everyone(a, length, count)
  BY <1>0 DEF Surjection, Everyone
<1> QED  BY <1>2, <1>3, <1>4
-------------------------------------------------------------------------------
(* Progress of task groups *)

(* New progress is of its type and consistent. *)
LEMMA NewIsConsistent ==
  ASSUME NEW mode \in Mode, NEW count \in Nat \ {0}
  PROVE  /\ Progress(NewProgress(mode, count))
         /\ Consistent(NewProgress(mode, count))
<1> DEFINE s == NewProgress(mode, count)
<1>0. count \in Nat /\ count > 0  OBVIOUS
<1>1. /\ s.members \in Seq(MemberState) /\ Len(s.members) = count
      /\ DOMAIN s.members = 1 .. count
      /\ \A i \in 1 .. count :
           s.members[i] = IF mode = "Sequence" /\ i > 1 THEN "Waiting" ELSE "Running"
  BY <1>0 DEF NewProgress, MemberState
<1>2. s.mode = mode /\ s.terminal = None /\ s.winner = NoWinner
  BY DEF NewProgress
<1>3. Progress(s)
  <2>1. s = [mode |-> mode, terminal |-> None, winner |-> NoWinner, members |-> s.members]
    BY DEF NewProgress
  <2> QED  BY <1>0, <1>1, <1>2, <2>1 DEF Progress, NoWinner, Members
<1>4. CASE mode = "Sequence"
  <2>1. ConsistentSequence(s)
    BY <1>0, <1>1, <1>2, <1>4 DEF ConsistentSequence, Prefix, From, Members, None
  <2> QED  BY <1>2, <1>3, <1>4, <2>1 DEF Consistent
<1>5. CASE mode = "Race"
  <2>1. ConsistentRace(s)
    BY <1>0, <1>1, <1>2, <1>5 DEF ConsistentRace, From, Members, None
  <2> QED  BY <1>2, <1>3, <1>5, <2>1 DEF Consistent
<1>6. CASE mode = "All"
  <2>1. ToSet(s.members) = {"Running"}
    BY <1>0, <1>1, <1>6 DEF ToSet
  <2>2. ConsistentAll(s)
    BY <1>2, <2>1 DEF ConsistentAll, None
  <2> QED  BY <1>2, <1>3, <1>6, <2>2 DEF Consistent
<1> QED  BY <1>4, <1>5, <1>6 DEF Mode

-------------------------------------------------------------------------------
(* What finish does to progress that has not ended. *)
LEMMA FinishFacts ==
  ASSUME NEW s, Progress(s), NEW r \in Terminal
  PROVE  LET f == Finish(s, r) IN
           /\ Progress(f)
           /\ f.mode = s.mode /\ f.winner = s.winner /\ f.terminal = r
           /\ Len(f.members) = Len(s.members) /\ Members(f) = Members(s)
           /\ \A i \in Members(s) :
                f.members[i] = IF s.members[i] \in Terminal THEN s.members[i] ELSE "Cancelled"
<1> DEFINE f == Finish(s, r)
<1> DEFINE ms == [i \in Members(s) |->
                    IF s.members[i] \in Terminal THEN s.members[i] ELSE "Cancelled"]
<1>1. s.members \in Seq(MemberState) /\ Members(s) = 1 .. Len(s.members)
      /\ Len(s.members) \in Nat
  BY DEF Progress, Members
<1>2. ms \in Seq(MemberState) /\ Len(ms) = Len(s.members) /\ DOMAIN ms = Members(s)
  BY <1>1 DEF MemberState, Terminal
<1>a. f = [s EXCEPT !.terminal = r, !.members = ms]
  BY DEF Finish
<1>5. \A i \in Members(s) :
        ms[i] = IF s.members[i] \in Terminal THEN s.members[i] ELSE "Cancelled"
  OBVIOUS
<1> HIDE DEF ms
<1> HIDE DEF f
<1>3. f = [mode |-> s.mode, terminal |-> r, winner |-> s.winner, members |-> ms]
  BY <1>a DEF Progress
<1>4. Progress(f)
  BY <1>1, <1>2, <1>3 DEF Progress, Members
<1> QED  BY <1>1, <1>2, <1>3, <1>4, <1>5 DEF Members, f

(* Members of consistent progress that has not ended, by mode. *)
LEMMA Unended ==
  ASSUME NEW s, Progress(s), Consistent(s), s.terminal = None
  PROVE  /\ s.mode = "Sequence" =>
              \E k \in 0 .. Len(s.members) - 1 :
                 /\ Prefix(s, k) /\ s.members[k + 1] = "Running" /\ From(s, k + 2, "Waiting")
         /\ s.mode = "Race" => s.winner = NoWinner /\ From(s, 1, "Running")
         /\ s.mode = "All" => \A i \in Members(s) : s.members[i] # "Waiting"
<1>1. CASE s.mode = "Sequence"
  <2>1. ConsistentSequence(s)  BY <1>1 DEF Consistent
  <2>2. PICK k \in 0 .. Len(s.members) :
          /\ Prefix(s, k)
          /\ k < Len(s.members) /\ s.members[k + 1] = "Running" /\ From(s, k + 2, "Waiting")
    BY <2>1 DEF ConsistentSequence, None
  <2> QED  BY <1>1, <2>2 DEF Progress
<1>2. CASE s.mode = "Race"
  <2>1. ConsistentRace(s)  BY <1>2 DEF Consistent
  <2> QED  BY <1>2, <2>1 DEF ConsistentRace, None
<1>3. CASE s.mode = "All"
  <2>1. ConsistentAll(s)  BY <1>3 DEF Consistent
  <2> QED  BY <1>3, <2>1 DEF ConsistentAll, ToSet, Members
<1> QED  BY <1>1, <1>2, <1>3 DEF Progress, Mode

(* Cancelling keeps progress consistent. *)
LEMMA CancelIsConsistent ==
  ASSUME NEW s, Progress(s), Consistent(s)
  PROVE  /\ Progress(CancelProgress(s)) /\ Consistent(CancelProgress(s))
         /\ Members(CancelProgress(s)) = Members(s)
<1>1. CASE s.terminal # None
  BY <1>1 DEF CancelProgress
<1>2. CASE s.terminal = None
  <2> DEFINE f == Finish(s, "Cancelled")
  <2>1. CancelProgress(s) = f  BY <1>2 DEF CancelProgress
  <2>2. /\ Progress(f)
        /\ f.mode = s.mode /\ f.winner = s.winner /\ f.terminal = "Cancelled"
        /\ Len(f.members) = Len(s.members) /\ Members(f) = Members(s)
        /\ \A i \in Members(s) :
             f.members[i] = IF s.members[i] \in Terminal THEN s.members[i] ELSE "Cancelled"
    BY FinishFacts DEF Terminal
  <2> HIDE DEF f
  <2>m. Members(s) = 1 .. Len(s.members) /\ Len(s.members) \in Nat /\ Len(s.members) >= 1
    BY DEF Progress, Members
  <2>3. CASE s.mode = "Sequence"
    <3>1. PICK k \in 0 .. Len(s.members) - 1 :
            Prefix(s, k) /\ s.members[k + 1] = "Running" /\ From(s, k + 2, "Waiting")
      BY <1>2, <2>3, Unended
    <3>2. Prefix(f, k)
      BY <2>2, <2>m, <3>1 DEF Prefix, Terminal
    <3>3. From(f, k + 1, "Cancelled")
      <4> SUFFICES ASSUME NEW i \in Members(s), i >= k + 1
                   PROVE  f.members[i] = "Cancelled"
        BY <2>2 DEF From
      <4>1. s.members[i] \in {"Running", "Waiting"}
        BY <2>m, <3>1 DEF From
      <4> QED  BY <2>2, <4>1 DEF Terminal
    <3>4. ConsistentSequence(f)
      <4>1. k \in 0 .. Len(f.members) /\ k < Len(f.members)
        BY <2>2, <2>m
      <4> QED  BY <2>2, <3>2, <3>3, <4>1 DEF ConsistentSequence, None
    <3>5. f.winner = NoWinner  BY <2>2, <2>3 DEF Consistent
    <3> QED  BY <2>1, <2>2, <2>3, <3>4, <3>5 DEF Consistent
  <2>4. CASE s.mode = "Race"
    <3>1. s.winner = NoWinner /\ From(s, 1, "Running")
      BY <1>2, <2>4, Unended
    <3>2. From(f, 1, "Cancelled")
      BY <2>2, <3>1 DEF From, Terminal
    <3>3. ConsistentRace(f)
      BY <2>2, <3>1, <3>2 DEF ConsistentRace
    <3> QED  BY <2>1, <2>2, <2>4, <3>3 DEF Consistent
  <2>5. CASE s.mode = "All"
    <3>1. ConsistentAll(s) /\ s.winner = NoWinner  BY <2>5 DEF Consistent
    <3>2. PICK i \in Members(s) : s.members[i] = "Running"
      BY <1>2, <3>1 DEF ConsistentAll, ToSet, Members
    <3>3. f.members[i] = "Cancelled"  BY <2>2, <3>2 DEF Terminal
    <3>4. \A j \in Members(f) : f.members[j] \in Terminal
      BY <2>2 DEF Terminal
    <3>5. ToSet(f.members) \subseteq Terminal /\ "Cancelled" \in ToSet(f.members)
      BY <2>2, <3>3, <3>4 DEF ToSet, Members
    <3>6. ConsistentAll(f)
      BY <2>2, <3>5 DEF ConsistentAll, Terminal, None
    <3> QED  BY <2>1, <2>2, <2>5, <3>1, <3>6 DEF Consistent
  <2> QED  BY <2>3, <2>4, <2>5 DEF Progress, Mode
<1> QED  BY <1>1, <1>2

-------------------------------------------------------------------------------
(* The progress of which one running member has ended, before anything     *)
(* else is made of it.                                                     *)
LEMMA EndedFacts ==
  ASSUME NEW s, Progress(s), NEW i \in Members(s), NEW r \in Terminal
  PROVE  LET e == [s EXCEPT !.members[i] = r] IN
           /\ Progress(e)
           /\ e.mode = s.mode /\ e.winner = s.winner /\ e.terminal = s.terminal
           /\ Len(e.members) = Len(s.members) /\ Members(e) = Members(s)
           /\ e.members[i] = r
           /\ \A j \in Members(s) \ {i} : e.members[j] = s.members[j]
<1> DEFINE ms == [s.members EXCEPT ![i] = r]
<1> DEFINE e == [s EXCEPT !.members[i] = r]
<1>1. s.members \in Seq(MemberState) /\ Members(s) = 1 .. Len(s.members)
      /\ Len(s.members) \in Nat
  BY DEF Progress, Members
<1>2. /\ ms \in Seq(MemberState) /\ Len(ms) = Len(s.members) /\ DOMAIN ms = Members(s)
      /\ ms[i] = r /\ \A j \in Members(s) \ {i} : ms[j] = s.members[j]
  BY <1>1 DEF MemberState, Terminal, Members
<1>3. e = [s EXCEPT !.members = ms]
  BY DEF Progress
<1> HIDE DEF ms, e
<1>4. e = [mode |-> s.mode, terminal |-> s.terminal, winner |-> s.winner, members |-> ms]
  BY <1>3 DEF Progress
<1>5. Progress(e)
  BY <1>1, <1>2, <1>4 DEF Progress, Members
<1> QED  BY <1>1, <1>2, <1>4, <1>5 DEF Members, e

(* A result of a member of a sequence that runs. *)
LEMMA CompleteSequence ==
  ASSUME NEW s, Progress(s), Consistent(s), s.mode = "Sequence",
         NEW i \in Members(s), CanComplete(s, i), NEW r \in Terminal
  PROVE  /\ Progress(Complete(s, i, r)) /\ Consistent(Complete(s, i, r))
         /\ Members(Complete(s, i, r)) = Members(s)
<1> DEFINE e == [s EXCEPT !.members[i] = r]
<1>1. /\ Progress(e)
      /\ e.mode = s.mode /\ e.winner = s.winner /\ e.terminal = s.terminal
      /\ Len(e.members) = Len(s.members) /\ Members(e) = Members(s)
      /\ e.members[i] = r
      /\ \A j \in Members(s) \ {i} : e.members[j] = s.members[j]
  BY EndedFacts
<1>2. s.terminal = None /\ s.members[i] = "Running" /\ s.winner = NoWinner
  BY DEF CanComplete, Active, Consistent
<1>m. Members(s) = 1 .. Len(s.members) /\ Len(s.members) \in Nat /\ i \in 1 .. Len(s.members)
  BY DEF Progress, Members
<1>3. PICK k \in 0 .. Len(s.members) - 1 :
        Prefix(s, k) /\ s.members[k + 1] = "Running" /\ From(s, k + 2, "Waiting")
  BY <1>2, Unended
<1>4. i = k + 1
  <2>1. CASE i <= k
    BY <1>2, <1>3, <1>m, <2>1 DEF Prefix
  <2>2. CASE i >= k + 2
    BY <1>2, <1>3, <1>m, <2>2 DEF From
  <2> QED  BY <1>m, <2>1, <2>2
<1>5. Prefix(e, k)
  BY <1>1, <1>3, <1>4, <1>m DEF Prefix
<1>6. From(e, k + 2, "Waiting")
  BY <1>1, <1>3, <1>4, <1>m DEF From
<1> HIDE DEF e
<1>7. CASE r = "Completed" /\ i = Len(s.members)
  <2> DEFINE c == [e EXCEPT !.terminal = r]
  <2>1. Complete(s, i, r) = c
    BY <1>7, <1>m DEF Complete, e
  <2>2. /\ c.members = e.members /\ c.terminal = "Completed" /\ c.mode = "Sequence"
        /\ c.winner = NoWinner
    BY <1>1, <1>2, <1>7 DEF Progress
  <2>3. Progress(c)
    BY <1>1, <1>7 DEF Progress, Members
  <2>4. Prefix(c, k + 1)
    BY <1>1, <1>4, <1>5, <1>7, <1>m, <2>2 DEF Prefix
  <2> HIDE DEF c
  <2>5. ConsistentSequence(c)
    <3>1. k + 1 \in 0 .. Len(c.members) /\ k + 1 = Len(c.members)
      BY <1>1, <1>4, <1>7, <1>m, <2>2
    <3> QED  BY <2>2, <2>4, <3>1 DEF ConsistentSequence, None
  <2>6. Members(c) = Members(s)  BY <1>1, <2>2 DEF Members
  <2> QED  BY <2>1, <2>2, <2>3, <2>5, <2>6 DEF Consistent
<1>8. CASE r = "Completed" /\ i # Len(s.members)
  <2> DEFINE c == [e EXCEPT !.members[i + 1] = "Running"]
  <2> DEFINE ms == [e.members EXCEPT ![i + 1] = "Running"]
  <2>1. Complete(s, i, r) = c
    BY <1>8, <1>m DEF Complete, e
  <2>2. /\ e.members \in Seq(MemberState) /\ DOMAIN e.members = 1 .. Len(s.members)
        /\ i + 1 \in 1 .. Len(s.members)
    BY <1>1, <1>8, <1>m DEF Progress, Members
  <2>3. /\ ms \in Seq(MemberState) /\ Len(ms) = Len(s.members)
        /\ DOMAIN ms = 1 .. Len(s.members) /\ ms[i + 1] = "Running"
        /\ \A j \in 1 .. Len(s.members) : j # i + 1 => ms[j] = e.members[j]
    BY <1>1, <2>2, <1>m DEF MemberState
  <2>4. c = [e EXCEPT !.members = ms]
    BY <1>1 DEF Progress
  <2> HIDE DEF ms, c
  <2>5. c = [mode |-> "Sequence", terminal |-> None, winner |-> NoWinner, members |-> ms]
    BY <1>1, <1>2, <2>4 DEF Progress
  <2>6. Progress(c) /\ Members(c) = Members(s)
    BY <1>1, <1>2, <1>m, <2>3, <2>5 DEF Progress, Members
  <2>7. Prefix(c, k + 1)
    <3> SUFFICES ASSUME NEW j \in 1 .. k + 1  PROVE ms[j] = "Completed"
      BY <2>5 DEF Prefix
    <3>1. j \in 1 .. Len(s.members) /\ j # i + 1 /\ ms[j] = e.members[j]
      BY <1>4, <1>m, <2>3
    <3>2. e.members[i] = "Completed"  BY <1>1, <1>8
    <3> QED  BY <1>4, <1>5, <1>m, <3>1, <3>2 DEF Prefix
  <2>8. From(c, k + 3, "Waiting")
    BY <1>1, <1>4, <1>6, <1>m, <2>3, <2>5, <2>6 DEF From
  <2>9. ConsistentSequence(c)
    <3>1. /\ k + 1 \in 0 .. Len(c.members) /\ k + 1 < Len(c.members)
          /\ c.members[(k + 1) + 1] = "Running" /\ (k + 1) + 2 = k + 3
      BY <1>4, <2>2, <2>3, <2>5, <1>m
    <3>2. c.terminal = None  BY <2>5
    <3> QED  BY <2>7, <2>8, <3>1, <3>2 DEF ConsistentSequence, None
  <2> QED  BY <2>1, <2>5, <2>6, <2>9 DEF Consistent
<1>9. CASE r # "Completed"
  <2> DEFINE f == Finish(e, r)
  <2>1. Complete(s, i, r) = f
    BY <1>9, <1>m DEF Complete, e
  <2>2. /\ Progress(f)
        /\ f.mode = e.mode /\ f.winner = e.winner /\ f.terminal = r
        /\ Len(f.members) = Len(e.members) /\ Members(f) = Members(e)
        /\ \A j \in Members(e) :
             f.members[j] = IF e.members[j] \in Terminal THEN e.members[j] ELSE "Cancelled"
    BY <1>1, FinishFacts
  <2> HIDE DEF f
  <2>3. Prefix(f, k)
    BY <1>1, <1>5, <1>m, <2>2 DEF Prefix, Terminal
  <2>4. From(f, k + 2, "Cancelled")
    BY <1>1, <1>6, <2>2 DEF From, Terminal
  <2>5. f.members[k + 1] = r
    BY <1>1, <1>4, <1>m, <2>2
  <2>6. k \in 0 .. Len(f.members) /\ k < Len(f.members)
    BY <1>1, <1>m, <2>2
  <2>7. ASSUME r = "Failed"  PROVE ConsistentSequence(f)
    BY <2>2, <2>3, <2>4, <2>5, <2>6, <2>7 DEF ConsistentSequence, None
  <2>8. ASSUME r = "Cancelled"  PROVE ConsistentSequence(f)
    <3>1. From(f, k + 1, "Cancelled")
      BY <1>1, <1>m, <2>2, <2>4, <2>5, <2>8 DEF From
    <3> QED  BY <2>2, <2>3, <2>6, <2>8, <3>1 DEF ConsistentSequence, None
  <2>9. ConsistentSequence(f)
    BY <1>9, <2>7, <2>8 DEF Terminal
  <2> QED  BY <1>1, <1>2, <2>1, <2>2, <2>9 DEF Consistent
<1> QED  BY <1>7, <1>8, <1>9

(* The first result of a race. *)
LEMMA CompleteRace ==
  ASSUME NEW s, Progress(s), Consistent(s), s.mode = "Race",
         NEW i \in Members(s), CanComplete(s, i), NEW r \in Terminal
  PROVE  /\ Progress(Complete(s, i, r)) /\ Consistent(Complete(s, i, r))
         /\ Members(Complete(s, i, r)) = Members(s)
<1> DEFINE e == [s EXCEPT !.members[i] = r]
<1> DEFINE w == [e EXCEPT !.winner = i]
<1> DEFINE f == Finish(w, r)
<1>1. /\ Progress(e)
      /\ e.mode = s.mode /\ e.winner = s.winner /\ e.terminal = s.terminal
      /\ Len(e.members) = Len(s.members) /\ Members(e) = Members(s)
      /\ e.members[i] = r
      /\ \A j \in Members(s) \ {i} : e.members[j] = s.members[j]
  BY EndedFacts
<1>2. Complete(s, i, r) = f
  BY DEF Complete
<1>3. s.terminal = None /\ From(s, 1, "Running")
  <2>1. s.terminal = None  BY DEF CanComplete
  <2> QED  BY <2>1, Unended
<1>m. Members(s) = 1 .. Len(s.members) /\ Len(s.members) \in Nat /\ i \in Nat /\ i # 0
  BY DEF Progress, Members
<1> HIDE DEF e
<1>4. w.members = e.members /\ w.mode = "Race" /\ w.winner = i /\ w.terminal = s.terminal
  BY <1>1 DEF Progress
<1>5. Progress(w) /\ Members(w) = Members(s)
  BY <1>1, <1>m, <1>4 DEF Progress, Members
<1> HIDE DEF w
<1>6. /\ Progress(f)
      /\ f.mode = w.mode /\ f.winner = w.winner /\ f.terminal = r
      /\ Len(f.members) = Len(w.members) /\ Members(f) = Members(w)
      /\ \A j \in Members(w) :
           f.members[j] = IF w.members[j] \in Terminal THEN w.members[j] ELSE "Cancelled"
  BY <1>5, FinishFacts
<1> HIDE DEF f
<1>7. f.members[f.winner] = f.terminal
  BY <1>1, <1>4, <1>5, <1>6
<1>8. \A j \in Members(f) \ {f.winner} : f.members[j] = "Cancelled"
  BY <1>1, <1>3, <1>4, <1>5, <1>6, <1>m DEF From, Terminal
<1>9. ConsistentRace(f)
  BY <1>4, <1>6, <1>7, <1>8, <1>m DEF ConsistentRace, NoWinner, Terminal, None
<1> QED  BY <1>2, <1>4, <1>5, <1>6, <1>9 DEF Consistent

(* A result of one of all; the last one gives the verdict. *)
LEMMA CompleteAll ==
  ASSUME NEW s, Progress(s), Consistent(s), s.mode = "All",
         NEW i \in Members(s), CanComplete(s, i), NEW r \in Terminal
  PROVE  /\ Progress(Complete(s, i, r)) /\ Consistent(Complete(s, i, r))
         /\ Members(Complete(s, i, r)) = Members(s)
<1> DEFINE e == [s EXCEPT !.members[i] = r]
<1>1. /\ Progress(e)
      /\ e.mode = s.mode /\ e.winner = s.winner /\ e.terminal = s.terminal
      /\ Len(e.members) = Len(s.members) /\ Members(e) = Members(s)
      /\ e.members[i] = r
      /\ \A j \in Members(s) \ {i} : e.members[j] = s.members[j]
  BY EndedFacts
<1>2. s.terminal = None /\ s.winner = NoWinner
  BY DEF CanComplete, Consistent
<1>3. \A j \in Members(s) : s.members[j] # "Waiting"
  BY <1>2, Unended
<1>4. \A j \in Members(e) : e.members[j] \in Terminal \cup {"Running"}
  BY <1>1, <1>3 DEF Progress, Members, MemberState, Terminal
<1>e. Complete(s, i, r) = IF Active(e) = {}
                            THEN [e EXCEPT !.terminal = AllVerdict(ToSet(e.members))]
                            ELSE e
  BY DEF Complete
<1> HIDE DEF e
<1>5. CASE Active(e) # {}
  <2>1. PICK j \in Members(e) : e.members[j] = "Running"
    BY <1>5 DEF Active
  <2>2. "Running" \in ToSet(e.members) /\ "Waiting" \notin ToSet(e.members)
    BY <1>4, <2>1 DEF ToSet, Members, Terminal
  <2>3. ConsistentAll(e)
    BY <1>1, <1>2, <2>2 DEF ConsistentAll, None
  <2> QED  BY <1>1, <1>2, <1>5, <1>e, <2>3 DEF Consistent
<1>6. CASE Active(e) = {}
  <2> DEFINE results == ToSet(e.members)
  <2> DEFINE v == AllVerdict(results)
  <2> DEFINE c == [e EXCEPT !.terminal = v]
  <2>1. \A j \in Members(e) : e.members[j] \in Terminal
    BY <1>4, <1>6 DEF Active
  <2>2. results \subseteq Terminal /\ results # {}
    BY <1>1, <2>1 DEF ToSet, Members
  <2> HIDE DEF results
  <2>3. v \in results /\ (v = "Completed" => results = {"Completed"})
    <3>1. CASE "Failed" \in results
      BY <3>1 DEF AllVerdict
    <3>2. CASE "Failed" \notin results /\ "Cancelled" \in results
      BY <3>2 DEF AllVerdict
    <3>3. CASE "Failed" \notin results /\ "Cancelled" \notin results
      BY <2>2, <3>3 DEF AllVerdict, Terminal
    <3> QED  BY <3>1, <3>2, <3>3
  <2> HIDE DEF v
  <2>4. c.members = e.members /\ c.terminal = v /\ c.mode = "All" /\ c.winner = NoWinner
    BY <1>1, <1>2 DEF Progress
  <2>5. Progress(c) /\ Members(c) = Members(s)
    BY <1>1, <2>2, <2>3, <2>4 DEF Progress, Members
  <2> HIDE DEF c
  <2>6. ToSet(c.members) = results  BY <2>4 DEF results
  <2>7. ConsistentAll(c)
    BY <2>2, <2>3, <2>4, <2>6 DEF ConsistentAll, Terminal, None
  <2>8. Complete(s, i, r) = c
    BY <1>6, <1>e DEF c, v, results
  <2> QED  BY <2>4, <2>5, <2>7, <2>8 DEF Consistent
<1> QED  BY <1>5, <1>6

LEMMA CompleteIsConsistent ==
  ASSUME NEW s, Progress(s), Consistent(s), NEW i, CanComplete(s, i), NEW r \in Terminal
  PROVE  /\ Progress(Complete(s, i, r)) /\ Consistent(Complete(s, i, r))
         /\ Members(Complete(s, i, r)) = Members(s)
<1>1. i \in Members(s)  BY DEF CanComplete, Active
<1>2. s.mode \in Mode  BY DEF Progress
<1> QED  BY <1>1, <1>2, CompleteSequence, CompleteRace, CompleteAll DEF Mode

(* What a completion makes of each member, of the end and of the winner.   *)
Outcome(s, i, r, c) ==
  /\ Progress(c) /\ Consistent(c) /\ c.mode = s.mode /\ Members(c) = Members(s)
  /\ Len(c.members) = Len(s.members)
  /\ c.members[i] = r
  /\ s.mode = "Sequence" /\ r = "Completed" =>
       /\ c.winner = s.winner
       /\ c.terminal = IF i = Len(s.members) THEN "Completed" ELSE None
       /\ \A j \in Members(s) \ {i, i + 1} : c.members[j] = s.members[j]
       /\ i + 1 \in Members(s) => c.members[i + 1] = "Running"
  /\ s.mode = "Sequence" /\ r # "Completed" =>
       /\ c.winner = s.winner /\ c.terminal = r
       /\ \A j \in Members(s) \ {i} :
            c.members[j] = IF s.members[j] \in Terminal THEN s.members[j] ELSE "Cancelled"
  /\ s.mode = "Race" =>
       /\ c.winner = i /\ c.terminal = r
       /\ \A j \in Members(s) \ {i} : c.members[j] = "Cancelled"
  /\ s.mode = "All" =>
       /\ c.winner = s.winner
       /\ \A j \in Members(s) \ {i} : c.members[j] = s.members[j]
       /\ c.terminal = IF \E j \in Members(s) : c.members[j] = "Running" THEN None
                       ELSE AllVerdict(ToSet(c.members))

LEMMA CompletedFacts ==
  ASSUME NEW s, Progress(s), Consistent(s), NEW i, CanComplete(s, i), NEW r \in Terminal
  PROVE  Outcome(s, i, r, Complete(s, i, r))
<1> DEFINE e == [s EXCEPT !.members[i] = r]
           c == Complete(s, i, r)
<1>i. i \in Members(s)  BY DEF CanComplete, Active
<1>1. /\ Progress(e)
      /\ e.mode = s.mode /\ e.winner = s.winner /\ e.terminal = s.terminal
      /\ Len(e.members) = Len(s.members) /\ Members(e) = Members(s)
      /\ e.members[i] = r
      /\ \A j \in Members(s) \ {i} : e.members[j] = s.members[j]
  BY <1>i, EndedFacts
<1>2. Progress(c) /\ Consistent(c) /\ Members(c) = Members(s)  BY CompleteIsConsistent
<1>3. s.terminal = None /\ s.members[i] = "Running"  BY DEF CanComplete, Active
<1>m. Members(s) = 1 .. Len(s.members) /\ Len(s.members) \in Nat /\ i \in Nat /\ i # 0
  BY <1>i DEF Progress, Members
<1>4. Len(c.members) = Len(s.members)
  <2>1. 1 .. Len(c.members) = 1 .. Len(s.members) /\ Len(c.members) \in Nat
    BY <1>2, <1>m DEF Progress, Members
  <2> QED  BY <1>m, <2>1
<1>5. CASE s.mode = "Sequence" /\ r = "Completed"
  <2>1. CASE i = Len(s.members)
    <3>1. c = [e EXCEPT !.terminal = r]  BY <1>5, <1>m, <2>1 DEF Complete
    <3> HIDE DEF e, c
    <3>2. c.mode = e.mode /\ c.winner = e.winner /\ c.terminal = r /\ c.members = e.members
      BY <1>1, <3>1 DEF Progress
    <3> QED  BY <1>1, <1>2, <1>4, <1>5, <1>m, <2>1, <3>2 DEF Outcome, c
  <2>2. CASE i # Len(s.members)
    <3>1. c = [e EXCEPT !.members[i + 1] = "Running"]  BY <1>5, <1>m, <2>2 DEF Complete
    <3> HIDE DEF e, c
    <3>2. /\ c.mode = e.mode /\ c.winner = e.winner /\ c.terminal = e.terminal
          /\ c.members = [e.members EXCEPT ![i + 1] = "Running"]
      BY <1>1, <3>1 DEF Progress
    <3>3. DOMAIN e.members = Members(s)  BY <1>1 DEF Members
    <3>4. c.members[i] = r /\ \A j \in Members(s) \ {i, i + 1} : c.members[j] = s.members[j]
      BY <1>1, <1>i, <1>m, <3>2, <3>3
    <3>5. i + 1 \in Members(s) => c.members[i + 1] = "Running"  BY <3>2, <3>3
    <3> QED  BY <1>1, <1>2, <1>3, <1>4, <1>5, <2>2, <3>2, <3>4, <3>5 DEF Outcome, c
  <2> QED  BY <2>1, <2>2
<1>6. CASE s.mode = "Sequence" /\ r # "Completed"
  <2>1. c = Finish(e, r)  BY <1>6 DEF Complete
  <2> HIDE DEF e, c
  <2>2. /\ c.mode = e.mode /\ c.winner = e.winner /\ c.terminal = r
        /\ \A j \in Members(e) :
             c.members[j] = IF e.members[j] \in Terminal THEN e.members[j] ELSE "Cancelled"
    BY <1>1, <2>1, FinishFacts
  <2> QED  BY <1>1, <1>2, <1>4, <1>6, <1>i, <2>2 DEF Outcome, c
<1>7. CASE s.mode = "Race"
  <2> DEFINE w == [e EXCEPT !.winner = i]
  <2>1. c = Finish(w, r)  BY <1>7 DEF Complete
  <2> HIDE DEF e, c
  <2>2. /\ w.members = e.members /\ w.mode = "Race" /\ w.winner = i
        /\ Progress(w) /\ Members(w) = Members(s)
    BY <1>1, <1>7, <1>i, <1>m DEF Progress, Members
  <2> HIDE DEF w
  <2>3. /\ c.mode = w.mode /\ c.winner = w.winner /\ c.terminal = r
        /\ \A j \in Members(w) :
             c.members[j] = IF w.members[j] \in Terminal THEN w.members[j] ELSE "Cancelled"
    BY <2>1, <2>2, FinishFacts
  <2>4. From(s, 1, "Running")  BY <1>3, <1>7, Unended
  <2>5. \A j \in Members(s) \ {i} : c.members[j] = "Cancelled"
    BY <1>1, <1>m, <2>2, <2>3, <2>4 DEF From, Terminal
  <2> QED  BY <1>1, <1>2, <1>4, <1>7, <1>i, <2>2, <2>3, <2>5 DEF Outcome, c
<1>8. CASE s.mode = "All"
  <2>1. c = IF Active(e) = {} THEN [e EXCEPT !.terminal = AllVerdict(ToSet(e.members))] ELSE e
    BY <1>8 DEF Complete
  <2>2. Active(e) = {} <=> ~ \E j \in Members(s) : e.members[j] = "Running"
    BY <1>1 DEF Active
  <2> HIDE DEF e, c
  <2>3. /\ c.mode = e.mode /\ c.winner = e.winner /\ c.members = e.members
        /\ c.terminal = IF Active(e) = {} THEN AllVerdict(ToSet(e.members)) ELSE e.terminal
    <3>1. CASE Active(e) = {}  BY <1>1, <2>1, <3>1 DEF Progress
    <3>2. CASE Active(e) # {}  BY <2>1, <3>2
    <3> QED  BY <3>1, <3>2
  <2> QED  BY <1>1, <1>2, <1>3, <1>4, <1>8, <2>2, <2>3 DEF Outcome, c
<1> QED  BY <1>5, <1>6, <1>7, <1>8, <1>2 DEF Progress, Mode

-------------------------------------------------------------------------------
ProgressShape(s) ==
  /\ s \in [mode : Mode, terminal : Terminal \cup {None}, winner : Nat,
            members : Seq(MemberState)]
  /\ Len(s.members) > 0

Replayed(s, results, r, i) ==
  IF r = Refused \/ s.members[i] \notin results THEN r
  ELSE IF r.terminal # None THEN r
  ELSE IF ~ CanComplete(r, i) THEN Refused
  ELSE Complete(r, i, s.members[i])

Records == [mode : Mode, terminal : Terminal \cup {None}, winner : Nat,
            members : Seq(MemberState)]

Replays(s) ==
  {Refused} \cup {r \in Records : /\ Progress(r) /\ Consistent(r) /\ r.mode = s.mode
                                  /\ Len(r.members) = Len(s.members)
                                  /\ Members(r) = Members(s)}

LEMMA ReplayedFacts ==
  ASSUME NEW s, ProgressShape(s), NEW results \in SUBSET Terminal, NEW r \in Replays(s),
         NEW i \in 1 .. Len(s.members)
  PROVE  Replayed(s, results, r, i) \in Replays(s)
<1>1. CASE r = Refused \/ s.members[i] \notin results \/ r.terminal # None
  BY <1>1 DEF Replayed
<1>2. CASE r # Refused /\ s.members[i] \in results /\ r.terminal = None
  <2>1. /\ Progress(r) /\ Consistent(r) /\ r.mode = s.mode /\ Members(r) = Members(s)
        /\ Len(r.members) = Len(s.members)
    BY <1>2 DEF Replays
  <2>2. CASE ~ CanComplete(r, i)  BY <1>2, <2>2 DEF Replayed, Replays
  <2>3. CASE CanComplete(r, i)
    <3> DEFINE c == Complete(r, i, s.members[i])
    <3>1. Outcome(r, i, s.members[i], c)  BY <1>2, <2>1, <2>3, CompletedFacts
    <3>2. Replayed(s, results, r, i) = c  BY <1>2, <2>3 DEF Replayed
    <3> HIDE DEF c
    <3>3. Progress(c) /\ Consistent(c) /\ c.mode = r.mode /\ Members(c) = Members(r)
          /\ Len(c.members) = Len(r.members)
      BY <3>1 DEF Outcome
    <3>4. c \in Records  BY <3>3 DEF Progress, Records
    <3> QED  BY <2>1, <3>2, <3>3, <3>4 DEF Replays
  <2> QED  BY <2>2, <2>3
<1> QED  BY <1>1, <1>2

LEMMA ReplayFold ==
  ASSUME NEW s, ProgressShape(s), NEW results \in SUBSET Terminal
  PROVE  \E g \in [0 .. Len(s.members) -> Replays(s)] :
           /\ g[0] = NewProgress(s.mode, Len(s.members))
           /\ \A k \in 1 .. Len(s.members) : g[k] = Replayed(s, results, g[k - 1], k)
           /\ g[Len(s.members)] = Replay(s, results)
<1> DEFINE V == Replays(s)
           n == Len(s.members)
           base == NewProgress(s.mode, n)
           F == [p \in V \X (1 .. n) |-> Replayed(s, results, p[1], p[2])]
           index == [i \in DOMAIN s.members |-> i]
           Solves(it) == it = [u \in SUBSET DOMAIN index |->
                                 IF u = {} THEN base
                                 ELSE Replayed(s, results, it[u \ {Max(u)}], index[Max(u)])]
<1>1. n \in Nat /\ DOMAIN s.members = 1 .. n /\ n \in Nat \ {0} /\ s.mode \in Mode
  BY DEF ProgressShape
<1>b. base \in V
  <2>1. Progress(base) /\ Consistent(base)  BY <1>1, NewIsConsistent
  <2>2. base.mode = s.mode /\ Len(base.members) = n /\ Members(base) = Members(s)
    BY <1>1 DEF NewProgress, Members
  <2>3. base \in Records  BY <2>1 DEF Progress, Records
  <2> QED  BY <2>1, <2>2, <2>3 DEF Replays
<1>2. /\ F \in [V \X (1 .. n) -> V]
      /\ \A v \in V, k \in 1 .. n : F[<<v, k>>] = Replayed(s, results, v, k)
  BY <1>1, ReplayedFacts
<1> HIDE DEF F, V
<1>3. PICK f \in [SUBSET (1 .. n) -> V] : FoldsWith(f, base, F, V, n)
  BY <1>1, <1>2, <1>b, FoldRecursion
<1>x. DOMAIN index = 1 .. n /\ \A k \in 1 .. n : index[k] = k  BY <1>1
<1>4. Solves(f)
  <2>1. ASSUME NEW u \in SUBSET (1 .. n), u # {}
        PROVE  f[u] = Replayed(s, results, f[u \ {Max(u)}], index[Max(u)])
    <3>1. Max(u) \in 1 .. n  BY <1>1, <2>1, MaxIsThere
    <3>2. f[u \ {Max(u)}] \in V /\ index[Max(u)] = Max(u)  BY <1>x, <3>1
    <3> HIDE DEF index
    <3> QED  BY <1>2, <1>3, <2>1, <3>1, <3>2 DEF FoldsWith
  <2>2. f[{}] = base  BY <1>3 DEF FoldsWith
  <2> HIDE DEF index, base
  <2> QED  BY <1>x, <2>1, <2>2
<1> DEFINE it == CHOOSE h : Solves(h)
<1>5. Solves(it)
  <2> HIDE DEF Solves
  <2> QED  BY <1>4
<1>6. Replay(s, results) = it[DOMAIN index]
  BY DEF Replay, FoldLeftDomain, FoldLeft, MapThenFoldSet, Replayed
<1> HIDE DEF it
<1>7. FoldsWith(it, base, F, V, n)
  <2>1. it[{}] = base
    <3> HIDE DEF index
    <3> QED  BY <1>5
  <2>2. ASSUME NEW u \in SUBSET (1 .. n), u # {}, it[u \ {Max(u)}] \in V
        PROVE  it[u] = F[<<it[u \ {Max(u)}], Max(u)>>]
    <3>1. Max(u) \in 1 .. n  BY <1>1, <2>2, MaxIsThere
    <3>2. it[u] = Replayed(s, results, it[u \ {Max(u)}], index[Max(u)])
      <4> HIDE DEF index
      <4> QED  BY <1>5, <1>x, <2>2
    <3> HIDE DEF V, Solves, index
    <3> QED  BY <1>2, <1>x, <2>2, <3>1, <3>2
  <2> QED  BY <2>1, <2>2 DEF FoldsWith
<1>8. PICK g : FoldSteps(g, it, base, F, V, n)
  BY <1>1, <1>2, <1>7, <1>b, FoldValues
<1>9. \A k \in 1 .. n : g[k] = Replayed(s, results, g[k - 1], k)
  <2> SUFFICES ASSUME NEW k \in 1 .. n PROVE g[k] = Replayed(s, results, g[k - 1], k)  OBVIOUS
  <2>1. g[k - 1] \in V
    <3>1. k - 1 \in 0 .. n  BY <1>1
    <3> QED  BY <1>8, <3>1 DEF FoldSteps
  <2> QED  BY <1>2, <1>8, <2>1 DEF FoldSteps
<1> HIDE DEF base
<1>10. g \in [0 .. n -> V] /\ g[0] = base /\ g[n] = it[1 .. n]  BY <1>8 DEF FoldSteps
<1> HIDE DEF index
<1> QED  BY <1>6, <1>x, <1>9, <1>10 DEF base, V

LEMMA ReplayFacts ==
  ASSUME NEW s, ProgressShape(s), NEW results \in SUBSET Terminal
  PROVE  Replay(s, results) \in Replays(s)
<1>1. PICK g \in [0 .. Len(s.members) -> Replays(s)] : g[Len(s.members)] = Replay(s, results)
  BY ReplayFold
<1>2. Len(s.members) \in 0 .. Len(s.members)  BY DEF ProgressShape
<1> QED  BY <1>1, <1>2

(* Whatever the snapshot, it is compared with progress the mode allows.    *)
LEMMA ReconstructedFacts ==
  ASSUME NEW s, ProgressShape(s)
  PROVE  \/ Reconstructed(s) = Refused
         \/ Progress(Reconstructed(s)) /\ Consistent(Reconstructed(s))
<1>1. \A R \in SUBSET Terminal : Replay(s, R) \in Replays(s)  BY ReplayFacts
<1>2. \A r \in Replays(s) : r = Refused \/ (Progress(r) /\ Consistent(r))  BY DEF Replays
<1>3. \A r \in Replays(s) : r # Refused => Progress(CancelProgress(r)) /\ Consistent(CancelProgress(r))
  BY <1>2, CancelIsConsistent
<1>4. {"Completed", "Failed"} \in SUBSET Terminal /\ Terminal \in SUBSET Terminal
  BY DEF Terminal
<1>5. CASE s.terminal = "Cancelled" /\ s.winner = NoWinner
  <2>1. LET r == Replay(s, {"Completed", "Failed"})
        IN  Reconstructed(s) = IF r = Refused THEN Refused ELSE CancelProgress(r)
    BY <1>5 DEF Reconstructed
  <2> QED  BY <1>1, <1>3, <1>4, <2>1
<1>6. CASE s.winner # NoWinner /\ s.mode = "Race"
  <2> DEFINE new == NewProgress("Race", Len(s.members))
  <2>1. Reconstructed(s) = IF s.winner \in Members(s) /\ s.members[s.winner] \in Terminal
                             THEN Complete(new, s.winner, s.members[s.winner])
                             ELSE Refused
    BY <1>6 DEF Reconstructed
  <2>2. CASE s.winner \in Members(s) /\ s.members[s.winner] \in Terminal
    <3>1. Progress(new) /\ Consistent(new)
      <4>1. "Race" \in Mode /\ Len(s.members) \in Nat \ {0}  BY DEF Mode, ProgressShape
      <4> QED  BY <4>1, NewIsConsistent
    <3>2. CanComplete(new, s.winner)
      BY <2>2 DEF CanComplete, NewProgress, Active, Members, ProgressShape
    <3> HIDE DEF new
    <3> QED  BY <2>1, <2>2, <3>1, <3>2, CompleteIsConsistent
  <2> QED  BY <2>1, <2>2
<1>7. CASE s.winner = NoWinner /\ s.mode = "Race" /\ s.terminal # "Cancelled"
  <2>1. Reconstructed(s) = NewProgress("Race", Len(s.members))  BY <1>7 DEF Reconstructed
  <2>2. "Race" \in Mode /\ Len(s.members) \in Nat \ {0}  BY DEF Mode, ProgressShape
  <2> QED  BY <2>1, <2>2, NewIsConsistent
<1>8. CASE /\ s.winner = NoWinner \/ s.mode # "Race"
           /\ s.terminal # "Cancelled" \/ s.winner # NoWinner
           /\ s.mode # "Race" \/ s.winner # NoWinner
  <2>1. Reconstructed(s) = Replay(s, Terminal)  BY <1>8 DEF Reconstructed
  <2> QED  BY <1>1, <1>2, <1>4, <2>1
<1> QED  BY <1>5, <1>6, <1>7, <1>8

(* What restore accepts is progress the mode allows, ...                   *)
LEMMA ValidIsConsistent ==
  ASSUME NEW s, ProgressShape(s), Valid(s)
  PROVE  Progress(s) /\ Consistent(s)
<1>1. s.members # <<>> /\ Reconstructed(s) = s  BY DEF Valid
<1>2. s # Refused  BY <1>1 DEF Refused
<1> QED  BY <1>1, <1>2, ReconstructedFacts

(* Progress is the same when mode, end, winner and members are.            *)
LEMMA SameProgress ==
  ASSUME NEW a, NEW b, Progress(a), Progress(b), a.mode = b.mode, a.terminal = b.terminal,
         a.winner = b.winner, Len(a.members) = Len(b.members),
         \A i \in Members(a) : a.members[i] = b.members[i]
  PROVE  a = b
<1>1. a.members = b.members  BY DEF Progress, Members
<1> QED  BY <1>1 DEF Progress

ReplayOf(s, results, g) ==
  /\ g \in [0 .. Len(s.members) -> Replays(s)]
  /\ g[0] = NewProgress(s.mode, Len(s.members))
  /\ \A k \in 1 .. Len(s.members) : g[k] = Replayed(s, results, g[k - 1], k)
  /\ g[Len(s.members)] = Replay(s, results)

(* A state of the replay that is not refused, and its next result.         *)
Taken(s, r) ==
  /\ r # Refused /\ Progress(r) /\ Consistent(r) /\ r.mode = s.mode
  /\ Len(r.members) = Len(s.members) /\ Members(r) = Members(s)

LEMMA StepTaken ==
  ASSUME NEW s, ProgressShape(s), NEW results \in SUBSET Terminal, NEW g, ReplayOf(s, results, g),
         NEW k \in Nat, k + 1 <= Len(s.members), g[k] # Refused
  PROVE  /\ Taken(s, g[k])
         /\ s.members[k + 1] \notin results \/ g[k].terminal # None => g[k + 1] = g[k]
         /\ s.members[k + 1] \in results /\ g[k].terminal = None
                /\ g[k].members[k + 1] = "Running"
              => /\ Outcome(g[k], k + 1, s.members[k + 1], g[k + 1])
                 /\ g[k + 1] # Refused
<1>1. k \in 0 .. Len(s.members) /\ k + 1 \in 1 .. Len(s.members) /\ (k + 1) - 1 = k
  BY DEF ProgressShape
<1>2. g[k] \in Replays(s) /\ g[k + 1] \in Replays(s)  BY <1>1 DEF ReplayOf
<1>3. Taken(s, g[k])  BY <1>2 DEF Replays, Taken
<1>4. g[k + 1] = Replayed(s, results, g[k], k + 1)
  <2>1. g[k + 1] = Replayed(s, results, g[(k + 1) - 1], k + 1)  BY <1>1 DEF ReplayOf
  <2> QED  BY <1>1, <2>1
<1>5. ASSUME s.members[k + 1] \in results, g[k].terminal = None, g[k].members[k + 1] = "Running"
      PROVE  Outcome(g[k], k + 1, s.members[k + 1], g[k + 1]) /\ g[k + 1] # Refused
  <2>1. k + 1 \in Members(g[k])  BY <1>1, <1>3 DEF Taken, ProgressShape, Members
  <2>2. CanComplete(g[k], k + 1)  BY <1>5, <2>1 DEF CanComplete, Active
  <2>3. g[k + 1] = Complete(g[k], k + 1, s.members[k + 1])  BY <1>4, <1>5, <2>2 DEF Replayed
  <2>4. Outcome(g[k], k + 1, s.members[k + 1], g[k + 1])
    BY <1>3, <1>5, <2>2, <2>3, CompletedFacts DEF Taken
  <2>5. Len(g[k + 1].members) = Len(s.members)  BY <1>3, <2>4 DEF Outcome, Taken
  <2>6. g[k + 1] # Refused  BY <1>1, <2>5 DEF Refused
  <2> QED  BY <2>4, <2>6
<1> QED  BY <1>3, <1>4, <1>5 DEF Replayed

(* Results that are not counted, or come after the end, change nothing.    *)
LEMMA SkipTail ==
  ASSUME NEW s, ProgressShape(s), NEW results \in SUBSET Terminal, NEW g, ReplayOf(s, results, g),
         NEW d \in 0 .. Len(s.members), g[d] # Refused,
         \A i \in d + 1 .. Len(s.members) : s.members[i] \notin results \/ g[d].terminal # None
  PROVE  Replay(s, results) = g[d]
<1> DEFINE n == Len(s.members)
           T == {k \in Nat : d <= k /\ k <= n => g[k] = g[d]}
<1>1. n \in Nat /\ d \in Nat /\ d <= n  BY DEF ProgressShape
<1>2. 0 \in T  BY <1>1
<1>3. ASSUME NEW k \in Nat, k \in T PROVE k + 1 \in T
  <2> SUFFICES ASSUME d <= k + 1, k + 1 <= n PROVE g[k + 1] = g[d]  OBVIOUS
  <2>1. CASE d = k + 1  BY <2>1
  <2>2. CASE d <= k
    <3>1. g[k] = g[d]  BY <1>1, <1>3, <2>2
    <3>2. k + 1 \in d + 1 .. n  BY <1>1, <2>2
    <3>3. g[k + 1] = g[k]  BY <3>1, <3>2, StepTaken
    <3> QED  BY <3>1, <3>3
  <2> QED  BY <1>1, <2>1, <2>2
<1>4. \A k \in Nat : k \in T
  <2> HIDE DEF T
  <2> QED  BY <1>2, <1>3, Induction
<1>5. g[n] = g[d]
  <2>1. n \in T  BY <1>1, <1>4
  <2> QED  BY <1>1, <2>1
<1> QED  BY <1>5 DEF ReplayOf

LEMMA ReplayGiven ==
  ASSUME NEW s, ProgressShape(s), NEW results \in SUBSET Terminal
  PROVE  \E g : ReplayOf(s, results, g)
BY ReplayFold DEF ReplayOf

(* The replay of a sequence that has completed its first c members.        *)
SequenceAt(s, r, j) ==
  /\ r # Refused /\ r.winner = NoWinner
  /\ r.terminal = IF j = Len(s.members) THEN "Completed" ELSE None
  /\ \A i \in Members(s) :
       r.members[i] = IF i <= j THEN "Completed" ELSE IF i = j + 1 THEN "Running" ELSE "Waiting"

LEMMA ReplayPrefix ==
  ASSUME NEW s, ProgressShape(s), s.mode = "Sequence", NEW results \in SUBSET Terminal,
         "Completed" \in results, NEW g, ReplayOf(s, results, g),
         NEW c \in 0 .. Len(s.members), Prefix(s, c)
  PROVE  SequenceAt(s, g[c], c) /\ Taken(s, g[c])
<1> DEFINE n == Len(s.members)
           T == {k \in Nat : k <= c => SequenceAt(s, g[k], k)}
<1>1. n \in Nat /\ n >= 1 /\ c \in Nat /\ c <= n /\ Members(s) = 1 .. n
  BY DEF ProgressShape, Members
<1>2. 0 \in T
  <2>1. g[0] = NewProgress("Sequence", n)  BY DEF ReplayOf
  <2>2. g[0].mode = "Sequence"  BY <2>1 DEF NewProgress
  <2>3. g[0] # Refused  BY <2>2 DEF Refused
  <2>4. SequenceAt(s, g[0], 0)  BY <1>1, <2>1, <2>3 DEF NewProgress, SequenceAt
  <2> QED  BY <2>4
<1>3. ASSUME NEW k \in Nat, k \in T PROVE k + 1 \in T
  <2> SUFFICES ASSUME k + 1 <= c PROVE SequenceAt(s, g[k + 1], k + 1)  OBVIOUS
  <2>1. SequenceAt(s, g[k], k)  BY <1>1, <1>3
  <2>2. k + 1 \in 1 .. c /\ k + 1 <= n /\ k < n  BY <1>1
  <2>3. s.members[k + 1] = "Completed"  BY <2>2 DEF Prefix
  <2>4. g[k].terminal = None /\ g[k].members[k + 1] = "Running" /\ g[k] # Refused
        /\ g[k].winner = NoWinner
    BY <1>1, <2>1, <2>2 DEF SequenceAt
  <2>5. /\ Taken(s, g[k])
        /\ Outcome(g[k], k + 1, s.members[k + 1], g[k + 1])
        /\ g[k + 1] # Refused
    BY <2>2, <2>3, <2>4, StepTaken
  <2>6. Members(g[k]) = 1 .. n /\ Len(g[k].members) = n /\ g[k].mode = "Sequence"
    BY <1>1, <2>5 DEF Taken
  <2>7. /\ g[k + 1].winner = g[k].winner
        /\ g[k + 1].terminal = IF k + 1 = n THEN "Completed" ELSE None
        /\ \A j \in 1 .. n : j # k + 1 /\ j # (k + 1) + 1 => g[k + 1].members[j] = g[k].members[j]
        /\ (k + 1) + 1 \in 1 .. n => g[k + 1].members[(k + 1) + 1] = "Running"
        /\ g[k + 1].members[k + 1] = "Completed"
    BY <2>3, <2>5, <2>6 DEF Outcome
  <2>8. ASSUME NEW i \in 1 .. n
        PROVE  g[k + 1].members[i] = IF i <= k + 1 THEN "Completed"
                                     ELSE IF i = (k + 1) + 1 THEN "Running" ELSE "Waiting"
    <3>1. i # k + 1 /\ i # (k + 1) + 1 => g[k + 1].members[i] = g[k].members[i]
      BY <2>7
    <3>2. g[k].members[i] = IF i <= k THEN "Completed"
                            ELSE IF i = k + 1 THEN "Running" ELSE "Waiting"
      BY <1>1, <2>1 DEF SequenceAt
    <3> QED  BY <1>1, <2>7, <3>1, <3>2
  <2> QED  BY <1>1, <2>4, <2>5, <2>7, <2>8 DEF SequenceAt
<1>4. \A k \in Nat : k \in T
  <2> HIDE DEF T
  <2> QED  BY <1>2, <1>3, Induction
<1>5. SequenceAt(s, g[c], c)
  <2>1. c \in T  BY <1>1, <1>4
  <2> QED  BY <1>1, <2>1
<1>6. g[c] \in Replays(s)  BY <1>1 DEF ReplayOf
<1> QED  BY <1>5, <1>6 DEF SequenceAt, Replays, Taken

LEMMA ConsistentSequenceIsValid ==
  ASSUME NEW s, Progress(s), Consistent(s), s.mode = "Sequence"
  PROVE  Reconstructed(s) = s
<1> DEFINE n == Len(s.members)
<1>1. ProgressShape(s) /\ s.winner = NoWinner /\ ConsistentSequence(s)
  BY DEF ProgressShape, Progress, Consistent
<1>2. n \in Nat /\ n >= 1 /\ Members(s) = 1 .. n  BY <1>1 DEF ProgressShape, Members
<1>3. PICK c \in 0 .. n :
        /\ Prefix(s, c)
        /\ CASE s.terminal = "Completed" -> c = n
             [] s.terminal = "Cancelled" -> c < n /\ From(s, c + 1, "Cancelled")
             [] s.terminal \in {"Failed", None} ->
                  /\ c < n
                  /\ s.members[c + 1] = IF s.terminal = None THEN "Running" ELSE "Failed"
                  /\ From(s, c + 2, IF s.terminal = None THEN "Waiting" ELSE "Cancelled")
  BY <1>1 DEF ConsistentSequence
<1>4. Terminal \in SUBSET Terminal /\ {"Completed", "Failed"} \in SUBSET Terminal
      /\ "Completed" \in Terminal
  BY DEF Terminal
<1>5. CASE s.terminal = "Cancelled"
  <2> DEFINE R == {"Completed", "Failed"}
  <2>1. PICK g : ReplayOf(s, R, g)  BY <1>1, <1>4, ReplayGiven
  <2>2. SequenceAt(s, g[c], c) /\ Taken(s, g[c])  BY <1>1, <1>3, <1>4, <2>1, ReplayPrefix
  <2>3. c < n /\ From(s, c + 1, "Cancelled")  BY <1>3, <1>5 DEF None
  <2>4. \A i \in c + 1 .. n : s.members[i] \notin R  BY <1>2, <2>3 DEF From
  <2>5. Replay(s, R) = g[c]
    <3> HIDE DEF R
    <3>1. R \in SUBSET Terminal  BY <1>4 DEF R
    <3>2. g[c] # Refused  BY <2>2 DEF Taken
    <3> QED  BY <1>1, <1>3, <2>1, <2>4, <3>1, <3>2, SkipTail
  <2>6. g[c].terminal = None /\ g[c] # Refused /\ g[c].winner = NoWinner  BY <2>2, <2>3 DEF SequenceAt
  <2> DEFINE f == Finish(g[c], "Cancelled")
  <2>7. Reconstructed(s) = f
    <3>1. LET r == Replay(s, {"Completed", "Failed"})
          IN  Reconstructed(s) = IF r = Refused THEN Refused ELSE CancelProgress(r)
      BY <1>1, <1>5 DEF Reconstructed
    <3> QED  BY <2>5, <2>6, <3>1 DEF CancelProgress
  <2>8. /\ Progress(f)
        /\ f.mode = g[c].mode /\ f.winner = g[c].winner /\ f.terminal = "Cancelled"
        /\ Len(f.members) = Len(g[c].members) /\ Members(f) = Members(g[c])
        /\ \A i \in Members(g[c]) : f.members[i] = IF g[c].members[i] \in Terminal
                                                     THEN g[c].members[i] ELSE "Cancelled"
    <3>1. Progress(g[c]) /\ "Cancelled" \in Terminal  BY <2>2 DEF Taken, Terminal
    <3> QED  BY <3>1, FinishFacts
  <2> HIDE DEF f
  <2>9. \A i \in Members(f) : f.members[i] = s.members[i]
    <3> SUFFICES ASSUME NEW i \in 1 .. n PROVE f.members[i] = s.members[i]
      BY <1>2, <2>2, <2>8 DEF Taken
    <3>1. f.members[i] = IF i <= c THEN "Completed" ELSE "Cancelled"
      BY <1>2, <2>2, <2>8 DEF Taken, SequenceAt, Terminal
    <3>2. s.members[i] = IF i <= c THEN "Completed" ELSE "Cancelled"
      BY <1>2, <1>3, <2>3 DEF Prefix, From
    <3> QED  BY <3>1, <3>2
  <2> QED  BY <1>1, <1>5, <2>2, <2>6, <2>7, <2>8, <2>9, SameProgress DEF Taken
<1>6. CASE s.terminal # "Cancelled"
  <2>1. PICK g : ReplayOf(s, Terminal, g)  BY <1>1, <1>4, ReplayGiven
  <2>2. SequenceAt(s, g[c], c) /\ Taken(s, g[c])  BY <1>1, <1>3, <1>4, <2>1, ReplayPrefix
  <2>3. Reconstructed(s) = Replay(s, Terminal)  BY <1>1, <1>6 DEF Reconstructed
  <2>4. g[c] # Refused /\ g[c].winner = NoWinner  BY <2>2 DEF SequenceAt
  <2>5. CASE s.terminal = "Completed"
    <3>1. c = n  BY <1>3, <2>5 DEF None
    <3>2. Replay(s, Terminal) = g[c]  BY <2>1, <3>1 DEF ReplayOf
    <3>3. g[c].terminal = "Completed"  BY <2>2, <3>1 DEF SequenceAt
    <3>4. \A i \in Members(g[c]) : g[c].members[i] = s.members[i]
      BY <1>2, <1>3, <2>2, <3>1 DEF SequenceAt, Taken, Prefix
    <3> QED  BY <1>1, <2>2, <2>3, <2>4, <2>5, <3>2, <3>3, <3>4, SameProgress DEF Taken
  <2>6. CASE s.terminal = None
    <3>1. c < n /\ s.members[c + 1] = "Running" /\ From(s, c + 2, "Waiting")
      BY <1>3, <2>6 DEF None
    <3>2. \A i \in c + 1 .. n : s.members[i] \in {"Running", "Waiting"}
      BY <1>2, <3>1 DEF From
    <3>3. Replay(s, Terminal) = g[c]
      <4>1. \A i \in c + 1 .. n : s.members[i] \notin Terminal  BY <3>2 DEF Terminal
      <4> QED  BY <1>1, <1>3, <1>4, <2>1, <2>4, <4>1, SkipTail
    <3>4. g[c].terminal = None  BY <2>2, <3>1 DEF SequenceAt
    <3>5. \A i \in Members(g[c]) : g[c].members[i] = s.members[i]
      BY <1>2, <1>3, <2>2, <3>1 DEF SequenceAt, Taken, Prefix, From
    <3> QED  BY <1>1, <2>2, <2>3, <2>4, <2>6, <3>3, <3>4, <3>5, SameProgress DEF Taken
  <2>7. CASE s.terminal = "Failed"
    <3>1. c < n /\ s.members[c + 1] = "Failed" /\ From(s, c + 2, "Cancelled")
      BY <1>3, <2>7 DEF None
    <3> DEFINE h == g[c + 1]
    <3>2. g[c].terminal = None /\ g[c].members[c + 1] = "Running"
      BY <1>2, <2>2, <3>1 DEF SequenceAt
    <3>3. Outcome(g[c], c + 1, "Failed", h) /\ h # Refused
      <4>1. c \in Nat /\ c + 1 <= n /\ "Failed" \in Terminal  BY <1>2, <3>1 DEF Terminal
      <4> QED  BY <1>1, <1>4, <2>1, <2>4, <3>1, <3>2, <4>1, StepTaken
    <3>4. /\ Progress(h) /\ h.mode = g[c].mode /\ h.winner = g[c].winner /\ h.terminal = "Failed"
          /\ Len(h.members) = Len(g[c].members) /\ Members(h) = Members(g[c])
          /\ h.members[c + 1] = "Failed"
          /\ \A j \in Members(g[c]) \ {c + 1} :
               h.members[j] = IF g[c].members[j] \in Terminal THEN g[c].members[j] ELSE "Cancelled"
      BY <1>1, <2>2, <3>3 DEF Outcome, Taken
    <3>5. Replay(s, Terminal) = h
      <4>1. c + 1 \in 0 .. n /\ h.terminal # None  BY <1>2, <3>1, <3>4 DEF None
      <4> QED  BY <1>1, <1>4, <2>1, <3>3, <4>1, SkipTail
    <3> HIDE DEF h
    <3>6. \A i \in Members(h) : h.members[i] = s.members[i]
      <4> SUFFICES ASSUME NEW i \in 1 .. n PROVE h.members[i] = s.members[i]
        BY <1>2, <2>2, <3>4 DEF Taken
      <4>1. CASE i <= c
        <5>1. g[c].members[i] = "Completed" /\ i # c + 1  BY <1>2, <2>2, <4>1 DEF SequenceAt
        <5>2. s.members[i] = "Completed"  BY <1>3, <4>1 DEF Prefix
        <5> QED  BY <1>2, <2>2, <3>4, <5>1, <5>2 DEF Taken, Terminal
      <4>2. CASE i = c + 1  BY <3>1, <3>4, <4>2
      <4>3. CASE i >= c + 2
        <5>1. g[c].members[i] = "Waiting" /\ i # c + 1  BY <1>2, <2>2, <4>3 DEF SequenceAt
        <5>2. s.members[i] = "Cancelled"  BY <1>2, <3>1, <4>3 DEF From
        <5> QED  BY <1>2, <2>2, <3>4, <5>1, <5>2 DEF Taken, Terminal
      <4> QED  BY <4>1, <4>2, <4>3
    <3> QED  BY <1>1, <2>2, <2>3, <2>4, <2>7, <3>4, <3>5, <3>6, SameProgress DEF Taken
  <2> QED  BY <1>6, <2>5, <2>6, <2>7 DEF Progress, Terminal
<1> QED  BY <1>5, <1>6

LEMMA ConsistentRaceIsValid ==
  ASSUME NEW s, Progress(s), Consistent(s), s.mode = "Race"
  PROVE  Reconstructed(s) = s
<1> DEFINE n == Len(s.members)
           new == NewProgress("Race", n)
<1>1. ProgressShape(s) /\ ConsistentRace(s)  BY DEF ProgressShape, Progress, Consistent
<1>2. n \in Nat /\ n >= 1 /\ Members(s) = 1 .. n  BY <1>1 DEF ProgressShape, Members
<1>3. Progress(new) /\ Consistent(new)
  <2>1. "Race" \in Mode /\ n \in Nat \ {0}  BY <1>1 DEF Mode, ProgressShape
  <2> QED  BY <2>1, NewIsConsistent
<1>4. /\ new.mode = "Race" /\ new.terminal = None /\ new.winner = NoWinner
      /\ Len(new.members) = n /\ Members(new) = 1 .. n
      /\ \A i \in 1 .. n : new.members[i] = "Running"
  BY <1>2 DEF NewProgress, Members
<1> HIDE DEF new
<1>5. CASE s.winner = NoWinner /\ s.terminal = None
  <2>1. From(s, 1, "Running")  BY <1>1, <1>5 DEF ConsistentRace, None
  <2>2. Reconstructed(s) = new  BY <1>5 DEF Reconstructed, new, None
  <2>3. \A i \in Members(new) : new.members[i] = s.members[i]  BY <1>2, <1>4, <2>1 DEF From
  <2> QED  BY <1>3, <1>4, <1>5, <2>2, <2>3, SameProgress
<1>6. CASE s.winner = NoWinner /\ s.terminal # None
  <2>1. s.terminal = "Cancelled" /\ From(s, 1, "Cancelled")  BY <1>1, <1>6 DEF ConsistentRace
  <2> DEFINE R == {"Completed", "Failed"}
             f == Finish(new, "Cancelled")
  <2>2. R \in SUBSET Terminal  BY DEF Terminal
  <2>3. \A i \in 0 + 1 .. n : s.members[i] \notin R  BY <1>2, <2>1 DEF From
  <2> HIDE DEF R
  <2>4. PICK g : ReplayOf(s, R, g)  BY <1>1, <2>2, ReplayGiven
  <2>5. g[0] = new /\ new # Refused /\ 0 \in 0 .. n
    BY <1>2, <1>4, <2>4 DEF ReplayOf, Refused, new
  <2>6. Replay(s, R) = new  BY <1>1, <2>2, <2>3, <2>4, <2>5, SkipTail
  <2>7. Reconstructed(s) = f
    <3>1. LET r == Replay(s, {"Completed", "Failed"})
          IN  Reconstructed(s) = IF r = Refused THEN Refused ELSE CancelProgress(r)
      BY <1>6, <2>1 DEF Reconstructed
    <3> QED  BY <1>4, <2>5, <2>6, <3>1 DEF CancelProgress, R
  <2>8. /\ Progress(f)
        /\ f.mode = new.mode /\ f.winner = new.winner /\ f.terminal = "Cancelled"
        /\ Len(f.members) = Len(new.members) /\ Members(f) = Members(new)
        /\ \A i \in Members(new) : f.members[i] = IF new.members[i] \in Terminal
                                                    THEN new.members[i] ELSE "Cancelled"
    <3>1. "Cancelled" \in Terminal  BY DEF Terminal
    <3> QED  BY <1>3, <3>1, FinishFacts
  <2> HIDE DEF f
  <2>9. \A i \in Members(f) : f.members[i] = s.members[i]
    BY <1>2, <1>4, <2>1, <2>8 DEF From, Terminal
  <2> QED  BY <1>4, <1>6, <2>1, <2>7, <2>8, <2>9, SameProgress
<1>7. CASE s.winner # NoWinner
  <2> DEFINE c == Complete(new, s.winner, s.terminal)
  <2>1. /\ s.members[s.winner] = s.terminal /\ s.terminal \in Terminal /\ s.winner \in Members(s)
        /\ \A i \in Members(s) \ {s.winner} : s.members[i] = "Cancelled"
    BY <1>1, <1>7 DEF ConsistentRace, Progress
  <2>2. CanComplete(new, s.winner)  BY <1>2, <1>4, <2>1 DEF CanComplete, Active
  <2>3. Reconstructed(s) = c  BY <1>7, <2>1 DEF Reconstructed, new
  <2>4. Outcome(new, s.winner, s.terminal, c)  BY <1>3, <2>1, <2>2, CompletedFacts
  <2> HIDE DEF c
  <2>5. /\ Progress(c) /\ c.mode = "Race" /\ c.winner = s.winner /\ c.terminal = s.terminal
        /\ Len(c.members) = n /\ Members(c) = 1 .. n /\ c.members[s.winner] = s.terminal
        /\ \A j \in 1 .. n : j # s.winner => c.members[j] = "Cancelled"
    BY <1>4, <2>4 DEF Outcome
  <2>6. \A i \in Members(c) : c.members[i] = s.members[i]  BY <1>2, <2>1, <2>5
  <2> QED  BY <2>3, <2>5, <2>6, SameProgress
<1> QED  BY <1>5, <1>6, <1>7

(* The replay of all: the results of the first k members, and no others.   *)
AllAt(s, results, r, k) ==
  /\ r # Refused /\ r.winner = NoWinner
  /\ \A i \in Members(s) :
       r.members[i] = IF i <= k /\ s.members[i] \in results THEN s.members[i] ELSE "Running"
  /\ r.terminal = IF \E i \in Members(s) : r.members[i] = "Running" THEN None
                  ELSE AllVerdict(ToSet(r.members))

LEMMA ReplayAll ==
  ASSUME NEW s, ProgressShape(s), s.mode = "All", NEW results \in SUBSET Terminal
  PROVE  /\ AllAt(s, results, Replay(s, results), Len(s.members))
         /\ Taken(s, Replay(s, results))
<1> DEFINE n == Len(s.members)
<1>0. PICK g : ReplayOf(s, results, g)  BY ReplayGiven
<1> DEFINE T == {k \in Nat : k <= n => AllAt(s, results, g[k], k)}
<1>1. n \in Nat /\ n >= 1 /\ Members(s) = 1 .. n  BY DEF ProgressShape, Members
<1>2. 0 \in T
  <2>1. g[0] = NewProgress("All", n)  BY <1>0 DEF ReplayOf
  <2>2. /\ g[0].mode = "All" /\ g[0].winner = NoWinner /\ g[0].terminal = None
        /\ \A i \in 1 .. n : g[0].members[i] = "Running"
    BY <2>1 DEF NewProgress
  <2>3. g[0] # Refused  BY <2>2 DEF Refused
  <2>4. 1 \in 1 .. n  BY <1>1
  <2>5. AllAt(s, results, g[0], 0)  BY <1>1, <2>2, <2>3, <2>4 DEF AllAt
  <2> QED  BY <2>5
<1>3. ASSUME NEW k \in Nat, k \in T PROVE k + 1 \in T
  <2> SUFFICES ASSUME k + 1 <= n PROVE AllAt(s, results, g[k + 1], k + 1)  OBVIOUS
  <2>1. AllAt(s, results, g[k], k)  BY <1>1, <1>3
  <2>2. k + 1 \in 1 .. n /\ ~ (k + 1 <= k)  BY <1>1
  <2>3. g[k].members[k + 1] = "Running" /\ g[k].terminal = None /\ g[k] # Refused
        /\ g[k].winner = NoWinner
    BY <1>1, <2>1, <2>2 DEF AllAt
  <2>4. CASE s.members[k + 1] \notin results
    <3>1. g[k + 1] = g[k]  BY <1>0, <2>2, <2>3, <2>4, StepTaken
    <3>2. \A i \in 1 .. n : i <= k + 1 /\ s.members[i] \in results
                              <=> i <= k /\ s.members[i] \in results
      BY <1>1, <2>4
    <3> QED  BY <1>1, <2>1, <3>1, <3>2 DEF AllAt
  <2>5. CASE s.members[k + 1] \in results
    <3>1. /\ Taken(s, g[k]) /\ g[k + 1] # Refused
          /\ Outcome(g[k], k + 1, s.members[k + 1], g[k + 1])
      BY <1>0, <2>2, <2>3, <2>5, StepTaken
    <3>2. Members(g[k]) = 1 .. n /\ g[k].mode = "All"  BY <1>1, <3>1 DEF Taken
    <3>3. /\ g[k + 1].winner = g[k].winner /\ g[k + 1].members[k + 1] = s.members[k + 1]
          /\ \A j \in 1 .. n : j # k + 1 => g[k + 1].members[j] = g[k].members[j]
          /\ g[k + 1].terminal = IF \E j \in 1 .. n : g[k + 1].members[j] = "Running" THEN None
                                 ELSE AllVerdict(ToSet(g[k + 1].members))
      BY <3>1, <3>2 DEF Outcome
    <3>4. ASSUME NEW i \in 1 .. n
          PROVE  g[k + 1].members[i] = IF i <= k + 1 /\ s.members[i] \in results
                                         THEN s.members[i] ELSE "Running"
      <4>1. CASE i = k + 1  BY <2>5, <3>3, <4>1
      <4>2. CASE i # k + 1
        <5>1. i <= k + 1 <=> i <= k  BY <4>2
        <5> QED  BY <1>1, <2>1, <3>3, <4>2, <5>1 DEF AllAt
      <4> QED  BY <4>1, <4>2
    <3> QED  BY <1>1, <2>3, <3>1, <3>3, <3>4 DEF AllAt
  <2> QED  BY <2>4, <2>5
<1>4. \A k \in Nat : k \in T
  <2> HIDE DEF T
  <2> QED  BY <1>2, <1>3, Induction
<1>5. AllAt(s, results, g[n], n)
  <2>1. n \in T  BY <1>1, <1>4
  <2> QED  BY <1>1, <2>1
<1>6. g[n] = Replay(s, results)  BY <1>0 DEF ReplayOf
<1>7. Replay(s, results) \in Replays(s)  BY ReplayFacts
<1>8. Replay(s, results) # Refused  BY <1>5, <1>6 DEF AllAt
<1> QED  BY <1>5, <1>6, <1>7, <1>8 DEF Replays, Taken

LEMMA ConsistentAllIsValid ==
  ASSUME NEW s, Progress(s), Consistent(s), s.mode = "All"
  PROVE  Reconstructed(s) = s
<1> DEFINE n == Len(s.members)
<1>1. ProgressShape(s) /\ ConsistentAll(s) /\ s.winner = NoWinner
  BY DEF ProgressShape, Progress, Consistent
<1>2. n \in Nat /\ n >= 1 /\ Members(s) = 1 .. n /\ DOMAIN s.members = 1 .. n
  BY <1>1 DEF ProgressShape, Members
<1>3. \A i \in 1 .. n : s.members[i] \in Terminal \cup {"Running"}
  BY <1>1, <1>2 DEF ProgressShape, ConsistentAll, ToSet, MemberState
<1>4. s.terminal = None <=> \E i \in 1 .. n : s.members[i] = "Running"
  BY <1>1, <1>2 DEF ConsistentAll, ToSet
<1>5. CASE s.terminal = "Cancelled"
  <2> DEFINE R == {"Completed", "Failed"}
             r == Replay(s, R)
             f == Finish(r, "Cancelled")
  <2>1. AllAt(s, R, r, n) /\ Taken(s, r)
    <3>1. R \in SUBSET Terminal  BY DEF Terminal
    <3> QED  BY <1>1, <3>1, ReplayAll
  <2>2. PICK i \in 1 .. n : s.members[i] = "Cancelled"
    BY <1>1, <1>2, <1>5 DEF ConsistentAll, ToSet, None
  <2> HIDE DEF r
  <2>3. r.members[i] = "Running"  BY <1>2, <2>1, <2>2 DEF AllAt
  <2>4. r.terminal = None /\ r # Refused /\ r.winner = NoWinner
    BY <1>2, <2>1, <2>3 DEF AllAt
  <2>5. Reconstructed(s) = f
    <3>1. Reconstructed(s) = IF r = Refused THEN Refused ELSE CancelProgress(r)
      BY <1>1, <1>5 DEF Reconstructed, r
    <3> QED  BY <2>4, <3>1 DEF CancelProgress
  <2>6. /\ Progress(f)
        /\ f.mode = r.mode /\ f.winner = r.winner /\ f.terminal = "Cancelled"
        /\ Len(f.members) = Len(r.members) /\ Members(f) = Members(r)
        /\ \A j \in Members(r) : f.members[j] = IF r.members[j] \in Terminal
                                                  THEN r.members[j] ELSE "Cancelled"
    <3>1. Progress(r) /\ "Cancelled" \in Terminal  BY <2>1 DEF Taken, Terminal
    <3> QED  BY <3>1, FinishFacts
  <2> HIDE DEF f
  <2>7. ASSUME NEW j \in 1 .. n PROVE f.members[j] = s.members[j]
    <3>1. r.members[j] = IF s.members[j] \in R THEN s.members[j] ELSE "Running"
      BY <1>2, <2>1 DEF AllAt
    <3>2. f.members[j] = IF r.members[j] \in Terminal THEN r.members[j] ELSE "Cancelled"
      BY <1>2, <2>1, <2>6 DEF Taken
    <3>3. s.members[j] \in {"Completed", "Failed", "Cancelled"}
      BY <1>3, <1>4, <1>5 DEF Terminal, None
    <3> QED  BY <3>1, <3>2, <3>3 DEF Terminal
  <2>8. \A j \in Members(f) : f.members[j] = s.members[j]  BY <1>2, <2>1, <2>6, <2>7 DEF Taken
  <2> QED  BY <1>1, <1>5, <2>1, <2>4, <2>5, <2>6, <2>8, SameProgress DEF Taken
<1>6. CASE s.terminal # "Cancelled"
  <2> DEFINE r == Replay(s, Terminal)
  <2>1. AllAt(s, Terminal, r, n) /\ Taken(s, r)
    <3>1. Terminal \in SUBSET Terminal  OBVIOUS
    <3> QED  BY <1>1, <3>1, ReplayAll
  <2>2. Reconstructed(s) = r  BY <1>1, <1>6 DEF Reconstructed
  <2> HIDE DEF r
  <2>3. \A i \in 1 .. n : r.members[i] = s.members[i]
    BY <1>2, <1>3, <2>1 DEF AllAt
  <2>4. DOMAIN r.members = 1 .. n  BY <1>2, <2>1 DEF Taken, Members
  <2>5. ToSet(r.members) = ToSet(s.members)  BY <1>2, <2>3, <2>4 DEF ToSet
  <2>6. r.terminal = s.terminal
    <3>1. CASE s.terminal = None
      BY <1>2, <1>4, <2>1, <2>3, <3>1 DEF AllAt
    <3>2. CASE s.terminal # None
      <4>1. r.terminal = AllVerdict(ToSet(s.members))
        BY <1>2, <1>4, <2>1, <2>3, <2>5, <3>2 DEF AllAt
      <4>2. s.terminal \in {"Completed", "Failed"}  BY <1>6, <3>2 DEF Progress, Terminal
      <4>3. s.terminal \in ToSet(s.members)
            /\ (s.terminal = "Completed" => ToSet(s.members) = {"Completed"})
        BY <1>1, <3>2 DEF ConsistentAll
      <4>4. CASE s.terminal = "Failed"
        BY <4>1, <4>3, <4>4 DEF AllVerdict
      <4>5. CASE s.terminal = "Completed"
        BY <4>1, <4>3, <4>5 DEF AllVerdict
      <4> QED  BY <4>2, <4>4, <4>5
    <3> QED  BY <3>1, <3>2
  <2>7. r.winner = NoWinner  BY <2>1 DEF AllAt
  <2>8. \A j \in Members(r) : r.members[j] = s.members[j]  BY <1>2, <2>1, <2>3 DEF Taken
  <2> QED  BY <1>1, <2>1, <2>2, <2>6, <2>7, <2>8, SameProgress DEF Taken
<1> QED  BY <1>5, <1>6

(* ... and all of it: TaskGroupState::validate takes a snapshot exactly if *)
(* it is progress that its mode allows, what complete and cancel keep.     *)
THEOREM RestoreTakesExactlyProgress ==
  ASSUME NEW s, ProgressShape(s)
  PROVE  Valid(s) <=> Progress(s) /\ Consistent(s)
<1>1. s.members # <<>>  BY DEF ProgressShape
<1>2. ASSUME Progress(s), Consistent(s) PROVE Reconstructed(s) = s
  <2>1. s.mode \in {"Sequence", "Race", "All"}  BY DEF ProgressShape, Mode
  <2> QED
    BY <1>2, <2>1, ConsistentSequenceIsValid, ConsistentRaceIsValid, ConsistentAllIsValid
<1> QED  BY <1>1, <1>2, ValidIsConsistent DEF Valid
===============================================================================
