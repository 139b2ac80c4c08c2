----------------------------- MODULE PlayerProofs -----------------------------
(***************************************************************************)
(* The Player for any stories, on top of the coordinator: what the         *)
(* coordinator activates finds its target on the stage at rest, a wait of  *)
(* the story ends only when its group of commands is through, the end of a *)
(* group is not lost on its way to the story, and a stream that is not     *)
(* cancelled is the video that its layer shows.                            *)
(***************************************************************************)
EXTENDS PlayerPresentation, PresentationProofs
-------------------------------------------------------------------------------
(* The director as a value: what it is made of, and that its operations on *)
(* entities, tweens and movies leave the coordinator alone.                *)

(* Names on stage are targets of the coordinator and those of the stories. *)
StoryCommands ==
  UNION {UNION {ToSet(s[n].commands) : n \in 1 .. Len(s)} : s \in Script}
StageNames == Target \cup {x.target : x \in StoryCommands}

(* A command of a story, a movie that plays, a tween; and what the director*)
(* keeps of them.                                                          *)
Orders ==
  {x \in [kind : Kind, target : StageNames, policy : Policy, length : Nat,
          fence : Fence \cup {NoFence}, id : Nat] :
     /\ x.kind \in RegionKind => x.target \in Target /\ RegionOf[x.target] = RegionOfKind(x.kind)
     /\ x.kind = "Camera" => x.target \notin Target}
Films == [layer : VideoLayer, id : Nat, fence : Fence \cup {NoFence}]
Tween == [left : Int, remove : BOOLEAN]
Tweened == StageNames \X {"Opacity", "Position"}
Tweens == UNION {[T -> Tween] : T \in SUBSET Tweened}
Kept == UNION {[T -> Orders] : T \in SUBSET Nat}
Playing == UNION {[T -> Films] : T \in SUBSET VideoLayer}
Errors ==
  Assertion \cup {None, "UnknownEntity", "Rejected", "QueueLimit", "Refused", "ActivationLimit",
                  "Video", "FenceFailed"}

Director ==
  [c : Coordinator, entities : SUBSET StageNames, tweens : Tweens, region : Kept,
   stage : Seq(Orders), movies : Playing, out : Seq(Films), next : Nat, error : Errors]

(* What an operation on the stage does not touch. *)
Stays(d, r) == r \in Director /\ r.c = d.c

(* A director field by field, and with one field replaced.                 *)
LEMMA DirectorIs ==
  \A d : d \in Director <=>
    /\ d = [c |-> d.c, entities |-> d.entities, tweens |-> d.tweens, region |-> d.region,
            stage |-> d.stage, movies |-> d.movies, out |-> d.out, next |-> d.next,
            error |-> d.error]
    /\ d.c \in Coordinator /\ d.entities \in SUBSET StageNames /\ d.tweens \in Tweens
    /\ d.region \in Kept /\ d.stage \in Seq(Orders) /\ d.movies \in Playing
    /\ d.out \in Seq(Films) /\ d.next \in Nat /\ d.error \in Errors
BY DEF Director

LEMMA FailStays ==
  ASSUME NEW d \in Director, NEW code \in Errors
  PROVE  Stays(d, Fail(d, code))
BY DirectorIs DEF Fail, Stays

LEMMA InsertTyped ==
  ASSUME NEW A, NEW B, NEW f \in UNION {[T -> B] : T \in SUBSET A},
         NEW g \in UNION {[T -> B] : T \in SUBSET A}
  PROVE  Insert(f, g) \in UNION {[T -> B] : T \in SUBSET A}
<1> DEFINE h == Insert(f, g)
<1>1. /\ f \in [DOMAIN f -> B] /\ DOMAIN f \subseteq A
      /\ g \in [DOMAIN g -> B] /\ DOMAIN g \subseteq A
  BY UnionOfFunctions
<1>2. h \in [DOMAIN f \cup DOMAIN g -> B]  BY <1>1 DEF Insert
<1>3. DOMAIN f \cup DOMAIN g \in SUBSET A  BY <1>1
<1> HIDE DEF h
<1>4. DOMAIN h = DOMAIN f \cup DOMAIN g  BY <1>2
<1>5. h \in UNION {[T -> B] : T \in SUBSET A}  BY <1>2, <1>3, <1>4, UnionOfFunctions
<1> QED  BY <1>5 DEF h

LEMMA RestrictTyped ==
  ASSUME NEW A, NEW B, NEW f \in UNION {[T -> B] : T \in SUBSET A}, NEW S \in SUBSET DOMAIN f
  PROVE  Restrict(f, S) \in UNION {[T -> B] : T \in SUBSET A}
<1> DEFINE h == Restrict(f, S)
<1>1. f \in [DOMAIN f -> B] /\ DOMAIN f \subseteq A  BY UnionOfFunctions
<1>2. h \in [S -> B] /\ S \in SUBSET A  BY <1>1 DEF Restrict
<1> HIDE DEF h
<1>3. h \in UNION {[T -> B] : T \in SUBSET A}  BY <1>2, UnionOfFunctions
<1> QED  BY <1>3 DEF h

LEMMA TweensSet ==
  ASSUME NEW d \in Director, NEW t \in Tweens
  PROVE  Stays(d, [d EXCEPT !.tweens = t])
BY DirectorIs DEF Stays

LEMMA EntitiesSet ==
  ASSUME NEW d \in Director, NEW E \in SUBSET StageNames
  PROVE  Stays(d, [d EXCEPT !.entities = E])
BY DirectorIs DEF Stays

LEMMA CoordinatorSet ==
  ASSUME NEW d \in Director, NEW s \in Coordinator
  PROVE  LET r == [d EXCEPT !.c = s] IN
           /\ r \in Director /\ r.c = s /\ r.next = d.next /\ r.region = d.region
           /\ r.stage = d.stage /\ r.out = d.out /\ r.movies = d.movies /\ r.error = d.error
BY DirectorIs

LEMMA NextSet ==
  ASSUME NEW d \in Director, NEW n \in Nat
  PROVE  Stays(d, [d EXCEPT !.next = n]) /\ [d EXCEPT !.next = n].region = d.region
BY DirectorIs DEF Stays

LEMMA RegionSet ==
  ASSUME NEW d \in Director, NEW held \in Kept
  PROVE  Stays(d, [d EXCEPT !.region = held])
BY DirectorIs DEF Stays

LEMMA RegionIs ==
  ASSUME NEW d \in Director, NEW held \in Kept, NEW r, r = [d EXCEPT !.region = held]
  PROVE  /\ r \in Director /\ r.c = d.c /\ r.region = held /\ r.next = d.next
         /\ r.out = d.out /\ r.error = d.error
BY DirectorIs

LEMMA StageSet ==
  ASSUME NEW d \in Director, NEW q \in Seq(Orders)
  PROVE  Stays(d, [d EXCEPT !.stage = q])
BY DirectorIs DEF Stays

LEMMA StageIs ==
  ASSUME NEW d \in Director, NEW q \in Seq(Orders), NEW r, r = [d EXCEPT !.stage = q]
  PROVE  /\ r \in Director /\ r.c = d.c /\ r.region = d.region /\ r.stage = q
         /\ r.next = d.next /\ r.out = d.out /\ r.tweens = d.tweens
         /\ r.entities = d.entities /\ r.error = d.error
BY DirectorIs

LEMMA OutSet ==
  ASSUME NEW d \in Director, NEW q \in Seq(Films)
  PROVE  Stays(d, [d EXCEPT !.out = q])
BY DirectorIs DEF Stays

(* Tweens that are dropped, entities that go, tweens that are scheduled.   *)
LEMMA DropStays ==
  ASSUME NEW d \in Director, NEW targets
  PROVE  Stays(d, DropTweens(d, targets))
<1> DEFINE t == Restrict(d.tweens, DOMAIN d.tweens \ TweensOf(d, targets))
<1>1. d.tweens \in Tweens  BY DirectorIs
<1>2. t \in Tweens  BY <1>1, RestrictTyped DEF Tweens
<1>3. DropTweens(d, targets) = [d EXCEPT !.tweens = t]  BY DEF DropTweens
<1> HIDE DEF t
<1> QED  BY <1>2, <1>3, TweensSet

LEMMA RemoveStays ==
  ASSUME NEW d \in Director, NEW targets
  PROVE  Stays(d, RemoveEntities(d, targets))
<1> DEFINE E == d.entities \ targets
           m == [d EXCEPT !.entities = E]
<1>1. RemoveEntities(d, targets) = DropTweens(m, targets)  BY DEF RemoveEntities
<1>2. E \in SUBSET StageNames  BY DirectorIs
<1> HIDE DEF E
<1>3. Stays(d, m)  BY <1>2, EntitiesSet
<1> HIDE DEF m
<1>4. Stays(m, DropTweens(m, targets))  BY <1>3, DropStays DEF Stays
<1> QED  BY <1>1, <1>3, <1>4 DEF Stays

LEMMA ScheduleStays ==
  ASSUME NEW d \in Director, NEW targets \in SUBSET StageNames, NEW property \in {"Opacity", "Position"},
         NEW length \in Nat, NEW remove \in BOOLEAN
  PROVE  Stays(d, Schedule(d, targets, property, length, remove))
<1> DEFINE g == [k \in targets \X {property} |-> [left |-> length, remove |-> remove]]
           t == Insert(d.tweens, g)
<1>1. targets \X {property} \in SUBSET Tweened  BY DEF Tweened
<1>2. g \in [targets \X {property} -> Tween]  BY DEF Tween
<1>3. DOMAIN g = targets \X {property}  OBVIOUS
<1>4. Schedule(d, targets, property, length, remove) = [d EXCEPT !.tweens = t]  BY DEF Schedule
<1> HIDE DEF g
<1>5. g \in Tweens
  <2>1. g \in [DOMAIN g -> Tween] /\ DOMAIN g \in SUBSET Tweened  BY <1>1, <1>2, <1>3
  <2> QED  BY <2>1 DEF Tweens
<1>6. d.tweens \in Tweens  BY DirectorIs
<1>7. t \in Tweens
  <2> HIDE DEF t
  <2>1. t = Insert(d.tweens, g)  BY DEF t
  <2>2. Insert(d.tweens, g) \in Tweens  BY <1>5, <1>6, InsertTyped DEF Tweens
  <2> QED  BY <2>1, <2>2
<1> HIDE DEF t
<1> QED  BY <1>4, <1>7, TweensSet

(* Any command of the story.                                               *)
LEMMA PerformStays ==
  ASSUME NEW d \in Director, NEW x \in Orders
  PROVE  Stays(d, Perform(d, x))
<1>1. /\ x.target \in StageNames /\ x.length \in Nat /\ x.id \in Nat /\ x.fence \in Fence \cup {NoFence}
      /\ x.kind \in RegionKind => x.target \in Target /\ RegionOf[x.target] = RegionOfKind(x.kind)
  BY DEF Orders
<1>2. Stays(d, Appear(d, x))
  <2> DEFINE E == d.entities \cup {x.target}
             m == [d EXCEPT !.entities = E]
  <2>1. Appear(d, x) = IF x.length = 0 THEN m
                       ELSE Schedule(m, {x.target}, "Opacity", x.length, FALSE)
    BY DEF Appear
  <2>2. E \in SUBSET StageNames  BY <1>1, DirectorIs
  <2> HIDE DEF E
  <2>3. Stays(d, m)  BY <2>2, EntitiesSet
  <2> HIDE DEF m
  <2>4. Stays(m, Schedule(m, {x.target}, "Opacity", x.length, FALSE))
    BY <1>1, <2>3, ScheduleStays DEF Stays
  <2> QED  BY <2>1, <2>3, <2>4 DEF Stays
<1>3. ASSUME NEW T \in SUBSET StageNames PROVE Stays(d, Vanish(d, T, x.length))
  <2>1. Stays(d, RemoveEntities(d, T)) /\ Stays(d, Schedule(d, T, "Opacity", x.length, TRUE))
    BY <1>1, <1>3, RemoveStays, ScheduleStays
  <2> QED  BY <2>1 DEF Vanish
<1>4. Stays(d, Travel(d, x))
  <2>1. Stays(d, Schedule(d, {x.target}, "Position", x.length, FALSE))  BY <1>1, ScheduleStays
  <2> QED  BY <2>1 DEF Travel, Stays
<1>5. ASSUME x.kind = "Movie" PROVE Stays(d, OpenMovie(d, x))
  <2> DEFINE film == [layer |-> x.target, id |-> x.id, fence |-> x.fence]
             one == [l \in {x.target} |-> film]
             playing == Insert(d.movies, one)
             out == Append(d.out, film)
  <2>1. x.target \in VideoLayer
    BY <1>1, <1>5 DEF VideoLayer, RegionKind, RegionOfKind
  <2>2. film \in Films  BY <1>1, <2>1 DEF Films
  <2>3. OpenMovie(d, x) = [d EXCEPT !.movies = playing, !.out = out]  BY DEF OpenMovie
  <2> HIDE DEF film
  <2>4. one \in [{x.target} -> Films] /\ {x.target} \in SUBSET VideoLayer  BY <2>1, <2>2
  <2> HIDE DEF one
  <2>5. one \in Playing  BY <2>4, UnionOfFunctions DEF Playing
  <2>6. playing \in Playing  BY <2>5, DirectorIs, InsertTyped DEF Playing
  <2>7. out \in Seq(Films)  BY <2>2, DirectorIs
  <2> HIDE DEF playing, out
  <2> DEFINE m == [d EXCEPT !.movies = playing]
  <2>8. Stays(d, m) /\ m.out = d.out  BY <2>6, DirectorIs DEF Stays
  <2>9. OpenMovie(d, x) = [m EXCEPT !.out = out]  BY <2>3
  <2> HIDE DEF m
  <2> QED  BY <2>7, <2>8, <2>9, DirectorIs DEF Stays
<1>6. Stays(d, Fail(d, "UnknownEntity"))  BY FailStays DEF Errors
<1>7. OnLayer(d, x.target) \in SUBSET StageNames /\ {x.target} \in SUBSET StageNames
  BY <1>1, DirectorIs DEF OnLayer
<1>8. CASE x.kind \in {"Show", "Background"}  BY <1>2, <1>8 DEF Perform
<1>9. CASE x.kind = "Hide"
  <2>1. Stays(d, Vanish(d, {x.target}, x.length))  BY <1>3, <1>7
  <2> QED  BY <1>6, <1>9, <2>1 DEF Perform
<1>10. CASE x.kind \in {"Camera", "Move"}  BY <1>4, <1>6, <1>10 DEF Perform
<1>11. CASE x.kind = "ClearLayer"
  <2>1. Stays(d, Vanish(d, OnLayer(d, x.target), x.length))  BY <1>3, <1>7
  <2> QED  BY <1>11, <2>1 DEF Perform
<1>12. CASE x.kind = "Movie"  BY <1>5, <1>12 DEF Perform
<1>13. x.kind \in {"Show", "Background", "Hide", "Camera", "Move", "ClearLayer", "Movie"}
  BY DEF Orders, Kind, RegionKind
<1> QED  BY <1>8, <1>9, <1>10, <1>11, <1>12, <1>13

(* Folds of the director's operations stay where each step stays. *)

LEMMA ApplyFold ==
  ASSUME NEW S, NEW V, NEW base \in V, NEW q \in Seq(S), \A v \in V, x \in S : Apply(v, x) \in V
  PROVE  FoldLeft(Apply, base, q) \in V
<1> DEFINE n == Len(q)
           F == [p \in V \X (1 .. n) |-> Apply(p[1], q[p[2]])]
           Solves(it) == it = [s \in SUBSET (1 .. n) |->
                                 IF s = {} THEN base ELSE Apply(it[s \ {Max(s)}], q[Max(s)])]
<1>1. n \in Nat /\ DOMAIN q = 1 .. n /\ \A i \in 1 .. n : q[i] \in S
  BY LenProperties, ElementOfSeq
<1> HIDE DEF n
<1>2. /\ F \in [V \X (1 .. n) -> V]
      /\ \A v \in V, k \in 1 .. n : F[<<v, k>>] = Apply(v, q[k])
  BY <1>1
<1> HIDE DEF F
<1>3. PICK f \in [SUBSET (1 .. n) -> V] : FoldsWith(f, base, F, V, n)
  BY <1>1, <1>2, FoldRecursion
<1>4. Solves(f)
  <2> SUFFICES ASSUME NEW s \in SUBSET (1 .. n), s # {}
               PROVE  f[s] = Apply(f[s \ {Max(s)}], q[Max(s)])
    BY <1>3 DEF FoldsWith
  <2>1. Max(s) \in 1 .. n  BY <1>1, MaxIsThere
  <2>2. f[s \ {Max(s)}] \in V  OBVIOUS
  <2> QED  BY <1>2, <1>3, <2>1, <2>2 DEF FoldsWith
<1> DEFINE it == CHOOSE h : Solves(h)
<1>5. Solves(it)
  <2> HIDE DEF Solves
  <2> QED  BY <1>4
<1>6. FoldLeft(Apply, base, q) = it[1 .. n]  BY <1>1 DEF FoldLeft, MapThenFoldSet
<1> HIDE DEF it
<1>7. FoldsWith(it, base, F, V, n)
  <2>1. it[{}] = base  BY <1>5
  <2>2. ASSUME NEW s \in SUBSET (1 .. n), s # {}, it[s \ {Max(s)}] \in V
        PROVE  it[s] = F[<<it[s \ {Max(s)}], Max(s)>>]
    <3>1. Max(s) \in 1 .. n  BY <1>1, <2>2, MaxIsThere
    <3>2. it[s] = Apply(it[s \ {Max(s)}], q[Max(s)])  BY <1>5, <2>2
    <3> HIDE DEF Solves
    <3> QED  BY <1>2, <2>2, <3>1, <3>2
  <2> QED  BY <2>1, <2>2 DEF FoldsWith
<1>8. PICK g : FoldSteps(g, it, base, F, V, n)
  BY <1>1, <1>2, <1>7, FoldValues
<1>9. it[1 .. n] = g[n] /\ g \in [0 .. n -> V] /\ n \in 0 .. n  BY <1>1, <1>8 DEF FoldSteps
<1> QED  BY <1>6, <1>9

(* The directors between the commands of q, from base on. *)
Presents(g, base, q) ==
  /\ g[0] = base
  /\ \A k \in 1 .. Len(q) : g[k] = Present(g[k - 1], q[k])
  /\ g[Len(q)] = FoldLeft(Present, base, q)

LEMMA PresentFold ==
  ASSUME NEW S, NEW V, NEW base \in V, NEW q \in Seq(S), \A v \in V, x \in S : Present(v, x) \in V
  PROVE  \E g \in [0 .. Len(q) -> V] : Presents(g, base, q)
<1> DEFINE n == Len(q)
           F == [p \in V \X (1 .. n) |-> Present(p[1], q[p[2]])]
           Solves(it) == it = [s \in SUBSET (1 .. n) |->
                                 IF s = {} THEN base ELSE Present(it[s \ {Max(s)}], q[Max(s)])]
<1>1. n \in Nat /\ DOMAIN q = 1 .. n /\ \A i \in 1 .. n : q[i] \in S
  BY LenProperties, ElementOfSeq
<1> HIDE DEF n
<1>2. /\ F \in [V \X (1 .. n) -> V]
      /\ \A v \in V, k \in 1 .. n : F[<<v, k>>] = Present(v, q[k])
  BY <1>1
<1> HIDE DEF F
<1>3. PICK f \in [SUBSET (1 .. n) -> V] : FoldsWith(f, base, F, V, n)
  BY <1>1, <1>2, FoldRecursion
<1>4. Solves(f)
  <2> SUFFICES ASSUME NEW s \in SUBSET (1 .. n), s # {}
               PROVE  f[s] = Present(f[s \ {Max(s)}], q[Max(s)])
    BY <1>3 DEF FoldsWith
  <2>1. Max(s) \in 1 .. n  BY <1>1, MaxIsThere
  <2>2. f[s \ {Max(s)}] \in V  OBVIOUS
  <2> QED  BY <1>2, <1>3, <2>1, <2>2 DEF FoldsWith
<1> DEFINE it == CHOOSE h : Solves(h)
<1>5. Solves(it)
  <2> HIDE DEF Solves
  <2> QED  BY <1>4
<1>6. FoldLeft(Present, base, q) = it[1 .. n]  BY <1>1 DEF FoldLeft, MapThenFoldSet
<1> HIDE DEF it
<1>7. FoldsWith(it, base, F, V, n)
  <2>1. it[{}] = base  BY <1>5
  <2>2. ASSUME NEW s \in SUBSET (1 .. n), s # {}, it[s \ {Max(s)}] \in V
        PROVE  it[s] = F[<<it[s \ {Max(s)}], Max(s)>>]
    <3>1. Max(s) \in 1 .. n  BY <1>1, <2>2, MaxIsThere
    <3>2. it[s] = Present(it[s \ {Max(s)}], q[Max(s)])  BY <1>5, <2>2
    <3> HIDE DEF Solves
    <3> QED  BY <1>2, <2>2, <3>1, <3>2
  <2> QED  BY <2>1, <2>2 DEF FoldsWith
<1>8. PICK g : FoldSteps(g, it, base, F, V, n)
  BY <1>1, <1>2, <1>7, FoldValues
<1>9. \A k \in 1 .. n : g[k] = Present(g[k - 1], q[k])
  <2> SUFFICES ASSUME NEW k \in 1 .. n PROVE g[k] = Present(g[k - 1], q[k])  OBVIOUS
  <2>1. g[k - 1] \in V
    <3>1. k - 1 \in 0 .. n  BY <1>1
    <3> QED  BY <1>8, <3>1 DEF FoldSteps
  <2> QED  BY <1>2, <1>8, <2>1 DEF FoldSteps
<1>10. g \in [0 .. n -> V] /\ g[0] = base /\ g[n] = it[1 .. n]  BY <1>8 DEF FoldSteps
<1> QED  BY <1>6, <1>9, <1>10 DEF n, Presents

LEMMA EndStreamFold ==
  ASSUME NEW S, NEW V, NEW base \in V, NEW q \in Seq(S), \A v \in V, x \in S : EndStream(v, x) \in V
  PROVE  FoldLeft(EndStream, base, q) \in V
<1> DEFINE n == Len(q)
           F == [p \in V \X (1 .. n) |-> EndStream(p[1], q[p[2]])]
           Solves(it) == it = [s \in SUBSET (1 .. n) |->
                                 IF s = {} THEN base ELSE EndStream(it[s \ {Max(s)}], q[Max(s)])]
<1>1. n \in Nat /\ DOMAIN q = 1 .. n /\ \A i \in 1 .. n : q[i] \in S
  BY LenProperties, ElementOfSeq
<1> HIDE DEF n
<1>2. /\ F \in [V \X (1 .. n) -> V]
      /\ \A v \in V, k \in 1 .. n : F[<<v, k>>] = EndStream(v, q[k])
  BY <1>1
<1> HIDE DEF F
<1>3. PICK f \in [SUBSET (1 .. n) -> V] : FoldsWith(f, base, F, V, n)
  BY <1>1, <1>2, FoldRecursion
<1>4. Solves(f)
  <2> SUFFICES ASSUME NEW s \in SUBSET (1 .. n), s # {}
               PROVE  f[s] = EndStream(f[s \ {Max(s)}], q[Max(s)])
    BY <1>3 DEF FoldsWith
  <2>1. Max(s) \in 1 .. n  BY <1>1, MaxIsThere
  <2>2. f[s \ {Max(s)}] \in V  OBVIOUS
  <2> QED  BY <1>2, <1>3, <2>1, <2>2 DEF FoldsWith
<1> DEFINE it == CHOOSE h : Solves(h)
<1>5. Solves(it)
  <2> HIDE DEF Solves
  <2> QED  BY <1>4
<1>6. FoldLeft(EndStream, base, q) = it[1 .. n]  BY <1>1 DEF FoldLeft, MapThenFoldSet
<1> HIDE DEF it
<1>7. FoldsWith(it, base, F, V, n)
  <2>1. it[{}] = base  BY <1>5
  <2>2. ASSUME NEW s \in SUBSET (1 .. n), s # {}, it[s \ {Max(s)}] \in V
        PROVE  it[s] = F[<<it[s \ {Max(s)}], Max(s)>>]
    <3>1. Max(s) \in 1 .. n  BY <1>1, <2>2, MaxIsThere
    <3>2. it[s] = EndStream(it[s \ {Max(s)}], q[Max(s)])  BY <1>5, <2>2
    <3> HIDE DEF Solves
    <3> QED  BY <1>2, <2>2, <3>1, <3>2
  <2> QED  BY <2>1, <2>2 DEF FoldsWith
<1>8. PICK g : FoldSteps(g, it, base, F, V, n)
  BY <1>1, <1>2, <1>7, FoldValues
<1>9. it[1 .. n] = g[n] /\ g \in [0 .. n -> V] /\ n \in 0 .. n  BY <1>1, <1>8 DEF FoldSteps
<1> QED  BY <1>6, <1>9

(* What the director does with the commands the coordinator activated.     *)
LEMMA SnapStays ==
  ASSUME NEW d \in Director, NEW targets
  PROVE  Stays(d, Snap(d, targets))
<1> DEFINE m == DropTweens(d, targets)
           gone == {k[1] : k \in {x \in TweensOf(d, targets) : d.tweens[x].remove}}
<1>1. Snap(d, targets) = RemoveEntities(m, gone)  BY DEF Snap
<1>2. Stays(d, m)  BY DropStays
<1> HIDE DEF m, gone
<1>3. Stays(m, RemoveEntities(m, gone))  BY <1>2, RemoveStays DEF Stays
<1> QED  BY <1>1, <1>2, <1>3 DEF Stays

LEMMA ApplyStays ==
  ASSUME NEW d \in Director, NEW x \in Orders
  PROVE  Stays(d, Apply(d, x))
<1> DEFINE T == Targets(d, x)
<1>1. Stays(d, d)  BY DEF Stays
<1>2. \A code \in Errors : Stays(d, Fail(d, code))  BY FailStays
<1>3. Stays(d, Perform(d, x))  BY PerformStays
<1>4. Stays(d, Perform(DropTweens(d, T), x))
  <2>1. Stays(d, DropTweens(d, T))  BY DropStays
  <2>2. Stays(DropTweens(d, T), Perform(DropTweens(d, T), x))  BY <2>1, PerformStays DEF Stays
  <2> QED  BY <2>1, <2>2 DEF Stays
<1>5. Stays(d, Perform(Snap(d, T), x))
  <2>1. Stays(d, Snap(d, T))  BY SnapStays
  <2>2. Stays(Snap(d, T), Perform(Snap(d, T), x))  BY <2>1, PerformStays DEF Stays
  <2> QED  BY <2>1, <2>2 DEF Stays
<1>6. Stays(d, [d EXCEPT !.stage = Append(@, x)])
  <2> DEFINE stage == Append(d.stage, x)
  <2>1. stage \in Seq(Orders)  BY DirectorIs
  <2>2. [d EXCEPT !.stage = Append(@, x)] = [d EXCEPT !.stage = stage]  OBVIOUS
  <2> HIDE DEF stage
  <2>3. Stays(d, [d EXCEPT !.stage = stage])  BY <2>1, DirectorIs DEF Stays
  <2> QED  BY <2>2, <2>3
<1>7. {"Rejected", "Divergence", "QueueLimit"} \subseteq Errors  BY DEF Errors, Assertion
<1>8. CASE d.error # None  BY <1>1, <1>8 DEF Apply
<1>9. CASE d.error = None /\ TweensOf(d, T) = {}  BY <1>3, <1>9 DEF Apply
<1>10. CASE d.error = None /\ TweensOf(d, T) # {}
  <2>1. x.policy \in {"ReplaceFromCurrent", "SnapThenStart", "Reject", "Queue"}
    BY DEF Orders, Policy
  <2>2. CASE x.policy = "ReplaceFromCurrent"  BY <1>4, <1>10, <2>2 DEF Apply
  <2>3. CASE x.policy = "SnapThenStart"  BY <1>5, <1>10, <2>3 DEF Apply
  <2>4. CASE x.policy = "Reject"  BY <1>2, <1>7, <1>10, <2>4 DEF Apply
  <2>5. CASE x.policy = "Queue"
    <3>1. \/ Apply(d, x) = Fail(d, "Divergence") \/ Apply(d, x) = Fail(d, "QueueLimit")
          \/ Apply(d, x) = [d EXCEPT !.stage = Append(@, x)]
      BY <1>10, <2>5 DEF Apply
    <3> QED  BY <1>2, <1>6, <1>7, <3>1
  <2> QED  BY <2>1, <2>2, <2>3, <2>4, <2>5
<1> QED  BY <1>8, <1>9, <1>10

LEMMA ActivateStays ==
  ASSUME NEW d \in Director, NEW id
  PROVE  Stays(d, Activate(d, id))
<1>1. CASE d.error # None  BY <1>1 DEF Activate, Stays
<1>2. CASE d.error = None /\ id \notin DOMAIN d.region
  BY <1>2, FailStays DEF Activate, Errors, Assertion
<1>3. CASE d.error = None /\ id \in DOMAIN d.region
  <2> DEFINE kept == Restrict(d.region, DOMAIN d.region \ {id})
             m == [d EXCEPT !.region = kept]
             x == d.region[id]
  <2>1. Activate(d, id) = Apply(m, x)  BY <1>3 DEF Activate
  <2>2. d.region \in Kept  BY DirectorIs
  <2>3. kept \in Kept  BY <2>2, RestrictTyped DEF Kept
  <2>4. x \in Orders
    <3>1. d.region \in [DOMAIN d.region -> Orders]  BY <2>2, UnionOfFunctions DEF Kept
    <3> QED  BY <1>3, <3>1
  <2> HIDE DEF kept
  <2>5. Stays(d, m)  BY <2>3, DirectorIs DEF Stays
  <2> HIDE DEF m, x
  <2>6. Stays(m, Apply(m, x))  BY <2>4, <2>5, ApplyStays DEF Stays
  <2> QED  BY <2>1, <2>5, <2>6 DEF Stays
<1> QED  BY <1>1, <1>2, <1>3

LEMMA ActivateFold ==
  ASSUME NEW base \in Director, NEW q \in Seq(Ids)
  PROVE  \E g \in [0 .. Len(q) -> Director] :
           /\ g[0] = base
           /\ \A k \in 1 .. Len(q) : g[k] = Activate(g[k - 1], q[k])
           /\ g[Len(q)] = FoldLeft(Activate, base, q)
<1> DEFINE V == Director
           n == Len(q)
           F == [p \in V \X (1 .. n) |-> Activate(p[1], q[p[2]])]
           Solves(it) == it = [s \in SUBSET (1 .. n) |->
                                 IF s = {} THEN base ELSE Activate(it[s \ {Max(s)}], q[Max(s)])]
<1>1. n \in Nat /\ DOMAIN q = 1 .. n /\ \A i \in 1 .. n : q[i] \in Ids
  BY LenProperties, ElementOfSeq
<1>a. \A v \in V, x \in Ids : Activate(v, x) \in V  BY ActivateStays DEF Stays
<1> HIDE DEF n, V
<1>b. base \in V  BY DEF V
<1>2. /\ F \in [V \X (1 .. n) -> V]
      /\ \A v \in V, k \in 1 .. n : F[<<v, k>>] = Activate(v, q[k])
  BY <1>1, <1>a
<1> HIDE DEF F
<1>3. PICK f \in [SUBSET (1 .. n) -> V] : FoldsWith(f, base, F, V, n)
  BY <1>1, <1>2, <1>b, FoldRecursion
<1>4. Solves(f)
  <2> SUFFICES ASSUME NEW s \in SUBSET (1 .. n), s # {}
               PROVE  f[s] = Activate(f[s \ {Max(s)}], q[Max(s)])
    BY <1>3 DEF FoldsWith
  <2>1. Max(s) \in 1 .. n  BY <1>1, MaxIsThere
  <2>2. f[s \ {Max(s)}] \in V  OBVIOUS
  <2> QED  BY <1>2, <1>3, <2>1, <2>2 DEF FoldsWith
<1> DEFINE it == CHOOSE h : Solves(h)
<1>5. Solves(it)
  <2> HIDE DEF Solves
  <2> QED  BY <1>4
<1>6. FoldLeft(Activate, base, q) = it[1 .. n]  BY <1>1 DEF FoldLeft, MapThenFoldSet
<1> HIDE DEF it
<1>7. FoldsWith(it, base, F, V, n)
  <2>1. it[{}] = base  BY <1>5
  <2>2. ASSUME NEW s \in SUBSET (1 .. n), s # {}, it[s \ {Max(s)}] \in V
        PROVE  it[s] = F[<<it[s \ {Max(s)}], Max(s)>>]
    <3>1. Max(s) \in 1 .. n  BY <1>1, <2>2, MaxIsThere
    <3>2. it[s] = Activate(it[s \ {Max(s)}], q[Max(s)])  BY <1>5, <2>2
    <3> HIDE DEF Solves
    <3> QED  BY <1>2, <2>2, <3>1, <3>2
  <2> QED  BY <2>1, <2>2 DEF FoldsWith
<1>8. PICK g : FoldSteps(g, it, base, F, V, n)
  BY <1>1, <1>2, <1>7, <1>b, FoldValues
<1>9. \A k \in 1 .. n : g[k] = Activate(g[k - 1], q[k])
  <2> SUFFICES ASSUME NEW k \in 1 .. n PROVE g[k] = Activate(g[k - 1], q[k])  OBVIOUS
  <2>1. g[k - 1] \in V
    <3>1. k - 1 \in 0 .. n  BY <1>1
    <3> QED  BY <1>8, <3>1 DEF FoldSteps
  <2> QED  BY <1>2, <1>8, <2>1 DEF FoldSteps
<1>10. g \in [0 .. n -> V] /\ g[0] = base /\ g[n] = it[1 .. n]  BY <1>8 DEF FoldSteps
<1> QED  BY <1>6, <1>9, <1>10 DEF V, n

LEMMA ValidateStays ==
  ASSUME NEW d \in Director
  PROVE  Stays(d, Validate(d))
<1>1. Stays(d, Fail(d, "TweenState"))  BY FailStays DEF Errors, Assertion
<1> QED  BY <1>1 DEF Validate, Stays

LEMMA AdvanceStays ==
  ASSUME NEW d \in Director
  PROVE  Stays(d, AdvanceTweens(d))
<1> DEFINE over == {k \in DOMAIN d.tweens : d.tweens[k].left = 1}
           left == [k \in DOMAIN d.tweens \ over |-> [d.tweens[k] EXCEPT !.left = @ - 1]]
           gone == {k[1] : k \in {x \in over : d.tweens[x].remove}}
           m == [d EXCEPT !.tweens = left]
<1>1. AdvanceTweens(d) = RemoveEntities(m, gone)  BY DEF AdvanceTweens
<1>2. d.tweens \in Tweens  BY DirectorIs
<1>3. d.tweens \in [DOMAIN d.tweens -> Tween] /\ DOMAIN d.tweens \subseteq Tweened
  BY <1>2, UnionOfFunctions DEF Tweens
<1>4. \A k \in DOMAIN d.tweens : [d.tweens[k] EXCEPT !.left = @ - 1] \in Tween
  BY <1>3 DEF Tween
<1>5. left \in [DOMAIN d.tweens \ over -> Tween] /\ DOMAIN d.tweens \ over \in SUBSET Tweened
  BY <1>3, <1>4
<1> HIDE DEF left, over
<1>6. left \in Tweens
  <2>1. left \in [DOMAIN left -> Tween] /\ DOMAIN left \in SUBSET Tweened  BY <1>5
  <2> QED  BY <2>1 DEF Tweens
<1>7. Stays(d, m)  BY <1>6, TweensSet
<1> HIDE DEF m, gone
<1>8. Stays(m, RemoveEntities(m, gone))  BY <1>7, RemoveStays DEF Stays
<1> QED  BY <1>1, <1>7, <1>8 DEF Stays

LEMMA ApplyAllStays ==
  ASSUME NEW d \in Director, NEW q \in Seq(Orders)
  PROVE  Stays(d, FoldLeft(Apply, d, q))
<1> DEFINE V == {e \in Director : e.c = d.c}
<1>1. d \in V  OBVIOUS
<1>2. ASSUME NEW e \in V, NEW x \in Orders PROVE Apply(e, x) \in V
  <2>1. Stays(e, Apply(e, x))  BY ApplyStays
  <2> QED  BY <2>1 DEF Stays
<1> HIDE DEF V
<1>3. FoldLeft(Apply, d, q) \in V  BY <1>1, <1>2, ApplyFold
<1> QED  BY <1>3 DEF V, Stays

LEMMA ActivateAllStays ==
  ASSUME NEW d \in Director, NEW q \in Seq(Ids)
  PROVE  Stays(d, FoldLeft(Activate, d, q))
<1> DEFINE n == Len(q)
<1>1. n \in Nat  BY LenProperties
<1>2. PICK g \in [0 .. n -> Director] :
        /\ g[0] = d
        /\ \A k \in 1 .. n : g[k] = Activate(g[k - 1], q[k])
        /\ g[n] = FoldLeft(Activate, d, q)
  BY ActivateFold
<1> HIDE DEF n
<1> DEFINE T == {k \in Nat : k <= n => Stays(d, g[k])}
<1>3. 0 \in T  BY <1>1, <1>2 DEF Stays
<1>4. ASSUME NEW k \in Nat, k \in T PROVE k + 1 \in T
  <2> SUFFICES ASSUME k + 1 <= n PROVE Stays(d, g[k + 1])  OBVIOUS
  <2>1. k + 1 \in 1 .. n /\ (k + 1) - 1 = k /\ Stays(d, g[k])  BY <1>1, <1>4
  <2>2. g[k + 1] = Activate(g[k], q[k + 1])  BY <1>2, <2>1
  <2> QED  BY <2>1, <2>2, ActivateStays DEF Stays
<1>5. \A k \in Nat : k \in T
  <2> HIDE DEF T
  <2> QED  BY <1>3, <1>4, Induction
<1> QED  BY <1>1, <1>2, <1>5

(* The director sends the coordinator one command at a time, and only      *)
(* movies have a fence: the batches of the coordinator are Sent.           *)
Envelopes ==
  {x \in [id : Nat, target : Target, policy : Policy, fence : Fence \cup {NoFence}, length : Nat] :
     x.fence # NoFence => RegionOf[x.target] = "Video"}
Sent == {<<x>> : x \in Envelopes}

LEMMA SentAre ==
  ASSUME Batch = Sent
  PROVE  Commands = Envelopes /\ Ids \subseteq Nat
<1>1. ASSUME NEW x PROVE ToSet(<<x>>) = {x}  BY DEF ToSet
<1>2. Commands = UNION {ToSet(b) : b \in Sent}  BY DEF Commands
<1>3. ASSUME NEW x \in Envelopes PROVE x \in Commands
  <2> DEFINE b == <<x>>
  <2>1. b \in Sent  BY DEF Sent
  <2>2. x \in ToSet(b)  BY <1>1
  <2> HIDE DEF b
  <2> QED  BY <1>2, <2>1, <2>2
<1>4. \A x \in Commands : x \in Envelopes  BY <1>1, <1>2 DEF Sent
<1>5. Commands = Envelopes  BY <1>3, <1>4
<1> QED  BY <1>5 DEF Ids, Envelopes

LEMMA RenewsTwice ==
  ASSUME NEW s, NEW F, NEW m, Renews(s, F, m), NEW G \in SUBSET F, NEW r, Renews(m, G, r)
  PROVE  Renews(s, F, r)
BY DEF Renews

LEMMA SendGood ==
  ASSUME Batch = Sent, NEW s, Good(s), NEW x \in Envelopes, TakesBatch(s, <<x>>),
         NEW F, x.fence \in F \cup {NoFence}
  PROVE  Good(ApplyBatch(s, <<x>>)) /\ Renews(s, F, ApplyBatch(s, <<x>>))
<1> DEFINE batch == <<x>>
           r == ApplyBatch(s, batch)
<1>1. batch \in Batch  BY DEF Sent
<1>2. Affected(batch) \subseteq F
  <2>1. ToSet(batch) = {x}  BY DEF ToSet
  <2> HIDE DEF batch
  <2> QED  BY <2>1 DEF Affected, BatchMembers, FencesOf
<1> HIDE DEF r
<1>3. Good(r) /\ Renews(s, Affected(batch), r)  BY <1>1, BatchGood DEF r
<1> HIDE DEF batch
<1>4. Renews(s, F, r)  BY <1>2, <1>3 DEF Renews
<1> QED  BY <1>3, <1>4 DEF r, batch

(* A command of the story, to the coordinator and onto the stage.          *)
LEMMA PresentGood ==
  ASSUME Batch = Sent, NEW d \in Director, Good(d.c), NEW x \in Orders,
         NEW F, x.kind = "Movie" => x.fence \in F \cup {NoFence}
  PROVE  Present(d, x) \in Director /\ Good(Present(d, x).c) /\ Renews(d.c, F, Present(d, x).c)
<1> DEFINE envelope == Envelope(d, x)
           named == [x EXCEPT !.id = d.next]
           r == ApplyBatch(d.c, <<envelope>>)
           after == [d EXCEPT !.c = ApplyBatch(@, <<envelope>>), !.next = @ + 1]
           held == Insert(d.region, [id \in {d.next} |-> named])
           P == Present(d, x)
           Fine(e) == e \in Director /\ Good(e.c) /\ Renews(d.c, F, e.c)
<1>0. d.next \in Nat /\ d.c \in Coordinator /\ d.region \in Kept  BY DirectorIs
<1>1. CASE d.error # None
  <2>1. P = d  BY <1>1 DEF Present
  <2> QED  BY <2>1 DEF Renews
<1>2. ASSUME NEW e, Stays(d, e) PROVE Fine(e)  BY <1>2 DEF Renews, Stays
<1>3. CASE d.error = None /\ x.kind \notin RegionKind
  <2>1. P = Apply(d, x)  BY <1>3 DEF Present
  <2> QED  BY <1>2, <2>1, ApplyStays
<1>4. CASE d.error = None /\ x.kind \in RegionKind
  <2>1. envelope \in Envelopes /\ envelope.fence \in F \cup {NoFence}
    <3>1. /\ x.target \in Target /\ RegionOf[x.target] = RegionOfKind(x.kind)
          /\ x.policy \in Policy /\ x.length \in Nat /\ x.fence \in Fence \cup {NoFence}
      BY <1>4 DEF Orders
    <3>2. x.kind = "Movie" => RegionOf[x.target] = "Video"  BY <3>1 DEF RegionOfKind
    <3>3. /\ envelope.id = d.next /\ envelope.target = x.target /\ envelope.policy = x.policy
          /\ envelope.fence = (IF x.kind = "Movie" THEN x.fence ELSE NoFence)
          /\ envelope.length = (IF x.kind = "Movie" THEN 0 ELSE x.length)
          /\ envelope = [id |-> envelope.id, target |-> envelope.target, policy |-> envelope.policy,
                         fence |-> envelope.fence, length |-> envelope.length]
      BY DEF Envelope
    <3> HIDE DEF envelope
    <3> QED  BY <1>0, <3>1, <3>2, <3>3 DEF Envelopes
  <2>2. named \in Orders  BY <1>0 DEF Orders
  <2> HIDE DEF envelope, named
  <2>3. \/ P = Fail(d, "UnknownEntity") \/ P = Fail(d, "Refused") \/ P = Fail(d, "QueueDuplicate")
        \/ TakesBatch(d.c, <<envelope>>)
           /\ (P = Apply(after, named) \/ P = [after EXCEPT !.region = Insert(@, [id \in {d.next} |-> named])])
    BY <1>4 DEF Present, envelope, named
  <2>4. ASSUME TakesBatch(d.c, <<envelope>>)
        PROVE  Fine(after) /\ after.region = d.region
    <3>1. Good(r) /\ Renews(d.c, F, r)  BY <2>1, <2>4, SendGood
    <3>2. r \in Coordinator  BY <3>1, GoodTyped
    <3> DEFINE m == [d EXCEPT !.c = r]
               n == d.next + 1
    <3>3. after = [m EXCEPT !.next = n] /\ n \in Nat  BY <1>0, DirectorIs
    <3> HIDE DEF r, after, n
    <3>4. m \in Director /\ m.c = r /\ m.region = d.region  BY <3>2, CoordinatorSet
    <3> HIDE DEF m
    <3>5. Stays(m, after) /\ after.region = m.region  BY <3>3, <3>4, NextSet
    <3>6. after \in Director /\ after.c = r /\ after.region = d.region  BY <3>4, <3>5 DEF Stays
    <3> QED  BY <3>1, <3>6
  <2>5. ASSUME NEW e, Fine(after), Stays(after, e) PROVE Fine(e)
    <3> HIDE DEF after
    <3> QED  BY <2>5 DEF Stays
  <2>6. CASE P = Fail(d, "UnknownEntity") \/ P = Fail(d, "Refused") \/ P = Fail(d, "QueueDuplicate")
    <3>1. {"UnknownEntity", "Refused", "QueueDuplicate"} \subseteq Errors  BY DEF Errors, Assertion
    <3> QED  BY <1>2, <2>6, <3>1, FailStays
  <2>7. CASE TakesBatch(d.c, <<envelope>>) /\ P = Apply(after, named)
    <3>1. Fine(after)  BY <2>4, <2>7
    <3> HIDE DEF after
    <3>2. Stays(after, Apply(after, named))  BY <2>2, <3>1, ApplyStays
    <3> QED  BY <2>5, <2>7, <3>1, <3>2
  <2>8. CASE TakesBatch(d.c, <<envelope>>)
             /\ P = [after EXCEPT !.region = Insert(@, [id \in {d.next} |-> named])]
    <3>1. Fine(after) /\ after.region = d.region  BY <2>4, <2>8
    <3> DEFINE one == [id \in {d.next} |-> named]
    <3>2. one \in [DOMAIN one -> Orders] /\ DOMAIN one \in SUBSET Nat  BY <1>0, <2>2
    <3>3. one \in Kept  BY <3>2 DEF Kept
    <3> HIDE DEF one
    <3>4. Insert(d.region, one) \in Kept  BY <1>0, <3>3, InsertTyped DEF Kept
    <3> HIDE DEF after
    <3>5. P = [after EXCEPT !.region = Insert(d.region, one)]  BY <2>8, <3>1 DEF one
    <3>6. Stays(after, P)
      <4> DEFINE h == Insert(d.region, one)
      <4>1. h \in Kept /\ P = [after EXCEPT !.region = h]  BY <3>4, <3>5
      <4> HIDE DEF h, P
      <4> QED  BY <3>1, <4>1, RegionSet
    <3> QED  BY <2>5, <3>1, <3>6
  <2> QED  BY <2>3, <2>6, <2>7, <2>8
<1> QED  BY <1>1, <1>3, <1>4

(* What a batch of the story makes of the director: it begins groups F.    *)
Moves(d, F, r) == r \in Director /\ Good(r.c) /\ Renews(d.c, F, r.c)

LEMMA PrepareBatchMoves ==
  ASSUME Batch = Sent, NEW d \in Director, Good(d.c), NEW F,
         NEW q \in Seq({x \in Orders : x.kind = "Movie" => x.fence \in F \cup {NoFence}})
  PROVE  Moves(d, F, PrepareBatch(d, q))
<1> DEFINE S == {x \in Orders : x.kind = "Movie" => x.fence \in F \cup {NoFence}}
           V == {e \in Director : Moves(d, F, e)}
<1>1. d \in V  BY DEF Moves, Renews
<1>2. ASSUME NEW e \in V, NEW x \in S PROVE Present(e, x) \in V
  <2>1. Moves(d, F, e)  OBVIOUS
  <2>2. /\ Present(e, x) \in Director /\ Good(Present(e, x).c)
        /\ Renews(e.c, F, Present(e, x).c)
    BY <2>1, PresentGood DEF Moves
  <2>3. Renews(d.c, F, Present(e, x).c)  BY <2>1, <2>2, RenewsTwice DEF Moves
  <2> QED  BY <2>2, <2>3 DEF Moves
<1> HIDE DEF V
<1>3. FoldLeft(Present, d, q) \in V
  <2>1. q \in Seq(S)  OBVIOUS
  <2> HIDE DEF S
  <2>2. Len(q) \in 0 .. Len(q)  BY <2>1, LenProperties
  <2>3. PICK g \in [0 .. Len(q) -> V] : Presents(g, d, q)
    BY <1>1, <1>2, <2>1, PresentFold
  <2> QED  BY <2>2, <2>3 DEF Presents
<1> DEFINE m == FoldLeft(Present, d, q)
<1>4. PrepareBatch(d, q) = Validate(m)  BY DEF PrepareBatch
<1> HIDE DEF m
<1>5. Moves(d, F, m)  BY <1>3 DEF m, V
<1>6. Stays(m, Validate(m))  BY <1>5, ValidateStays DEF Moves
<1> QED  BY <1>4, <1>5, <1>6 DEF Moves, Stays

(* The line of a dialogue.                                                 *)
LEMMA ConfigureTextMoves ==
  ASSUME Batch = Sent, NEW d \in Director, Good(d.c), NEW target \in Target, NEW length \in Nat, NEW F
  PROVE  Moves(d, F, ConfigureText(d, target, length))
<1> DEFINE x == [id |-> d.next, target |-> target, fence |-> NoFence,
                 policy |-> "ReplaceFromCurrent", length |-> length]
           r == ApplyBatch(d.c, <<x>>)
           n == d.next + 1
           m == [d EXCEPT !.next = n]
           e == ConfigureText(d, target, length)
<1>1. e = [d EXCEPT !.next = @ + 1, !.c = ApplyBatch(@, <<x>>)]  BY DEF ConfigureText
<1>2. n \in Nat /\ d.next \in Nat /\ e = [m EXCEPT !.c = r]  BY <1>1, DirectorIs
<1>3. /\ x \in Envelopes /\ x.fence = NoFence /\ x.target = target
      /\ x.policy = "ReplaceFromCurrent"
  BY <1>2 DEF Envelopes, Policy
<1> HIDE DEF x, m, n, e
<1>4. TakesBatch(d.c, <<x>>)
  <2> DEFINE b == <<x>>
  <2>1. DOMAIN b = {1} /\ b[1] = x  OBVIOUS
  <2>2. ~ d.c.failed  BY GoodTyped
  <2> HIDE DEF b
  <2>3. DistinctMembers(d.c, b)  BY <1>3, <2>1 DEF DistinctMembers
  <2>4. \A i \in DOMAIN b : Takes(FoldLeft(Prepare, d.c, SubSeq(b, 1, i - 1)), b[i])
    BY <1>3, <2>1 DEF Takes
  <2>5. TakesBatch(d.c, b)  BY <2>1, <2>2, <2>3, <2>4 DEF TakesBatch
  <2> QED  BY <2>5 DEF b
<1>5. Good(r) /\ Renews(d.c, F, r)  BY <1>3, <1>4, SendGood
<1>6. r \in Coordinator  BY <1>5, GoodTyped
<1>7. m \in Director  BY <1>2, NextSet DEF m, Stays
<1> HIDE DEF r
<1>8. e \in Director /\ e.c = r  BY <1>2, <1>6, <1>7, CoordinatorSet
<1> QED  BY <1>5, <1>8 DEF Moves, e

(* A frame. *)
LEMMA TickStageGood ==
  ASSUME Batch = Sent, NEW d \in Director, Good(d.c), NEW r, r = TickStage(d), r.error = None
  PROVE  r \in Director /\ Good(r.c) /\ Completes(d.c, StageCompletes(d), r.c)
<1> DEFINE advanced == Validate(AdvanceTweens(d))
           ticked == [advanced EXCEPT !.c = TickCoordinator(@)]
           taken == [ticked EXCEPT !.c = TakeActivated(@)]
           activated == FoldLeft(Activate, taken, ticked.c.activated)
           empty == [activated EXCEPT !.stage = <<>>]
           s == TickCoordinator(d.c)
           t == TakeActivated(s)
<1>1. Stays(d, advanced)
  <2>1. Stays(d, AdvanceTweens(d))  BY AdvanceStays
  <2> DEFINE m == AdvanceTweens(d)
  <2> HIDE DEF m
  <2>2. Stays(m, Validate(m))  BY <2>1, ValidateStays DEF Stays, m
  <2> QED  BY <2>1, <2>2 DEF Stays, m
<1>2. /\ advanced.error # None => r = advanced
      /\ advanced.error = None /\ ticked.c.failed => r = Fail(ticked, "ActivationLimit")
      /\ advanced.error = None /\ ~ ticked.c.failed => r = FoldLeft(Apply, empty, activated.stage)
  BY DEF TickStage
<1>3. StageCompletes(d) = TickCompletes(d.c)  BY <1>1 DEF StageCompletes, Stays
<1> HIDE DEF advanced, activated, empty
<1>4. advanced.error = None  BY <1>2
<1>5. ticked.c = s /\ ticked.error = None /\ ticked = [advanced EXCEPT !.c = s]
  BY <1>1, <1>4, DirectorIs DEF Stays
<1>6. taken = [ticked EXCEPT !.c = t]  BY <1>5
<1>7. ~ s.failed
  <2> SUFFICES ASSUME s.failed PROVE FALSE  OBVIOUS
  <2>1. r = Fail(ticked, "ActivationLimit")  BY <1>2, <1>4, <1>5
  <2>2. r = [[advanced EXCEPT !.c = s] EXCEPT !.error = "ActivationLimit"]  BY <1>5, <2>1 DEF Fail
  <2> HIDE DEF s
  <2>3. r.error = "ActivationLimit"  BY <1>1, <2>2, DirectorIs DEF Stays
  <2> QED  BY <2>3 DEF None
<1> HIDE DEF ticked, taken
<1>8. r = FoldLeft(Apply, empty, activated.stage)  BY <1>2, <1>4, <1>5, <1>7
<1>9. Good(s) /\ Completes(d.c, TickCompletes(d.c), s)  BY <1>7, TickGood
<1> HIDE DEF s
<1>10. Good(t) /\ Completes(s, {}, t)  BY <1>9, TakeGood
<1> HIDE DEF t
<1>11. s \in Coordinator /\ t \in Coordinator  BY <1>9, <1>10, GoodTyped
<1>12. ticked \in Director /\ ticked.c = s  BY <1>1, <1>5, <1>11, CoordinatorSet DEF Stays
<1>13. taken \in Director /\ taken.c = t  BY <1>6, <1>11, <1>12, CoordinatorSet
<1>14. ticked.c.activated \in Seq(Ids)
  <2>1. Typed(s)  BY <1>9, GoodTyped
  <2> QED  BY <1>12, <2>1 DEF Typed
<1>15. activated \in Director /\ activated.c = t
  BY <1>13, <1>14, ActivateAllStays DEF activated, Stays
<1>16. activated.stage \in Seq(Orders)  BY <1>15, DirectorIs
<1>17. empty \in Director /\ empty.c = t
  <2>1. <<>> \in Seq(Orders)  OBVIOUS
  <2> QED  BY <1>15, <2>1, StageSet DEF empty, Stays
<1>18. r \in Director /\ r.c = t  BY <1>8, <1>16, <1>17, ApplyAllStays DEF Stays
<1>19. Completes(d.c, StageCompletes(d), t)  BY <1>3, <1>9, <1>10 DEF Completes
<1> QED  BY <1>10, <1>18, <1>19

-------------------------------------------------------------------------------
(* The orders that the director keeps for what the coordinator queued.     *)

Recalls(R, y) ==
  /\ y.id \in DOMAIN R /\ R[y.id].target = y.target
  /\ R[y.id].kind # "Movie" => R[y.id].length = y.length

Regional(R) == R \in Kept /\ \A id \in DOMAIN R : R[id].kind \in RegionKind /\ R[id].policy = "Queue"

(* Every queued command has an order of its own, every activated one too.  *)
Stocked(s, R) ==
  /\ \A r \in Region : \A i \in DOMAIN s.queued[r] :
       /\ Recalls(R, s.queued[r][i])
       /\ \A j \in DOMAIN s.queued[r] : s.queued[r][i].id = s.queued[r][j].id => i = j
       /\ \A j \in DOMAIN s.activated : s.queued[r][i].id # s.activated[j]
  /\ EachOnce(s.activated)
  /\ \A i \in DOMAIN s.activated : s.activated[i] \in DOMAIN R

OnlyMovies(s, R) == \A i \in DOMAIN s.activated : R[s.activated[i]].kind = "Movie"

(* What became of coordinator e: what moved goes on, and what was activated*)
(* has found its target at rest, and every one before it on that target    *)
(* took no time.                                                           *)
Unlocks(e, R, d) ==
  /\ Stocked(d, R)
  /\ \A t \in Shown(e) : RegionOf[t] \in Moving /\ e.entry[t].left > 0
       => t \in Shown(d) /\ d.entry[t].left = e.entry[t].left
  /\ \A i \in DOMAIN d.activated : R[d.activated[i]].kind # "Movie" =>
       LET x == R[d.activated[i]] IN
         /\ x.target \in Shown(e) => e.entry[x.target].left = 0
         /\ x.target \in Shown(d) /\ x.length <= d.entry[x.target].left
         /\ \A j \in DOMAIN d.activated :
              j < i /\ R[d.activated[j]].target = x.target => R[d.activated[j]].length = 0

LEMMA Appended ==
  ASSUME NEW S, NEW q \in Seq(S), NEW x \in S
  PROVE  /\ DOMAIN q = 1 .. Len(q) /\ Len(q) \in Nat
         /\ \A i \in DOMAIN Append(q, x) :
              \/ i \in DOMAIN q /\ Append(q, x)[i] = q[i]
              \/ i = Len(q) + 1 /\ i \notin DOMAIN q /\ Append(q, x)[i] = x
OBVIOUS

LEMMA BeginActivated ==
  ASSUME NEW s \in Coordinator, NEW x \in Commands
  PROVE  Begin(s, x).activated = Append(s.activated, x.id)
<1> DEFINE b == Start(s, x)
<1>1. b \in Coordinator /\ b.activated = s.activated  BY StartFields
<1>2. Typed(b)  BY <1>1, TypedIs
<1> HIDE DEF b
<1>3. [b EXCEPT !.activated = Append(@, x.id)].activated = Append(b.activated, x.id)
  BY <1>2 DEF Typed
<1> QED  BY <1>1, <1>3 DEF Begin, b

(* An order that is kept belongs where its target does. *)
LEMMA KeptIs ==
  ASSUME NEW R, Regional(R), NEW id \in DOMAIN R
  PROVE  /\ R[id] \in Orders /\ R[id].length \in Nat /\ R[id].kind \in RegionKind
         /\ R[id].target \in Target
         /\ R[id].kind = "Movie" <=> RegionOf[R[id].target] = "Video"
         /\ R[id].kind # "Movie" <=> RegionOf[R[id].target] \in Moving
<1>1. R[id] \in Orders /\ R[id].kind \in RegionKind  BY DEF Kept, Regional
<1> QED  BY <1>1 DEF Orders, RegionKind, RegionOfKind, Moving

(* No queued command and no activated one has this id.                     *)
Unused(d, v) ==
  /\ \A i \in DOMAIN d.activated : d.activated[i] # v
  /\ \A r \in Region : \A i \in DOMAIN d.queued[r] : d.queued[r][i].id # v

LEMMA UnlockStep ==
  ASSUME NEW e \in Coordinator, NEW R, Regional(R), NEW d \in Coordinator, Unlocks(e, R, d),
         NEW x \in Commands, Recalls(R, x), Unused(d, x.id)
  PROVE  LET f == Again(d, x) IN
         /\ Unlocks(e, R, f)
         /\ RegionOf[x.target] \notin Moving /\ OnlyMovies(d, R) => OnlyMovies(f, R)
         /\ \A v : v # x.id /\ Unused(d, v) => Unused(f, v)
<1> DEFINE f == Again(d, x)
           t == x.target
           o == R[x.id]
<1>1. /\ o \in Orders /\ o.length \in Nat /\ o.kind \in RegionKind /\ t \in Target
      /\ o.target = t /\ (o.kind # "Movie" => o.length = x.length)
      /\ o.kind = "Movie" <=> RegionOf[t] = "Video"
      /\ o.kind # "Movie" <=> RegionOf[t] \in Moving
  BY KeptIs DEF Recalls
<1>2. Typed(d) /\ d.activated \in Seq(Ids) /\ x.id \in Ids /\ x.length \in Nat
  BY TypedIs, EntryIs DEF Typed
<1>3. CASE Busy(d, t)
  <2>1. f = Enqueue(d, x)  BY <1>3 DEF Again
  <2> HIDE DEF f
  <2> DEFINE r == RegionOf[t]
  <2>2. /\ f.entry = d.entry /\ f.activated = d.activated
        /\ r \in Region /\ d.queued[r] \in Seq(Commands) /\ f.queued[r] = Append(d.queued[r], x)
        /\ \A p \in Region \ {r} : f.queued[p] = d.queued[p]
    BY <2>1, EnqueueFields
  <2> HIDE DEF r
  <2>3. \A p \in Region : \A i \in DOMAIN f.queued[p] :
          \/ i \in DOMAIN d.queued[p] /\ f.queued[p][i] = d.queued[p][i]
          \/ p = r /\ i = Len(d.queued[r]) + 1 /\ i \notin DOMAIN d.queued[r] /\ f.queued[p][i] = x
    <3> SUFFICES ASSUME NEW p \in Region, NEW i \in DOMAIN f.queued[p], p = r
                 PROVE  \/ i \in DOMAIN d.queued[p] /\ f.queued[p][i] = d.queued[p][i]
                        \/ i = Len(d.queued[r]) + 1 /\ i \notin DOMAIN d.queued[r] /\ f.queued[p][i] = x
      BY <2>2
    <3> DEFINE q == d.queued[r]
    <3>1. q \in Seq(Commands) /\ f.queued[r] = Append(q, x) /\ i \in DOMAIN Append(q, x)  BY <2>2
    <3> HIDE DEF q
    <3>2. \/ i \in DOMAIN q /\ Append(q, x)[i] = q[i]
          \/ i = Len(q) + 1 /\ i \notin DOMAIN q /\ Append(q, x)[i] = x
      BY <3>1, Appended
    <3> QED  BY <3>1, <3>2 DEF q
  <2>4. Stocked(f, R)  BY <2>2, <2>3 DEF Unlocks, Stocked, Unused
  <2>5. Shown(f) = Shown(d)  BY <2>2 DEF Shown
  <2>6. Unlocks(e, R, f)  BY <2>2, <2>4, <2>5 DEF Unlocks
  <2>7. OnlyMovies(d, R) => OnlyMovies(f, R)  BY <2>2 DEF OnlyMovies
  <2> QED  BY <2>2, <2>3, <2>6, <2>7 DEF f, Unused
<1>4. CASE ~ Busy(d, t)
  <2>1. f = Begin(d, x)  BY <1>4 DEF Again
  <2> HIDE DEF f
  <2> DEFINE w == With(d.entry, t, Entry(x))
             n == Len(d.activated) + 1
  <2>2. /\ f.entry = w /\ f.queued = d.queued /\ f.activated = Append(d.activated, x.id)
        /\ DOMAIN w = Shown(d) \cup {t} /\ w[t] = Entry(x)
        /\ \A u \in Shown(d) \ {t} : w[u] = d.entry[u]
    <3> DEFINE b == Start(d, x)
    <3>1. /\ b.entry = w /\ b.queued = d.queued
          /\ DOMAIN w = Shown(d) \cup {t} /\ w[t] = Entry(x)
          /\ \A u \in Shown(d) \ {t} : w[u] = d.entry[u]
      BY StartFields
    <3>2. f.entry = b.entry /\ f.queued = b.queued  BY <2>1, BeginFields
    <3>3. f.activated = Append(d.activated, x.id)  BY <2>1, BeginActivated
    <3> HIDE DEF b, w
    <3> QED  BY <3>1, <3>2, <3>3
  <2> HIDE DEF w
  <2>3. /\ \A i \in DOMAIN f.activated :
             \/ i \in DOMAIN d.activated /\ f.activated[i] = d.activated[i] /\ i < n
             \/ i = n /\ f.activated[i] = x.id
        /\ n \notin DOMAIN d.activated
    <3>1. DOMAIN d.activated = 1 .. Len(d.activated) /\ Len(d.activated) \in Nat  BY <1>2
    <3> QED  BY <1>2, <2>2, <3>1, Appended
  <2>4. Stocked(f, R)
    <3>1. EachOnce(f.activated)  BY <2>3 DEF Unlocks, Stocked, EachOnce, Unused
    <3>2. \A i \in DOMAIN f.activated : f.activated[i] \in DOMAIN R
      BY <2>3 DEF Unlocks, Stocked, Recalls
    <3>3. ASSUME NEW r \in Region, NEW i \in DOMAIN f.queued[r]
          PROVE  /\ Recalls(R, f.queued[r][i])
                 /\ \A j \in DOMAIN f.queued[r] : f.queued[r][i].id = f.queued[r][j].id => i = j
                 /\ \A j \in DOMAIN f.activated : f.queued[r][i].id # f.activated[j]
      <4>1. f.queued[r] = d.queued[r] /\ f.queued[r][i].id # x.id  BY <2>2 DEF Unused
      <4> QED  BY <2>3, <4>1 DEF Unlocks, Stocked
    <3> QED  BY <3>1, <3>2, <3>3 DEF Stocked
  <2>5. /\ Shown(f) = Shown(d) \cup {t} /\ f.entry[t].left = x.length
        /\ o.kind # "Movie" => o.length <= f.entry[t].left
    <3>1. Entry(x).left = x.length  BY DEF Entry
    <3> QED  BY <1>1, <1>2, <2>2, <3>1 DEF Shown
  <2>6. RegionOf[t] \in Moving /\ t \in Shown(d) => d.entry[t].left = 0
    <3>1. ASSUME RegionOf[t] \in Moving, t \in Shown(d) PROVE d.entry[t].left \in Nat
      BY <1>2, <3>1 DEF Typed, EntryState, Shown
    <3> QED  BY <1>4, <3>1 DEF Busy, Moving
  <2>7. ASSUME NEW u \in Shown(e), RegionOf[u] \in Moving, e.entry[u].left > 0
        PROVE  u \in Shown(f) /\ f.entry[u].left = e.entry[u].left
    <3>1. u \in Shown(d) /\ d.entry[u].left = e.entry[u].left  BY <2>7 DEF Unlocks
    <3>2. u # t  BY <2>6, <2>7, <3>1
    <3> QED  BY <2>2, <2>5, <3>1, <3>2
  <2>8. ASSUME NEW i \in DOMAIN f.activated, R[f.activated[i]].kind # "Movie"
        PROVE  LET y == R[f.activated[i]] IN
                 /\ y.target \in Shown(e) => e.entry[y.target].left = 0
                 /\ y.target \in Shown(f) /\ y.length <= f.entry[y.target].left
                 /\ \A j \in DOMAIN f.activated :
                      j < i /\ R[f.activated[j]].target = y.target => R[f.activated[j]].length = 0
    <3> DEFINE y == R[f.activated[i]]
    <3>1. f.activated[i] \in DOMAIN R /\ y.length \in Nat  BY <2>4, KeptIs DEF Stocked
    <3>2. ASSUME NEW j \in DOMAIN d.activated, R[d.activated[j]].target = t, o.kind # "Movie"
          PROVE  R[d.activated[j]].length = 0
      <4> DEFINE z == R[d.activated[j]]
      <4>1. d.activated[j] \in DOMAIN R  BY DEF Unlocks, Stocked
      <4>2. z.length \in Nat /\ z.kind # "Movie"  BY <1>1, <3>2, <4>1, KeptIs
      <4>3. z.target \in Shown(d) /\ z.length <= d.entry[z.target].left  BY <4>2 DEF Unlocks
      <4> HIDE DEF z
      <4>4. z.length <= 0  BY <1>1, <2>6, <3>2, <4>3 DEF z
      <4> QED  BY <4>2, <4>4 DEF z
    <3>3. CASE i \in DOMAIN d.activated /\ f.activated[i] = d.activated[i] /\ i < n
      <4>1. /\ y.target \in Shown(e) => e.entry[y.target].left = 0
            /\ y.target \in Shown(d) /\ y.length <= d.entry[y.target].left
            /\ \A j \in DOMAIN d.activated :
                 j < i /\ R[d.activated[j]].target = y.target => R[d.activated[j]].length = 0
        BY <2>8, <3>3 DEF Unlocks
      <4>2. y.kind # "Movie" /\ (y.target = t => o.kind # "Movie")
        BY <1>1, <2>8, <3>1, KeptIs
      <4>3. y.target = t => y.length = 0  BY <3>2, <3>3, <4>2
      <4>4. y.target \in Shown(f) /\ y.length <= f.entry[y.target].left
        <5>1. CASE y.target = t  BY <1>1, <2>5, <4>2, <4>3, <5>1
        <5>2. CASE y.target # t  BY <2>2, <2>5, <4>1, <5>2
        <5> QED  BY <5>1, <5>2
      <4>5. ASSUME NEW j \in DOMAIN f.activated, j < i
            PROVE  j \in DOMAIN d.activated /\ f.activated[j] = d.activated[j]
        <5>1. DOMAIN d.activated = 1 .. Len(d.activated) /\ Len(d.activated) \in Nat  BY <1>2
        <5> QED  BY <2>3, <3>3, <4>5, <5>1
      <4> QED  BY <4>1, <4>4, <4>5
    <3>4. CASE i = n /\ f.activated[i] = x.id
      <4>1. y = o /\ o.kind # "Movie" /\ RegionOf[t] \in Moving  BY <1>1, <2>8, <3>4
      <4>2. t \in Shown(e) => e.entry[t].left = 0
        <5> SUFFICES ASSUME t \in Shown(e), e.entry[t].left # 0 PROVE FALSE  OBVIOUS
        <5>1. e.entry[t].left \in Nat  BY TypedIs DEF Typed, EntryState, Shown
        <5>2. t \in Shown(d) /\ d.entry[t].left = e.entry[t].left  BY <4>1, <5>1 DEF Unlocks
        <5> QED  BY <2>6, <4>1, <5>2
      <4>3. \A j \in DOMAIN f.activated :
              j < i /\ R[f.activated[j]].target = t => R[f.activated[j]].length = 0
        BY <2>3, <3>2, <3>4, <4>1
      <4> QED  BY <1>1, <2>5, <4>1, <4>2, <4>3
    <3> QED  BY <2>3, <3>3, <3>4
  <2>9. Unlocks(e, R, f)  BY <2>4, <2>7, <2>8 DEF Unlocks
  <2>10. RegionOf[t] \notin Moving /\ OnlyMovies(d, R) => OnlyMovies(f, R)
    BY <1>1, <2>3 DEF OnlyMovies
  <2> QED  BY <2>2, <2>3, <2>9, <2>10 DEF f, Unused
<1> QED  BY <1>3, <1>4
LEMMA UnlockDrain ==
  ASSUME NEW e \in Coordinator, NEW R, Regional(R), NEW s, Staged(s), Unlocks(e, R, s),
         NEW r \in Region
  PROVE  /\ Unlocks(e, R, Drain(s, r))
         /\ r \notin Moving /\ OnlyMovies(s, R) => OnlyMovies(Drain(s, r), R)
<1> DEFINE q == s.queued[r]
           base == [s EXCEPT !.queued[r] = <<>>]
<1>1. Drain(s, r) = FoldLeft(Again, base, q)
  BY DEF Drain, Again, Begin, FoldLeft, MapThenFoldSet
<1>2. /\ s \in Coordinator /\ q \in Seq(Commands) /\ Len(q) \in Nat /\ DOMAIN q = 1 .. Len(q)
  BY TypedIs DEF Staged, Typed
<1>3. /\ base \in Coordinator /\ base.entry = s.entry /\ base.activated = s.activated
      /\ base.queued[r] = <<>> /\ \A p \in Region \ {r} : base.queued[p] = s.queued[p]
  BY <1>2, TakenOut
<1> HIDE DEF base
<1>4. \A i \in 1 .. Len(q) : /\ q[i] \in Commands /\ Recalls(R, q[i]) /\ RegionOf[q[i].target] = r
                             /\ \A j \in 1 .. Len(q) : q[i].id = q[j].id => i = j
                             /\ \A j \in DOMAIN s.activated : q[i].id # s.activated[j]
  BY <1>2 DEF Unlocks, Stocked, Staged, Queues
<1>5. Unlocks(e, R, base) /\ (OnlyMovies(s, R) => OnlyMovies(base, R))
  <2>1. \A p \in Region : \A i \in DOMAIN base.queued[p] :
          p # r /\ i \in DOMAIN s.queued[p] /\ base.queued[p][i] = s.queued[p][i]
    <3>1. DOMAIN <<>> = {}  OBVIOUS
    <3> QED  BY <1>3, <3>1
  <2>2. Stocked(base, R)
    <3>1. Stocked(s, R)  BY DEF Unlocks
    <3> QED  BY <1>3, <2>1, <3>1 DEF Stocked
  <2>3. Shown(base) = Shown(s)  BY <1>3 DEF Shown
  <2> QED  BY <1>3, <2>2, <2>3 DEF Unlocks, OnlyMovies
<1>6. ASSUME NEW j \in 1 .. Len(q) PROVE Unused(base, q[j].id)
  <2>1. ASSUME NEW p \in Region, NEW i \in DOMAIN base.queued[p], base.queued[p][i].id = q[j].id
        PROVE  FALSE
    <3>1. p # r /\ i \in DOMAIN s.queued[p] /\ base.queued[p][i] = s.queued[p][i]
      <4>1. DOMAIN <<>> = {}  OBVIOUS
      <4> QED  BY <1>3, <2>1, <4>1
    <3> DEFINE y == s.queued[p][i]
    <3>2. Recalls(R, y) /\ RegionOf[y.target] = p  BY <3>1 DEF Unlocks, Stocked, Staged, Queues
    <3>3. y.id = q[j].id  BY <2>1, <3>1
    <3> HIDE DEF y
    <3> QED  BY <1>4, <3>1, <3>2, <3>3 DEF Recalls
  <2> QED  BY <1>3, <1>4, <2>1 DEF Unused
<1>7. PICK g \in [0 .. Len(q) -> Coordinator] :
         /\ g[0] = base
         /\ \A k \in 1 .. Len(q) : g[k] = Again(g[k - 1], q[k])
         /\ g[Len(q)] = FoldLeft(Again, base, q)
  BY <1>2, <1>3, AgainFold
<1> HIDE DEF q
<1> DEFINE I(k) == /\ Unlocks(e, R, g[k])
                   /\ r \notin Moving /\ OnlyMovies(s, R) => OnlyMovies(g[k], R)
                   /\ \A j \in 1 .. Len(q) : k < j => Unused(g[k], q[j].id)
           T == {k \in Nat : k <= Len(q) => I(k)}
<1>8. 0 \in T  BY <1>5, <1>6, <1>7
<1>9. ASSUME NEW k \in Nat, k \in T PROVE k + 1 \in T
  <2> SUFFICES ASSUME k + 1 <= Len(q) PROVE I(k + 1)  OBVIOUS
  <2>1. k + 1 \in 1 .. Len(q) /\ (k + 1) - 1 = k /\ k \in 0 .. Len(q) /\ I(k)  BY <1>2, <1>9
  <2> DEFINE x == q[k + 1]
             d == g[k]
             f == Again(d, x)
  <2>2. g[k + 1] = f  BY <1>7, <2>1
  <2>3. /\ d \in Coordinator /\ Unlocks(e, R, d)
        /\ r \notin Moving /\ OnlyMovies(s, R) => OnlyMovies(d, R)
        /\ \A j \in 1 .. Len(q) : k < j => Unused(d, q[j].id)
    BY <1>7, <2>1
  <2>4. x \in Commands /\ Recalls(R, x) /\ RegionOf[x.target] = r  BY <1>4, <2>1
  <2>5. Unused(d, x.id)  BY <2>1, <2>3
  <2>6. \A j \in 1 .. Len(q) : k + 1 < j => q[j].id # x.id /\ k < j  BY <1>4, <2>1
  <2> HIDE DEF x, d, T
  <2>7. /\ Unlocks(e, R, f)
        /\ RegionOf[x.target] \notin Moving /\ OnlyMovies(d, R) => OnlyMovies(f, R)
        /\ \A v : v # x.id /\ Unused(d, v) => Unused(f, v)
    BY <2>3, <2>4, <2>5, UnlockStep
  <2> HIDE DEF f
  <2>8. \A j \in 1 .. Len(q) : k + 1 < j => Unused(f, q[j].id)  BY <2>3, <2>6, <2>7
  <2> QED  BY <2>2, <2>3, <2>4, <2>7, <2>8
<1>10. \A k \in Nat : k \in T
  <2> HIDE DEF T
  <2> QED  BY <1>8, <1>9, Induction
<1> QED  BY <1>1, <1>2, <1>7, <1>10
-------------------------------------------------------------------------------
(* What a layer of video shows, and which of the commands q activated after*)
(* the first k are seen there: the last of each layer but those of L, where*)
(* another took its place.                                                 *)
OnScreen(s, t, id) == t \in Shown(s) /\ s.entry[t].id = id

Newest(L, R, q, s, k) ==
  \A j \in DOMAIN q : j > k /\ R[q[j]].kind = "Movie" =>
    LET t == R[q[j]].target IN
      t \in L \/ OnScreen(s, t, q[j]) \/ \E i \in DOMAIN q : i > j /\ R[q[i]].target = t

(* Only on layers T another video begins, and that has been activated.     *)
Rolls(R, T, s, d) ==
  /\ \A t \in VideoLayer : t \in Shown(d) => t \in Shown(s)
  /\ \A t \in VideoLayer \ T : \A id : OnScreen(s, t, id) => OnScreen(d, t, id)
  /\ \A L : Newest(L, R, s.activated, s, 0) => Newest(L, R, d.activated, d, 0)

LEMMA RollsTwice ==
  ASSUME NEW R, NEW T, NEW s, NEW m, Rolls(R, T, s, m), NEW d, Rolls(R, T, m, d)
  PROVE  Rolls(R, T, s, d)
BY DEF Rolls

LEMMA RollsMore ==
  ASSUME NEW R, NEW T, NEW U, T \subseteq U, NEW s, NEW d, Rolls(R, T, s, d)
  PROVE  Rolls(R, U, s, d)
BY DEF Rolls

(* Nothing is activated, and the films go on. *)
LEMMA RollsOn ==
  ASSUME NEW R, NEW s, NEW d, d.activated = s.activated,
         \A t \in VideoLayer : t \in Shown(s) <=> t \in Shown(d),
         \A t \in VideoLayer : t \in Shown(s) => d.entry[t].id = s.entry[t].id,
         \A i \in DOMAIN s.activated :
           R[s.activated[i]].kind = "Movie" => R[s.activated[i]].target \in VideoLayer
  PROVE  Rolls(R, {}, s, d)
<1>1. \A t \in VideoLayer : \A id : OnScreen(s, t, id) => OnScreen(d, t, id)  BY DEF OnScreen
<1>2. ASSUME NEW L, Newest(L, R, s.activated, s, 0) PROVE Newest(L, R, d.activated, d, 0)
  BY <1>1, <1>2 DEF Newest
<1> QED  BY <1>1, <1>2 DEF Rolls

LEMMA MovieTargets ==
  ASSUME NEW R, Regional(R), NEW s, Stocked(s, R)
  PROVE  \A i \in DOMAIN s.activated :
           R[s.activated[i]].kind = "Movie" => R[s.activated[i]].target \in VideoLayer
<1> SUFFICES ASSUME NEW i \in DOMAIN s.activated, R[s.activated[i]].kind = "Movie"
             PROVE  R[s.activated[i]].target \in VideoLayer
  OBVIOUS
<1>1. s.activated[i] \in DOMAIN R  BY DEF Stocked
<1> QED  BY <1>1, KeptIs DEF VideoLayer

LEMMA AgainRolls ==
  ASSUME NEW R, Regional(R), NEW s \in Coordinator, NEW x \in Commands, Recalls(R, x),
         NEW T \in SUBSET (Shown(s) \cap VideoLayer),
         \A i \in DOMAIN s.activated :
           R[s.activated[i]].kind = "Movie" => R[s.activated[i]].target \in VideoLayer,
         x.target \in T \/ RegionOf[x.target] # "Video" \/ Busy(s, x.target)
  PROVE  LET d == Again(s, x) IN
         /\ Rolls(R, T, s, d)
         /\ \A t \in VideoLayer \ T : t \in Shown(s) => t \in Shown(d) /\ d.entry[t] = s.entry[t]
         /\ Shown(s) \subseteq Shown(d)
         /\ \A i \in DOMAIN d.activated :
              R[d.activated[i]].kind = "Movie" => R[d.activated[i]].target \in VideoLayer
<1> DEFINE d == Again(s, x)
           t == x.target
           q == s.activated
<1>1. Typed(s) /\ q \in Seq(Ids) /\ x.id \in Ids  BY TypedIs, EntryIs DEF Typed
<1>2. CASE Busy(s, t)
  <2>1. d = Enqueue(s, x)  BY <1>2 DEF Again
  <2> HIDE DEF d
  <2>2. d.entry = s.entry /\ d.activated = q  BY <2>1, EnqueueFields
  <2>3. Rolls(R, {}, s, d) /\ Shown(d) = Shown(s)  BY <2>2, RollsOn DEF Shown
  <2>4. Rolls(R, T, s, d)  BY <2>3, RollsMore
  <2>5. \A i \in DOMAIN d.activated :
          R[d.activated[i]].kind = "Movie" => R[d.activated[i]].target \in VideoLayer
    BY <2>2
  <2> QED  BY <2>2, <2>3, <2>4, <2>5 DEF d
<1>3. CASE ~ Busy(s, t)
  <2>1. d = Begin(s, x)  BY <1>3 DEF Again
  <2> DEFINE e == With(s.entry, t, Entry(x))
             p == Append(q, x.id)
  <2> HIDE DEF d
  <2>2. d.entry = e /\ DOMAIN e = Shown(s) \cup {t} /\ e[t] = Entry(x)
        /\ \A u \in Shown(s) \ {t} : e[u] = s.entry[u]
    <3>1. d.entry = Start(s, x).entry  BY <2>1, BeginFields
    <3> QED  BY <3>1, StartFields
  <2>3. d.activated = p  BY <2>1, BeginActivated
  <2>4. Entry(x).id = x.id  BY DEF Entry
  <2>5. /\ DOMAIN q = 1 .. Len(q) /\ Len(q) \in Nat /\ DOMAIN p = 1 .. Len(q) + 1
        /\ p[Len(q) + 1] = x.id /\ \A i \in DOMAIN q : p[i] = q[i]
    BY <1>1
  <2> HIDE DEF e, p, q
  <2>6. Shown(d) = Shown(s) \cup {t} /\ OnScreen(d, t, x.id)
    BY <2>2, <2>4 DEF Shown, OnScreen
  <2>7. \A u : u # t => \A id : OnScreen(s, u, id) => OnScreen(d, u, id)
    BY <2>2, <2>6 DEF OnScreen
  <2>8. x.id \in DOMAIN R /\ R[x.id].target = t  BY DEF Recalls
  <2>9. R[x.id].kind = "Movie" => t \in VideoLayer  BY <2>8, KeptIs DEF VideoLayer
  <2>10. ASSUME NEW L, Newest(L, R, q, s, 0) PROVE Newest(L, R, p, d, 0)
    <3> SUFFICES ASSUME NEW j \in DOMAIN p, R[p[j]].kind = "Movie"
                 PROVE  LET u == R[p[j]].target IN
                          u \in L \/ OnScreen(d, u, p[j])
                            \/ \E i \in DOMAIN p : i > j /\ R[p[i]].target = u
      BY DEF Newest
    <3>1. CASE j = Len(q) + 1  BY <2>5, <2>6, <2>8, <3>1
    <3>2. CASE j # Len(q) + 1
      <4> DEFINE u == R[p[j]].target
      <4>1. j \in DOMAIN q /\ p[j] = q[j] /\ j > 0 /\ Len(q) + 1 \in DOMAIN p /\ Len(q) + 1 > j
        BY <2>5, <3>2
      <4>2. u \in L \/ OnScreen(s, u, q[j]) \/ \E i \in DOMAIN q : i > j /\ R[q[i]].target = u
        BY <2>10, <4>1 DEF Newest
      <4>3. CASE u = t  BY <2>5, <2>8, <4>1, <4>3
      <4>4. CASE u # t  BY <2>5, <2>7, <4>1, <4>2, <4>4
      <4> QED  BY <4>3, <4>4
    <3> QED  BY <3>1, <3>2
  <2>11. t \in VideoLayer => t \in T  BY <1>3 DEF VideoLayer
  <2>12. Rolls(R, T, s, d)  BY <2>3, <2>6, <2>7, <2>10, <2>11 DEF Rolls, q
  <2>13. \A i \in DOMAIN d.activated :
           R[d.activated[i]].kind = "Movie" => R[d.activated[i]].target \in VideoLayer
    BY <2>3, <2>5, <2>8, <2>9 DEF q
  <2> QED  BY <2>2, <2>6, <2>11, <2>12, <2>13 DEF d
<1> QED  BY <1>2, <1>3

(* A queue is drained: that of the videos has all but T to wait for. *)
LEMMA DrainRolls ==
  ASSUME NEW R, Regional(R), NEW s, Staged(s), Stocked(s, R), NEW r \in Region,
         NEW T \in SUBSET (Shown(s) \cap VideoLayer),
         \A i \in DOMAIN s.queued[r] : LET t == s.queued[r][i].target IN
           t \in T \/ RegionOf[t] # "Video" \/ Busy(s, t)
  PROVE  Rolls(R, T, s, Drain(s, r))
<1> DEFINE q == s.queued[r]
           n == Len(q)
           base == [s EXCEPT !.queued[r] = <<>>]
           d == Drain(s, r)
<1>1. d = FoldLeft(Again, base, q)
  BY DEF Drain, Again, Begin, FoldLeft, MapThenFoldSet
<1>2. s \in Coordinator /\ q \in Seq(Commands) /\ n \in Nat /\ DOMAIN q = 1 .. n
  BY TypedIs DEF Staged, Typed
<1>3. base \in Coordinator /\ base.entry = s.entry /\ base.activated = s.activated
  BY <1>2, TakenOut
<1>4. PICK g \in [0 .. n -> Coordinator] :
        /\ g[0] = base
        /\ \A k \in 1 .. n : g[k] = Again(g[k - 1], q[k])
        /\ g[n] = FoldLeft(Again, base, q)
  BY <1>2, <1>3, AgainFold
<1> DEFINE Films_(e) == \A i \in DOMAIN e.activated :
             R[e.activated[i]].kind = "Movie" => R[e.activated[i]].target \in VideoLayer
           To(e) == /\ Rolls(R, T, s, e) /\ Films_(e) /\ Shown(s) \subseteq Shown(e)
                    /\ \A t \in VideoLayer \ T :
                         t \in Shown(s) => t \in Shown(e) /\ e.entry[t] = s.entry[t]
           K == {k \in Nat : k <= n => To(g[k])}
<1>5. Films_(s)  BY MovieTargets
<1>6. \A i \in 1 .. n : q[i] \in Commands /\ Recalls(R, q[i])
  BY <1>2 DEF Stocked
<1> HIDE DEF base, q, n, d
<1>7. 0 \in K
  <2>1. Shown(base) = Shown(s)  BY <1>3 DEF Shown
  <2>2. Rolls(R, {}, s, base)
    <3> HIDE DEF Films_
    <3> QED  BY <1>3, <1>5, <2>1, RollsOn DEF Films_
  <2>3. Rolls(R, T, s, base)  BY <2>2, RollsMore
  <2> QED  BY <1>3, <1>4, <1>5, <2>1, <2>3
<1>8. ASSUME NEW k \in Nat, k \in K PROVE k + 1 \in K
  <2> SUFFICES ASSUME k + 1 <= n PROVE To(g[k + 1])  OBVIOUS
  <2> DEFINE e == g[k]
             x == q[k + 1]
  <2>1. k + 1 \in 1 .. n /\ (k + 1) - 1 = k /\ k \in 0 .. n  BY <1>2
  <2>2. /\ e \in Coordinator /\ To(e) /\ x \in Commands /\ Recalls(R, x)
        /\ g[k + 1] = Again(e, x)
    BY <1>2, <1>4, <1>6, <1>8, <2>1
  <2>3. x.target \in T \/ RegionOf[x.target] # "Video" \/ Busy(s, x.target)
    BY <1>2, <2>1 DEF q
  <2>4. T \in SUBSET (Shown(e) \cap VideoLayer)  BY <2>2
  <2> HIDE DEF e, x
  <2>5. x.target \in T \/ RegionOf[x.target] # "Video" \/ Busy(e, x.target)
    <3> SUFFICES ASSUME x.target \notin T, RegionOf[x.target] = "Video", Busy(s, x.target)
                 PROVE  Busy(e, x.target)
      BY <2>3
    <3>1. x.target \in Target  BY <2>2, EntryIs
    <3>2. x.target \in Shown(s) /\ Runs(x.target, s.entry[x.target])  BY BusyIs
    <3>3. x.target \in Shown(e) /\ e.entry[x.target] = s.entry[x.target]
      BY <2>2, <3>1, <3>2 DEF VideoLayer
    <3> QED  BY <3>2, <3>3, BusyIs
  <2> DEFINE f == Again(e, x)
  <2>6. /\ Rolls(R, T, e, f)
        /\ \A t \in VideoLayer \ T : t \in Shown(e) => t \in Shown(f) /\ f.entry[t] = e.entry[t]
        /\ Shown(e) \subseteq Shown(f) /\ Films_(f)
    BY <2>2, <2>4, <2>5, AgainRolls
  <2> HIDE DEF f, Films_
  <2>7. Rolls(R, T, s, f)  BY <2>2, <2>6, RollsTwice
  <2>8. To(f)  BY <2>2, <2>6, <2>7
  <2> QED  BY <2>2, <2>8 DEF f
<1>9. \A k \in Nat : k \in K
  <2> HIDE DEF K
  <2> QED  BY <1>7, <1>8, Induction
<1>10. Rolls(R, T, s, d)  BY <1>1, <1>2, <1>4, <1>9
<1> QED  BY <1>10 DEF d
-------------------------------------------------------------------------------
(* Videos that end, one after the other. *)

LEMMA EndedVideoStays ==
  ASSUME NEW s, Staged(s), NEW t \in Shown(s), RegionOf[t] = "Video"
  PROVE  LET r == EndVideo(s, t, "Ended") IN
           Staged(r) /\ Shown(s) \subseteq Shown(r) /\ (s.failed => r.failed)
<1> DEFINE b == s.entry[t]
           e == [b EXCEPT !.phase = "Ended", !.fence = NoFence]
           m == [s EXCEPT !.entry[t] = e]
           d == Drain(m, "Video")
           r == EndVideo(s, t, "Ended")
           x == d.failed \/ Len(d.activated) > MaxQueue
<1>1. r = [d EXCEPT !.failed = x]  BY DEF EndVideo, CheckActivated
<1>2. b \in EntryState /\ "Video" \in Region /\ Typed(s)  BY TypedIs DEF Staged, Typed, Region
<1>3. Shown(m) = Shown(s)  BY <1>2 DEF Typed, Shown
<1> HIDE DEF r, d, m, b, x
<1>4. e = [id |-> b.id, fence |-> NoFence, left |-> b.left, phase |-> "Ended", tasks |-> b.tasks]
  <2> DEFINE o == [b EXCEPT !.phase = "Ended"]
  <2>1. o = [id |-> b.id, fence |-> b.fence, left |-> b.left, phase |-> "Ended", tasks |-> b.tasks]
    BY <1>2 DEF EntryState
  <2>2. e = [o EXCEPT !.fence = NoFence]  OBVIOUS
  <2> HIDE DEF o, e
  <2> QED  BY <2>1, <2>2
<1> HIDE DEF e
<1>5. e \in EntryState  BY <1>2, <1>4 DEF EntryState
<1>6. Performs(t, e) /\ MemberOf(e) = {}  BY <1>4 DEF Performs, MemberOf
<1>7. Changed(s, t, e, m)  BY <1>5, <1>6, ChangeFacts DEF m
<1>8. Staged(m) /\ m.failed = s.failed  BY <1>7 DEF Changed
<1>9. Drained(m, "Video", d)  BY <1>2, <1>8, DrainFacts DEF d
<1>10. Staged(d) /\ d.failed = s.failed /\ Shown(s) \subseteq Shown(d)
  BY <1>3, <1>8, <1>9 DEF Drained
<1>11. Typed(d) /\ x \in BOOLEAN /\ (d.failed => x)  BY <1>10, TypedIs DEF Staged, x
<1>12. /\ r = [entry |-> d.entry, queued |-> d.queued, fences |-> d.fences, groups |-> d.groups,
               activated |-> d.activated, failed |-> x]
  BY <1>1, <1>11 DEF Typed
<1>13. /\ r.entry = d.entry /\ r.queued = d.queued /\ r.fences = d.fences /\ r.groups = d.groups
       /\ r.activated = d.activated /\ r.failed = x
  BY <1>12
<1>14. r \in Coordinator
  <2>1. Typed(r)  BY <1>11, <1>12, <1>13 DEF Typed, Shown
  <2> QED  BY <2>1, TypedIs
<1>15. Staged(r) /\ Shown(r) = Shown(d)  BY <1>10, <1>13, <1>14 DEF Staged, Shown
<1>16. Staged(r) /\ Shown(s) \subseteq Shown(r) /\ (s.failed => r.failed)
  BY <1>10, <1>11, <1>13, <1>15
<1> QED  BY <1>16 DEF r

LEMMA FinishKeeps ==
  ASSUME NEW d \in Coordinator, NEW F
  PROVE  LET r == FinishFences(d, F) IN
         /\ r.entry = d.entry /\ r.failed = d.failed
         /\ r.queued = d.queued /\ r.activated = d.activated
<1> DEFINE G == Insert(d.groups, [f \in Candidates(d, F) |-> FinishGroup(d, f)])
           m == [d EXCEPT !.groups = G]
           H == Insert(m.fences, [f \in Completed(d, F) |-> "Completed"])
<1>1. FinishFences(d, F) = [m EXCEPT !.fences = H]  BY DEF FinishFences, SetFences
<1>2. Typed(d)  BY TypedIs
<1> HIDE DEF G, H
<1> QED  BY <1>1, <1>2 DEF Typed

LEMMA CompleteStays ==
  ASSUME NEW s, Staged(s), NEW t \in Shown(s), RegionOf[t] = "Video"
  PROVE  LET r == CompleteVideo(s, t) IN
           /\ Shown(s) \subseteq Shown(r)
           /\ r.failed => Staged(r) /\ CompleteVideoCompletes(s, t) = {}
           /\ s.failed => r.failed
<1> DEFINE d == EndVideo(s, t, "Ended")
           f == s.entry[t].fence
           r == CompleteVideo(s, t)
<1>1. /\ r = IF d.failed \/ f = NoFence THEN d ELSE FinishFences(d, {f})
      /\ CompleteVideoCompletes(s, t) = IF d.failed \/ f = NoFence THEN {} ELSE Completed(d, {f})
  BY DEF CompleteVideo, CompleteVideoCompletes
<1>2. Staged(d) /\ Shown(s) \subseteq Shown(d) /\ (s.failed => d.failed)  BY EndedVideoStays
<1> HIDE DEF d, f, r
<1>3. FinishFences(d, {f}).entry = d.entry /\ FinishFences(d, {f}).failed = d.failed
  BY <1>2, FinishKeeps DEF Staged
<1>4. /\ Shown(s) \subseteq Shown(r) /\ (r.failed => d.failed) /\ (d.failed => r = d)
  BY <1>1, <1>2, <1>3 DEF Shown
<1>5. /\ Shown(s) \subseteq Shown(r)
      /\ r.failed => Staged(r) /\ CompleteVideoCompletes(s, t) = {}
      /\ s.failed => r.failed
  BY <1>1, <1>2, <1>4
<1> QED  BY <1>5 DEF r

(* A call that activates only movies, and leaves alone what moves.         *)
Calm(R, s, d) ==
  /\ \A t \in Shown(s) :
       RegionOf[t] \in Moving => t \in Shown(d) /\ d.entry[t].left = s.entry[t].left
  /\ Stocked(s, R) /\ OnlyMovies(s, R) => Stocked(d, R) /\ OnlyMovies(d, R)

LEMMA RestsCalm ==
  ASSUME NEW R, NEW s, NEW d, Rests(s, d)
  PROVE  Calm(R, s, d)
BY DEF Rests, Calm, Stocked, OnlyMovies

LEMMA CalmTwice ==
  ASSUME NEW R, NEW s, NEW m, Calm(R, s, m), NEW d, Calm(R, m, d)
  PROVE  Calm(R, s, d)
BY DEF Calm

LEMMA DrainCalm ==
  ASSUME NEW R, Regional(R), NEW s, NEW m, Staged(m), Rests(s, m), NEW r \in {"Text", "Video"}
  PROVE  Calm(R, s, Drain(m, r))
<1> DEFINE d == Drain(m, r)
<1>1. r \in Region /\ r \notin Moving /\ m \in Coordinator  BY DEF Region, Moving, Staged
<1>2. Drained(m, r, d)  BY <1>1, DrainFacts
<1>3. ASSUME Stocked(m, R), OnlyMovies(m, R) PROVE Stocked(d, R) /\ OnlyMovies(d, R)
  <2>1. \A t \in Shown(m) : t \in Shown(m) /\ m.entry[t].left = m.entry[t].left  OBVIOUS
  <2>2. Unlocks(m, R, m)  BY <1>3, <2>1 DEF Unlocks, OnlyMovies
  <2>3. Unlocks(m, R, d) /\ OnlyMovies(d, R)  BY <1>1, <1>3, <2>2, UnlockDrain
  <2> QED  BY <2>3 DEF Unlocks
<1> HIDE DEF d
<1>4. Calm(R, m, d)
  <2>1. \A t \in Shown(m) :
          RegionOf[t] \in Moving => t \in Shown(d) /\ d.entry[t].left = m.entry[t].left
    BY <1>1, <1>2 DEF Drained
  <2> QED  BY <1>3, <2>1 DEF Calm
<1>5. Calm(R, s, m)  BY RestsCalm
<1>6. Calm(R, s, d)  BY <1>4, <1>5, CalmTwice
<1> QED  BY <1>6 DEF d

LEMMA AcknowledgeCalm ==
  ASSUME NEW R, Regional(R), NEW s, Good(s), NEW t \in Shown(s), RegionOf[t] = "Text",
         CanAcknowledge(s, t), ~ AcknowledgeText(s, t).failed
  PROVE  Calm(R, s, AcknowledgeText(s, t))
BY AcknowledgeGood, DrainCalm

LEMMA CompleteCalm ==
  ASSUME NEW R, Regional(R), NEW s, Staged(s), NEW t \in Shown(s), RegionOf[t] = "Video",
         ~ CompleteVideo(s, t).failed
  PROVE  Calm(R, s, CompleteVideo(s, t))
<1> DEFINE d == EndVideo(s, t, "Ended")
           f == s.entry[t].fence
           r == CompleteVideo(s, t)
<1>1. r = IF d.failed \/ f = NoFence THEN d ELSE FinishFences(d, {f})  BY DEF CompleteVideo
<1>2. Staged(d)  BY EndedVideoStays
<1> HIDE DEF d, f, r
<1>3. ~ d.failed  BY <1>1 DEF r
<1>4. Calm(R, s, d)
  <2>1. \E m : Staged(m) /\ Rests(s, m) /\ d = Drain(m, "Video")  BY <1>3, EndVideoFacts DEF d
  <2> QED  BY <2>1, DrainCalm
<1>5. r.entry = d.entry /\ r.queued = d.queued /\ r.activated = d.activated
  BY <1>1, <1>2, FinishKeeps DEF Staged
<1>6. Rests(d, r)  BY <1>5 DEF Rests, Shown
<1>7. Calm(R, s, r)  BY <1>4, <1>6, RestsCalm, CalmTwice
<1> QED  BY <1>7 DEF r

(* What a frame makes of the coordinator: what moves has a frame less to   *)
(* go, and what was activated stands where nothing moved beyond this frame.*)
Ticks(R, s, r) ==
  /\ Stocked(r, R)
  /\ \A t \in Shown(s) : RegionOf[t] \in Moving /\ s.entry[t].left > 1
       => t \in Shown(r) /\ r.entry[t].left = s.entry[t].left - 1
  /\ \A i \in DOMAIN r.activated : R[r.activated[i]].kind # "Movie" =>
       LET x == R[r.activated[i]] IN
         /\ x.target \in Shown(s) => s.entry[x.target].left <= 1
         /\ x.target \in Shown(r) /\ x.length <= r.entry[x.target].left
         /\ \A j \in DOMAIN r.activated :
              j < i /\ R[r.activated[j]].target = x.target => R[r.activated[j]].length = 0

LEMMA TickTicks ==
  ASSUME NEW R, Regional(R), NEW s, Staged(s), Stocked(s, R), OnlyMovies(s, R),
         ~ TickCoordinator(s).failed
  PROVE  Ticks(R, s, TickCoordinator(s))
<1> DEFINE e == Elapse(s)
           d1 == Drain(e, "Character")
           d2 == Drain(d1, "Background")
           d == Drain(d2, "Video")
           b == BeforeFinish(s)
           r == TickCoordinator(s)
<1>1. /\ b = CheckActivated(d)
      /\ r = IF b.failed THEN b ELSE FinishFences(b, EndedFences(s))
  BY DEF BeforeFinish, DrainInTick, TickCoordinator
<1>2. /\ Staged(e) /\ e.queued = s.queued /\ e.activated = s.activated
      /\ Shown(e) = Shown(s) /\ \A t \in Shown(s) : e.entry[t] = Elapsed(t, s.entry[t])
  BY ElapseFacts
<1>3. {"Character", "Background", "Video"} \subseteq Region  BY DEF Region
<1>4. \A t \in Shown(s) : s.entry[t] \in EntryState /\ s.entry[t].left \in Nat
  BY TypedIs DEF Staged, Typed, EntryState, Shown
<1> HIDE DEF r, b, d, d1, d2, e
<1>5. \A t \in Shown(s) : RegionOf[t] \in Moving =>
        e.entry[t].left = IF s.entry[t].left > 0 THEN s.entry[t].left - 1 ELSE 0
  BY <1>2, <1>4 DEF Elapsed, EntryState, Moving
<1>6. Unlocks(e, R, e)
  <2>1. Stocked(e, R) /\ OnlyMovies(e, R)  BY <1>2 DEF Stocked, OnlyMovies
  <2> QED  BY <2>1 DEF Unlocks, OnlyMovies
<1>7. e \in Coordinator  BY <1>2 DEF Staged
<1>8. Unlocks(e, R, d1) /\ Staged(d1)
  BY <1>2, <1>3, <1>6, <1>7, UnlockDrain, DrainFacts DEF d1, Drained
<1>9. Unlocks(e, R, d2) /\ Staged(d2)
  BY <1>3, <1>7, <1>8, UnlockDrain, DrainFacts DEF d2, Drained
<1>10. Unlocks(e, R, d) /\ Staged(d)
  BY <1>3, <1>7, <1>9, UnlockDrain, DrainFacts DEF d, Drained
<1>11. ~ b.failed  BY <1>1 DEF r
<1>12. b = d  BY <1>1, <1>10, <1>11, CheckFacts DEF Staged
<1>13. r.entry = d.entry /\ r.queued = d.queued /\ r.activated = d.activated
  BY <1>1, <1>10, <1>11, <1>12, FinishKeeps DEF Staged
<1>14. /\ Shown(r) = Shown(d) /\ (Stocked(d, R) => Stocked(r, R))
  BY <1>13 DEF Shown, Stocked
<1>15. Ticks(R, s, r)
  <2>1. ASSUME NEW t \in Shown(s), RegionOf[t] \in Moving, s.entry[t].left > 1
        PROVE  t \in Shown(r) /\ r.entry[t].left = s.entry[t].left - 1
    <3>1. e.entry[t].left = s.entry[t].left - 1 /\ e.entry[t].left > 0  BY <1>4, <1>5, <2>1
    <3>2. t \in Shown(d) /\ d.entry[t].left = e.entry[t].left
      BY <1>2, <1>10, <2>1, <3>1 DEF Unlocks
    <3> QED  BY <1>13, <1>14, <3>1, <3>2
  <2>2. ASSUME NEW i \in DOMAIN r.activated, R[r.activated[i]].kind # "Movie"
        PROVE  LET x == R[r.activated[i]] IN
                 /\ x.target \in Shown(s) => s.entry[x.target].left <= 1
                 /\ x.target \in Shown(r) /\ x.length <= r.entry[x.target].left
                 /\ \A j \in DOMAIN r.activated :
                      j < i /\ R[r.activated[j]].target = x.target => R[r.activated[j]].length = 0
    <3> DEFINE x == R[r.activated[i]]
    <3>1. /\ x.target \in Shown(e) => e.entry[x.target].left = 0
          /\ x.target \in Shown(d) /\ x.length <= d.entry[x.target].left
          /\ \A j \in DOMAIN d.activated :
               j < i /\ R[d.activated[j]].target = x.target => R[d.activated[j]].length = 0
      BY <1>10, <1>13, <2>2 DEF Unlocks
    <3>2. RegionOf[x.target] \in Moving
      <4>1. r.activated[i] \in DOMAIN R  BY <1>10, <1>13 DEF Unlocks, Stocked
      <4> QED  BY <2>2, <4>1, KeptIs
    <3>3. x.target \in Shown(s) => s.entry[x.target].left <= 1
      <4> SUFFICES ASSUME x.target \in Shown(s), s.entry[x.target].left > 1 PROVE FALSE
        BY <1>4
      <4>1. e.entry[x.target].left = 0  BY <1>2, <3>1
      <4> QED  BY <1>4, <1>5, <3>2, <4>1
    <3> QED  BY <1>13, <1>14, <3>1, <3>3
  <2> QED  BY <1>10, <1>14, <2>1, <2>2 DEF Ticks, Unlocks
<1> QED  BY <1>15 DEF r

LEMMA RestsRolls ==
  ASSUME NEW R, Regional(R), NEW s, Stocked(s, R), NEW d, Rests(s, d)
  PROVE  Rolls(R, {}, s, d)
<1>1. /\ \A t \in VideoLayer : t \in Shown(s) <=> t \in Shown(d)
      /\ \A t \in VideoLayer : t \in Shown(s) => d.entry[t].id = s.entry[t].id
  BY DEF Rests, VideoLayer
<1> QED  BY <1>1, MovieTargets, RollsOn DEF Rests

LEMMA AcknowledgeRolls ==
  ASSUME NEW R, Regional(R), NEW s, Good(s), Stocked(s, R),
         NEW t \in Shown(s), RegionOf[t] = "Text", CanAcknowledge(s, t),
         ~ AcknowledgeText(s, t).failed
  PROVE  Rolls(R, {}, s, AcknowledgeText(s, t))
<1>1. PICK m : Staged(m) /\ Rests(s, m) /\ AcknowledgeText(s, t) = Drain(m, "Text")
  BY AcknowledgeGood
<1>2. Stocked(m, R)  BY <1>1 DEF Rests, Stocked
<1>3. \A i \in DOMAIN m.queued["Text"] : RegionOf[m.queued["Text"][i].target] # "Video"
  BY <1>1 DEF Staged, Queues, Region
<1>4. Rolls(R, {}, m, Drain(m, "Text"))
  BY <1>1, <1>2, <1>3, DrainRolls DEF Region
<1> QED  BY <1>1, <1>4, RestsRolls, RollsTwice

LEMMA CompleteRolls ==
  ASSUME NEW R, Regional(R), NEW s, Good(s), Stocked(s, R),
         NEW t \in Shown(s), RegionOf[t] = "Video", ~ CompleteVideo(s, t).failed
  PROVE  Rolls(R, {t}, s, CompleteVideo(s, t))
<1> DEFINE d == EndVideo(s, t, "Ended")
           f == s.entry[t].fence
           r == CompleteVideo(s, t)
<1>1. r = IF d.failed \/ f = NoFence THEN d ELSE FinishFences(d, {f})  BY DEF CompleteVideo
<1>2. Staged(s) /\ Typed(s) /\ Behind(s, "Video")
  BY GoodTyped DEF Good, SoundAt, Patient, Region
<1>3. Staged(d)  BY <1>2, EndedVideoStays
<1> HIDE DEF d, f, r
<1>4. ~ d.failed  BY <1>1 DEF r
<1>5. PICK m : /\ Staged(m) /\ Rests(s, m) /\ d = Drain(m, "Video")
               /\ \A u \in Shown(s) \ {t} : u \in Shown(m) /\ m.entry[u] = s.entry[u]
  BY <1>2, <1>4, EndVideoFacts DEF d
<1>6. Stocked(m, R)  BY <1>5 DEF Rests, Stocked
<1>7. t \in VideoLayer /\ t \in Shown(m)  BY <1>2, <1>5 DEF VideoLayer, Rests, Typed
<1>8. ASSUME NEW i \in DOMAIN m.queued["Video"]
      PROVE  LET u == m.queued["Video"][i].target IN u = t \/ Busy(m, u)
  BY <1>2, <1>5, <1>8, BusyIs DEF Rests, Behind
<1>9. Rolls(R, {t}, m, d)  BY <1>5, <1>6, <1>7, <1>8, DrainRolls DEF Region
<1>10. Rolls(R, {t}, s, d)  BY <1>5, <1>9, RestsRolls, RollsMore, RollsTwice
<1>11. r.entry = d.entry /\ r.activated = d.activated
  BY <1>1, <1>3, FinishKeeps DEF Staged
<1>12. Rolls(R, {t}, s, r)  BY <1>10, <1>11 DEF Rolls, Newest, OnScreen, Shown
<1> QED  BY <1>12 DEF r

LEMMA TickRolls ==
  ASSUME NEW R, Regional(R), NEW s, Staged(s), Stocked(s, R), OnlyMovies(s, R),
         Behind(s, "Video"), ~ TickCoordinator(s).failed
  PROVE  Rolls(R, {}, s, TickCoordinator(s))
<1> DEFINE e == Elapse(s)
           d1 == Drain(e, "Character")
           d2 == Drain(d1, "Background")
           d == Drain(d2, "Video")
           b == BeforeFinish(s)
           r == TickCoordinator(s)
<1>1. /\ b = CheckActivated(d)
      /\ r = IF b.failed THEN b ELSE FinishFences(b, EndedFences(s))
  BY DEF BeforeFinish, DrainInTick, TickCoordinator
<1>2. /\ Staged(e) /\ e.queued = s.queued /\ e.activated = s.activated /\ Behind(e, "Video")
      /\ Shown(e) = Shown(s) /\ \A t \in Shown(s) : e.entry[t] = Elapsed(t, s.entry[t])
  BY ElapseFacts
<1>3. {"Character", "Background", "Video"} \subseteq Region  BY DEF Region
<1> HIDE DEF r, b, d, d1, d2, e
<1>4. Rolls(R, {}, s, e)
  <2>1. \A t \in VideoLayer : t \in Shown(s) => e.entry[t].id = s.entry[t].id
    BY <1>2 DEF Elapsed, VideoLayer
  <2> QED  BY <1>2, <2>1, MovieTargets, RollsOn
<1>5. Unlocks(e, R, e) /\ e \in Coordinator
  <2>1. Stocked(e, R) /\ OnlyMovies(e, R)  BY <1>2 DEF Stocked, OnlyMovies
  <2> QED  BY <1>2, <2>1 DEF Unlocks, OnlyMovies, Staged
<1>6. Unlocks(e, R, d1) /\ Drained(e, "Character", d1)
  BY <1>2, <1>3, <1>5, UnlockDrain, DrainFacts DEF d1
<1>7. Staged(d1) /\ Behind(d1, "Video")  BY <1>2, <1>3, <1>6, DrainedBehind DEF Drained
<1>8. Unlocks(e, R, d2) /\ Drained(d1, "Background", d2)
  BY <1>3, <1>5, <1>6, <1>7, UnlockDrain, DrainFacts DEF d2
<1>9. Staged(d2) /\ Behind(d2, "Video")  BY <1>3, <1>7, <1>8, DrainedBehind DEF Drained
<1>10. Staged(d)  BY <1>3, <1>9, DrainFacts DEF d, Drained
<1>11. ASSUME NEW m, Staged(m), Unlocks(e, R, m), Behind(m, "Video"),
              NEW p \in {"Character", "Background", "Video"}
       PROVE  Rolls(R, {}, m, Drain(m, p))
  <2>1. \A i \in DOMAIN m.queued[p] : LET t == m.queued[p][i].target IN
          RegionOf[t] # "Video" \/ Busy(m, t)
    BY <1>3, <1>11 DEF Staged, Queues, Behind
  <2> QED  BY <1>3, <1>11, <2>1, DrainRolls DEF Unlocks
<1>12. Rolls(R, {}, e, d1) /\ Rolls(R, {}, d1, d2) /\ Rolls(R, {}, d2, d)
  BY <1>2, <1>5, <1>6, <1>7, <1>8, <1>9, <1>11 DEF d1, d2, d
<1>13. Rolls(R, {}, s, d)  BY <1>4, <1>12, RollsTwice
<1>14. ~ b.failed  BY <1>1 DEF r
<1>15. b = d  BY <1>1, <1>10, <1>14, CheckFacts DEF Staged
<1>16. r.entry = d.entry /\ r.activated = d.activated
  BY <1>1, <1>10, <1>14, <1>15, FinishKeeps DEF Staged
<1>17. Rolls(R, {}, s, r)  BY <1>13, <1>16 DEF Rolls, Newest, OnScreen, Shown
<1> QED  BY <1>17 DEF r

(* A command that is sent starts, or is queued behind its target.          *)
LEMMA RegisterKeeps ==
  ASSUME NEW s, NEW d \in Coordinator, NEW batch
  PROVE  LET r == Register(s, d, batch) IN
         r.entry = d.entry /\ r.queued = d.queued /\ r.activated = d.activated
<1> DEFINE n == [d EXCEPT !.fences = Insert(@, [f \in Fresh(s, batch) |-> "Pending"])]
           G == Insert(n.groups, [f \in Affected(batch) |-> Joined(s, n, batch, f)])
           j == [n EXCEPT !.groups = G]
           lost == Replaced(s, d, batch)
           H == [f \in DOMAIN j.groups |->
                   IF f \in lost THEN [j.groups[f] EXCEPT !.progress = CancelProgress(j.groups[f].progress)]
                   ELSE j.groups[f]]
           k == [j EXCEPT !.groups = H]
           I == Insert(k.fences, [f \in lost |-> "Failed"])
           r == Register(s, d, batch)
<1>1. r = [k EXCEPT !.fences = I]
  BY DEF Register, SetFences, CancelGroups, Fresh, Affected, Replaced
<1>2. Typed(d)  BY TypedIs
<1> HIDE DEF r, G, H, I
<1> QED  BY <1>1, <1>2 DEF Typed, r

LEMMA SendIs ==
  ASSUME Batch = Sent, NEW s \in Coordinator, NEW x \in Envelopes
  PROVE  LET r == ApplyBatch(s, <<x>>)  d == Prepare(s, x) IN
         x \in Commands /\ r.entry = d.entry /\ r.queued = d.queued /\ r.activated = d.activated
<1> DEFINE q == <<x>>
           d == FoldLeft(Prepare, s, q)
<1>1. x \in Commands  BY SentAre
<1>2. q \in Seq(Commands) /\ Len(q) = 1 /\ q[1] = x  BY <1>1
<1> HIDE DEF q
<1>3. d = Prepare(s, x)
  <2>1. PICK g \in [0 .. Len(q) -> Coordinator] :
          /\ g[0] = s
          /\ \A k \in 1 .. Len(q) : g[k] = Prepare(g[k - 1], q[k])
          /\ g[Len(q)] = FoldLeft(Prepare, s, q)
    BY <1>2, PrepareFold
  <2>2. 1 \in 1 .. Len(q) /\ 1 - 1 = 0  BY <1>2
  <2> QED  BY <1>2, <2>1, <2>2
<1>4. ApplyBatch(s, q) = Register(s, d, q)  BY DEF ApplyBatch
<1> HIDE DEF d
<1>5. d \in Coordinator  BY <1>1, <1>3, PrepareTyped
<1> QED  BY <1>1, <1>3, <1>4, <1>5, RegisterKeeps DEF q

LEMMA SendStarts ==
  ASSUME Batch = Sent, NEW s \in Coordinator, NEW x \in Envelopes,
         ~ (Busy(s, x.target) /\ x.policy = "Queue")
  PROVE  LET r == ApplyBatch(s, <<x>>) IN
         /\ r.queued = s.queued /\ r.activated = s.activated
         /\ Shown(r) = Shown(s) \cup {x.target} /\ r.entry[x.target].left = x.length
         /\ r.entry[x.target].id = x.id
         /\ \A u \in Shown(s) \ {x.target} : r.entry[u] = s.entry[u]
<1> DEFINE r == ApplyBatch(s, <<x>>)
           d == Start(s, x)
           t == x.target
           e == With(s.entry, t, Entry(x))
<1>1. Prepare(s, x) = d  BY DEF Prepare
<1>2. Entry(x).left = x.length /\ Entry(x).id = x.id  BY DEF Entry
<1>3. x \in Commands /\ r.entry = d.entry /\ r.queued = d.queued /\ r.activated = d.activated
  BY <1>1, SendIs
<1>4. /\ d.entry = e /\ d.queued = s.queued /\ d.activated = s.activated
      /\ DOMAIN e = Shown(s) \cup {t} /\ e[t] = Entry(x)
      /\ \A u \in Shown(s) \ {t} : e[u] = s.entry[u]
  BY <1>3, StartFields
<1> HIDE DEF r, d, e, t
<1>5. /\ r.queued = s.queued /\ r.activated = s.activated
      /\ Shown(r) = Shown(s) \cup {t} /\ r.entry[t].left = x.length /\ r.entry[t].id = x.id
      /\ \A u \in Shown(s) \ {t} : r.entry[u] = s.entry[u]
  BY <1>2, <1>3, <1>4 DEF Shown
<1> QED  BY <1>5 DEF r, t

LEMMA SendQueues ==
  ASSUME Batch = Sent, NEW s \in Coordinator, NEW x \in Envelopes,
         Busy(s, x.target), x.policy = "Queue"
  PROVE  LET r == ApplyBatch(s, <<x>>)  p == RegionOf[x.target] IN
         /\ r.entry = s.entry /\ r.activated = s.activated
         /\ p \in Region /\ s.queued[p] \in Seq(Commands) /\ x \in Commands
         /\ r.queued[p] = Append(s.queued[p], x)
         /\ \A o \in Region \ {p} : r.queued[o] = s.queued[o]
<1> DEFINE r == ApplyBatch(s, <<x>>)
           d == Enqueue(s, x)
<1>1. Prepare(s, x) = d  BY DEF Prepare
<1>2. x \in Commands /\ r.entry = d.entry /\ r.queued = d.queued /\ r.activated = d.activated
  BY <1>1, SendIs
<1> DEFINE p == RegionOf[x.target]
<1>3. /\ d.entry = s.entry /\ d.activated = s.activated
      /\ p \in Region /\ s.queued[p] \in Seq(Commands) /\ d.queued[p] = Append(s.queued[p], x)
      /\ \A o \in Region \ {p} : d.queued[o] = s.queued[o]
  BY <1>2, EnqueueFields
<1> HIDE DEF r, d, p
<1>4. /\ r.entry = s.entry /\ r.activated = s.activated
      /\ p \in Region /\ s.queued[p] \in Seq(Commands) /\ x \in Commands
      /\ r.queued[p] = Append(s.queued[p], x)
      /\ \A o \in Region \ {p} : r.queued[o] = s.queued[o]
  BY <1>2, <1>3
<1> QED  BY <1>4 DEF r, p

LEMMA SequenceOf ==
  ASSUME NEW S, IsFiniteSet(S)
  PROVE  SetToSeq(S) \in Seq(S)
<1> DEFINE n == Cardinality(S)
           Lists(f) == f \in [1 .. n -> S] /\ IsInjective(f)
<1>1. n \in Nat /\ ExistsBijection(1 .. n, S)  BY FS_CardinalityType
<1>2. PICK g : g \in Bijection(1 .. n, S)  BY <1>1 DEF ExistsBijection
<1>3. Lists(g)  BY <1>2 DEF Bijection, Injection, IsInjective
<1> DEFINE q == CHOOSE f : Lists(f)
<1>4. SetToSeq(S) = q  BY DEF SetToSeq
<1>5. Lists(q)
  <2> HIDE DEF Lists
  <2> QED  BY <1>3
<1> HIDE DEF q, n
<1> QED  BY <1>1, <1>4, <1>5

(* Videos end, and those that were queued behind them begin.              *)
Goes(R, T, s, d) == Calm(R, s, d) /\ (Stocked(s, R) /\ OnlyMovies(s, R) => Rolls(R, T, s, d))

LEMMA GoesTwice ==
  ASSUME NEW R, NEW T, NEW s, NEW m, Goes(R, T, s, m), NEW d, Goes(R, T, m, d)
  PROVE  Goes(R, T, s, d)
BY CalmTwice, RollsTwice DEF Goes, Calm

LEMMA EndStreamsGood ==
  ASSUME NEW s, Good(s), NEW ends \in SUBSET Films, IsFiniteSet(ends),
         \A e \in ends : e.layer \in Shown(s),
         NEW r, r = EndStreams(s, ends), ~ r.c.failed
  PROVE  /\ Good(r.c) /\ Completes(s, r.done, r.c)
         /\ \A R : Regional(R) => Goes(R, {e.layer : e \in ends}, s, r.c)
<1> DEFINE S == {e \in ends : e.fence # NoFence}
           T == {e.layer : e \in ends}
           base == [c |-> s, done |-> {}]
           V == {x \in [c : Coordinator, done : SUBSET Fence] :
                   /\ Shown(s) \subseteq Shown(x.c)
                   /\ IF x.c.failed THEN Staged(x.c)
                      ELSE /\ Good(x.c) /\ Completes(s, x.done, x.c)
                           /\ \A R : Regional(R) => Goes(R, T, s, x.c)}
<1>1. r = FoldLeft(EndStream, base, SetToSeq(S))  BY DEF EndStreams
<1>2. SetToSeq(S) \in Seq(S)
  <2>1. IsFiniteSet(S)  BY FS_Subset
  <2> HIDE DEF S
  <2> QED  BY <2>1, SequenceOf
<1>3. base \in V
  <2>1. s \in Coordinator /\ ~ s.failed  BY GoodTyped
  <2>2. \A R : Goes(R, T, s, s)  BY DEF Goes, Calm, Rolls
  <2> QED  BY <2>1, <2>2 DEF Completes
<1>4. ASSUME NEW x \in V, NEW e \in S PROVE EndStream(x, e) \in V
  <2> DEFINE t == e.layer
             m == CompleteVideo(x.c, t)
             F == CompleteVideoCompletes(x.c, t)
             y == EndStream(x, e)
  <2>1. y = [c |-> m, done |-> x.done \cup F]  BY DEF EndStream
  <2>2. t \in Shown(x.c) /\ RegionOf[t] = "Video"  BY DEF Films, VideoLayer
  <2>3. Staged(x.c)  BY GoodTyped
  <2> HIDE DEF t, y
  <2>4. /\ Shown(x.c) \subseteq Shown(m) /\ (m.failed => Staged(m) /\ F = {})
        /\ (x.c.failed => m.failed)
    BY <2>2, <2>3, CompleteStays
  <2>7. Shown(s) \subseteq Shown(x.c)  OBVIOUS
  <2>5. ASSUME m.failed PROVE y \in V
    <3>1. y.c = m /\ y.done = x.done  BY <2>1, <2>4, <2>5
    <3>2. y \in [c : Coordinator, done : SUBSET Fence]  BY <2>1, <2>4, <2>5 DEF Staged
    <3> HIDE DEF m, F
    <3>3. Shown(s) \subseteq Shown(y.c)  BY <2>4, <2>7, <3>1
    <3> QED  BY <2>4, <2>5, <3>1, <3>2, <3>3
  <2>6. ASSUME ~ m.failed PROVE y \in V
    <3>1. Good(x.c) /\ Completes(s, x.done, x.c) /\ \A R : Regional(R) => Goes(R, T, s, x.c)
      BY <2>4, <2>6
    <3>2. Good(m) /\ Completes(x.c, F, m)  BY <2>2, <2>6, <3>1, CompleteGood
    <3>8. ASSUME NEW R, Regional(R) PROVE Goes(R, T, s, m)
      <4>1. Goes(R, {t}, x.c, m)
        BY <2>2, <2>3, <2>6, <3>1, <3>8, CompleteCalm, CompleteRolls DEF Goes
      <4>2. {t} \subseteq T  BY DEF t
      <4> HIDE DEF m, T
      <4>3. Goes(R, T, x.c, m)  BY <4>1, <4>2, RollsMore DEF Goes
      <4> QED  BY <3>1, <3>8, <4>3, GoesTwice
    <3> HIDE DEF m, F
    <3>3. Completes(s, x.done \cup F, m)  BY <3>1, <3>2 DEF Completes
    <3>4. m \in Coordinator /\ Typed(m)  BY <3>2, GoodTyped
    <3>5. F \subseteq Fence
      <4>1. F \subseteq DOMAIN m.fences  BY <3>2 DEF Completes, CompletedIn
      <4> QED  BY <3>4, <4>1 DEF Typed
    <3>6. y.c = m /\ y.done = x.done \cup F /\ y \in [c : Coordinator, done : SUBSET Fence]
      BY <2>1, <3>4, <3>5
    <3>7. Shown(s) \subseteq Shown(y.c)  BY <2>4, <2>7, <3>6
    <3> QED  BY <2>6, <3>2, <3>3, <3>6, <3>7, <3>8
  <2> QED  BY <2>5, <2>6 DEF y
<1> HIDE DEF V, S, base, T
<1> DEFINE q == SetToSeq(S)
<1>5. q \in Seq(S) /\ r = FoldLeft(EndStream, base, q)  BY <1>1, <1>2
<1> HIDE DEF q
<1>6. \A x \in V, e \in S : EndStream(x, e) \in V  BY <1>4
<1>7. FoldLeft(EndStream, base, q) \in V  BY ONLY <1>3, <1>5, <1>6, EndStreamFold
<1> QED  BY <1>5, <1>7 DEF V, T

-------------------------------------------------------------------------------
(* What the director does on the stage, and why its assertions hold.  F are*)
(* the layers that the story fades out, B those it queues commands on.     *)

Planned(F, B) ==
  {x \in Orders :
     /\ x.kind = "ClearLayer" /\ x.length > 0 => x.target \in F
     /\ x.kind \in RegionKind /\ x.policy = "Queue" => LayerOf[x.target] \in B}

(* What is on stage moves, and so does all that has a tween.               *)
Acting(d) ==
  /\ \A e \in d.entities : e \in Target /\ RegionOf[e] \in Moving
  /\ \A k \in DOMAIN d.tweens : d.tweens[k].left >= 1 /\ (k[1] \in Target => k[1] \in d.entities)

Keeping(d, F, B) ==
  /\ d.stage \in Seq({x \in Planned(F, B) : x.kind \notin RegionKind})
  /\ Regional(d.region)
  /\ \A id \in DOMAIN d.region : id < d.next /\ LayerOf[d.region[id].target] \in B

(* A tween ends no later than the entry of its region, where nothing fades *)
(* out; T are the targets that are just being changed.                     *)
Covered(d, F, T) ==
  \A k \in DOMAIN d.tweens : k[1] \in Target \ T /\ LayerOf[k[1]] \notin F =>
    k[1] \in Shown(d.c) /\ d.tweens[k].left <= d.c.entry[k[1]].left

(* The same, with fewer tweens or fewer entities.                          *)
Alike(d, r) ==
  /\ r.c = d.c /\ r.region = d.region /\ r.stage = d.stage /\ r.out = d.out
  /\ r.next = d.next /\ r.error = d.error
Trims(d, r) ==
  /\ r \in Director /\ Alike(d, r)
  /\ \A k \in DOMAIN r.tweens : k \in DOMAIN d.tweens /\ r.tweens[k] = d.tweens[k]
  /\ Acting(d) => Acting(r)

LEMMA TweensAre ==
  ASSUME NEW d \in Director
  PROVE  /\ d.tweens \in [DOMAIN d.tweens -> Tween] /\ DOMAIN d.tweens \subseteq Tweened
         /\ \A k \in DOMAIN d.tweens : d.tweens[k].left \in Int
BY DirectorIs, UnionOfFunctions DEF Tweens, Tween

LEMMA DropTrims ==
  ASSUME NEW d \in Director, NEW targets
  PROVE  LET r == DropTweens(d, targets) IN
         /\ Trims(d, r) /\ TweensOf(r, targets) = {} /\ r.entities = d.entities
<1> DEFINE r == DropTweens(d, targets)
           W == Restrict(d.tweens, DOMAIN d.tweens \ TweensOf(d, targets))
<1>1. r = [d EXCEPT !.tweens = W]  BY DEF DropTweens
<1>2. DOMAIN W = DOMAIN d.tweens \ TweensOf(d, targets) /\ \A k \in DOMAIN W : W[k] = d.tweens[k]
  BY DEF Restrict
<1>3. r \in Director  BY DropStays DEF Stays
<1> HIDE DEF r, W
<1>4. Alike(d, r) /\ r.tweens = W /\ r.entities = d.entities  BY <1>1, DirectorIs DEF Alike
<1>5. Acting(d) => Acting(r)  BY <1>2, <1>4 DEF Acting
<1>6. TweensOf(r, targets) = {}  BY <1>2, <1>4 DEF TweensOf
<1>7. Trims(d, r)  BY <1>2, <1>3, <1>4, <1>5 DEF Trims
<1> QED  BY <1>4, <1>6, <1>7 DEF r

LEMMA TrimsTwice ==
  ASSUME NEW d, NEW m, Trims(d, m), NEW r, Trims(m, r)
  PROVE  Trims(d, r)
BY DEF Trims, Alike

LEMMA RemoveTrims ==
  ASSUME NEW d \in Director, NEW targets
  PROVE  Trims(d, RemoveEntities(d, targets))
<1> DEFINE E == d.entities \ targets
           m == [d EXCEPT !.entities = E]
           r == DropTweens(m, targets)
<1>1. RemoveEntities(d, targets) = r  BY DEF RemoveEntities
<1>2. E \in SUBSET StageNames  BY DirectorIs
<1> HIDE DEF E
<1>3. m \in Director /\ Alike(d, m) /\ m.tweens = d.tweens /\ m.entities = E
  BY <1>2, DirectorIs DEF Alike
<1> HIDE DEF m
<1>4. Trims(m, r) /\ TweensOf(r, targets) = {} /\ r.entities = E  BY <1>3, DropTrims
<1> HIDE DEF r
<1>5. \A k \in DOMAIN r.tweens :
        k \in DOMAIN d.tweens /\ r.tweens[k] = d.tweens[k] /\ k[1] \notin targets
  BY <1>3, <1>4 DEF Trims, TweensOf
<1>6. Acting(d) => Acting(r)  BY <1>4, <1>5 DEF Acting, E
<1>7. Trims(d, r)  BY <1>3, <1>4, <1>5, <1>6 DEF Trims, Alike
<1> QED  BY <1>1, <1>7

LEMMA SnapTrims ==
  ASSUME NEW d \in Director, NEW targets
  PROVE  Trims(d, Snap(d, targets)) /\ TweensOf(Snap(d, targets), targets) = {}
<1> DEFINE m == DropTweens(d, targets)
           gone == {k[1] : k \in {x \in TweensOf(d, targets) : d.tweens[x].remove}}
           r == RemoveEntities(m, gone)
<1>1. Snap(d, targets) = r  BY DEF Snap
<1>2. Trims(d, m) /\ TweensOf(m, targets) = {}  BY DropTrims
<1> HIDE DEF m, gone
<1>3. Trims(m, r)  BY <1>2, RemoveTrims DEF Trims
<1> HIDE DEF r
<1>4. TweensOf(r, targets) = {}  BY <1>2, <1>3 DEF Trims, TweensOf
<1> QED  BY <1>1, <1>2, <1>3, <1>4, TrimsTwice

(* What an order adds: tweens of its own length, where it belongs, or the  *)
(* film that it opens.                                                     *)
FilmOf(x) == [layer |-> x.target, id |-> x.id, fence |-> x.fence]
Opens(d, x, r) ==
  r.error = None => r.out = IF x.kind = "Movie" THEN Append(d.out, FilmOf(x)) ELSE d.out
Touches(x, t) ==
  IF x.kind = "ClearLayer" THEN LayerOf[t] = x.target ELSE x.kind # "Movie" /\ t = x.target
Adds(d, x, r) ==
  /\ r \in Director /\ r.c = d.c /\ r.region = d.region /\ r.stage = d.stage /\ r.next = d.next
  /\ Acting(d) => Acting(r)
  /\ \A k \in DOMAIN r.tweens :
       \/ k \in DOMAIN d.tweens /\ r.tweens[k] = d.tweens[k]
       \/ r.tweens[k].left = x.length /\ Touches(x, k[1])
  /\ Opens(d, x, r)

LEMMA ScheduleAdds ==
  ASSUME NEW d \in Director, NEW targets \in SUBSET StageNames, NEW property \in {"Opacity", "Position"},
         NEW length \in Nat, NEW remove \in BOOLEAN
  PROVE  LET r == Schedule(d, targets, property, length, remove) IN
         /\ r \in Director /\ Alike(d, r) /\ r.entities = d.entities
         /\ \A k \in DOMAIN r.tweens :
              \/ k \in DOMAIN d.tweens /\ r.tweens[k] = d.tweens[k]
              \/ r.tweens[k].left = length /\ k[1] \in targets
<1> DEFINE r == Schedule(d, targets, property, length, remove)
           g == [k \in targets \X {property} |-> [left |-> length, remove |-> remove]]
           W == Insert(d.tweens, g)
<1>1. r = [d EXCEPT !.tweens = W]  BY DEF Schedule
<1>2. r \in Director  BY ScheduleStays DEF Stays
<1>3. \A k \in DOMAIN g : g[k].left = length /\ k[1] \in targets  OBVIOUS
<1> HIDE DEF g
<1>4. \A k \in DOMAIN W :
        \/ k \in DOMAIN d.tweens /\ W[k] = d.tweens[k]
        \/ W[k].left = length /\ k[1] \in targets
  BY <1>3 DEF Insert
<1> HIDE DEF r, W
<1>5. Alike(d, r) /\ r.tweens = W /\ r.entities = d.entities  BY <1>1, DirectorIs DEF Alike
<1>6. \A k \in DOMAIN r.tweens :
        \/ k \in DOMAIN d.tweens /\ r.tweens[k] = d.tweens[k]
        \/ r.tweens[k].left = length /\ k[1] \in targets
  BY <1>4, <1>5
<1> QED  BY <1>2, <1>5, <1>6 DEF r

LEMMA TrimsAdd ==
  ASSUME NEW d, NEW r, Trims(d, r), NEW x, x.kind # "Movie"
  PROVE  Adds(d, x, r)
BY DEF Trims, Adds, Alike, Opens

LEMMA AddsAfter ==
  ASSUME NEW d, NEW m, Trims(d, m), NEW x, NEW r, Adds(m, x, r)
  PROVE  Adds(d, x, r)
BY DEF Trims, Adds, Alike, Opens

LEMMA FailAdds ==
  ASSUME NEW d \in Director, NEW code \in Errors \ {None}, NEW x
  PROVE  Adds(d, x, Fail(d, code)) /\ Fail(d, code).error = code
<1> DEFINE r == Fail(d, code)
<1>1. r = [d EXCEPT !.error = code]  BY DEF Fail
<1>2. r \in Director  BY FailStays DEF Stays
<1> HIDE DEF r
<1>3. /\ r.c = d.c /\ r.region = d.region /\ r.stage = d.stage /\ r.next = d.next
      /\ r.tweens = d.tweens /\ r.entities = d.entities /\ r.error = code
  BY <1>1, DirectorIs
<1>4. Acting(d) => Acting(r)  BY <1>3 DEF Acting
<1>5. Adds(d, x, r) /\ r.error = code  BY <1>2, <1>3, <1>4 DEF Adds, Opens
<1> QED  BY <1>5 DEF r

(* A command that nothing holds up does not trip over an assertion. *)
LEMMA PerformAdds ==
  ASSUME NEW d \in Director, d.error = None, NEW x \in Orders
  PROVE  LET r == Perform(d, x) IN
         Adds(d, x, r) /\ r.error \in {None, "UnknownEntity"}
<1> DEFINE r == Perform(d, x)
           Fine(e) == Adds(d, x, e) /\ e.error \in {None, "UnknownEntity"}
<1>1. /\ x.target \in StageNames /\ x.length \in Nat /\ x.id \in Nat
      /\ x.kind \in RegionKind => x.target \in Target /\ RegionOf[x.target] = RegionOfKind(x.kind)
      /\ x.kind = "Camera" => x.target \notin Target
  BY DEF Orders
<1>2. ASSUME x.kind # "Movie" PROVE Fine(d)
  <2>1. Trims(d, d)  BY DEF Trims, Alike
  <2> QED  BY <1>2, <2>1, TrimsAdd
<1>3. Fine(Fail(d, "UnknownEntity"))  BY FailAdds DEF Errors, Assertion, None
<1>4. ASSUME x.kind \in {"Show", "Background"} PROVE Fine(Appear(d, x))
  <2> DEFINE E == d.entities \cup {x.target}
             m == [d EXCEPT !.entities = E]
             T == {x.target}
             n == Schedule(m, T, "Opacity", x.length, FALSE)
  <2>1. Appear(d, x) = IF x.length = 0 THEN m ELSE n  BY DEF Appear
  <2>2. E \in SUBSET StageNames /\ x.target \in Target /\ RegionOf[x.target] \in Moving
    BY <1>1, <1>4, DirectorIs DEF Moving, RegionOfKind, RegionKind
  <2> HIDE DEF E
  <2>3. m \in Director /\ Alike(d, m) /\ m.tweens = d.tweens /\ m.entities = E
    BY <2>2, DirectorIs DEF Alike
  <2> HIDE DEF m
  <2>4. Acting(d) => Acting(m)  BY <2>2, <2>3 DEF Acting, E
  <2>5. Fine(m)  BY <1>4, <2>3, <2>4 DEF Adds, Alike, Opens
  <2>6. ASSUME x.length # 0 PROVE Fine(n)
    <3>0. T \in SUBSET StageNames  BY <1>1
    <3> HIDE DEF T
    <3>1. /\ n \in Director /\ Alike(m, n) /\ n.entities = m.entities
          /\ \A k \in DOMAIN n.tweens :
               \/ k \in DOMAIN m.tweens /\ n.tweens[k] = m.tweens[k]
               \/ n.tweens[k].left = x.length /\ k[1] \in T
      BY <1>1, <2>3, <3>0, ScheduleAdds
    <3> HIDE DEF n
    <3>2. x.length >= 1 /\ x.target \in m.entities  BY <1>1, <2>3, <2>6 DEF E
    <3>3. Acting(m) => Acting(n)  BY <3>1, <3>2 DEF Acting, T
    <3>4. Adds(d, x, n)  BY <1>4, <2>3, <2>4, <3>1, <3>3 DEF Adds, Alike, Touches, Opens, T
    <3> QED  BY <2>3, <3>1, <3>4 DEF Alike
  <2> QED  BY <2>1, <2>5, <2>6
<1>5. ASSUME NEW T \in SUBSET d.entities, \A t \in T : Touches(x, t), x.kind # "Movie"
      PROVE  Fine(Vanish(d, T, x.length))
  <2> DEFINE m == RemoveEntities(d, T)
             n == Schedule(d, T, "Opacity", x.length, TRUE)
  <2>1. Vanish(d, T, x.length) = IF x.length = 0 THEN m ELSE n  BY DEF Vanish
  <2>2. Trims(d, m)  BY RemoveTrims
  <2> HIDE DEF m
  <2>3. Fine(m)  BY <1>5, <2>2, TrimsAdd DEF Trims, Alike
  <2>4. ASSUME x.length # 0 PROVE Fine(n)
    <3>1. T \in SUBSET StageNames  BY DirectorIs
    <3>2. /\ n \in Director /\ Alike(d, n) /\ n.entities = d.entities
          /\ \A k \in DOMAIN n.tweens :
               \/ k \in DOMAIN d.tweens /\ n.tweens[k] = d.tweens[k]
               \/ n.tweens[k].left = x.length /\ k[1] \in T
      BY <1>1, <3>1, ScheduleAdds
    <3> HIDE DEF n
    <3>3. x.length >= 1  BY <1>1, <2>4
    <3>4. Acting(d) => Acting(n)  BY <3>2, <3>3 DEF Acting
    <3>5. Adds(d, x, n)  BY <1>5, <3>2, <3>4 DEF Adds, Alike, Opens
    <3> QED  BY <3>2, <3>5 DEF Alike
  <2> QED  BY <2>1, <2>3, <2>4
<1>6. ASSUME x.kind = "Camera" \/ (x.kind = "Move" /\ x.target \in d.entities)
      PROVE  Fine(Travel(d, x))
  <2> DEFINE T == {x.target}
             n == Schedule(d, T, "Position", x.length, FALSE)
  <2>1. Travel(d, x) = IF x.length = 0 THEN d ELSE n  BY DEF Travel
  <2>2. ASSUME x.length # 0 PROVE Fine(n)
    <3>0. T \in SUBSET StageNames  BY <1>1
    <3> HIDE DEF T
    <3>1. /\ n \in Director /\ Alike(d, n) /\ n.entities = d.entities
          /\ \A k \in DOMAIN n.tweens :
               \/ k \in DOMAIN d.tweens /\ n.tweens[k] = d.tweens[k]
               \/ n.tweens[k].left = x.length /\ k[1] \in T
      BY <1>1, <3>0, ScheduleAdds
    <3> HIDE DEF n
    <3>2. x.length >= 1  BY <1>1, <2>2
    <3>3. Acting(d) => Acting(n)  BY <1>1, <1>6, <3>1, <3>2 DEF Acting, T
    <3>4. Adds(d, x, n)  BY <1>6, <3>1, <3>3 DEF Adds, Alike, Touches, Opens, T
    <3> QED  BY <3>1, <3>4 DEF Alike
  <2> QED  BY <1>2, <1>6, <2>1, <2>2
<1>7. Fine(OpenMovie(d, x)) \/ x.kind # "Movie"
  <2> SUFFICES ASSUME x.kind = "Movie" PROVE Fine(OpenMovie(d, x))  OBVIOUS
  <2> DEFINE film == FilmOf(x)
             playing == Insert(d.movies, [l \in {x.target} |-> film])
             out == Append(d.out, film)
             n == OpenMovie(d, x)
  <2>1. n = [d EXCEPT !.movies = playing, !.out = out]
    BY DEF OpenMovie, FilmOf
  <2>2. Perform(d, x) = n  BY DEF Perform
  <2>3. n \in Director  BY <2>2, PerformStays DEF Stays
  <2> HIDE DEF n, playing, out
  <2>4. /\ n.c = d.c /\ n.region = d.region /\ n.stage = d.stage /\ n.next = d.next
        /\ n.error = d.error /\ n.tweens = d.tweens /\ n.entities = d.entities /\ n.out = out
    BY <2>1, DirectorIs
  <2>5. Acting(d) => Acting(n)  BY <2>4 DEF Acting
  <2>6. Adds(d, x, n)  BY <2>3, <2>4, <2>5 DEF Adds, Opens, out
  <2>7. Fine(n)  BY <2>4, <2>6
  <2> QED  BY <2>7 DEF n
<1> HIDE DEF Fine
<1>8. ASSUME x.kind \in {"Show", "Background"} PROVE Fine(r)  BY <1>4, <1>8 DEF Perform
<1>9. ASSUME x.kind = "Hide" PROVE Fine(r)
  <2>1. x.target \in d.entities => Fine(Vanish(d, {x.target}, x.length))
    BY <1>5, <1>9 DEF Touches
  <2> QED  BY <1>3, <1>9, <2>1 DEF Perform
<1>10. ASSUME x.kind \in {"Camera", "Move"} PROVE Fine(r)  BY <1>3, <1>6, <1>10 DEF Perform
<1>11. ASSUME x.kind = "ClearLayer" PROVE Fine(r)
  <2>1. Fine(Vanish(d, OnLayer(d, x.target), x.length))
    BY <1>5, <1>11 DEF Touches, OnLayer
  <2> QED  BY <1>11, <2>1 DEF Perform
<1>12. ASSUME x.kind = "Movie" PROVE Fine(r)  BY <1>7, <1>12 DEF Perform
<1>13. x.kind \in {"Show", "Background", "Hide", "Camera", "Move", "ClearLayer", "Movie"}
  BY DEF Orders, Kind, RegionKind
<1> HIDE DEF r
<1>14. Fine(r)  BY <1>8, <1>9, <1>10, <1>11, <1>12, <1>13
<1> QED  BY <1>14 DEF Fine, r

(* A command that meets tweens interrupts them, waits or is refused; the   *)
(* one that diverges met tweens on its target and was to be queued.        *)
StageKind == RegionKind \ {"Movie"}
Applied(d, x, r) ==
  /\ r \in Director /\ r.c = d.c /\ r.region = d.region /\ r.next = d.next
  /\ \/ r.stage = d.stage
     \/ x.kind \notin RegionKind /\ r.stage = Append(d.stage, x)
  /\ Acting(d) => Acting(r)
  /\ \A k \in DOMAIN r.tweens :
       \/ k \in DOMAIN d.tweens /\ r.tweens[k] = d.tweens[k]
       \/ r.tweens[k].left = x.length /\ Touches(x, k[1])
  /\ x.kind \in StageKind /\ r.error = None =>
       \A k \in DOMAIN r.tweens : k[1] = x.target => r.tweens[k].left = x.length
  /\ r.error \in Assertion =>
       /\ r.error = "Divergence" /\ x.kind \in StageKind /\ x.policy = "Queue"
       /\ TweensOf(d, {x.target}) # {}
  /\ Opens(d, x, r)

LEMMA ApplyFacts ==
  ASSUME NEW d \in Director, d.error = None, NEW x \in Orders
  PROVE  Applied(d, x, Apply(d, x))
<1> DEFINE T == Targets(d, x)
           r == Apply(d, x)
<1>1. x.kind \in StageKind => T = {x.target}  BY DEF Targets, StageKind, RegionKind
<1>2. x.kind = "Movie" => T = {}  BY DEF Targets
<1> HIDE DEF T
<1>3. ASSUME NEW m, Trims(d, m), TweensOf(m, T) = {}, NEW e, e = Perform(m, x)
      PROVE  Applied(d, x, e)
  <2>1. m \in Director /\ m.error = None  BY <1>3 DEF Trims, Alike
  <2>2. Adds(m, x, e) /\ e.error \in {None, "UnknownEntity"}  BY <1>3, <2>1, PerformAdds
  <2>3. Adds(d, x, e)  BY <1>3, <2>2, AddsAfter
  <2>4. x.kind \in StageKind =>
          \A k \in DOMAIN e.tweens : k[1] = x.target => e.tweens[k].left = x.length
    BY <1>1, <1>3, <2>2 DEF TweensOf, Adds
  <2>5. e.error \notin Assertion  BY <2>2 DEF Assertion, None
  <2> QED  BY <2>3, <2>4, <2>5 DEF Adds, Applied
<1>4. ASSUME NEW code \in Errors \ {None}, NEW e, e = Fail(d, code),
             code \in Assertion => /\ code = "Divergence" /\ x.kind \in StageKind /\ x.policy = "Queue"
                                   /\ TweensOf(d, {x.target}) # {}
      PROVE  Applied(d, x, e)
  <2>1. Adds(d, x, e) /\ e.error = code  BY <1>4, FailAdds
  <2> QED  BY <1>4, <2>1 DEF Adds, Applied
<1>5. CASE TweensOf(d, T) = {}
  <2>1. r = Perform(d, x)  BY <1>5 DEF Apply, T
  <2>2. Trims(d, d)  BY DEF Trims, Alike
  <2> HIDE DEF r
  <2>3. Applied(d, x, r)  BY <1>3, <1>5, <2>1, <2>2
  <2> QED  BY <2>3 DEF r
<1>6. CASE TweensOf(d, T) # {} /\ x.policy = "ReplaceFromCurrent"
  <2> DEFINE m == DropTweens(d, T)
  <2>1. r = Perform(m, x)  BY <1>6 DEF Apply, T
  <2>2. Trims(d, m) /\ TweensOf(m, T) = {}  BY DropTrims
  <2> HIDE DEF r, m
  <2>3. Applied(d, x, r)  BY <1>3, <2>1, <2>2
  <2> QED  BY <2>3 DEF r
<1>7. CASE TweensOf(d, T) # {} /\ x.policy = "SnapThenStart"
  <2> DEFINE m == Snap(d, T)
  <2>1. r = Perform(m, x)  BY <1>7 DEF Apply, T
  <2>2. Trims(d, m) /\ TweensOf(m, T) = {}  BY SnapTrims
  <2> HIDE DEF r, m
  <2>3. Applied(d, x, r)  BY <1>3, <2>1, <2>2
  <2> QED  BY <2>3 DEF r
<1>8. CASE TweensOf(d, T) # {} /\ x.policy = "Reject"
  <2>1. r = Fail(d, "Rejected")  BY <1>8 DEF Apply, T
  <2>2. "Rejected" \in Errors \ {None} /\ "Rejected" \notin Assertion  BY DEF Errors, Assertion, None
  <2> HIDE DEF r
  <2>3. Applied(d, x, r)  BY <1>4, <2>1, <2>2
  <2> QED  BY <2>3 DEF r
<1>9. CASE TweensOf(d, T) # {} /\ x.policy = "Queue"
  <2>1. CASE x.kind \in RegionKind
    <3>1. r = Fail(d, "Divergence")  BY <1>9, <2>1 DEF Apply, T
    <3>2. "Divergence" \in Errors \ {None}  BY DEF Errors, Assertion, None
    <3>3. x.kind \in StageKind
      <4>1. TweensOf(d, {}) = {}  BY DEF TweensOf
      <4> QED  BY <1>2, <1>9, <2>1, <4>1 DEF StageKind
    <3> HIDE DEF r
    <3>4. Applied(d, x, r)  BY <1>1, <1>4, <1>9, <3>1, <3>2, <3>3
    <3> QED  BY <3>4 DEF r
  <2>2. CASE x.kind \notin RegionKind
    <3> DEFINE q == Append(d.stage, x)
               m == [d EXCEPT !.stage = q]
    <3>1. r = m \/ r = Fail(d, "QueueLimit")  BY <1>9, <2>2 DEF Apply, T
    <3>2. "QueueLimit" \in Errors \ {None} /\ "QueueLimit" \notin Assertion
      BY DEF Errors, Assertion, None
    <3>3. q \in Seq(Orders)  BY DirectorIs
    <3> HIDE DEF r, q
    <3>4. m \in Director /\ m.c = d.c /\ m.region = d.region /\ m.next = d.next /\ m.stage = q
          /\ m.tweens = d.tweens /\ m.entities = d.entities /\ m.error = None /\ m.out = d.out
      BY <3>3, DirectorIs
    <3> HIDE DEF m
    <3>5. Applied(d, x, m)
      <4>1. Acting(d) => Acting(m)  BY <3>4 DEF Acting
      <4>2. x.kind \notin StageKind /\ m.error \notin Assertion
        BY <2>2, <3>4 DEF StageKind, Assertion, None
      <4> QED  BY <2>2, <3>4, <4>1, <4>2 DEF Applied, Opens, RegionKind, q
    <3>6. Applied(d, x, r)  BY <1>4, <3>1, <3>2, <3>5
    <3> QED  BY <3>6 DEF r
  <2> QED  BY <2>1, <2>2
<1>10. x.policy \in {"ReplaceFromCurrent", "SnapThenStart", "Reject", "Queue"}
  BY DEF Orders, Policy
<1> QED  BY <1>5, <1>6, <1>7, <1>8, <1>9, <1>10

LEMMA ApplyActs ==
  ASSUME NEW d \in Director, d.error = None, NEW F, NEW B, Acting(d), Keeping(d, F, B),
         NEW x \in Planned(F, B), NEW r, r = Apply(d, x)
  PROVE  /\ r \in Director /\ r.c = d.c /\ r.region = d.region /\ r.next = d.next
         /\ Acting(r) /\ Keeping(r, F, B)
<1>1. x \in Orders  BY DEF Planned
<1>2. Applied(d, x, r)  BY <1>1, ApplyFacts
<1> DEFINE S == {y \in Planned(F, B) : y.kind \notin RegionKind}
<1>3. r.stage \in Seq(S)
  <2>1. d.stage \in Seq(S)  BY DEF Keeping
  <2>2. x.kind \notin RegionKind => x \in S  OBVIOUS
  <2> HIDE DEF S
  <2> QED  BY <1>2, <2>1, <2>2 DEF Applied
<1>4. Keeping(r, F, B)  BY <1>2, <1>3 DEF Applied, Keeping
<1> QED  BY <1>2, <1>4 DEF Applied

LEMMA ApplyCovers ==
  ASSUME NEW d \in Director, d.error = None, NEW F, NEW B, Acting(d),
         NEW x \in Planned(F, B), NEW r, r = Apply(d, x), r.error = None,
         NEW T, Covered(d, F, T),
         IF x.kind \in StageKind
           THEN T \subseteq {x.target} /\ x.target \in Shown(d.c) /\ x.length <= d.c.entry[x.target].left
           ELSE T = {}
  PROVE  Covered(r, F, {})
<1>1. x \in Orders /\ x.length \in Nat  BY DEF Planned, Orders
<1>2. Applied(d, x, r)  BY <1>1, ApplyFacts
<1>3. r.c = d.c /\ Acting(r)  BY <1>2 DEF Applied
<1> SUFFICES ASSUME NEW k \in DOMAIN r.tweens, k[1] \in Target, LayerOf[k[1]] \notin F
             PROVE  k[1] \in Shown(d.c) /\ r.tweens[k].left <= d.c.entry[k[1]].left
  BY <1>3 DEF Covered
<1>4. CASE x.kind \in StageKind /\ k[1] = x.target  BY <1>2, <1>4 DEF Applied
<1>5. CASE ~ (x.kind \in StageKind /\ k[1] = x.target)
  <2>1. k[1] \notin T  BY <1>5
  <2>2. CASE k \in DOMAIN d.tweens /\ r.tweens[k] = d.tweens[k]  BY <2>1, <2>2 DEF Covered
  <2>3. CASE r.tweens[k].left = x.length /\ Touches(x, k[1])
    <3>1. r.tweens[k].left >= 1  BY <1>3 DEF Acting
    <3>2. x.length > 0  BY <1>1, <2>3, <3>1
    <3>3. x.kind # "ClearLayer"  BY <2>3, <3>2 DEF Touches, Planned
    <3>4. x.kind # "Movie" /\ k[1] = x.target  BY <2>3, <3>3 DEF Touches
    <3>5. x.kind \notin RegionKind  BY <1>5, <3>4 DEF StageKind
    <3>6. x.kind = "Camera"  BY <1>1, <3>3, <3>5 DEF Orders, Kind
    <3> QED  BY <1>1, <3>4, <3>6 DEF Orders
  <2> QED  BY <1>2, <2>2, <2>3 DEF Applied
<1> QED  BY <1>4, <1>5

(* The director that has not failed, and the one that did: it diverged     *)
(* because a command was queued on a layer that fades out.                 *)
Ready(d, F, B) ==
  /\ d.error = None /\ Acting(d) /\ Keeping(d, F, B)
  /\ Stocked(d.c, d.region) /\ OnlyMovies(d.c, d.region)
  /\ F \cap B = {} => Covered(d, F, {})
Excused(code, F, B) == code \in Assertion => code = "Divergence" /\ F \cap B # {}
WellStaged(d, F, B) == IF d.error = None THEN Ready(d, F, B) ELSE Excused(d.error, F, B)

LEMMA FailExcused ==
  ASSUME NEW d \in Director, NEW code \in Errors \ (Assertion \cup {None}), NEW F, NEW B
  PROVE  WellStaged(Fail(d, code), F, B)
<1>1. Fail(d, code).error = code  BY FailAdds
<1> QED  BY <1>1 DEF WellStaged, Excused

LEMMA EnvelopeIs ==
  ASSUME NEW d \in Director, NEW x \in Orders, x.kind \in RegionKind
  PROVE  LET y == Envelope(d, x) IN
         /\ y \in Envelopes /\ y.id = d.next /\ y.target = x.target /\ y.policy = x.policy
         /\ x.kind # "Movie" => y.length = x.length
<1> DEFINE y == Envelope(d, x)
<1>1. /\ x.target \in Target /\ RegionOf[x.target] = RegionOfKind(x.kind)
      /\ x.policy \in Policy /\ x.length \in Nat /\ x.fence \in Fence \cup {NoFence} /\ d.next \in Nat
  BY DirectorIs DEF Orders
<1>2. x.kind = "Movie" => RegionOf[x.target] = "Video"  BY <1>1 DEF RegionOfKind
<1>3. /\ y.id = d.next /\ y.target = x.target /\ y.policy = x.policy
      /\ y.fence = (IF x.kind = "Movie" THEN x.fence ELSE NoFence)
      /\ y.length = (IF x.kind = "Movie" THEN 0 ELSE x.length)
      /\ y = [id |-> y.id, target |-> y.target, policy |-> y.policy, fence |-> y.fence,
              length |-> y.length]
  BY DEF Envelope
<1> HIDE DEF y
<1>4. y \in Envelopes  BY <1>1, <1>2, <1>3 DEF Envelopes
<1> QED  BY <1>3, <1>4 DEF y

(* A command of the stage, and one that was named.                         *)
LEMMA StageWell ==
  ASSUME NEW d \in Director, NEW F, NEW B, Ready(d, F, B), NEW x \in Planned(F, B),
         x.kind \notin RegionKind
  PROVE  WellStaged(Apply(d, x), F, B)
<1> DEFINE r == Apply(d, x)
<1>1. x \in Orders /\ d.error = None  BY DEF Planned, Ready
<1>2. Applied(d, x, r)  BY <1>1, ApplyFacts
<1>3. /\ r \in Director /\ r.c = d.c /\ r.region = d.region /\ Acting(r) /\ Keeping(r, F, B)
  BY <1>1, ApplyActs DEF Ready
<1>4. ASSUME r.error = None, F \cap B = {} PROVE Covered(r, F, {})
  <2>1. Covered(d, F, {})  BY <1>4 DEF Ready
  <2>2. x.kind \notin StageKind  BY DEF StageKind
  <2> QED  BY <1>1, <1>4, <2>1, <2>2, ApplyCovers DEF Ready
<1> HIDE DEF r
<1>5. r.error \notin Assertion  BY <1>2 DEF Applied, StageKind
<1>6. WellStaged(r, F, B)  BY <1>3, <1>4, <1>5 DEF WellStaged, Ready, Excused
<1> QED  BY <1>6 DEF r

LEMMA NamedIs ==
  ASSUME NEW F, NEW B, NEW x \in Planned(F, B), NEW n \in Nat
  PROVE  LET y == [x EXCEPT !.id = n] IN
         /\ y \in Planned(F, B) /\ y.kind = x.kind /\ y.target = x.target /\ y.policy = x.policy
         /\ y.length = x.length
BY DEF Planned, Orders

(* The director after the coordinator has taken a command. *)
LEMMA TakenIs ==
  ASSUME NEW d \in Director, NEW s \in Coordinator
  PROVE  LET m == [d EXCEPT !.c = s, !.next = @ + 1] IN
         /\ m \in Director /\ m.c = s /\ m.next = d.next + 1 /\ m.region = d.region
         /\ m.stage = d.stage /\ m.tweens = d.tweens /\ m.entities = d.entities /\ m.error = d.error
         /\ m.out = d.out
<1> DEFINE o == [d EXCEPT !.c = s]
           n == d.next + 1
           m == [d EXCEPT !.c = s, !.next = @ + 1]
<1>1. m = [o EXCEPT !.next = n] /\ n \in Nat  BY DirectorIs
<1>2. /\ o \in Director /\ o.c = s /\ o.region = d.region /\ o.stage = d.stage
      /\ o.tweens = d.tweens /\ o.entities = d.entities /\ o.error = d.error
      /\ o.out = d.out
  BY DirectorIs
<1> HIDE DEF m, o, n
<1>3. /\ m \in Director /\ m.c = s /\ m.next = n /\ m.region = d.region /\ m.stage = d.stage
      /\ m.tweens = d.tweens /\ m.entities = d.entities /\ m.error = d.error /\ m.out = d.out
  BY <1>1, <1>2, DirectorIs
<1> QED  BY <1>3 DEF m, n

LEMMA StartWell ==
  ASSUME Batch = Sent, NEW d \in Director, NEW F, NEW B, Ready(d, F, B), NEW x \in Planned(F, B),
         x.kind \in RegionKind, ~ (Busy(d.c, x.target) /\ x.policy = "Queue"),
         NEW s \in Coordinator, s = ApplyBatch(d.c, <<Envelope(d, x)>>)
  PROVE  WellStaged(Apply([d EXCEPT !.c = s, !.next = @ + 1], [x EXCEPT !.id = d.next]), F, B)
<1> DEFINE y == Envelope(d, x)
           z == [x EXCEPT !.id = d.next]
           m == [d EXCEPT !.c = s, !.next = @ + 1]
           r == Apply(m, z)
           t == x.target
           T == IF x.kind \in StageKind THEN {t} ELSE {}
<1>1. x \in Orders /\ d.c \in Coordinator /\ d.next \in Nat /\ d.error = None
  BY DirectorIs DEF Planned, Ready
<1>2. /\ y \in Envelopes /\ y.id = d.next /\ y.target = t /\ y.policy = x.policy
      /\ x.kind # "Movie" => y.length = x.length
  BY <1>1, EnvelopeIs
<1>3. /\ z \in Planned(F, B) /\ z.kind = x.kind /\ z.target = t /\ z.policy = x.policy
      /\ z.length = x.length
  BY <1>1, NamedIs
<1>4. t \in Target /\ RegionOf[t] = RegionOfKind(x.kind) /\ x.length \in Nat  BY <1>1 DEF Orders
<1>5. /\ m \in Director /\ m.c = s /\ m.next = d.next + 1 /\ m.region = d.region
      /\ m.stage = d.stage /\ m.tweens = d.tweens /\ m.entities = d.entities /\ m.error = None
  BY <1>1, TakenIs
<1> HIDE DEF y, z, m, t
<1>6. /\ s.queued = d.c.queued /\ s.activated = d.c.activated
      /\ Shown(s) = Shown(d.c) \cup {t} /\ s.entry[t].left = y.length
      /\ \A u \in Shown(d.c) \ {t} : s.entry[u] = d.c.entry[u]
  <2>1. ~ (Busy(d.c, y.target) /\ y.policy = "Queue")  BY <1>2 DEF t
  <2>2. s = ApplyBatch(d.c, <<y>>)  BY DEF y
  <2> QED  BY <1>1, <1>2, <2>1, <2>2, SendStarts
<1>7. Acting(m)  BY <1>5 DEF Acting, Ready
<1>8. Keeping(m, F, B)
  <2>1. \A id \in DOMAIN d.region : id \in Nat /\ id < d.next  BY DEF Ready, Keeping, Regional, Kept
  <2>2. \A id \in DOMAIN d.region : id < d.next + 1  BY <1>1, <2>1
  <2> QED  BY <1>5, <2>2 DEF Keeping, Ready
<1>9. Stocked(s, m.region) /\ OnlyMovies(s, m.region)
  BY <1>5, <1>6 DEF Ready, Stocked, OnlyMovies
<1>10. ASSUME F \cap B = {} PROVE Covered(m, F, T)
  <2> SUFFICES ASSUME NEW k \in DOMAIN d.tweens, k[1] \in Target \ T, LayerOf[k[1]] \notin F
               PROVE  k[1] \in Shown(s) /\ d.tweens[k].left <= s.entry[k[1]].left
    BY <1>5 DEF Covered
  <2>1. k[1] \in Shown(d.c) /\ d.tweens[k].left <= d.c.entry[k[1]].left
    BY <1>10 DEF Ready, Covered
  <2>2. RegionOf[k[1]] \in Moving  BY DEF Ready, Acting
  <2>3. k[1] # t
    <3>1. CASE x.kind \in StageKind  BY <3>1
    <3>2. CASE x.kind = "Movie"
      BY <1>4, <2>2, <3>2 DEF RegionOfKind, Moving
    <3> QED  BY <3>1, <3>2 DEF StageKind
  <2> QED  BY <1>6, <2>1, <2>3
<1>11. Applied(m, z, r)  BY <1>3, <1>5, ApplyFacts DEF Planned
<1>12. /\ r \in Director /\ r.c = s /\ r.region = m.region /\ Acting(r) /\ Keeping(r, F, B)
  BY <1>3, <1>5, <1>7, <1>8, ApplyActs
<1>13. ASSUME r.error = None, F \cap B = {} PROVE Covered(r, F, {})
  <2>1. IF z.kind \in StageKind
          THEN T \subseteq {z.target} /\ z.target \in Shown(m.c) /\ z.length <= m.c.entry[z.target].left
          ELSE T = {}
    <3>1. x.kind \in StageKind => t \in Shown(s) /\ s.entry[t].left = x.length
      BY <1>2, <1>6 DEF StageKind
    <3> QED  BY <1>3, <1>4, <1>5, <3>1
  <2>2. Covered(m, F, T)  BY <1>10, <1>13
  <2> HIDE DEF T
  <2> QED  BY <1>3, <1>5, <1>7, <1>13, <2>1, <2>2, ApplyCovers
<1> HIDE DEF r, T
<1>14. ASSUME r.error \in Assertion PROVE r.error = "Divergence" /\ F \cap B # {}
  <2>1. /\ r.error = "Divergence" /\ x.kind \in StageKind /\ x.policy = "Queue"
        /\ TweensOf(m, {t}) # {}
    BY <1>3, <1>11, <1>14 DEF Applied
  <2> SUFFICES ASSUME F \cap B = {} PROVE FALSE  BY <2>1
  <2>2. PICK k \in DOMAIN d.tweens : k[1] = t  BY <1>5, <2>1 DEF TweensOf
  <2>3. LayerOf[t] \in B  BY <2>1 DEF Planned, t
  <2>4. t \in Shown(d.c) /\ d.tweens[k].left <= d.c.entry[t].left
    BY <1>4, <2>2, <2>3 DEF Ready, Covered
  <2>5. d.tweens[k].left >= 1 /\ d.tweens[k].left \in Int /\ RegionOf[t] \in Moving
    BY <1>4, <2>2, TweensAre DEF Ready, Acting
  <2>6. d.c.entry[t].left \in Nat
    <3>1. Typed(d.c)  BY <1>1, TypedIs
    <3> QED  BY <2>4, <3>1 DEF Typed, EntryState
  <2>7. Busy(d.c, t)  BY <2>4, <2>5, <2>6 DEF Busy, Moving
  <2> QED  BY <2>1, <2>7 DEF t
<1>15. WellStaged(r, F, B)
  BY <1>9, <1>12, <1>13, <1>14 DEF WellStaged, Ready, Excused
<1> QED  BY <1>15 DEF r, m, z

LEMMA QueueWell ==
  ASSUME Batch = Sent, NEW d \in Director, NEW F, NEW B, Ready(d, F, B), NEW x \in Planned(F, B),
         x.kind \in RegionKind, Busy(d.c, x.target), x.policy = "Queue",
         NEW s \in Coordinator, s = ApplyBatch(d.c, <<Envelope(d, x)>>),
         NEW r \in Director, r.c = s, r.next = d.next + 1, r.stage = d.stage,
         r.tweens = d.tweens, r.entities = d.entities, r.error = None,
         r.region = Insert(d.region, [id \in {d.next} |-> [x EXCEPT !.id = d.next]])
  PROVE  Ready(r, F, B)
<1> DEFINE y == Envelope(d, x)
           z == [x EXCEPT !.id = d.next]
           t == x.target
           p == RegionOf[t]
           R == r.region
<1>1. x \in Orders /\ d.c \in Coordinator /\ d.next \in Nat /\ d.error = None
  BY DirectorIs DEF Planned, Ready
<1>2. /\ y \in Envelopes /\ y.id = d.next /\ y.target = t /\ y.policy = x.policy
      /\ x.kind # "Movie" => y.length = x.length
  BY <1>1, EnvelopeIs
<1>3. /\ z \in Planned(F, B) /\ z.kind = x.kind /\ z.target = t /\ z.policy = x.policy
      /\ z.length = x.length
  BY <1>1, NamedIs
<1>4. /\ DOMAIN R = DOMAIN d.region \cup {d.next} /\ R[d.next] = z
      /\ \A id \in DOMAIN d.region : id \in Nat /\ id < d.next /\ R[id] = d.region[id]
  <2>1. \A id \in DOMAIN d.region : id \in Nat /\ id < d.next  BY DEF Ready, Keeping, Regional, Kept
  <2>2. \A id \in DOMAIN d.region : id # d.next  BY <1>1, <2>1
  <2> HIDE DEF z
  <2> QED  BY <2>1, <2>2 DEF Insert, z
<1> HIDE DEF y, z
<1>5. /\ s.entry = d.c.entry /\ s.activated = d.c.activated
      /\ p \in Region /\ d.c.queued[p] \in Seq(Commands) /\ y \in Commands
      /\ s.queued[p] = Append(d.c.queued[p], y)
      /\ \A o \in Region \ {p} : s.queued[o] = d.c.queued[o]
  <2>1. Busy(d.c, y.target) /\ y.policy = "Queue" /\ RegionOf[y.target] = p  BY <1>2
  <2>2. s = ApplyBatch(d.c, <<y>>)  BY DEF y
  <2> HIDE DEF p
  <2> DEFINE o == RegionOf[y.target]
             w == d.c
             v == ApplyBatch(w, <<y>>)
  <2>5. w \in Coordinator /\ Busy(w, y.target)  BY <1>1, <2>1
  <2> HIDE DEF w
  <2>3. /\ v.entry = w.entry /\ v.activated = w.activated
        /\ o \in Region /\ w.queued[o] \in Seq(Commands) /\ y \in Commands
        /\ v.queued[o] = Append(w.queued[o], y)
        /\ \A u \in Region \ {o} : v.queued[u] = w.queued[u]
    BY <1>2, <2>1, <2>5, SendQueues
  <2>6. v = s  BY <2>2 DEF w
  <2> HIDE DEF o, v
  <2>4. o = p  BY <2>1 DEF o
  <2> QED  BY <2>3, <2>4, <2>6 DEF w
<1> HIDE DEF p, t, R
<1>6. Regional(R)
  <2>1. R \in Kept  BY DirectorIs DEF R
  <2>2. Regional(d.region)  BY DEF Ready, Keeping
  <2> QED  BY <1>3, <1>4, <2>1, <2>2 DEF Regional
<1>7. Keeping(r, F, B)
  <2>1. \A id \in DOMAIN R : id < d.next + 1  BY <1>1, <1>4
  <2>2. LayerOf[z.target] \in B  BY <1>3 DEF Planned
  <2>3. \A id \in DOMAIN R : LayerOf[R[id].target] \in B  BY <1>4, <2>2 DEF Ready, Keeping
  <2>4. \A id \in DOMAIN R : id < r.next  BY <2>1
  <2> QED  BY <1>6, <2>3, <2>4 DEF Ready, Keeping, R
<1>8. Acting(r)  BY DEF Ready, Acting
<1>9. F \cap B = {} => Covered(r, F, {})  BY <1>5 DEF Ready, Covered, Shown
<1>10. OnlyMovies(s, R)
  <2>1. \A i \in DOMAIN d.c.activated : d.c.activated[i] \in DOMAIN d.region  BY DEF Ready, Stocked
  <2> QED  BY <1>4, <1>5, <2>1 DEF Ready, OnlyMovies
<1>11. Stocked(s, R)
  <2> DEFINE q == d.c.queued[p]
  <2>1. Stocked(d.c, d.region)  BY DEF Ready
  <2>2. ASSUME NEW o \in Region, NEW i \in DOMAIN s.queued[o]
        PROVE  \/ /\ i \in DOMAIN d.c.queued[o] /\ s.queued[o][i] = d.c.queued[o][i]
                  /\ s.queued[o][i].id \in DOMAIN d.region
               \/ o = p /\ i = Len(q) + 1 /\ i \notin DOMAIN q /\ s.queued[o][i] = y
    <3>1. ASSUME i \in DOMAIN d.c.queued[o], s.queued[o][i] = d.c.queued[o][i]
          PROVE  s.queued[o][i].id \in DOMAIN d.region
      BY <2>1, <3>1 DEF Stocked, Recalls
    <3>2. CASE o = p
      <4>1. \A n \in DOMAIN Append(q, y) :
              \/ n \in DOMAIN q /\ Append(q, y)[n] = q[n]
              \/ n = Len(q) + 1 /\ n \notin DOMAIN q /\ Append(q, y)[n] = y
        BY <1>5, Appended
      <4> QED  BY <1>5, <3>1, <3>2, <4>1
    <3>3. CASE o # p  BY <1>5, <3>1, <3>3
    <3> QED  BY <3>2, <3>3
  <2>3. ASSUME NEW w, Recalls(d.region, w) PROVE Recalls(R, w)
    BY <1>4, <2>3 DEF Recalls
  <2>4. Recalls(R, y)  BY <1>2, <1>3, <1>4 DEF Recalls
  <2>5. d.next \notin DOMAIN d.region  BY <1>1, <1>4
  <2> HIDE DEF q
  <2>6. ASSUME NEW o \in Region, NEW i \in DOMAIN s.queued[o]
        PROVE  /\ Recalls(R, s.queued[o][i])
               /\ \A j \in DOMAIN s.queued[o] : s.queued[o][i].id = s.queued[o][j].id => i = j
               /\ \A j \in DOMAIN s.activated : s.queued[o][i].id # s.activated[j]
    <3>1. Recalls(R, s.queued[o][i])  BY <2>1, <2>2, <2>3, <2>4 DEF Stocked
    <3>2. ASSUME NEW j \in DOMAIN s.queued[o], s.queued[o][i].id = s.queued[o][j].id PROVE i = j
      <4>1. CASE s.queued[o][i] = y /\ s.queued[o][j] = y /\ i = Len(q) + 1 /\ j = Len(q) + 1
        BY <4>1
      <4>2. CASE /\ i \in DOMAIN d.c.queued[o] /\ s.queued[o][i] = d.c.queued[o][i]
                 /\ j \in DOMAIN d.c.queued[o] /\ s.queued[o][j] = d.c.queued[o][j]
        BY <2>1, <3>2, <4>2 DEF Stocked
      <4> QED  BY <1>2, <2>2, <2>5, <3>2, <4>1, <4>2
    <3>3. ASSUME NEW j \in DOMAIN s.activated PROVE s.queued[o][i].id # s.activated[j]
      <4>1. j \in DOMAIN d.c.activated /\ s.activated[j] = d.c.activated[j]  BY <1>5
      <4>2. s.activated[j] \in DOMAIN d.region  BY <2>1, <4>1 DEF Stocked
      <4>3. CASE i \in DOMAIN d.c.queued[o] /\ s.queued[o][i] = d.c.queued[o][i]
        BY <2>1, <4>1, <4>3 DEF Stocked
      <4>4. CASE s.queued[o][i] = y  BY <1>2, <2>5, <4>2, <4>4
      <4> QED  BY <2>2, <4>3, <4>4
    <3> QED  BY <3>1, <3>2, <3>3
  <2>7. EachOnce(s.activated) /\ \A i \in DOMAIN s.activated : s.activated[i] \in DOMAIN R
    BY <1>4, <1>5, <2>1 DEF Stocked
  <2> QED  BY <2>6, <2>7 DEF Stocked
<1> QED  BY <1>7, <1>8, <1>9, <1>10, <1>11 DEF Ready, R

(* A command of the story.                                                 *)
LEMMA PresentWell ==
  ASSUME Batch = Sent, NEW d \in Director, Good(d.c), NEW F, NEW B, WellStaged(d, F, B),
         NEW x \in Planned(F, B)
  PROVE  WellStaged(Present(d, x), F, B)
<1> DEFINE P == Present(d, x)
           y == Envelope(d, x)
           z == [x EXCEPT !.id = d.next]
           s == ApplyBatch(d.c, <<y>>)
           m == [d EXCEPT !.c = s, !.next = @ + 1]
           R == Insert(d.region, [id \in {d.next} |-> z])
           held == [m EXCEPT !.region = R]
<1>1. x \in Orders  BY DEF Planned
<1>2. CASE d.error # None
  <2>1. P = d  BY <1>2 DEF Present
  <2> QED  BY <2>1
<1>3. CASE d.error = None /\ x.kind \notin RegionKind
  <2>1. P = Apply(d, x)  BY <1>3 DEF Present
  <2>2. Ready(d, F, B)  BY <1>3 DEF WellStaged
  <2> QED  BY <1>3, <2>1, <2>2, StageWell
<1>4. CASE d.error = None /\ x.kind \in RegionKind
  <2>1. Ready(d, F, B)  BY <1>4 DEF WellStaged
  <2>2. d.next \notin DOMAIN d.region
    <3>1. \A id \in DOMAIN d.region : id \in Nat /\ id < d.next
      BY <2>1 DEF Ready, Keeping, Regional, Kept
    <3>2. d.next \in Nat  BY DirectorIs
    <3> QED  BY <3>1, <3>2
  <2>3. \/ P = Fail(d, "UnknownEntity") \/ P = Fail(d, "Refused")
        \/ /\ TakesBatch(d.c, <<y>>)
           /\ \/ ~ (Busy(d.c, x.target) /\ x.policy = "Queue") /\ P = Apply(m, z)
              \/ /\ Busy(d.c, x.target) /\ x.policy = "Queue"
                 /\ P = [m EXCEPT !.region = Insert(@, [id \in {d.next} |-> z])]
    <3> HIDE DEF z
    <3>1. P = IF x.kind \in {"Hide", "Move"} /\ x.target \notin d.entities
                THEN Fail(d, "UnknownEntity")
              ELSE IF ~ TakesBatch(d.c, <<y>>) THEN Fail(d, "Refused")
              ELSE IF ~ (Busy(d.c, x.target) /\ x.policy = "Queue") THEN Apply(m, z)
              ELSE [m EXCEPT !.region = Insert(@, [id \in {d.next} |-> z])]
      BY <1>4, <2>2 DEF Present, z
    <3> HIDE DEF P, m, y
    <3> QED  BY <3>1
  <2>4. {"UnknownEntity", "Refused"} \subseteq Errors \ (Assertion \cup {None})
    BY DEF Errors, Assertion, None
  <2>5. CASE P = Fail(d, "UnknownEntity") \/ P = Fail(d, "Refused")
    BY <2>4, <2>5, FailExcused
  <2>6. ASSUME TakesBatch(d.c, <<y>>) PROVE s \in Coordinator
    <3>1. y \in Envelopes  BY <1>1, <1>4, EnvelopeIs
    <3> HIDE DEF y
    <3>2. Good(s)  BY <2>6, <3>1, SendGood
    <3> QED  BY <3>2, GoodTyped
  <2>7. CASE /\ TakesBatch(d.c, <<y>>)
             /\ ~ (Busy(d.c, x.target) /\ x.policy = "Queue") /\ P = Apply(m, z)
    <3>1. s \in Coordinator  BY <2>6, <2>7
    <3>2. WellStaged(Apply(m, z), F, B)  BY <1>4, <2>1, <2>7, <3>1, StartWell
    <3> QED  BY <2>7, <3>2
  <2>8. CASE /\ TakesBatch(d.c, <<y>>) /\ Busy(d.c, x.target) /\ x.policy = "Queue"
             /\ P = [m EXCEPT !.region = Insert(@, [id \in {d.next} |-> z])]
    <3>1. s \in Coordinator  BY <2>6, <2>8
    <3>2. /\ m \in Director /\ m.c = s /\ m.next = d.next + 1 /\ m.region = d.region
          /\ m.stage = d.stage /\ m.tweens = d.tweens /\ m.entities = d.entities /\ m.error = None
      BY <1>4, <3>1, TakenIs
    <3>3. P \in Director
      <4> DEFINE G == {x.fence}
      <4>1. x.kind = "Movie" => x.fence \in G \cup {NoFence}  OBVIOUS
      <4> HIDE DEF G, P
      <4>2. Present(d, x) \in Director  BY <1>1, <4>1, PresentGood
      <4> QED  BY <4>2 DEF P
    <3>4. s = ApplyBatch(d.c, <<y>>)  OBVIOUS
    <3> HIDE DEF m, s, z
    <3>5. P = [m EXCEPT !.region = R]  BY <2>8, <3>2
    <3> HIDE DEF P, R
    <3>6. /\ P.c = s /\ P.next = d.next + 1 /\ P.stage = d.stage /\ P.tweens = d.tweens
          /\ P.entities = d.entities /\ P.error = None /\ P.region = R
      BY <3>2, <3>5, DirectorIs
    <3>7. P.region = Insert(d.region, [id \in {d.next} |-> [x EXCEPT !.id = d.next]])
      BY <3>6 DEF R, z
    <3>8. Ready(P, F, B)  BY <1>4, <2>1, <2>8, <3>1, <3>3, <3>4, <3>6, <3>7, QueueWell
    <3> QED  BY <3>6, <3>8 DEF WellStaged, P
  <2> QED  BY <2>3, <2>5, <2>7, <2>8
<1> QED  BY <1>2, <1>3, <1>4

(* No entity without a tween's end: the check of the director is passed.   *)
LEMMA ValidateIs ==
  ASSUME NEW d, NEW F, NEW B, WellStaged(d, F, B)
  PROVE  Validate(d) = d
BY DEF WellStaged, Ready, Acting, Validate

(* The directors between the commands of a batch.                          *)
LEMMA BatchSteps ==
  ASSUME Batch = Sent, NEW d \in Director, Good(d.c), NEW F, NEW B, WellStaged(d, F, B),
         NEW q \in Seq(Planned(F, B))
  PROVE  \E g \in [0 .. Len(q) -> Director] :
           /\ g[0] = d /\ g[Len(q)] = PrepareBatch(d, q)
           /\ \A k \in 1 .. Len(q) : g[k] = Present(g[k - 1], q[k])
           /\ \A k \in 0 .. Len(q) : Good(g[k].c) /\ WellStaged(g[k], F, B)
<1> DEFINE S == Planned(F, B)
           V == {e \in Director : Good(e.c) /\ WellStaged(e, F, B)}
           m == FoldLeft(Present, d, q)
<1>1. d \in V  OBVIOUS
<1>2. ASSUME NEW e \in V, NEW x \in S PROVE Present(e, x) \in V
  <2> DEFINE P == Present(e, x)
  <2>1. x \in Orders /\ (x.kind = "Movie" => x.fence \in Fence \cup {NoFence})
    BY DEF Planned, Orders
  <2>2. P \in Director /\ Good(P.c)  BY <2>1, PresentGood
  <2>3. WellStaged(P, F, B)  BY PresentWell
  <2> QED  BY <2>2, <2>3
<1> HIDE DEF V
<1>3. q \in Seq(S)  OBVIOUS
<1> HIDE DEF S
<1>4. PICK g \in [0 .. Len(q) -> V] : Presents(g, d, q)  BY <1>1, <1>2, <1>3, PresentFold
<1>5. \A k \in 0 .. Len(q) : g[k] \in Director /\ Good(g[k].c) /\ WellStaged(g[k], F, B)
  BY DEF V
<1>6. PrepareBatch(d, q) = Validate(m)  BY DEF PrepareBatch
<1>7. Len(q) \in 0 .. Len(q)  BY <1>3, LenProperties
<1> HIDE DEF m
<1>8. WellStaged(m, F, B)  BY <1>4, <1>5, <1>7 DEF Presents, m
<1>9. g[Len(q)] = PrepareBatch(d, q)  BY <1>4, <1>6, <1>8, ValidateIs DEF Presents, m
<1>10. g \in [0 .. Len(q) -> Director]  BY <1>5
<1> QED  BY <1>4, <1>5, <1>9, <1>10 DEF Presents

LEMMA PrepareBatchWell ==
  ASSUME Batch = Sent, NEW d \in Director, Good(d.c), NEW F, NEW B, WellStaged(d, F, B),
         NEW q \in Seq(Planned(F, B))
  PROVE  WellStaged(PrepareBatch(d, q), F, B)
<1>1. Len(q) \in 0 .. Len(q)  BY LenProperties
<1> QED  BY <1>1, BatchSteps

(* The line of a dialogue moves nothing.                                   *)
LEMMA ConfigureTextWell ==
  ASSUME Batch = Sent, NEW d \in Director, Good(d.c), NEW F, NEW B, Ready(d, F, B),
         NEW target \in Target, RegionOf[target] = "Text", NEW length \in Nat
  PROVE  Ready(ConfigureText(d, target, length), F, B)
<1> DEFINE x == [id |-> d.next, target |-> target, fence |-> NoFence,
                 policy |-> "ReplaceFromCurrent", length |-> length]
           s == ApplyBatch(d.c, <<x>>)
           r == ConfigureText(d, target, length)
<1>1. d.next \in Nat /\ d.c \in Coordinator  BY DirectorIs
<1>2. /\ x \in Envelopes /\ x.fence = NoFence /\ x.target = target
      /\ x.policy = "ReplaceFromCurrent"
  BY <1>1 DEF Envelopes, Policy
<1>3. r = [d EXCEPT !.c = s, !.next = @ + 1]  BY <1>1, DirectorIs DEF ConfigureText
<1>4. r \in Director /\ Good(r.c)
  <2> DEFINE G == {}
  <2>1. Moves(d, G, r)  BY ConfigureTextMoves
  <2> QED  BY <2>1 DEF Moves
<1> HIDE DEF x, r
<1>5. /\ s.queued = d.c.queued /\ s.activated = d.c.activated
      /\ Shown(s) = Shown(d.c) \cup {x.target}
      /\ \A u \in Shown(d.c) \ {x.target} : s.entry[u] = d.c.entry[u]
  BY <1>1, <1>2, SendStarts
<1> HIDE DEF s
<1>6. s \in Coordinator
  <2>1. r.c = s  BY <1>3, DirectorIs
  <2> QED  BY <1>4, <2>1, GoodTyped
<1>7. /\ r.c = s /\ r.next = d.next + 1 /\ r.region = d.region
      /\ r.stage = d.stage /\ r.tweens = d.tweens /\ r.entities = d.entities /\ r.error = None
  BY <1>3, <1>6, TakenIs DEF Ready
<1>8. Acting(r)  BY <1>7 DEF Ready, Acting
<1>9. Keeping(r, F, B)
  <2>1. \A id \in DOMAIN d.region : id \in Nat /\ id < d.next  BY DEF Ready, Keeping, Regional, Kept
  <2>2. \A id \in DOMAIN d.region : id < d.next + 1  BY <1>1, <2>1
  <2> QED  BY <1>7, <2>2 DEF Keeping, Ready
<1>10. Stocked(s, r.region) /\ OnlyMovies(s, r.region)
  BY <1>5, <1>7 DEF Ready, Stocked, OnlyMovies
<1>11. ASSUME F \cap B = {} PROVE Covered(r, F, {})
  <2> SUFFICES ASSUME NEW k \in DOMAIN d.tweens, k[1] \in Target, LayerOf[k[1]] \notin F
               PROVE  k[1] \in Shown(s) /\ d.tweens[k].left <= s.entry[k[1]].left
    BY <1>7 DEF Covered
  <2>1. k[1] \in Shown(d.c) /\ d.tweens[k].left <= d.c.entry[k[1]].left
    BY <1>11 DEF Ready, Covered
  <2>2. RegionOf[k[1]] \in Moving  BY DEF Ready, Acting
  <2>3. k[1] # x.target  BY <1>2, <2>2 DEF Moving
  <2> QED  BY <1>5, <2>1, <2>3
<1>12. Ready(r, F, B)  BY <1>7, <1>8, <1>9, <1>10, <1>11 DEF Ready
<1> QED  BY <1>12 DEF r

(* What had time left has a frame less of it.                              *)
LEMMA AdvanceIs ==
  ASSUME NEW d \in Director, Acting(d)
  PROVE  LET r == AdvanceTweens(d) IN
         /\ r \in Director /\ Alike(d, r) /\ Acting(r)
         /\ \A k \in DOMAIN r.tweens : k \in DOMAIN d.tweens /\ r.tweens[k].left = d.tweens[k].left - 1
<1> DEFINE over == {k \in DOMAIN d.tweens : d.tweens[k].left = 1}
           W == [k \in DOMAIN d.tweens \ over |-> [d.tweens[k] EXCEPT !.left = @ - 1]]
           gone == {k[1] : k \in {x \in over : d.tweens[x].remove}}
           m == [d EXCEPT !.tweens = W]
           r == AdvanceTweens(d)
<1>1. r = RemoveEntities(m, gone)  BY DEF AdvanceTweens
<1>2. d.tweens \in [DOMAIN d.tweens -> Tween] /\ DOMAIN d.tweens \subseteq Tweened  BY TweensAre
<1>3. ASSUME NEW k \in DOMAIN d.tweens \ over
      PROVE  W[k] \in Tween /\ W[k].left = d.tweens[k].left - 1 /\ W[k].left >= 1
  <2>1. d.tweens[k] \in Tween /\ d.tweens[k].left >= 1 /\ d.tweens[k].left # 1
    BY <1>2 DEF Acting
  <2> QED  BY <2>1 DEF Tween
<1>4. DOMAIN W = DOMAIN d.tweens \ over  OBVIOUS
<1>5. W \in Tweens
  <2>1. W = [k \in DOMAIN d.tweens \ over |-> W[k]]  OBVIOUS
  <2> HIDE DEF W, over
  <2>2. W \in [DOMAIN W -> Tween] /\ DOMAIN W \in SUBSET Tweened  BY <1>2, <1>3, <1>4, <2>1
  <2> QED  BY <2>2 DEF Tweens
<1> HIDE DEF W, over, gone, r
<1>6. m \in Director /\ Alike(d, m) /\ m.tweens = W /\ m.entities = d.entities
  BY <1>5, DirectorIs DEF Alike
<1> HIDE DEF m
<1>7. Acting(m)  BY <1>3, <1>4, <1>6 DEF Acting
<1>8. Trims(m, r)  BY <1>1, <1>6, RemoveTrims
<1>9. /\ r \in Director /\ Alike(d, r) /\ Acting(r)
      /\ \A k \in DOMAIN r.tweens : k \in DOMAIN d.tweens /\ r.tweens[k].left = d.tweens[k].left - 1
  BY <1>3, <1>4, <1>6, <1>7, <1>8 DEF Trims, Alike
<1> QED  BY <1>9 DEF r

(* Queued commands that are activated: those left to apply have a target   *)
(* that nothing moves.                                                     *)
Lined(R, q, s) ==
  /\ EachOnce(q) /\ \A i \in DOMAIN q : q[i] \in DOMAIN R
  /\ \A i \in DOMAIN q : R[q[i]].kind # "Movie" =>
       LET x == R[q[i]] IN
         /\ x.target \in Shown(s) /\ x.length <= s.entry[x.target].left
         /\ \A j \in DOMAIN q : j < i /\ R[q[j]].target = x.target => R[q[j]].length = 0

Freed(d, R, q, k) ==
  \A j \in DOMAIN q : j > k /\ R[q[j]].kind # "Movie" => TweensOf(d, {R[q[j]].target}) = {}

Activating(d, R, q, k, F, B) ==
  IF d.error # None THEN Excused(d.error, F, B)
  ELSE /\ Acting(d) /\ Keeping(d, F, B)
       /\ DOMAIN d.region = DOMAIN R \ {q[j] : j \in 1 .. k}
       /\ \A id \in DOMAIN d.region : d.region[id] = R[id]
       /\ F \cap B = {} => Covered(d, F, {}) /\ Freed(d, R, q, k)

LEMMA ActivateStep ==
  ASSUME NEW d \in Director, NEW R, Regional(R), NEW q \in Seq(Ids), Lined(R, q, d.c),
         NEW F, NEW B, NEW k \in Nat, k < Len(q), Activating(d, R, q, k, F, B)
  PROVE  Activating(Activate(d, q[k + 1]), R, q, k + 1, F, B)
<1> DEFINE n == k + 1
           id == q[n]
           W == Restrict(d.region, DOMAIN d.region \ {id})
           m == [d EXCEPT !.region = W]
           x == R[id]
           r == Activate(d, id)
<1>1. CASE d.error # None
  <2>1. r = d  BY <1>1 DEF Activate
  <2> HIDE DEF r
  <2>2. Activating(r, R, q, n, F, B)  BY <1>1, <2>1 DEF Activating
  <2> QED  BY <2>2 DEF r
<1>2. CASE d.error = None
  <2>1. /\ Acting(d) /\ Keeping(d, F, B) /\ DOMAIN d.region = DOMAIN R \ {q[j] : j \in 1 .. k}
        /\ \A i \in DOMAIN d.region : d.region[i] = R[i]
        /\ F \cap B = {} => Covered(d, F, {}) /\ Freed(d, R, q, k)
    BY <1>2 DEF Activating
  <2>2. DOMAIN q = 1 .. Len(q) /\ Len(q) \in Nat /\ n \in DOMAIN q /\ n \in Nat /\ k < n
    BY LenProperties
  <2>3. id \in DOMAIN d.region
    <3>1. id \in DOMAIN R  BY <2>2 DEF Lined
    <3>2. ASSUME NEW j \in 1 .. k PROVE q[j] # id
      <4>1. j \in DOMAIN q /\ j # n  BY <2>2
      <4> QED  BY <2>2, <4>1 DEF Lined, EachOnce
    <3> QED  BY <2>1, <3>1, <3>2
  <2>4. r = Apply(m, x)  BY <1>2, <2>1, <2>3 DEF Activate
  <2>5. W \in Kept
    <3>1. d.region \in Kept  BY DirectorIs
    <3> QED  BY <3>1, RestrictTyped DEF Kept
  <2>6. DOMAIN W = DOMAIN d.region \ {id} /\ \A i \in DOMAIN W : W[i] = d.region[i]
    BY DEF Restrict
  <2>7. x \in Planned(F, B) /\ x.kind \in RegionKind
    <3>1. x \in Orders /\ x.kind \in RegionKind  BY <2>1, <2>3, KeptIs
    <3>2. LayerOf[x.target] \in B  BY <2>1, <2>3 DEF Keeping
    <3>3. x.kind # "ClearLayer"  BY <3>1 DEF RegionKind
    <3> HIDE DEF x
    <3> QED  BY <3>1, <3>2, <3>3 DEF Planned
  <2>8. n \in DOMAIN q /\ x = R[q[n]]  BY <2>2
  <2>9. DOMAIN W = DOMAIN R \ {q[j] : j \in 1 .. n}
    <3>1. 1 .. n = (1 .. k) \cup {n}  BY <2>2
    <3> QED  BY <2>1, <2>6, <3>1
  <2> HIDE DEF W, r
  <2>10. /\ m \in Director /\ m.c = d.c /\ m.region = W /\ m.stage = d.stage /\ m.next = d.next
         /\ m.tweens = d.tweens /\ m.entities = d.entities /\ m.error = None
    BY <1>2, <2>5, DirectorIs
  <2> HIDE DEF m, x, n, id
  <2>11. Acting(m)  BY <2>1, <2>10 DEF Acting
  <2>12. Keeping(m, F, B)
    <3>1. Regional(W)  BY <2>1, <2>5, <2>6 DEF Keeping, Regional
    <3> QED  BY <2>1, <2>6, <2>10, <3>1 DEF Keeping
  <2>13. Applied(m, x, r)  BY <2>4, <2>7, <2>10, ApplyFacts DEF Planned
  <2>14. /\ r \in Director /\ r.c = d.c /\ r.region = W /\ Acting(r) /\ Keeping(r, F, B)
    BY <2>4, <2>7, <2>10, <2>11, <2>12, ApplyActs
  <2>15. x.kind # "Movie" =>
           /\ x.target \in Shown(d.c) /\ x.length <= d.c.entry[x.target].left
           /\ \A j \in DOMAIN q : j < n /\ R[q[j]].target = x.target => R[q[j]].length = 0
    BY <2>8 DEF Lined
  <2>16. ASSUME r.error = None, F \cap B = {} PROVE Covered(r, F, {})
    <3>1. Covered(m, F, {})  BY <2>1, <2>10, <2>16 DEF Covered
    <3> DEFINE T == {}
    <3>2. IF x.kind \in StageKind
            THEN T \subseteq {x.target} /\ x.target \in Shown(m.c) /\ x.length <= m.c.entry[x.target].left
            ELSE T = {}
      BY <2>10, <2>15 DEF StageKind
    <3>3. Covered(m, F, T)  BY <3>1
    <3> HIDE DEF T
    <3> QED  BY <2>4, <2>7, <2>10, <2>11, <2>16, <3>2, <3>3, ApplyCovers
  <2>17. ASSUME F \cap B = {} PROVE Freed(r, R, q, n)
    <3> SUFFICES ASSUME NEW j \in DOMAIN q, j > n, R[q[j]].kind # "Movie",
                        NEW e \in DOMAIN r.tweens, e[1] = R[q[j]].target
                 PROVE  FALSE
      BY DEF Freed, TweensOf
    <3>1. j > k  BY <2>2
    <3>2. e \notin DOMAIN d.tweens
      BY <2>1, <2>17, <3>1 DEF Freed, TweensOf
    <3>3. r.tweens[e].left = x.length /\ Touches(x, e[1])  BY <2>10, <2>13, <3>2 DEF Applied
    <3>4. x.target = R[q[j]].target  BY <2>7, <3>3 DEF Touches, RegionKind
    <3>5. x.length = 0  BY <2>2, <2>8, <3>4 DEF Lined
    <3>6. r.tweens[e].left >= 1  BY <2>14 DEF Acting
    <3> QED  BY <3>3, <3>5, <3>6
  <2>18. ASSUME r.error \in Assertion PROVE r.error = "Divergence" /\ F \cap B # {}
    <3>1. /\ r.error = "Divergence" /\ x.kind \in StageKind /\ TweensOf(m, {x.target}) # {}
      BY <2>13, <2>18 DEF Applied
    <3>2. TweensOf(d, {x.target}) # {}  BY <2>10, <3>1 DEF TweensOf
    <3>3. x.kind # "Movie"  BY <3>1 DEF StageKind
    <3> QED  BY <2>1, <2>2, <2>8, <3>1, <3>2, <3>3 DEF Freed
  <2>19. \A i \in DOMAIN r.region : r.region[i] = R[i]  BY <2>1, <2>6, <2>14
  <2>20. Activating(r, R, q, n, F, B)
    BY <2>9, <2>14, <2>16, <2>17, <2>18, <2>19 DEF Activating, Excused
  <2> QED  BY <2>20 DEF r, n, id
<1> QED  BY <1>1, <1>2

LEMMA ActivateAllWell ==
  ASSUME NEW d \in Director, NEW R, Regional(R), NEW q \in Seq(Ids), Lined(R, q, d.c),
         NEW F, NEW B, Activating(d, R, q, 0, F, B)
  PROVE  Activating(FoldLeft(Activate, d, q), R, q, Len(q), F, B)
<1> DEFINE n == Len(q)
<1>1. n \in Nat  BY LenProperties
<1>2. PICK g \in [0 .. n -> Director] :
        /\ g[0] = d
        /\ \A k \in 1 .. n : g[k] = Activate(g[k - 1], q[k])
        /\ g[n] = FoldLeft(Activate, d, q)
  BY ActivateFold
<1> HIDE DEF n
<1> DEFINE T == {k \in Nat : k <= n => g[k].c = d.c /\ Activating(g[k], R, q, k, F, B)}
<1>3. 0 \in T  BY <1>1, <1>2
<1>4. ASSUME NEW k \in Nat, k \in T PROVE k + 1 \in T
  <2> SUFFICES ASSUME k + 1 <= n
               PROVE  g[k + 1].c = d.c /\ Activating(g[k + 1], R, q, k + 1, F, B)
    OBVIOUS
  <2>1. k + 1 \in 1 .. n /\ (k + 1) - 1 = k /\ k < n /\ k \in 0 .. n  BY <1>1
  <2>2. g[k] \in Director /\ g[k].c = d.c /\ Activating(g[k], R, q, k, F, B)
    BY <1>1, <1>2, <1>4, <2>1
  <2>3. g[k + 1] = Activate(g[k], q[k + 1])  BY <1>2, <2>1
  <2>4. g[k + 1].c = d.c  BY <2>2, <2>3, ActivateStays DEF Stays
  <2>5. Activating(Activate(g[k], q[k + 1]), R, q, k + 1, F, B)
    BY <2>1, <2>2, ActivateStep DEF n
  <2> QED  BY <2>3, <2>4, <2>5
<1>5. \A k \in Nat : k \in T
  <2> HIDE DEF T
  <2> QED  BY <1>3, <1>4, Induction
<1> QED  BY <1>1, <1>2, <1>5 DEF n

(* Commands that the director keeps for a frame are applied again. *)
LEMMA ApplyAllWell ==
  ASSUME NEW d \in Director, NEW F, NEW B, WellStaged(d, F, B), NEW q \in Seq(Orders),
         d.error = None => q \in Seq({x \in Planned(F, B) : x.kind \notin RegionKind})
  PROVE  WellStaged(FoldLeft(Apply, d, q), F, B)
<1> DEFINE r == FoldLeft(Apply, d, q)
<1>1. CASE d.error # None
  <2> DEFINE V == {d}
  <2>1. d \in V /\ \A v \in V, x \in Orders : Apply(v, x) \in V  BY <1>1 DEF Apply
  <2> HIDE DEF V
  <2>2. r \in V  BY <2>1, ApplyFold
  <2> QED  BY <2>2 DEF V
<1>2. CASE d.error = None
  <2> DEFINE V == {e \in Director : WellStaged(e, F, B)}
             S == {x \in Planned(F, B) : x.kind \notin RegionKind}
  <2>1. ASSUME NEW v \in V, NEW x \in S PROVE Apply(v, x) \in V
    <3>1. Stays(v, Apply(v, x))  BY ApplyStays DEF Planned
    <3>2. CASE v.error # None  BY <3>2 DEF Apply
    <3>3. CASE v.error = None
      <4>1. WellStaged(Apply(v, x), F, B)  BY <3>3, StageWell DEF WellStaged
      <4> QED  BY <3>1, <4>1 DEF Stays
    <3> QED  BY <3>2, <3>3
  <2>2. d \in V /\ q \in Seq(S)  BY <1>2
  <2>3. \A v \in V, x \in S : Apply(v, x) \in V  BY <2>1
  <2> HIDE DEF V, S
  <2>4. r \in V  BY <2>2, <2>3, ApplyFold
  <2> QED  BY <2>4 DEF V
<1> QED  BY <1>1, <1>2

(* The coordinator has ticked, and the director has advanced its tweens: a *)
(* tween goes on where its entry does, and what was activated has a target *)
(* that none moves.                                                        *)
LEMMA TickedActivates ==
  ASSUME NEW d \in Director, NEW F, NEW B, Ready(d, F, B),
         NEW a \in Director, Alike(d, a), Acting(a),
         \A k \in DOMAIN a.tweens : k \in DOMAIN d.tweens /\ a.tweens[k].left = d.tweens[k].left - 1,
         NEW s, Ticks(d.region, d.c, s), NEW t \in Coordinator, t.entry = s.entry,
         NEW m, m = [a EXCEPT !.c = t]
  PROVE  Lined(d.region, s.activated, t) /\ Activating(m, d.region, s.activated, 0, F, B)
<1> DEFINE R == d.region
           q == s.activated
<1>1. /\ m \in Director /\ m.c = t /\ m.region = R /\ m.stage = d.stage /\ m.next = d.next
      /\ m.error = None /\ m.tweens = a.tweens /\ m.entities = a.entities
  BY DirectorIs DEF Alike, Ready
<1>2. Acting(d) /\ Keeping(d, F, B)  BY DEF Ready
<1>3. Lined(R, q, t)  BY DEF Ticks, Stocked, Lined, Shown
<1>4. Acting(m)  BY <1>1 DEF Acting
<1>5. Keeping(m, F, B)  BY <1>1, <1>2 DEF Keeping
<1>6. \A k \in DOMAIN a.tweens :
        /\ k \in DOMAIN d.tweens /\ d.tweens[k].left >= 2 /\ d.tweens[k].left \in Int
        /\ a.tweens[k].left = d.tweens[k].left - 1
        /\ k[1] \in Target => RegionOf[k[1]] \in Moving
  <2> SUFFICES ASSUME NEW k \in DOMAIN a.tweens
               PROVE  /\ d.tweens[k].left >= 2 /\ d.tweens[k].left \in Int
                      /\ k[1] \in Target => RegionOf[k[1]] \in Moving
    OBVIOUS
  <2>1. k \in DOMAIN d.tweens /\ a.tweens[k].left >= 1 /\ a.tweens[k].left = d.tweens[k].left - 1
    BY DEF Acting
  <2>2. d.tweens[k].left \in Int  BY <2>1, TweensAre
  <2> QED  BY <1>2, <2>1, <2>2 DEF Acting
<1>7. \A u \in Shown(d.c) : d.c.entry[u].left \in Nat
  <2>1. Typed(d.c)  BY DirectorIs, TypedIs
  <2> QED  BY <2>1 DEF Typed, EntryState, Shown
<1>8. ASSUME F \cap B = {} PROVE Covered(m, F, {})
  <2> SUFFICES ASSUME NEW k \in DOMAIN a.tweens, k[1] \in Target, LayerOf[k[1]] \notin F
               PROVE  k[1] \in Shown(t) /\ a.tweens[k].left <= t.entry[k[1]].left
    BY <1>1 DEF Covered
  <2>1. k[1] \in Shown(d.c) /\ d.tweens[k].left <= d.c.entry[k[1]].left
    BY <1>6, <1>8 DEF Ready, Covered
  <2>2. d.c.entry[k[1]].left > 1  BY <1>6, <1>7, <2>1
  <2>3. k[1] \in Shown(s) /\ s.entry[k[1]].left = d.c.entry[k[1]].left - 1
    BY <1>6, <2>1, <2>2 DEF Ticks
  <2> QED  BY <1>6, <1>7, <2>1, <2>3 DEF Shown
<1>9. ASSUME F \cap B = {} PROVE Freed(m, R, q, 0)
  <2> SUFFICES ASSUME NEW j \in DOMAIN q, R[q[j]].kind # "Movie",
                      NEW k \in DOMAIN a.tweens, k[1] = R[q[j]].target
               PROVE  FALSE
    <3> HIDE DEF R, q
    <3> QED  BY <1>1 DEF Freed, TweensOf
  <2>1. q[j] \in DOMAIN R  BY <1>3 DEF Lined
  <2>2. k[1] \in Target /\ LayerOf[k[1]] \in B  BY <1>2, <2>1, KeptIs DEF Keeping
  <2>3. k[1] \in Shown(d.c) /\ d.tweens[k].left <= d.c.entry[k[1]].left
    BY <1>6, <1>9, <2>2 DEF Ready, Covered
  <2>4. d.c.entry[k[1]].left <= 1  BY <2>3 DEF Ticks
  <2> QED  BY <1>6, <1>7, <2>3, <2>4
<1>10. DOMAIN m.region = DOMAIN R \ {q[j] : j \in 1 .. 0}  BY <1>1
<1>11. Activating(m, R, q, 0, F, B)
  BY <1>1, <1>4, <1>5, <1>8, <1>9, <1>10 DEF Activating
<1> QED  BY <1>3, <1>11

(* A frame: the coordinator ticks, what it activated leaves the region, and*)
(* the commands of the stage that were kept are applied again.             *)
Restart(m) == FoldLeft(Apply, [m EXCEPT !.stage = <<>>], m.stage)

LEMMA TickedIs ==
  ASSUME Batch = Sent, NEW d \in Director, Good(d.c), NEW F, NEW B, Ready(d, F, B),
         NEW s, s = TickCoordinator(d.c)
  PROVE  /\ s.failed => TickStage(d).error = "ActivationLimit"
         /\ ~ s.failed =>
              /\ Good(s) /\ Ticks(d.region, d.c, s) /\ s.activated \in Seq(Ids)
              /\ Good(TakeActivated(s)) /\ TakeActivated(s).entry = s.entry
              /\ TakeActivated(s).queued = s.queued /\ TakeActivated(s).activated = <<>>
              /\ \E m \in Director :
                   /\ m.c = TakeActivated(s) /\ m.region = d.region /\ m.next = d.next
                   /\ m.out = d.out /\ m.error = None
                   /\ Lined(d.region, s.activated, m.c)
                   /\ Activating(m, d.region, s.activated, 0, F, B)
                   /\ TickStage(d) = Restart(FoldLeft(Activate, m, s.activated))
<1> DEFINE advanced == Validate(AdvanceTweens(d))
           ticked == [advanced EXCEPT !.c = TickCoordinator(@)]
           taken == [ticked EXCEPT !.c = TakeActivated(@)]
           activated == FoldLeft(Activate, taken, ticked.c.activated)
           R == d.region
           t == TakeActivated(s)
           r == TickStage(d)
<1>1. Keeping(d, F, B) /\ Acting(d) /\ Stocked(d.c, R) /\ OnlyMovies(d.c, R) /\ d.error = None
  BY DEF Ready
<1>2. /\ advanced \in Director /\ Alike(d, advanced) /\ Acting(advanced) /\ advanced.error = None
      /\ \A k \in DOMAIN advanced.tweens :
           k \in DOMAIN d.tweens /\ advanced.tweens[k].left = d.tweens[k].left - 1
  <2> DEFINE a == AdvanceTweens(d)
  <2>1. /\ a \in Director /\ Alike(d, a) /\ Acting(a)
        /\ \A k \in DOMAIN a.tweens : k \in DOMAIN d.tweens /\ a.tweens[k].left = d.tweens[k].left - 1
    BY <1>1, AdvanceIs
  <2> HIDE DEF a
  <2>2. Validate(a) = a  BY <2>1 DEF Validate, Acting
  <2> QED  BY <1>1, <2>1, <2>2 DEF a, Alike
<1>3. /\ advanced.error = None /\ ticked.c.failed => r = Fail(ticked, "ActivationLimit")
      /\ advanced.error = None /\ ~ ticked.c.failed => r = Restart(activated)
  BY DEF TickStage, Restart
<1> HIDE DEF advanced, activated, r
<1>4. advanced.c = d.c  BY <1>2 DEF Alike
<1>5. ticked = [advanced EXCEPT !.c = s] /\ ticked.c = s  BY <1>2, <1>4, DirectorIs
<1>6. taken = [ticked EXCEPT !.c = t]  BY <1>5
<1>7. ~ s.failed => Good(s)  BY TickGood
<1> HIDE DEF ticked, taken
<1>8. CASE s.failed
  <2>1. r = Fail(ticked, "ActivationLimit")  BY <1>2, <1>3, <1>5, <1>8
  <2>2. r = [[advanced EXCEPT !.c = s] EXCEPT !.error = "ActivationLimit"]
    BY <1>5, <2>1 DEF Fail
  <2>3. r.error = "ActivationLimit"  BY <1>2, <2>2, DirectorIs
  <2> QED  BY <1>8, <2>3 DEF r
<1>9. CASE ~ s.failed
  <2>1. r = Restart(activated)  BY <1>2, <1>3, <1>5, <1>9
  <2>2. Ticks(R, d.c, s)
    <3>1. Staged(d.c) /\ Regional(R)  BY <1>1, GoodTyped DEF Keeping
    <3> HIDE DEF R
    <3> QED  BY <1>1, <1>9, <3>1, TickTicks
  <2>3. Good(t) /\ t.entry = s.entry /\ t.queued = s.queued /\ t.activated = <<>>
    BY <1>7, <1>9, TakeGood
  <2> HIDE DEF t, R
  <2>4. t \in Coordinator  BY <2>3, GoodTyped
  <2>5. taken = [advanced EXCEPT !.c = t]  BY <1>5, <1>6
  <2>6. /\ taken \in Director /\ taken.c = t /\ taken.region = R /\ taken.next = d.next
        /\ taken.out = d.out /\ taken.error = None
    BY <1>2, <2>4, <2>5, DirectorIs DEF Alike, R
  <2>7. Lined(R, s.activated, t) /\ Activating(taken, R, s.activated, 0, F, B)
    BY <1>2, <2>2, <2>3, <2>4, <2>5, TickedActivates DEF R
  <2>8. s.activated \in Seq(Ids)
    <3>1. Typed(s)  BY <1>7, <1>9, GoodTyped
    <3> QED  BY <3>1 DEF Typed
  <2>9. activated = FoldLeft(Activate, taken, s.activated)  BY <1>5 DEF activated
  <2> QED  BY <1>7, <1>9, <2>1, <2>2, <2>3, <2>6, <2>7, <2>8, <2>9 DEF r, t, R
<1> QED  BY <1>8, <1>9

LEMMA TickStageWell ==
  ASSUME Batch = Sent, NEW d \in Director, Good(d.c), NEW F, NEW B, Ready(d, F, B)
  PROVE  WellStaged(TickStage(d), F, B)
<1> DEFINE R == d.region
           s == TickCoordinator(d.c)
           t == TakeActivated(s)
           r == TickStage(d)
           n == Len(s.activated)
<1> HIDE DEF s, r
<1>1. CASE s.failed
  <2>1. r.error = "ActivationLimit"  BY <1>1, TickedIs DEF s, r
  <2>2. WellStaged(r, F, B)  BY <2>1 DEF WellStaged, Excused, Assertion, None
  <2> QED  BY <2>2 DEF r
<1>2. CASE ~ s.failed
  <2>2. Ticks(R, d.c, s) /\ Regional(R) /\ s.activated \in Seq(Ids)
    BY <1>2, TickedIs DEF s, Ready, Keeping
  <2>3. Good(t) /\ t.entry = s.entry /\ t.queued = s.queued /\ t.activated = <<>>
    BY <1>2, TickedIs DEF s
  <2> HIDE DEF t
  <2>4. PICK m \in Director :
          /\ m.c = t /\ Lined(R, s.activated, t) /\ Activating(m, R, s.activated, 0, F, B)
          /\ r = Restart(FoldLeft(Activate, m, s.activated))
    BY <1>2, TickedIs DEF s, t, r
  <2> DEFINE activated == FoldLeft(Activate, m, s.activated)
             empty == [activated EXCEPT !.stage = <<>>]
  <2> HIDE DEF R
  <2>10. Activating(activated, R, s.activated, n, F, B)  BY <2>2, <2>4, ActivateAllWell
  <2>11. activated \in Director /\ activated.c = t
    BY <2>2, <2>4, ActivateAllStays DEF Stays
  <2>1. r = FoldLeft(Apply, empty, activated.stage)  BY <2>4 DEF Restart
  <2> HIDE DEF activated, empty
  <2> DEFINE q == activated.stage
  <2>12. q \in Seq(Orders)  BY <2>11, DirectorIs
  <2>13. /\ empty \in Director /\ empty.c = t /\ empty.region = activated.region /\ empty.stage = <<>>
         /\ empty.next = activated.next /\ empty.tweens = activated.tweens
         /\ empty.entities = activated.entities /\ empty.error = activated.error
    <3> DEFINE z == <<>>
    <3>1. z \in Seq(Orders) /\ empty = [activated EXCEPT !.stage = z]  BY DEF empty
    <3> HIDE DEF z
    <3>2. /\ empty \in Director /\ empty.c = t /\ empty.region = activated.region /\ empty.stage = z
          /\ empty.next = activated.next /\ empty.tweens = activated.tweens
          /\ empty.entities = activated.entities /\ empty.error = activated.error
      BY <2>11, <3>1, StageIs
    <3> QED  BY <3>2 DEF z
  <2>14. ASSUME activated.error = None
         PROVE  /\ Ready(empty, F, B)
                /\ q \in Seq({x \in Planned(F, B) : x.kind \notin RegionKind})
    <3>1. /\ Acting(activated) /\ Keeping(activated, F, B)
          /\ DOMAIN activated.region = DOMAIN R \ {s.activated[j] : j \in 1 .. n}
          /\ \A id \in DOMAIN activated.region : activated.region[id] = R[id]
          /\ F \cap B = {} => Covered(activated, F, {})
      BY <2>10, <2>14 DEF Activating
    <3>2. Acting(empty)  BY <2>13, <3>1 DEF Acting
    <3>3. Keeping(empty, F, B)
      <4> DEFINE S == {x \in Planned(F, B) : x.kind \notin RegionKind}
      <4>1. <<>> \in Seq(S)  OBVIOUS
      <4> QED  BY <2>13, <3>1, <4>1 DEF Keeping
    <3>4. Stocked(t, activated.region)
      <4>1. Stocked(s, R)  BY <2>2 DEF Ticks
      <4>2. DOMAIN s.activated = 1 .. n  BY <2>2 DEF n
      <4>3. DOMAIN t.activated = {}  BY <2>3
      <4>4. ASSUME NEW w, Recalls(R, w), \A j \in DOMAIN s.activated : w.id # s.activated[j]
            PROVE  Recalls(activated.region, w)
        <5>1. w.id \in DOMAIN activated.region  BY <3>1, <4>2, <4>4 DEF Recalls
        <5> QED  BY <3>1, <4>4, <5>1 DEF Recalls
      <4> QED  BY <2>3, <4>1, <4>3, <4>4 DEF Stocked, EachOnce
    <3>5. OnlyMovies(t, activated.region)  BY <2>3 DEF OnlyMovies
    <3>6. F \cap B = {} => Covered(empty, F, {})  BY <2>11, <2>13, <3>1 DEF Covered
    <3>7. Ready(empty, F, B)  BY <2>13, <2>14, <3>2, <3>3, <3>4, <3>5, <3>6 DEF Ready
    <3> QED  BY <3>1, <3>7 DEF Keeping
  <2>15. WellStaged(empty, F, B)
    <3>1. activated.error # None => Excused(activated.error, F, B)  BY <2>10 DEF Activating
    <3> QED  BY <2>13, <2>14, <3>1 DEF WellStaged
  <2> HIDE DEF q
  <2>16. WellStaged(FoldLeft(Apply, empty, q), F, B)
    BY <2>12, <2>13, <2>14, <2>15, ApplyAllWell
  <2> QED  BY <2>1, <2>16 DEF q, r
<1> QED  BY <1>1, <1>2

(* A call of the coordinator that leaves alone what moves, the films that  *)
(* are taken out, and a story that has said more.                          *)
LEMMA CalmReady ==
  ASSUME NEW d \in Director, NEW F, NEW B, Ready(d, F, B), NEW r \in Coordinator,
         \A R : Regional(R) => Calm(R, d.c, r), NEW e, e = [d EXCEPT !.c = r]
  PROVE  Ready(e, F, B)
<1>1. /\ e.c = r /\ e.next = d.next /\ e.region = d.region /\ e.stage = d.stage
      /\ e.tweens = d.tweens /\ e.entities = d.entities /\ e.error = None
  BY DirectorIs DEF Ready
<1>2. Acting(d) /\ Keeping(d, F, B)  BY DEF Ready
<1>3. Calm(d.region, d.c, r)  BY <1>2 DEF Keeping
<1>4. Acting(e) /\ Keeping(e, F, B)  BY <1>1, <1>2 DEF Acting, Keeping
<1>5. Stocked(r, d.region) /\ OnlyMovies(r, d.region)  BY <1>3 DEF Calm, Ready
<1>6. ASSUME F \cap B = {} PROVE Covered(e, F, {})
  <2> SUFFICES ASSUME NEW k \in DOMAIN d.tweens, k[1] \in Target, LayerOf[k[1]] \notin F
               PROVE  k[1] \in Shown(r) /\ d.tweens[k].left <= r.entry[k[1]].left
    BY <1>1 DEF Covered
  <2>1. k[1] \in Shown(d.c) /\ d.tweens[k].left <= d.c.entry[k[1]].left
    BY <1>6 DEF Ready, Covered
  <2>2. RegionOf[k[1]] \in Moving  BY <1>2 DEF Acting
  <2> QED  BY <1>3, <2>1, <2>2 DEF Calm
<1> QED  BY <1>1, <1>4, <1>5, <1>6 DEF Ready

LEMMA OutReady ==
  ASSUME NEW d \in Director, NEW F, NEW B, Ready(d, F, B), NEW q, NEW e, e = [d EXCEPT !.out = q]
  PROVE  Ready(e, F, B)
<1>1. /\ e.c = d.c /\ e.next = d.next /\ e.region = d.region /\ e.stage = d.stage
      /\ e.tweens = d.tweens /\ e.entities = d.entities /\ e.error = d.error
  BY DirectorIs
<1>2. Acting(e) <=> Acting(d)  BY <1>1 DEF Acting
<1> QED  BY <1>1, <1>2 DEF Ready, Keeping, Covered

LEMMA MoreReady ==
  ASSUME NEW d, NEW F, NEW B, Ready(d, F, B), NEW G, F \subseteq G, NEW C, B \subseteq C
  PROVE  Ready(d, G, C)
<1> DEFINE S == {x \in Planned(F, B) : x.kind \notin RegionKind}
           T == {x \in Planned(G, C) : x.kind \notin RegionKind}
<1>1. Keeping(d, F, B)  BY DEF Ready
<1>2. d.stage \in Seq(T)
  <2>1. S \subseteq T  BY DEF Planned
  <2>2. d.stage \in Seq(S)  BY <1>1 DEF Keeping
  <2> HIDE DEF S, T
  <2> QED  BY <2>1, <2>2
<1>3. Keeping(d, G, C)  BY <1>1, <1>2 DEF Keeping
<1>4. G \cap C = {} => Covered(d, G, {})  BY DEF Ready, Covered
<1> QED  BY <1>3, <1>4 DEF Ready

-------------------------------------------------------------------------------
(* The Player: what the story has been told, and what it still will be.    *)

(* The fences of a step, those of the first n steps, and those that the    *)
(* story has waited for, or waits for now, after them.                     *)
FencesIn(step) == {x.fence : x \in ToSet(step.commands)} \ {NoFence}
FencesUpTo(s, n) == UNION {FencesIn(s[m]) : m \in 1 .. n}
Awaits(step) == IF step.wait.kind = "Dialogue" THEN {} ELSE {step.wait.fence}
AwaitedBefore(s, n) == UNION {Awaits(s[m]) : m \in 1 .. n - 1}
After(s, n) == IF n = 0 THEN [kind |-> "Launch"] ELSE s[n].wait

(* The layers it has faded out, and those on which it has queued a command *)
(* of a region.                                                            *)
Said(s, n) == UNION {ToSet(s[m].commands) : m \in 1 .. n}
Faded(s, n) == {x.target : x \in {y \in Said(s, n) : y.kind = "ClearLayer" /\ y.length > 0}}
Behinds(s, n) ==
  {LayerOf[x.target] : x \in {y \in Said(s, n) : y.kind \in RegionKind /\ y.policy = "Queue"}}
Excusable(code, s, n) == Excused(code, Faded(s, n), Behinds(s, n))

(* Hypotheses: the coordinator's batches are those of the director, and    *)
(* each fence of a story begins in one step and is waited for in one step. *)
StoriesSend ==
  /\ Batch = Sent
  /\ \A s \in Script : \A n \in 1 .. Len(s) : \A x \in ToSet(s[n].commands) :
       x.fence \in Fence \cup {NoFence}
FencesBeginOnce ==
  \A s \in Script : \A m, n \in 1 .. Len(s) : m # n => FencesIn(s[m]) \cap FencesIn(s[n]) = {}
FencesAwaitedOnce ==
  \A s \in Script : \A m, n \in 1 .. Len(s) : m # n => Awaits(s[m]) \cap Awaits(s[n]) = {}

(* After n steps of story s director d is ready for the next frame or step.*)
(* If fences begin once, its coordinator has only groups the story began.  *)
(* The Player has heard of groups that are through, and, when games are    *)
(* saved in quiet moments, of all of them except those whose wait is over: *)
(* what was heard is kept until the wait that takes it.                    *)
Told(s, d, n, heard) ==
  /\ d \in Director /\ Good(d.c) /\ Ready(d, Faded(s, n), Behinds(s, n))
  /\ FencesBeginOnce =>
       /\ DOMAIN d.c.fences \subseteq FencesUpTo(s, n)
       /\ heard \subseteq CompletedIn(d.c)
       /\ QuietSaves => CompletedIn(d.c) \subseteq heard \cup AwaitedBefore(s, n)

LEMMA ToldAfter ==
  ASSUME NEW s, NEW d, NEW n, NEW H, Told(s, d, n, H), NEW r, Good(r), NEW F, Completes(d.c, F, r),
         \A R : Regional(R) => Calm(R, d.c, r), NEW e, e = [d EXCEPT !.c = r]
  PROVE  Told(s, e, n, H \cup F)
<1>1. r \in Coordinator  BY GoodTyped
<1>2. e \in Director /\ e.c = r  BY <1>1, CoordinatorSet DEF Told
<1>3. Ready(e, Faded(s, n), Behinds(s, n))  BY <1>1, CalmReady DEF Told
<1> QED  BY <1>2, <1>3 DEF Told, Completes

(* What the assumptions say of a step of a story.                          *)
LEMMA StoryIs ==
  ASSUME NEW s \in Script, NEW n \in 1 .. Len(s)
  PROVE  /\ Len(s) \in Nat /\ s[n].wait.kind \in {"Dialogue", "MovieEnd", "Fence"}
         /\ s[n].wait.kind = "Dialogue" => s[n].wait.length \in Nat
         /\ s[n].commands \in Seq(ToSet(s[n].commands))
BY StoriesWaitAtTheEnd, StoriesOfCommands

LEMMA OrdersOfStory ==
  ASSUME StoriesSend, NEW s \in Script, NEW n \in 1 .. Len(s)
  PROVE  /\ s[n].commands \in
              Seq({x \in Orders : x.kind = "Movie" => x.fence \in FencesIn(s[n]) \cup {NoFence}})
         /\ s[n].commands \in Seq(Planned(Faded(s, n), Behinds(s, n)))
<1> DEFINE q == s[n].commands
           S == {x \in Orders : x.kind = "Movie" => x.fence \in FencesIn(s[n]) \cup {NoFence}}
           P == Planned(Faded(s, n), Behinds(s, n))
<1>1. q \in Seq(ToSet(q))  BY StoryIs
<1>2. ASSUME NEW x \in ToSet(q) PROVE x \in S /\ x \in P
  <2>1. IsCommand(x)  BY <1>2, StoriesOfCommands
  <2>2. x.fence \in Fence \cup {NoFence}  BY DEF StoriesSend
  <2>3. x \in StoryCommands  BY DEF StoryCommands
  <2>4. x.target \in StageNames  BY <2>3 DEF StageNames
  <2>5. x \in Orders  BY <2>1, <2>2, <2>4 DEF IsCommand, Orders
  <2>6. x.fence \in FencesIn(s[n]) \cup {NoFence}  BY DEF FencesIn
  <2>7. x \in Said(s, n)
    <3>1. n \in 1 .. n  BY StoryIs
    <3> QED  BY <3>1 DEF Said
  <2>8. x \in P  BY <2>5, <2>7 DEF Planned, Faded, Behinds
  <2> QED  BY <2>5, <2>6, <2>8
<1> HIDE DEF S, P
<1>3. \A i \in 1 .. Len(q) : q[i] \in S /\ q[i] \in P
  <2>1. DOMAIN q = 1 .. Len(q)  BY <1>1
  <2> QED  BY <1>2, <2>1 DEF ToSet
<1>4. q \in Seq(S) /\ q \in Seq(P)
  <2> HIDE DEF q
  <2> QED  BY <1>1, <1>3
<1> QED  BY <1>4 DEF S, P

(* A step of the story: what it was told of is left, or waited for. *)
LEMMA BatchTold ==
  ASSUME StoriesSend, NEW s \in Script, NEW n \in Nat, n < Len(s),
         NEW now, NEW H, Told(s, now, n, H),
         NEW left \in SUBSET H, QuietSaves => H \subseteq left \cup AwaitedBefore(s, n + 1),
         NEW ready,
         ready = IF s[n + 1].wait.kind = "Dialogue"
                   THEN ConfigureText(now, Line, s[n + 1].wait.length) ELSE now,
         NEW next, next = PrepareBatch(ready, s[n + 1].commands)
  PROVE  /\ next.error = None => Told(s, [next EXCEPT !.out = <<>>], n + 1, left)
         /\ Excusable(next.error, s, n + 1)
         /\ next.out \in Seq(Films)
<1> DEFINE F == FencesIn(s[n + 1])
           G == Faded(s, n + 1)
           B == Behinds(s, n + 1)
           r == [next EXCEPT !.out = <<>>]
<1>1. n + 1 \in 1 .. Len(s)  BY StoriesWaitAtTheEnd
<1>2. Moves(now, F, ready)
  <2>1. CASE s[n + 1].wait.kind = "Dialogue"
    <3>1. s[n + 1].wait.length \in Nat /\ Line \in Target  BY <1>1, <2>1, StoryIs, LineIsText
    <3> QED  BY <2>1, <3>1, ConfigureTextMoves DEF StoriesSend, Told
  <2>2. CASE s[n + 1].wait.kind # "Dialogue"  BY <2>2 DEF Moves, Told, Renews
  <2> QED  BY <2>1, <2>2
<1>3. s[n + 1].commands \in Seq({x \in Orders : x.kind = "Movie" => x.fence \in F \cup {NoFence}})
  BY <1>1, OrdersOfStory
<1>4. Moves(ready, F, next)  BY <1>2, <1>3, PrepareBatchMoves DEF Moves, StoriesSend
<1>5. Moves(now, F, next)  BY <1>2, <1>4, RenewsTwice DEF Moves
<1>6. <<>> \in Seq(Films)  OBVIOUS
<1>7. Stays(next, r)  BY <1>5, <1>6, OutSet DEF Moves
<1>8. next.out \in Seq(Films)  BY <1>5, DirectorIs DEF Moves
<1>a. WellStaged(next, G, B)
  <2>1. Faded(s, n) \subseteq G /\ Behinds(s, n) \subseteq B
    <3>1. 1 .. n \subseteq 1 .. n + 1  OBVIOUS
    <3>2. Said(s, n) \subseteq Said(s, n + 1)  BY <3>1 DEF Said
    <3> QED  BY <3>2 DEF Faded, Behinds
  <2>2. s[n + 1].commands \in Seq(Planned(G, B))  BY <1>1, OrdersOfStory
  <2> HIDE DEF G, B
  <2>3. Ready(now, G, B)  BY <2>1, MoreReady DEF Told
  <2>4. Ready(ready, G, B)
    <3>1. CASE s[n + 1].wait.kind = "Dialogue"
      <4>1. s[n + 1].wait.length \in Nat  BY <1>1, <3>1, StoryIs
      <4> QED  BY <2>3, <3>1, <4>1, LineIsText, ConfigureTextWell DEF StoriesSend, Told
    <3> QED  BY <2>3, <3>1
  <2>5. WellStaged(ready, G, B)  BY <2>4 DEF WellStaged, Ready
  <2> QED  BY <1>2, <2>2, <2>5, PrepareBatchWell DEF Moves, StoriesSend
<1>b. Excusable(next.error, s, n + 1)
  BY <1>a DEF Excusable, WellStaged, Excused, Assertion, None
<1>c. ASSUME next.error = None PROVE Ready(r, G, B)
  <2> DEFINE q == <<>>
  <2>1. r = [next EXCEPT !.out = q]  OBVIOUS
  <2> HIDE DEF q, r, G, B
  <2>2. Ready(next, G, B) /\ next \in Director  BY <1>5, <1>a, <1>c DEF WellStaged, Moves
  <2> QED  BY <2>1, <2>2, OutReady
<1>9. FencesBeginOnce => F \cap FencesUpTo(s, n) = {}
  <2> SUFFICES ASSUME FencesBeginOnce, NEW m \in 1 .. n PROVE F \cap FencesIn(s[m]) = {}
    BY DEF FencesUpTo
  <2>1. m \in 1 .. Len(s) /\ m # n + 1  BY <1>1
  <2> QED  BY <1>1, <2>1 DEF FencesBeginOnce
<1>10. FencesUpTo(s, n + 1) = FencesUpTo(s, n) \cup F
  <2>1. 1 .. n + 1 = (1 .. n) \cup {n + 1}  OBVIOUS
  <2> QED  BY <2>1 DEF FencesUpTo
<1>11. r \in Director /\ r.c = next.c /\ Good(r.c) /\ Renews(now.c, F, r.c)
  BY <1>5, <1>7 DEF Moves, Stays
<1> HIDE DEF r, F
<1>12. FencesBeginOnce => CompletedIn(now.c) \cap F = {}
  <2>1. FencesBeginOnce => DOMAIN now.c.fences \cap F = {}  BY <1>9 DEF Told
  <2> QED  BY <2>1 DEF CompletedIn
<1>13. FencesBeginOnce => CompletedIn(r.c) = CompletedIn(now.c)  BY <1>11, <1>12 DEF Renews
<1>14. FencesBeginOnce => DOMAIN r.c.fences \subseteq FencesUpTo(s, n + 1)
  BY <1>10, <1>11 DEF Renews, Told
<1>15. AwaitedBefore(s, n) \subseteq AwaitedBefore(s, n + 1)
  <2>1. 1 .. n - 1 \subseteq 1 .. (n + 1) - 1  OBVIOUS
  <2> QED  BY <2>1 DEF AwaitedBefore
<1>16. next.error = None => Told(s, r, n + 1, left)
  BY <1>11, <1>13, <1>14, <1>15, <1>c DEF Told
<1> QED  BY <1>8, <1>16, <1>b DEF r

LEMMA TextUnfenced ==
  ASSUME Batch = Sent, NEW s, Good(s), NEW t \in Shown(s), RegionOf[t] = "Text"
  PROVE  s.entry[t].fence = NoFence
<1>1. Performs(t, s.entry[t])  BY GoodTyped DEF Staged, Performing, Shown
<1> SUFFICES ASSUME s.entry[t].fence # NoFence PROVE FALSE  OBVIOUS
<1>2. PICK x \in Commands : x.target = t /\ x.fence = s.entry[t].fence  BY <1>1 DEF Performs
<1>3. x \in Envelopes  BY SentAre
<1> QED  BY <1>2, <1>3 DEF Envelopes

LEMMA NewTold ==
  ASSUME NEW s
  PROVE  Told(s, NewDirector, 0, {})
<1> DEFINE d == NewDirector
<1>1. /\ d = [c |-> d.c, entities |-> d.entities, tweens |-> d.tweens, region |-> d.region,
              stage |-> d.stage, movies |-> d.movies, out |-> d.out, next |-> d.next,
              error |-> d.error]
      /\ d.c = NewCoordinator /\ d.entities = {} /\ d.tweens = <<>> /\ d.region = <<>>
      /\ d.stage = <<>> /\ d.movies = <<>> /\ d.out = <<>> /\ d.next = 1 /\ d.error = None
  BY DEF NewDirector
<1> HIDE DEF d
<1>2. /\ Good(d.c) /\ DOMAIN d.c.fences = {}  BY <1>1, NewGood
<1>3. /\ d.tweens \in [DOMAIN d.tweens -> Tween] /\ DOMAIN d.tweens \in SUBSET Tweened
      /\ d.region \in [DOMAIN d.region -> Orders] /\ DOMAIN d.region \in SUBSET Nat
      /\ d.movies \in [DOMAIN d.movies -> Films] /\ DOMAIN d.movies \in SUBSET VideoLayer
  BY <1>1
<1>4. d.tweens \in Tweens /\ d.region \in Kept /\ d.movies \in Playing
  BY ONLY <1>3 DEF Tweens, Kept, Playing
<1>5. d.c \in Coordinator /\ d.error \in Errors  BY <1>1, <1>2, GoodTyped DEF Errors
<1>6. d.stage \in Seq(Orders) /\ d.out \in Seq(Films) /\ d.next \in Nat /\ d.entities \in SUBSET StageNames
  BY <1>1
<1>7. d \in Director  BY <1>1, <1>4, <1>5, <1>6, DirectorIs
<1>8. CompletedIn(d.c) = {}  BY <1>2 DEF CompletedIn
<1> DEFINE F == Faded(s, 0)
           B == Behinds(s, 0)
<1> HIDE DEF F, B
<1>10. Acting(d)  BY <1>1 DEF Acting
<1>11. Keeping(d, F, B)  BY <1>1, <1>4 DEF Keeping, Regional
<1>12. Stocked(d.c, d.region) /\ OnlyMovies(d.c, d.region)
  <2>1. d.c.activated = <<>> /\ \A r \in Region : d.c.queued[r] = <<>>
    BY <1>1 DEF NewCoordinator
  <2> QED  BY <2>1 DEF Stocked, OnlyMovies, EachOnce
<1>13. Ready(d, F, B)  BY <1>1, <1>10, <1>11, <1>12 DEF Ready, Covered
<1>9. Told(s, d, 0, {})  BY <1>2, <1>7, <1>8, <1>13 DEF Told, F, B
<1> QED  BY <1>9 DEF d

(* Streams and requests are finite sets of films.                          *)
FilmSet(S) == S \subseteq Films /\ IsFiniteSet(S)

(* A saved game has been told what the story was told when it was saved.   *)
SavedGame(s, n, game) ==
  /\ game.sent \in 1 .. n /\ game.wait = After(s, game.sent)
  /\ FilmSet(game.streams)
  /\ Told(s, game.director, game.sent, game.signals)

(* The invariant of the Player.  It says nothing of the scope, the turn and*)
(* the number of loads, and of a session that failed only where the story  *)
(* stands and whether the director blames itself: it may have stopped      *)
(* halfway.                                                                *)
PlayerInv ==
  /\ script \in Script /\ sent \in 0 .. Len(script) /\ wait = After(script, sent)
  /\ sent = 0 => ~ failed /\ turn = "idle"
  /\ FilmSet(streams) /\ FilmSet(requests)
  /\ ~ failed => Told(script, director, sent, completions \cup signals)
  /\ failed => Excusable(director.error, script, sent)
  /\ saved # <<>> => SavedGame(script, sent, saved[1])

LEMMA Unions ==
  ASSUME NEW A, FilmSet(A), NEW B, FilmSet(B), NEW C, C \subseteq A \cup B
  PROVE  FilmSet(C)
<1>1. IsFiniteSet(A \cup B)  BY FS_Union DEF FilmSet
<1>2. IsFiniteSet(C)  BY <1>1, FS_Subset
<1> QED  BY <1>2 DEF FilmSet

LEMMA SequenceSet ==
  ASSUME NEW q \in Seq(Films)
  PROVE  FilmSet(ToSet(q))
<1>1. Len(q) \in Nat /\ DOMAIN q = 1 .. Len(q) /\ \A i \in 1 .. Len(q) : q[i] \in Films
  OBVIOUS
<1>2. IsFiniteSet(1 .. Len(q))  BY <1>1, FS_Interval
<1>3. IsFiniteSet({q[i] : i \in 1 .. Len(q)})  BY <1>2, FiniteImage
<1> QED  BY <1>1, <1>3 DEF FilmSet, ToSet

LEMMA PlayerStart ==
  ASSUME StoriesSend
  PROVE  PlayerInit => PlayerInv
<1> SUFFICES ASSUME PlayerInit PROVE PlayerInv  OBVIOUS
<1>1. /\ script \in Script /\ director = NewDirector /\ sent = 0 /\ wait = [kind |-> "Launch"]
      /\ requests = {} /\ streams = {} /\ completions = {} /\ signals = {}
      /\ failed = FALSE /\ turn = "idle" /\ saved = <<>>
  BY DEF PlayerInit
<1>2. FilmSet({})  BY FS_EmptySet DEF FilmSet
<1>3. sent \in 0 .. Len(script) /\ wait = After(script, sent)
  BY <1>1, StoriesWaitAtTheEnd DEF After
<1>4. completions \cup signals = {}  BY <1>1
<1>5. Told(script, director, sent, completions \cup signals)  BY <1>1, <1>4, NewTold
<1> QED  BY <1>1, <1>2, <1>3, <1>5 DEF PlayerInv

(* What is kept while the story stands still. *)
LEMMA StandsStill ==
  ASSUME PlayerInv, UNCHANGED <<script, sent, wait>>, saved' = saved,
         FilmSet(streams'), FilmSet(requests'), sent # 0,
         ~ failed' => Told(script, director', sent, (completions \cup signals)'),
         failed' => Excusable(director'.error, script, sent)
  PROVE  PlayerInv'
<1>1. script' = script /\ sent' = sent /\ wait' = wait /\ saved' = saved  OBVIOUS
<1> QED  BY <1>1 DEF PlayerInv

(* The session ends, and it is not an assertion that ends it.              *)
LEMMA EndIs ==
  ASSUME director \in Director, NEW code, End(code), NEW s, NEW n,
         code \in {"Video", "FenceFailed", "ActivationLimit"} \/ Excusable(code, s, n)
  PROVE  failed' = TRUE /\ requests' = requests /\ Excusable(director'.error, s, n)
<1>1. Excusable(code, s, n)  BY DEF Excusable, Excused, Assertion
<1>2. failed' = TRUE /\ requests' = requests /\ director'.error = code
  BY DirectorIs DEF End
<1> QED  BY <1>1, <1>2

(* The story goes on, from the director `now'.                             *)
LEMMA StoryGoesOn ==
  ASSUME StoriesSend, PlayerInv, NEW now, NEW kept, FilmSet(kept),
         StepStory(now, kept), NEW H, Told(script, now, sent, H),
         (completions \cup signals)' \subseteq H,
         QuietSaves => H \subseteq (completions \cup signals)' \cup AwaitedBefore(script, sent + 1),
         FilmSet(streams'), saved' = saved, ~ failed
  PROVE  PlayerInv' /\ sent' = sent + 1
<1> DEFINE n == sent + 1
           ready == IF script[n].wait.kind = "Dialogue"
                      THEN ConfigureText(now, Line, script[n].wait.length) ELSE now
           next == PrepareBatch(ready, script[n].commands)
           left == (completions \cup signals)'
           r == [next EXCEPT !.out = <<>>]
<1>1. sent < Len(script) /\ sent' = n /\ wait' = script[n].wait /\ script' = script
  BY DEF StepStory
<1>2. \/ End("FenceFailed") \/ End(next.error)
      \/ /\ next.error = None /\ failed' = failed
         /\ director' = r /\ requests' = kept \cup ToSet(next.out)
  BY <1>1 DEF StepStory, Commit
<1>3. script \in Script /\ sent \in Nat /\ Len(script) \in Nat /\ n \in 1 .. Len(script)
  BY <1>1, StoriesWaitAtTheEnd DEF PlayerInv
<1>4. /\ next.error = None => Told(script, r, n, left)
      /\ Excusable(next.error, script, n) /\ next.out \in Seq(Films)
  <2> HIDE DEF left
  <2>1. left \in SUBSET H /\ (QuietSaves => H \subseteq left \cup AwaitedBefore(script, sent + 1))
    BY DEF left
  <2> QED  BY <1>1, <1>3, <2>1, BatchTold
<1> HIDE DEF next, r
<1>5. FilmSet(kept \cup ToSet(next.out))  BY <1>4, SequenceSet, Unions
<1>6. /\ FilmSet(requests') /\ (~ failed' => Told(script, director', n, left))
      /\ failed' => Excusable(director'.error, script, n)
  <2>1. director \in Director  BY DEF PlayerInv, Told
  <2> HIDE DEF n, left, next, r
  <2>2. CASE End("FenceFailed") \/ End(next.error)
    <3>1. failed' = TRUE /\ requests' = requests /\ Excusable(director'.error, script, n)
      BY <1>4, <2>1, <2>2, EndIs
    <3> QED  BY <3>1 DEF PlayerInv
  <2>3. CASE /\ next.error = None /\ failed' = failed
             /\ director' = r /\ requests' = kept \cup ToSet(next.out)
    BY <1>4, <1>5, <2>3
  <2> QED  BY <1>2, <2>2, <2>3
<1>7. saved' # <<>> => SavedGame(script, n, saved'[1])
  <2> SUFFICES ASSUME saved # <<>> PROVE SavedGame(script, n, saved[1])  OBVIOUS
  <2>1. SavedGame(script, sent, saved[1])  BY DEF PlayerInv
  <2>2. saved[1].sent \in 1 .. n  BY <1>3, <2>1 DEF SavedGame
  <2> QED  BY <2>1, <2>2 DEF SavedGame
<1>8. n \in 0 .. Len(script) /\ n # 0 /\ wait' = After(script, n)
  BY <1>1, <1>3 DEF After
<1> HIDE DEF n, left
<1>9. PlayerInv'
  <2>1. IF failed' THEN Excusable(director'.error, script', sent')
        ELSE Told(script', director', sent', (completions \cup signals)')
    BY <1>1, <1>6 DEF left
  <2>2. saved' # <<>> => SavedGame(script', sent', saved'[1])  BY <1>1, <1>7
  <2>3. script' \in Script /\ sent' \in 0 .. Len(script') /\ wait' = After(script', sent') /\ sent' # 0
    BY <1>1, <1>3, <1>8
  <2> QED  BY <1>6, <2>1, <2>2, <2>3 DEF PlayerInv
<1> QED  BY <1>1, <1>9 DEF n

(* A wait ends when its group has completed. *)
Releases ==
  FencesBeginOnce /\ Waiting /\ sent' = sent + 1 => StatusOf(director.c, wait.fence) = "Completed"

LEMMA InvIs ==
  ASSUME PlayerInv
  PROVE  /\ script \in Script /\ sent \in Nat /\ Len(script) \in Nat /\ sent <= Len(script)
         /\ wait = After(script, sent)
         /\ FilmSet(streams) /\ FilmSet(requests)
         /\ wait.kind = "Launch" <=> sent = 0
         /\ Waiting => sent > 0 /\ wait.fence \in Awaits(script[sent])
<1>1. /\ script \in Script /\ sent \in 0 .. Len(script) /\ wait = After(script, sent)
      /\ FilmSet(streams) /\ FilmSet(requests)
  BY DEF PlayerInv
<1>2. Len(script) \in Nat  BY <1>1, StoriesWaitAtTheEnd
<1>3. ASSUME sent # 0
      PROVE  wait = script[sent].wait /\ wait.kind \in {"Dialogue", "MovieEnd", "Fence"}
  <2>1. sent \in 1 .. Len(script)  BY <1>1, <1>2, <1>3
  <2> QED  BY <1>1, <1>3, <2>1, StoryIs DEF After
<1>4. ASSUME sent = 0 PROVE wait.kind = "Launch"  BY <1>1, <1>4 DEF After
<1>5. wait.kind = "Launch" <=> sent = 0  BY <1>3, <1>4
<1>6. Waiting => sent > 0 /\ wait.fence \in Awaits(script[sent])
  BY <1>1, <1>2, <1>3, <1>4 DEF Waiting, Awaits
<1> QED  BY <1>1, <1>2, <1>5, <1>6

(* A step between waits or after a click.                                  *)
LEMMA NotWaiting ==
  ASSUME ~ Waiting \/ sent' # sent + 1 PROVE Releases
BY DEF Releases

LEMMA LaunchStep ==
  ASSUME StoriesSend, PlayerInv, Launch
  PROVE  PlayerInv' /\ Releases
<1> DEFINE H == completions \cup signals
<1>1. /\ wait.kind = "Launch" /\ StepStory(director, {})
      /\ completions' = completions /\ streams' = streams /\ signals' = signals /\ saved' = saved
  BY DEF Launch, slot
<1>2. sent = 0 /\ ~ failed /\ ~ Waiting  BY <1>1, InvIs DEF PlayerInv, Waiting
<1>3. FilmSet({}) /\ FilmSet(streams')  BY <1>1, FS_EmptySet DEF FilmSet, PlayerInv
<1>4. Told(script, director, sent, H) /\ (completions \cup signals)' = H
  BY <1>1, <1>2 DEF PlayerInv
<1> HIDE DEF H
<1>5. PlayerInv'  BY <1>1, <1>2, <1>3, <1>4, StoryGoesOn
<1> QED  BY <1>2, <1>5, NotWaiting

LEMMA FrameStep ==
  ASSUME StoriesSend, PlayerInv, Frame
  PROVE  PlayerInv' /\ Releases
<1> DEFINE H == completions \cup signals
           next == TickStage(director)
           r == [next EXCEPT !.out = <<>>]
<1>1. /\ ~ failed /\ wait.kind # "Launch"
      /\ UNCHANGED <<script, sent, wait>> /\ streams' = streams /\ signals' = signals /\ saved' = saved
  BY DEF Frame, story, slot
<1>2. \/ /\ director' = director /\ requests' = requests /\ completions' = completions
         /\ failed' = failed
      \/ next.error # None /\ End(next.error)
      \/ /\ next.error = None /\ failed' = failed
         /\ director' = r /\ requests' = requests \cup ToSet(next.out)
         /\ completions' = completions \cup StageCompletes(director)
  BY DEF Frame, Commit
<1>3. sent # 0 /\ FilmSet(streams) /\ FilmSet(requests)  BY <1>1, InvIs
<1>4. Told(script, director, sent, H)  BY <1>1 DEF PlayerInv
<1>a. WellStaged(next, Faded(script, sent), Behinds(script, sent))
  BY <1>4, TickStageWell DEF Told, StoriesSend
<1>b. ASSUME next.error # None PROVE Excusable(next.error, script, sent)
  BY <1>a, <1>b DEF WellStaged, Excusable
<1>c. ASSUME next.error # None, End(next.error)
      PROVE  failed' = TRUE /\ requests' = requests /\ Excusable(director'.error, script, sent)
  <2>1. director \in Director  BY <1>4 DEF Told
  <2> HIDE DEF next
  <2> QED  BY <1>b, <1>c, <2>1, EndIs
<1>5. ASSUME next.error = None
      PROVE  /\ Told(script, r, sent, H \cup StageCompletes(director))
             /\ FilmSet(requests \cup ToSet(next.out))
  <2>1. director \in Director /\ Good(director.c) /\ Batch = Sent  BY <1>4 DEF Told, StoriesSend
  <2>2. next \in Director /\ Good(next.c) /\ Completes(director.c, StageCompletes(director), next.c)
    BY <1>5, <2>1, TickStageGood
  <2> HIDE DEF next
  <2>3. next.out \in Seq(Films) /\ <<>> \in Seq(Films)  BY <2>2, DirectorIs
  <2>4. r \in Director /\ r.c = next.c  BY <2>2, <2>3, OutSet DEF Stays
  <2>6. Ready(r, Faded(script, sent), Behinds(script, sent))
    <3> DEFINE q == <<>>
    <3>1. r = [next EXCEPT !.out = q]  BY DEF r
    <3> HIDE DEF q, r
    <3>2. Ready(next, Faded(script, sent), Behinds(script, sent))
      BY <1>a, <1>5 DEF WellStaged, next
    <3> QED  BY <2>2, <3>1, <3>2, OutReady
  <2> HIDE DEF r, H
  <2>5. Told(script, r, sent, H \cup StageCompletes(director))
    BY <1>4, <2>2, <2>4, <2>6 DEF Told, Completes
  <2> QED  BY <1>3, <2>3, <2>5, SequenceSet, Unions
<1> HIDE DEF next, r
<1>6. FilmSet(streams') /\ FilmSet(requests')  BY <1>1, <1>2, <1>3, <1>5, <1>c
<1>7. /\ ~ failed' => Told(script, director', sent, (completions \cup signals)')
      /\ failed' => Excusable(director'.error, script, sent)
  <2>1. CASE director' = director /\ completions' = completions /\ failed' = failed
    BY <1>1, <1>4, <2>1
  <2>2. CASE /\ next.error = None /\ failed' = failed /\ director' = r
             /\ completions' = completions \cup StageCompletes(director)
    <3>1. (completions \cup signals)' = H \cup StageCompletes(director)  BY <1>1, <2>2
    <3> HIDE DEF H
    <3> QED  BY <1>1, <1>5, <2>2, <3>1
  <2>3. CASE next.error # None /\ End(next.error)  BY <1>c, <2>3
  <2> QED  BY <1>2, <2>1, <2>2, <2>3
<1>8. PlayerInv'  BY <1>1, <1>3, <1>6, <1>7, StandsStill
<1>9. sent' # sent + 1  BY <1>1, InvIs
<1> QED  BY <1>8, <1>9, NotWaiting

(* The streams of a turn of the loop, shown and ended. *)
LEMMA StreamsGood ==
  ASSUME Good(director.c), NEW P, FilmSet(P), CanShow(P), NEW ends \in SUBSET P,
         NEW over, over = EndStreams(ShowFrames(P), ends), ~ over.c.failed
  PROVE  /\ Good(over.c) /\ Completes(director.c, over.done, over.c)
         /\ \A R : Regional(R) => Goes(R, {e.layer : e \in ends}, director.c, over.c)
<1> DEFINE s == director.c
           T == {e.layer : e \in ends}
           S == {e.layer : e \in P}
           m == StartVideos(s, S)
<1>1. ShowFrames(P) = m  BY DEF ShowFrames, StartVideos
<1>2. S \in SUBSET Shown(s)  BY DEF CanShow
<1>3. \A t \in S : RegionOf[t] = "Video" /\ s.entry[t].phase \in {"Prebuffering", "Playing"}
  <2>1. \A e \in P : RegionOf[e.layer] = "Video"  BY DEF FilmSet, Films, VideoLayer
  <2> QED  BY <2>1 DEF CanShow
<1>4. \A e \in P : e.layer \in S  OBVIOUS
<1> HIDE DEF S
<1>5. Good(m) /\ Completes(s, {}, m) /\ Shown(m) = Shown(s) /\ Rests(s, m)
  BY <1>2, <1>3, StartVideosGood
<1> HIDE DEF m, s
<1>6. ends \in SUBSET Films /\ IsFiniteSet(ends) /\ \A e \in ends : e.layer \in Shown(m)
  BY <1>2, <1>4, <1>5, FS_Subset DEF FilmSet
<1>7. Good(over.c) /\ Completes(m, over.done, over.c) /\ \A R : Regional(R) => Goes(R, T, m, over.c)
  BY <1>1, <1>5, <1>6, EndStreamsGood
<1> HIDE DEF T
<1>8. Completes(s, over.done, over.c)  BY <1>5, <1>7 DEF Completes
<1>9. ASSUME NEW R, Regional(R) PROVE Goes(R, T, s, over.c)
  <2>1. Calm(R, s, m) /\ (Stocked(s, R) => Rolls(R, {}, s, m))
    BY <1>5, <1>9, RestsCalm, RestsRolls
  <2>2. Goes(R, T, s, m)  BY <2>1, RollsMore DEF Goes
  <2> QED  BY <1>7, <1>9, <2>2, GoesTwice
<1> QED  BY <1>7, <1>8, <1>9 DEF s, T

LEMMA ProcessStep ==
  ASSUME StoriesSend, PlayerInv, NEW ends \in SUBSET streams, Process(ends)
  PROVE  PlayerInv' /\ Releases
<1> DEFINE playing == {s \in streams : IsLive(s)}
           opened == {r \in requests : IsLive(r)}
           P == playing \cup opened
           heard == signals \cup completions
           over == EndStreams(ShowFrames(P), ends)
           e == [director EXCEPT !.c = over.c]
           H == heard \cup over.done
<1>1. /\ ~ failed /\ sent # 0 /\ ends \subseteq playing /\ streams' = P \ ends /\ saved' = saved
      /\ \/ End("Video") /\ UNCHANGED <<script, sent, wait>>
         \/ /\ CanShow(P) /\ ~ over.c.failed /\ completions' = over.done
            /\ \/ /\ Waiting /\ wait.fence \in heard /\ signals' = heard \ {wait.fence}
                  /\ StepStory(e, {})
               \/ /\ signals' = heard /\ director' = e /\ requests' = {} /\ failed' = failed
                  /\ UNCHANGED <<script, sent, wait>>
  <2>1. turn = "process"  BY DEF Process
  <2>2. sent # 0  BY <2>1 DEF PlayerInv
  <2> QED  BY <2>2 DEF Process, story, slot
<1>2. FilmSet(streams) /\ FilmSet(requests)  BY InvIs
<1>3. FilmSet(P) /\ FilmSet(P \ ends) /\ FilmSet({}) /\ ends \in SUBSET P
  <2>1. P \subseteq streams \cup requests /\ P \ ends \subseteq streams \cup requests  OBVIOUS
  <2>2. ends \in SUBSET P  BY <1>1
  <2> QED  BY <1>2, <2>1, <2>2, Unions, FS_EmptySet DEF FilmSet
<1>4. Told(script, director, sent, heard)
  <2>1. heard = completions \cup signals  OBVIOUS
  <2> QED  BY <1>1, <2>1 DEF PlayerInv
<1>5. ASSUME CanShow(P), ~ over.c.failed PROVE Told(script, e, sent, H)
  <2>1. Good(director.c)  BY <1>4 DEF Told
  <2>2. /\ Good(over.c) /\ Completes(director.c, over.done, over.c)
        /\ \A R : Regional(R) => Calm(R, director.c, over.c)
    <3>1. \A R : Regional(R) => Goes(R, {x.layer : x \in ends}, director.c, over.c)
      BY <1>3, <1>5, <2>1, StreamsGood
    <3> HIDE DEF P
    <3> QED  BY <1>3, <1>5, <2>1, <3>1, StreamsGood DEF Goes
  <2> HIDE DEF over, heard
  <2> QED  BY <1>4, <2>2, ToldAfter
<1>6. FilmSet(streams')  BY <1>1, <1>3
<1> HIDE DEF P, over, e, playing, opened
<1>7. CASE End("Video") /\ UNCHANGED <<script, sent, wait>>
  <2>3. failed' = TRUE /\ requests' = requests /\ Excusable(director'.error, script, sent)
    BY <1>4, <1>7, EndIs DEF Told
  <2>1. PlayerInv'  BY <1>1, <1>2, <1>6, <1>7, <2>3, StandsStill
  <2>2. sent' # sent + 1  BY <1>7, InvIs
  <2> QED  BY <2>1, <2>2, NotWaiting
<1>8. CASE /\ CanShow(P) /\ ~ over.c.failed /\ completions' = over.done
           /\ Waiting /\ wait.fence \in heard /\ signals' = heard \ {wait.fence}
           /\ StepStory(e, {})
  <2>1. (completions \cup signals)' = over.done \cup (heard \ {wait.fence})  BY <1>8
  <2>2. (completions \cup signals)' \subseteq H  BY <2>1
  <2>3. QuietSaves => H \subseteq (completions \cup signals)' \cup AwaitedBefore(script, sent + 1)
    <3>1. sent > 0 /\ sent \in Nat /\ wait.fence \in Awaits(script[sent])  BY <1>8, InvIs
    <3>2. wait.fence \in AwaitedBefore(script, sent + 1)
      <4>1. sent \in 1 .. (sent + 1) - 1  BY <3>1
      <4> QED  BY <3>1, <4>1 DEF AwaitedBefore
    <3> QED  BY <2>1, <3>2
  <2>4. Told(script, e, sent, H)  BY <1>5, <1>8
  <2> HIDE DEF H
  <2>5. PlayerInv'  BY <1>1, <1>3, <1>6, <1>8, <2>2, <2>3, <2>4, StoryGoesOn
  <2>6. FencesBeginOnce => wait.fence \in CompletedIn(director.c)  BY <1>4, <1>8 DEF Told
  <2> QED  BY <2>5, <2>6 DEF Releases, CompletedIn, StatusOf
<1>9. CASE /\ CanShow(P) /\ ~ over.c.failed /\ completions' = over.done
           /\ signals' = heard /\ director' = e /\ requests' = {} /\ failed' = failed
           /\ UNCHANGED <<script, sent, wait>>
  <2>1. (completions \cup signals)' = H  BY <1>9
  <2>2. Told(script, director', sent, (completions \cup signals)')
    <3>1. Told(script, e, sent, H)  BY <1>5, <1>9
    <3> HIDE DEF H
    <3> QED  BY <1>9, <2>1, <3>1
  <2>3. PlayerInv'  BY <1>1, <1>3, <1>6, <1>9, <2>2, StandsStill
  <2>4. sent' # sent + 1  BY <1>9, InvIs
  <2> QED  BY <2>3, <2>4, NotWaiting
<1> QED  BY <1>1, <1>7, <1>8, <1>9

LEMMA InputIs ==
  ASSUME PlayerInv, Input
  PROVE  /\ ~ failed /\ sent # 0 /\ sent \in Nat
         /\ Told(script, director, sent, completions \cup signals)
BY InvIs DEF Input, PlayerInv

LEMMA SkipMovieStep ==
  ASSUME StoriesSend, PlayerInv, SkipMovie
  PROVE  PlayerInv' /\ Releases
<1> DEFINE H == completions \cup signals
<1>1. PICK m \in Skippable : \E c_1 \in {CompleteVideo(director.c, m.layer)} :
        /\ Input
        /\ IF m.layer \notin Shown(director.c) \/ c_1.failed
             THEN End("Video") /\ UNCHANGED completions
             ELSE /\ director' = [director EXCEPT !.c = c_1]
                  /\ completions' = completions \cup CompleteVideoCompletes(director.c, m.layer)
                  /\ scope' = [scope EXCEPT ![m.layer] = 0]
                  /\ requests' = {r \in requests : r.layer # m.layer}
                  /\ UNCHANGED failed
        /\ UNCHANGED <<story, streams, signals, slot>>
  BY DEF SkipMovie
<1> DEFINE t == m.layer
           r == CompleteVideo(director.c, t)
           F == CompleteVideoCompletes(director.c, t)
           e == [director EXCEPT !.c = r]
<1>2. /\ Input /\ UNCHANGED <<script, sent, wait>> /\ streams' = streams /\ saved' = saved
      /\ signals' = signals
      /\ \/ End("Video")
         \/ /\ t \in Shown(director.c) /\ ~ r.failed /\ director' = e
            /\ completions' = completions \cup F
            /\ requests' = {x \in requests : x.layer # t} /\ failed' = failed
  BY <1>1 DEF story, slot
<1>3. /\ ~ failed /\ sent # 0 /\ sent \in Nat /\ Told(script, director, sent, H)
  BY <1>2, InputIs
<1>4. FilmSet(streams) /\ FilmSet(requests)  BY InvIs
<1>5. FilmSet({x \in requests : x.layer # t})
  <2>1. {x \in requests : x.layer # t} \subseteq requests \cup requests  OBVIOUS
  <2> QED  BY <1>4, <2>1, Unions
<1>6. RegionOf[t] = "Video"
  <2>1. PICK l \in DOMAIN director.movies : m = director.movies[l]  BY DEF Skippable
  <2>2. director.movies \in Playing  BY <1>3, DirectorIs DEF Told
  <2>3. director.movies \in [DOMAIN director.movies -> Films]
    BY <2>2, UnionOfFunctions DEF Playing
  <2>4. m \in Films  BY <2>1, <2>3
  <2> QED  BY <2>4 DEF Films, VideoLayer
<1> HIDE DEF H, t
<1>7. ASSUME t \in Shown(director.c), ~ r.failed
      PROVE  Told(script, e, sent, H \cup F)
  <2>1. Good(director.c)  BY <1>3 DEF Told
  <2>2. Good(r) /\ Completes(director.c, F, r)  BY <1>6, <1>7, <2>1, CompleteGood
  <2>3. \A R : Regional(R) => Calm(R, director.c, r)  BY <1>6, <1>7, <2>1, GoodTyped, CompleteCalm
  <2> HIDE DEF r, F
  <2> QED  BY <1>3, <2>2, <2>3, ToldAfter
<1> HIDE DEF r, F, e
<1>8. /\ FilmSet(requests')
      /\ ~ failed' => Told(script, director', sent, (completions \cup signals)')
      /\ failed' => Excusable(director'.error, script, sent)
  <2>1. CASE End("Video")
    <3>1. failed' = TRUE /\ requests' = requests /\ Excusable(director'.error, script, sent)
      BY <1>3, <2>1, EndIs DEF Told
    <3> QED  BY <1>4, <3>1
  <2>2. CASE /\ t \in Shown(director.c) /\ ~ r.failed /\ director' = e
             /\ completions' = completions \cup F
             /\ requests' = {x \in requests : x.layer # t} /\ failed' = failed
    <3>1. (completions \cup signals)' = H \cup F  BY <1>2, <2>2 DEF H
    <3> QED  BY <1>3, <1>5, <1>7, <2>2, <3>1
  <2> QED  BY <1>2, <2>1, <2>2
<1>9. PlayerInv'  BY <1>2, <1>3, <1>4, <1>8, StandsStill
<1>10. sent' # sent + 1  BY <1>2, <1>3
<1> QED  BY <1>9, <1>10, NotWaiting

LEMMA RevealStep ==
  ASSUME StoriesSend, PlayerInv, RevealLine
  PROVE  PlayerInv' /\ Releases
<1> DEFINE H == completions \cup signals
           s == director.c
           r == RevealText(s, Line)
<1>1. /\ Input /\ Line \in Shown(s) /\ s.entry[Line].left > 0
      /\ director' = [director EXCEPT !.c = RevealText(@, Line)]
      /\ UNCHANGED <<script, sent, wait>> /\ requests' = requests /\ completions' = completions
      /\ streams' = streams /\ signals' = signals /\ failed' = failed /\ saved' = saved
  BY DEF RevealLine, LineShown, story, slot
<1>2. ~ failed /\ sent # 0 /\ sent \in Nat /\ Told(script, director, sent, H)  BY <1>1, InputIs
<1>3. Good(s) /\ RegionOf[Line] = "Text" /\ Batch = Sent
  BY <1>2, LineIsText DEF Told, StoriesSend
<1>4. director' = [director EXCEPT !.c = r]  BY <1>1
<1> HIDE DEF H, s
<1>5. s.entry[Line].fence = NoFence  BY <1>1, <1>3, TextUnfenced
<1>6. Good(r) /\ Completes(s, {}, r) /\ Rests(s, r)  BY <1>1, <1>3, <1>5, RevealGood
<1>a. \A R : Regional(R) => Calm(R, s, r)  BY <1>6, RestsCalm
<1> HIDE DEF r
<1>7. Told(script, director', sent, H \cup {})  BY <1>2, <1>4, <1>6, <1>a, ToldAfter DEF s
<1>8. Told(script, director', sent, (completions \cup signals)')
  <2>1. (completions \cup signals)' = H \cup {}  BY <1>1 DEF H
  <2> QED  BY <1>7, <2>1
<1>9. FilmSet(streams') /\ FilmSet(requests')  BY <1>1, InvIs
<1>10. PlayerInv'  BY <1>1, <1>2, <1>8, <1>9, StandsStill
<1>11. sent' # sent + 1  BY <1>1, <1>2
<1> QED  BY <1>10, <1>11, NotWaiting

LEMMA AdvanceStep ==
  ASSUME StoriesSend, PlayerInv, AdvanceStory
  PROVE  PlayerInv' /\ Releases
<1> DEFINE H == completions \cup signals
           s == director.c
           r == AcknowledgeText(s, Line)
           e == [director EXCEPT !.c = r]
<1>1. /\ Input /\ wait.kind = "Dialogue" /\ Line \in Shown(s) /\ CanAcknowledge(s, Line)
      /\ completions' = completions /\ signals' = signals /\ streams' = streams /\ saved' = saved
      /\ \/ End("ActivationLimit") /\ UNCHANGED <<script, sent, wait>>
         \/ ~ r.failed /\ StepStory(e, requests)
  BY DEF AdvanceStory, LineShown, story, slot
<1>2. ~ failed /\ sent # 0 /\ sent \in Nat /\ Told(script, director, sent, H)  BY <1>1, InputIs
<1>3. Good(s) /\ RegionOf[Line] = "Text"  BY <1>2, LineIsText DEF Told
<1>4. FilmSet(streams') /\ FilmSet(requests)  BY <1>1, InvIs
<1>5. Releases  BY <1>1 DEF Releases, Waiting
<1>6. (completions \cup signals)' = H  BY <1>1
<1>7. CASE End("ActivationLimit") /\ UNCHANGED <<script, sent, wait>>
  <2>1. failed' = TRUE /\ requests' = requests /\ Excusable(director'.error, script, sent)
    BY <1>2, <1>7, EndIs DEF Told
  <2> QED  BY <1>1, <1>2, <1>4, <1>5, <1>7, <2>1, StandsStill
<1>8. CASE ~ r.failed /\ StepStory(e, requests)
  <2>1. Good(r) /\ Completes(s, {}, r)
    <3> HIDE DEF s
    <3> QED  BY <1>1, <1>3, <1>8, AcknowledgeGood
  <2>5. \A R : Regional(R) => Calm(R, s, r)
    <3> HIDE DEF s
    <3> QED  BY <1>1, <1>3, <1>8, AcknowledgeCalm
  <2> HIDE DEF H, r
  <2>2. Told(script, e, sent, H \cup {})  BY <1>2, <2>1, <2>5, ToldAfter
  <2>3. Told(script, e, sent, H)
    <3>1. H \cup {} = H  OBVIOUS
    <3> QED  BY <2>2, <3>1
  <2> HIDE DEF e
  <2>4. PlayerInv'  BY <1>1, <1>2, <1>4, <1>6, <1>8, <2>3, StoryGoesOn
  <2> QED  BY <1>5, <2>4
<1> QED  BY <1>1, <1>7, <1>8

LEMMA SaveStep ==
  ASSUME PlayerInv, Save
  PROVE  PlayerInv' /\ Releases
<1> DEFINE game == [director |-> director, sent |-> sent, wait |-> wait, streams |-> streams,
                    signals |-> signals]
<1>1. /\ Input /\ (QuietSaves => completions = {}) /\ saved' = <<game>>
      /\ director' = director /\ UNCHANGED <<script, sent, wait>> /\ requests' = requests
      /\ completions' = completions /\ streams' = streams /\ signals' = signals /\ failed' = failed
  BY DEF Save, story
<1>2. ~ failed /\ sent # 0 /\ sent \in Nat /\ Told(script, director, sent, completions \cup signals)
  BY <1>1, InputIs
<1>3. Told(script, director, sent, signals)  BY <1>1, <1>2 DEF Told
<1>4. SavedGame(script, sent, game)
  <2>1. FilmSet(streams) /\ wait = After(script, sent)  BY InvIs
  <2>2. /\ game.director = director /\ game.sent = sent /\ game.wait = wait
        /\ game.streams = streams /\ game.signals = signals
    OBVIOUS
  <2>3. sent \in 1 .. sent  BY <1>2
  <2> HIDE DEF game
  <2> QED  BY <1>3, <2>1, <2>2, <2>3 DEF SavedGame
<1> HIDE DEF game
<1>5. saved'[1] = game  BY <1>1
<1>6. PlayerInv'
  <2>1. SavedGame(script', sent', saved'[1])  BY <1>1, <1>4, <1>5
  <2>2. /\ script' = script /\ sent' = sent /\ wait' = wait /\ streams' = streams
        /\ requests' = requests /\ failed' = failed /\ director' = director
        /\ (completions \cup signals)' = completions \cup signals
    BY <1>1
  <2> QED  BY <1>2, <2>1, <2>2 DEF PlayerInv
<1>7. sent' # sent + 1  BY <1>1, <1>2
<1> QED  BY <1>6, <1>7, NotWaiting

LEMMA LoadStep ==
  ASSUME PlayerInv, Load
  PROVE  PlayerInv' /\ Releases
<1> DEFINE game == saved[1]
<1>1. /\ saved # <<>> /\ director' = game.director /\ sent' = game.sent /\ wait' = game.wait
      /\ streams' = game.streams /\ signals' = game.signals /\ requests' = {} /\ completions' = {}
      /\ failed' = FALSE /\ script' = script /\ saved' = saved
  BY DEF Load
<1>2. SavedGame(script, sent, game)  BY <1>1 DEF PlayerInv
<1> HIDE DEF game
<1>3. /\ script \in Script /\ sent \in Nat /\ Len(script) \in Nat /\ sent <= Len(script)  BY InvIs
<1>4. /\ sent' \in 1 .. sent /\ wait' = After(script, sent') /\ FilmSet(streams')
      /\ Told(script, director', sent', signals')
  BY <1>1, <1>2 DEF SavedGame
<1>5. FilmSet(requests')  BY <1>1, FS_EmptySet DEF FilmSet
<1>6. Told(script, director', sent', (completions \cup signals)')
  <2>1. (completions \cup signals)' = signals'  BY <1>1
  <2> QED  BY <1>4, <2>1
<1>7. SavedGame(script, sent', game)
  <2>1. game.sent \in 1 .. sent'  BY <1>1, <1>4
  <2> QED  BY <1>2, <2>1 DEF SavedGame
<1>8. saved'[1] = game  BY <1>1 DEF game
<1>9. sent' \in 0 .. Len(script') /\ sent' # 0  BY <1>1, <1>3, <1>4
<1>10. PlayerInv'
  <2>1. saved' # <<>> => SavedGame(script', sent', saved'[1])  BY <1>1, <1>7, <1>8
  <2>2. Told(script', director', sent', (completions \cup signals)') /\ wait' = After(script', sent')
    BY <1>1, <1>4, <1>6
  <2> QED  BY <1>1, <1>3, <1>4, <1>5, <1>9, <2>1, <2>2 DEF PlayerInv
<1>11. sent' # sent + 1  BY <1>3, <1>4
<1> QED  BY <1>10, <1>11, NotWaiting

LEMMA PlayerStep ==
  ASSUME StoriesSend, PlayerInv, [PlayerNext]_playerVars
  PROVE  PlayerInv' /\ Releases
<1>1. CASE Launch  BY <1>1, LaunchStep
<1>2. CASE Frame  BY <1>2, FrameStep
<1>3. CASE ProcessSome
  <2>1. PICK ends \in SUBSET streams : Process(ends)  BY <1>3 DEF ProcessSome
  <2> QED  BY <2>1, ProcessStep
<1>4. CASE SkipMovie  BY <1>4, SkipMovieStep
<1>5. CASE RevealLine  BY <1>5, RevealStep
<1>6. CASE AdvanceStory  BY <1>6, AdvanceStep
<1>7. CASE Save  BY <1>7, SaveStep
<1>8. CASE Load  BY <1>8, LoadStep
<1>9. CASE UNCHANGED playerVars
  <2>1. /\ script' = script /\ sent' = sent /\ wait' = wait /\ streams' = streams
        /\ requests' = requests /\ failed' = failed /\ director' = director /\ turn' = turn
        /\ (completions \cup signals)' = completions \cup signals /\ saved' = saved
    BY <1>9 DEF playerVars, story, slot
  <2>2. PlayerInv'  BY <2>1 DEF PlayerInv
  <2>3. sent' # sent + 1  BY <2>1, InvIs
  <2> QED  BY <2>2, <2>3, NotWaiting
<1> QED  BY <1>1, <1>2, <1>3, <1>4, <1>5, <1>6, <1>7, <1>8, <1>9 DEF PlayerNext

(* The Player keeps its invariant: whatever the frames, the media host, the*)
(* clicks and the loads do to one another, the director stays a director   *)
(* whose coordinator works and whose tweens end with the entries of their  *)
(* regions, its groups are those the story has begun, the Player has heard *)
(* of a group only when it is through, and a game that is saved says the   *)
(* same of the moment it was saved in.                                     *)
THEOREM PlayerInvariance ==
  ASSUME StoriesSend
  PROVE  PlayerSpec => []PlayerInv
<1>1. PlayerInit => PlayerInv  BY PlayerStart
<1>2. PlayerInv /\ [PlayerNext]_playerVars => PlayerInv'  BY PlayerStep
<1> QED  BY <1>1, <1>2, PTL DEF PlayerSpec

(* AssertionsHold, for all stories: a command that the coordinator         *)
(* activates has been kept by the director, is kept once, and finds its    *)
(* target at rest, however batches, frames, skips, clicks and loads follow *)
(* one another.  It can meet a tween only on a layer that the story fades  *)
(* out, of which the coordinator knows nothing; no other assertion of the  *)
(* director fires, in a frame, in a step of the story or after a load.     *)
THEOREM DirectorKeepsItsAssertions ==
  ASSUME StoriesSend
  PROVE  PlayerSpec => []AssertionsHold
<1>1. PlayerInv => AssertionsHold
  <2> SUFFICES ASSUME PlayerInv, director.error \in Assertion
               PROVE  director.error = "Divergence" /\ QueuedOnFade
    BY DEF AssertionsHold
  <2>1. failed  BY DEF PlayerInv, Told, Ready, Assertion, None
  <2>2. director.error = "Divergence" /\ Faded(script, sent) \cap Behinds(script, sent) # {}
    BY <2>1 DEF PlayerInv, Excusable, Excused
  <2>3. PICK fade \in Said(script, sent), command \in Said(script, sent) :
          /\ fade.kind = "ClearLayer" /\ fade.length > 0
          /\ command.kind \in RegionKind /\ command.policy = "Queue"
          /\ LayerOf[command.target] = fade.target
    BY <2>2 DEF Faded, Behinds
  <2> QED  BY <2>2, <2>3 DEF Said, QueuedOnFade
<1>2. PlayerSpec => []PlayerInv  BY PlayerInvariance
<1> QED  BY <1>1, <1>2, PTL

(* WaitReleasedByItsGroup, for all stories whose fences begin in one step  *)
(* each: the story goes on from a wait for a movie or a fence only when    *)
(* every command of the group is through.  A completion in the signals of  *)
(* the media host or in those of the director is that of the group the     *)
(* story waits for, also after a load has put back older ones.             *)
THEOREM WaitsAreReleasedByTheirGroups ==
  ASSUME StoriesSend, FencesBeginOnce
  PROVE  PlayerSpec => WaitReleasedByItsGroup
<1>1. PlayerInit => PlayerInv  BY PlayerStart
<1>2. PlayerInv /\ [PlayerNext]_playerVars => PlayerInv'  BY PlayerStep
<1>3. PlayerInv /\ [PlayerNext]_playerVars =>
        [Waiting /\ sent' = sent + 1 => StatusOf(director.c, wait.fence) = "Completed"]_playerVars
  BY PlayerStep DEF Releases
<1> QED  BY <1>1, <1>2, <1>3, PTL DEF PlayerSpec, WaitReleasedByItsGroup

(* CompletionReachesStory, for all stories that wait for a fence only once,*)
(* when games are saved in quiet moments: a group the story waits for that *)
(* is through is on its way to the story.  Neither a frame, nor the end of *)
(* a stream, nor a skip or a click, nor a load drops it before the wait.   *)
THEOREM CompletionsReachTheStory ==
  ASSUME StoriesSend, FencesBeginOnce, FencesAwaitedOnce, QuietSaves
  PROVE  PlayerSpec => []CompletionReachesStory
<1>1. PlayerInv => CompletionReachesStory
  <2> SUFFICES ASSUME PlayerInv, ~ failed, Waiting, StatusOf(director.c, wait.fence) = "Completed"
               PROVE  wait.fence \in completions \cup signals
    BY DEF CompletionReachesStory
  <2>1. /\ script \in Script /\ sent \in Nat /\ sent > 0 /\ sent <= Len(script) /\ Len(script) \in Nat
        /\ wait.fence \in Awaits(script[sent])
    BY InvIs
  <2>2. Told(script, director, sent, completions \cup signals)  BY DEF PlayerInv
  <2>3. wait.fence \in CompletedIn(director.c)  BY DEF StatusOf, CompletedIn
  <2>4. wait.fence \notin AwaitedBefore(script, sent)
    <3> SUFFICES ASSUME NEW m \in 1 .. sent - 1, wait.fence \in Awaits(script[m]) PROVE FALSE
      BY DEF AwaitedBefore
    <3>1. m \in 1 .. Len(script) /\ sent \in 1 .. Len(script) /\ m # sent  BY <2>1
    <3> QED  BY <2>1, <3>1 DEF FencesAwaitedOnce
  <2> QED  BY <2>2, <2>3, <2>4 DEF Told
<1>2. PlayerSpec => []PlayerInv  BY PlayerInvariance
<1> QED  BY <1>1, <1>2, PTL
-------------------------------------------------------------------------------
(* The films of a director: each has a number of its own, and those of     *)
(* out, which the Player takes, are on the screen but for the layers L.    *)

(* A film has a number of its own, and no order that is kept has it.       *)
Numbered(d, S) ==
  /\ d.next > 0
  /\ \A id \in DOMAIN d.region : 0 < id /\ d.region[id].id = id
  /\ \A x \in S : 0 < x.id /\ x.id < d.next /\ x.id \notin DOMAIN d.region
  /\ \A x, y \in S : x.id = y.id => x = y

(* Films q, the last of each layer on screen but on the layers of L; and   *)
(* layers without one of them show what they showed in s.                  *)
Opened(L, q, c_1) ==
  \A i \in DOMAIN q :
    \/ q[i].layer \in L \/ OnScreen(c_1, q[i].layer, q[i].id)
    \/ \E j \in DOMAIN q : j > i /\ q[j].layer = q[i].layer
Left(L, s, q, d) ==
  \A t \in VideoLayer \ L : (\A i \in DOMAIN q : q[i].layer # t) =>
    \A id : OnScreen(s, t, id) => OnScreen(d, t, id)

(* H has the layers where a film may be shown, Q those where one is kept,  *)
(* A those where one is activated.                                         *)
Reels(L, A, Q, S, s, H, d) ==
  /\ Numbered(d, S \cup ToSet(d.out))
  /\ \A t \in VideoLayer : t \in Shown(d.c) => t \in H
  /\ \A id \in DOMAIN d.region : d.region[id].kind = "Movie" => d.region[id].target \in Q
  /\ \A i \in DOMAIN d.c.activated : LET x == d.region[d.c.activated[i]] IN
       x.kind = "Movie" => x.target \in A
  /\ Newest(L, d.region, d.c.activated, d.c, 0)
  /\ Opened(L, d.out, d.c) /\ Left(L, s, d.out, d.c)

LEMMA AppendedSet ==
  ASSUME NEW S, NEW q \in Seq(S), NEW x \in S
  PROVE  /\ ToSet(Append(q, x)) = ToSet(q) \cup {x}
         /\ DOMAIN q = 1 .. Len(q) /\ Len(q) \in Nat
         /\ DOMAIN Append(q, x) = 1 .. Len(q) + 1
         /\ \A i \in DOMAIN q : Append(q, x)[i] = q[i]
         /\ Append(q, x)[Len(q) + 1] = x
<1> DEFINE r == Append(q, x)
<1>1. /\ DOMAIN q = 1 .. Len(q) /\ Len(q) \in Nat /\ DOMAIN r = 1 .. Len(q) + 1
      /\ \A i \in DOMAIN q : r[i] = q[i]
      /\ r[Len(q) + 1] = x
  OBVIOUS
<1> HIDE DEF r
<1>2. DOMAIN r = DOMAIN q \cup {Len(q) + 1}  BY <1>1
<1>3. ToSet(r) = ToSet(q) \cup {x}  BY <1>1, <1>2 DEF ToSet
<1> QED  BY <1>1, <1>3 DEF r

(* A command starts: its film, if it is one, is opened and on the screen.  *)
LEMMA StartReels ==
  ASSUME NEW d \in Director, NEW L, NEW A, NEW Q, NEW S \in SUBSET Films, NEW s, NEW H,
         Reels(L, A, Q, S, s, H, d),
         Regional(d.region), \A id \in DOMAIN d.region : id < d.next, Stocked(d.c, d.region),
         NEW r \in Director, r.region = d.region, r.next = d.next + 1,
         r.c.activated = d.c.activated,
         NEW t \in Target, Shown(r.c) = Shown(d.c) \cup {t}, r.c.entry[t].id = d.next,
         \A u \in Shown(d.c) \ {t} : r.c.entry[u] = d.c.entry[u],
         NEW f, t \in VideoLayer => f \in Films, f.layer = t, f.id = d.next,
         IF t \in VideoLayer THEN r.out = Append(d.out, f) ELSE r.out = d.out,
         t \in VideoLayer /\ t \in A => t \in L,
         NEW G, H \subseteq G, t \in VideoLayer => t \in G
  PROVE  Reels(L, A, Q, S, s, G, r)
<1>1. d.next \in Nat /\ d.out \in Seq(Films) /\ \A id \in DOMAIN d.region : id \in Nat
  BY DirectorIs DEF Regional, Kept
<1>a. DOMAIN d.out = 1 .. Len(d.out) /\ Len(d.out) \in Nat /\ \A i \in DOMAIN d.out : d.out[i] \in Films
  BY <1>1
<1>b. \A x \in S \cup ToSet(d.out) : x \in Films /\ x.layer \in VideoLayer /\ x.id \in Nat
  <2>1. \A x \in S \cup ToSet(d.out) : x \in Films  BY <1>a DEF ToSet
  <2> QED  BY <2>1 DEF Films
<1>c. \A i \in DOMAIN d.out : d.out[i].layer \in VideoLayer  BY <1>a DEF Films
<1>2. ASSUME NEW u \in VideoLayer, u # t, NEW id PROVE OnScreen(d.c, u, id) <=> OnScreen(r.c, u, id)
  BY <1>2 DEF OnScreen
<1>3. \A u \in VideoLayer : u \in Shown(r.c) => u \in G  BY DEF Reels
<1>4. Newest(L, r.region, r.c.activated, r.c, 0)
  <2> DEFINE R == d.region
             q == d.c.activated
  <2> SUFFICES ASSUME NEW j \in DOMAIN q, j > 0, R[q[j]].kind = "Movie",
                      R[q[j]].target \notin L,
                      \A i \in DOMAIN q : ~ (i > j /\ R[q[i]].target = R[q[j]].target)
               PROVE  OnScreen(r.c, R[q[j]].target, q[j])
    BY DEF Newest
  <2>1. OnScreen(d.c, R[q[j]].target, q[j])  BY DEF Reels, Newest
  <2>2. R[q[j]].target \in VideoLayer  BY MovieTargets
  <2>3. R[q[j]].target \in A  BY DEF Reels
  <2> QED  BY <1>2, <2>1, <2>2, <2>3
<1>5. CASE t \notin VideoLayer
  <2>1. r.out = d.out  BY <1>5
  <2>2. Numbered(r, S \cup ToSet(r.out))
    <3>1. Numbered(d, S \cup ToSet(d.out))  BY DEF Reels
    <3>2. r.next > 0 /\ \A x \in S \cup ToSet(d.out) : x.id < d.next => x.id < r.next
      BY <1>1, <1>b
    <3> QED  BY <2>1, <3>1, <3>2 DEF Numbered
  <2>3. Left(L, s, r.out, r.c)  BY <1>2, <1>5, <2>1 DEF Reels, Left
  <2>4. Opened(L, r.out, r.c)  BY <1>2, <1>5, <1>c, <2>1 DEF Reels, Opened
  <2> QED  BY <1>3, <1>4, <2>2, <2>3, <2>4 DEF Reels
<1>6. CASE t \in VideoLayer
  <2> DEFINE n == Len(d.out) + 1
             q == r.out
  <2>1. /\ q = Append(d.out, f) /\ ToSet(q) = ToSet(d.out) \cup {f}
        /\ DOMAIN d.out = 1 .. Len(d.out) /\ Len(d.out) \in Nat /\ DOMAIN q = 1 .. n
        /\ \A i \in DOMAIN d.out : q[i] = d.out[i]
        /\ q[n] = f
    <3> DEFINE p == d.out
               a == Append(p, f)
    <3>1. p \in Seq(Films) /\ q = a /\ f \in Films  BY <1>1, <1>6
    <3> HIDE DEF p
    <3>2. /\ ToSet(a) = ToSet(p) \cup {f}
          /\ DOMAIN p = 1 .. Len(p) /\ Len(p) \in Nat /\ DOMAIN a = 1 .. Len(p) + 1
          /\ \A i \in DOMAIN p : a[i] = p[i]
          /\ a[Len(p) + 1] = f
      BY <3>1, AppendedSet
    <3> QED  BY <3>1, <3>2 DEF p
  <2> HIDE DEF n, q
  <2>2. n \in Nat /\ \A i \in DOMAIN q : i = n \/ (i \in DOMAIN d.out /\ i < n)  BY <2>1 DEF n
  <2>a. n \in DOMAIN q /\ \A i \in DOMAIN d.out : i \in DOMAIN q /\ i < n  BY <2>1 DEF n
  <2>3. Numbered(r, S \cup ToSet(q))
    <3>1. \A x \in S \cup ToSet(d.out) : 0 < x.id /\ x.id < d.next /\ x.id \notin DOMAIN d.region
      BY DEF Reels, Numbered
    <3>2. \A x \in S \cup ToSet(q) : x = f \/ x \in S \cup ToSet(d.out)  BY <2>1
    <3>3. 0 < d.next /\ d.next \notin DOMAIN d.region  BY <1>1 DEF Reels, Numbered
    <3>5. ASSUME NEW x \in S \cup ToSet(d.out) PROVE x.id < r.next /\ x.id # f.id
      <4>1. x.id < d.next /\ x.id > 0  BY <3>1
      <4> QED  BY <1>1, <1>b, <4>1
    <3>4. \A x \in S \cup ToSet(q) : 0 < x.id /\ x.id < r.next /\ x.id \notin DOMAIN r.region
      BY <1>1, <3>1, <3>2, <3>3, <3>5
    <3>6. \A x, y \in S \cup ToSet(q) : x.id = y.id => x = y
      BY <3>2, <3>5 DEF Reels, Numbered
    <3>7. r.next > 0  BY <1>1
    <3> QED  BY <3>4, <3>6, <3>7 DEF Reels, Numbered
  <2>4. Opened(L, q, r.c)
    <3> SUFFICES ASSUME NEW i \in DOMAIN q, q[i].layer \notin L,
                        \A j \in DOMAIN q : ~ (j > i /\ q[j].layer = q[i].layer)
                 PROVE  OnScreen(r.c, q[i].layer, q[i].id)
      BY DEF Opened
    <3>1. CASE i = n  BY <2>1, <3>1 DEF OnScreen
    <3>2. CASE i \in DOMAIN d.out /\ i < n
      <4>1. q[i] = d.out[i] /\ q[i].layer # t /\ q[i].layer \in VideoLayer
        <5> QED  BY <1>c, <2>1, <2>a, <3>2
      <4>2. OnScreen(d.c, q[i].layer, q[i].id)
        <5>1. \A j \in DOMAIN d.out : ~ (j > i /\ d.out[j].layer = q[i].layer)
          BY <2>1, <2>a
        <5> QED  BY <3>2, <4>1, <5>1 DEF Reels, Opened
      <4> QED  BY <1>2, <4>1, <4>2
    <3> QED  BY <2>2, <3>1, <3>2
  <2>5. Left(L, s, q, r.c)
    <3> SUFFICES ASSUME NEW u \in VideoLayer \ L, \A i \in DOMAIN q : q[i].layer # u,
                        NEW id, OnScreen(s, u, id)
                 PROVE  OnScreen(r.c, u, id)
      BY DEF Left
    <3>1. u # t  BY <2>1, <2>a
    <3>2. \A i \in DOMAIN d.out : d.out[i].layer # u  BY <2>1, <2>a
    <3>3. OnScreen(d.c, u, id)  BY <3>2 DEF Reels, Left
    <3> QED  BY <1>2, <3>1, <3>3
  <2> QED  BY <1>3, <1>4, <2>3, <2>4, <2>5 DEF Reels, q
<1> QED  BY <1>5, <1>6

(* A command is kept behind another. *)
LEMMA QueueReels ==
  ASSUME NEW d \in Director, NEW L, NEW A, NEW Q, NEW S \in SUBSET Films, NEW s, NEW H,
         Reels(L, A, Q, S, s, H, d),
         Regional(d.region), \A id \in DOMAIN d.region : id < d.next, Stocked(d.c, d.region),
         NEW r, NEW z, z.id = d.next, r.region = Insert(d.region, [id \in {d.next} |-> z]),
         r.next = d.next + 1, r.c.activated = d.c.activated, r.c.entry = d.c.entry, r.out = d.out,
         z.kind = "Movie" => z.target \in Q, NEW G, H \subseteq G
  PROVE  Reels(L, A, Q, S, s, G, r)
<1> DEFINE R == d.region
           n == d.next
<1>1. n \in Nat /\ d.out \in Seq(Films) /\ n \notin DOMAIN R /\ n > 0
  <2>1. n \in Nat /\ d.out \in Seq(Films) /\ \A id \in DOMAIN R : id \in Nat
    BY DirectorIs DEF Regional, Kept
  <2> QED  BY <2>1 DEF Reels, Numbered
<1>2. \A x \in S \cup ToSet(d.out) : x.id \in Nat /\ x.id < n /\ 0 < x.id /\ x.id \notin DOMAIN R
  <2>1. DOMAIN d.out = 1 .. Len(d.out) /\ \A i \in DOMAIN d.out : d.out[i] \in Films  BY <1>1
  <2>2. \A x \in S \cup ToSet(d.out) : x \in Films  BY <2>1 DEF ToSet
  <2>3. \A x \in S \cup ToSet(d.out) : x.id \in Nat  BY <2>2 DEF Films
  <2> QED  BY <2>3 DEF Reels, Numbered
<1>3. /\ DOMAIN r.region = DOMAIN R \cup {n} /\ r.region[n] = z
      /\ \A id \in DOMAIN R : r.region[id] = R[id]
  BY <1>1 DEF Insert
<1>4. r.next = n + 1  OBVIOUS
<1>5. Numbered(d, S \cup ToSet(d.out))  BY DEF Reels
<1>6. Shown(r.c) = Shown(d.c) /\ \A t, id : OnScreen(d.c, t, id) <=> OnScreen(r.c, t, id)
  BY DEF Shown, OnScreen
<1>7. \A i \in DOMAIN d.c.activated : d.c.activated[i] \in DOMAIN R  BY DEF Stocked
<1> HIDE DEF n, R
<1>8. Numbered(r, S \cup ToSet(r.out))
  <2>1. r.next > 0 /\ \A id \in DOMAIN r.region : 0 < id /\ r.region[id].id = id
    BY <1>1, <1>3, <1>4, <1>5 DEF Numbered, R, n
  <2>2. \A x \in S \cup ToSet(d.out) : x.id < r.next /\ x.id \notin DOMAIN r.region
    BY <1>1, <1>2, <1>3, <1>4
  <2> QED  BY <1>2, <1>5, <2>1, <2>2 DEF Numbered
<1>9. Newest(L, r.region, r.c.activated, r.c, 0)
  BY <1>3, <1>6, <1>7 DEF Reels, Newest, R
<1>10. /\ \A id \in DOMAIN r.region : r.region[id].kind = "Movie" => r.region[id].target \in Q
       /\ \A i \in DOMAIN r.c.activated : LET x == r.region[r.c.activated[i]] IN
            x.kind = "Movie" => x.target \in A
  BY <1>3, <1>7 DEF Reels, R
<1>11. Opened(L, r.out, r.c) /\ Left(L, s, r.out, r.c)  BY <1>6 DEF Reels, Opened, Left
<1> QED  BY <1>6, <1>8, <1>9, <1>10, <1>11 DEF Reels

(* A command of the story.                                                 *)
LEMMA PresentReels ==
  ASSUME Batch = Sent, NEW d \in Director, Good(d.c), NEW F, NEW B, Ready(d, F, B),
         NEW x \in Planned(F, B), NEW L, NEW A, NEW Q, NEW S \in SUBSET Films, NEW s, NEW H,
         Reels(L, A, Q, S, s, H, d),
         x.kind = "Movie" /\ x.target \in A => x.target \in L,
         x.kind = "Movie" /\ x.policy = "Queue" /\ x.target \in H => x.target \in Q,
         NEW G, H \subseteq G, x.kind = "Movie" => x.target \in G,
         Present(d, x).error = None
  PROVE  Reels(L, A, Q, S, s, G, Present(d, x))
<1> DEFINE P == Present(d, x)
           y == Envelope(d, x)
           z == [x EXCEPT !.id = d.next]
           c_1 == ApplyBatch(d.c, <<y>>)
           m == [d EXCEPT !.c = c_1, !.next = @ + 1]
<1>1. x \in Orders /\ d.error = None /\ d.next \in Nat  BY DirectorIs DEF Planned, Ready
<1>2. Regional(d.region) /\ (\A id \in DOMAIN d.region : id < d.next) /\ Stocked(d.c, d.region)
  BY DEF Ready, Keeping
<1>3. P \in Director
  <2> DEFINE M == {x.fence}
  <2>1. x.kind = "Movie" => x.fence \in M \cup {NoFence}  OBVIOUS
  <2> HIDE DEF M, P
  <2> QED  BY <1>1, <2>1, PresentGood DEF P
<1>4. CASE x.kind \notin RegionKind
  <2>1. P = Apply(d, x)  BY <1>1, <1>4 DEF Present
  <2>2. Applied(d, x, P)  BY <1>1, <2>1, ApplyFacts
  <2>3. x.kind # "Movie"  BY <1>4 DEF RegionKind
  <2> HIDE DEF P
  <2>4. P.c = d.c /\ P.region = d.region /\ P.next = d.next /\ P.out = d.out
    BY <2>2, <2>3 DEF Applied, Opens, P
  <2>5. Reels(L, A, Q, S, s, G, P)  BY <2>4 DEF Reels, Numbered
  <2> QED  BY <2>5 DEF P
<1>5. CASE x.kind \in RegionKind
  <2>1. y \in Envelopes /\ y.id = d.next /\ y.target = x.target /\ y.policy = x.policy
    BY <1>1, <1>5, EnvelopeIs
  <2>2. d.next \notin DOMAIN d.region
    <3>1. \A id \in DOMAIN d.region : id \in Nat /\ id < d.next  BY <1>2 DEF Regional, Kept
    <3> QED  BY <1>1, <3>1
  <2>3. /\ TakesBatch(d.c, <<y>>)
        /\ \/ ~ (Busy(d.c, x.target) /\ x.policy = "Queue") /\ P = Apply(m, z)
           \/ /\ Busy(d.c, x.target) /\ x.policy = "Queue"
              /\ P = [m EXCEPT !.region = Insert(@, [id \in {d.next} |-> z])]
    <3>1. Fail(d, "UnknownEntity").error # None /\ Fail(d, "Refused").error # None
      BY FailAdds DEF Errors, None
    <3> HIDE DEF z
    <3>2. P = IF x.kind \in {"Hide", "Move"} /\ x.target \notin d.entities
                THEN Fail(d, "UnknownEntity")
              ELSE IF ~ TakesBatch(d.c, <<y>>) THEN Fail(d, "Refused")
              ELSE IF ~ (Busy(d.c, x.target) /\ x.policy = "Queue") THEN Apply(m, z)
              ELSE [m EXCEPT !.region = Insert(@, [id \in {d.next} |-> z])]
      BY <1>1, <1>5, <2>2 DEF Present, z
    <3>3. P.error = None  OBVIOUS
    <3> HIDE DEF P, m, y
    <3> QED  BY <3>1, <3>2, <3>3
  <2> HIDE DEF P, y
  <2>4. c_1 \in Coordinator
    <3>1. Good(c_1)  BY <2>1, <2>3, SendGood
    <3> QED  BY <3>1, GoodTyped
  <2> DEFINE t == x.target
  <2>5. t \in Target /\ (t \in VideoLayer <=> x.kind = "Movie")
    BY <1>1, <1>5 DEF Orders, RegionOfKind, VideoLayer, RegionKind
  <2>6. /\ m \in Director /\ m.c = c_1 /\ m.next = d.next + 1 /\ m.region = d.region
        /\ m.error = None /\ m.out = d.out
    BY <1>1, <2>4, TakenIs
  <2>7. /\ z \in Planned(F, B) /\ z.kind = x.kind /\ z.target = t /\ z.id = d.next
        /\ z \in Orders /\ FilmOf(z).layer = t /\ FilmOf(z).id = d.next
    <3>1. /\ z \in Planned(F, B) /\ z.kind = x.kind /\ z.target = t  BY <1>1, NamedIs
    <3>2. z.id = d.next  BY <1>1 DEF Orders
    <3> QED  BY <3>1, <3>2 DEF FilmOf, Planned
  <2>8. CASE ~ (Busy(d.c, t) /\ x.policy = "Queue") /\ P = Apply(m, z)
    <3>1. /\ c_1.activated = d.c.activated /\ Shown(c_1) = Shown(d.c) \cup {t}
          /\ c_1.entry[t].id = d.next
          /\ \A u \in Shown(d.c) \ {t} : c_1.entry[u] = d.c.entry[u]
      <4>1. d.c \in Coordinator  BY DirectorIs
      <4> QED  BY <2>1, <2>8, <4>1, SendStarts
    <3> HIDE DEF m, z, c_1
    <3>2. Applied(m, z, P)  BY <2>6, <2>7, <2>8, ApplyFacts
    <3> DEFINE f == FilmOf(z)
    <3>3. P.c = c_1 /\ P.region = d.region /\ P.next = d.next + 1
      BY <2>6, <3>2 DEF Applied
    <3>4. IF t \in VideoLayer THEN P.out = Append(d.out, f) ELSE P.out = d.out
      <4>1. P.error = None  BY DEF P
      <4> QED  BY <2>5, <2>6, <2>7, <3>2, <4>1 DEF Applied, Opens
    <3>5. t \in VideoLayer => f \in Films
      BY <2>7 DEF Films, FilmOf, Orders
    <3>6. f.layer = t /\ f.id = d.next  BY <2>7
    <3> HIDE DEF f
    <3>7. Reels(L, A, Q, S, s, G, P)
      BY <1>2, <1>3, <2>5, <3>1, <3>3, <3>4, <3>5, <3>6, StartReels DEF P
    <3> QED  BY <3>7 DEF P
  <2>9. CASE /\ Busy(d.c, t) /\ x.policy = "Queue"
             /\ P = [m EXCEPT !.region = Insert(@, [id \in {d.next} |-> z])]
    <3>1. c_1.entry = d.c.entry /\ c_1.activated = d.c.activated
      <4>1. d.c \in Coordinator  BY DirectorIs
      <4> QED  BY <2>1, <2>9, <4>1, SendQueues
    <3>2. x.kind = "Movie" => t \in Q
      <4>1. t \in Shown(d.c)  BY <2>9, BusyIs
      <4> QED  BY <2>5, <2>9, <4>1 DEF Reels
    <3> DEFINE R == Insert(d.region, [id \in {d.next} |-> z])
    <3> HIDE DEF m, z, c_1
    <3>3. P = [m EXCEPT !.region = R]  BY <2>6, <2>9
    <3> HIDE DEF R
    <3>4. P.c = c_1 /\ P.next = d.next + 1 /\ P.region = R /\ P.out = d.out
      BY <2>6, <3>3, DirectorIs
    <3>5. P.region = Insert(d.region, [id \in {d.next} |-> z])  BY <3>4 DEF R
    <3>6. Reels(L, A, Q, S, s, G, P)  BY <1>2, <2>7, <3>1, <3>2, <3>4, <3>5, QueueReels
    <3> QED  BY <3>6 DEF P
  <2> QED  BY <2>3, <2>8, <2>9
<1> QED  BY <1>4, <1>5

(* A batch.                                                                *)
LEMMA BatchReels ==
  ASSUME Batch = Sent, NEW d \in Director, Good(d.c), NEW F, NEW B, Ready(d, F, B),
         NEW q \in Seq(Planned(F, B)), NEW L, NEW A, NEW Q, NEW S \in SUBSET Films, NEW s, NEW H,
         Reels(L, A, Q, S, s, H, d), NEW G, H \subseteq G,
         \A i \in DOMAIN q : q[i].kind = "Movie" =>
           /\ q[i].target \in A => q[i].target \in L
           /\ q[i].target \in G
           /\ q[i].policy = "Queue" /\ (\/ q[i].target \in H
                \/ \E j \in DOMAIN q : j < i /\ q[j].kind = "Movie" /\ q[j].target = q[i].target)
              => q[i].target \in Q,
         PrepareBatch(d, q).error = None
  PROVE  Reels(L, A, Q, S, s, G, PrepareBatch(d, q))
<1> DEFINE n == Len(q)
           m == PrepareBatch(d, q)
           J(k) == H \cup {q[j].target : j \in {i \in DOMAIN q : i <= k /\ q[i].kind = "Movie"}}
<1>1. WellStaged(d, F, B)  BY DEF WellStaged, Ready
<1>4. n \in Nat /\ DOMAIN q = 1 .. n /\ \A i \in 1 .. n : q[i] \in Planned(F, B)
  BY LenProperties, ElementOfSeq
<1>5. PICK g \in [0 .. n -> Director] :
        /\ g[0] = d /\ g[n] = m
        /\ \A k \in 1 .. n : g[k] = Present(g[k - 1], q[k])
        /\ \A k \in 0 .. n : Good(g[k].c) /\ WellStaged(g[k], F, B)
  BY <1>1, BatchSteps
<1> HIDE DEF n, m
<1> DEFINE T == {k \in Nat : k <= n /\ g[k].error = None => Reels(L, A, Q, S, s, J(k), g[k])}
<1>6. 0 \in T
  <2>1. J(0) = H  BY <1>4
  <2> HIDE DEF J
  <2> QED  BY <1>5, <2>1
<1>7. ASSUME NEW k \in Nat, k \in T PROVE k + 1 \in T
  <2> DEFINE x == q[k + 1]
             U == J(k)
             W == J(k + 1)
  <2> SUFFICES ASSUME k + 1 <= n, g[k + 1].error = None
               PROVE  Reels(L, A, Q, S, s, W, g[k + 1])
    OBVIOUS
  <2>1. k + 1 \in 1 .. n /\ (k + 1) - 1 = k /\ k <= n /\ k \in 0 .. n /\ k + 1 \in DOMAIN q
    BY <1>4
  <2>2. g[k + 1] = Present(g[k], x)  BY <1>5, <2>1
  <2>3. g[k] \in Director /\ Good(g[k].c) /\ WellStaged(g[k], F, B) /\ x \in Planned(F, B)
    BY <1>4, <1>5, <2>1
  <2>4. g[k].error = None
    <3> SUFFICES ASSUME g[k].error # None PROVE FALSE  OBVIOUS
    <3> HIDE DEF x
    <3>1. Present(g[k], x) = g[k]  BY DEF Present
    <3> QED  BY <2>2, <3>1
  <2>5. Ready(g[k], F, B) /\ Reels(L, A, Q, S, s, U, g[k])
    BY <1>7, <2>1, <2>3, <2>4 DEF WellStaged
  <2>6. U \subseteq W /\ (x.kind = "Movie" => x.target \in W)  BY <2>1
  <2>7. x.kind = "Movie" /\ x.target \in A => x.target \in L  BY <2>1
  <2>8. x.kind = "Movie" /\ x.policy = "Queue" /\ x.target \in U => x.target \in Q
    <3> SUFFICES ASSUME x.kind = "Movie", x.policy = "Queue", x.target \in U, x.target \notin H
                 PROVE  x.target \in Q
      BY <2>1
    <3>1. PICK j \in DOMAIN q : j <= k /\ q[j].kind = "Movie" /\ q[j].target = x.target
      OBVIOUS
    <3>2. j < k + 1  BY <1>4, <3>1
    <3> QED  BY <2>1, <3>1, <3>2
  <2> HIDE DEF x, U, W, T
  <2> QED  BY <2>2, <2>3, <2>5, <2>6, <2>7, <2>8, PresentReels
<1>8. \A k \in Nat : k \in T
  <2> HIDE DEF T
  <2> QED  BY <1>6, <1>7, Induction
<1>9. m.error = None  BY DEF m
<1>10. Reels(L, A, Q, S, s, J(n), m)
  <2> HIDE DEF J
  <2>1. n <= n /\ g[n].error = None /\ n \in T  BY <1>4, <1>5, <1>8, <1>9
  <2> QED  BY <1>5, <2>1
<1>11. J(n) \subseteq G  OBVIOUS
<1> HIDE DEF J
<1> QED  BY <1>10, <1>11 DEF Reels, m

(* The line of a dialogue.                                                 *)
LEMMA TextReels ==
  ASSUME Batch = Sent, NEW d \in Director, Good(d.c), NEW F, NEW B, Ready(d, F, B),
         NEW L, NEW A, NEW Q, NEW S \in SUBSET Films, NEW s, NEW H, Reels(L, A, Q, S, s, H, d),
         NEW t \in Target, RegionOf[t] = "Text", NEW length \in Nat
  PROVE  Reels(L, A, Q, S, s, H, ConfigureText(d, t, length))
<1> DEFINE x == [id |-> d.next, target |-> t, fence |-> NoFence,
                 policy |-> "ReplaceFromCurrent", length |-> length]
           c_1 == ApplyBatch(d.c, <<x>>)
           r == ConfigureText(d, t, length)
           f == [layer |-> t, id |-> d.next, fence |-> NoFence]
<1>1. d.next \in Nat /\ d.c \in Coordinator  BY DirectorIs
<1>2. /\ x \in Envelopes /\ x.id = d.next /\ x.target = t /\ x.policy = "ReplaceFromCurrent"
  BY <1>1 DEF Envelopes, Policy
<1>3. r = [d EXCEPT !.c = c_1, !.next = @ + 1]  BY <1>1, DirectorIs DEF ConfigureText
<1>4. r \in Director /\ Good(r.c)
  <2> DEFINE M == {}
  <2>1. Moves(d, M, r)  BY ConfigureTextMoves
  <2> QED  BY <2>1 DEF Moves
<1> HIDE DEF x, r
<1>5. /\ c_1.activated = d.c.activated /\ Shown(c_1) = Shown(d.c) \cup {t}
      /\ c_1.entry[t].id = d.next
      /\ \A u \in Shown(d.c) \ {t} : c_1.entry[u] = d.c.entry[u]
  BY <1>1, <1>2, SendStarts
<1> HIDE DEF c_1
<1>6. c_1 \in Coordinator
  <2>1. r.c = c_1  BY <1>3, DirectorIs
  <2> QED  BY <1>4, <2>1, GoodTyped
<1>7. r.c = c_1 /\ r.next = d.next + 1 /\ r.region = d.region /\ r.out = d.out
  BY <1>3, <1>6, TakenIs
<1>8. t \notin VideoLayer  BY DEF VideoLayer
<1>9. f.layer = t /\ f.id = d.next  OBVIOUS
<1>10. Regional(d.region) /\ (\A id \in DOMAIN d.region : id < d.next) /\ Stocked(d.c, d.region)
  BY DEF Ready, Keeping
<1> HIDE DEF f
<1>11. Reels(L, A, Q, S, s, H, r)  BY <1>4, <1>5, <1>7, <1>8, <1>9, <1>10, StartReels
<1> QED  BY <1>11 DEF r

(* The layers on which the first n steps of a story show a film, and those *)
(* on which they queue one; those that StreamIsCurrent leaves out.         *)
HasFilm(s, n) == {l \in VideoLayer : \E m \in 1 .. n : FilmsOf(s, m, l) # {}}
HasQueued(s, n) == {l \in VideoLayer : \E m \in 1 .. n : QueuedFilms(s, m, l) # {}}
Late(s, n) == {l \in VideoLayer : FilmAfterQueued(s, n, l)}

(* After n steps of the story, with films S on their way.                  *)
Filmed(s, n, d, S) ==
  /\ Numbered(d, S)
  /\ \A t \in VideoLayer : t \in Shown(d.c) => t \in HasFilm(s, n)
  /\ \A id \in DOMAIN d.region :
       d.region[id].kind = "Movie" => d.region[id].target \in HasQueued(s, n)
  /\ Newest(Late(s, n), d.region, d.c.activated, d.c, 0)
  /\ d.out = <<>>

(* Films q of director d, opened in front of those of coordinator s.       *)
Shows(s, n, c_1, q, d) ==
  Opened(Late(s, n), q, d.c) /\ Left(Late(s, n), c_1, q, d.c)

LEMMA LaterSets ==
  ASSUME NEW s, NEW n \in Nat
  PROVE  /\ HasFilm(s, n) \subseteq HasFilm(s, n + 1)
         /\ HasQueued(s, n) \subseteq HasQueued(s, n + 1) /\ Late(s, n) \subseteq Late(s, n + 1)
<1>1. 1 .. n \subseteq 1 .. n + 1  OBVIOUS
<1> QED  BY <1>1 DEF HasFilm, HasQueued, Late, FilmAfterQueued

LEMMA FilmedReels ==
  ASSUME NEW s, NEW n \in Nat, NEW d \in Director, NEW S, Filmed(s, n, d, S), Stocked(d.c, d.region)
  PROVE  Reels(Late(s, n), HasQueued(s, n), HasQueued(s, n), S, d.c, HasFilm(s, n), d)
<1> DEFINE q == d.out
<1>1. q = <<>> /\ ToSet(q) = {} /\ DOMAIN q = {}
  <2>1. q = <<>>  BY DEF Filmed
  <2> QED  BY <2>1 DEF ToSet
<1> HIDE DEF q
<1>2. S \cup ToSet(q) = S  BY <1>1
<1>3. Opened(Late(s, n), q, d.c) /\ Left(Late(s, n), d.c, q, d.c)  BY <1>1 DEF Opened, Left
<1> QED  BY <1>2, <1>3 DEF Reels, Filmed, Stocked, q

LEMMA BatchFilmed ==
  ASSUME StoriesSend, NEW s \in Script, NEW n \in Nat, n < Len(s),
         NEW now, NEW K, Told(s, now, n, K), NEW S \in SUBSET Films, Filmed(s, n, now, S),
         NEW ready,
         ready = IF s[n + 1].wait.kind = "Dialogue"
                   THEN ConfigureText(now, Line, s[n + 1].wait.length) ELSE now,
         NEW next, next = PrepareBatch(ready, s[n + 1].commands), next.error = None
  PROVE  /\ Filmed(s, n + 1, [next EXCEPT !.out = <<>>], S \cup ToSet(next.out))
         /\ Shows(s, n + 1, now.c, next.out, next)
<1> DEFINE F == Faded(s, n + 1)
           B == Behinds(s, n + 1)
           L == Late(s, n + 1)
           A == HasQueued(s, n)
           Q == HasQueued(s, n + 1)
           H == HasFilm(s, n)
           G == HasFilm(s, n + 1)
           q == s[n + 1].commands
           r == [next EXCEPT !.out = <<>>]
<1>1. n + 1 \in 1 .. Len(s)  BY StoriesWaitAtTheEnd
<1>2. now \in Director /\ Good(now.c) /\ Batch = Sent  BY DEF Told, StoriesSend
<1>3. q \in Seq(Planned(F, B))  BY <1>1, OrdersOfStory
<1>4. Ready(now, F, B)
  <2>1. 1 .. n \subseteq 1 .. n + 1  OBVIOUS
  <2>2. Said(s, n) \subseteq Said(s, n + 1)  BY <2>1 DEF Said
  <2>3. Faded(s, n) \subseteq F /\ Behinds(s, n) \subseteq B  BY <2>2 DEF Faded, Behinds
  <2>4. Ready(now, Faded(s, n), Behinds(s, n))  BY DEF Told
  <2> HIDE DEF F, B
  <2> QED  BY <2>3, <2>4, MoreReady
<1>5. H \subseteq G /\ A \subseteq Q /\ Late(s, n) \subseteq L  BY LaterSets
<1>6. Reels(L, A, Q, S, now.c, H, now)
  <2>1. Stocked(now.c, now.region)  BY <1>4 DEF Ready
  <2>2. Reels(Late(s, n), A, A, S, now.c, H, now)  BY <1>2, <2>1, FilmedReels
  <2> HIDE DEF L, A, Q, H
  <2> QED  BY <1>5, <2>2 DEF Reels, Newest, Opened, Left
<1>7. ready \in Director /\ Good(ready.c) /\ Ready(ready, F, B) /\ Reels(L, A, Q, S, now.c, H, ready)
  <2> HIDE DEF L, A, Q, H, F, B
  <2>1. CASE s[n + 1].wait.kind = "Dialogue"
    <3>1. s[n + 1].wait.length \in Nat  BY <1>1, <2>1, StoryIs
    <3> DEFINE M == {}
    <3>2. Moves(now, M, ready)  BY <1>2, <2>1, <3>1, LineIsText, ConfigureTextMoves
    <3>3. ready \in Director /\ Good(ready.c)  BY <3>2 DEF Moves
    <3>4. Ready(ready, F, B)  BY <1>2, <1>4, <2>1, <3>1, LineIsText, ConfigureTextWell
    <3>5. Reels(L, A, Q, S, now.c, H, ready)
      BY <1>2, <1>4, <1>6, <2>1, <3>1, LineIsText, TextReels
    <3> QED  BY <3>3, <3>4, <3>5
  <2>2. CASE s[n + 1].wait.kind # "Dialogue"  BY <1>2, <1>4, <1>6, <2>2
  <2> QED  BY <2>1, <2>2
<1>8. \A i \in DOMAIN q : q[i].kind = "Movie" =>
        /\ q[i].target \in A => q[i].target \in L
        /\ q[i].target \in G
        /\ q[i].policy = "Queue" /\ (\/ q[i].target \in H
             \/ \E j \in DOMAIN q : j < i /\ q[j].kind = "Movie" /\ q[j].target = q[i].target)
           => q[i].target \in Q
  <2> SUFFICES ASSUME NEW i \in DOMAIN q, q[i].kind = "Movie"
               PROVE  LET l == q[i].target IN
                      /\ l \in A => l \in L
                      /\ l \in G
                      /\ q[i].policy = "Queue" /\ (\/ l \in H
                           \/ \E j \in DOMAIN q : j < i /\ q[j].kind = "Movie" /\ q[j].target = l)
                         => l \in Q
    OBVIOUS
  <2> DEFINE l == q[i].target
  <2>1. l \in VideoLayer
    <3>1. DOMAIN q = 1 .. Len(q)  BY <1>3
    <3>2. q[i] \in Planned(F, B)
      <4> HIDE DEF q, F, B
      <4> QED  BY <1>3, <3>1, ElementOfSeq
    <3> QED  BY <3>2 DEF Planned, Orders, RegionOfKind, VideoLayer, RegionKind
  <2>2. i \in FilmsOf(s, n + 1, l)  BY DEF FilmsOf
  <2>3. n + 1 \in 1 .. n + 1 /\ \A m \in 1 .. n : m \in 1 .. n + 1 /\ m < n + 1  OBVIOUS
  <2>4. l \in A => l \in L
    <3> SUFFICES ASSUME NEW m \in 1 .. n, QueuedFilms(s, m, l) # {} PROVE FilmAfterQueued(s, n + 1, l)
      BY <2>1 DEF HasQueued, Late
    <3> QED  BY <2>2, <2>3 DEF FilmAfterQueued
  <2>5. l \in G  BY <2>1, <2>2, <2>3 DEF HasFilm
  <2>6. ASSUME q[i].policy = "Queue",
               \E m \in 1 .. n + 1 : \E j \in FilmsOf(s, m, l) : m < n + 1 \/ j < i
        PROVE  l \in Q
    <3>1. i \in QueuedFilms(s, n + 1, l)  BY <2>2, <2>6 DEF QueuedFilms
    <3> QED  BY <2>1, <2>3, <3>1 DEF HasQueued
  <2>7. ASSUME l \in H PROVE \E m \in 1 .. n + 1 : \E j \in FilmsOf(s, m, l) : m < n + 1
    BY <2>3, <2>7 DEF HasFilm
  <2>8. ASSUME NEW j \in DOMAIN q, j < i, q[j].kind = "Movie", q[j].target = l
        PROVE  j \in FilmsOf(s, n + 1, l)
    BY <2>8 DEF FilmsOf
  <2> QED  BY <2>3, <2>4, <2>5, <2>6, <2>7, <2>8
<1> HIDE DEF L, A, Q, H, F, B, q
<1>9. Reels(L, A, Q, S, now.c, G, next)
  <2> HIDE DEF G
  <2>1. next = PrepareBatch(ready, q)  BY DEF q
  <2> QED  BY <1>2, <1>3, <1>5, <1>7, <1>8, <2>1, BatchReels
<1>10. /\ r.c = next.c /\ r.region = next.region /\ r.next = next.next /\ r.out = <<>>
  <2>1. Moves(ready, FencesIn(s[n + 1]), next)
    BY <1>1, <1>2, <1>7, OrdersOfStory, PrepareBatchMoves
  <2> QED  BY <2>1, DirectorIs DEF Moves
<1> HIDE DEF r
<1>11. Filmed(s, n + 1, r, S \cup ToSet(next.out))
  BY <1>9, <1>10 DEF Reels, Filmed, Numbered, L, Q
<1>12. Shows(s, n + 1, now.c, next.out, next)  BY <1>9 DEF Reels, Shows, L
<1> QED  BY <1>11, <1>12 DEF r
-------------------------------------------------------------------------------
(* The films of the commands a frame activates, the first k of them.       *)
Following(R, q, k) == {R[q[i]].target : i \in {j \in DOMAIN q : j > k /\ R[q[j]].kind = "Movie"}}

Drawn(L, R, q, k, d) ==
  /\ \A x \in ToSet(d.out) : \E j \in 1 .. k : R[q[j]].kind = "Movie" /\ x = FilmOf(R[q[j]])
  /\ Opened(L \cup Following(R, q, k), d.out, d.c)

LEMMA ActivateDraws ==
  ASSUME NEW d \in Director, NEW R, Regional(R), \A id \in DOMAIN R : R[id].id = id,
         NEW q \in Seq(Ids), Lined(R, q, d.c), NEW F, NEW B, NEW k \in Nat, k < Len(q),
         Activating(d, R, q, k, F, B), NEW L, Newest(L, R, q, d.c, 0), Drawn(L, R, q, k, d),
         NEW r, r = Activate(d, q[k + 1]), r.error = None
  PROVE  d.error = None /\ r.next = d.next /\ Drawn(L, R, q, k + 1, r)
<1> DEFINE n == k + 1
           id == q[n]
           W == Restrict(d.region, DOMAIN d.region \ {id})
           m == [d EXCEPT !.region = W]
           x == R[id]
<1>1. d.error = None
  <2>1. d.error # None => r = d  BY DEF Activate
  <2> QED  BY <2>1
<1>2. DOMAIN d.region = DOMAIN R \ {q[j] : j \in 1 .. k} /\ \A i \in DOMAIN d.region : d.region[i] = R[i]
  BY <1>1 DEF Activating
<1>3. DOMAIN q = 1 .. Len(q) /\ Len(q) \in Nat /\ n \in DOMAIN q /\ n \in Nat /\ k < n
  BY LenProperties
<1>4. id \in DOMAIN R /\ id \in DOMAIN d.region
  <2>1. id \in DOMAIN R  BY <1>3 DEF Lined
  <2>2. ASSUME NEW j \in 1 .. k PROVE q[j] # id
    <3>1. j \in DOMAIN q /\ j # n  BY <1>3
    <3> QED  BY <1>3, <3>1 DEF Lined, EachOnce
  <2> QED  BY <1>2, <2>1, <2>2
<1>5. r = Apply(m, x)  BY <1>1, <1>2, <1>4 DEF Activate
<1>6. W \in Kept
  <2>1. d.region \in Kept  BY DirectorIs
  <2> QED  BY <2>1, RestrictTyped DEF Kept
<1> HIDE DEF W
<1>7. /\ m \in Director /\ m.c = d.c /\ m.next = d.next /\ m.out = d.out /\ m.error = None
  <2>1. m = [d EXCEPT !.region = W]  OBVIOUS
  <2> HIDE DEF m
  <2> QED  BY <1>1, <1>6, <2>1, RegionIs
<1>8. x \in Orders /\ x.id = id  BY <1>4, KeptIs
<1> HIDE DEF m, x
<1>9. /\ r \in Director /\ r.c = d.c /\ r.next = d.next
      /\ r.out = IF x.kind = "Movie" THEN Append(d.out, FilmOf(x)) ELSE d.out
  <2>1. Applied(m, x, r)  BY <1>5, <1>7, <1>8, ApplyFacts
  <2> QED  BY <1>7, <2>1 DEF Applied, Opens
<1>10. d.out \in Seq(Films)  BY DirectorIs
<1>11. x = R[q[n]]  BY DEF x
<1> DEFINE K == Following(R, q, k)
           N == Following(R, q, n)
<1>12. N \subseteq K /\ K \subseteq N \cup {R[q[n]].target} /\ (x.kind # "Movie" => K = N)
  <2>1. \A j \in DOMAIN q : j > k <=> (j > n \/ j = n)  BY <1>3
  <2> HIDE DEF n
  <2> QED  BY <1>11, <2>1 DEF Following
<1>13. 1 .. n = (1 .. k) \cup {n} /\ n \in 1 .. n  BY <1>3
<1>14. CASE x.kind # "Movie"
  <2>1. r.out = d.out  BY <1>9, <1>14
  <2>2. 1 .. k \subseteq 1 .. n  BY <1>13
  <2> HIDE DEF n, K, N
  <2>3. Drawn(L, R, q, n, r)  BY <1>9, <1>12, <1>14, <2>1, <2>2 DEF Drawn, K, N
  <2> QED  BY <1>1, <1>9, <2>3 DEF n
<1>15. CASE x.kind = "Movie"
  <2> DEFINE f == FilmOf(x)
             p == d.out
             o == r.out
             l == Len(p) + 1
  <2>1. o = Append(p, f) /\ f.layer = x.target /\ f.id = id  BY <1>8, <1>9, <1>15 DEF FilmOf
  <2>2. x.target \in VideoLayer
    <3>1. x.kind = "Movie" => x.target \in VideoLayer
      BY <1>4, KeptIs DEF x, VideoLayer
    <3> QED  BY <1>15, <3>1
  <2>3. f \in Films  BY <1>8, <1>15, <2>2 DEF Films, FilmOf, Orders
  <2> HIDE DEF f, n
  <2>4. /\ ToSet(o) = ToSet(p) \cup {f} /\ DOMAIN p = 1 .. Len(p) /\ Len(p) \in Nat
        /\ DOMAIN o = 1 .. l /\ (\A i \in DOMAIN p : o[i] = p[i]) /\ o[l] = f
    <3> HIDE DEF p, o
    <3>1. p \in Seq(Films)  BY <1>10 DEF p
    <3> QED  BY <2>1, <2>3, <3>1, AppendedSet
  <2>5. /\ l \in DOMAIN o /\ \A i \in DOMAIN p : i \in DOMAIN o /\ l > i
        /\ \A i \in DOMAIN o : i = l \/ i \in DOMAIN p
    BY <2>4
  <2>6. \A y \in ToSet(o) : \E j \in 1 .. n : R[q[j]].kind = "Movie" /\ y = FilmOf(R[q[j]])
    BY <1>11, <1>13, <1>15, <2>4 DEF Drawn, f
  <2> HIDE DEF o, p, l
  <2>7. Opened(L \cup N, o, r.c)
    <3> SUFFICES ASSUME NEW i \in DOMAIN o, o[i].layer \notin L \cup N,
                        \A j \in DOMAIN o : ~ (j > i /\ o[j].layer = o[i].layer)
                 PROVE  OnScreen(d.c, o[i].layer, o[i].id)
      BY <1>9 DEF Opened
    <3>1. CASE i = l
      <4>1. o[i].layer = x.target /\ o[i].id = q[n]  BY <2>1, <2>4, <3>1 DEF id
      <4>2. n > 0 /\ R[q[n]].kind = "Movie" /\ n \in DOMAIN q  BY <1>3, <1>11, <1>15
      <4>3. \A j \in DOMAIN q : j > n => R[q[j]].target # x.target
        <5> SUFFICES ASSUME NEW j \in DOMAIN q, j > n, R[q[j]].target = x.target PROVE FALSE
          OBVIOUS
        <5>1. q[j] \in DOMAIN R  BY DEF Lined
        <5>2. R[q[j]].kind = "Movie"  BY <2>2, <5>1, KeptIs DEF VideoLayer, RegionOfKind, RegionKind
        <5>3. x.target \in N  BY <5>2 DEF Following
        <5> QED  BY <4>1, <5>3
      <4> QED  BY <1>11, <4>1, <4>2, <4>3 DEF Newest
    <3>2. CASE i \in DOMAIN p
      <4>1. o[i] = p[i] /\ l \in DOMAIN o /\ l > i  BY <2>4, <2>5, <3>2
      <4>2. o[i].layer # x.target  BY <2>1, <2>4, <4>1
      <4>3. o[i].layer \notin L \cup K  BY <1>11, <1>12, <4>2
      <4>4. \A j \in DOMAIN p : ~ (j > i /\ p[j].layer = p[i].layer)  BY <2>4, <2>5, <4>1
      <4> QED  BY <3>2, <4>1, <4>3, <4>4 DEF Drawn, Opened, p
    <3> QED  BY <2>5, <3>1, <3>2
  <2>8. Drawn(L, R, q, n, r)  BY <2>6, <2>7 DEF Drawn, o
  <2> QED  BY <1>1, <1>9, <2>8 DEF n
<1> QED  BY <1>14, <1>15

LEMMA ActivateAllDraws ==
  ASSUME NEW d \in Director, NEW R, Regional(R), \A id \in DOMAIN R : R[id].id = id,
         NEW q \in Seq(Ids), Lined(R, q, d.c), NEW F, NEW B, Activating(d, R, q, 0, F, B),
         NEW L, Newest(L, R, q, d.c, 0), d.out = <<>>,
         NEW r, r = FoldLeft(Activate, d, q), r.error = None
  PROVE  r.next = d.next /\ Drawn(L, R, q, Len(q), r)
<1> DEFINE n == Len(q)
<1>1. n \in Nat  BY LenProperties
<1>2. PICK g \in [0 .. n -> Director] :
        /\ g[0] = d
        /\ \A k \in 1 .. n : g[k] = Activate(g[k - 1], q[k])
        /\ g[n] = r
  BY ActivateFold
<1> HIDE DEF n
<1>a. ASSUME NEW k \in 0 .. n - 1 PROVE g[k + 1] = Activate(g[k], q[k + 1]) /\ g[k] \in Director
  <2>1. k + 1 \in 1 .. n /\ (k + 1) - 1 = k /\ k \in 0 .. n  BY <1>1
  <2> QED  BY <1>2, <2>1
<1>3. \A k \in 0 .. n - 1 : g[k].error # None => g[k + 1].error # None
  BY <1>a DEF Activate
<1> DEFINE T == {k \in Nat : k <= n /\ g[k].error = None =>
                   /\ g[k].c = d.c /\ g[k].next = d.next
                   /\ Activating(g[k], R, q, k, F, B) /\ Drawn(L, R, q, k, g[k])}
<1>4. 0 \in T
  <2> DEFINE o == d.out
  <2>1. o = <<>> /\ ToSet(o) = {} /\ DOMAIN o = {}
    <3>1. o = <<>>  OBVIOUS
    <3> QED  BY <3>1 DEF ToSet
  <2> HIDE DEF o
  <2>2. Drawn(L, R, q, 0, d)  BY <2>1 DEF Drawn, Opened, o
  <2> QED  BY <1>1, <1>2, <2>2
<1>5. ASSUME NEW k \in Nat, k \in T PROVE k + 1 \in T
  <2> SUFFICES ASSUME k + 1 <= n, g[k + 1].error = None
               PROVE  /\ g[k + 1].c = d.c /\ g[k + 1].next = d.next
                      /\ Activating(g[k + 1], R, q, k + 1, F, B) /\ Drawn(L, R, q, k + 1, g[k + 1])
    OBVIOUS
  <2>1. k \in 0 .. n - 1 /\ k <= n /\ k < n  BY <1>1
  <2>2. g[k].error = None  BY <1>3, <2>1
  <2>3. /\ g[k] \in Director /\ g[k].c = d.c /\ g[k].next = d.next
        /\ Activating(g[k], R, q, k, F, B) /\ Drawn(L, R, q, k, g[k])
    BY <1>a, <1>5, <2>1, <2>2
  <2>4. g[k + 1] = Activate(g[k], q[k + 1])  BY <1>a, <2>1
  <2>5. g[k + 1].c = d.c
    <3>1. q[k + 1] = q[k + 1] /\ Stays(g[k], Activate(g[k], q[k + 1]))  BY <2>3, ActivateStays
    <3> QED  BY <2>3, <2>4, <3>1 DEF Stays
  <2>6. Activating(g[k + 1], R, q, k + 1, F, B)
    BY <2>1, <2>3, <2>4, ActivateStep DEF n
  <2>7. g[k + 1].next = g[k].next /\ Drawn(L, R, q, k + 1, g[k + 1])
    <3> DEFINE a == g[k]
               b == g[k + 1]
    <3>1. /\ a \in Director /\ Lined(R, q, a.c) /\ Newest(L, R, q, a.c, 0)
          /\ b = Activate(a, q[k + 1]) /\ b.error = None /\ k < Len(q)
          /\ Activating(a, R, q, k, F, B) /\ Drawn(L, R, q, k, a)
      BY <2>1, <2>3, <2>4 DEF n
    <3> HIDE DEF a, b
    <3>2. b.next = a.next /\ Drawn(L, R, q, k + 1, b)  BY <3>1, ActivateDraws
    <3> QED  BY <3>2 DEF a, b
  <2> QED  BY <2>3, <2>5, <2>6, <2>7
<1>6. \A k \in Nat : k \in T
  <2> HIDE DEF T
  <2> QED  BY <1>4, <1>5, Induction
<1>7. n \in T /\ n <= n /\ g[n].error = None  BY <1>1, <1>2, <1>6
<1> HIDE DEF n
<1> QED  BY <1>2, <1>7 DEF n

(* What is applied again is no film. *)
LEMMA ApplyAllKeeps ==
  ASSUME NEW d \in Director, d.error = None,
         NEW q \in Seq({x \in Orders : x.kind \notin RegionKind}),
         NEW r, r = FoldLeft(Apply, d, q), r.error = None
  PROVE  r.region = d.region /\ r.next = d.next /\ r.out = d.out
<1> DEFINE S == {x \in Orders : x.kind \notin RegionKind}
           V == {e \in Director : e.error = None =>
                   e.region = d.region /\ e.next = d.next /\ e.out = d.out}
<1>1. ASSUME NEW v \in V, NEW x \in S PROVE Apply(v, x) \in V
  <2>1. CASE v.error # None  BY <2>1 DEF Apply
  <2>2. CASE v.error = None
    <3>1. Applied(v, x, Apply(v, x)) /\ x.kind # "Movie"  BY <2>2, ApplyFacts DEF RegionKind
    <3> QED  BY <2>2, <3>1 DEF Applied, Opens
  <2> QED  BY <2>1, <2>2
<1>2. d \in V /\ q \in Seq(S)  OBVIOUS
<1>3. \A v \in V, x \in S : Apply(v, x) \in V  BY <1>1
<1> HIDE DEF V, S
<1>4. r \in V  BY <1>2, <1>3, ApplyFold
<1> QED  BY <1>4 DEF V

(* A frame.                                                                *)
LEMMA TickFilmed ==
  ASSUME Batch = Sent, NEW s, NEW n \in Nat, NEW d \in Director, Good(d.c),
         NEW F, NEW B, Ready(d, F, B), NEW S \in SUBSET Films, Filmed(s, n, d, S),
         NEW next, next = TickStage(d), next.error = None
  PROVE  /\ Filmed(s, n, [next EXCEPT !.out = <<>>], S \cup ToSet(next.out))
         /\ Shows(s, n, d.c, next.out, next)
<1> DEFINE c_1 == TickCoordinator(d.c)
           t == TakeActivated(c_1)
           R == d.region
           q == c_1.activated
           L == Late(s, n)
           e == [next EXCEPT !.out = <<>>]
           o == next.out
<1>1. /\ Numbered(d, S) /\ d.out = <<>> /\ Newest(L, R, d.c.activated, d.c, 0)
      /\ \A u \in VideoLayer : u \in Shown(d.c) => u \in HasFilm(s, n)
      /\ \A id \in DOMAIN R : R[id].kind = "Movie" => R[id].target \in HasQueued(s, n)
  BY DEF Filmed
<1>2. Regional(R) /\ Keeping(d, F, B) /\ Stocked(d.c, R) /\ OnlyMovies(d.c, R)
  BY DEF Ready, Keeping
<1> HIDE DEF c_1
<1>3. ~ c_1.failed
  <2> SUFFICES ASSUME c_1.failed PROVE FALSE  OBVIOUS
  <2>1. next.error = "ActivationLimit"  BY TickedIs DEF c_1
  <2> QED  BY <2>1 DEF None
<1>4. /\ Ticks(R, d.c, c_1) /\ q \in Seq(Ids) /\ t.entry = c_1.entry /\ t.activated = <<>>
      /\ Good(t)
  BY <1>3, TickedIs DEF c_1
<1>5. PICK m \in Director :
        /\ m.c = t /\ m.region = R /\ m.next = d.next /\ m.out = d.out /\ m.error = None
        /\ Lined(R, q, m.c) /\ Activating(m, R, q, 0, F, B)
        /\ next = Restart(FoldLeft(Activate, m, q))
  BY <1>3, TickedIs DEF c_1
<1>6. Rolls(R, {}, d.c, c_1)
  <2>1. Staged(d.c)  BY GoodTyped
  <2>2. Behind(d.c, "Video")  BY DEF Good, SoundAt, Patient, Region
  <2> HIDE DEF R
  <2> QED  BY <1>2, <1>3, <2>1, <2>2, TickRolls DEF c_1
<1> HIDE DEF t
<1> DEFINE a == FoldLeft(Activate, m, q)
           z == [a EXCEPT !.stage = <<>>]
<1>7. a \in Director /\ a.c = t  BY <1>4, <1>5, ActivateAllStays DEF Stays
<1>8. Activating(a, R, q, Len(q), F, B)  BY <1>2, <1>4, <1>5, ActivateAllWell
<1> HIDE DEF a
<1>9. next = FoldLeft(Apply, z, a.stage) /\ a.stage \in Seq(Orders)
  BY <1>5, <1>7, DirectorIs DEF Restart, a
<1>10. z \in Director /\ z.c = t /\ z.region = a.region /\ z.next = a.next /\ z.out = a.out
       /\ z.error = a.error
  <2> DEFINE p == <<>>
  <2>1. p \in Seq(Orders) /\ z = [a EXCEPT !.stage = p]  OBVIOUS
  <2> HIDE DEF p, z
  <2> QED  BY <1>7, <2>1, StageIs
<1> HIDE DEF z
<1>11. a.error = None
  <2> SUFFICES ASSUME a.error # None PROVE FALSE  OBVIOUS
  <2> DEFINE V == {z}
  <2>1. z \in V /\ \A v \in V, x \in Orders : Apply(v, x) \in V  BY <1>10 DEF Apply
  <2> DEFINE p == a.stage
  <2>2. p \in Seq(Orders) /\ next = FoldLeft(Apply, z, p)  BY <1>9
  <2> HIDE DEF V, p
  <2>3. FoldLeft(Apply, z, p) \in V  BY <2>1, <2>2, ApplyFold
  <2> QED  BY <1>10, <2>2, <2>3 DEF V
<1>12. next.region = a.region /\ next.next = a.next /\ next.out = a.out
  <2>1. a.stage \in Seq({x \in Planned(F, B) : x.kind \notin RegionKind})
    BY <1>8, <1>11 DEF Activating, Keeping
  <2> DEFINE U == {x \in Planned(F, B) : x.kind \notin RegionKind}
             W == {x \in Orders : x.kind \notin RegionKind}
             p == a.stage
  <2>2. U \subseteq W  BY DEF Planned
  <2>3. p \in Seq(W)
    <3>1. p \in Seq(U)  BY <2>1
    <3> HIDE DEF U, W, p
    <3> QED  BY <2>2, <3>1
  <2> QED  BY <1>9, <1>10, <1>11, <2>3, ApplyAllKeeps
<1>13. next \in Director /\ next.c = t
  <2>1. \A p \in Seq(Orders) : Stays(z, FoldLeft(Apply, z, p))  BY <1>10, ApplyAllStays
  <2> QED  BY <1>9, <1>10, <2>1 DEF Stays
<1>14. a.next = d.next /\ Drawn(L, R, q, Len(q), a)
  <2>1. Newest(L, R, q, c_1, 0)  BY <1>1, <1>6 DEF Rolls
  <2>2. Newest(L, R, q, t, 0)  BY <1>4, <2>1 DEF Newest, OnScreen, Shown
  <2> HIDE DEF R, L, q
  <2>3. \A id \in DOMAIN R : R[id].id = id  BY <1>1 DEF Numbered, R
  <2> QED  BY <1>1, <1>2, <1>4, <1>5, <1>11, <2>2, <2>3, ActivateAllDraws DEF a
<1>15. /\ DOMAIN next.region = DOMAIN R \ {q[j] : j \in 1 .. Len(q)}
       /\ \A id \in DOMAIN next.region : next.region[id] = R[id]
  BY <1>8, <1>11, <1>12 DEF Activating
<1>16. DOMAIN q = 1 .. Len(q)  BY <1>4
<1>17. \A x \in ToSet(o) : \E j \in DOMAIN q :
         x.id = q[j] /\ x = FilmOf(R[q[j]]) /\ q[j] \in DOMAIN R
  <2>1. \A j \in DOMAIN q : q[j] \in DOMAIN R /\ R[q[j]].id = q[j]
    BY <1>1, <1>5 DEF Lined, Numbered
  <2> HIDE DEF R, q
  <2> QED  BY <1>12, <1>14, <1>16, <2>1 DEF Drawn, FilmOf
<1>18. Opened(L, o, next.c)
  <2>1. Following(R, q, Len(q)) = {}
    <3> HIDE DEF R, q
    <3>1. \A j \in DOMAIN q : ~ (j > Len(q))  BY <1>4, <1>16, LenProperties
    <3> QED  BY <3>1 DEF Following
  <2> HIDE DEF L, R, q
  <2> QED  BY <1>7, <1>12, <1>13, <1>14, <2>1 DEF Drawn
<1>19. e.c = t /\ e.region = next.region /\ e.next = d.next /\ e.out = <<>>
  BY <1>12, <1>13, <1>14, DirectorIs
<1> HIDE DEF e, o, q
<1>20. Numbered(e, S \cup ToSet(o))
  <2> DEFINE G == S \cup ToSet(o)
  <2>1. e.next > 0 /\ \A id \in DOMAIN e.region : 0 < id /\ e.region[id].id = id
    BY <1>1, <1>15, <1>19 DEF Numbered
  <2>2. \A x \in ToSet(o) : 0 < x.id /\ x.id < d.next /\ x.id \in DOMAIN R /\ x.id \notin DOMAIN e.region
    BY <1>1, <1>2, <1>15, <1>16, <1>17, <1>19 DEF Numbered, Keeping
  <2>3. \A x \in S : 0 < x.id /\ x.id < d.next /\ x.id \notin DOMAIN R  BY <1>1 DEF Numbered
  <2>4. \A x, y \in ToSet(o) : x.id = y.id => x = y  BY <1>17
  <2>5. \A x, y \in S : x.id = y.id => x = y  BY <1>1 DEF Numbered
  <2> HIDE DEF R
  <2>6. \A x, y \in G : x.id = y.id => x = y  BY <2>2, <2>3, <2>4, <2>5
  <2>7. \A x \in G : 0 < x.id /\ x.id < e.next /\ x.id \notin DOMAIN e.region
    BY <1>15, <1>19, <2>2, <2>3 DEF R
  <2> QED  BY <2>1, <2>6, <2>7 DEF Numbered
<1>21. Filmed(s, n, e, S \cup ToSet(o))
  <2>1. \A u \in VideoLayer : u \in Shown(e.c) => u \in HasFilm(s, n)
    BY <1>1, <1>4, <1>6, <1>19 DEF Rolls, Shown
  <2>2. \A id \in DOMAIN e.region : e.region[id].kind = "Movie" => e.region[id].target \in HasQueued(s, n)
    BY <1>1, <1>15, <1>19
  <2>3. DOMAIN e.c.activated = {}  BY <1>4, <1>19
  <2>4. Newest(L, e.region, e.c.activated, e.c, 0)  BY <2>3 DEF Newest
  <2> QED  BY <1>19, <1>20, <2>1, <2>2, <2>4 DEF Filmed
<1>22. Left(L, d.c, o, next.c)
  <2>1. \A u \in VideoLayer : \A id : OnScreen(d.c, u, id) => OnScreen(next.c, u, id)
    BY <1>4, <1>6, <1>13 DEF Rolls, OnScreen, Shown
  <2> QED  BY <2>1 DEF Left
<1> QED  BY <1>18, <1>21, <1>22 DEF Shows, e, o
-------------------------------------------------------------------------------
(* The scope of a layer is that of the last film opened there.             *)
Scopes == [VideoLayer -> Nat]
Rescope(s, m) == [s EXCEPT ![m.layer] = m.id]
Rescoped(s, q) == FoldLeft(LAMBDA x, m : Rescope(x, m), s, q)

LEMMA RescopeFold ==
  ASSUME NEW base \in Scopes, NEW q \in Seq(Films)
  PROVE  \E g \in [0 .. Len(q) -> Scopes] :
           /\ g[0] = base
           /\ \A k \in 1 .. Len(q) : g[k] = Rescope(g[k - 1], q[k])
           /\ g[Len(q)] = Rescoped(base, q)
<1> DEFINE V == Scopes
           n == Len(q)
           F == [p \in V \X (1 .. n) |-> Rescope(p[1], q[p[2]])]
           Solves(it) == it = [s \in SUBSET (1 .. n) |->
                                 IF s = {} THEN base ELSE Rescope(it[s \ {Max(s)}], q[Max(s)])]
<1>1. n \in Nat /\ DOMAIN q = 1 .. n /\ \A i \in 1 .. n : q[i] \in Films
  BY LenProperties, ElementOfSeq
<1>a. \A v \in Scopes, m \in Films : Rescope(v, m) \in Scopes  BY DEF Scopes, Films, Rescope
<1> HIDE DEF n
<1>2. /\ F \in [V \X (1 .. n) -> V]
      /\ \A v \in V, k \in 1 .. n : F[<<v, k>>] = Rescope(v, q[k])
  BY <1>1, <1>a
<1> HIDE DEF F, V
<1>b. base \in V  BY DEF V
<1>3. PICK f \in [SUBSET (1 .. n) -> V] : FoldsWith(f, base, F, V, n)
  BY <1>1, <1>2, <1>b, FoldRecursion
<1>4. Solves(f)
  <2> SUFFICES ASSUME NEW s \in SUBSET (1 .. n), s # {}
               PROVE  f[s] = Rescope(f[s \ {Max(s)}], q[Max(s)])
    BY <1>3 DEF FoldsWith
  <2>1. Max(s) \in 1 .. n  BY <1>1, MaxIsThere
  <2>2. f[s \ {Max(s)}] \in V  OBVIOUS
  <2> QED  BY <1>2, <1>3, <2>1, <2>2 DEF FoldsWith
<1> DEFINE it == CHOOSE h : Solves(h)
<1>5. Solves(it)
  <2> HIDE DEF Solves
  <2> QED  BY <1>4
<1>6. Rescoped(base, q) = it[1 .. n]  BY <1>1 DEF FoldLeft, MapThenFoldSet, Rescoped, Rescope
<1> HIDE DEF it
<1>7. FoldsWith(it, base, F, V, n)
  <2>1. it[{}] = base  BY <1>5
  <2>2. ASSUME NEW s \in SUBSET (1 .. n), s # {}, it[s \ {Max(s)}] \in V
        PROVE  it[s] = F[<<it[s \ {Max(s)}], Max(s)>>]
    <3>1. Max(s) \in 1 .. n  BY <1>1, <2>2, MaxIsThere
    <3>2. it[s] = Rescope(it[s \ {Max(s)}], q[Max(s)])  BY <1>5, <2>2
    <3> HIDE DEF Solves
    <3> QED  BY <1>2, <2>2, <3>1, <3>2
  <2> QED  BY <2>1, <2>2 DEF FoldsWith
<1>8. PICK g : FoldSteps(g, it, base, F, V, n)
  BY <1>1, <1>2, <1>7, <1>b, FoldValues
<1>9. \A k \in 1 .. n : g[k] = Rescope(g[k - 1], q[k])
  <2> SUFFICES ASSUME NEW k \in 1 .. n PROVE g[k] = Rescope(g[k - 1], q[k])  OBVIOUS
  <2>1. g[k - 1] \in V
    <3>1. k - 1 \in 0 .. n  BY <1>1
    <3> QED  BY <1>8, <3>1 DEF FoldSteps
  <2> QED  BY <1>2, <1>8, <2>1 DEF FoldSteps
<1>10. g \in [0 .. n -> V] /\ g[0] = base /\ g[n] = it[1 .. n]  BY <1>8 DEF FoldSteps
<1> QED  BY <1>6, <1>9, <1>10 DEF n, V

LEMMA RescopedIs ==
  ASSUME NEW s \in Scopes, NEW q \in Seq(Films), NEW r, r = Rescoped(s, q)
  PROVE  /\ r \in Scopes
         /\ \A l \in VideoLayer :
              \/ r[l] = s[l] /\ \A i \in DOMAIN q : q[i].layer # l
              \/ \E i \in DOMAIN q : /\ q[i].layer = l /\ r[l] = q[i].id
                                     /\ \A j \in DOMAIN q : j > i => q[j].layer # l
<1> DEFINE n == Len(q)
           Is(k, x) == \A l \in VideoLayer :
              \/ x[l] = s[l] /\ \A i \in 1 .. k : q[i].layer # l
              \/ \E i \in 1 .. k : /\ q[i].layer = l /\ x[l] = q[i].id
                                   /\ \A j \in 1 .. k : j > i => q[j].layer # l
<1>1. n \in Nat /\ DOMAIN q = 1 .. n /\ \A i \in 1 .. n : q[i] \in Films
  BY LenProperties, ElementOfSeq
<1>2. PICK g \in [0 .. n -> Scopes] :
        /\ g[0] = s
        /\ \A k \in 1 .. n : g[k] = Rescope(g[k - 1], q[k])
        /\ g[n] = r
  BY RescopeFold
<1> HIDE DEF n
<1> DEFINE T == {k \in Nat : k <= n => Is(k, g[k])}
<1>3. 0 \in T  BY <1>2
<1>4. ASSUME NEW k \in Nat, k \in T PROVE k + 1 \in T
  <2> SUFFICES ASSUME k + 1 <= n, NEW l \in VideoLayer
               PROVE  \/ g[k + 1][l] = s[l] /\ \A i \in 1 .. k + 1 : q[i].layer # l
                      \/ \E i \in 1 .. k + 1 : /\ q[i].layer = l /\ g[k + 1][l] = q[i].id
                                               /\ \A j \in 1 .. k + 1 : j > i => q[j].layer # l
    OBVIOUS
  <2>1. k + 1 \in 1 .. n /\ (k + 1) - 1 = k /\ k <= n /\ k \in 0 .. n  BY <1>1
  <2>2. g[k] \in Scopes /\ g[k + 1] = Rescope(g[k], q[k + 1]) /\ q[k + 1] \in Films /\ Is(k, g[k])
    BY <1>1, <1>2, <1>4, <2>1
  <2>3. \A i \in 1 .. k + 1 : i = k + 1 \/ (i \in 1 .. k /\ ~ (i > k + 1))  OBVIOUS
  <2>4. k + 1 \in 1 .. k + 1 /\ ~ (k + 1 > k + 1) /\ \A i \in 1 .. k : i \in 1 .. k + 1  OBVIOUS
  <2>5. IF q[k + 1].layer = l THEN g[k + 1][l] = q[k + 1].id ELSE g[k + 1][l] = g[k][l]
    BY <2>2 DEF Rescope, Scopes
  <2>6. CASE q[k + 1].layer = l  BY <2>3, <2>4, <2>5, <2>6
  <2>7. CASE q[k + 1].layer # l
    <3> DEFINE N == k + 1
    <3> HIDE DEF N
    <3>1. \/ g[N][l] = s[l] /\ \A i \in 1 .. k : q[i].layer # l
          \/ \E i \in 1 .. k : /\ q[i].layer = l /\ g[N][l] = q[i].id
                               /\ \A j \in 1 .. k : j > i => q[j].layer # l
      BY <2>2, <2>5, <2>7 DEF N
    <3> QED  BY <2>3, <2>4, <2>7, <3>1 DEF N
  <2> QED  BY <2>6, <2>7
<1>5. \A k \in Nat : k \in T
  <2> HIDE DEF T
  <2> QED  BY <1>3, <1>4, Induction
<1>6. r \in Scopes /\ Is(n, r)
  <2>1. n \in T /\ n <= n /\ n \in 0 .. n  BY <1>1, <1>5
  <2> QED  BY <1>2, <2>1
<1> QED  BY <1>1, <1>6

(* A film is current: its layer shows it, or it is late.                   *)
Current(s, n, c_1, x) == x.layer \in Late(s, n) \/ OnScreen(c_1, x.layer, x.id)

(* The films S that are on their way, and those a scope leaves.            *)
Sees(s, n, c_1, S, sc) == \A x \in S : sc[x.layer] = x.id => Current(s, n, c_1, x)
Screened(s, n, d, S, sc) == Filmed(s, n, d, S) /\ Sees(s, n, d.c, S, sc)

LEMMA OpenedScreened ==
  ASSUME NEW s, NEW n, NEW c_1, NEW next \in Director, NEW S \in SUBSET Films,
         NEW was \in Scopes, NEW now, now = Rescoped(was, next.out),
         Shows(s, n, c_1, next.out, next),
         NEW d, d.c = next.c, Filmed(s, n, d, S \cup ToSet(next.out)),
         Sees(s, n, c_1, S, was)
  PROVE  now \in Scopes /\ Screened(s, n, d, S \cup ToSet(next.out), now)
<1> DEFINE q == next.out
           L == Late(s, n)
<1>1. q \in Seq(Films)  BY DirectorIs
<1>2. now \in Scopes
  <2> HIDE DEF q
  <2> QED  BY <1>1, RescopedIs DEF q
<1>3. ASSUME NEW x \in S \cup ToSet(q), now[x.layer] = x.id PROVE Current(s, n, next.c, x)
  <2> DEFINE l == x.layer
  <2>1. q \in Seq(Films) /\ DOMAIN q = 1 .. Len(q) /\ \A i \in DOMAIN q : q[i] \in Films
    BY <1>1
  <2>2. l \in VideoLayer  BY <2>1 DEF ToSet, Films
  <2>3. \/ now[l] = was[l] /\ \A i \in DOMAIN q : q[i].layer # l
        \/ \E i \in DOMAIN q : /\ q[i].layer = l /\ now[l] = q[i].id
                               /\ \A j \in DOMAIN q : j > i => q[j].layer # l
    <3> HIDE DEF q, l
    <3> QED  BY <1>1, <2>2, RescopedIs DEF q
  <2>4. CASE now[l] = was[l] /\ \A i \in DOMAIN q : q[i].layer # l
    <3>1. x \in S  BY <2>4 DEF ToSet
    <3>2. l \in L \/ OnScreen(c_1, l, x.id)  BY <1>3, <2>4, <3>1 DEF Current, Sees
    <3> QED  BY <2>2, <2>4, <3>2 DEF Shows, Left, Current
  <2>5. CASE \E i \in DOMAIN q : /\ q[i].layer = l /\ now[l] = q[i].id
                                 /\ \A j \in DOMAIN q : j > i => q[j].layer # l
    <3>1. PICK i \in DOMAIN q : /\ q[i].layer = l /\ now[l] = q[i].id
                                /\ \A j \in DOMAIN q : j > i => q[j].layer # l
      BY <2>5
    <3>2. l \in L \/ OnScreen(next.c, l, q[i].id)  BY <3>1 DEF Shows, Opened
    <3> QED  BY <1>3, <3>1, <3>2 DEF Current
  <2> QED  BY <2>3, <2>4, <2>5
<1>4. \A x \in S \cup ToSet(q) : now[x.layer] = x.id => Current(s, n, d.c, x)  BY <1>3
<1> QED  BY <1>2, <1>4 DEF Screened, Sees

(* Fewer films; a call of the coordinator under which the films of layers T*)
(* end, and none of them is left.                                          *)
LEMMA FilmedFewer ==
  ASSUME NEW s, NEW n, NEW d, NEW S, Filmed(s, n, d, S), NEW U \in SUBSET S
  PROVE  Filmed(s, n, d, U)
BY DEF Filmed, Numbered

Leaves(U, was, S, sc, T) ==
  U \subseteq S /\ \A x \in U : was[x.layer] = x.id => sc[x.layer] = x.id /\ x.layer \notin T

LEMMA RollsScreened ==
  ASSUME NEW s, NEW n, NEW d \in Director, NEW S \in SUBSET Films, NEW sc, Screened(s, n, d, S, sc),
         NEW r \in Coordinator, NEW T, Rolls(d.region, T, d.c, r), NEW e, e = [d EXCEPT !.c = r],
         NEW U, NEW was, Leaves(U, was, S, sc, T)
  PROVE  Screened(s, n, e, U, was)
<1>1. e.c = r /\ e.region = d.region /\ e.next = d.next /\ e.out = d.out  BY DirectorIs
<1>2. Filmed(s, n, d, U)  BY FilmedFewer DEF Screened, Leaves
<1>3. Newest(Late(s, n), d.region, r.activated, r, 0)  BY <1>2 DEF Filmed, Rolls
<1>4. \A t \in VideoLayer : t \in Shown(r) => t \in HasFilm(s, n)  BY <1>2 DEF Filmed, Rolls
<1>5. Filmed(s, n, e, U)  BY <1>1, <1>2, <1>3, <1>4 DEF Filmed, Numbered
<1>6. ASSUME NEW x \in U, was[x.layer] = x.id PROVE Current(s, n, r, x)
  <2>1. sc[x.layer] = x.id /\ x.layer \notin T /\ x \in S /\ x \in Films  BY <1>6 DEF Leaves
  <2>2. x.layer \in VideoLayer  BY <2>1 DEF Films
  <2>3. Current(s, n, d.c, x)  BY <2>1 DEF Screened, Sees
  <2> QED  BY <2>1, <2>2, <2>3 DEF Current, Rolls
<1> QED  BY <1>1, <1>5, <1>6 DEF Screened, Sees
-------------------------------------------------------------------------------
(* A saved game has films that are current.                                *)
SavedFilms(s, game) ==
  /\ Filmed(s, game.sent, game.director, game.streams)
  /\ \A x \in game.streams : Current(s, game.sent, game.director.c, x)

FilmsNow == Screened(script, sent, director, streams \cup requests, scope)

(* The invariant of the films: each has a number of its own, the Player    *)
(* keeps those that are current, and when whoever comes is next none of its*)
(* streams has been cancelled, so that a save has no stream but such ones. *)
FilmsInv ==
  /\ scope \in Scopes
  /\ ~ failed => FilmsNow /\ (turn = "idle" => \A x \in streams : scope[x.layer] = x.id)
  /\ saved # <<>> => SavedFilms(script, saved[1])

LEMMA FilmsStart ==
  PlayerInit => FilmsInv
<1> SUFFICES ASSUME PlayerInit PROVE FilmsInv  OBVIOUS
<1> DEFINE d == NewDirector
           S == streams \cup requests
<1>1. /\ director = d /\ sent = 0 /\ S = {} /\ streams = {} /\ saved = <<>>
      /\ scope = [l \in VideoLayer |-> 0]
  BY DEF PlayerInit
<1>2. d.next = 1 /\ DOMAIN d.region = {} /\ d.out = <<>> /\ d.c = NewCoordinator
  BY DEF NewDirector
<1>3. Shown(d.c) = {} /\ DOMAIN d.c.activated = {}  BY <1>2 DEF NewCoordinator, Shown
<1>4. scope \in Scopes  BY <1>1 DEF Scopes
<1> HIDE DEF d, S
<1>5. Filmed(script, 0, d, S)  BY <1>1, <1>2, <1>3 DEF Filmed, Numbered, Newest
<1>6. FilmsNow  BY <1>1, <1>5 DEF Screened, Sees, FilmsNow, S
<1> QED  BY <1>1, <1>4, <1>6 DEF FilmsInv

(* The story goes on, from director `now' and with films `kept'.           *)
LEMMA StoryFilms ==
  ASSUME StoriesSend, PlayerInv, scope \in Scopes, ~ failed, NEW now, NEW kept \in SUBSET Films,
         StepStory(now, kept), NEW H, Told(script, now, sent, H), streams' \in SUBSET Films,
         Screened(script, sent, now, streams' \cup kept, scope)
  PROVE  scope' \in Scopes /\ script' = script /\ (~ failed' => FilmsNow')
<1> DEFINE n == sent + 1
           ready == IF script[n].wait.kind = "Dialogue"
                      THEN ConfigureText(now, Line, script[n].wait.length) ELSE now
           next == PrepareBatch(ready, script[n].commands)
           r == [next EXCEPT !.out = <<>>]
           S == streams' \cup kept
           o == next.out
<1>1. sent < Len(script) /\ sent' = n /\ wait' = script[n].wait /\ script' = script
  BY DEF StepStory
<1>2. \/ failed' = TRUE /\ scope' = scope
      \/ /\ next.error = None /\ director' = r /\ requests' = kept \cup ToSet(o)
         /\ scope' = Rescoped(scope, o)
  BY <1>1 DEF StepStory, Commit, End, Rescoped, Rescope
<1>3. script \in Script /\ sent \in Nat  BY InvIs
<1>4. CASE failed' = TRUE /\ scope' = scope  BY <1>1, <1>4
<1>5. CASE /\ next.error = None /\ director' = r /\ requests' = kept \cup ToSet(o)
           /\ scope' = Rescoped(scope, o)
  <2>1. S \in SUBSET Films  OBVIOUS
  <2>2. Filmed(script, sent, now, S)  BY DEF Screened
  <2>3. Filmed(script, n, r, S \cup ToSet(o)) /\ Shows(script, n, now.c, o, next)
    <3> HIDE DEF S, next, r, o
    <3>1. /\ Filmed(script, sent + 1, [next EXCEPT !.out = <<>>], S \cup ToSet(next.out))
          /\ Shows(script, sent + 1, now.c, next.out, next)
      <4> HIDE DEF ready
      <4>1. /\ ready = IF script[sent + 1].wait.kind = "Dialogue"
                       THEN ConfigureText(now, Line, script[sent + 1].wait.length) ELSE now
            /\ next = PrepareBatch(ready, script[sent + 1].commands)
        BY DEF ready, next
      <4> QED  BY <1>1, <1>3, <1>5, <2>1, <2>2, <4>1, BatchFilmed
    <3> QED  BY <3>1 DEF r, o
  <2>4. next \in Director
    <3>1. n \in 1 .. Len(script)  BY <1>1, <1>3, StoriesWaitAtTheEnd
    <3>2. /\ now \in Director /\ Good(now.c) /\ Batch = Sent  BY DEF Told, StoriesSend
    <3> HIDE DEF n, next
    <3>3. ready \in Director /\ Good(ready.c)
      <4>1. CASE script[n].wait.kind = "Dialogue"
        <5>1. script[n].wait.length \in Nat  BY <1>3, <3>1, <4>1, StoryIs
        <5> DEFINE M == {}
        <5>2. Moves(now, M, ready)  BY <3>2, <4>1, <5>1, LineIsText, ConfigureTextMoves
        <5> QED  BY <5>2 DEF Moves
      <4>2. CASE script[n].wait.kind # "Dialogue"  BY <3>2, <4>2
      <4> QED  BY <4>1, <4>2
    <3> HIDE DEF ready
    <3>4. Moves(ready, FencesIn(script[n]), next)
      BY <1>3, <1>5, <3>1, <3>2, <3>3, OrdersOfStory, PrepareBatchMoves DEF next
    <3> QED  BY <3>4 DEF Moves
  <2> HIDE DEF n, next, S
  <2>5. r.c = next.c
    <3>1. next.out \in Seq(Films) /\ <<>> \in Seq(Films)  BY <2>4, DirectorIs
    <3> QED  BY <2>4, <3>1, OutSet DEF Stays
  <2>6. Sees(script, n, now.c, S, scope)
    <3>1. Sees(script, sent, now.c, S, scope)  BY DEF Screened, S
    <3> QED  BY <1>3, <3>1, LaterSets DEF Sees, Current, n
  <2> HIDE DEF r, o
  <2>7. scope' \in Scopes /\ Screened(script, n, r, S \cup ToSet(o), scope')
    <3> DEFINE z == scope'
    <3>1. z = Rescoped(scope, next.out)  BY <1>5 DEF o
    <3> HIDE DEF z
    <3>2. z \in Scopes /\ Screened(script, n, r, S \cup ToSet(next.out), z)
      BY <2>1, <2>3, <2>4, <2>5, <2>6, <3>1, OpenedScreened DEF o
    <3> QED  BY <3>2 DEF z, o
  <2>8. streams' \cup requests' = S \cup ToSet(o)  BY <1>5 DEF S
  <2>9. Screened(script', sent', director', streams' \cup requests', scope')
    BY <1>1, <1>5, <2>7, <2>8
  <2> QED  BY <1>1, <2>7, <2>9 DEF FilmsNow
<1> QED  BY <1>2, <1>4, <1>5

(* A call of the coordinator, under which the films of layers T end.       *)
LEMMA FilmsRoll ==
  ASSUME FilmsNow, NEW H, Told(script, director, sent, H), FilmSet(streams), FilmSet(requests),
         NEW r, Good(r), NEW T, Rolls(director.region, T, director.c, r),
         NEW e, e = [director EXCEPT !.c = r], NEW U, NEW was, Leaves(U, was, streams \cup requests, scope, T)
  PROVE  Screened(script, sent, e, U, was)
<1> DEFINE S == streams \cup requests
           d == director
<1>1. d \in Director /\ r \in Coordinator /\ S \in SUBSET Films  BY GoodTyped DEF Told, FilmSet
<1>2. Screened(script, sent, d, S, scope)  BY DEF FilmsNow
<1>3. Leaves(U, was, S, scope, T) /\ Rolls(d.region, T, d.c, r) /\ e = [d EXCEPT !.c = r]
  OBVIOUS
<1> HIDE DEF S, d
<1> QED  BY <1>1, <1>2, <1>3, RollsScreened

LEMMA LaunchFilms ==
  ASSUME StoriesSend, PlayerInv, FilmsInv, Launch
  PROVE  FilmsInv'
<1> DEFINE H == completions \cup signals
           none == {}
<1>1. /\ wait.kind = "Launch" /\ StepStory(director, none) /\ turn' = "process"
      /\ streams' = streams /\ saved' = saved
  BY DEF Launch, slot
<1>2. sent = 0 /\ ~ failed  BY <1>1, InvIs DEF PlayerInv
<1>3. Told(script, director, sent, H) /\ streams \in SUBSET Films  BY <1>2 DEF PlayerInv, FilmSet
<1>4. scope \in Scopes /\ FilmsNow  BY <1>2 DEF FilmsInv
<1>5. Screened(script, sent, director, streams' \cup none, scope)
  BY <1>1, <1>4, FilmedFewer DEF FilmsNow, Screened, Sees
<1> HIDE DEF H, none
<1>6. scope' \in Scopes /\ script' = script /\ (~ failed' => FilmsNow')
  BY <1>1, <1>2, <1>3, <1>4, <1>5, StoryFilms DEF none
<1> QED  BY <1>1, <1>6 DEF FilmsInv

LEMMA FrameFilms ==
  ASSUME StoriesSend, PlayerInv, FilmsInv, Frame
  PROVE  FilmsInv'
<1> DEFINE H == completions \cup signals
           next == TickStage(director)
           r == [next EXCEPT !.out = <<>>]
           S == streams \cup requests
           o == next.out
<1>1. /\ turn = "idle" /\ ~ failed /\ script' = script /\ sent' = sent /\ streams' = streams
      /\ saved' = saved /\ (turn' = "idle" => streams = {})
  BY DEF Frame, story, slot, MediaActive
<1>2. \/ /\ director' = director /\ requests' = requests /\ scope' = scope /\ failed' = failed
      \/ failed' = TRUE /\ scope' = scope
      \/ /\ next.error = None /\ director' = r /\ requests' = requests \cup ToSet(o)
         /\ scope' = Rescoped(scope, o)
  BY DEF Frame, Commit, End, Rescoped, Rescope
<1>3. scope \in Scopes /\ FilmsNow /\ (saved' # <<>> => SavedFilms(script', saved'[1]))
  BY <1>1 DEF FilmsInv
<1>4. Told(script, director, sent, H) /\ sent \in Nat /\ S \in SUBSET Films
  BY <1>1, InvIs DEF PlayerInv, FilmSet
<1>5. CASE director' = director /\ requests' = requests /\ scope' = scope /\ failed' = failed
  <2>1. FilmsNow'  BY <1>1, <1>3, <1>5 DEF FilmsNow
  <2> QED  BY <1>1, <1>3, <1>5, <2>1 DEF FilmsInv
<1>6. CASE failed' = TRUE /\ scope' = scope  BY <1>3, <1>6 DEF FilmsInv
<1>7. CASE /\ next.error = None /\ director' = r /\ requests' = requests \cup ToSet(o)
           /\ scope' = Rescoped(scope, o)
  <2> DEFINE F == Faded(script, sent)
             B == Behinds(script, sent)
             d == director
  <2>1. d \in Director /\ Good(d.c) /\ Batch = Sent /\ Ready(d, F, B)
    BY <1>4 DEF Told, StoriesSend
  <2>2. Screened(script, sent, d, S, scope)  BY <1>3 DEF FilmsNow
  <2> HIDE DEF S, F, B, H
  <2>3. next \in Director /\ Good(next.c)
    <3> HIDE DEF next
    <3>1. next = TickStage(d)  BY DEF next
    <3> HIDE DEF d
    <3> QED  BY <1>7, <2>1, <3>1, TickStageGood
  <2>4. Filmed(script, sent, r, S \cup ToSet(o)) /\ Shows(script, sent, d.c, o, next)
    <3> DEFINE m == next
    <3>1. m = TickStage(d) /\ m.error = None  BY <1>7
    <3>2. Filmed(script, sent, d, S)  BY <2>2 DEF Screened
    <3> HIDE DEF m, d
    <3>3. /\ Filmed(script, sent, [m EXCEPT !.out = <<>>], S \cup ToSet(m.out))
          /\ Shows(script, sent, d.c, m.out, m)
      BY <1>4, <2>1, <3>1, <3>2, TickFilmed
    <3> QED  BY <3>3 DEF m
  <2> HIDE DEF next, d
  <2>5. r.c = next.c
    <3>1. next.out \in Seq(Films) /\ <<>> \in Seq(Films)  BY <2>3, DirectorIs
    <3> QED  BY <2>3, <3>1, OutSet DEF Stays
  <2> HIDE DEF r, o
  <2>6. scope' \in Scopes /\ Screened(script, sent, r, S \cup ToSet(o), scope')
    <3> DEFINE z == scope'
    <3>1. z = Rescoped(scope, next.out)  BY <1>7 DEF o
    <3>2. Sees(script, sent, d.c, S, scope)  BY <2>2 DEF Screened
    <3> HIDE DEF z
    <3>3. z \in Scopes /\ Screened(script, sent, r, S \cup ToSet(next.out), z)
      BY <1>3, <1>4, <2>3, <2>4, <2>5, <3>1, <3>2, OpenedScreened DEF o
    <3> QED  BY <3>3 DEF z, o
  <2>7. streams' \cup requests' = S \cup ToSet(o)  BY <1>1, <1>7 DEF S
  <2>8. FilmsNow'
    <3>1. Screened(script', sent', director', streams' \cup requests', scope')
      BY <1>1, <1>7, <2>6, <2>7
    <3> QED  BY <3>1 DEF FilmsNow
  <2> QED  BY <1>1, <1>3, <2>6, <2>8 DEF FilmsInv
<1> QED  BY <1>2, <1>5, <1>6, <1>7

LEMMA ProcessFilms ==
  ASSUME StoriesSend, PlayerInv, FilmsInv, NEW ends \in SUBSET streams, Process(ends)
  PROVE  FilmsInv'
<1> DEFINE playing == {s \in streams : IsLive(s)}
           opened == {r \in requests : IsLive(r)}
           P == playing \cup opened
           heard == signals \cup completions
           over == EndStreams(ShowFrames(P), ends)
           e == [director EXCEPT !.c = over.c]
           T == {x.layer : x \in ends}
           none == {}
<1>1. /\ turn = "process" /\ ~ failed /\ sent # 0 /\ ends \subseteq playing /\ streams' = P \ ends
      /\ saved' = saved
      /\ \/ failed' = TRUE /\ scope' = scope /\ script' = script
         \/ /\ CanShow(P) /\ ~ over.c.failed
            /\ \/ StepStory(e, none) /\ turn' = turn
               \/ /\ director' = e /\ requests' = none /\ scope' = scope
                  /\ script' = script /\ sent' = sent
  <2>1. turn = "process"  BY DEF Process
  <2>2. sent # 0  BY <2>1 DEF PlayerInv
  <2> QED  BY <2>1, <2>2 DEF Process, story, slot, End
<1>2. FilmSet(streams) /\ FilmSet(requests)  BY InvIs
<1>3. FilmSet(P) /\ ends \in SUBSET P
  <2>1. P \subseteq streams \cup requests  OBVIOUS
  <2> QED  BY <1>1, <1>2, <2>1, Unions
<1>4. Told(script, director, sent, heard)
  <2>1. heard = completions \cup signals  OBVIOUS
  <2> QED  BY <1>1, <2>1 DEF PlayerInv
<1>5. scope \in Scopes /\ FilmsNow /\ (script' = script /\ saved' # <<>> => SavedFilms(script', saved'[1]))
  BY <1>1 DEF FilmsInv
<1>6. /\ Leaves(P \ ends, scope, streams \cup requests, scope, T)
      /\ \A x \in P \ ends : scope[x.layer] = x.id
  <2>1. \A x \in P : x \in streams \cup requests /\ scope[x.layer] = x.id  BY DEF IsLive
  <2>2. \A x, y \in streams \cup requests : x.id = y.id => x = y
    BY <1>5 DEF FilmsNow, Screened, Filmed, Numbered
  <2> HIDE DEF P
  <2>3. ASSUME NEW x \in P \ ends, NEW y \in ends, x.layer = y.layer PROVE FALSE
    <3>1. x.id = y.id  BY <1>3, <2>1, <2>3
    <3> QED  BY <1>3, <2>1, <2>2, <3>1
  <2> QED  BY <2>1, <2>3 DEF Leaves
<1>7. ASSUME CanShow(P), ~ over.c.failed
      PROVE  /\ Screened(script, sent, e, P \ ends, scope)
             /\ Told(script, e, sent, heard \cup over.done)
  <2>1. Good(director.c) /\ Ready(director, Faded(script, sent), Behinds(script, sent))
    BY <1>4 DEF Told
  <2>2. /\ Good(over.c) /\ Completes(director.c, over.done, over.c)
        /\ \A R : Regional(R) => Goes(R, T, director.c, over.c)
    <3> HIDE DEF P
    <3> QED  BY <1>3, <1>7, <2>1, StreamsGood
  <2> HIDE DEF over, heard, T, P
  <2>3. Rolls(director.region, T, director.c, over.c)
    BY <2>1, <2>2 DEF Goes, Ready, Keeping
  <2>4. Screened(script, sent, e, P \ ends, scope)
    BY <1>2, <1>4, <1>5, <1>6, <2>2, <2>3, FilmsRoll
  <2>5. \A R : Regional(R) => Calm(R, director.c, over.c)  BY <2>2 DEF Goes
  <2>6. Told(script, e, sent, heard \cup over.done)  BY <1>4, <2>2, <2>5, ToldAfter
  <2> QED  BY <2>4, <2>6
<1> DEFINE H == heard \cup over.done
<1> HIDE DEF P, over, e, heard, playing, opened, T
<1>8. CASE failed' = TRUE /\ scope' = scope /\ script' = script
  BY <1>1, <1>5, <1>8 DEF FilmsInv
<1>9. CASE CanShow(P) /\ ~ over.c.failed /\ StepStory(e, none) /\ turn' = turn
  <2>1. streams' \in SUBSET Films  BY <1>1, <1>3 DEF FilmSet
  <2>2. Screened(script, sent, e, streams' \cup none, scope)
    <3>1. streams' \cup none = P \ ends  BY <1>1
    <3> QED  BY <1>7, <1>9, <3>1
  <2>3. Told(script, e, sent, H)  BY <1>7, <1>9
  <2> HIDE DEF H, none
  <2>4. none \in SUBSET Films  BY DEF none
  <2>5. scope' \in Scopes /\ script' = script /\ (~ failed' => FilmsNow')
    BY <1>1, <1>5, <1>9, <2>1, <2>2, <2>3, <2>4, StoryFilms
  <2> QED  BY <1>1, <1>5, <1>9, <2>5 DEF FilmsInv
<1>10. CASE /\ CanShow(P) /\ ~ over.c.failed
            /\ director' = e /\ requests' = none /\ scope' = scope /\ script' = script /\ sent' = sent
  <2>1. Screened(script, sent, e, P \ ends, scope)  BY <1>7, <1>10
  <2>2. streams' \cup requests' = P \ ends  BY <1>1, <1>10
  <2>3. Screened(script', sent', director', streams' \cup requests', scope')
    BY <1>10, <2>1, <2>2
  <2>4. FilmsNow'  BY <2>3 DEF FilmsNow
  <2>5. \A x \in streams' : scope'[x.layer] = x.id  BY <1>1, <1>6, <1>10
  <2> QED  BY <1>1, <1>5, <1>10, <2>4, <2>5 DEF FilmsInv
<1> QED  BY <1>1, <1>8, <1>9, <1>10
-------------------------------------------------------------------------------
(* The story skips a movie, reveals a line or goes on; a save and a load.  *)
LEMMA SkipFilms ==
  ASSUME StoriesSend, PlayerInv, FilmsInv, SkipMovie
  PROVE  FilmsInv'
<1> DEFINE H == completions \cup signals
<1>1. PICK m \in Skippable : \E c_1 \in {CompleteVideo(director.c, m.layer)} :
        /\ Input
        /\ IF m.layer \notin Shown(director.c) \/ c_1.failed
             THEN End("Video") /\ UNCHANGED completions
             ELSE /\ director' = [director EXCEPT !.c = c_1]
                  /\ completions' = completions \cup CompleteVideoCompletes(director.c, m.layer)
                  /\ scope' = [scope EXCEPT ![m.layer] = 0]
                  /\ requests' = {r \in requests : r.layer # m.layer}
                  /\ UNCHANGED failed
        /\ UNCHANGED <<story, streams, signals, slot>>
  BY DEF SkipMovie
<1> DEFINE t == m.layer
           r == CompleteVideo(director.c, t)
           e == [director EXCEPT !.c = r]
           T == {t}
           U == streams' \cup requests'
<1>2. /\ Input /\ script' = script /\ sent' = sent /\ streams' = streams /\ saved' = saved
      /\ turn' = "process"
      /\ \/ failed' = TRUE /\ scope' = scope
         \/ /\ t \in Shown(director.c) /\ ~ r.failed /\ director' = e
            /\ scope' = [scope EXCEPT ![t] = 0] /\ requests' = {x \in requests : x.layer # t}
  BY <1>1 DEF story, slot, End, Input
<1>3. ~ failed /\ Told(script, director, sent, H)  BY <1>2, InputIs
<1>4. FilmSet(streams) /\ FilmSet(requests)  BY InvIs
<1>5. t \in VideoLayer
  <2>1. PICK l \in DOMAIN director.movies : m = director.movies[l]  BY DEF Skippable
  <2>2. director.movies \in Playing  BY <1>3, DirectorIs DEF Told
  <2>3. director.movies \in [DOMAIN director.movies -> Films]
    BY <2>2, UnionOfFunctions DEF Playing
  <2>4. m \in Films  BY <2>1, <2>3
  <2> QED  BY <2>4 DEF Films
<1>6. scope \in Scopes /\ FilmsNow /\ (saved' # <<>> => SavedFilms(script', saved'[1]))
  BY <1>2, <1>3 DEF FilmsInv
<1> HIDE DEF H, t
<1>7. CASE failed' = TRUE /\ scope' = scope  BY <1>6, <1>7 DEF FilmsInv
<1>8. CASE /\ t \in Shown(director.c) /\ ~ r.failed /\ director' = e
           /\ scope' = [scope EXCEPT ![t] = 0] /\ requests' = {x \in requests : x.layer # t}
  <2>1. Good(director.c) /\ Regional(director.region) /\ Stocked(director.c, director.region)
    BY <1>3 DEF Told, Ready, Keeping
  <2>2. Good(r) /\ Rolls(director.region, T, director.c, r)
    <3>1. RegionOf[t] = "Video"  BY <1>5 DEF VideoLayer
    <3> DEFINE s == director.c
               R == director.region
    <3>2. s = director.c /\ R = director.region  OBVIOUS
    <3> HIDE DEF s, R
    <3>3. Good(CompleteVideo(s, t)) /\ Rolls(R, {t}, s, CompleteVideo(s, t))
      BY <1>8, <2>1, <3>1, <3>2, CompleteGood, CompleteRolls
    <3> QED  BY <3>2, <3>3
  <2>3. scope' \in Scopes  BY <1>5, <1>6, <1>8 DEF Scopes
  <2>4. Leaves(U, scope', streams \cup requests, scope, T)
    <3>1. U \subseteq streams \cup requests  BY <1>2, <1>8
    <3>2. ASSUME NEW x \in U, scope'[x.layer] = x.id PROVE scope[x.layer] = x.id /\ x.layer \notin T
      <4>1. x \in Films  BY <1>4, <3>1 DEF FilmSet
      <4>2. x.id > 0  BY <1>6, <3>1 DEF FilmsNow, Screened, Filmed, Numbered
      <4>3. x.layer \in VideoLayer /\ x.id \in Nat  BY <4>1 DEF Films
      <4>4. x.layer = t => scope'[x.layer] = 0  BY <1>5, <1>6, <1>8 DEF Scopes
      <4>5. x.layer # t  BY <3>2, <4>2, <4>3, <4>4
      <4>6. scope'[x.layer] = scope[x.layer]  BY <1>6, <1>8, <4>3, <4>5 DEF Scopes
      <4> QED  BY <3>2, <4>5, <4>6
    <3> QED  BY <3>1, <3>2 DEF Leaves
  <2> HIDE DEF T, r
  <2>5. Screened(script, sent, e, U, scope')
    <3> DEFINE z == scope'
    <3>1. Leaves(U, z, streams \cup requests, scope, T)  BY <2>4
    <3> HIDE DEF z, U, e
    <3>2. e = [director EXCEPT !.c = r]  BY DEF e
    <3>3. Screened(script, sent, e, U, z)  BY <1>3, <1>4, <1>6, <2>2, <3>1, <3>2, FilmsRoll
    <3> QED  BY <3>3 DEF z
  <2>6. Screened(script', sent', director', streams' \cup requests', scope')
    BY <1>2, <1>8, <2>5
  <2>7. FilmsNow'  BY <2>6 DEF FilmsNow
  <2> QED  BY <1>2, <1>6, <2>3, <2>7 DEF FilmsInv
<1> QED  BY <1>2, <1>7, <1>8

LEMMA RevealFilms ==
  ASSUME StoriesSend, PlayerInv, FilmsInv, RevealLine
  PROVE  FilmsInv'
<1> DEFINE H == completions \cup signals
           s == director.c
           r == RevealText(s, Line)
           U == streams \cup requests
           T == {}
<1>1. /\ Input /\ Line \in Shown(s) /\ s.entry[Line].left > 0
      /\ director' = [director EXCEPT !.c = RevealText(@, Line)]
      /\ script' = script /\ sent' = sent /\ requests' = requests /\ scope' = scope
      /\ streams' = streams /\ failed' = failed /\ saved' = saved /\ turn' = "process"
  BY DEF RevealLine, LineShown, story, slot, Input
<1>2. ~ failed /\ Told(script, director, sent, H)  BY <1>1, InputIs
<1>3. Good(s) /\ RegionOf[Line] = "Text" /\ Batch = Sent
  BY <1>2, LineIsText DEF Told, StoriesSend
<1>4. director' = [director EXCEPT !.c = r]  BY <1>1
<1>5. FilmSet(streams) /\ FilmSet(requests)  BY InvIs
<1>6. scope \in Scopes /\ FilmsNow /\ (saved' # <<>> => SavedFilms(script', saved'[1]))
  BY <1>1, <1>2 DEF FilmsInv
<1> HIDE DEF H, s
<1>7. s.entry[Line].fence = NoFence  BY <1>1, <1>3, TextUnfenced
<1>8. Good(r) /\ Rests(s, r)  BY <1>1, <1>3, <1>7, RevealGood
<1>9. Regional(director.region) /\ Stocked(director.c, director.region)
  BY <1>2 DEF Told, Ready, Keeping
<1> HIDE DEF r, T
<1>10. Rolls(director.region, T, director.c, r)  BY <1>8, <1>9, RestsRolls DEF s, T
<1>11. Leaves(U, scope, streams \cup requests, scope, T)  BY DEF Leaves, T
<1> HIDE DEF U
<1>12. Screened(script, sent, director', U, scope)
  BY <1>2, <1>4, <1>5, <1>6, <1>8, <1>10, <1>11, FilmsRoll
<1>13. FilmsNow'
  <2>1. Screened(script', sent', director', streams' \cup requests', scope')
    BY <1>1, <1>12 DEF U
  <2> QED  BY <2>1 DEF FilmsNow
<1> QED  BY <1>1, <1>6, <1>13 DEF FilmsInv

LEMMA AdvanceFilms ==
  ASSUME StoriesSend, PlayerInv, FilmsInv, AdvanceStory
  PROVE  FilmsInv'
<1> DEFINE H == completions \cup signals
           s == director.c
           r == AcknowledgeText(s, Line)
           e == [director EXCEPT !.c = r]
           U == streams' \cup requests
           T == {}
<1>1. /\ Input /\ Line \in Shown(s) /\ CanAcknowledge(s, Line)
      /\ streams' = streams /\ saved' = saved /\ turn' = "process"
      /\ \/ failed' = TRUE /\ scope' = scope /\ script' = script
         \/ ~ r.failed /\ StepStory(e, requests)
  BY DEF AdvanceStory, LineShown, story, slot, Input, End
<1>2. ~ failed /\ Told(script, director, sent, H)  BY <1>1, InputIs
<1>3. Good(s) /\ RegionOf[Line] = "Text"  BY <1>2, LineIsText DEF Told
<1>4. FilmSet(streams) /\ FilmSet(requests)  BY InvIs
<1>5. scope \in Scopes /\ FilmsNow /\ (script' = script /\ saved' # <<>> => SavedFilms(script', saved'[1]))
  BY <1>1, <1>2 DEF FilmsInv
<1>6. CASE failed' = TRUE /\ scope' = scope /\ script' = script
  BY <1>1, <1>5, <1>6 DEF FilmsInv
<1>7. CASE ~ r.failed /\ StepStory(e, requests)
  <2>1. Regional(director.region) /\ Stocked(director.c, director.region)
    BY <1>2 DEF Told, Ready, Keeping
  <2>2. Good(r) /\ Completes(s, {}, r) /\ Rolls(director.region, T, s, r)
    <3> DEFINE R == director.region
    <3>1. Regional(R) /\ Stocked(s, R)  BY <2>1
    <3> HIDE DEF s, R
    <3> QED  BY <1>1, <1>3, <1>7, <3>1, AcknowledgeGood, AcknowledgeRolls DEF R
  <2>3. \A R : Regional(R) => Calm(R, s, r)
    <3> HIDE DEF s
    <3> QED  BY <1>1, <1>3, <1>7, AcknowledgeCalm
  <2>4. Leaves(U, scope, streams \cup requests, scope, T)  BY <1>1 DEF Leaves
  <2> HIDE DEF H, r, T, U
  <2>5. Told(script, e, sent, H \cup {})  BY <1>2, <2>2, <2>3, ToldAfter
  <2>6. Screened(script, sent, e, U, scope)  BY <1>2, <1>4, <1>5, <2>2, <2>4, FilmsRoll
  <2> HIDE DEF e
  <2> DEFINE K == requests
             J == H \cup {}
  <2>7. /\ K \in SUBSET Films /\ streams' \in SUBSET Films /\ StepStory(e, K)
        /\ Told(script, e, sent, J) /\ Screened(script, sent, e, streams' \cup K, scope)
    BY <1>1, <1>4, <1>7, <2>5, <2>6 DEF FilmSet, U
  <2> HIDE DEF K, J
  <2>8. scope' \in Scopes /\ script' = script /\ (~ failed' => FilmsNow')
    BY <1>2, <1>5, <2>7, StoryFilms
  <2> QED  BY <1>1, <1>5, <2>8 DEF FilmsInv
<1> QED  BY <1>1, <1>6, <1>7

LEMMA SaveFilms ==
  ASSUME PlayerInv, FilmsInv, Save
  PROVE  FilmsInv'
<1> DEFINE game == [director |-> director, sent |-> sent, wait |-> wait, streams |-> streams,
                    signals |-> signals]
<1>1. /\ turn = "idle" /\ ~ failed /\ turn' = "process" /\ saved' = <<game>>
      /\ director' = director /\ script' = script /\ sent' = sent /\ requests' = requests
      /\ streams' = streams /\ scope' = scope /\ failed' = failed
  BY DEF Save, story, Input
<1>2. scope \in Scopes /\ FilmsNow /\ \A x \in streams : scope[x.layer] = x.id
  BY <1>1 DEF FilmsInv
<1>3. SavedFilms(script, game)
  <2>1. /\ game.director = director /\ game.sent = sent /\ game.streams = streams  OBVIOUS
  <2> HIDE DEF game
  <2>2. Filmed(script, sent, director, streams)  BY <1>2, FilmedFewer DEF FilmsNow, Screened
  <2>3. \A x \in streams : Current(script, sent, director.c, x)
    BY <1>2 DEF FilmsNow, Screened, Sees
  <2> QED  BY <2>1, <2>2, <2>3 DEF SavedFilms
<1> HIDE DEF game
<1>4. SavedFilms(script', saved'[1])  BY <1>1, <1>3
<1>5. FilmsNow'
  <2>1. Screened(script', sent', director', streams' \cup requests', scope')
    BY <1>1, <1>2 DEF FilmsNow
  <2> QED  BY <2>1 DEF FilmsNow
<1> QED  BY <1>1, <1>2, <1>4, <1>5 DEF FilmsInv

LEMMA LoadFilms ==
  ASSUME PlayerInv, FilmsInv, Load
  PROVE  FilmsInv'
<1> DEFINE game == saved[1]
           S == saved[1].streams
           On(l) == CHOOSE s \in S : s.layer = l
<1>1. /\ saved # <<>> /\ director' = game.director /\ sent' = game.sent /\ turn' = "process"
      /\ streams' = game.streams /\ requests' = {} /\ script' = script /\ saved' = saved
      /\ scope' = [l \in VideoLayer |-> IF \E s \in S : s.layer = l THEN On(l).id ELSE 0]
  BY DEF Load
<1>2. SavedGame(script, sent, game) /\ SavedFilms(script, game)
  BY <1>1 DEF PlayerInv, FilmsInv
<1>3. S \in SUBSET Films  BY <1>2 DEF SavedGame, FilmSet
<1> HIDE DEF S
<1>4. \A l \in VideoLayer : (\E s \in S : s.layer = l) => On(l) \in S  OBVIOUS
<1> HIDE DEF On
<1>5. scope' \in Scopes  BY <1>1, <1>3, <1>4 DEF Scopes, Films
<1> HIDE DEF game
<1>6. Screened(script, game.sent, game.director, game.streams, scope')
  BY <1>2 DEF SavedFilms, Screened, Sees
<1>7. FilmsNow'
  <2>1. streams' \cup requests' = game.streams  BY <1>1
  <2>2. Screened(script', sent', director', streams' \cup requests', scope')
    BY <1>1, <1>6, <2>1
  <2> QED  BY <2>2 DEF FilmsNow
<1> QED  BY <1>1, <1>2, <1>5, <1>7 DEF FilmsInv, game

LEMMA FilmsStep ==
  ASSUME StoriesSend, PlayerInv, FilmsInv, [PlayerNext]_playerVars
  PROVE  FilmsInv'
<1>1. CASE Launch  BY <1>1, LaunchFilms
<1>2. CASE Frame  BY <1>2, FrameFilms
<1>3. CASE ProcessSome
  <2>1. PICK ends \in SUBSET streams : Process(ends)  BY <1>3 DEF ProcessSome
  <2> QED  BY <2>1, ProcessFilms
<1>4. CASE SkipMovie  BY <1>4, SkipFilms
<1>5. CASE RevealLine  BY <1>5, RevealFilms
<1>6. CASE AdvanceStory  BY <1>6, AdvanceFilms
<1>7. CASE Save  BY <1>7, SaveFilms
<1>8. CASE Load  BY <1>8, LoadFilms
<1>9. CASE UNCHANGED playerVars
  <2>1. /\ script' = script /\ sent' = sent /\ streams' = streams /\ requests' = requests
        /\ failed' = failed /\ director' = director /\ turn' = turn /\ scope' = scope
        /\ saved' = saved
    BY <1>9 DEF playerVars, story, slot
  <2> QED  BY <2>1 DEF FilmsInv, FilmsNow
<1> QED  BY <1>1, <1>2, <1>3, <1>4, <1>5, <1>6, <1>7, <1>8, <1>9 DEF PlayerNext

(* StreamIsCurrent, for all stories: whatever batches, frames, ends, skips,*)
(* clicks, saves and loads do to one another, a stream or request that is  *)
(* not cancelled belongs to the video its layer shows, unless the story    *)
(* shows a movie on that layer after a step that queued one there.         *)
THEOREM StreamsStayCurrent ==
  ASSUME StoriesSend
  PROVE  PlayerSpec => []StreamIsCurrent
<1> DEFINE Inv == PlayerInv /\ FilmsInv
<1>1. PlayerInit => Inv  BY PlayerStart, FilmsStart
<1>2. Inv /\ [PlayerNext]_playerVars => Inv'  BY PlayerStep, FilmsStep
<1>3. Inv => StreamIsCurrent
  <2> SUFFICES ASSUME FilmsInv, ~ failed, NEW x \in streams \cup requests, IsLive(x)
               PROVE  \/ x.layer \in Shown(director.c) /\ director.c.entry[x.layer].id = x.id
                      \/ FilmAfterQueued(script, sent, x.layer)
    BY DEF StreamIsCurrent
  <2>1. Current(script, sent, director.c, x)  BY DEF FilmsInv, FilmsNow, Screened, Sees, IsLive
  <2> QED  BY <2>1 DEF Current, Late, OnScreen
<1> HIDE DEF Inv
<1> QED  BY <1>1, <1>2, <1>3, PTL DEF PlayerSpec
===============================================================================
