-------------------------- MODULE PresentationProofs --------------------------
(***************************************************************************)
(* The presentation coordinator for any targets, fences and batches: a     *)
(* fence tells what became of the commands that joined it, the coordinator *)
(* loads every snapshot it makes of itself, and nothing is queued behind a *)
(* free target.                                                            *)
(***************************************************************************)
EXTENDS PresentationCoordinator, CommonLemmas

(* Text tasks have three states. *)
Unrevealed == NewTasks(FALSE)
Revealed(winner) == FinishReveal(Unrevealed, winner)

EntryState ==
  [id : Ids, fence : Fence \cup {NoFence}, left : Nat,
   phase : {"None", "Prebuffering", "Playing", "Ended", "Failed"},
   tasks : {None, Unrevealed, Revealed(Clock), Revealed(Click)}]
GroupState == [ids : Seq(Ids), progress : Records]
Status == {"Pending", "Completed", "Failed"}

Entries == UNION {[T -> EntryState] : T \in SUBSET Target}

Coordinator ==
  [entry : Entries, queued : [Region -> Seq(Commands)],
   fences : UNION {[F -> Status] : F \in SUBSET Fence},
   groups : UNION {[F -> GroupState] : F \in SUBSET Fence},
   activated : Seq(Ids), failed : BOOLEAN]

(* Is an entry of target t still running? *)
Runs(t, e) ==
  CASE RegionOf[t] = "Text" -> TRUE
    [] RegionOf[t] = "Video" -> e.phase \notin {"Ended", "Failed"}
    [] OTHER -> e.left > 0

Performs(t, e) ==
  /\ e.fence # NoFence => /\ Runs(t, e) /\ (RegionOf[t] # "Video" => e.left > 0)
                          /\ \E x \in Commands : x.target = t /\ x.fence = e.fence
  /\ RegionOf[t] = "Text" =>
       e.tasks \in IF e.left = 0 THEN {Revealed(Clock), Revealed(Click)} ELSE {Unrevealed}

(* The members of fences in a queue, or among the entries. *)
MemberOf(x) == IF x.fence = NoFence THEN {} ELSE {<<x.fence, x.id>>}
MembersIn(f) == UNION {MemberOf(f[k]) : k \in DOMAIN f}
Apart(f) == \A k, l \in DOMAIN f : k # l => MemberOf(f[k]) \cap MemberOf(f[l]) = {}

(* Each member has one place. *)
Alone(entry, queued) ==
  /\ Apart(entry)
  /\ \A r \in Region : Apart(queued[r]) /\ MembersIn(queued[r]) \cap MembersIn(entry) = {}
  /\ \A r, q \in Region : r # q => MembersIn(queued[r]) \cap MembersIn(queued[q]) = {}

Queues(queued) ==
  \A r \in Region :
    /\ Len(queued[r]) <= MaxQueue
    /\ \A i \in DOMAIN queued[r] :
         RegionOf[queued[r][i].target] = r /\ queued[r][i].policy = "Queue"

Performing(entry) ==
  /\ IsFiniteSet(DOMAIN entry)
  /\ \A t \in DOMAIN entry : Performs(t, entry[t])

Staged(s) ==
  /\ s \in Coordinator
  /\ Performing(s.entry)
  /\ Queues(s.queued)
  /\ Alone(s.entry, s.queued)

(* The group of a fence: as many members as ids, each id once. *)
EachOnce(ids) == \A i, j \in DOMAIN ids : ids[i] = ids[j] => i = j

Grouped(g) ==
  /\ g \in GroupState
  /\ Len(g.ids) = Len(g.progress.members)
  /\ EachOnce(g.ids)
  /\ Progress(g.progress) /\ Consistent(g.progress) /\ g.progress.mode = "All"
  /\ \A i \in DOMAIN g.ids : g.progress.members[i] \in {"Running", "Completed", "Cancelled"}

(* What the status of a fence says of its group. *)
Follows(s, f) ==
  LET g == s.groups[f] IN
    /\ s.fences[f] = "Pending" =>
         /\ g.progress.terminal = None
         /\ \A i \in DOMAIN g.ids :
              /\ g.progress.members[i] # "Cancelled"
              /\ g.progress.members[i] = "Running" <=> <<f, g.ids[i]>> \in Live(s)
         /\ \A m \in Live(s) : m[1] = f => \E i \in DOMAIN g.ids : m = <<f, g.ids[i]>>
    /\ s.fences[f] = "Completed" => g.progress.terminal = "Completed" /\ f \notin FencesOf(Live(s))
    /\ s.fences[f] = "Failed" => g.progress.terminal = "Cancelled"

(* ... and of what happened. *)
Remembers(s, f, j, e, b) ==
  LET g == s.groups[f] IN
    /\ s.fences[f] = "Failed" <=> f \in b
    /\ s.fences[f] = "Pending" =>
         /\ Of(j, f) = {<<f, g.ids[i]>> : i \in DOMAIN g.ids}
         /\ \A i \in DOMAIN g.ids :
              <<f, g.ids[i]>> \in e <=> g.progress.members[i] = "Completed"
    /\ s.fences[f] = "Completed" => Of(j, f) \subseteq e

Fenced(s, j, e, b) ==
  /\ DOMAIN s.groups = DOMAIN s.fences
  /\ FencesOf(Live(s)) \subseteq DOMAIN s.fences
  /\ j \subseteq Fence \X Ids /\ FencesOf(j) = DOMAIN s.fences
  /\ \A f \in DOMAIN s.fences :
       Grouped(s.groups[f]) /\ Follows(s, f) /\ Remembers(s, f, j, e, b)

(* A region whose queue has something to wait for. *)
Behind(s, r) == \A i \in DOMAIN s.queued[r] : Busy(s, s.queued[r][i].target)
Patient(s) == \A r \in Region : r \in {"Text", "Video"} \/ TransitionsTakeTime => Behind(s, r)

Sound ==
  /\ Staged(c)
  /\ Len(c.activated) <= MaxQueue
  /\ Fenced(c, joined, ended, broken)
  /\ Patient(c)

IInv == ~ c.failed => Sound

-------------------------------------------------------------------------------
(* What a coordinator is made of. *)

LEMMA UnionOfFunctions ==
  ASSUME NEW A, NEW B, NEW f
  PROVE  f \in UNION {[T -> B] : T \in SUBSET A} <=> f \in [DOMAIN f -> B] /\ DOMAIN f \subseteq A
OBVIOUS

Typed(s) ==
  /\ s \in [entry : {s.entry}, queued : [Region -> Seq(Commands)], fences : {s.fences},
            groups : {s.groups}, activated : Seq(Ids), failed : BOOLEAN]
  /\ s.entry \in [Shown(s) -> EntryState] /\ Shown(s) \subseteq Target
  /\ s.fences \in [DOMAIN s.fences -> Status] /\ DOMAIN s.fences \subseteq Fence
  /\ s.groups \in [DOMAIN s.groups -> GroupState] /\ DOMAIN s.groups \subseteq Fence

LEMMA TypedIs == \A s : s \in Coordinator <=> Typed(s)
<1> TAKE s
<1>1. /\ s.entry \in Entries <=> s.entry \in [Shown(s) -> EntryState] /\ Shown(s) \subseteq Target
      /\ s.fences \in UNION {[F -> Status] : F \in SUBSET Fence}
           <=> s.fences \in [DOMAIN s.fences -> Status] /\ DOMAIN s.fences \subseteq Fence
      /\ s.groups \in UNION {[F -> GroupState] : F \in SUBSET Fence}
           <=> s.groups \in [DOMAIN s.groups -> GroupState] /\ DOMAIN s.groups \subseteq Fence
  BY UnionOfFunctions DEF Entries, Shown
<1>2. s \in Coordinator
        <=> /\ s \in [entry : {s.entry}, queued : [Region -> Seq(Commands)], fences : {s.fences},
                      groups : {s.groups}, activated : Seq(Ids), failed : BOOLEAN]
            /\ s.entry \in Entries /\ s.fences \in UNION {[F -> Status] : F \in SUBSET Fence}
            /\ s.groups \in UNION {[F -> GroupState] : F \in SUBSET Fence}
  BY DEF Coordinator
<1> QED  BY <1>1, <1>2 DEF Typed

LEMMA MembersAre ==
  ASSUME NEW f, NEW m
  PROVE  m \in MembersIn(f) <=> \E k \in DOMAIN f : m \in MemberOf(f[k])
BY DEF MembersIn

LEMMA LiveIs ==
  ASSUME NEW s \in Coordinator
  PROVE  /\ Live(s) = MembersIn(s.entry) \cup UNION {MembersIn(s.queued[r]) : r \in Region}
         /\ Live(s) \subseteq Fence \X Ids
<1>1. Typed(s)  BY TypedIs
<1>2. \A r \in Region : s.queued[r] \in Seq(Commands)  BY <1>1 DEF Typed
<1>3. \A p \in FencedPlaces(s) :
        /\ At(s, p).fence # NoFence
        /\ \/ \E t \in Shown(s) : p = <<t, 0>>
           \/ \E r \in Region : \E i \in DOMAIN s.queued[r] : p = <<r, i>>
  BY DEF FencedPlaces, Places
<1>4. \A t \in Shown(s) : At(s, <<t, 0>>) = s.entry[t] /\ <<t, 0>> \in Places(s)
  BY DEF At, Places
<1>5. \A r \in Region : \A i \in DOMAIN s.queued[r] :
        At(s, <<r, i>>) = s.queued[r][i] /\ <<r, i>> \in Places(s) /\ i # 0
  <2> SUFFICES ASSUME NEW r \in Region, NEW i \in DOMAIN s.queued[r]
               PROVE  At(s, <<r, i>>) = s.queued[r][i] /\ <<r, i>> \in Places(s) /\ i # 0
    OBVIOUS
  <2>1. i # 0  BY <1>2
  <2> QED  BY <2>1 DEF At, Places
<1>6. \A m \in Live(s) : \/ m \in MembersIn(s.entry)
                         \/ \E r \in Region : m \in MembersIn(s.queued[r])
  <2> SUFFICES ASSUME NEW m \in Live(s)
               PROVE  \/ m \in MembersIn(s.entry) \/ \E r \in Region : m \in MembersIn(s.queued[r])
    OBVIOUS
  <2>1. PICK p \in FencedPlaces(s) : m = <<At(s, p).fence, At(s, p).id>>  BY DEF Live
  <2>2. m \in MemberOf(At(s, p))  BY <1>3, <2>1 DEF MemberOf
  <2>3. CASE \E t \in Shown(s) : p = <<t, 0>>
    BY <1>4, <2>2, <2>3, MembersAre DEF Shown
  <2>4. CASE \E r \in Region : \E i \in DOMAIN s.queued[r] : p = <<r, i>>
    BY <1>5, <2>2, <2>4, MembersAre
  <2> QED  BY <1>3, <2>3, <2>4
<1>7. \A x, m : m \in MemberOf(x) => x.fence # NoFence /\ m = <<x.fence, x.id>>
  BY DEF MemberOf
<1>8. ASSUME NEW m \in MembersIn(s.entry) PROVE m \in Live(s) /\ m \in Fence \X Ids
  <2>1. PICK t \in Shown(s) : m \in MemberOf(s.entry[t])  BY <1>8, MembersAre DEF Shown
  <2>2. s.entry[t].fence # NoFence /\ m = <<s.entry[t].fence, s.entry[t].id>>  BY <1>7, <2>1
  <2>3. <<t, 0>> \in FencedPlaces(s)  BY <1>4, <2>2 DEF FencedPlaces
  <2>4. s.entry[t] \in EntryState  BY <1>1 DEF Typed
  <2> QED  BY <1>4, <2>2, <2>3, <2>4 DEF Live, EntryState
<1>9. ASSUME NEW r \in Region, NEW m \in MembersIn(s.queued[r])
      PROVE  m \in Live(s) /\ m \in Fence \X Ids
  <2>1. PICK i \in DOMAIN s.queued[r] : m \in MemberOf(s.queued[r][i])  BY <1>9, MembersAre
  <2> DEFINE x == s.queued[r][i]
  <2>2. x.fence # NoFence /\ m = <<x.fence, x.id>>  BY <1>7, <2>1
  <2>3. <<r, i>> \in FencedPlaces(s) /\ At(s, <<r, i>>) = x  BY <1>5, <2>2 DEF FencedPlaces
  <2>4. x \in Commands  BY <1>2
  <2>5. x.fence \in Fence \cup {NoFence} /\ x.id \in Ids  BY <2>4, BatchesOfCommands
  <2> HIDE DEF x
  <2> QED  BY <2>2, <2>3, <2>5 DEF Live
<1> QED  BY <1>6, <1>8, <1>9

(* Live members are where the entries and the queues are. *)
LEMMA StagedSame ==
  ASSUME NEW s, Staged(s), NEW d \in Coordinator, d.entry = s.entry, d.queued = s.queued
  PROVE  Staged(d) /\ Live(d) = Live(s)
<1>1. s \in Coordinator  BY DEF Staged
<1>2. Staged(d)  BY DEF Staged
<1> QED  BY <1>1, <1>2, LiveIs

LEMMA AppendedMembers ==
  ASSUME NEW q \in Seq(Commands), NEW x \in Commands
  PROVE  /\ MembersIn(Append(q, x)) = MembersIn(q) \cup MemberOf(x)
         /\ Apart(q) /\ MemberOf(x) \cap MembersIn(q) = {} => Apart(Append(q, x))
<1> DEFINE n == Len(q)  a == Append(q, x)
<1>1. /\ n \in Nat /\ DOMAIN q = 1 .. n /\ DOMAIN a = 1 .. n + 1
      /\ \A i \in 1 .. n : a[i] = q[i]
      /\ a[n + 1] = x
  OBVIOUS
<1>2. DOMAIN a = DOMAIN q \cup {n + 1} /\ n + 1 \notin DOMAIN q  BY <1>1
<1>3. \A i \in DOMAIN q : a[i] = q[i]  BY <1>1
<1> HIDE DEF a
<1>4. MembersIn(a) = MembersIn(q) \cup MemberOf(x)  BY <1>1, <1>2, <1>3 DEF MembersIn
<1>5. ASSUME Apart(q), MemberOf(x) \cap MembersIn(q) = {} PROVE Apart(a)
  <2>1. \A k \in DOMAIN q : MemberOf(q[k]) \cap MemberOf(x) = {}  BY <1>5 DEF MembersIn
  <2> QED  BY <1>1, <1>2, <1>3, <1>5, <2>1 DEF Apart
<1> QED  BY <1>4, <1>5 DEF a

Gone(s, t) == IF t \in Shown(s) THEN MemberOf(s.entry[t]) ELSE {}

With(e, t, v) == Insert(e, [u \in {t} |-> v])

LEMMA InsertedMembers ==
  ASSUME NEW e, NEW t, NEW v, Apart(e), MemberOf(v) \cap MembersIn(e) = {}
  PROVE  /\ MembersIn(With(e, t, v))
              = (MembersIn(e) \ (IF t \in DOMAIN e THEN MemberOf(e[t]) ELSE {})) \cup MemberOf(v)
         /\ Apart(With(e, t, v))
<1> DEFINE d == With(e, t, v)
<1>1. /\ DOMAIN d = DOMAIN e \cup {t} /\ d[t] = v
      /\ \A u \in DOMAIN e \ {t} : d[u] = e[u]
  BY DEF Insert, With
<1>2. \A k \in DOMAIN e : MemberOf(e[k]) \cap MemberOf(v) = {}  BY DEF MembersIn
<1> HIDE DEF d
<1>3. Apart(d)  BY <1>1, <1>2 DEF Apart
<1>4. \A m : m \in MembersIn(d)
        <=> m \in MemberOf(v) \/ \E u \in DOMAIN e \ {t} : m \in MemberOf(e[u])
  BY <1>1, MembersAre
<1>5. \A m : (\E u \in DOMAIN e \ {t} : m \in MemberOf(e[u]))
        <=> m \in MembersIn(e) /\ ~ (t \in DOMAIN e /\ m \in MemberOf(e[t]))
  BY MembersAre DEF Apart
<1> QED  BY <1>3, <1>4, <1>5 DEF d
-------------------------------------------------------------------------------
(* What shows a command. *)

LEMMA EntryIs ==
  ASSUME NEW x \in Commands
  PROVE  /\ x.target \in Target /\ RegionOf[x.target] \in Region /\ x.id \in Ids
         /\ x.length \in Nat /\ x.policy \in Policy
         /\ Entry(x) \in EntryState /\ Performs(x.target, Entry(x))
         /\ MemberOf(Entry(x)) = MemberOf(x)
         /\ RegionOf[x.target] \in {"Text", "Video"} \/ TransitionsTakeTime
              => Runs(x.target, Entry(x))
<1>1. /\ x.target \in Target /\ x.id \in Ids /\ x.length \in Nat /\ x.policy \in Policy
      /\ x.fence \in Fence \cup {NoFence}
  BY BatchesOfCommands
<1>2. RegionOf[x.target] \in Region  BY <1>1, RegionsOfTargets
<1>3. NewTasks(x.length = 0) = IF x.length = 0 THEN Revealed(Clock) ELSE Unrevealed
  BY DEF NewTasks, Revealed, Unrevealed
<1> DEFINE e == Entry(x)
<1>4. /\ e.id = x.id /\ e.fence = x.fence /\ e.left = x.length
      /\ e.phase = IF RegionOf[x.target] = "Video" THEN "Prebuffering" ELSE "None"
      /\ e.tasks = IF RegionOf[x.target] = "Text" THEN NewTasks(x.length = 0) ELSE None
      /\ e = [id |-> e.id, fence |-> e.fence, left |-> e.left, phase |-> e.phase, tasks |-> e.tasks]
  BY DEF Entry
<1> HIDE DEF e
<1>5. e \in EntryState
  <2>1. e.tasks \in {None, Unrevealed, Revealed(Clock), Revealed(Click)}  BY <1>3, <1>4
  <2>2. e.phase \in {"None", "Prebuffering", "Playing", "Ended", "Failed"}  BY <1>4
  <2> QED  BY <1>1, <1>4, <2>1, <2>2 DEF EntryState
<1>6. RegionOf[x.target] \in {"Text", "Video"} \/ TransitionsTakeTime => Runs(x.target, e)
  BY <1>1, <1>2, <1>4 DEF Runs, TransitionsTakeTime, Region
<1>7. Performs(x.target, e)
  <2>1. e.fence # NoFence => Runs(x.target, e) /\ (RegionOf[x.target] # "Video" => e.left > 0)
    BY <1>1, <1>2, <1>4, FencedCommandsTakeTime DEF Runs
  <2>2. RegionOf[x.target] = "Text" =>
          e.tasks \in IF e.left = 0 THEN {Revealed(Clock), Revealed(Click)} ELSE {Unrevealed}
    BY <1>3, <1>4
  <2>3. x.target = x.target /\ x.fence = e.fence  BY <1>4
  <2> QED  BY <2>1, <2>2, <2>3 DEF Performs
<1>8. MemberOf(e) = MemberOf(x)  BY <1>4 DEF MemberOf
<1> QED  BY <1>1, <1>2, <1>5, <1>6, <1>7, <1>8 DEF e
-------------------------------------------------------------------------------
(* A command that starts, and one that is queued. *)
Started(s, x, d) ==
  /\ Staged(d)
  /\ Live(d) = (Live(s) \ Gone(s, x.target)) \cup MemberOf(x)
  /\ Shown(d) = Shown(s) \cup {x.target} /\ d.entry[x.target] = Entry(x)
  /\ \A t \in Shown(s) \ {x.target} : d.entry[t] = s.entry[t]
  /\ d.queued = s.queued /\ d.fences = s.fences /\ d.groups = s.groups
  /\ d.activated = s.activated /\ d.failed = s.failed

LEMMA FieldsOf ==
  ASSUME NEW s, NEW d, Typed(s),
         d = [entry |-> d.entry, queued |-> d.queued, fences |-> s.fences, groups |-> s.groups,
              activated |-> d.activated, failed |-> d.failed],
         d.entry \in [Shown(d) -> EntryState], Shown(d) \subseteq Target,
         d.queued \in [Region -> Seq(Commands)], d.activated \in Seq(Ids), d.failed \in BOOLEAN
  PROVE  d \in Coordinator
<1>1. d.fences = s.fences /\ d.groups = s.groups  OBVIOUS
<1>2. d \in [entry : {d.entry}, queued : [Region -> Seq(Commands)], fences : {d.fences},
            groups : {d.groups}, activated : Seq(Ids), failed : BOOLEAN]
  BY <1>1
<1>3. Typed(d)  BY <1>1, <1>2 DEF Typed
<1> QED  BY <1>3, TypedIs

LEMMA StartFields ==
  ASSUME NEW s \in Coordinator, NEW x \in Commands
  PROVE  LET d == Start(s, x)  e == With(s.entry, x.target, Entry(x)) IN
         /\ d \in Coordinator
         /\ d.entry = e /\ d.queued = s.queued /\ d.fences = s.fences /\ d.groups = s.groups
         /\ d.activated = s.activated /\ d.failed = s.failed
         /\ DOMAIN e = Shown(s) \cup {x.target} /\ e[x.target] = Entry(x)
         /\ \A u \in Shown(s) \ {x.target} : e[u] = s.entry[u]
<1> DEFINE d == Start(s, x)
           t == x.target
           e == With(s.entry, t, Entry(x))
<1>1. Typed(s)  BY TypedIs
<1>2. /\ d = [entry |-> d.entry, queued |-> d.queued, fences |-> s.fences, groups |-> s.groups,
              activated |-> d.activated, failed |-> d.failed]
      /\ d.entry = e /\ d.queued = s.queued /\ d.fences = s.fences /\ d.groups = s.groups
      /\ d.activated = s.activated /\ d.failed = s.failed
  <2>1. d = [s EXCEPT !.entry = e]  BY DEF Start, With, e
  <2> HIDE DEF e, d
  <2> QED  BY <1>1, <2>1 DEF Typed
<1>3. /\ DOMAIN e = Shown(s) \cup {t} /\ e[t] = Entry(x)
      /\ \A u \in Shown(s) \ {t} : e[u] = s.entry[u]
      /\ e = [u \in DOMAIN e |-> e[u]]
  BY DEF With, Insert, Shown
<1>4. t \in Target /\ Entry(x) \in EntryState  BY EntryIs
<1>5. /\ s.entry \in [Shown(s) -> EntryState] /\ Shown(s) \subseteq Target
      /\ s.queued \in [Region -> Seq(Commands)] /\ s.activated \in Seq(Ids) /\ s.failed \in BOOLEAN
  BY <1>1 DEF Typed
<1> HIDE DEF d, e
<1>6. e \in [DOMAIN e -> EntryState] /\ DOMAIN e \subseteq Target
  <2>1. \A u \in DOMAIN e : e[u] \in EntryState  BY <1>3, <1>4, <1>5
  <2> QED  BY <1>3, <1>4, <1>5, <2>1
<1>7. d \in Coordinator
  <2>1. Shown(d) = DOMAIN e  BY <1>2 DEF Shown
  <2>2. d.entry \in [Shown(d) -> EntryState] /\ Shown(d) \subseteq Target  BY <1>2, <1>6, <2>1
  <2>3. d.queued \in [Region -> Seq(Commands)] /\ d.activated \in Seq(Ids) /\ d.failed \in BOOLEAN
    BY <1>2, <1>5
  <2> QED  BY <1>1, <1>2, <2>2, <2>3, FieldsOf
<1> QED  BY <1>2, <1>3, <1>7 DEF d, e

LEMMA StartFacts ==
  ASSUME NEW s, Staged(s), NEW x \in Commands, MemberOf(x) \cap Live(s) = {}
  PROVE  Started(s, x, Start(s, x))
<1> DEFINE d == Start(s, x)
           t == x.target
           e == With(s.entry, t, Entry(x))
<1>1. s \in Coordinator  BY DEF Staged
<1>2. /\ d \in Coordinator
      /\ d.entry = e /\ d.queued = s.queued /\ d.fences = s.fences /\ d.groups = s.groups
      /\ d.activated = s.activated /\ d.failed = s.failed
      /\ DOMAIN e = Shown(s) \cup {t} /\ e[t] = Entry(x)
      /\ \A u \in Shown(s) \ {t} : e[u] = s.entry[u]
  BY <1>1, StartFields
<1>3. Performs(t, Entry(x)) /\ MemberOf(Entry(x)) = MemberOf(x)  BY EntryIs
<1> HIDE DEF d, e
<1>8. /\ MembersIn(s.entry) \subseteq Live(s)
      /\ \A r \in Region : MembersIn(s.queued[r]) \subseteq Live(s)
  BY <1>1, LiveIs
<1>9. MemberOf(Entry(x)) \cap MembersIn(s.entry) = {}  BY <1>3, <1>8
<1>10. /\ MembersIn(e) = (MembersIn(s.entry) \ Gone(s, t)) \cup MemberOf(x)
       /\ Apart(e)
  <2>1. Apart(s.entry)  BY DEF Staged, Alone
  <2>2. /\ MembersIn(e) = (MembersIn(s.entry) \ (IF t \in DOMAIN s.entry THEN MemberOf(s.entry[t])
                                                    ELSE {})) \cup MemberOf(Entry(x))
        /\ Apart(e)
    BY <1>9, <2>1, InsertedMembers DEF e
  <2> QED  BY <1>3, <2>2 DEF Gone, Shown
<1>11. Performing(e)
  <2>1. IsFiniteSet(DOMAIN e)
    <3>1. IsFiniteSet(Shown(s))  BY DEF Staged, Performing, Shown
    <3> QED  BY <1>2, <3>1, FS_AddElement
  <2>2. \A u \in Shown(s) : Performs(u, s.entry[u])  BY DEF Staged, Performing, Shown
  <2>3. \A u \in DOMAIN e : Performs(u, e[u])  BY <1>2, <1>3, <2>2
  <2> QED  BY <2>1, <2>3 DEF Performing
<1>12. Gone(s, t) \subseteq MembersIn(s.entry)  BY DEF Gone, MembersIn, Shown
<1>13. Alone(e, s.queued)
  <2>1. Alone(s.entry, s.queued)  BY DEF Staged
  <2>2. \A r \in Region : MembersIn(s.queued[r]) \cap MembersIn(e) = {}
    BY <1>8, <1>10, <2>1 DEF Alone
  <2> QED  BY <1>10, <2>1, <2>2 DEF Alone
<1>14. Staged(d)  BY <1>2, <1>11, <1>13 DEF Staged
<1>15. Live(d) = (Live(s) \ Gone(s, t)) \cup MemberOf(x)
  <2> DEFINE Q == UNION {MembersIn(s.queued[r]) : r \in Region}
  <2>1. Live(s) = MembersIn(s.entry) \cup Q /\ Live(d) = MembersIn(e) \cup Q
    BY <1>1, <1>2, LiveIs
  <2>2. Q \cap Gone(s, t) = {}  BY <1>12 DEF Staged, Alone
  <2> HIDE DEF Q
  <2> QED  BY <1>10, <1>12, <2>1, <2>2
<1> QED  BY <1>2, <1>14, <1>15 DEF Started, Shown, d

Queued(s, x, d) ==
  /\ Staged(d)
  /\ Live(d) = Live(s) \cup MemberOf(x)
  /\ d.entry = s.entry /\ d.fences = s.fences /\ d.groups = s.groups
  /\ d.activated = s.activated /\ d.failed = s.failed
  /\ d.queued[RegionOf[x.target]] = Append(s.queued[RegionOf[x.target]], x)
  /\ \A r \in Region \ {RegionOf[x.target]} : d.queued[r] = s.queued[r]

LEMMA EnqueueFields ==
  ASSUME NEW s \in Coordinator, NEW x \in Commands
  PROVE  LET d == Enqueue(s, x)  r == RegionOf[x.target] IN
         /\ d \in Coordinator
         /\ d.entry = s.entry /\ d.fences = s.fences /\ d.groups = s.groups
         /\ d.activated = s.activated /\ d.failed = s.failed
         /\ r \in Region /\ s.queued[r] \in Seq(Commands) /\ d.queued[r] = Append(s.queued[r], x)
         /\ \A p \in Region \ {r} : d.queued[p] = s.queued[p]
<1> DEFINE d == Enqueue(s, x)
           r == RegionOf[x.target]
           q == [s.queued EXCEPT ![r] = Append(@, x)]
<1>1. Typed(s)  BY TypedIs
<1>2. /\ d = [entry |-> d.entry, queued |-> d.queued, fences |-> s.fences, groups |-> s.groups,
              activated |-> d.activated, failed |-> d.failed]
      /\ d.entry = s.entry /\ d.queued = q /\ d.fences = s.fences /\ d.groups = s.groups
      /\ d.activated = s.activated /\ d.failed = s.failed
  <2>1. d = [s EXCEPT !.queued = q]  BY DEF Enqueue
  <2> HIDE DEF d, q
  <2> QED  BY <1>1, <2>1 DEF Typed
<1>3. /\ s.entry \in [Shown(s) -> EntryState] /\ Shown(s) \subseteq Target
      /\ s.queued \in [Region -> Seq(Commands)] /\ s.activated \in Seq(Ids) /\ s.failed \in BOOLEAN
  BY <1>1 DEF Typed
<1>4. r \in Region  BY EntryIs
<1>5. /\ q \in [Region -> Seq(Commands)] /\ q[r] = Append(s.queued[r], x)
      /\ s.queued[r] \in Seq(Commands)
      /\ \A p \in Region \ {r} : q[p] = s.queued[p]
  BY <1>3, <1>4
<1> HIDE DEF d, q
<1>6. d \in Coordinator
  <2>1. d.entry \in [Shown(d) -> EntryState] /\ Shown(d) \subseteq Target  BY <1>2, <1>3 DEF Shown
  <2>2. d.queued \in [Region -> Seq(Commands)] /\ d.activated \in Seq(Ids) /\ d.failed \in BOOLEAN
    BY <1>2, <1>3, <1>5
  <2> QED  BY <1>1, <1>2, <2>1, <2>2, FieldsOf
<1> QED  BY <1>2, <1>4, <1>5, <1>6 DEF d

LEMMA EnqueueFacts ==
  ASSUME NEW s, Staged(s), NEW x \in Commands, MemberOf(x) \cap Live(s) = {},
         x.policy = "Queue", Len(s.queued[RegionOf[x.target]]) < MaxQueue
  PROVE  Queued(s, x, Enqueue(s, x))
<1> DEFINE d == Enqueue(s, x)
           r == RegionOf[x.target]
           q == d.queued
<1>1. s \in Coordinator  BY DEF Staged
<1>2. /\ d \in Coordinator
      /\ d.entry = s.entry /\ d.fences = s.fences /\ d.groups = s.groups
      /\ d.activated = s.activated /\ d.failed = s.failed
      /\ r \in Region /\ s.queued[r] \in Seq(Commands) /\ q[r] = Append(s.queued[r], x)
      /\ \A p \in Region \ {r} : q[p] = s.queued[p]
  BY <1>1, EnqueueFields
<1>4. r \in Region /\ MemberOf(x) \subseteq {<<x.fence, x.id>>}  BY EntryIs DEF MemberOf
<1>5. /\ s.queued[r] \in Seq(Commands) /\ q[r] = Append(s.queued[r], x)
      /\ \A p \in Region \ {r} : q[p] = s.queued[p]
  BY <1>2
<1> DEFINE o == s.queued[r]
<1> HIDE DEF d
<1>7. /\ MembersIn(s.entry) \subseteq Live(s)
      /\ \A p \in Region : MembersIn(s.queued[p]) \subseteq Live(s)
  BY <1>1, LiveIs
<1>8. /\ MembersIn(q[r]) = MembersIn(s.queued[r]) \cup MemberOf(x)
      /\ Apart(q[r])
  <2>1. Apart(s.queued[r])  BY <1>4 DEF Staged, Alone
  <2>2. MemberOf(x) \cap MembersIn(s.queued[r]) = {}  BY <1>4, <1>7
  <2> QED  BY <1>5, <2>1, <2>2, AppendedMembers
<1>9. Alone(s.entry, q)
  <2>1. Alone(s.entry, s.queued)  BY DEF Staged
  <2>2. \A p \in Region : Apart(q[p])  BY <1>5, <1>8, <2>1 DEF Alone
  <2>3. \A p \in Region : MembersIn(q[p]) \cap MembersIn(s.entry) = {}
    BY <1>5, <1>7, <1>8, <2>1 DEF Alone
  <2>4. \A p, v \in Region : p # v => MembersIn(q[p]) \cap MembersIn(q[v]) = {}
    BY <1>5, <1>7, <1>8, <2>1 DEF Alone
  <2> QED  BY <2>1, <2>2, <2>3, <2>4 DEF Alone
<1>10. Queues(q)
  <2>1. Queues(s.queued)  BY DEF Staged
  <2> SUFFICES ASSUME NEW p \in Region
               PROVE  /\ Len(q[p]) <= MaxQueue
                      /\ \A i \in DOMAIN q[p] : RegionOf[q[p][i].target] = p /\ q[p][i].policy = "Queue"
    BY DEF Queues
  <2>2. CASE p # r  BY <1>5, <2>1, <2>2 DEF Queues
  <2>3. CASE p = r
    <3>1. /\ Len(q[r]) = Len(o) + 1 /\ Len(o) \in Nat /\ DOMAIN o = 1 .. Len(o)
          /\ DOMAIN q[r] = 1 .. Len(o) + 1
          /\ q[r][Len(o) + 1] = x /\ \A i \in 1 .. Len(o) : q[r][i] = o[i]
      <4> HIDE DEF r, o, q
      <4> QED  BY <1>5 DEF o
    <3>2. MaxQueue \in Nat  BY RegionsOfTargets
    <3>3. \A i \in DOMAIN o : RegionOf[o[i].target] = r /\ o[i].policy = "Queue"
      BY <1>4, <2>1 DEF Queues
    <3>4. \A i \in DOMAIN q[r] : i \in DOMAIN o \/ i = Len(o) + 1  BY <3>1
    <3> HIDE DEF o
    <3>5. Len(q[r]) <= MaxQueue  BY <3>1, <3>2 DEF o
    <3> QED  BY <2>3, <3>1, <3>3, <3>4, <3>5
  <2> QED  BY <2>2, <2>3
<1>11. Staged(d)  BY <1>2, <1>9, <1>10 DEF Staged
<1>12. Live(d) = Live(s) \cup MemberOf(x)
  <2>1. UNION {MembersIn(q[p]) : p \in Region}
          = (UNION {MembersIn(s.queued[p]) : p \in Region}) \cup MemberOf(x)
    <3>1. \A p \in Region : MembersIn(q[p]) = IF p = r THEN MembersIn(s.queued[p]) \cup MemberOf(x)
                                               ELSE MembersIn(s.queued[p])
      BY <1>5, <1>8
    <3> HIDE DEF r
    <3> QED  BY <1>4, <3>1
  <2> QED  BY <1>1, <1>2, <2>1, LiveIs
<1> QED  BY <1>2, <1>5, <1>11, <1>12 DEF Queued, d
-------------------------------------------------------------------------------
(* Batches and queues, command by command. *)

LEMMA PrepareTyped ==
  ASSUME NEW s \in Coordinator, NEW x \in Commands
  PROVE  Prepare(s, x) \in Coordinator
<1>1. Start(s, x) \in Coordinator  BY StartFields
<1>2. Enqueue(s, x) \in Coordinator  BY EnqueueFields
<1> QED  BY <1>1, <1>2 DEF Prepare

(* A queued command that starts is reported. *)
Begin(s, x) == [Start(s, x) EXCEPT !.activated = Append(@, x.id)]

Again(s, x) == IF Busy(s, x.target) THEN Enqueue(s, x) ELSE Begin(s, x)

LEMMA BeginFields ==
  ASSUME NEW s \in Coordinator, NEW x \in Commands
  PROVE  LET d == Begin(s, x)  b == Start(s, x) IN
         /\ d \in Coordinator /\ d.entry = b.entry /\ d.queued = b.queued
         /\ d.fences = s.fences /\ d.groups = s.groups /\ d.failed = s.failed
<1> DEFINE d == Begin(s, x)
           b == Start(s, x)
<1>1. b \in Coordinator /\ b.fences = s.fences /\ b.groups = s.groups /\ b.failed = s.failed
  BY StartFields
<1>2. d = [b EXCEPT !.activated = Append(@, x.id)]  BY DEF Begin
<1> HIDE DEF b, d
<1>3. Typed(b)  BY <1>1, TypedIs
<1>4. /\ d = [entry |-> d.entry, queued |-> d.queued, fences |-> b.fences, groups |-> b.groups,
              activated |-> d.activated, failed |-> d.failed]
      /\ d.entry = b.entry /\ d.queued = b.queued /\ d.fences = b.fences /\ d.groups = b.groups
      /\ d.failed = b.failed /\ d.activated = Append(b.activated, x.id)
  BY <1>2, <1>3 DEF Typed
<1>5. d.activated \in Seq(Ids)
  <2>1. b.activated \in Seq(Ids) /\ x.id \in Ids  BY <1>3, EntryIs DEF Typed
  <2> QED  BY <1>4, <2>1
<1>6. /\ d.entry \in [Shown(d) -> EntryState] /\ Shown(d) \subseteq Target
      /\ d.queued \in [Region -> Seq(Commands)] /\ d.failed \in BOOLEAN
  BY <1>3, <1>4 DEF Typed, Shown
<1>7. d \in Coordinator  BY <1>3, <1>4, <1>5, <1>6, FieldsOf
<1> QED  BY <1>1, <1>4, <1>7 DEF b, d

LEMMA AgainTyped ==
  ASSUME NEW s \in Coordinator, NEW x \in Commands
  PROVE  Again(s, x) \in Coordinator
<1>1. Begin(s, x) \in Coordinator  BY BeginFields
<1>2. Enqueue(s, x) \in Coordinator  BY EnqueueFields
<1> QED  BY <1>1, <1>2 DEF Again

(* A batch, prepared. *)
LEMMA PrepareFold ==
  ASSUME NEW base \in Coordinator, NEW q \in Seq(Commands)
  PROVE  \E g \in [0 .. Len(q) -> Coordinator] :
           /\ g[0] = base
           /\ \A k \in 1 .. Len(q) : g[k] = Prepare(g[k - 1], q[k])
           /\ g[Len(q)] = FoldLeft(Prepare, base, q)
<1> DEFINE V == Coordinator
           n == Len(q)
           F == [p \in V \X (1 .. n) |-> Prepare(p[1], q[p[2]])]
           Solves(it) == it = [s \in SUBSET (1 .. n) |->
                                 IF s = {} THEN base ELSE Prepare(it[s \ {Max(s)}], q[Max(s)])]
<1>1. n \in Nat /\ DOMAIN q = 1 .. n /\ \A i \in 1 .. n : q[i] \in Commands
  BY LenProperties, ElementOfSeq
<1> HIDE DEF n
<1>2. /\ F \in [V \X (1 .. n) -> V]
      /\ \A v \in V, k \in 1 .. n : F[<<v, k>>] = Prepare(v, q[k])
  BY <1>1, PrepareTyped
<1> HIDE DEF F, V
<1>b. base \in V  BY DEF V
<1>3. PICK f \in [SUBSET (1 .. n) -> V] : FoldsWith(f, base, F, V, n)
  BY <1>1, <1>2, <1>b, FoldRecursion
<1>4. Solves(f)
  <2> SUFFICES ASSUME NEW s \in SUBSET (1 .. n), s # {}
               PROVE  f[s] = Prepare(f[s \ {Max(s)}], q[Max(s)])
    BY <1>3 DEF FoldsWith
  <2>1. Max(s) \in 1 .. n  BY <1>1, MaxIsThere
  <2>2. f[s \ {Max(s)}] \in V  OBVIOUS
  <2> QED  BY <1>2, <1>3, <2>1, <2>2 DEF FoldsWith
<1> DEFINE it == CHOOSE h : Solves(h)
<1>5. Solves(it)
  <2> HIDE DEF Solves
  <2> QED  BY <1>4
<1>6. FoldLeft(Prepare, base, q) = it[1 .. n]  BY <1>1 DEF FoldLeft, MapThenFoldSet
<1> HIDE DEF it
<1>7. FoldsWith(it, base, F, V, n)
  <2>1. it[{}] = base  BY <1>5
  <2>2. ASSUME NEW s \in SUBSET (1 .. n), s # {}, it[s \ {Max(s)}] \in V
        PROVE  it[s] = F[<<it[s \ {Max(s)}], Max(s)>>]
    <3>1. Max(s) \in 1 .. n  BY <1>1, <2>2, MaxIsThere
    <3>2. it[s] = Prepare(it[s \ {Max(s)}], q[Max(s)])  BY <1>5, <2>2
    <3> HIDE DEF Solves
    <3> QED  BY <1>2, <2>2, <3>1, <3>2
  <2> QED  BY <2>1, <2>2 DEF FoldsWith
<1>8. PICK g : FoldSteps(g, it, base, F, V, n)
  BY <1>1, <1>2, <1>7, <1>b, FoldValues
<1>9. \A k \in 1 .. n : g[k] = Prepare(g[k - 1], q[k])
  <2> SUFFICES ASSUME NEW k \in 1 .. n PROVE g[k] = Prepare(g[k - 1], q[k])  OBVIOUS
  <2>1. g[k - 1] \in V
    <3>1. k - 1 \in 0 .. n  BY <1>1
    <3> QED  BY <1>8, <3>1 DEF FoldSteps
  <2> QED  BY <1>2, <1>8, <2>1 DEF FoldSteps
<1>10. g \in [0 .. n -> V] /\ g[0] = base /\ g[n] = it[1 .. n]  BY <1>8 DEF FoldSteps
<1> QED  BY <1>6, <1>9, <1>10 DEF V, n

(* A queue, prepared again. *)
LEMMA AgainFold ==
  ASSUME NEW base \in Coordinator, NEW q \in Seq(Commands)
  PROVE  \E g \in [0 .. Len(q) -> Coordinator] :
           /\ g[0] = base
           /\ \A k \in 1 .. Len(q) : g[k] = Again(g[k - 1], q[k])
           /\ g[Len(q)] = FoldLeft(Again, base, q)
<1> DEFINE V == Coordinator
           n == Len(q)
           F == [p \in V \X (1 .. n) |-> Again(p[1], q[p[2]])]
           Solves(it) == it = [s \in SUBSET (1 .. n) |->
                                 IF s = {} THEN base ELSE Again(it[s \ {Max(s)}], q[Max(s)])]
<1>1. n \in Nat /\ DOMAIN q = 1 .. n /\ \A i \in 1 .. n : q[i] \in Commands
  BY LenProperties, ElementOfSeq
<1> HIDE DEF n
<1>2. /\ F \in [V \X (1 .. n) -> V]
      /\ \A v \in V, k \in 1 .. n : F[<<v, k>>] = Again(v, q[k])
  BY <1>1, AgainTyped
<1> HIDE DEF F, V
<1>b. base \in V  BY DEF V
<1>3. PICK f \in [SUBSET (1 .. n) -> V] : FoldsWith(f, base, F, V, n)
  BY <1>1, <1>2, <1>b, FoldRecursion
<1>4. Solves(f)
  <2> SUFFICES ASSUME NEW s \in SUBSET (1 .. n), s # {}
               PROVE  f[s] = Again(f[s \ {Max(s)}], q[Max(s)])
    BY <1>3 DEF FoldsWith
  <2>1. Max(s) \in 1 .. n  BY <1>1, MaxIsThere
  <2>2. f[s \ {Max(s)}] \in V  OBVIOUS
  <2> QED  BY <1>2, <1>3, <2>1, <2>2 DEF FoldsWith
<1> DEFINE it == CHOOSE h : Solves(h)
<1>5. Solves(it)
  <2> HIDE DEF Solves
  <2> QED  BY <1>4
<1>6. FoldLeft(Again, base, q) = it[1 .. n]  BY <1>1 DEF FoldLeft, MapThenFoldSet
<1> HIDE DEF it
<1>7. FoldsWith(it, base, F, V, n)
  <2>1. it[{}] = base  BY <1>5
  <2>2. ASSUME NEW s \in SUBSET (1 .. n), s # {}, it[s \ {Max(s)}] \in V
        PROVE  it[s] = F[<<it[s \ {Max(s)}], Max(s)>>]
    <3>1. Max(s) \in 1 .. n  BY <1>1, <2>2, MaxIsThere
    <3>2. it[s] = Again(it[s \ {Max(s)}], q[Max(s)])  BY <1>5, <2>2
    <3> HIDE DEF Solves
    <3> QED  BY <1>2, <2>2, <3>1, <3>2
  <2> QED  BY <2>1, <2>2 DEF FoldsWith
<1>8. PICK g : FoldSteps(g, it, base, F, V, n)
  BY <1>1, <1>2, <1>7, <1>b, FoldValues
<1>9. \A k \in 1 .. n : g[k] = Again(g[k - 1], q[k])
  <2> SUFFICES ASSUME NEW k \in 1 .. n PROVE g[k] = Again(g[k - 1], q[k])  OBVIOUS
  <2>1. g[k - 1] \in V
    <3>1. k - 1 \in 0 .. n  BY <1>1
    <3> QED  BY <1>8, <3>1 DEF FoldSteps
  <2> QED  BY <1>2, <1>8, <2>1 DEF FoldSteps
<1>10. g \in [0 .. n -> V] /\ g[0] = base /\ g[n] = it[1 .. n]  BY <1>8 DEF FoldSteps
<1> QED  BY <1>6, <1>9, <1>10 DEF V, n

LEMMA PreparedPrefix ==
  ASSUME NEW base \in Coordinator, NEW q \in Seq(Commands)
  PROVE  \E g \in [0 .. Len(q) -> Coordinator] :
           /\ g[0] = base
           /\ \A k \in 1 .. Len(q) : /\ g[k] = Prepare(g[k - 1], q[k])
                                     /\ g[k - 1] = FoldLeft(Prepare, base, SubSeq(q, 1, k - 1))
           /\ g[Len(q)] = FoldLeft(Prepare, base, q)
<1>1. PICK g \in [0 .. Len(q) -> Coordinator] :
        /\ g[0] = base
        /\ \A k \in 1 .. Len(q) : g[k] = Prepare(g[k - 1], q[k])
        /\ g[Len(q)] = FoldLeft(Prepare, base, q)
  BY PrepareFold
<1>2. ASSUME NEW k \in 1 .. Len(q)
      PROVE  g[k - 1] = FoldLeft(Prepare, base, SubSeq(q, 1, k - 1))
  <2> DEFINE w == SubSeq(q, 1, k - 1)
  <2>1. /\ w \in Seq(Commands) /\ Len(w) = k - 1 /\ k - 1 \in Nat /\ k - 1 <= Len(q)
        /\ \A i \in 1 .. k - 1 : w[i] = q[i]
    OBVIOUS
  <2> HIDE DEF w
  <2>2. PICK h \in [0 .. Len(w) -> Coordinator] :
          /\ h[0] = base
          /\ \A i \in 1 .. Len(w) : h[i] = Prepare(h[i - 1], w[i])
          /\ h[Len(w)] = FoldLeft(Prepare, base, w)
    BY <2>1, PrepareFold
  <2> DEFINE T == {i \in Nat : i <= k - 1 => h[i] = g[i]}
  <2>3. 0 \in T  BY <1>1, <2>2
  <2>4. ASSUME NEW i \in Nat, i \in T PROVE i + 1 \in T
    <3> SUFFICES ASSUME i + 1 <= k - 1 PROVE h[i + 1] = g[i + 1]  OBVIOUS
    <3>1. /\ i + 1 \in 1 .. Len(w) /\ i + 1 \in 1 .. Len(q) /\ (i + 1) - 1 = i /\ i <= k - 1
      BY <2>1
    <3>2. h[i] = g[i] /\ w[i + 1] = q[i + 1]  BY <2>1, <2>4, <3>1
    <3> QED  BY <1>1, <2>2, <3>1, <3>2
  <2>5. \A i \in Nat : i \in T
    <3> HIDE DEF T
    <3> QED  BY <2>3, <2>4, Induction
  <2>6. h[k - 1] = g[k - 1]  BY <2>1, <2>5
  <2> QED  BY <2>1, <2>2, <2>6 DEF w
<1> QED  BY <1>1, <1>2
-------------------------------------------------------------------------------
(* A queue that is drained: what waits behind a running command is queued  *)
(* again, everything else starts over what has ended.                      *)

LEMMA BusyIs == \A s, t : Busy(s, t) <=> t \in Shown(s) /\ Runs(t, s.entry[t])
BY DEF Busy, Runs

LEMMA NothingGone ==
  ASSUME NEW s, Staged(s), NEW t, ~ Busy(s, t)
  PROVE  Gone(s, t) = {}
<1>1. CASE t \in Shown(s)
  <2>1. Performs(t, s.entry[t]) /\ ~ Runs(t, s.entry[t])
    BY <1>1, BusyIs DEF Staged, Performing, Shown
  <2> QED  BY <2>1 DEF Performs, Gone, MemberOf
<1>2. CASE t \notin Shown(s)  BY <1>2 DEF Gone
<1> QED  BY <1>1, <1>2

(* After the first k commands. *)
DrainedTo(s, r, d, k) ==
  /\ Staged(d)
  /\ Live(d) = (Live(s) \ MembersIn(s.queued[r]))
                  \cup UNION {MemberOf(s.queued[r][i]) : i \in 1 .. k}
  /\ d.fences = s.fences /\ d.groups = s.groups /\ d.failed = s.failed
  /\ \A p \in Region \ {r} : d.queued[p] = s.queued[p]
  /\ Len(d.queued[r]) <= k
  /\ Behind(d, r)
  /\ Shown(s) \subseteq Shown(d)
  /\ \A t \in Shown(s) : RegionOf[t] # r \/ Busy(s, t) => d.entry[t] = s.entry[t]

LEMMA DrainStep ==
  ASSUME NEW s, Staged(s), NEW r \in Region, NEW k \in Nat, k + 1 \in DOMAIN s.queued[r],
         NEW d, DrainedTo(s, r, d, k)
  PROVE  DrainedTo(s, r, Again(d, s.queued[r][k + 1]), k + 1)
<1> DEFINE q == s.queued[r]
           x == q[k + 1]
           e == Again(d, x)
           t == x.target
<1>1. /\ q \in Seq(Commands) /\ Len(q) <= MaxQueue /\ MaxQueue \in Nat
      /\ x \in Commands /\ RegionOf[t] = r /\ x.policy = "Queue"
      /\ k + 1 \in 1 .. Len(q) /\ Len(q) \in Nat
  <2>1. q \in Seq(Commands)  BY TypedIs DEF Staged, Typed
  <2>2. Queues(s.queued)  BY DEF Staged
  <2> HIDE DEF q
  <2>3. Len(q) <= MaxQueue /\ RegionOf[t] = r /\ x.policy = "Queue"  BY <2>2 DEF Queues, q
  <2>4. k + 1 \in DOMAIN q  BY DEF q
  <2> QED  BY <2>1, <2>3, <2>4, RegionsOfTargets
<1>2. \A i \in 1 .. k : MemberOf(x) \cap MemberOf(q[i]) = {}
  <2>1. Apart(q)  BY DEF Staged, Alone
  <2>2. \A i \in 1 .. k : i \in DOMAIN q /\ i # k + 1  BY <1>1
  <2>3. k + 1 \in DOMAIN q  BY <1>1
  <2> HIDE DEF q
  <2> QED  BY <2>1, <2>2, <2>3 DEF Apart
<1>3. MemberOf(x) \subseteq MembersIn(q)  BY <1>1 DEF MembersIn
<1>4. UNION {MemberOf(q[i]) : i \in 1 .. k + 1}
        = (UNION {MemberOf(q[i]) : i \in 1 .. k}) \cup MemberOf(x)
  <2>1. 1 .. k + 1 = (1 .. k) \cup {k + 1}  OBVIOUS
  <2> HIDE DEF q
  <2> QED  BY <2>1
<1> DEFINE U(j) == UNION {MemberOf(q[i]) : i \in 1 .. j}
<1>5. /\ Staged(d) /\ Live(d) = (Live(s) \ MembersIn(q)) \cup U(k)
      /\ d.fences = s.fences /\ d.groups = s.groups /\ d.failed = s.failed
      /\ \A p \in Region \ {r} : d.queued[p] = s.queued[p]
      /\ Len(d.queued[r]) <= k /\ Behind(d, r)
      /\ Shown(s) \subseteq Shown(d)
      /\ \A u \in Shown(s) : RegionOf[u] # r \/ Busy(s, u) => d.entry[u] = s.entry[u]
  BY DEF DrainedTo
<1>6. U(k) \cap MemberOf(x) = {} /\ U(k + 1) = U(k) \cup MemberOf(x)  BY <1>2, <1>4
<1> HIDE DEF q, U
<1>7. MemberOf(x) \cap Live(d) = {}  BY <1>3, <1>5, <1>6
<1>8. d \in Coordinator /\ d.queued[r] \in Seq(Commands)  BY <1>5, TypedIs DEF Staged, Typed
<1>9. /\ Staged(e) /\ Live(e) = (Live(s) \ MembersIn(q)) \cup U(k + 1)
      /\ e.fences = s.fences /\ e.groups = s.groups /\ e.failed = s.failed
      /\ \A p \in Region \ {r} : e.queued[p] = s.queued[p]
      /\ Len(e.queued[r]) <= k + 1 /\ Behind(e, r)
      /\ Shown(s) \subseteq Shown(e)
      /\ \A u \in Shown(s) : RegionOf[u] # r \/ Busy(s, u) => e.entry[u] = s.entry[u]
  <2>1. CASE Busy(d, t)
    <3>1. e = Enqueue(d, x)  BY <2>1 DEF Again
    <3> HIDE DEF e
    <3>2. Len(d.queued[r]) < MaxQueue  BY <1>1, <1>5, <1>8
    <3>3. Queued(d, x, e)  BY <1>1, <1>5, <1>7, <3>1, <3>2, EnqueueFacts
    <3>4. /\ e.queued[r] = Append(d.queued[r], x) /\ e.entry = d.entry
          /\ Shown(e) = Shown(d)
      BY <1>1, <3>3 DEF Queued, Shown
    <3>5. Behind(e, r)
      <4> SUFFICES ASSUME NEW i \in DOMAIN e.queued[r] PROVE Busy(e, e.queued[r][i].target)
        BY DEF Behind
      <4>1. \/ i \in DOMAIN d.queued[r] /\ e.queued[r][i] = d.queued[r][i]
            \/ e.queued[r][i] = x
        BY <1>1, <1>8, <3>4
      <4>2. \A u : Busy(e, u) <=> Busy(d, u)  BY <3>4, BusyIs
      <4> QED  BY <1>5, <2>1, <4>1, <4>2 DEF Behind
    <3>6. Len(e.queued[r]) <= k + 1  BY <1>1, <1>5, <1>8, <3>4
    <3>7. Live(e) = (Live(s) \ MembersIn(q)) \cup U(k + 1)  BY <1>5, <1>6, <3>3 DEF Queued
    <3> QED  BY <1>1, <1>5, <3>3, <3>4, <3>5, <3>6, <3>7 DEF Queued
  <2>2. CASE ~ Busy(d, t)
    <3>1. e = Begin(d, x)  BY <2>2 DEF Again
    <3> HIDE DEF e
    <3> DEFINE b == Start(d, x)
    <3>2. Started(d, x, b)  BY <1>1, <1>5, <1>7, StartFacts
    <3>3. /\ e \in Coordinator /\ e.entry = b.entry /\ e.queued = b.queued
          /\ e.fences = d.fences /\ e.groups = d.groups /\ e.failed = d.failed
      BY <1>1, <1>8, <3>1, BeginFields
    <3> HIDE DEF b
    <3>4. Staged(e) /\ Live(e) = Live(b)  BY <3>2, <3>3, StagedSame DEF Started
    <3>5. Live(b) = Live(d) \cup MemberOf(x)
      BY <1>5, <2>2, <3>2, NothingGone DEF Started
    <3>6. /\ Shown(e) = Shown(d) \cup {t} /\ e.queued = d.queued
          /\ \A u \in Shown(d) \ {t} : e.entry[u] = d.entry[u]
      BY <3>2, <3>3 DEF Started, Shown
    <3>7. \A u : Busy(d, u) => u # t /\ u \in Shown(d) /\ Busy(e, u)  BY <2>2, <3>6, BusyIs
    <3>8. Behind(e, r)  BY <1>5, <3>6, <3>7 DEF Behind
    <3>9. \A u \in Shown(s) : RegionOf[u] # r \/ Busy(s, u) => e.entry[u] = s.entry[u]
      <4> SUFFICES ASSUME NEW u \in Shown(s), RegionOf[u] # r \/ Busy(s, u)
                   PROVE  e.entry[u] = s.entry[u]
        OBVIOUS
      <4>1. u \in Shown(d) /\ d.entry[u] = s.entry[u]  BY <1>5
      <4>2. u # t  BY <1>1, <2>2, <4>1, BusyIs
      <4> QED  BY <3>6, <4>1, <4>2
    <3>10. Live(e) = (Live(s) \ MembersIn(q)) \cup U(k + 1)  BY <1>5, <1>6, <3>4, <3>5
    <3>11. Len(e.queued[r]) <= k + 1  BY <1>5, <1>8, <3>6
    <3> QED  BY <1>5, <3>3, <3>4, <3>6, <3>8, <3>9, <3>10, <3>11
  <2> QED  BY <2>1, <2>2
<1> HIDE DEF e
<1>10. DrainedTo(s, r, e, k + 1)  BY <1>9 DEF DrainedTo, q, U
<1> QED  BY <1>10 DEF e, q

Drained(s, r, d) ==
  /\ Staged(d) /\ Live(d) = Live(s)
  /\ d.fences = s.fences /\ d.groups = s.groups /\ d.failed = s.failed
  /\ \A p \in Region \ {r} : d.queued[p] = s.queued[p]
  /\ Behind(d, r)
  /\ Shown(s) \subseteq Shown(d)
  /\ \A t \in Shown(s) : RegionOf[t] # r \/ Busy(s, t) => d.entry[t] = s.entry[t]

(* A queue that is taken out to be prepared again.                         *)
LEMMA TakenOut ==
  ASSUME NEW s \in Coordinator, NEW r \in Region
  PROVE  LET base == [s EXCEPT !.queued[r] = <<>>] IN
         /\ base \in Coordinator /\ base.entry = s.entry
         /\ base.fences = s.fences /\ base.groups = s.groups
         /\ base.activated = s.activated /\ base.failed = s.failed
         /\ base.queued[r] = <<>> /\ \A p \in Region \ {r} : base.queued[p] = s.queued[p]
<1> DEFINE base == [s EXCEPT !.queued[r] = <<>>]
           rest == [s.queued EXCEPT ![r] = <<>>]
<1>1. Typed(s)  BY TypedIs
<1>2. base = [s EXCEPT !.queued = rest]  OBVIOUS
<1>3. /\ s.entry \in [Shown(s) -> EntryState] /\ Shown(s) \subseteq Target
      /\ s.queued \in [Region -> Seq(Commands)] /\ s.activated \in Seq(Ids) /\ s.failed \in BOOLEAN
  BY <1>1 DEF Typed
<1>4. /\ rest \in [Region -> Seq(Commands)] /\ rest[r] = <<>>
      /\ \A p \in Region \ {r} : rest[p] = s.queued[p]
  BY <1>3
<1> HIDE DEF base, rest
<1>5. /\ base = [entry |-> base.entry, queued |-> base.queued, fences |-> s.fences,
                 groups |-> s.groups, activated |-> base.activated, failed |-> base.failed]
      /\ base.entry = s.entry /\ base.queued = rest
      /\ base.fences = s.fences /\ base.groups = s.groups
      /\ base.activated = s.activated /\ base.failed = s.failed
  BY <1>1, <1>2 DEF Typed
<1>6. base.entry \in [Shown(base) -> EntryState] /\ Shown(base) \subseteq Target
  BY <1>3, <1>5 DEF Shown
<1>7. base \in Coordinator  BY <1>1, <1>3, <1>4, <1>5, <1>6, FieldsOf
<1> QED  BY <1>4, <1>5, <1>7 DEF base

LEMMA DrainFacts ==
  ASSUME NEW s, Staged(s), NEW r \in Region
  PROVE  Drained(s, r, Drain(s, r))
<1> DEFINE q == s.queued[r]
           base == [s EXCEPT !.queued[r] = <<>>]
<1>1. Drain(s, r) = FoldLeft(Again, base, q)
  BY DEF Drain, Again, Begin, FoldLeft, MapThenFoldSet
<1>2. s \in Coordinator /\ q \in Seq(Commands)  BY TypedIs DEF Staged, Typed
<1>3. /\ base \in Coordinator /\ base.entry = s.entry
      /\ base.fences = s.fences /\ base.groups = s.groups
      /\ base.activated = s.activated /\ base.failed = s.failed
  BY <1>2, TakenOut
<1>5. /\ base.queued \in [Region -> Seq(Commands)] /\ base.queued[r] = <<>>
      /\ \A p \in Region \ {r} : base.queued[p] = s.queued[p]
  BY <1>2, <1>3, TakenOut, TypedIs DEF Typed
<1> HIDE DEF base
<1>6. base \in Coordinator  BY <1>3
<1>7. Staged(base)
  <2>1. Queues(base.queued)
    <3>1. Len(<<>>) = 0 /\ DOMAIN <<>> = {} /\ MaxQueue \in Nat  BY RegionsOfTargets
    <3>2. Queues(s.queued)  BY DEF Staged
    <3> QED  BY <1>5, <3>1, <3>2 DEF Queues
  <2>2. Alone(base.entry, base.queued)
    <3>1. Alone(s.entry, s.queued)  BY DEF Staged
    <3>2. MembersIn(<<>>) = {} /\ Apart(<<>>)  BY DEF MembersIn, Apart
    <3>3. \A p \in Region : Apart(base.queued[p]) /\ MembersIn(base.queued[p]) \cap MembersIn(s.entry) = {}
      BY <1>5, <3>1, <3>2 DEF Alone
    <3>4. \A p, o \in Region : p # o => MembersIn(base.queued[p]) \cap MembersIn(base.queued[o]) = {}
      BY <1>5, <3>1, <3>2 DEF Alone
    <3> QED  BY <1>3, <3>1, <3>3, <3>4 DEF Alone
  <2> QED  BY <1>3, <1>6, <2>1, <2>2 DEF Staged
<1>8. Live(base) = Live(s) \ MembersIn(q) /\ MembersIn(q) \subseteq Live(s)
  <2> DEFINE M(p) == MembersIn(s.queued[p])
  <2>1. /\ Live(s) = MembersIn(s.entry) \cup UNION {M(p) : p \in Region}
        /\ Live(base) = MembersIn(s.entry) \cup UNION {MembersIn(base.queued[p]) : p \in Region}
    BY <1>2, <1>3, <1>6, LiveIs
  <2>2. MembersIn(<<>>) = {}  BY DEF MembersIn
  <2>3. \A p \in Region : MembersIn(base.queued[p]) = IF p = r THEN {} ELSE M(p)  BY <1>5, <2>2
  <2>4. /\ \A p \in Region \ {r} : M(p) \cap MembersIn(q) = {}
        /\ MembersIn(s.entry) \cap MembersIn(q) = {}
        /\ MembersIn(q) = M(r)
    BY DEF Staged, Alone
  <2> HIDE DEF M, q
  <2> QED  BY <2>1, <2>3, <2>4
<1>9. DrainedTo(s, r, base, 0)
  <2>1. UNION {MemberOf(q[i]) : i \in 1 .. 0} = {}  OBVIOUS
  <2>2. Behind(base, r) /\ Len(base.queued[r]) <= 0
    <3>1. Len(<<>>) = 0 /\ DOMAIN <<>> = {}  OBVIOUS
    <3> QED  BY <1>5, <3>1 DEF Behind
  <2>3. Shown(base) = Shown(s)  BY <1>3 DEF Shown
  <2> QED  BY <1>3, <1>5, <1>7, <1>8, <2>1, <2>2, <2>3 DEF DrainedTo
<1>10. PICK g \in [0 .. Len(q) -> Coordinator] :
         /\ g[0] = base
         /\ \A k \in 1 .. Len(q) : g[k] = Again(g[k - 1], q[k])
         /\ g[Len(q)] = FoldLeft(Again, base, q)
  BY <1>2, <1>6, AgainFold
<1> HIDE DEF q
<1>11. Len(q) \in Nat /\ DOMAIN q = 1 .. Len(q)  BY <1>2
<1> DEFINE T == {k \in Nat : k <= Len(q) => DrainedTo(s, r, g[k], k)}
<1>12. 0 \in T  BY <1>9, <1>10
<1>13. ASSUME NEW k \in Nat, k \in T PROVE k + 1 \in T
  <2> SUFFICES ASSUME k + 1 <= Len(q) PROVE DrainedTo(s, r, g[k + 1], k + 1)  OBVIOUS
  <2>1. k + 1 \in 1 .. Len(q) /\ (k + 1) - 1 = k /\ DrainedTo(s, r, g[k], k)  BY <1>11, <1>13
  <2>2. g[k + 1] = Again(g[k], q[k + 1])  BY <1>10, <2>1
  <2> QED  BY <1>11, <2>1, <2>2, DrainStep DEF q
<1>14. \A k \in Nat : k \in T
  <2> HIDE DEF T
  <2> QED  BY <1>12, <1>13, Induction
<1> DEFINE d == Drain(s, r)
<1>15. DrainedTo(s, r, d, Len(q))  BY <1>1, <1>10, <1>11, <1>14
<1> HIDE DEF d
<1>16. UNION {MemberOf(q[i]) : i \in 1 .. Len(q)} = MembersIn(q)  BY <1>11 DEF MembersIn
<1>17. Live(d) = Live(s)  BY <1>8, <1>15, <1>16 DEF DrainedTo, q
<1>18. Drained(s, r, d)  BY <1>15, <1>17 DEF DrainedTo, Drained
<1> QED  BY <1>18 DEF d

(* The calls fail when too much has been activated, and else only drain.   *)
LEMMA CheckFacts ==
  ASSUME NEW d \in Coordinator, ~ CheckActivated(d).failed
  PROVE  CheckActivated(d) = d /\ ~ d.failed /\ Len(d.activated) <= MaxQueue
<1> DEFINE e == CheckActivated(d)
           b == d.failed \/ Len(d.activated) > MaxQueue
<1>1. Typed(d)  BY TypedIs
<1>2. e = [d EXCEPT !.failed = b]  BY DEF CheckActivated
<1> HIDE DEF e, b
<1>3. e.failed = b /\ ~ b /\ b \in BOOLEAN  BY <1>1, <1>2 DEF Typed, b, e
<1>4. ~ d.failed /\ ~ (Len(d.activated) > MaxQueue)  BY <1>3 DEF b
<1>5. Len(d.activated) \in Nat /\ MaxQueue \in Nat  BY <1>1, RegionsOfTargets DEF Typed
<1>6. d.failed = FALSE /\ b = FALSE  BY <1>1, <1>3, <1>4 DEF Typed
<1>7. e = d  BY <1>1, <1>2, <1>6 DEF Typed
<1> QED  BY <1>4, <1>5, <1>7 DEF e

Lost(s, T) == UNION {MemberOf(s.entry[t]) : t \in T}

(* Entries that end give up their fences. *)
LEMMA EndFacts ==
  ASSUME NEW s, Staged(s), NEW d \in Coordinator, d.queued = s.queued, Performing(d.entry),
         NEW T \in SUBSET Shown(s), Shown(d) \subseteq Shown(s), Shown(s) \ Shown(d) \subseteq T,
         \A t \in Shown(d) : MemberOf(d.entry[t]) = IF t \in T THEN {} ELSE MemberOf(s.entry[t])
  PROVE  Staged(d) /\ Live(d) = Live(s) \ Lost(s, T)
<1>1. /\ Alone(s.entry, s.queued) /\ Queues(s.queued) /\ s \in Coordinator
      /\ Apart(s.entry)
  BY DEF Staged, Alone
<1>2. \A t \in T, u \in Shown(s) : t # u => MemberOf(s.entry[t]) \cap MemberOf(s.entry[u]) = {}
  BY <1>1 DEF Apart, Shown
<1>3. MembersIn(d.entry) = MembersIn(s.entry) \ Lost(s, T)
  <2>1. ASSUME NEW m \in MembersIn(d.entry) PROVE m \in MembersIn(s.entry) /\ m \notin Lost(s, T)
    <3>1. PICK t \in Shown(d) : m \in MemberOf(d.entry[t])  BY <2>1, MembersAre DEF Shown
    <3>2. t \notin T /\ t \in Shown(s) /\ m \in MemberOf(s.entry[t])  BY <3>1
    <3>3. m \in MembersIn(s.entry)  BY <3>2, MembersAre DEF Shown
    <3> QED  BY <1>2, <3>2, <3>3 DEF Lost
  <2>2. ASSUME NEW m \in MembersIn(s.entry), m \notin Lost(s, T) PROVE m \in MembersIn(d.entry)
    <3>1. PICK t \in Shown(s) : m \in MemberOf(s.entry[t])  BY <2>2, MembersAre DEF Shown
    <3>2. t \notin T  BY <2>2, <3>1 DEF Lost
    <3>3. t \in Shown(d) /\ m \in MemberOf(d.entry[t])  BY <3>1, <3>2
    <3> QED  BY <3>3, MembersAre DEF Shown
  <2> QED  BY <2>1, <2>2
<1>4. Apart(d.entry)
  <2> SUFFICES ASSUME NEW t \in Shown(d), NEW u \in Shown(d), t # u
               PROVE  MemberOf(d.entry[t]) \cap MemberOf(d.entry[u]) = {}
    BY DEF Apart, Shown
  <2>1. MemberOf(s.entry[t]) \cap MemberOf(s.entry[u]) = {}  BY <1>1 DEF Apart, Shown
  <2> QED  BY <2>1
<1>5. Alone(d.entry, d.queued)
  <2>1. \A r \in Region : MembersIn(s.queued[r]) \cap MembersIn(d.entry) = {}
    BY <1>1, <1>3 DEF Alone
  <2> QED  BY <1>1, <1>4, <2>1 DEF Alone
<1>6. Staged(d)  BY <1>1, <1>5 DEF Staged
<1>7. Lost(s, T) \subseteq MembersIn(s.entry)  BY DEF Lost, MembersIn, Shown
<1>8. Live(d) = Live(s) \ Lost(s, T)
  <2> DEFINE Q == UNION {MembersIn(s.queued[r]) : r \in Region}
  <2>1. Live(s) = MembersIn(s.entry) \cup Q /\ Live(d) = MembersIn(d.entry) \cup Q
    BY <1>1, LiveIs
  <2>2. Q \cap MembersIn(s.entry) = {}  BY <1>1 DEF Alone
  <2> HIDE DEF Q
  <2> QED  BY <1>3, <1>7, <2>1, <2>2
<1> QED  BY <1>6, <1>8

(* What the history calls the members that end. *)
LEMMA LostAre ==
  ASSUME NEW s, Staged(s), NEW T \in SUBSET Shown(s)
  PROVE  /\ {<<s.entry[t].fence, s.entry[t].id>> : t \in T} \cap Live(s) = Lost(s, T)
         /\ \A t \in T : s.entry[t].fence # NoFence
              => s.entry[t].fence \in FencesOf(Lost(s, T))
         /\ \A f \in FencesOf(Lost(s, T)) : \E t \in T : f = s.entry[t].fence /\ f # NoFence
<1> DEFINE over == {<<s.entry[t].fence, s.entry[t].id>> : t \in T}
<1>1. Lost(s, T) \subseteq over  BY DEF Lost, MemberOf
<1>2. Lost(s, T) \subseteq Live(s)
  <2>1. Lost(s, T) \subseteq MembersIn(s.entry)  BY DEF Lost, MembersIn, Shown
  <2>2. s \in Coordinator  BY DEF Staged
  <2> QED  BY <2>1, <2>2, LiveIs
<1>3. \A m \in Live(s) : m[1] # NoFence  BY DEF Live, FencedPlaces
<1>4. ASSUME NEW m \in over, m \in Live(s) PROVE m \in Lost(s, T)
  <2>1. PICK t \in T : m = <<s.entry[t].fence, s.entry[t].id>>  BY <1>4
  <2>2. s.entry[t].fence # NoFence  BY <1>3, <1>4, <2>1
  <2>3. m \in MemberOf(s.entry[t])  BY <2>1, <2>2 DEF MemberOf
  <2> QED  BY <2>3 DEF Lost
<1>5. ASSUME NEW t \in T, s.entry[t].fence # NoFence
      PROVE  s.entry[t].fence \in FencesOf(Lost(s, T))
  <2> DEFINE m == <<s.entry[t].fence, s.entry[t].id>>
  <2>1. m \in MemberOf(s.entry[t])  BY <1>5 DEF MemberOf
  <2>2. m \in Lost(s, T) /\ m[1] = s.entry[t].fence  BY <2>1 DEF Lost
  <2> QED  BY <2>2 DEF FencesOf
<1>6. ASSUME NEW f \in FencesOf(Lost(s, T))
      PROVE  \E t \in T : f = s.entry[t].fence /\ f # NoFence
  <2>1. PICK m \in Lost(s, T) : f = m[1]  BY <1>6 DEF FencesOf
  <2>2. PICK t \in T : m \in MemberOf(s.entry[t])  BY <2>1 DEF Lost
  <2> QED  BY <2>1, <2>2 DEF MemberOf
<1> QED  BY <1>1, <1>2, <1>4, <1>5, <1>6
-------------------------------------------------------------------------------
(* The tasks of a line. *)

LEMMA TaskValues ==
  /\ ValidTasks(Unrevealed, FALSE) /\ Unrevealed.reveal.terminal = None
  /\ \A w \in {Clock, Click} :
       /\ FinishReveal(Unrevealed, w) = Revealed(w)
       /\ ValidTasks(Revealed(w), TRUE) /\ Revealed(w).reveal.terminal = "Completed"
       /\ \A v : FinishReveal(Revealed(w), v) = Revealed(w)
<1> DEFINE s == NewProgress("Sequence", 2)
           r == NewProgress("Race", 2)
<1>1. /\ Progress(s) /\ Consistent(s) /\ Progress(r) /\ Consistent(r)
  <2>1. 2 \in Nat \ {0} /\ "Sequence" \in Mode /\ "Race" \in Mode  BY DEF Mode
  <2> QED  BY <2>1, NewIsConsistent
<1>2. /\ Unrevealed.sequence = s /\ Unrevealed.reveal = r
  BY DEF Unrevealed, NewTasks
<1>3. /\ s.mode = "Sequence" /\ s.terminal = None /\ s.members = [i \in 1 .. 2 |-> IF i > 1 THEN "Waiting" ELSE "Running"]
      /\ r.mode = "Race" /\ r.terminal = None /\ r.members = [i \in 1 .. 2 |-> "Running"]
  BY DEF NewProgress
<1>4. /\ Members(s) = {1, 2} /\ s.members[1] = "Running" /\ s.members[2] = "Waiting" /\ Len(s.members) = 2
      /\ Members(r) = {1, 2} /\ r.members[1] = "Running" /\ r.members[2] = "Running" /\ Len(r.members) = 2
  BY <1>3 DEF Members
<1> HIDE DEF s, r
<1>5. Active(s) = {1} /\ Active(r) = {1, 2}  BY <1>4 DEF Active
<1>6. ValidTasks(Unrevealed, FALSE)
  <2>1. Valid(s) /\ Valid(r)  BY <1>1, RestoreTakesExactlyProgress DEF Progress, ProgressShape
  <2> QED  BY <1>2, <1>3, <1>5, <2>1 DEF ValidTasks
<1>7. ASSUME NEW w \in {Clock, Click}
      PROVE  /\ FinishReveal(Unrevealed, w) = Revealed(w)
             /\ ValidTasks(Revealed(w), TRUE) /\ Revealed(w).reveal.terminal = "Completed"
             /\ \A v : FinishReveal(Revealed(w), v) = Revealed(w)
  <2> DEFINE t == Complete(s, 1, "Completed")
             u == Complete(r, w, "Completed")
  <2>1. Revealed(w).sequence = t /\ Revealed(w).reveal = u
    BY <1>2, <1>3 DEF Revealed, FinishReveal
  <2>2. CanComplete(s, 1) /\ CanComplete(r, w) /\ "Completed" \in Terminal
    BY <1>3, <1>5 DEF CanComplete, Clock, Click, Terminal
  <2>3. Outcome(s, 1, "Completed", t) /\ Outcome(r, w, "Completed", u)
    BY <1>1, <2>2, CompletedFacts
  <2> HIDE DEF t, u
  <2>4. /\ Progress(t) /\ Consistent(t) /\ Progress(u) /\ Consistent(u)
        /\ t.terminal = None /\ u.terminal = "Completed"
        /\ Members(t) = {1, 2} /\ t.members[1] = "Completed" /\ t.members[2] = "Running"
    BY <1>3, <1>4, <2>3 DEF Outcome
  <2>5. Active(t) = {2}  BY <2>4 DEF Active
  <2>6. Valid(t) /\ Valid(u)  BY <2>4, RestoreTakesExactlyProgress DEF Progress, ProgressShape
  <2>7. ValidTasks(Revealed(w), TRUE)  BY <2>1, <2>4, <2>5, <2>6 DEF ValidTasks
  <2>8. "Completed" # None  BY DEF None
  <2>9. \A v : FinishReveal(Revealed(w), v) = Revealed(w)
    BY <2>1, <2>4, <2>8 DEF FinishReveal
  <2> QED  BY <2>1, <2>4, <2>7, <2>9 DEF Revealed
<1> QED  BY <1>2, <1>3, <1>6, <1>7
-------------------------------------------------------------------------------
(* A frame. *)

Elapsed(t, e) ==
  IF RegionOf[t] = "Video" THEN e
  ELSE [e EXCEPT !.left = IF @ > 0 THEN @ - 1 ELSE 0,
                 !.fence = IF e.left <= 1 THEN NoFence ELSE @,
                 !.tasks = IF RegionOf[t] = "Text" /\ e.left <= 1
                             THEN FinishReveal(@, Clock) ELSE @]

LEMMA ElapsedFacts ==
  ASSUME NEW t \in Target, NEW e \in EntryState, Performs(t, e)
  PROVE  /\ Elapsed(t, e) \in EntryState /\ Performs(t, Elapsed(t, e))
         /\ MemberOf(Elapsed(t, e))
              = IF RegionOf[t] # "Video" /\ e.left <= 1 /\ e.fence # NoFence THEN {}
                ELSE MemberOf(e)
         /\ RegionOf[t] \in {"Text", "Video"} /\ Runs(t, e) => Runs(t, Elapsed(t, e))
<1>1. RegionOf[t] \in Region  BY RegionsOfTargets
<1>2. CASE RegionOf[t] = "Video"  BY <1>2 DEF Elapsed
<1>3. CASE RegionOf[t] # "Video"
  <2> DEFINE d == Elapsed(t, e)
             left == IF e.left > 0 THEN e.left - 1 ELSE 0
             fence == IF e.left <= 1 THEN NoFence ELSE e.fence
             tasks == IF RegionOf[t] = "Text" /\ e.left <= 1
                        THEN FinishReveal(e.tasks, Clock) ELSE e.tasks
  <2>1. /\ e = [id |-> e.id, fence |-> e.fence, left |-> e.left, phase |-> e.phase, tasks |-> e.tasks]
        /\ e.id \in Ids /\ e.fence \in Fence \cup {NoFence} /\ e.left \in Nat
        /\ e.phase \in {"None", "Prebuffering", "Playing", "Ended", "Failed"}
        /\ e.tasks \in {None, Unrevealed, Revealed(Clock), Revealed(Click)}
    BY DEF EntryState
  <2>2. d = [e EXCEPT !.left = left, !.fence = fence, !.tasks = tasks]  BY <1>3 DEF Elapsed
  <2> HIDE DEF d, left, fence, tasks
  <2>3. d = [id |-> e.id, fence |-> fence, left |-> left, phase |-> e.phase, tasks |-> tasks]
    BY <2>1, <2>2
  <2>4. left \in Nat /\ (left = 0 <=> e.left <= 1) /\ (fence # NoFence => left > 0)
    BY <2>1 DEF left, fence
  <2>5. fence \in Fence \cup {NoFence} /\ (fence # NoFence => fence = e.fence)  BY <2>1 DEF fence
  <2>6. RegionOf[t] = "Text" =>
          tasks \in IF left = 0 THEN {Revealed(Clock), Revealed(Click)} ELSE {Unrevealed}
    <3> SUFFICES ASSUME RegionOf[t] = "Text"
                 PROVE  tasks \in IF left = 0 THEN {Revealed(Clock), Revealed(Click)}
                                  ELSE {Unrevealed}
      OBVIOUS
    <3>1. e.tasks \in IF e.left = 0 THEN {Revealed(Clock), Revealed(Click)} ELSE {Unrevealed}
      BY DEF Performs
    <3>2. /\ FinishReveal(Unrevealed, Clock) = Revealed(Clock)
          /\ FinishReveal(Revealed(Clock), Clock) = Revealed(Clock)
          /\ FinishReveal(Revealed(Click), Clock) = Revealed(Click)
      BY TaskValues
    <3>3. CASE e.left <= 1  BY <2>4, <3>1, <3>2, <3>3 DEF tasks
    <3>4. CASE ~ (e.left <= 1)
      <4>1. e.left # 0  BY <2>1, <3>4
      <4> QED  BY <2>4, <3>1, <3>4, <4>1 DEF tasks
    <3> QED  BY <3>3, <3>4
  <2>7. tasks \in {None, Unrevealed, Revealed(Clock), Revealed(Click)}
    <3>1. CASE RegionOf[t] = "Text"  BY <2>6, <3>1
    <3>2. CASE RegionOf[t] # "Text"  BY <2>1, <3>2 DEF tasks
    <3> QED  BY <3>1, <3>2
  <2>8. d \in EntryState  BY <2>1, <2>3, <2>4, <2>5, <2>7 DEF EntryState
  <2>9. d.fence # NoFence =>
          /\ Runs(t, d) /\ d.left > 0
          /\ \E x \in Commands : x.target = t /\ x.fence = d.fence
    <3>1. d.fence # NoFence => Runs(t, d) /\ d.left > 0  BY <1>3, <2>3, <2>4 DEF Runs
    <3>2. d.fence # NoFence => d.fence = e.fence  BY <2>3, <2>5
    <3> QED  BY <3>1, <3>2 DEF Performs
  <2>10. Performs(t, d)  BY <1>3, <2>3, <2>6, <2>9 DEF Performs
  <2>11. MemberOf(d) = IF e.left <= 1 /\ e.fence # NoFence THEN {} ELSE MemberOf(e)
    BY <2>3 DEF MemberOf, fence
  <2>12. RegionOf[t] = "Text" => Runs(t, d)  BY DEF Runs
  <2> QED  BY <1>3, <2>8, <2>10, <2>11, <2>12 DEF d
<1> QED  BY <1>2, <1>3

LEMMA ElapseFacts ==
  ASSUME NEW s, Staged(s)
  PROVE  LET d == Elapse(s) IN
         /\ Staged(d) /\ Live(d) = Live(s) \ Lost(s, EndsInFrame(s))
         /\ d.queued = s.queued /\ d.fences = s.fences /\ d.groups = s.groups
         /\ d.failed = s.failed /\ d.activated = s.activated
         /\ Shown(d) = Shown(s) /\ \A t \in Shown(s) : d.entry[t] = Elapsed(t, s.entry[t])
         /\ \A r \in {"Text", "Video"} : Behind(s, r) => Behind(d, r)
<1> DEFINE d == Elapse(s)
           e == [t \in Shown(s) |-> Elapsed(t, s.entry[t])]
<1>1. Typed(s)  BY TypedIs DEF Staged
<1>2. d = [s EXCEPT !.entry = e]  BY DEF Elapse, Elapsed
<1>3. DOMAIN e = Shown(s) /\ \A t \in Shown(s) : e[t] = Elapsed(t, s.entry[t])  OBVIOUS
<1>4. e = [t \in DOMAIN e |-> e[t]]  OBVIOUS
<1> HIDE DEF d, e
<1>5. /\ d = [entry |-> d.entry, queued |-> d.queued, fences |-> s.fences, groups |-> s.groups,
              activated |-> d.activated, failed |-> d.failed]
      /\ d.entry = e /\ d.queued = s.queued /\ d.fences = s.fences /\ d.groups = s.groups
      /\ d.activated = s.activated /\ d.failed = s.failed
  BY <1>1, <1>2 DEF Typed
<1>6. \A t \in Shown(s) : t \in Target /\ s.entry[t] \in EntryState /\ Performs(t, s.entry[t])
  BY <1>1 DEF Staged, Performing, Typed, Shown
<1>7. /\ s.entry \in [Shown(s) -> EntryState] /\ Shown(s) \subseteq Target
      /\ s.queued \in [Region -> Seq(Commands)] /\ s.activated \in Seq(Ids) /\ s.failed \in BOOLEAN
  BY <1>1 DEF Typed
<1>8. \A t \in Shown(s) : e[t] \in EntryState /\ Performs(t, e[t])  BY <1>3, <1>6, ElapsedFacts
<1>9. Shown(d) = Shown(s)  BY <1>3, <1>5 DEF Shown
<1>10. d \in Coordinator
  <2>1. e \in [Shown(s) -> EntryState]  BY <1>3, <1>4, <1>8
  <2> QED  BY <1>1, <1>5, <1>7, <1>9, <2>1, FieldsOf
<1>11. Performing(d.entry)
  <2>1. IsFiniteSet(Shown(s))  BY DEF Staged, Performing, Shown
  <2> QED  BY <1>3, <1>5, <1>8, <2>1 DEF Performing
<1> DEFINE T == EndsInFrame(s)
<1>12. T \in SUBSET Shown(s)  BY DEF EndsInFrame
<1>13. \A t \in Shown(d) : MemberOf(d.entry[t]) = IF t \in T THEN {} ELSE MemberOf(s.entry[t])
  BY <1>3, <1>5, <1>6, <1>9, ElapsedFacts DEF EndsInFrame
<1> HIDE DEF T
<1>14. Staged(d) /\ Live(d) = Live(s) \ Lost(s, T)
  BY <1>5, <1>9, <1>10, <1>11, <1>12, <1>13, EndFacts
<1>15. ASSUME NEW r \in {"Text", "Video"}, Behind(s, r) PROVE Behind(d, r)
  <2> SUFFICES ASSUME NEW i \in DOMAIN s.queued[r] PROVE Busy(d, s.queued[r][i].target)
    BY <1>5 DEF Behind
  <2> DEFINE t == s.queued[r][i].target
  <2>1. RegionOf[t] = r
    <3>1. Queues(s.queued)  BY DEF Staged
    <3> QED  BY <3>1 DEF Queues, Region
  <2>2. Busy(s, t)  BY <1>15 DEF Behind
  <2> HIDE DEF t
  <2>3. t \in Shown(s) /\ Runs(t, s.entry[t])  BY <2>2, BusyIs
  <2>4. Runs(t, e[t])  BY <1>3, <1>6, <2>1, <2>3, ElapsedFacts
  <2>5. Busy(d, t)  BY <1>5, <1>9, <2>3, <2>4, BusyIs
  <2> QED  BY <2>5 DEF t
<1> QED  BY <1>3, <1>5, <1>9, <1>14, <1>15 DEF d, T
-------------------------------------------------------------------------------
(* What moves on the stage, what waits for it, and which videos are shown, *)
(* is left alone.                                                          *)
Moving == {"Character", "Background"}

Rests(s, d) ==
  /\ d.queued = s.queued /\ d.activated = s.activated
  /\ \A t \in Shown(s) :
       RegionOf[t] \in Moving => t \in Shown(d) /\ d.entry[t].left = s.entry[t].left
  /\ \A t \in Target : RegionOf[t] = "Video" =>
       /\ t \in Shown(s) <=> t \in Shown(d)
       /\ t \in Shown(s) => d.entry[t].id = s.entry[t].id

(* One entry that changes: a line revealed, a video that starts or ends.   *)

Changed(s, t, e, d) ==
  /\ Staged(d)
  /\ Live(d) = IF MemberOf(e) = {} THEN Live(s) \ Lost(s, {t}) ELSE Live(s)
  /\ d.queued = s.queued /\ d.fences = s.fences /\ d.groups = s.groups
  /\ d.activated = s.activated /\ d.failed = s.failed
  /\ Shown(d) = Shown(s) /\ d.entry[t] = e
  /\ \A u \in Shown(s) \ {t} : d.entry[u] = s.entry[u]
  /\ \A r \in Region :
       Behind(s, r) /\ (r # RegionOf[t] \/ (Runs(t, s.entry[t]) => Runs(t, e))) => Behind(d, r)

LEMMA ChangeFacts ==
  ASSUME NEW s, Staged(s), NEW t \in Shown(s), NEW e \in EntryState, Performs(t, e),
         MemberOf(e) = {} \/ MemberOf(e) = MemberOf(s.entry[t])
  PROVE  Changed(s, t, e, [s EXCEPT !.entry[t] = e])
<1> DEFINE d == [s EXCEPT !.entry[t] = e]
           entry == [s.entry EXCEPT ![t] = e]
<1>1. Typed(s)  BY TypedIs DEF Staged
<1>2. d = [s EXCEPT !.entry = entry]  OBVIOUS
<1>3. /\ s.entry \in [Shown(s) -> EntryState] /\ Shown(s) \subseteq Target
      /\ s.queued \in [Region -> Seq(Commands)] /\ s.activated \in Seq(Ids) /\ s.failed \in BOOLEAN
  BY <1>1 DEF Typed
<1>4. /\ entry \in [Shown(s) -> EntryState] /\ DOMAIN entry = Shown(s) /\ entry[t] = e
      /\ \A u \in Shown(s) \ {t} : entry[u] = s.entry[u]
  BY <1>3
<1> HIDE DEF d, entry
<1>5. /\ d = [entry |-> d.entry, queued |-> d.queued, fences |-> s.fences, groups |-> s.groups,
              activated |-> d.activated, failed |-> d.failed]
      /\ d.entry = entry /\ d.queued = s.queued /\ d.fences = s.fences /\ d.groups = s.groups
      /\ d.activated = s.activated /\ d.failed = s.failed
  BY <1>1, <1>2 DEF Typed
<1>6. Shown(d) = Shown(s)  BY <1>4, <1>5 DEF Shown
<1>7. d \in Coordinator  BY <1>1, <1>3, <1>4, <1>5, <1>6, FieldsOf
<1>8. Performing(d.entry)
  <2>1. IsFiniteSet(Shown(s)) /\ \A u \in Shown(s) : Performs(u, s.entry[u])
    BY DEF Staged, Performing, Shown
  <2> QED  BY <1>4, <1>5, <2>1 DEF Performing
<1>9. Staged(d) /\ Live(d) = IF MemberOf(e) = {} THEN Live(s) \ Lost(s, {t}) ELSE Live(s)
  <2>1. CASE MemberOf(e) = {}
    <3>1. \A u \in Shown(d) : MemberOf(d.entry[u]) = IF u \in {t} THEN {} ELSE MemberOf(s.entry[u])
      BY <1>4, <1>5, <1>6, <2>1
    <3>2. {t} \in SUBSET Shown(s)  OBVIOUS
    <3> DEFINE T == {t}
    <3> HIDE DEF T
    <3>3. Staged(d) /\ Live(d) = Live(s) \ Lost(s, T)
      BY <1>5, <1>6, <1>7, <1>8, <3>1, <3>2, EndFacts DEF T
    <3> QED  BY <2>1, <3>3 DEF T
  <2>2. CASE MemberOf(e) # {}
    <3>1. \A u \in Shown(d) : MemberOf(d.entry[u]) = IF u \in {} THEN {} ELSE MemberOf(s.entry[u])
      BY <1>4, <1>5, <1>6, <2>2
    <3> DEFINE T == {}
    <3>2. T \in SUBSET Shown(s) /\ Lost(s, T) = {}  BY DEF Lost
    <3> HIDE DEF T
    <3>3. Staged(d) /\ Live(d) = Live(s) \ Lost(s, T)
      BY <1>5, <1>6, <1>7, <1>8, <3>1, <3>2, EndFacts DEF T
    <3> QED  BY <2>2, <3>2, <3>3
  <2> QED  BY <2>1, <2>2
<1>10. ASSUME NEW r \in Region, Behind(s, r),
              r # RegionOf[t] \/ (Runs(t, s.entry[t]) => Runs(t, e))
       PROVE  Behind(d, r)
  <2> SUFFICES ASSUME NEW i \in DOMAIN s.queued[r] PROVE Busy(d, s.queued[r][i].target)
    BY <1>5 DEF Behind
  <2> DEFINE u == s.queued[r][i].target
  <2>1. RegionOf[u] = r
    <3>1. Queues(s.queued)  BY DEF Staged
    <3> QED  BY <3>1 DEF Queues
  <2>2. Busy(s, u)  BY <1>10 DEF Behind
  <2> HIDE DEF u
  <2>3. u \in Shown(s) /\ Runs(u, s.entry[u])  BY <2>2, BusyIs
  <2>4. Runs(u, d.entry[u])
    <3>1. CASE u = t  BY <1>4, <1>5, <1>10, <2>1, <2>3, <3>1
    <3>2. CASE u # t  BY <1>4, <1>5, <2>3, <3>2
    <3> QED  BY <3>1, <3>2
  <2>5. Busy(d, u)  BY <1>6, <2>3, <2>4, BusyIs
  <2> QED  BY <2>5 DEF u
<1>11. Changed(s, t, e, d)  BY <1>4, <1>5, <1>6, <1>9, <1>10 DEF Changed
<1> QED  BY <1>11 DEF d

LEMMA RevealFacts ==
  ASSUME NEW s, Staged(s), NEW t \in Shown(s), RegionOf[t] = "Text", s.entry[t].left > 0
  PROVE  LET e == [s.entry[t] EXCEPT !.left = 0, !.fence = NoFence, !.tasks = FinishReveal(@, Click)]
         IN Changed(s, t, e, [s EXCEPT !.entry[t] = e]) /\ MemberOf(e) = {} /\ Runs(t, e)
<1> DEFINE e == [s.entry[t] EXCEPT !.left = 0, !.fence = NoFence, !.tasks = FinishReveal(@, Click)]
           b == s.entry[t]
<1>1. b \in EntryState /\ Performs(t, b)  BY TypedIs DEF Staged, Typed, Performing, Shown
<1>2. b.tasks = Unrevealed  BY <1>1 DEF Performs, EntryState
<1>3. e = [b EXCEPT !.left = 0, !.fence = NoFence, !.tasks = Revealed(Click)]
  <2>1. FinishReveal(Unrevealed, Click) = Revealed(Click)  BY TaskValues
  <2> QED  BY <1>2, <2>1
<1> HIDE DEF e, b
<1>4. /\ e = [id |-> b.id, fence |-> NoFence, left |-> 0, phase |-> b.phase, tasks |-> Revealed(Click)]
  BY <1>1, <1>3 DEF EntryState
<1>5. e \in EntryState  BY <1>1, <1>4 DEF EntryState
<1>6. Performs(t, e) /\ MemberOf(e) = {} /\ Runs(t, e)  BY <1>4 DEF Performs, MemberOf, Runs
<1>7. Changed(s, t, e, [s EXCEPT !.entry[t] = e])  BY <1>5, <1>6, ChangeFacts
<1> QED  BY <1>6, <1>7 DEF e, b

LEMMA StartVideoFacts ==
  ASSUME NEW s, Staged(s), NEW t \in Shown(s), RegionOf[t] = "Video",
         s.entry[t].phase = "Prebuffering"
  PROVE  /\ Staged(StartVideo(s, t)) /\ Live(StartVideo(s, t)) = Live(s)
         /\ StartVideo(s, t).fences = s.fences /\ StartVideo(s, t).groups = s.groups
         /\ StartVideo(s, t).activated = s.activated /\ StartVideo(s, t).failed = s.failed
         /\ \A r \in Region : Behind(s, r) => Behind(StartVideo(s, t), r)
<1> DEFINE b == s.entry[t]
           e == [b EXCEPT !.phase = "Playing"]
           d == StartVideo(s, t)
<1>1. b \in EntryState /\ Performs(t, b)  BY TypedIs DEF Staged, Typed, Performing, Shown
<1>2. d = [s EXCEPT !.entry[t] = e]  BY DEF StartVideo
<1> HIDE DEF b, d
<1>3. e = [id |-> b.id, fence |-> b.fence, left |-> b.left, phase |-> "Playing", tasks |-> b.tasks]
  BY <1>1 DEF EntryState
<1> HIDE DEF e
<1>4. e \in EntryState /\ MemberOf(e) = MemberOf(b)  BY <1>1, <1>3 DEF EntryState, MemberOf
<1>5. Runs(t, e) /\ Performs(t, e)
  <2>1. Runs(t, e) /\ e.fence = b.fence  BY <1>3 DEF Runs
  <2>2. e.fence # NoFence => \E x \in Commands : x.target = t /\ x.fence = e.fence
    BY <1>1, <2>1 DEF Performs
  <2> QED  BY <2>1, <2>2 DEF Performs
<1>6. Changed(s, t, e, d)  BY <1>2, <1>4, <1>5, ChangeFacts DEF b
<1>7. MemberOf(e) = {} => Lost(s, {t}) = {}  BY <1>4 DEF Lost, b
<1> QED  BY <1>5, <1>6, <1>7 DEF Changed, d
-------------------------------------------------------------------------------
(* Members of a group that are completed one after the other. *)

AllOf(n) == {p \in Records : p.mode = "All" /\ Len(p.members) = n}

Finishing(s, f, group, p, i) ==
  IF i \in Active(group.progress) /\ <<f, group.ids[i]>> \notin Live(s)
    THEN Complete(p, i, "Completed")
    ELSE p

Finished(s, f, group) ==
  FoldLeftDomain(LAMBDA p, i : Finishing(s, f, group, p, i), group.progress, group.ids)

Rejoining(was, p, i) ==
  IF was.members[i] \in Terminal THEN Complete(p, i, was.members[i]) ELSE p

Rejoined(was, old, new) == FoldLeftDomain(LAMBDA p, i : Rejoining(was, p, i), new, old)

LEMMA AllOfComplete ==
  ASSUME NEW n \in Nat, NEW p \in AllOf(n), NEW i \in 1 .. n, NEW r \in Terminal
  PROVE  Complete(p, i, r) \in AllOf(n)
<1> DEFINE ms == [p.members EXCEPT ![i] = r]
           e == [p EXCEPT !.members[i] = r]
           q == Complete(p, i, r)
<1>1. /\ p = [mode |-> p.mode, terminal |-> p.terminal, winner |-> p.winner, members |-> p.members]
      /\ p.mode = "All" /\ p.terminal \in Terminal \cup {None} /\ p.winner \in Nat
      /\ p.members \in Seq(MemberState) /\ Len(p.members) = n /\ DOMAIN p.members = 1 .. n
  BY DEF AllOf, Records
<1>2. ms \in Seq(MemberState) /\ Len(ms) = n  BY <1>1 DEF MemberState
<1>3. e = [p EXCEPT !.members = ms]  OBVIOUS
<1> HIDE DEF ms
<1>4. e \in AllOf(n)
  <2>1. e = [mode |-> "All", terminal |-> p.terminal, winner |-> p.winner, members |-> ms]
    BY <1>1, <1>3
  <2> HIDE DEF e
  <2> QED  BY <1>1, <1>2, <2>1 DEF AllOf, Records, Mode
<1>5. q = e \/ \E v \in Terminal : q = [e EXCEPT !.terminal = v]
  <2>1. AllVerdict(ToSet(e.members)) \in Terminal  BY DEF AllVerdict, Terminal
  <2>2. q = IF Active(e) = {} THEN [e EXCEPT !.terminal = AllVerdict(ToSet(e.members))] ELSE e
    BY <1>1 DEF Complete
  <2> HIDE DEF e, q
  <2> QED  BY <2>1, <2>2
<1>6. \A v \in Terminal : [e EXCEPT !.terminal = v] \in AllOf(n)
  <2> HIDE DEF e
  <2> QED  BY <1>4 DEF AllOf, Records
<1> HIDE DEF e, q
<1> QED  BY <1>4, <1>5, <1>6 DEF q

(* What finish_fences makes of a group. *)
LEMMA FinishFold ==
  ASSUME NEW s, NEW f, NEW group, group.ids \in Seq(Ids), NEW n \in Nat,
         group.progress \in AllOf(n), Len(group.ids) = n
  PROVE  \E g \in [0 .. Len(group.ids) -> AllOf(n)] :
           /\ g[0] = group.progress
           /\ \A k \in 1 .. Len(group.ids) : g[k] = Finishing(s, f, group, g[k - 1], k)
           /\ g[Len(group.ids)] = Finished(s, f, group)
<1> DEFINE V == AllOf(n)
           n0 == Len(group.ids)
           base == group.progress
           F == [p \in V \X (1 .. n0) |-> Finishing(s, f, group, p[1], p[2])]
           index == [i \in DOMAIN group.ids |-> i]
           Solves(it) == it = [u \in SUBSET DOMAIN index |->
                                 IF u = {} THEN base
                                 ELSE Finishing(s, f, group, it[u \ {Max(u)}], index[Max(u)])]
<1>1. n0 \in Nat /\ DOMAIN group.ids = 1 .. n0  OBVIOUS
<1>b. base \in V  OBVIOUS
<1>2. /\ F \in [V \X (1 .. n0) -> V]
      /\ \A v \in V, k \in 1 .. n0 : F[<<v, k>>] = Finishing(s, f, group, v, k)
  <2>1. ASSUME NEW v \in V, NEW k \in 1 .. n0 PROVE Finishing(s, f, group, v, k) \in V
    BY <1>1, AllOfComplete DEF Finishing, Terminal
  <2> HIDE DEF V
  <2> QED  BY <2>1
<1> HIDE DEF F, V
<1>3. PICK f0 \in [SUBSET (1 .. n0) -> V] : FoldsWith(f0, base, F, V, n0)
  BY <1>1, <1>2, <1>b, FoldRecursion
<1>x. DOMAIN index = 1 .. n0 /\ \A k \in 1 .. n0 : index[k] = k  BY <1>1
<1>4. Solves(f0)
  <2>1. ASSUME NEW u \in SUBSET (1 .. n0), u # {}
        PROVE  f0[u] = Finishing(s, f, group, f0[u \ {Max(u)}], index[Max(u)])
    <3>1. Max(u) \in 1 .. n0  BY <1>1, <2>1, MaxIsThere
    <3>2. f0[u \ {Max(u)}] \in V /\ index[Max(u)] = Max(u)  BY <1>x, <3>1
    <3> HIDE DEF index
    <3> QED  BY <1>2, <1>3, <2>1, <3>1, <3>2 DEF FoldsWith
  <2>2. f0[{}] = base  BY <1>3 DEF FoldsWith
  <2> HIDE DEF index, base
  <2> QED  BY <1>x, <2>1, <2>2
<1> DEFINE it == CHOOSE h : Solves(h)
<1>5. Solves(it)
  <2> HIDE DEF Solves
  <2> QED  BY <1>4
<1>6. Finished(s, f, group) = it[DOMAIN index]
  BY DEF FoldLeftDomain, FoldLeft, MapThenFoldSet, Finished, Finishing
<1> HIDE DEF it
<1>7. FoldsWith(it, base, F, V, n0)
  <2>1. it[{}] = base
    <3> HIDE DEF index
    <3> QED  BY <1>5
  <2>2. ASSUME NEW u \in SUBSET (1 .. n0), u # {}, it[u \ {Max(u)}] \in V
        PROVE  it[u] = F[<<it[u \ {Max(u)}], Max(u)>>]
    <3>1. Max(u) \in 1 .. n0  BY <1>1, <2>2, MaxIsThere
    <3>2. it[u] = Finishing(s, f, group, it[u \ {Max(u)}], index[Max(u)])
      <4> HIDE DEF index
      <4> QED  BY <1>5, <1>x, <2>2
    <3> HIDE DEF Solves, index
    <3> QED  BY <1>2, <1>x, <2>2, <3>1, <3>2
  <2> QED  BY <2>1, <2>2 DEF FoldsWith
<1>8. PICK g : FoldSteps(g, it, base, F, V, n0)
  BY <1>1, <1>2, <1>7, <1>b, FoldValues
<1>9. \A k \in 1 .. n0 : g[k] = Finishing(s, f, group, g[k - 1], k)
  <2> SUFFICES ASSUME NEW k \in 1 .. n0 PROVE g[k] = Finishing(s, f, group, g[k - 1], k)  OBVIOUS
  <2>1. g[k - 1] \in V
    <3>1. k - 1 \in 0 .. n0  BY <1>1
    <3> QED  BY <1>8, <3>1 DEF FoldSteps
  <2> QED  BY <1>2, <1>8, <2>1 DEF FoldSteps
<1> HIDE DEF base
<1>10. g \in [0 .. n0 -> V] /\ g[0] = base /\ g[n0] = it[1 .. n0]  BY <1>8 DEF FoldSteps
<1> HIDE DEF index
<1> QED  BY <1>6, <1>x, <1>9, <1>10 DEF base, V

(* What register_fences makes of one that is joined. *)
LEMMA RejoinFold ==
  ASSUME NEW was, NEW old \in Seq(Ids), NEW n \in Nat, Len(old) <= n,
         NEW new \in AllOf(n)
  PROVE  \E g \in [0 .. Len(old) -> AllOf(n)] :
           /\ g[0] = new
           /\ \A k \in 1 .. Len(old) : g[k] = Rejoining(was, g[k - 1], k)
           /\ g[Len(old)] = Rejoined(was, old, new)
<1> DEFINE V == AllOf(n)
           n0 == Len(old)
           base == new
           F == [p \in V \X (1 .. n0) |-> Rejoining(was, p[1], p[2])]
           index == [i \in DOMAIN old |-> i]
           Solves(it) == it = [u \in SUBSET DOMAIN index |->
                                 IF u = {} THEN base
                                 ELSE Rejoining(was, it[u \ {Max(u)}], index[Max(u)])]
<1>1. n0 \in Nat /\ DOMAIN old = 1 .. n0  OBVIOUS
<1>b. base \in V  OBVIOUS
<1>2. /\ F \in [V \X (1 .. n0) -> V]
      /\ \A v \in V, k \in 1 .. n0 : F[<<v, k>>] = Rejoining(was, v, k)
  <2>1. ASSUME NEW v \in V, NEW k \in 1 .. n0 PROVE Rejoining(was, v, k) \in V
    BY <1>1, AllOfComplete DEF Rejoining
  <2> HIDE DEF V
  <2> QED  BY <2>1
<1> HIDE DEF F, V
<1>3. PICK f0 \in [SUBSET (1 .. n0) -> V] : FoldsWith(f0, base, F, V, n0)
  BY <1>1, <1>2, <1>b, FoldRecursion
<1>x. DOMAIN index = 1 .. n0 /\ \A k \in 1 .. n0 : index[k] = k  BY <1>1
<1>4. Solves(f0)
  <2>1. ASSUME NEW u \in SUBSET (1 .. n0), u # {}
        PROVE  f0[u] = Rejoining(was, f0[u \ {Max(u)}], index[Max(u)])
    <3>1. Max(u) \in 1 .. n0  BY <1>1, <2>1, MaxIsThere
    <3>2. f0[u \ {Max(u)}] \in V /\ index[Max(u)] = Max(u)  BY <1>x, <3>1
    <3> HIDE DEF index
    <3> QED  BY <1>2, <1>3, <2>1, <3>1, <3>2 DEF FoldsWith
  <2>2. f0[{}] = base  BY <1>3 DEF FoldsWith
  <2> HIDE DEF index, base
  <2> QED  BY <1>x, <2>1, <2>2
<1> DEFINE it == CHOOSE h : Solves(h)
<1>5. Solves(it)
  <2> HIDE DEF Solves
  <2> QED  BY <1>4
<1>6. Rejoined(was, old, new) = it[DOMAIN index]
  BY DEF FoldLeftDomain, FoldLeft, MapThenFoldSet, Rejoined, Rejoining
<1> HIDE DEF it
<1>7. FoldsWith(it, base, F, V, n0)
  <2>1. it[{}] = base
    <3> HIDE DEF index
    <3> QED  BY <1>5
  <2>2. ASSUME NEW u \in SUBSET (1 .. n0), u # {}, it[u \ {Max(u)}] \in V
        PROVE  it[u] = F[<<it[u \ {Max(u)}], Max(u)>>]
    <3>1. Max(u) \in 1 .. n0  BY <1>1, <2>2, MaxIsThere
    <3>2. it[u] = Rejoining(was, it[u \ {Max(u)}], index[Max(u)])
      <4> HIDE DEF index
      <4> QED  BY <1>5, <1>x, <2>2
    <3> HIDE DEF Solves, index
    <3> QED  BY <1>2, <1>x, <2>2, <3>1, <3>2
  <2> QED  BY <2>1, <2>2 DEF FoldsWith
<1>8. PICK g : FoldSteps(g, it, base, F, V, n0)
  BY <1>1, <1>2, <1>7, <1>b, FoldValues
<1>9. \A k \in 1 .. n0 : g[k] = Rejoining(was, g[k - 1], k)
  <2> SUFFICES ASSUME NEW k \in 1 .. n0 PROVE g[k] = Rejoining(was, g[k - 1], k)  OBVIOUS
  <2>1. g[k - 1] \in V
    <3>1. k - 1 \in 0 .. n0  BY <1>1
    <3> QED  BY <1>8, <3>1 DEF FoldSteps
  <2> QED  BY <1>2, <1>8, <2>1 DEF FoldSteps
<1> HIDE DEF base
<1>10. g \in [0 .. n0 -> V] /\ g[0] = base /\ g[n0] = it[1 .. n0]  BY <1>8 DEF FoldSteps
<1> HIDE DEF index
<1> QED  BY <1>6, <1>x, <1>9, <1>10 DEF base, V

(* A group of mode all after some of those running have ended. *)
Whole(p) == Progress(p) /\ Consistent(p) /\ p.mode = "All"

EndedTo(base, result, p, k) ==
  /\ Whole(p) /\ Len(p.members) = Len(base.members) /\ p.winner = base.winner
  /\ \A i \in 1 .. Len(base.members) :
       p.members[i] = IF i <= k /\ result[i] # None THEN result[i] ELSE base.members[i]

LEMMA EndedStep ==
  ASSUME NEW base, Whole(base), NEW result, NEW k \in Nat, k + 1 <= Len(base.members),
         result[k + 1] \in Terminal \cup {None},
         result[k + 1] # None => base.members[k + 1] = "Running",
         NEW p, EndedTo(base, result, p, k), NEW q,
         q = IF result[k + 1] # None THEN Complete(p, k + 1, result[k + 1]) ELSE p
  PROVE  EndedTo(base, result, q, k + 1)
<1> DEFINE n == Len(base.members)
<1>1. n \in Nat /\ k + 1 \in 1 .. n  BY DEF Whole, Progress
<1>2. /\ Whole(p) /\ Len(p.members) = n /\ p.winner = base.winner
      /\ \A i \in 1 .. n :
           p.members[i] = IF i <= k /\ result[i] # None THEN result[i] ELSE base.members[i]
  BY DEF EndedTo
<1> HIDE DEF n
<1>3. CASE result[k + 1] = None
  <2>1. q = p  BY <1>3
  <2>2. \A i \in 1 .. n : i <= k + 1 /\ result[i] # None <=> i <= k /\ result[i] # None
    BY <1>1, <1>3
  <2> QED  BY <1>2, <2>1, <2>2 DEF EndedTo, n
<1>4. CASE result[k + 1] # None
  <2> DEFINE r == result[k + 1]
  <2>1. r \in Terminal /\ q = Complete(p, k + 1, r)  BY <1>4
  <2>2. p.members[k + 1] = "Running"  BY <1>1, <1>2, <1>4
  <2>3. Members(p) = 1 .. n  BY <1>2 DEF Whole, Progress, Members
  <2>4. CanComplete(p, k + 1)
    <3>1. k + 1 \in Active(p)  BY <1>1, <2>2, <2>3 DEF Active
    <3>2. ConsistentAll(p)  BY <1>2 DEF Whole, Consistent
    <3>3. "Running" \in ToSet(p.members)  BY <1>1, <2>2, <2>3 DEF ToSet, Members
    <3> QED  BY <3>1, <3>2, <3>3 DEF CanComplete, ConsistentAll
  <2>5. Outcome(p, k + 1, r, q)  BY <1>2, <2>1, <2>4, CompletedFacts DEF Whole
  <2> HIDE DEF r
  <2>6. /\ Whole(q) /\ Len(q.members) = n /\ q.winner = base.winner
        /\ q.members[k + 1] = r
        /\ \A j \in (1 .. n) \ {k + 1} : q.members[j] = p.members[j]
    BY <1>2, <2>3, <2>5 DEF Outcome, Whole
  <2>7. \A i \in 1 .. n :
          q.members[i] = IF i <= k + 1 /\ result[i] # None THEN result[i] ELSE base.members[i]
    <3> SUFFICES ASSUME NEW i \in 1 .. n
                 PROVE  q.members[i] = IF i <= k + 1 /\ result[i] # None THEN result[i]
                                       ELSE base.members[i]
      OBVIOUS
    <3>1. CASE i = k + 1  BY <1>4, <2>6, <3>1 DEF r
    <3>2. CASE i # k + 1
      <4>1. i <= k + 1 <=> i <= k  BY <1>1, <3>2
      <4> QED  BY <1>2, <2>6, <3>2, <4>1
    <3> QED  BY <3>1, <3>2
  <2> QED  BY <2>6, <2>7 DEF EndedTo, n
<1> QED  BY <1>3, <1>4

LEMMA EndedAll ==
  ASSUME NEW base, Whole(base), NEW m \in Nat, m <= Len(base.members), NEW result,
         \A i \in 1 .. m : /\ result[i] \in Terminal \cup {None}
                           /\ result[i] # None => base.members[i] = "Running",
         NEW g, g[0] = base,
         \A k \in 1 .. m : g[k] = IF result[k] # None THEN Complete(g[k - 1], k, result[k])
                                  ELSE g[k - 1]
  PROVE  EndedTo(base, result, g[m], m)
<1> DEFINE T == {k \in Nat : k <= m => EndedTo(base, result, g[k], k)}
<1>1. 0 \in T
  <2>1. \A i \in 1 .. Len(base.members) : ~ (i <= 0)  OBVIOUS
  <2> QED  BY <2>1 DEF EndedTo
<1>2. ASSUME NEW k \in Nat, k \in T PROVE k + 1 \in T
  <2> SUFFICES ASSUME k + 1 <= m PROVE EndedTo(base, result, g[k + 1], k + 1)  OBVIOUS
  <2>1. k + 1 \in 1 .. m /\ (k + 1) - 1 = k /\ EndedTo(base, result, g[k], k)  BY <1>2
  <2>2. Len(base.members) \in Nat /\ k + 1 <= Len(base.members)
    BY <2>1 DEF Whole, Progress
  <2>3. g[k + 1] = IF result[k + 1] # None THEN Complete(g[k], k + 1, result[k + 1]) ELSE g[k]
    BY <2>1
  <2> QED  BY <2>1, <2>2, <2>3, EndedStep
<1>3. \A k \in Nat : k \in T
  <2> HIDE DEF T
  <2> QED  BY <1>1, <1>2, Induction
<1> QED  BY <1>3

LEMMA WholeIs ==
  ASSUME NEW p, Whole(p)
  PROVE  /\ p \in AllOf(Len(p.members)) /\ Len(p.members) \in Nat \ {0} /\ Members(p) = 1 .. Len(p.members)
         /\ p.terminal = None <=> \E i \in Members(p) : p.members[i] = "Running"
         /\ (\A i \in Members(p) : p.members[i] # "Failed") /\ p.terminal # None
              => p.terminal \in {"Completed", "Cancelled"}
         /\ p.terminal # None => \E i \in Members(p) : p.members[i] = p.terminal
         /\ p.terminal = "Completed" => \A i \in Members(p) : p.members[i] = "Completed"
<1>1. Progress(p) /\ ConsistentAll(p)  BY DEF Whole, Consistent
<1>2. Len(p.members) \in Nat \ {0} /\ Members(p) = 1 .. Len(p.members)
  BY <1>1 DEF Progress, Members
<1>3. \A v : v \in ToSet(p.members) <=> \E i \in Members(p) : p.members[i] = v
  BY DEF ToSet, Members
<1>4. p \in AllOf(Len(p.members))  BY <1>1 DEF Whole, Progress, AllOf, Records
<1>5. p.terminal \in Terminal \cup {None}  BY <1>1 DEF Progress
<1> QED  BY <1>1, <1>2, <1>3, <1>4, <1>5 DEF ConsistentAll, Terminal
-------------------------------------------------------------------------------
(* finish_fences and fail: what becomes of a group. *)

FinishedGroup(s, f, g, h) ==
  /\ Grouped(h) /\ h.ids = g.ids
  /\ \A i \in DOMAIN g.ids :
       h.progress.members[i] = IF g.progress.members[i] = "Running" /\ <<f, g.ids[i]>> \notin Live(s)
                                 THEN "Completed" ELSE g.progress.members[i]
  /\ h.progress.terminal = IF \E i \in DOMAIN g.ids : h.progress.members[i] = "Running"
                             THEN None ELSE "Completed"

LEMMA GroupIs ==
  ASSUME NEW g, Grouped(g)
  PROVE  /\ g = [ids |-> g.ids, progress |-> g.progress] /\ g.ids \in Seq(Ids)
         /\ Whole(g.progress) /\ Len(g.ids) \in Nat \ {0} /\ Len(g.progress.members) = Len(g.ids)
         /\ DOMAIN g.ids = 1 .. Len(g.ids) /\ Members(g.progress) = DOMAIN g.ids
<1>1. /\ g = [ids |-> g.ids, progress |-> g.progress] /\ g.ids \in Seq(Ids)
      /\ Whole(g.progress) /\ Len(g.progress.members) = Len(g.ids)
  BY DEF Grouped, GroupState, Whole
<1> QED  BY <1>1, WholeIs

LEMMA GroupFrom ==
  ASSUME NEW ids \in Seq(Ids), NEW p, Whole(p), Len(p.members) = Len(ids),
         EachOnce(ids),
         \A i \in DOMAIN ids : p.members[i] \in {"Running", "Completed", "Cancelled"}
  PROVE  Grouped([ids |-> ids, progress |-> p])
<1>1. p \in Records  BY DEF Whole, Progress, Records
<1> QED  BY <1>1 DEF Grouped, GroupState, Whole

LEMMA FinishGroupFacts ==
  ASSUME NEW s, NEW f, Grouped(s.groups[f]), s.groups[f].progress.terminal = None,
         \A i \in DOMAIN s.groups[f].ids : s.groups[f].progress.members[i] # "Cancelled"
  PROVE  FinishedGroup(s, f, s.groups[f], FinishGroup(s, f))
<1> DEFINE g == s.groups[f]
           h == FinishGroup(s, f)
           n == Len(g.ids)
           p == Finished(s, f, g)
<1>1. h = [g EXCEPT !.progress = p]  BY DEF FinishGroup, Finished, Finishing
<1>2. /\ g = [ids |-> g.ids, progress |-> g.progress] /\ g.ids \in Seq(Ids)
      /\ Whole(g.progress) /\ n \in Nat \ {0} /\ Len(g.progress.members) = n
      /\ DOMAIN g.ids = 1 .. n /\ Members(g.progress) = 1 .. n
  BY GroupIs
<1>3. g.progress \in AllOf(n)  BY <1>2, WholeIs
<1>4. PICK a \in [0 .. n -> AllOf(n)] :
        /\ a[0] = g.progress
        /\ \A k \in 1 .. n : a[k] = Finishing(s, f, g, a[k - 1], k)
        /\ a[n] = p
  BY <1>2, <1>3, FinishFold
<1>g. /\ EachOnce(g.ids)
      /\ \A i \in DOMAIN g.ids : g.progress.members[i] \in {"Running", "Completed"}
  BY DEF Grouped
<1> DEFINE over(i) == g.progress.members[i] = "Running" /\ <<f, g.ids[i]>> \notin Live(s)
           result == [i \in 1 .. n |-> IF over(i) THEN "Completed" ELSE None]
<1> HIDE DEF h, p, g, n
<1>5. \A i \in 1 .. n : i \in Active(g.progress) <=> g.progress.members[i] = "Running"
  BY <1>2 DEF Active
<1>n. "Completed" # None /\ "Completed" \in Terminal  BY DEF None, Terminal
<1>6. \A k \in 1 .. n : a[k] = IF result[k] # None THEN Complete(a[k - 1], k, result[k]) ELSE a[k - 1]
  <2> SUFFICES ASSUME NEW k \in 1 .. n
               PROVE  a[k] = IF result[k] # None THEN Complete(a[k - 1], k, result[k]) ELSE a[k - 1]
    OBVIOUS
  <2>1. a[k] = IF over(k) THEN Complete(a[k - 1], k, "Completed") ELSE a[k - 1]
    BY <1>4, <1>5 DEF Finishing
  <2> QED  BY <1>n, <2>1
<1>7. \A i \in 1 .. n : /\ result[i] \in Terminal \cup {None}
                        /\ result[i] # None => g.progress.members[i] = "Running"
                        /\ result[i] # None <=> over(i)
                        /\ result[i] # None => result[i] = "Completed"
  BY <1>n
<1> HIDE DEF result, over
<1>8. EndedTo(g.progress, result, p, n)  BY <1>2, <1>4, <1>6, <1>7, EndedAll
<1>9. /\ Whole(p) /\ Len(p.members) = n
      /\ \A i \in 1 .. n : p.members[i] = IF over(i) THEN "Completed" ELSE g.progress.members[i]
  <2>1. /\ Whole(p) /\ Len(p.members) = n
        /\ \A i \in 1 .. n :
             p.members[i] = IF i <= n /\ result[i] # None THEN result[i] ELSE g.progress.members[i]
    BY <1>2, <1>8 DEF EndedTo
  <2>2. \A i \in 1 .. n : i <= n  BY <1>2
  <2> QED  BY <1>7, <2>1, <2>2
<1>10. \A i \in 1 .. n : p.members[i] \in {"Running", "Completed"}  BY <1>2, <1>9, <1>g
<1>11. h = [ids |-> g.ids, progress |-> p]  BY <1>1, <1>2
<1>12. Grouped(h)
  <2>1. \A i \in DOMAIN g.ids : p.members[i] \in {"Running", "Completed", "Cancelled"}
    BY <1>2, <1>10
  <2>2. Len(p.members) = Len(g.ids)  BY <1>2, <1>9
  <2> QED  BY <1>2, <1>9, <1>11, <1>g, <2>1, <2>2, GroupFrom
<1>13. p.terminal = IF \E i \in 1 .. n : p.members[i] = "Running" THEN None ELSE "Completed"
  <2>1. Members(p) = 1 .. n  BY <1>9, WholeIs
  <2>2. CASE \E i \in 1 .. n : p.members[i] = "Running"  BY <1>9, <2>1, <2>2, WholeIs
  <2>3. CASE ~ \E i \in 1 .. n : p.members[i] = "Running"
    <3>1. p.terminal # None  BY <1>9, <2>1, <2>3, WholeIs
    <3>2. PICK i \in 1 .. n : p.members[i] = p.terminal  BY <1>9, <2>1, <3>1, WholeIs
    <3> QED  BY <1>10, <2>3, <3>2
  <2> QED  BY <2>2, <2>3
<1> QED  BY <1>2, <1>9, <1>11, <1>12, <1>13 DEF FinishedGroup, g, h, over

(* A group that fails. *)
LEMMA CancelGroup ==
  ASSUME NEW g, Grouped(g), g.progress.terminal \in {None, "Cancelled"}
  PROVE  LET h == [g EXCEPT !.progress = CancelProgress(@)]
         IN Grouped(h) /\ h.ids = g.ids /\ h.progress.terminal = "Cancelled"
<1> DEFINE p == CancelProgress(g.progress)
           h == [g EXCEPT !.progress = CancelProgress(@)]
           n == Len(g.ids)
<1>1. /\ g = [ids |-> g.ids, progress |-> g.progress] /\ g.ids \in Seq(Ids)
      /\ Whole(g.progress) /\ n \in Nat \ {0} /\ Len(g.progress.members) = n
      /\ DOMAIN g.ids = 1 .. n /\ Members(g.progress) = 1 .. n
  BY GroupIs
<1>2. /\ EachOnce(g.ids)
      /\ \A i \in DOMAIN g.ids : g.progress.members[i] \in {"Running", "Completed", "Cancelled"}
  BY DEF Grouped
<1>3. Progress(g.progress) /\ Consistent(g.progress)  BY <1>1 DEF Whole
<1>4. Progress(p) /\ Consistent(p)  BY <1>3, CancelIsConsistent
<1>5. /\ p.mode = "All" /\ p.terminal = "Cancelled" /\ Len(p.members) = n
      /\ \A i \in 1 .. n : p.members[i] \in {"Running", "Completed", "Cancelled"}
  <2>1. CASE g.progress.terminal = None
    <3>1. p = Finish(g.progress, "Cancelled") /\ "Cancelled" \in Terminal
      BY <2>1 DEF CancelProgress, Terminal
    <3> HIDE DEF p
    <3> QED  BY <1>1, <1>2, <1>3, <3>1, FinishFacts DEF Whole
  <2>2. CASE g.progress.terminal = "Cancelled"
    <3>1. "Cancelled" # None  BY DEF None
    <3> QED  BY <1>1, <1>2, <2>2, <3>1 DEF CancelProgress, Whole
  <2> QED  BY <2>1, <2>2
<1>6. h = [ids |-> g.ids, progress |-> p]  BY <1>1
<1> HIDE DEF p, h
<1>7. Grouped(h)  BY <1>1, <1>2, <1>4, <1>5, <1>6, GroupFrom DEF Whole
<1> QED  BY <1>5, <1>6, <1>7 DEF h
-------------------------------------------------------------------------------
(* register_fences: the ids and the progress of a group that is joined. *)

Naming(f, s, b) == IF b.fence # f \/ Contains(s, b.id) THEN s ELSE Append(s, b.id)

Names(f, old, batch) == FoldLeft(LAMBDA s, b : Naming(f, s, b), old, batch)

LEMMA NamingTyped ==
  ASSUME NEW f, NEW s \in Seq(Ids), NEW x \in Commands
  PROVE  Naming(f, s, x) \in Seq(Ids)
BY EntryIs DEF Naming

(* The ids that a batch adds to a group. *)
LEMMA NamingFold ==
  ASSUME NEW fence, NEW base \in Seq(Ids), NEW q \in Seq(Commands)
  PROVE  \E g \in [0 .. Len(q) -> Seq(Ids)] :
           /\ g[0] = base
           /\ \A k \in 1 .. Len(q) : g[k] = Naming(fence, g[k - 1], q[k])
           /\ g[Len(q)] = Names(fence, base, q)
<1> DEFINE V == Seq(Ids)
           n == Len(q)
           F == [p \in V \X (1 .. n) |-> Naming(fence, p[1], q[p[2]])]
           Solves(it) == it = [s \in SUBSET (1 .. n) |->
                                 IF s = {} THEN base ELSE Naming(fence, it[s \ {Max(s)}], q[Max(s)])]
<1>1. n \in Nat /\ DOMAIN q = 1 .. n /\ \A i \in 1 .. n : q[i] \in Commands
  BY LenProperties, ElementOfSeq
<1> HIDE DEF n
<1>2. /\ F \in [V \X (1 .. n) -> V]
      /\ \A v \in V, k \in 1 .. n : F[<<v, k>>] = Naming(fence, v, q[k])
  BY <1>1, NamingTyped
<1> HIDE DEF F, V
<1>b. base \in V  BY DEF V
<1>3. PICK f \in [SUBSET (1 .. n) -> V] : FoldsWith(f, base, F, V, n)
  BY <1>1, <1>2, <1>b, FoldRecursion
<1>4. Solves(f)
  <2> SUFFICES ASSUME NEW s \in SUBSET (1 .. n), s # {}
               PROVE  f[s] = Naming(fence, f[s \ {Max(s)}], q[Max(s)])
    BY <1>3 DEF FoldsWith
  <2>1. Max(s) \in 1 .. n  BY <1>1, MaxIsThere
  <2>2. f[s \ {Max(s)}] \in V  OBVIOUS
  <2> QED  BY <1>2, <1>3, <2>1, <2>2 DEF FoldsWith
<1> DEFINE it == CHOOSE h : Solves(h)
<1>5. Solves(it)
  <2> HIDE DEF Solves
  <2> QED  BY <1>4
<1>6. Names(fence, base, q) = it[1 .. n]  BY <1>1 DEF FoldLeft, MapThenFoldSet, Names, Naming
<1> HIDE DEF it
<1>7. FoldsWith(it, base, F, V, n)
  <2>1. it[{}] = base  BY <1>5
  <2>2. ASSUME NEW s \in SUBSET (1 .. n), s # {}, it[s \ {Max(s)}] \in V
        PROVE  it[s] = F[<<it[s \ {Max(s)}], Max(s)>>]
    <3>1. Max(s) \in 1 .. n  BY <1>1, <2>2, MaxIsThere
    <3>2. it[s] = Naming(fence, it[s \ {Max(s)}], q[Max(s)])  BY <1>5, <2>2
    <3> HIDE DEF Solves
    <3> QED  BY <1>2, <2>2, <3>1, <3>2
  <2> QED  BY <2>1, <2>2 DEF FoldsWith
<1>8. PICK g : FoldSteps(g, it, base, F, V, n)
  BY <1>1, <1>2, <1>7, <1>b, FoldValues
<1>9. \A k \in 1 .. n : g[k] = Naming(fence, g[k - 1], q[k])
  <2> SUFFICES ASSUME NEW k \in 1 .. n PROVE g[k] = Naming(fence, g[k - 1], q[k])  OBVIOUS
  <2>1. g[k - 1] \in V
    <3>1. k - 1 \in 0 .. n  BY <1>1
    <3> QED  BY <1>8, <3>1 DEF FoldSteps
  <2> QED  BY <1>2, <1>8, <2>1 DEF FoldSteps
<1>10. g \in [0 .. n -> V] /\ g[0] = base /\ g[n] = it[1 .. n]  BY <1>8 DEF FoldSteps
<1> QED  BY <1>6, <1>9, <1>10 DEF V, n

HasId(s, v) == \E i \in DOMAIN s : s[i] = v

NamedTo(f, old, batch, s, k) ==
  /\ s \in Seq(Ids) /\ EachOnce(s)
  /\ \A i \in DOMAIN old : i \in DOMAIN s /\ s[i] = old[i]
  /\ \A v : HasId(s, v) <=> HasId(old, v) \/ \E j \in 1 .. k : batch[j].fence = f /\ batch[j].id = v

LEMMA NamingStep ==
  ASSUME NEW f, NEW old \in Seq(Ids), NEW batch \in Seq(Commands), NEW k \in Nat,
         k + 1 \in DOMAIN batch, NEW s, NamedTo(f, old, batch, s, k)
  PROVE  NamedTo(f, old, batch, Naming(f, s, batch[k + 1]), k + 1)
<1> DEFINE b == batch[k + 1]
           t == Naming(f, s, b)
           In(j, v) == batch[j].fence = f /\ batch[j].id = v
<1>1. /\ s \in Seq(Ids) /\ EachOnce(s)
      /\ \A i \in DOMAIN old : i \in DOMAIN s /\ s[i] = old[i]
      /\ \A v : HasId(s, v) <=> HasId(old, v) \/ \E j \in 1 .. k : In(j, v)
  BY DEF NamedTo
<1>2. b \in Commands  BY ElementOfSeq
<1>3. b.id \in Ids  BY <1>2, EntryIs
<1>4. \A v : Contains(s, v) <=> HasId(s, v)  BY <1>1 DEF Contains, HasId
<1>5. \A v : (\E j \in 1 .. k + 1 : In(j, v)) <=> (\E j \in 1 .. k : In(j, v)) \/ In(k + 1, v)
  <2>1. \A j : j \in 1 .. k + 1 <=> j \in 1 .. k \/ j = k + 1  OBVIOUS
  <2> HIDE DEF In
  <2> QED  BY <2>1
<1>6. \A v : In(k + 1, v) <=> b.fence = f /\ b.id = v  OBVIOUS
<1> HIDE DEF b, t, In
<1>7. t \in Seq(Ids) /\ EachOnce(t) /\ (\A i \in DOMAIN s : i \in DOMAIN t /\ t[i] = s[i])
      /\ \A v : HasId(t, v) <=> HasId(s, v) \/ In(k + 1, v)
  <2>1. CASE b.fence # f \/ Contains(s, b.id)
    <3>1. t = s  BY <2>1 DEF Naming, t
    <3>2. \A v : In(k + 1, v) => HasId(s, v)  BY <1>4, <1>6, <2>1
    <3> QED  BY <1>1, <3>1, <3>2
  <2>2. CASE b.fence = f /\ ~ Contains(s, b.id)
    <3>1. t = Append(s, b.id)  BY <2>2 DEF Naming, t
    <3>2. /\ t \in Seq(Ids) /\ DOMAIN s = 1 .. Len(s) /\ DOMAIN t = 1 .. Len(s) + 1 /\ Len(s) \in Nat
          /\ t[Len(s) + 1] = b.id /\ \A i \in 1 .. Len(s) : t[i] = s[i]
      BY <1>1, <1>3, <3>1
    <3>3. DOMAIN t = DOMAIN s \cup {Len(s) + 1}  BY <3>2
    <3>4. \A i \in DOMAIN s : s[i] # b.id  BY <1>4, <2>2 DEF HasId
    <3>5. EachOnce(t)
      <4> SUFFICES ASSUME NEW i \in DOMAIN t, NEW j \in DOMAIN t, t[i] = t[j] PROVE i = j
        BY DEF EachOnce
      <4>1. CASE i \in DOMAIN s /\ j \in DOMAIN s  BY <1>1, <3>2, <4>1 DEF EachOnce
      <4>2. CASE i \notin DOMAIN s \/ j \notin DOMAIN s  BY <3>2, <3>3, <3>4, <4>2
      <4> QED  BY <4>1, <4>2
    <3>6. \A v : HasId(t, v) <=> HasId(s, v) \/ b.id = v  BY <3>2, <3>3 DEF HasId
    <3> QED  BY <1>6, <2>2, <3>2, <3>3, <3>5, <3>6
  <2> QED  BY <2>1, <2>2
<1>8. \A v : HasId(t, v) <=> HasId(old, v) \/ \E j \in 1 .. k + 1 : In(j, v)
  BY <1>1, <1>5, <1>7
<1>9. \A i \in DOMAIN old : i \in DOMAIN t /\ t[i] = old[i]  BY <1>1, <1>7
<1>10. NamedTo(f, old, batch, t, k + 1)  BY <1>7, <1>8, <1>9 DEF NamedTo, In
<1> QED  BY <1>10 DEF t, b

LEMMA NamesFacts ==
  ASSUME NEW f, NEW old \in Seq(Ids), EachOnce(old), NEW batch \in Seq(Commands)
  PROVE  NamedTo(f, old, batch, Names(f, old, batch), Len(batch))
<1> DEFINE n == Len(batch)
<1>1. PICK g \in [0 .. n -> Seq(Ids)] :
        /\ g[0] = old
        /\ \A k \in 1 .. n : g[k] = Naming(f, g[k - 1], batch[k])
        /\ g[n] = Names(f, old, batch)
  BY NamingFold
<1>2. n \in Nat /\ DOMAIN batch = 1 .. n  OBVIOUS
<1> HIDE DEF n
<1> DEFINE T == {k \in Nat : k <= n => NamedTo(f, old, batch, g[k], k)}
<1>3. 0 \in T
  <2>1. 1 .. 0 = {}  OBVIOUS
  <2> QED  BY <1>1, <2>1 DEF NamedTo
<1>4. ASSUME NEW k \in Nat, k \in T PROVE k + 1 \in T
  <2> SUFFICES ASSUME k + 1 <= n PROVE NamedTo(f, old, batch, g[k + 1], k + 1)  OBVIOUS
  <2>1. k + 1 \in 1 .. n /\ (k + 1) - 1 = k /\ NamedTo(f, old, batch, g[k], k)  BY <1>2, <1>4
  <2>2. g[k + 1] = Naming(f, g[k], batch[k + 1])  BY <1>1, <2>1
  <2> QED  BY <1>2, <2>1, <2>2, NamingStep
<1>5. \A k \in Nat : k \in T
  <2> HIDE DEF T
  <2> QED  BY <1>3, <1>4, Induction
<1>6. NamedTo(f, old, batch, g[n], n)  BY <1>2, <1>5
<1> QED  BY <1>1, <1>6 DEF n

JoinedBy(f, old, was, lapsed, batch, d) ==
  /\ Grouped(d)
  /\ \A i \in DOMAIN old : i \in DOMAIN d.ids /\ d.ids[i] = old[i]
  /\ \A v : HasId(d.ids, v) <=> HasId(old, v) \/ <<f, v>> \in BatchMembers(batch)
  /\ ~ lapsed => \A i \in DOMAIN d.ids :
       d.progress.members[i] = IF i \in DOMAIN old /\ was.members[i] \in Terminal
                                 THEN was.members[i] ELSE "Running"
  /\ lapsed => d.progress.terminal = "Cancelled"

LEMMA BatchMembersAre ==
  ASSUME NEW batch \in Seq(Commands)
  PROVE  /\ \A f, v : <<f, v>> \in BatchMembers(batch)
              <=> f # NoFence /\ \E j \in 1 .. Len(batch) : batch[j].fence = f /\ batch[j].id = v
         /\ BatchMembers(batch) \subseteq Fence \X Ids
         /\ \A m \in BatchMembers(batch) : \E j \in 1 .. Len(batch) : m \in MemberOf(batch[j])
         /\ \A j \in 1 .. Len(batch) : MemberOf(batch[j]) \subseteq BatchMembers(batch)
<1>1. DOMAIN batch = 1 .. Len(batch) /\ \A j \in 1 .. Len(batch) : batch[j] \in Commands
  BY LenProperties, ElementOfSeq
<1>2. \A j \in 1 .. Len(batch) : batch[j].fence \in Fence \cup {NoFence} /\ batch[j].id \in Ids
  BY <1>1, BatchesOfCommands
<1>3. \A m : m \in BatchMembers(batch)
        <=> \E j \in 1 .. Len(batch) : /\ batch[j].fence # NoFence
                                       /\ m = <<batch[j].fence, batch[j].id>>
  BY <1>1 DEF BatchMembers, ToSet
<1>4. \A f, v : <<f, v>> \in BatchMembers(batch)
        <=> f # NoFence /\ \E j \in 1 .. Len(batch) : batch[j].fence = f /\ batch[j].id = v
  BY <1>3
<1>5. BatchMembers(batch) \subseteq Fence \X Ids  BY <1>2, <1>3
<1> QED  BY <1>3, <1>4, <1>5 DEF MemberOf

JoinedIds(before, f) == IF f \in FencesOf(Live(before)) THEN before.groups[f].ids ELSE <<>>

LEMMA JoinedFacts ==
  ASSUME NEW before, NEW s, NEW batch \in Seq(Commands), NEW f \in FencesOf(BatchMembers(batch)),
         f \in FencesOf(Live(before)) => Grouped(before.groups[f]),
         StatusOf(s, f) = "Failed" =>
           /\ f \in FencesOf(Live(before))
           /\ before.groups[f].progress.terminal = "Cancelled"
  PROVE  JoinedBy(f, JoinedIds(before, f), before.groups[f].progress, StatusOf(s, f) = "Failed",
                  batch, Joined(before, s, batch, f))
<1> DEFINE old == JoinedIds(before, f)
           was == before.groups[f].progress
           lapsed == StatusOf(s, f) = "Failed"
           ids == Names(f, old, batch)
           n == Len(ids)
           new == NewProgress("All", n)
           p == Rejoined(was, old, new)
           d == Joined(before, s, batch, f)
<1>1. d = [ids |-> ids, progress |-> IF lapsed THEN CancelProgress(p) ELSE p]
  BY DEF Joined, Names, Naming, Rejoined, Rejoining, JoinedIds
<1>2. /\ old \in Seq(Ids) /\ EachOnce(old)
      /\ \A i \in DOMAIN old : was.members[i] \in {"Running", "Completed", "Cancelled"}
      /\ lapsed => \E i \in DOMAIN old : was.members[i] = "Cancelled"
  <2>1. CASE f \in FencesOf(Live(before))
    <3> DEFINE g == before.groups[f]
    <3>1. Grouped(g) /\ old = g.ids  BY <2>1 DEF JoinedIds
    <3>2. /\ g.ids \in Seq(Ids) /\ Whole(g.progress) /\ Members(g.progress) = DOMAIN g.ids
      BY <3>1, GroupIs
    <3>3. lapsed => g.progress.terminal = "Cancelled"  BY <2>1
    <3> HIDE DEF g, old, lapsed
    <3>4. "Cancelled" # None  BY DEF None
    <3>5. lapsed => \E i \in DOMAIN g.ids : g.progress.members[i] = "Cancelled"
      BY <3>2, <3>3, <3>4, WholeIs
    <3> QED  BY <3>1, <3>2, <3>5 DEF Grouped, g
  <2>2. CASE f \notin FencesOf(Live(before))
    <3>1. old = <<>> /\ ~ lapsed  BY <2>2 DEF JoinedIds
    <3>2. DOMAIN <<>> = {} /\ <<>> \in Seq(Ids)  OBVIOUS
    <3> HIDE DEF old, lapsed
    <3> QED  BY <3>1, <3>2 DEF EachOnce
  <2> QED  BY <2>1, <2>2
<1> HIDE DEF old, lapsed, d
<1>3. NamedTo(f, old, batch, ids, Len(batch))  BY <1>2, NamesFacts
<1> HIDE DEF ids
<1>4. /\ ids \in Seq(Ids) /\ EachOnce(ids)
      /\ \A i \in DOMAIN old : i \in DOMAIN ids /\ ids[i] = old[i]
      /\ \A v : HasId(ids, v)
           <=> HasId(old, v) \/ \E j \in 1 .. Len(batch) : batch[j].fence = f /\ batch[j].id = v
  BY <1>3 DEF NamedTo
<1>5. PICK v : <<f, v>> \in BatchMembers(batch)
  <2>1. PICK m \in BatchMembers(batch) : m[1] = f  BY DEF FencesOf
  <2>2. m = <<f, m[2]>>  BY <2>1, BatchMembersAre
  <2> QED  BY <2>1, <2>2
<1>6. \A w : HasId(ids, w) <=> HasId(old, w) \/ <<f, w>> \in BatchMembers(batch)
  <2>1. f # NoFence  BY <1>5, BatchMembersAre
  <2> QED  BY <1>4, <2>1, BatchMembersAre
<1>7. n \in Nat \ {0} /\ DOMAIN ids = 1 .. n /\ DOMAIN old = 1 .. Len(old) /\ Len(old) \in Nat
      /\ Len(old) <= n
  <2>1. n \in Nat /\ DOMAIN ids = 1 .. n /\ DOMAIN old = 1 .. Len(old) /\ Len(old) \in Nat
    BY <1>2, <1>4
  <2>2. PICK i \in DOMAIN ids : TRUE  BY <1>5, <1>6 DEF HasId
  <2>3. n # 0  BY <2>1, <2>2
  <2>4. Len(old) <= n
    <3>1. CASE Len(old) = 0  BY <2>1, <3>1
    <3>2. CASE Len(old) # 0
      <4>1. Len(old) \in DOMAIN old  BY <2>1, <3>2
      <4>2. Len(old) \in DOMAIN ids  BY <1>4, <4>1
      <4> QED  BY <2>1, <4>2
    <3> QED  BY <3>1, <3>2
  <2> QED  BY <2>1, <2>3, <2>4
<1> HIDE DEF n
<1>8. /\ Whole(new) /\ Len(new.members) = n
      /\ \A i \in 1 .. n : new.members[i] = "Running"
  <2>1. Progress(new) /\ Consistent(new)  BY <1>7, NewIsConsistent DEF Mode
  <2>2. /\ new.mode = "All" /\ new.members = [i \in 1 .. n |-> "Running"]
    BY DEF NewProgress
  <2>3. Len(new.members) = n
    <3> HIDE DEF new
    <3> QED  BY <1>7, <2>2
  <2> QED  BY <2>1, <2>2, <2>3 DEF Whole
<1> HIDE DEF new
<1>9. new \in AllOf(n)  BY <1>8, WholeIs
<1> HIDE DEF was
<1>10. PICK a \in [0 .. Len(old) -> AllOf(n)] :
         /\ a[0] = new
         /\ \A k \in 1 .. Len(old) : a[k] = Rejoining(was, a[k - 1], k)
         /\ a[Len(old)] = p
  BY <1>2, <1>7, <1>9, RejoinFold
<1> HIDE DEF p
<1> DEFINE result == [i \in 1 .. Len(old) |-> IF was.members[i] \in Terminal THEN was.members[i] ELSE None]
<1>11. \A k \in 1 .. Len(old) : /\ result[k] \in Terminal \cup {None}
                                /\ result[k] # None <=> was.members[k] \in Terminal
                                /\ result[k] # None => result[k] = was.members[k]
  BY DEF Terminal, None
<1>12. \A k \in 1 .. Len(old) :
         a[k] = IF result[k] # None THEN Complete(a[k - 1], k, result[k]) ELSE a[k - 1]
  BY <1>10, <1>11 DEF Rejoining
<1> HIDE DEF result
<1>13. \A k \in 1 .. Len(old) : /\ result[k] \in Terminal \cup {None}
                                /\ result[k] # None => new.members[k] = "Running"
  BY <1>7, <1>8, <1>11
<1>14. EndedTo(new, result, p, Len(old))  BY <1>7, <1>8, <1>10, <1>12, <1>13, EndedAll
<1>15. /\ Whole(p) /\ Len(p.members) = n
       /\ \A i \in 1 .. n : p.members[i] = IF i \in DOMAIN old /\ was.members[i] \in Terminal
                                             THEN was.members[i] ELSE "Running"
  <2>1. /\ Whole(p) /\ Len(p.members) = n
        /\ \A i \in 1 .. n :
             p.members[i] = IF i <= Len(old) /\ result[i] # None THEN result[i] ELSE new.members[i]
    BY <1>8, <1>14 DEF EndedTo
  <2>2. \A i \in 1 .. n : i <= Len(old) <=> i \in DOMAIN old  BY <1>7
  <2> QED  BY <1>7, <1>8, <1>11, <2>1, <2>2
<1>16. \A i \in 1 .. n : p.members[i] \in {"Running", "Completed", "Cancelled"}
  BY <1>2, <1>15
<1> DEFINE h == [ids |-> ids, progress |-> p]
<1>17. Grouped(h)
  <2>1. \A i \in DOMAIN ids : p.members[i] \in {"Running", "Completed", "Cancelled"}
    BY <1>7, <1>16
  <2>2. Len(p.members) = Len(ids)  BY <1>15 DEF n
  <2> QED  BY <1>4, <1>15, <2>1, <2>2, GroupFrom
<1>18. CASE ~ lapsed
  <2>1. d = h  BY <1>1, <1>18
  <2> QED  BY <1>4, <1>6, <1>7, <1>15, <1>17, <1>18, <2>1 DEF JoinedBy, d, old, was, lapsed
<1>19. CASE lapsed
  <2>1. h.progress.terminal \in {None, "Cancelled"}
    <3>1. Members(p) = 1 .. n  BY <1>15, WholeIs
    <3>2. PICK i \in DOMAIN old : was.members[i] = "Cancelled"  BY <1>2, <1>19
    <3>3. i \in 1 .. n /\ p.members[i] = "Cancelled"
      BY <1>4, <1>7, <1>15, <3>2 DEF Terminal
    <3>4. p.terminal # "Completed"  BY <1>15, <3>1, <3>3, WholeIs
    <3>5. \A j \in Members(p) : p.members[j] # "Failed"  BY <1>16, <3>1
    <3>6. p.terminal # None => p.terminal \in {"Completed", "Cancelled"}
      BY <1>15, <3>5, WholeIs
    <3> QED  BY <3>4, <3>6
  <2>2. d = [h EXCEPT !.progress = CancelProgress(@)]  BY <1>1, <1>19
  <2> HIDE DEF h
  <2>3. Grouped(d) /\ d.ids = h.ids /\ d.progress.terminal = "Cancelled"
    BY <1>17, <2>1, <2>2, CancelGroup
  <2>4. d.ids = ids  BY <2>3 DEF h
  <2> QED  BY <1>4, <1>6, <1>19, <2>3, <2>4 DEF JoinedBy, d, old, was, lapsed
<1> QED  BY <1>18, <1>19
-------------------------------------------------------------------------------
(* A batch, command by command. *)

Prepared(s, batch, d, k) ==
  /\ Staged(d) /\ Patient(d)
  /\ Live(d) \subseteq Live(s) \cup UNION {MemberOf(batch[i]) : i \in 1 .. k}
  /\ d.fences = s.fences /\ d.groups = s.groups
  /\ d.activated = s.activated /\ d.failed = s.failed

(* A queue stays behind entries that run, where they run. *)
LEMMA BehindStarted ==
  ASSUME NEW s, Staged(s), NEW x \in Commands, NEW d, Started(s, x, d), NEW r \in Region,
         r \in {"Text", "Video"} \/ TransitionsTakeTime, Behind(s, r)
  PROVE  Behind(d, r)
<1> SUFFICES ASSUME NEW i \in DOMAIN s.queued[r] PROVE Busy(d, s.queued[r][i].target)
  BY DEF Behind, Started
<1> DEFINE u == s.queued[r][i].target
<1>1. RegionOf[u] = r
  <2>1. Queues(s.queued)  BY DEF Staged
  <2> QED  BY <2>1 DEF Queues
<1>2. Busy(s, u)  BY DEF Behind
<1> HIDE DEF u
<1>3. u \in Shown(s) /\ Runs(u, s.entry[u])  BY <1>2, BusyIs
<1>4. CASE u = x.target
  <2>1. Runs(u, Entry(x))  BY <1>1, <1>4, EntryIs
  <2>2. u \in Shown(d) /\ d.entry[u] = Entry(x)  BY <1>4 DEF Started
  <2>3. Busy(d, u)  BY <2>1, <2>2, BusyIs
  <2> QED  BY <2>3 DEF u
<1>5. CASE u # x.target
  <2>1. u \in Shown(d) /\ d.entry[u] = s.entry[u]  BY <1>3, <1>5 DEF Started
  <2>2. Busy(d, u)  BY <1>3, <2>1, BusyIs
  <2> QED  BY <2>2 DEF u
<1> QED  BY <1>4, <1>5

LEMMA PrepareStep ==
  ASSUME NEW s, NEW batch \in Seq(Commands), NEW k \in Nat, k + 1 \in DOMAIN batch,
         DistinctMembers(s, batch), NEW d, Prepared(s, batch, d, k), Takes(d, batch[k + 1])
  PROVE  Prepared(s, batch, Prepare(d, batch[k + 1]), k + 1)
<1> DEFINE x == batch[k + 1]
           t == x.target
           r == RegionOf[t]
           e == Prepare(d, x)
           U(j) == UNION {MemberOf(batch[i]) : i \in 1 .. j}
<1>1. x \in Commands  BY ElementOfSeq
<1>2. MemberOf(x) \cap Live(s) = {} /\ \A i \in 1 .. k : MemberOf(x) \cap MemberOf(batch[i]) = {}
  <2>1. CASE x.fence = NoFence  BY <2>1 DEF MemberOf
  <2>2. CASE x.fence # NoFence
    <3>1. /\ <<x.fence, x.id>> \notin Live(s)
          /\ \A j \in 1 .. (k + 1) - 1 : <<x.fence, x.id>> # <<batch[j].fence, batch[j].id>>
      BY <2>2 DEF DistinctMembers
    <3>2. (k + 1) - 1 = k  OBVIOUS
    <3> HIDE DEF x
    <3> QED  BY <3>1, <3>2 DEF MemberOf
  <2> QED  BY <2>1, <2>2
<1>3. U(k + 1) = U(k) \cup MemberOf(x)
  <2>1. 1 .. k + 1 = (1 .. k) \cup {k + 1}  OBVIOUS
  <2> QED  BY <2>1
<1>4. /\ Staged(d) /\ Patient(d) /\ Live(d) \subseteq Live(s) \cup U(k)
      /\ d.fences = s.fences /\ d.groups = s.groups
      /\ d.activated = s.activated /\ d.failed = s.failed
  BY DEF Prepared
<1>5. U(k) \cap MemberOf(x) = {}  BY <1>2
<1> HIDE DEF U
<1>6. MemberOf(x) \cap Live(d) = {}  BY <1>2, <1>4, <1>5
<1> HIDE DEF x
<1>7. CASE Busy(d, t) /\ x.policy = "Queue"
  <2>1. e = Enqueue(d, x)  BY <1>7 DEF Prepare
  <2>2. Len(d.queued[r]) < MaxQueue
    <3>1. Takes(d, x)  BY DEF x
    <3> QED  BY <1>7, <3>1 DEF Takes
  <2> HIDE DEF e
  <2>3. Queued(d, x, e)  BY <1>1, <1>4, <1>6, <1>7, <2>1, <2>2, EnqueueFacts
  <2>4. r \in Region /\ d.queued[r] \in Seq(Commands)
    <3>1. Typed(d)  BY <1>4, TypedIs DEF Staged
    <3>2. r \in Region  BY <1>1, EntryIs
    <3> QED  BY <3>1, <3>2 DEF Typed
  <2>5. \A u : Busy(e, u) <=> Busy(d, u)  BY <2>3, BusyIs DEF Queued, Shown
  <2>6. ASSUME NEW p \in Region, Behind(d, p) PROVE Behind(e, p)
    <3>1. CASE p # r  BY <2>3, <2>5, <2>6, <3>1 DEF Behind, Queued
    <3>2. CASE p = r
      <4>1. e.queued[r] = Append(d.queued[r], x)  BY <2>3 DEF Queued
      <4> DEFINE q == d.queued[r]
                 w == e.queued[r]
      <4>2. /\ q \in Seq(Commands) /\ w = Append(q, x)
            /\ \A i \in DOMAIN q : Busy(d, q[i].target)
        BY <2>4, <2>6, <3>2, <4>1 DEF Behind
      <4> HIDE DEF q, w, r
      <4>3. \A i \in DOMAIN w : (i \in DOMAIN q /\ w[i] = q[i]) \/ w[i] = x
        BY <1>1, <4>2
      <4>4. \A i \in DOMAIN w : Busy(e, w[i].target)  BY <1>7, <2>5, <4>2, <4>3
      <4> QED  BY <3>2, <4>4 DEF Behind, w
    <3> QED  BY <3>1, <3>2
  <2>7. Patient(e)  BY <1>4, <2>6 DEF Patient
  <2>8. Prepared(s, batch, e, k + 1)
    BY <1>3, <1>4, <2>3, <2>7 DEF Prepared, Queued, U
  <2> QED  BY <2>8 DEF e, x
<1>8. CASE ~ (Busy(d, t) /\ x.policy = "Queue")
  <2>1. e = Start(d, x)  BY <1>8 DEF Prepare
  <2> HIDE DEF e
  <2>2. Started(d, x, e)  BY <1>1, <1>4, <1>6, <2>1, StartFacts
  <2>3. Patient(e)  BY <1>1, <1>4, <2>2, BehindStarted DEF Patient
  <2>4. Prepared(s, batch, e, k + 1)
    BY <1>3, <1>4, <2>2, <2>3 DEF Prepared, Started, U
  <2> QED  BY <2>4 DEF e, x
<1> QED  BY <1>7, <1>8

LEMMA PreparedFacts ==
  ASSUME NEW s, Staged(s), Patient(s), NEW batch \in Seq(Commands), TakesBatch(s, batch)
  PROVE  /\ Prepared(s, batch, FoldLeft(Prepare, s, batch), Len(batch))
         /\ Live(FoldLeft(Prepare, s, batch)) \subseteq Live(s) \cup BatchMembers(batch)
<1> DEFINE n == Len(batch)
<1>1. n \in Nat /\ DOMAIN batch = 1 .. n  OBVIOUS
<1>2. s \in Coordinator  BY DEF Staged
<1>3. PICK g \in [0 .. n -> Coordinator] :
        /\ g[0] = s
        /\ \A k \in 1 .. n : /\ g[k] = Prepare(g[k - 1], batch[k])
                             /\ g[k - 1] = FoldLeft(Prepare, s, SubSeq(batch, 1, k - 1))
        /\ g[n] = FoldLeft(Prepare, s, batch)
  BY <1>2, PreparedPrefix
<1>4. /\ DistinctMembers(s, batch)
      /\ \A k \in 1 .. n : Takes(g[k - 1], batch[k])
  BY <1>1, <1>3 DEF TakesBatch
<1> HIDE DEF n
<1> DEFINE T == {k \in Nat : k <= n => Prepared(s, batch, g[k], k)}
<1>5. 0 \in T
  <2>1. Prepared(s, batch, s, 0)  BY DEF Prepared
  <2> QED  BY <1>3, <2>1
<1>6. ASSUME NEW k \in Nat, k \in T PROVE k + 1 \in T
  <2> SUFFICES ASSUME k + 1 <= n PROVE Prepared(s, batch, g[k + 1], k + 1)  OBVIOUS
  <2>1. k + 1 \in 1 .. n /\ (k + 1) - 1 = k /\ Prepared(s, batch, g[k], k)  BY <1>1, <1>6
  <2>2. g[k + 1] = Prepare(g[k], batch[k + 1]) /\ Takes(g[k], batch[k + 1])
    BY <1>3, <1>4, <2>1
  <2> QED  BY <1>1, <1>4, <2>1, <2>2, PrepareStep
<1>7. \A k \in Nat : k \in T
  <2> HIDE DEF T
  <2> QED  BY <1>5, <1>6, Induction
<1>8. Prepared(s, batch, g[n], n)  BY <1>1, <1>7
<1>9. UNION {MemberOf(batch[i]) : i \in 1 .. n} \subseteq BatchMembers(batch)
  BY BatchMembersAre DEF n
<1> QED  BY <1>3, <1>8, <1>9 DEF n, Prepared
-------------------------------------------------------------------------------
(* register_fences. *)

Affected(batch) == FencesOf(BatchMembers(batch))
Fresh(s, batch) == Affected(batch) \ FencesOf(Live(s))
Replaced(s, d, batch) == FencesOf((Live(s) \cup BatchMembers(batch)) \ Live(d))
Named(s, d, batch) == SetFences(d, Fresh(s, batch), "Pending")

LEMMA DistinctFacts ==
  ASSUME NEW s, NEW batch \in Seq(Commands), DistinctMembers(s, batch)
  PROVE  \A f \in DOMAIN s.groups : StatusOf(s, f) = "Pending" =>
           \A i \in DOMAIN s.groups[f].ids : <<f, s.groups[f].ids[i]>> \notin BatchMembers(batch)
<1> SUFFICES ASSUME NEW f \in DOMAIN s.groups, StatusOf(s, f) = "Pending",
                    NEW i \in DOMAIN s.groups[f].ids,
                    <<f, s.groups[f].ids[i]>> \in BatchMembers(batch)
             PROVE  FALSE
  OBVIOUS
<1> DEFINE v == s.groups[f].ids[i]
           pending == {g \in DOMAIN s.groups : StatusOf(s, g) = "Pending"}
           taken == Live(s) \cup UNION {{<<g, id>> : id \in ToSet(s.groups[g].ids)} : g \in pending}
<1>1. <<f, v>> \in taken
  <2>1. v \in ToSet(s.groups[f].ids)  BY DEF ToSet
  <2>2. f \in pending  OBVIOUS
  <2> HIDE DEF v, pending
  <2>3. <<f, v>> \in {<<f, id>> : id \in ToSet(s.groups[f].ids)}  BY <2>1
  <2> QED  BY <2>2, <2>3
<1>2. \A k \in DOMAIN batch : batch[k].fence # NoFence =>
        <<batch[k].fence, batch[k].id>> \notin taken
  BY DEF DistinctMembers
<1>3. PICK k \in 1 .. Len(batch) : batch[k].fence = f /\ batch[k].id = v
  <2> HIDE DEF v
  <2> QED  BY BatchMembersAre DEF v
<1>4. f # NoFence
  <2> HIDE DEF v
  <2> QED  BY BatchMembersAre DEF v
<1> HIDE DEF v, taken
<1>5. k \in DOMAIN batch  OBVIOUS
<1> QED  BY <1>1, <1>2, <1>3, <1>4, <1>5

(* A group with the commands of a batch. *)
Joins(s, status, f, batch, g) ==
  /\ Grouped(g) /\ g.progress.terminal \in {None, "Cancelled"}
  /\ status \in {"Pending", "Failed"}
  /\ status = "Failed" => g.progress.terminal = "Cancelled"
  /\ status = "Pending" =>
       /\ g.progress.terminal = None
       /\ \A i \in DOMAIN g.ids :
            /\ g.progress.members[i] # "Cancelled"
            /\ g.progress.members[i] = "Running" <=> <<f, g.ids[i]>> \in Live(s) \cup BatchMembers(batch)
            /\ \/ <<f, g.ids[i]>> \in BatchMembers(batch)
               \/ /\ f \in FencesOf(Live(s))
                  /\ <<f, g.ids[i]>> \notin BatchMembers(batch)
                  /\ i \in DOMAIN s.groups[f].ids /\ g.ids[i] = s.groups[f].ids[i]
                  /\ g.progress.members[i] = s.groups[f].progress.members[i]
       /\ \A m \in Live(s) \cup BatchMembers(batch) : m[1] = f => \E i \in DOMAIN g.ids : m = <<f, g.ids[i]>>
       /\ f \in FencesOf(Live(s)) =>
            \A i \in DOMAIN s.groups[f].ids : i \in DOMAIN g.ids /\ g.ids[i] = s.groups[f].ids[i]

LEMMA NamedStatus ==
  ASSUME NEW s, NEW j, NEW e, NEW b, Fenced(s, j, e, b), NEW batch, NEW d, d.fences = s.fences,
         d \in Coordinator, NEW f \in Affected(batch)
  PROVE  /\ StatusOf(Named(s, d, batch), f) = IF f \in FencesOf(Live(s)) THEN s.fences[f] ELSE "Pending"
         /\ f \in FencesOf(Live(s)) =>
              f \in DOMAIN s.fences /\ s.fences[f] \in {"Pending", "Failed"}
<1> DEFINE n == Named(s, d, batch)
           F == Insert(d.fences, [g \in Fresh(s, batch) |-> "Pending"])
<1>1. Typed(d)  BY TypedIs
<1>2. n = [d EXCEPT !.fences = F]  BY DEF Named, SetFences
<1> HIDE DEF F, n
<1>3. n.fences = F  BY <1>1, <1>2 DEF Typed
<1>4. /\ DOMAIN F = DOMAIN d.fences \cup Fresh(s, batch)
      /\ \A g \in DOMAIN F : F[g] = IF g \in Fresh(s, batch) THEN "Pending" ELSE d.fences[g]
  BY DEF F, Insert
<1>5. f \in FencesOf(Live(s)) => f \in DOMAIN s.fences /\ s.fences[f] \in {"Pending", "Failed"}
  <2> SUFFICES ASSUME f \in FencesOf(Live(s))
               PROVE  f \in DOMAIN s.fences /\ s.fences[f] \in {"Pending", "Failed"}
    OBVIOUS
  <2>1. f \in DOMAIN s.fences  BY DEF Fenced
  <2>2. Follows(s, f)  BY <2>1 DEF Fenced
  <2>3. s.fences[f] \in Status  BY <1>1, <2>1 DEF Typed
  <2> QED  BY <2>1, <2>2, <2>3 DEF Follows, Status
<1> QED  BY <1>3, <1>4, <1>5 DEF StatusOf, Fresh, n

LEMMA GroupJoins ==
  ASSUME NEW s \in Coordinator, NEW j, NEW e, NEW b, Fenced(s, j, e, b),
         NEW batch \in Seq(Commands), DistinctMembers(s, batch),
         NEW d \in Coordinator, d.fences = s.fences, NEW f \in Affected(batch)
  PROVE  Joins(s, StatusOf(Named(s, d, batch), f), f, batch, Joined(s, Named(s, d, batch), batch, f))
<1> DEFINE n == Named(s, d, batch)
           status == StatusOf(n, f)
           g == Joined(s, n, batch, f)
           old == JoinedIds(s, f)
           was == s.groups[f].progress
           all == Live(s) \cup BatchMembers(batch)
<1>1. /\ status = IF f \in FencesOf(Live(s)) THEN s.fences[f] ELSE "Pending"
      /\ f \in FencesOf(Live(s)) =>
           /\ f \in DOMAIN s.fences /\ s.fences[f] \in {"Pending", "Failed"}
           /\ Grouped(s.groups[f]) /\ Follows(s, f)
  <2>1. /\ status = IF f \in FencesOf(Live(s)) THEN s.fences[f] ELSE "Pending"
        /\ f \in FencesOf(Live(s)) =>
             f \in DOMAIN s.fences /\ s.fences[f] \in {"Pending", "Failed"}
    BY NamedStatus
  <2> QED  BY <2>1 DEF Fenced
<1>2. status = "Failed" => f \in FencesOf(Live(s)) /\ was.terminal = "Cancelled"
  BY <1>1 DEF Follows
<1>3. JoinedBy(f, old, was, status = "Failed", batch, g)
  BY <1>1, <1>2, JoinedFacts DEF Affected
<1>4. /\ Grouped(g)
      /\ \A i \in DOMAIN old : i \in DOMAIN g.ids /\ g.ids[i] = old[i]
      /\ \A v : HasId(g.ids, v) <=> HasId(old, v) \/ <<f, v>> \in BatchMembers(batch)
      /\ status # "Failed" => \A i \in DOMAIN g.ids :
           g.progress.members[i] = IF i \in DOMAIN old /\ was.members[i] \in Terminal
                                     THEN was.members[i] ELSE "Running"
      /\ status = "Failed" => g.progress.terminal = "Cancelled"
  BY <1>3 DEF JoinedBy
<1> HIDE DEF status, g, n
<1>5. status \in {"Pending", "Failed"}  BY <1>1
<1>6. ASSUME status = "Pending"
      PROVE  /\ g.progress.terminal = None
             /\ \A i \in DOMAIN g.ids :
                  /\ g.progress.members[i] # "Cancelled"
                  /\ g.progress.members[i] = "Running" <=> <<f, g.ids[i]>> \in all
                  /\ \/ <<f, g.ids[i]>> \in BatchMembers(batch)
                     \/ /\ f \in FencesOf(Live(s))
                        /\ <<f, g.ids[i]>> \notin BatchMembers(batch)
                        /\ i \in DOMAIN s.groups[f].ids /\ g.ids[i] = s.groups[f].ids[i]
                        /\ g.progress.members[i] = s.groups[f].progress.members[i]
             /\ \A m \in all : m[1] = f => \E i \in DOMAIN g.ids : m = <<f, g.ids[i]>>
  <2>1. \A i \in DOMAIN old :
          /\ f \in FencesOf(Live(s)) /\ s.fences[f] = "Pending" /\ old = s.groups[f].ids
          /\ <<f, old[i]>> \notin BatchMembers(batch)
          /\ was.members[i] \in {"Running", "Completed"}
          /\ was.members[i] = "Running" <=> <<f, old[i]>> \in Live(s)
    <3> SUFFICES ASSUME NEW i \in DOMAIN old
                 PROVE  /\ f \in FencesOf(Live(s)) /\ s.fences[f] = "Pending" /\ old = s.groups[f].ids
                        /\ <<f, old[i]>> \notin BatchMembers(batch)
                        /\ was.members[i] \in {"Running", "Completed"}
                        /\ was.members[i] = "Running" <=> <<f, old[i]>> \in Live(s)
      OBVIOUS
    <3>1. f \in FencesOf(Live(s)) /\ old = s.groups[f].ids
      <4>1. DOMAIN <<>> = {}  OBVIOUS
      <4> QED  BY <4>1 DEF JoinedIds
    <3>2. s.fences[f] = "Pending" /\ StatusOf(s, f) = "Pending" /\ f \in DOMAIN s.groups
      BY <1>1, <1>6, <3>1 DEF StatusOf, Fenced
    <3> HIDE DEF old
    <3>3. <<f, old[i]>> \notin BatchMembers(batch)  BY <3>1, <3>2, DistinctFacts
    <3>4. was.members[i] \in {"Running", "Completed", "Cancelled"}
      BY <1>1, <3>1 DEF Grouped
    <3>5. /\ was.members[i] # "Cancelled"
          /\ was.members[i] = "Running" <=> <<f, old[i]>> \in Live(s)
      BY <1>1, <3>1, <3>2 DEF Follows
    <3> QED  BY <3>1, <3>2, <3>3, <3>4, <3>5
  <2>2. \A i \in DOMAIN g.ids \ DOMAIN old : <<f, g.ids[i]>> \in BatchMembers(batch)
    <3> SUFFICES ASSUME NEW i \in DOMAIN g.ids, i \notin DOMAIN old
                 PROVE  <<f, g.ids[i]>> \in BatchMembers(batch)
      OBVIOUS
    <3>1. HasId(g.ids, g.ids[i])  BY DEF HasId
    <3>2. ~ HasId(old, g.ids[i])
      <4>1. EachOnce(g.ids)  BY <1>4 DEF Grouped
      <4> HIDE DEF old
      <4> QED  BY <1>4, <4>1 DEF HasId, EachOnce
    <3> QED  BY <1>4, <3>1, <3>2
  <2>3. \A m \in all : m[1] = f => \E i \in DOMAIN g.ids : m = <<f, g.ids[i]>>
    <3> SUFFICES ASSUME NEW m \in all, m[1] = f PROVE \E i \in DOMAIN g.ids : m = <<f, g.ids[i]>>
      OBVIOUS
    <3>1. CASE m \in BatchMembers(batch)
      <4>1. m = <<f, m[2]>>  BY <3>1, BatchMembersAre
      <4>2. HasId(g.ids, m[2])  BY <1>4, <3>1, <4>1
      <4> QED  BY <4>1, <4>2 DEF HasId
    <3>2. CASE m \in Live(s)
      <4>1. f \in FencesOf(Live(s))  BY <3>2 DEF FencesOf
      <4>2. s.fences[f] = "Pending" /\ old = s.groups[f].ids  BY <1>1, <1>6, <4>1 DEF JoinedIds
      <4>3. PICK i \in DOMAIN old : m = <<f, old[i]>>
        BY <1>1, <3>2, <4>1, <4>2 DEF Follows
      <4> QED  BY <1>4, <4>3
    <3> QED  BY <3>1, <3>2
  <2>4. ASSUME NEW i \in DOMAIN g.ids
        PROVE  /\ g.progress.members[i] # "Cancelled"
               /\ g.progress.members[i] = "Running" <=> <<f, g.ids[i]>> \in all
               /\ \/ <<f, g.ids[i]>> \in BatchMembers(batch)
                  \/ /\ f \in FencesOf(Live(s))
                     /\ <<f, g.ids[i]>> \notin BatchMembers(batch)
                     /\ i \in DOMAIN s.groups[f].ids /\ g.ids[i] = s.groups[f].ids[i]
                     /\ g.progress.members[i] = s.groups[f].progress.members[i]
    <3>1. CASE i \in DOMAIN old
      <4>1. g.progress.members[i] = was.members[i]
        <5>1. g.progress.members[i] = IF was.members[i] \in Terminal THEN was.members[i] ELSE "Running"
          BY <1>4, <1>6, <3>1
        <5> HIDE DEF was, old
        <5> QED  BY <2>1, <3>1, <5>1 DEF Terminal
      <4>2. g.ids[i] = old[i]  BY <1>4, <3>1
      <4>3. /\ f \in FencesOf(Live(s)) /\ old = s.groups[f].ids
            /\ <<f, old[i]>> \notin BatchMembers(batch)
            /\ was.members[i] \in {"Running", "Completed"}
            /\ was.members[i] = "Running" <=> <<f, old[i]>> \in Live(s)
        BY <2>1, <3>1
      <4> HIDE DEF was, old
      <4> QED  BY <3>1, <4>1, <4>2, <4>3 DEF was
    <3>2. CASE i \notin DOMAIN old
      <4>1. g.progress.members[i] = "Running"  BY <1>4, <1>6, <3>2
      <4> QED  BY <2>2, <3>2, <4>1
    <3> QED  BY <3>1, <3>2
  <2>5. g.progress.terminal = None
    <3>1. PICK m \in BatchMembers(batch) : m[1] = f  BY DEF Affected, FencesOf
    <3>2. PICK i \in DOMAIN g.ids : m = <<f, g.ids[i]>>  BY <2>3, <3>1
    <3>3. g.progress.members[i] = "Running"  BY <2>4, <3>1, <3>2
    <3>4. Whole(g.progress) /\ i \in Members(g.progress)  BY <1>4, GroupIs
    <3> QED  BY <3>3, <3>4, WholeIs
  <2> QED  BY <2>3, <2>4, <2>5
<1>7. f \in FencesOf(Live(s)) =>
        \A i \in DOMAIN s.groups[f].ids : i \in DOMAIN g.ids /\ g.ids[i] = s.groups[f].ids[i]
  BY <1>4 DEF JoinedIds
<1>8. g.progress.terminal \in {None, "Cancelled"}  BY <1>4, <1>5, <1>6
<1> QED  BY <1>4, <1>5, <1>6, <1>7, <1>8 DEF Joins, g, n, status

(* Only fences and groups change. *)
Relabelled(s, F, G, d) ==
  /\ Staged(d) /\ Live(d) = Live(s) /\ d.fences = F /\ d.groups = G
  /\ d.entry = s.entry /\ d.queued = s.queued
  /\ d.activated = s.activated /\ d.failed = s.failed
  /\ \A r \in Region : Behind(s, r) => Behind(d, r)

LEMMA RelabelFacts ==
  ASSUME NEW s, Staged(s),
         NEW F, F \in [DOMAIN F -> Status], DOMAIN F \subseteq Fence,
         NEW G, G \in [DOMAIN G -> GroupState], DOMAIN G \subseteq Fence,
         NEW d, d = [entry |-> s.entry, queued |-> s.queued, fences |-> F, groups |-> G,
                     activated |-> s.activated, failed |-> s.failed]
  PROVE  Relabelled(s, F, G, d)
<1>1. Typed(s)  BY TypedIs DEF Staged
<1>2. /\ d.entry = s.entry /\ d.queued = s.queued /\ d.fences = F /\ d.groups = G
      /\ d.activated = s.activated /\ d.failed = s.failed
      /\ d = [entry |-> d.entry, queued |-> d.queued, fences |-> d.fences, groups |-> d.groups,
              activated |-> d.activated, failed |-> d.failed]
  OBVIOUS
<1>3. Typed(d)
  <2>1. d.queued \in [Region -> Seq(Commands)] /\ d.activated \in Seq(Ids) /\ d.failed \in BOOLEAN
    BY <1>1, <1>2 DEF Typed
  <2>2. d.entry \in [Shown(d) -> EntryState] /\ Shown(d) \subseteq Target
    BY <1>1, <1>2 DEF Typed, Shown
  <2>3. d \in [entry : {d.entry}, queued : [Region -> Seq(Commands)], fences : {d.fences},
              groups : {d.groups}, activated : Seq(Ids), failed : BOOLEAN]
    BY <1>2, <2>1
  <2> QED  BY <1>2, <2>2, <2>3 DEF Typed
<1>4. d \in Coordinator  BY <1>3, TypedIs
<1>5. Staged(d) /\ Live(d) = Live(s)  BY <1>2, <1>4, StagedSame
<1>6. \A t : Busy(d, t) <=> Busy(s, t)  BY <1>2, BusyIs DEF Shown
<1>7. \A r \in Region : Behind(s, r) => Behind(d, r)  BY <1>2, <1>6 DEF Behind
<1> QED  BY <1>2, <1>5, <1>7 DEF Relabelled

Regrouped(s, d, batch, f) ==
  IF f \in Affected(batch) THEN Joined(s, Named(s, d, batch), batch, f) ELSE s.groups[f]

Registered(s, d, batch, r) ==
  LET known == DOMAIN s.fences \cup Affected(batch)
      lost == Replaced(s, d, batch)
  IN /\ Staged(r) /\ Live(r) = Live(d)
     /\ r.activated = d.activated /\ r.failed = d.failed
     /\ \A q \in Region : Behind(d, q) => Behind(r, q)
     /\ DOMAIN r.fences = known /\ DOMAIN r.groups = known
     /\ \A f \in known :
          /\ r.fences[f] = IF f \in lost THEN "Failed"
                           ELSE IF f \in Fresh(s, batch) THEN "Pending" ELSE s.fences[f]
          /\ r.groups[f].ids = Regrouped(s, d, batch, f).ids
          /\ f \notin lost => r.groups[f] = Regrouped(s, d, batch, f)
          /\ Grouped(r.groups[f])
          /\ f \in lost => r.groups[f].progress.terminal = "Cancelled"

LEMMA RegisterFacts ==
  ASSUME NEW s, Staged(s), NEW j, NEW e, NEW b, Fenced(s, j, e, b),
         NEW batch \in Seq(Commands), DistinctMembers(s, batch),
         NEW d, Staged(d), d.fences = s.fences, d.groups = s.groups
  PROVE  Registered(s, d, batch, Register(s, d, batch))
<1> DEFINE A == Affected(batch)
           fresh == Fresh(s, batch)
           lost == Replaced(s, d, batch)
           n == Named(s, d, batch)
           J(f) == Joined(s, n, batch, f)
           F1 == Insert(d.fences, [f \in fresh |-> "Pending"])
           G1 == Insert(d.groups, [f \in A |-> J(f)])
           G2 == [f \in DOMAIN G1 |-> IF f \in lost THEN [G1[f] EXCEPT !.progress = CancelProgress(@)]
                                      ELSE G1[f]]
           F2 == Insert(F1, [f \in lost |-> "Failed"])
           r == Register(s, d, batch)
           known == DOMAIN s.fences \cup A
<1>1. s \in Coordinator /\ d \in Coordinator /\ Typed(s) /\ Typed(d)  BY TypedIs DEF Staged
<1>2. r = [entry |-> d.entry, queued |-> d.queued, fences |-> F2, groups |-> G2,
           activated |-> d.activated, failed |-> d.failed]
  <2> DEFINE grown == [n EXCEPT !.groups = Insert(@, [f \in A |-> J(f)])]
             cancelled == CancelGroups(grown, lost)
  <2>1. n = [d EXCEPT !.fences = F1]  BY DEF Named, SetFences
  <2>2. r = SetFences(cancelled, lost, "Failed")
    BY DEF Register, Affected, Fresh, Replaced, Named
  <2> DEFINE N == DOMAIN n.groups
             J2 == [f \in A |-> J(f)]
  <2> HIDE DEF n, F1
  <2>3. /\ n.groups = d.groups /\ n.fences = F1
        /\ n = [entry |-> d.entry, queued |-> d.queued, fences |-> F1, groups |-> d.groups,
                activated |-> d.activated, failed |-> d.failed]
    BY <1>1, <2>1 DEF Typed
  <2> HIDE DEF J2
  <2>4. grown = [n EXCEPT !.groups = G1]  BY <2>3 DEF J2
  <2> HIDE DEF grown, G1
  <2>5. /\ grown = [entry |-> d.entry, queued |-> d.queued, fences |-> F1, groups |-> G1,
                     activated |-> d.activated, failed |-> d.failed]
    BY <2>3, <2>4
  <2>6. cancelled = [grown EXCEPT !.groups = G2]  BY <2>5 DEF CancelGroups
  <2> HIDE DEF cancelled, G2
  <2>7. cancelled = [entry |-> d.entry, queued |-> d.queued, fences |-> F1, groups |-> G2,
                     activated |-> d.activated, failed |-> d.failed]
    BY <2>5, <2>6
  <2>8. r = [cancelled EXCEPT !.fences = F2]  BY <2>2, <2>7 DEF SetFences
  <2> HIDE DEF r, F2
  <2> QED  BY <2>7, <2>8
<1>3. /\ DOMAIN s.groups = DOMAIN s.fences /\ FencesOf(Live(s)) \subseteq DOMAIN s.fences
      /\ DOMAIN s.fences \subseteq Fence
      /\ \A f \in DOMAIN s.fences : Grouped(s.groups[f]) /\ Follows(s, f) /\ s.fences[f] \in Status
  BY <1>1 DEF Fenced, Typed
<1>4. lost \subseteq known /\ fresh \subseteq A /\ A \subseteq Fence /\ known \subseteq Fence
  <2>1. lost \subseteq FencesOf(Live(s)) \cup A  BY DEF Replaced, FencesOf, Affected
  <2>2. A \subseteq Fence  BY BatchMembersAre DEF Affected, FencesOf
  <2> QED  BY <1>3, <2>1, <2>2 DEF Fresh
<1>5. /\ DOMAIN G1 = known /\ \A f \in known : G1[f] = Regrouped(s, d, batch, f)
  <2>1. DOMAIN G1 = DOMAIN d.groups \cup A
        /\ \A f \in DOMAIN G1 : G1[f] = IF f \in A THEN J(f) ELSE d.groups[f]
    BY DEF Insert
  <2> HIDE DEF G1, J
  <2> QED  BY <1>3, <2>1 DEF Regrouped, J
<1>6. \A f \in known : /\ Grouped(G1[f])
                       /\ f \in lost => G1[f].progress.terminal \in {None, "Cancelled"}
  <2> SUFFICES ASSUME NEW f \in known
               PROVE  /\ Grouped(G1[f])
                      /\ f \in lost => G1[f].progress.terminal \in {None, "Cancelled"}
    OBVIOUS
  <2>1. CASE f \in A
    <3>1. Joins(s, StatusOf(n, f), f, batch, J(f))  BY <1>1, <2>1, GroupJoins
    <3> QED  BY <1>5, <2>1, <3>1 DEF Joins, Regrouped
  <2>2. CASE f \notin A
    <3>1. G1[f] = s.groups[f] /\ f \in DOMAIN s.fences  BY <1>5, <2>2 DEF Regrouped
    <3>2. f \in lost => f \in FencesOf(Live(s))  BY <2>2 DEF Replaced, Affected, FencesOf
    <3>3. f \in lost => s.fences[f] \in {"Pending", "Failed"}
      BY <1>3, <3>1, <3>2 DEF Follows, Status
    <3> HIDE DEF G1
    <3> QED  BY <1>3, <3>1, <3>3 DEF Follows
  <2> QED  BY <2>1, <2>2
<1> HIDE DEF G1
<1>7. DOMAIN G2 = known
  BY <1>5
<1>8. \A f \in known : /\ Grouped(G2[f]) /\ G2[f].ids = G1[f].ids
                       /\ f \notin lost => G2[f] = G1[f]
                       /\ f \in lost => G2[f].progress.terminal = "Cancelled"
  <2> SUFFICES ASSUME NEW f \in known
               PROVE  /\ Grouped(G2[f]) /\ G2[f].ids = G1[f].ids
                      /\ f \notin lost => G2[f] = G1[f]
                      /\ f \in lost => G2[f].progress.terminal = "Cancelled"
    OBVIOUS
  <2>1. CASE f \notin lost
    <3>1. G2[f] = G1[f]  BY <1>5, <2>1
    <3> QED  BY <1>6, <2>1, <3>1
  <2>2. CASE f \in lost
    <3>1. G2[f] = [G1[f] EXCEPT !.progress = CancelProgress(@)]  BY <1>5, <2>2
    <3> HIDE DEF G2
    <3> QED  BY <1>6, <2>2, <3>1, CancelGroup
  <2> QED  BY <2>1, <2>2
<1>9. G2 = [f \in DOMAIN G2 |-> G2[f]]  OBVIOUS
<1> HIDE DEF G2
<1>10. G2 \in [DOMAIN G2 -> GroupState] /\ DOMAIN G2 \subseteq Fence
  <2>1. \A f \in DOMAIN G2 : G2[f] \in GroupState  BY <1>7, <1>8 DEF Grouped
  <2> QED  BY <1>4, <1>7, <1>9, <2>1
<1>11. /\ DOMAIN F2 = known /\ F2 = [f \in DOMAIN F2 |-> F2[f]]
       /\ \A f \in known : F2[f] = IF f \in lost THEN "Failed"
                                   ELSE IF f \in fresh THEN "Pending" ELSE s.fences[f]
  <2>1. /\ DOMAIN F1 = DOMAIN s.fences \cup fresh
        /\ \A f \in DOMAIN F1 : F1[f] = IF f \in fresh THEN "Pending" ELSE s.fences[f]
    BY DEF Insert
  <2>2. /\ DOMAIN F2 = DOMAIN F1 \cup lost
        /\ \A f \in DOMAIN F2 : F2[f] = IF f \in lost THEN "Failed" ELSE F1[f]
        /\ F2 = [f \in DOMAIN F2 |-> F2[f]]
    BY DEF Insert
  <2> HIDE DEF F1, F2
  <2>3. A \subseteq DOMAIN s.fences \cup fresh  BY <1>3 DEF Fresh
  <2>4. DOMAIN F2 = known  BY <1>4, <2>1, <2>2, <2>3
  <2>5. \A f \in known : F2[f] = IF f \in lost THEN "Failed"
                                 ELSE IF f \in fresh THEN "Pending" ELSE s.fences[f]
    BY <2>1, <2>2, <2>4
  <2> QED  BY <2>2, <2>4, <2>5
<1> HIDE DEF F2
<1>12. F2 \in [DOMAIN F2 -> Status] /\ DOMAIN F2 \subseteq Fence
  <2>1. \A f \in known : f \in DOMAIN s.fences \/ f \in fresh  BY <1>3 DEF Fresh
  <2>2. \A f \in DOMAIN F2 : F2[f] \in Status
    <3> HIDE DEF known, lost, fresh
    <3> QED  BY <1>3, <1>11, <2>1 DEF Status
  <2> QED  BY <1>4, <1>11, <2>2
<1> HIDE DEF r
<1>13. Relabelled(d, F2, G2, r)  BY <1>2, <1>10, <1>12, RelabelFacts
<1> HIDE DEF known, lost, fresh
<1>14. Registered(s, d, batch, r)
  BY <1>5, <1>7, <1>8, <1>11, <1>13 DEF Registered, Relabelled, known, lost, fresh
<1> QED  BY <1>14 DEF r

(* What the history says after a batch. *)
Stale(s, j, batch) == {m \in j : m[1] \in Fresh(s, batch)}

LEMMA BatchFenced ==
  ASSUME NEW s, Staged(s), NEW j, NEW e, NEW b, Fenced(s, j, e, b),
         NEW batch \in Seq(Commands), DistinctMembers(s, batch),
         NEW d, Staged(d), d.fences = s.fences, d.groups = s.groups,
         Live(d) \subseteq Live(s) \cup BatchMembers(batch),
         NEW r, Registered(s, d, batch, r)
  PROVE  Fenced(r, (j \ Stale(s, j, batch)) \cup BatchMembers(batch),
                e \ (Stale(s, j, batch) \cup BatchMembers(batch)),
                (b \ Fresh(s, batch)) \cup Replaced(s, d, batch))
<1> DEFINE A == Affected(batch)
           B == BatchMembers(batch)
           fresh == Fresh(s, batch)
           lost == Replaced(s, d, batch)
           old == Stale(s, j, batch)
           known == DOMAIN s.fences \cup A
           j2 == (j \ old) \cup B
           e2 == e \ (old \cup B)
           b2 == (b \ fresh) \cup lost
           was(f) == f \in FencesOf(Live(s))
<1>1. s \in Coordinator /\ d \in Coordinator  BY DEF Staged
<1>2. /\ DOMAIN s.groups = DOMAIN s.fences /\ FencesOf(Live(s)) \subseteq DOMAIN s.fences
      /\ j \subseteq Fence \X Ids /\ FencesOf(j) = DOMAIN s.fences
      /\ \A f \in DOMAIN s.fences :
           Grouped(s.groups[f]) /\ Follows(s, f) /\ Remembers(s, f, j, e, b)
  BY DEF Fenced
<1>3. /\ Live(r) = Live(d) /\ DOMAIN r.fences = known /\ DOMAIN r.groups = known
      /\ \A f \in known :
           /\ r.fences[f] = IF f \in lost THEN "Failed"
                            ELSE IF f \in fresh THEN "Pending" ELSE s.fences[f]
           /\ f \notin lost => r.groups[f] = Regrouped(s, d, batch, f)
           /\ Grouped(r.groups[f])
           /\ f \in lost => r.groups[f].progress.terminal = "Cancelled"
  BY DEF Registered
<1>4. /\ B \subseteq Fence \X Ids /\ \A f : f \in A <=> \E m \in B : m[1] = f
  BY BatchMembersAre DEF Affected, FencesOf
<1>5. /\ \A f : f \in fresh <=> f \in A /\ ~ was(f)
      /\ \A f : was(f) <=> \E m \in Live(s) : m[1] = f
      /\ \A f : f \in lost <=> \E m \in (Live(s) \cup B) \ Live(d) : m[1] = f
      /\ \A m : m \in old <=> m \in j /\ m[1] \in fresh
  BY DEF Fresh, Replaced, Stale, FencesOf
<1> HIDE DEF A, B, fresh, lost, old, was
<1>6. FencesOf(Live(r)) \subseteq known
  <2>1. \A m \in Live(s) : m[1] \in DOMAIN s.fences  BY <1>2 DEF FencesOf
  <2>2. \A m \in Live(r) : m \in Live(s) \/ m \in B  BY <1>3 DEF B
  <2> QED  BY <1>4, <2>1, <2>2 DEF FencesOf
<1>7. j2 \subseteq Fence \X Ids /\ FencesOf(j2) = known
  <2>1. ASSUME NEW f \in known PROVE \E m \in j2 : m[1] = f
    <3>1. CASE f \in A  BY <1>4, <3>1
    <3>2. CASE f \notin A
      <4>1. PICK m \in j : m[1] = f  BY <1>2, <3>2 DEF FencesOf
      <4> QED  BY <1>5, <3>2, <4>1
    <3> QED  BY <3>1, <3>2
  <2>2. ASSUME NEW m \in j2 PROVE m[1] \in known
    <3>1. CASE m \in j
      <4>1. m[1] \in FencesOf(j)  BY <3>1 DEF FencesOf
      <4> QED  BY <1>2, <4>1
    <3>2. CASE m \in B  BY <1>4, <3>2
    <3> QED  BY <2>2, <3>1, <3>2
  <2>3. FencesOf(j2) = known
    <3> HIDE DEF j2, known
    <3> QED  BY <2>1, <2>2 DEF FencesOf
  <2> QED  BY <1>2, <1>4, <2>3
<1>8. ASSUME NEW f \in known PROVE Follows(r, f) /\ Remembers(r, f, j2, e2, b2)
  <2> DEFINE g == r.groups[f]
  <2>1. f \in b2 <=> f \in lost \/ (f \in b /\ f \notin fresh)  OBVIOUS
  <2>2. CASE f \in lost
    <3>1. r.fences[f] = "Failed" /\ g.progress.terminal = "Cancelled"  BY <1>3, <2>2
    <3> HIDE DEF g, j2, e2, b2
    <3> QED  BY <2>1, <2>2, <3>1 DEF Follows, Remembers, g
  <2>3. CASE f \notin lost /\ f \notin A
    <3>1. /\ f \in DOMAIN s.fences /\ r.fences[f] = s.fences[f] /\ g = s.groups[f]
      BY <1>3, <1>5, <2>3 DEF Regrouped, A
    <3>2. \A m : m[1] = f => (m \in Live(r) <=> m \in Live(s))
      BY <1>3, <1>4, <1>5, <2>3 DEF B
    <3>3. \A m : m[1] = f => (m \in j2 <=> m \in j) /\ (m \in e2 <=> m \in e)
      BY <1>4, <1>5, <2>3
    <3>4. Follows(s, f) /\ Remembers(s, f, j, e, b)  BY <1>2, <3>1
    <3>5. \A v : <<f, v>>[1] = f  OBVIOUS
    <3>6. f \in FencesOf(Live(r)) <=> f \in FencesOf(Live(s))  BY <3>2 DEF FencesOf
    <3>7. Of(j2, f) = Of(j, f) /\ (Of(j, f) \subseteq e => Of(j2, f) \subseteq e2)
      BY <3>3 DEF Of
    <3>8. f \in b2 <=> f \in b  BY <1>5, <2>1, <2>3
    <3> HIDE DEF j2, e2, b2, known
    <3>9. Follows(r, f)
      <4>1. \A i \in DOMAIN g.ids : <<f, g.ids[i]>> \in Live(r) <=> <<f, g.ids[i]>> \in Live(s)
        BY <3>2, <3>5
      <4>2. \A m \in Live(r) : m[1] = f => m \in Live(s)  BY <3>2
      <4> HIDE DEF g
      <4> QED  BY <3>1, <3>4, <3>6, <4>1, <4>2 DEF Follows, g
    <3>10. Remembers(r, f, j2, e2, b2)
      <4>1. \A i \in DOMAIN g.ids : <<f, g.ids[i]>> \in e2 <=> <<f, g.ids[i]>> \in e
        BY <3>3, <3>5
      <4> HIDE DEF g
      <4> QED  BY <3>1, <3>4, <3>7, <3>8, <4>1 DEF Remembers, g
    <3> QED  BY <3>9, <3>10
  <2>4. CASE f \notin lost /\ f \in A
    <3> DEFINE status == StatusOf(Named(s, d, batch), f)
    <3>1. Joins(s, status, f, batch, g)
      <4>1. g = Joined(s, Named(s, d, batch), batch, f)  BY <1>3, <2>4 DEF Regrouped, A
      <4> QED  BY <1>1, <2>4, <4>1, GroupJoins DEF A
    <3>2. r.fences[f] = status
      <4>1. status = IF was(f) THEN s.fences[f] ELSE "Pending"
        BY <1>1, <2>4, NamedStatus DEF A, was
      <4> QED  BY <1>3, <1>5, <2>4, <4>1
    <3> HIDE DEF status, g, known
    <3>3. was(f) => f \in DOMAIN s.fences /\ s.fences[f] = status
      <4>1. was(f) => f \in DOMAIN s.fences  BY <1>2 DEF was
      <4> QED  BY <1>1, <2>4, <4>1, NamedStatus DEF A, was, status
    <3>4. ASSUME status = "Failed" PROVE Follows(r, f) /\ Remembers(r, f, j2, e2, b2)
      <4>1. was(f)
        <5>1. status = IF was(f) THEN s.fences[f] ELSE "Pending"
          BY <1>1, <2>4, NamedStatus DEF A, was, status
        <5> QED  BY <3>4, <5>1
      <4>2. f \in b  BY <1>2, <3>3, <3>4, <4>1 DEF Remembers
      <4>3. f \in b2  BY <1>5, <2>1, <4>1, <4>2
      <4>4. g.progress.terminal = "Cancelled"  BY <3>1, <3>4 DEF Joins
      <4> HIDE DEF j2, e2, b2
      <4> QED  BY <3>2, <3>4, <4>3, <4>4 DEF Follows, Remembers, g
    <3>5. ASSUME status = "Pending" PROVE Follows(r, f) /\ Remembers(r, f, j2, e2, b2)
      <4>1. /\ g.progress.terminal = None
            /\ \A i \in DOMAIN g.ids :
                 /\ g.progress.members[i] # "Cancelled"
                 /\ g.progress.members[i] = "Running" <=> <<f, g.ids[i]>> \in Live(s) \cup B
                 /\ \/ <<f, g.ids[i]>> \in B
                    \/ /\ was(f) /\ <<f, g.ids[i]>> \notin B
                       /\ i \in DOMAIN s.groups[f].ids /\ g.ids[i] = s.groups[f].ids[i]
                       /\ g.progress.members[i] = s.groups[f].progress.members[i]
            /\ \A m \in Live(s) \cup B : m[1] = f => \E i \in DOMAIN g.ids : m = <<f, g.ids[i]>>
            /\ was(f) => \A i \in DOMAIN s.groups[f].ids :
                 i \in DOMAIN g.ids /\ g.ids[i] = s.groups[f].ids[i]
        BY <3>1, <3>5 DEF Joins, B, was
      <4>2. \A m : m[1] = f => (m \in Live(r) <=> m \in Live(s) \cup B)
        BY <1>3, <1>5, <2>4 DEF B
      <4>3. Follows(r, f)
        <5>1. \A i \in DOMAIN g.ids : <<f, g.ids[i]>> \in Live(r) <=> <<f, g.ids[i]>> \in Live(s) \cup B
          <6>1. \A v : <<f, v>>[1] = f  OBVIOUS
          <6> QED  BY <4>2, <6>1
        <5>2. \A m \in Live(r) : m[1] = f => \E i \in DOMAIN g.ids : m = <<f, g.ids[i]>>
          BY <4>1, <4>2
        <5> QED  BY <3>2, <3>5, <4>1, <5>1, <5>2 DEF Follows, g
      <4>4. was(f) => /\ Of(j, f) = {<<f, s.groups[f].ids[i]>> : i \in DOMAIN s.groups[f].ids}
                      /\ f \notin b
                      /\ \A i \in DOMAIN s.groups[f].ids :
                           <<f, s.groups[f].ids[i]>> \in e <=> s.groups[f].progress.members[i] = "Completed"
        BY <1>2, <3>3, <3>5 DEF Remembers
      <4>5. f \notin b2  BY <1>5, <2>1, <2>4, <4>4
      <4>6. ASSUME NEW m, m[1] = f PROVE m \in j2 <=> m \in B \/ (was(f) /\ m \in j)
        BY <1>5, <2>4, <4>6
      <4>7. Of(j2, f) = {<<f, g.ids[i]>> : i \in DOMAIN g.ids}
        <5>1. ASSUME NEW m \in Of(j2, f) PROVE \E i \in DOMAIN g.ids : m = <<f, g.ids[i]>>
          <6>1. m \in j2 /\ m[1] = f  BY <5>1 DEF Of
          <6>2. CASE m \in B  BY <4>1, <6>1, <6>2
          <6>3. CASE m \notin B
            <7>1. was(f) /\ m \in Of(j, f)  BY <4>6, <6>1, <6>3 DEF Of
            <7>2. PICK i \in DOMAIN s.groups[f].ids : m = <<f, s.groups[f].ids[i]>>
              BY <4>4, <7>1
            <7> QED  BY <4>1, <7>1, <7>2
          <6> QED  BY <6>2, <6>3
        <5>2. ASSUME NEW i \in DOMAIN g.ids PROVE <<f, g.ids[i]>> \in Of(j2, f)
          <6> DEFINE m == <<f, g.ids[i]>>
          <6>1. m[1] = f  OBVIOUS
          <6>2. m \in B \/ (was(f) /\ m \in Of(j, f))  BY <4>1, <4>4
          <6> HIDE DEF m, j2
          <6>3. m \in Of(j2, f)  BY <4>6, <6>1, <6>2 DEF Of
          <6> QED  BY <6>3 DEF m
        <5> HIDE DEF j2
        <5> QED  BY <5>1, <5>2
      <4>8. \A i \in DOMAIN g.ids : <<f, g.ids[i]>> \in e2 <=> g.progress.members[i] = "Completed"
        <5> SUFFICES ASSUME NEW i \in DOMAIN g.ids
                     PROVE  <<f, g.ids[i]>> \in e2 <=> g.progress.members[i] = "Completed"
          OBVIOUS
        <5> DEFINE m == <<f, g.ids[i]>>
        <5>1. CASE m \in B
          <6>1. g.progress.members[i] = "Running"  BY <4>1, <5>1
          <6>2. m \notin e2  BY <5>1
          <6> QED  BY <6>1, <6>2
        <5>2. CASE m \notin B
          <6>1. /\ was(f) /\ i \in DOMAIN s.groups[f].ids /\ g.ids[i] = s.groups[f].ids[i]
                /\ g.progress.members[i] = s.groups[f].progress.members[i]
            BY <4>1, <5>2
          <6>2. m \in e <=> g.progress.members[i] = "Completed"  BY <4>4, <6>1
          <6>3. m[1] = f  OBVIOUS
          <6> HIDE DEF m
          <6>4. m \in e2 <=> m \in e  BY <1>5, <5>2, <6>1, <6>3
          <6> QED  BY <6>2, <6>4 DEF m
        <5> QED  BY <5>1, <5>2
      <4> HIDE DEF j2, e2, b2
      <4>9. Remembers(r, f, j2, e2, b2)
        BY <3>2, <3>5, <4>5, <4>7, <4>8 DEF Remembers, g
      <4> QED  BY <4>3, <4>9
    <3>6. status \in {"Pending", "Failed"}  BY <3>1 DEF Joins
    <3> QED  BY <3>4, <3>5, <3>6
  <2> QED  BY <2>2, <2>3, <2>4
<1> HIDE DEF j2, e2, b2, known
<1>9. Fenced(r, j2, e2, b2)  BY <1>3, <1>6, <1>7, <1>8 DEF Fenced
<1> QED  BY <1>9 DEF j2, e2, b2, old, B, fresh, lost
-------------------------------------------------------------------------------
(* finish_fences. *)

LEMMA FinishLabels ==
  ASSUME NEW s, NEW j, NEW e, NEW b, Fenced(s, j, e, b),
         NEW d, Staged(d), d.fences = s.fences, d.groups = s.groups, NEW F
  PROVE  LET now == Candidates(d, F)
             done == Completed(d, F)
         IN /\ now = {f \in F : f \in DOMAIN s.fences /\ s.fences[f] = "Pending"}
            /\ done = {f \in now : FinishGroup(d, f).progress.terminal = "Completed"}
            /\ \A f \in now : FinishedGroup(d, f, s.groups[f], FinishGroup(d, f))
            /\ Relabelled(d, Insert(s.fences, [f \in done |-> "Completed"]),
                          Insert(s.groups, [f \in now |-> FinishGroup(d, f)]), FinishFences(d, F))
<1> DEFINE now == Candidates(d, F)
           done == Completed(d, F)
           H(f) == FinishGroup(d, f)
           F2 == Insert(s.fences, [f \in done |-> "Completed"])
           G2 == Insert(s.groups, [f \in now |-> H(f)])
           r == FinishFences(d, F)
<1>1. Typed(d)  BY TypedIs DEF Staged
<1>2. /\ DOMAIN s.groups = DOMAIN s.fences /\ DOMAIN s.fences \subseteq Fence
      /\ \A f \in DOMAIN s.fences :
           Grouped(s.groups[f]) /\ Follows(s, f) /\ s.fences[f] \in Status
  BY <1>1 DEF Fenced, Typed
<1>3. now = {f \in F : f \in DOMAIN s.fences /\ s.fences[f] = "Pending"}
  BY <1>2 DEF Candidates, StatusOf
<1>4. done = {f \in now : H(f).progress.terminal = "Completed"}  BY DEF Completed
<1>5. \A f \in now : FinishedGroup(d, f, s.groups[f], H(f))
  <2> SUFFICES ASSUME NEW f \in now PROVE FinishedGroup(d, f, s.groups[f], H(f))  OBVIOUS
  <2>1. f \in DOMAIN s.fences /\ s.fences[f] = "Pending"  BY <1>3
  <2>2. /\ Grouped(s.groups[f]) /\ s.groups[f].progress.terminal = None
        /\ \A i \in DOMAIN s.groups[f].ids : s.groups[f].progress.members[i] # "Cancelled"
    BY <1>2, <2>1 DEF Follows
  <2> QED  BY <2>2, FinishGroupFacts
<1> HIDE DEF now, done, H
<1>6. r = [entry |-> d.entry, queued |-> d.queued, fences |-> F2, groups |-> G2,
           activated |-> d.activated, failed |-> d.failed]
  <2> DEFINE m == [d EXCEPT !.groups = Insert(@, [f \in now |-> H(f)])]
  <2>1. r = SetFences(m, done, "Completed")  BY DEF FinishFences, now, done, H
  <2> HIDE DEF G2
  <2>2. m = [d EXCEPT !.groups = G2]  BY DEF G2
  <2> HIDE DEF m
  <2>3. m = [entry |-> d.entry, queued |-> d.queued, fences |-> d.fences, groups |-> G2,
             activated |-> d.activated, failed |-> d.failed]
    BY <1>1, <2>2 DEF Typed
  <2>4. r = [m EXCEPT !.fences = F2]  BY <2>1, <2>3 DEF SetFences
  <2> HIDE DEF r, F2
  <2> QED  BY <2>3, <2>4
<1>7. F2 \in [DOMAIN F2 -> Status] /\ DOMAIN F2 \subseteq Fence
  <2>1. /\ DOMAIN F2 = DOMAIN s.fences \cup done /\ F2 = [f \in DOMAIN F2 |-> F2[f]]
        /\ \A f \in DOMAIN F2 : F2[f] = IF f \in done THEN "Completed" ELSE s.fences[f]
    BY DEF Insert
  <2> HIDE DEF F2
  <2>2. done \subseteq DOMAIN s.fences  BY <1>3, <1>4
  <2>3. \A f \in DOMAIN F2 : F2[f] \in Status  BY <1>2, <2>1, <2>2 DEF Status
  <2> QED  BY <1>2, <2>1, <2>2, <2>3
<1>8. G2 \in [DOMAIN G2 -> GroupState] /\ DOMAIN G2 \subseteq Fence
  <2>1. /\ DOMAIN G2 = DOMAIN s.groups \cup now /\ G2 = [f \in DOMAIN G2 |-> G2[f]]
        /\ \A f \in DOMAIN G2 : G2[f] = IF f \in now THEN H(f) ELSE s.groups[f]
    BY DEF Insert
  <2> HIDE DEF G2
  <2>2. now \subseteq DOMAIN s.fences  BY <1>3
  <2>3. \A f \in DOMAIN G2 : G2[f] \in GroupState
    BY <1>2, <1>5, <2>1, <2>2 DEF FinishedGroup, Grouped
  <2> QED  BY <1>2, <2>1, <2>2, <2>3
<1> HIDE DEF F2, G2, r
<1>9. Relabelled(d, F2, G2, r)  BY <1>6, <1>7, <1>8, RelabelFacts
<1> QED  BY <1>3, <1>4, <1>5, <1>9 DEF now, done, H, F2, G2, r

(* The fences of what has ended are seen to. *)
SeenTo(d, j, e, b, r) ==
  /\ Staged(r) /\ Live(r) = Live(d)
  /\ r.activated = d.activated /\ r.failed = d.failed
  /\ \A q \in Region : Behind(d, q) => Behind(r, q)
  /\ Fenced(r, j, e, b)

LEMMA EndingFacts ==
  ASSUME NEW s, Staged(s), NEW j, NEW e, NEW b, Fenced(s, j, e, b),
         NEW T \in SUBSET Shown(s), NEW d, Staged(d), Live(d) = Live(s) \ Lost(s, T),
         d.fences = s.fences, d.groups = s.groups
  PROVE  SeenTo(d, j, e \cup Lost(s, T), b, FinishFences(d, FencesOf(Lost(s, T))))
<1> DEFINE L == Lost(s, T)
           F == FencesOf(L)
           r == FinishFences(d, F)
           e2 == e \cup L
           now == Candidates(d, F)
           done == Completed(d, F)
           H(f) == FinishGroup(d, f)
<1>1. L \subseteq Live(s) /\ s \in Coordinator
  <2>1. Lost(s, T) \subseteq MembersIn(s.entry)  BY DEF Lost, MembersIn, Shown
  <2>2. s \in Coordinator  BY DEF Staged
  <2> QED  BY <2>1, <2>2, LiveIs
<1>2. \A f : f \in F <=> \E m \in L : m[1] = f  BY DEF FencesOf
<1> HIDE DEF L, F
<1>3. /\ now = {f \in F : f \in DOMAIN s.fences /\ s.fences[f] = "Pending"}
      /\ done = {f \in now : H(f).progress.terminal = "Completed"}
      /\ \A f \in now : FinishedGroup(d, f, s.groups[f], H(f))
      /\ Relabelled(d, Insert(s.fences, [f \in done |-> "Completed"]),
                    Insert(s.groups, [f \in now |-> H(f)]), r)
  BY FinishLabels
<1> HIDE DEF now, done, H, r
<1>4. /\ DOMAIN s.groups = DOMAIN s.fences /\ FencesOf(Live(s)) \subseteq DOMAIN s.fences
      /\ j \subseteq Fence \X Ids /\ FencesOf(j) = DOMAIN s.fences
      /\ \A f \in DOMAIN s.fences :
           Grouped(s.groups[f]) /\ Follows(s, f) /\ Remembers(s, f, j, e, b)
  BY DEF Fenced
<1>5. /\ Staged(r) /\ Live(r) = Live(d)
      /\ r.activated = d.activated /\ r.failed = d.failed
      /\ \A q \in Region : Behind(d, q) => Behind(r, q)
      /\ r.fences = Insert(s.fences, [f \in done |-> "Completed"])
      /\ r.groups = Insert(s.groups, [f \in now |-> H(f)])
  BY <1>3 DEF Relabelled
<1>6. now \subseteq DOMAIN s.fences /\ done \subseteq now  BY <1>3
<1>7. /\ DOMAIN r.fences = DOMAIN s.fences /\ DOMAIN r.groups = DOMAIN s.fences
      /\ \A f \in DOMAIN s.fences :
           /\ r.fences[f] = IF f \in done THEN "Completed" ELSE s.fences[f]
           /\ r.groups[f] = IF f \in now THEN H(f) ELSE s.groups[f]
  BY <1>4, <1>5, <1>6 DEF Insert
<1>8. ASSUME NEW f \in DOMAIN s.fences PROVE Grouped(r.groups[f]) /\ Follows(r, f) /\ Remembers(r, f, j, e2, b)
  <2> DEFINE g == s.groups[f]
             h == r.groups[f]
  <2>1. Grouped(g) /\ Follows(s, f) /\ Remembers(s, f, j, e, b)  BY <1>4
  <2>2. CASE f \notin F
    <3>1. r.fences[f] = s.fences[f] /\ h = g  BY <1>3, <1>7, <2>2
    <3>2. \A m : m[1] = f => (m \in Live(r) <=> m \in Live(s)) /\ (m \in e2 <=> m \in e)
      BY <1>2, <1>5, <2>2 DEF L
    <3>3. f \in FencesOf(Live(r)) <=> f \in FencesOf(Live(s))  BY <3>2 DEF FencesOf
    <3>4. \A i \in DOMAIN g.ids : /\ <<f, g.ids[i]>> \in Live(r) <=> <<f, g.ids[i]>> \in Live(s)
                                  /\ <<f, g.ids[i]>> \in e2 <=> <<f, g.ids[i]>> \in e
      <4>1. \A v : <<f, v>>[1] = f  OBVIOUS
      <4> HIDE DEF e2
      <4> QED  BY <3>2, <4>1
    <3>5. \A m \in Live(r) : m[1] = f => m \in Live(s)  BY <3>2
    <3>6. Of(j, f) \subseteq e => Of(j, f) \subseteq e2  OBVIOUS
    <3> HIDE DEF g, h, e2
    <3>7. Follows(r, f)  BY <2>1, <3>1, <3>3, <3>4, <3>5 DEF Follows, g, h
    <3>8. Remembers(r, f, j, e2, b)  BY <2>1, <3>1, <3>4, <3>6 DEF Remembers, g, h
    <3> QED  BY <2>1, <3>1, <3>7, <3>8 DEF h
  <2>3. CASE f \in F /\ s.fences[f] # "Pending"
    <3>1. r.fences[f] = s.fences[f] /\ h = g  BY <1>3, <1>7, <2>3
    <3>2. f \in FencesOf(Live(s))
      <4>1. PICK m \in L : m[1] = f  BY <1>2, <2>3
      <4> QED  BY <1>1, <4>1 DEF FencesOf
    <3>3. s.fences[f] # "Completed"  BY <2>1, <3>2 DEF Follows
    <3> HIDE DEF g, h, e2
    <3>4. Follows(r, f)  BY <2>1, <2>3, <3>1, <3>3 DEF Follows, g, h
    <3>5. Remembers(r, f, j, e2, b)  BY <2>1, <2>3, <3>1, <3>3 DEF Remembers, g, h
    <3> QED  BY <2>1, <3>1, <3>4, <3>5 DEF h
  <2>4. CASE f \in F /\ s.fences[f] = "Pending"
    <3>1. f \in now /\ h = H(f)  BY <1>3, <1>7, <2>4
    <3>2. /\ Grouped(h) /\ h.ids = g.ids
          /\ \A i \in DOMAIN g.ids :
               h.progress.members[i] = IF g.progress.members[i] = "Running" /\ <<f, g.ids[i]>> \notin Live(d)
                                         THEN "Completed" ELSE g.progress.members[i]
          /\ h.progress.terminal = IF \E i \in DOMAIN g.ids : h.progress.members[i] = "Running"
                                     THEN None ELSE "Completed"
      <4>1. FinishedGroup(d, f, g, H(f))  BY <1>3, <3>1
      <4>2. FinishedGroup(d, f, g, h)  BY <3>1, <4>1
      <4> HIDE DEF g, h
      <4> QED  BY <4>2 DEF FinishedGroup
    <3>3. /\ \A i \in DOMAIN g.ids : /\ g.progress.members[i] # "Cancelled"
                                     /\ g.progress.members[i] = "Running" <=> <<f, g.ids[i]>> \in Live(s)
          /\ \A m \in Live(s) : m[1] = f => \E i \in DOMAIN g.ids : m = <<f, g.ids[i]>>
      BY <2>1, <2>4 DEF Follows
    <3>4. /\ f \notin b /\ Of(j, f) = {<<f, g.ids[i]>> : i \in DOMAIN g.ids}
          /\ \A i \in DOMAIN g.ids : <<f, g.ids[i]>> \in e <=> g.progress.members[i] = "Completed"
      BY <2>1, <2>4 DEF Remembers
    <3>5. \A i \in DOMAIN g.ids : g.progress.members[i] \in {"Running", "Completed"}
      BY <2>1, <3>3 DEF Grouped
    <3> HIDE DEF g, h
    <3>6. \A i \in DOMAIN g.ids :
            /\ h.progress.members[i] \in {"Running", "Completed"}
            /\ h.progress.members[i] = "Running" <=> <<f, g.ids[i]>> \in Live(r)
            /\ <<f, g.ids[i]>> \in e2 <=> h.progress.members[i] = "Completed"
      <4> SUFFICES ASSUME NEW i \in DOMAIN g.ids
                   PROVE  /\ h.progress.members[i] \in {"Running", "Completed"}
                          /\ h.progress.members[i] = "Running" <=> <<f, g.ids[i]>> \in Live(r)
                          /\ <<f, g.ids[i]>> \in e2 <=> h.progress.members[i] = "Completed"
        OBVIOUS
      <4> DEFINE m == <<f, g.ids[i]>>
                 v == g.progress.members[i]
                 w == h.progress.members[i]
      <4>1. w = IF v = "Running" /\ m \notin Live(d) THEN "Completed" ELSE v  BY <3>2
      <4>2. v \in {"Running", "Completed"} /\ (v = "Running" <=> m \in Live(s))  BY <3>3, <3>5
      <4>3. m \in e <=> v = "Completed"  BY <3>4
      <4>4. Live(r) = Live(s) \ L /\ Live(d) = Live(r)  BY <1>5 DEF L
      <4> HIDE DEF m, v, w
      <4>5. w \in {"Running", "Completed"} /\ (w = "Running" <=> m \in Live(r))
            /\ (m \in e \cup L <=> w = "Completed")
        BY <1>1, <4>1, <4>2, <4>3, <4>4
      <4> QED  BY <4>5 DEF m, w
    <3> HIDE DEF e2
    <3>7. CASE h.progress.terminal = "Completed"
      <4>1. f \in done /\ r.fences[f] = "Completed"  BY <1>3, <1>7, <3>1, <3>7
      <4>2. ~ \E i \in DOMAIN g.ids : h.progress.members[i] = "Running"  BY <3>2, <3>7 DEF None
      <4>3. f \notin FencesOf(Live(r))
        <5> SUFFICES ASSUME NEW m \in Live(r), m[1] = f PROVE FALSE  BY DEF FencesOf
        <5>1. m \in Live(s)  BY <1>5
        <5>2. PICK i \in DOMAIN g.ids : m = <<f, g.ids[i]>>  BY <3>3, <5>1
        <5> QED  BY <3>6, <4>2, <5>2
      <4>4. Of(j, f) \subseteq e2  BY <3>4, <3>6, <4>2
      <4>5. Follows(r, f)  BY <3>7, <4>1, <4>3 DEF Follows, h
      <4>6. Remembers(r, f, j, e2, b)  BY <3>4, <4>1, <4>4 DEF Remembers
      <4> QED  BY <3>2, <4>5, <4>6 DEF h
    <3>8. CASE h.progress.terminal # "Completed"
      <4>1. r.fences[f] = "Pending"  BY <1>3, <1>7, <2>4, <3>1, <3>8
      <4>2. h.progress.terminal = None  BY <3>2, <3>8
      <4>3. \A m \in Live(r) : m[1] = f => \E i \in DOMAIN g.ids : m = <<f, g.ids[i]>>
        BY <1>5, <3>3
      <4>4. Follows(r, f)  BY <3>2, <3>6, <4>1, <4>2, <4>3 DEF Follows, h
      <4>5. Remembers(r, f, j, e2, b)  BY <3>2, <3>4, <3>6, <4>1 DEF Remembers, h
      <4> QED  BY <3>2, <4>4, <4>5 DEF h
    <3> QED  BY <3>7, <3>8
  <2> QED  BY <2>2, <2>3, <2>4
<1>9. FencesOf(Live(r)) \subseteq DOMAIN r.fences  BY <1>4, <1>5, <1>7 DEF FencesOf
<1> HIDE DEF e2
<1>10. Fenced(r, j, e2, b)  BY <1>4, <1>7, <1>8, <1>9 DEF Fenced
<1> QED  BY <1>5, <1>10 DEF e2, L, F, r, SeenTo
-------------------------------------------------------------------------------
(* Calls that complete no fence. *)

(* Members of failed fences may go. *)
LEMMA KeepsFences ==
  ASSUME NEW s, NEW j, NEW e, NEW b, Fenced(s, j, e, b),
         NEW d, d.fences = s.fences, d.groups = s.groups, Live(d) \subseteq Live(s),
         \A m \in Live(s) \ Live(d) : s.fences[m[1]] = "Failed"
  PROVE  Fenced(d, j, e, b)
<1>1. /\ DOMAIN s.groups = DOMAIN s.fences /\ FencesOf(Live(s)) \subseteq DOMAIN s.fences
      /\ j \subseteq Fence \X Ids /\ FencesOf(j) = DOMAIN s.fences
      /\ \A f \in DOMAIN s.fences :
           Grouped(s.groups[f]) /\ Follows(s, f) /\ Remembers(s, f, j, e, b)
  BY DEF Fenced
<1>2. FencesOf(Live(d)) \subseteq FencesOf(Live(s))  BY DEF FencesOf
<1>3. ASSUME NEW f \in DOMAIN s.fences PROVE Follows(d, f) /\ Remembers(d, f, j, e, b)
  <2>1. Follows(s, f) /\ Remembers(s, f, j, e, b)  BY <1>1
  <2>2. s.fences[f] = "Pending" => \A m : m[1] = f => (m \in Live(d) <=> m \in Live(s))
    OBVIOUS
  <2>3. s.fences[f] = "Pending" => \A i \in DOMAIN s.groups[f].ids :
          <<f, s.groups[f].ids[i]>> \in Live(d) <=> <<f, s.groups[f].ids[i]>> \in Live(s)
    <3>1. \A v : <<f, v>>[1] = f  OBVIOUS
    <3> QED  BY <2>2, <3>1
  <2>4. Follows(d, f)  BY <1>2, <2>1, <2>3 DEF Follows
  <2>5. Remembers(d, f, j, e, b)  BY <2>1 DEF Remembers
  <2> QED  BY <2>4, <2>5
<1> QED  BY <1>1, <1>2, <1>3 DEF Fenced

(* A group that is made to fail. *)
LEMMA FailFacts ==
  ASSUME NEW s, Staged(s), NEW j, NEW e, NEW b, Fenced(s, j, e, b), NEW f \in FencesOf(Live(s))
  PROVE  LET r == SetFences(CancelGroups(s, {f}), {f}, "Failed") IN
         /\ Staged(r) /\ Live(r) = Live(s) /\ r.entry = s.entry
         /\ r.failed = s.failed
         /\ \A q \in Region : Behind(s, q) => Behind(r, q)
         /\ Fenced(r, j, e, b \cup {f}) /\ r.fences[f] = "Failed"
<1> DEFINE r == SetFences(CancelGroups(s, {f}), {f}, "Failed")
           G == [g \in DOMAIN s.groups |-> IF g \in {f} THEN [s.groups[g] EXCEPT !.progress = CancelProgress(@)]
                                           ELSE s.groups[g]]
           F == Insert(s.fences, [g \in {f} |-> "Failed"])
           b2 == b \cup {f}
<1>1. Typed(s)  BY TypedIs DEF Staged
<1>2. /\ DOMAIN s.groups = DOMAIN s.fences /\ FencesOf(Live(s)) \subseteq DOMAIN s.fences
      /\ j \subseteq Fence \X Ids /\ FencesOf(j) = DOMAIN s.fences
      /\ DOMAIN s.fences \subseteq Fence
      /\ \A g \in DOMAIN s.fences :
           /\ Grouped(s.groups[g]) /\ Follows(s, g) /\ Remembers(s, g, j, e, b)
           /\ s.fences[g] \in Status
  BY <1>1 DEF Fenced, Typed
<1>3. r = [entry |-> s.entry, queued |-> s.queued, fences |-> F, groups |-> G,
           activated |-> s.activated, failed |-> s.failed]
  <2> DEFINE m == CancelGroups(s, {f})
  <2>1. r = SetFences(m, {f}, "Failed")  OBVIOUS
  <2>2. m = [s EXCEPT !.groups = G]  BY DEF CancelGroups
  <2> HIDE DEF m, G
  <2>3. m = [entry |-> s.entry, queued |-> s.queued, fences |-> s.fences, groups |-> G,
             activated |-> s.activated, failed |-> s.failed]
    BY <1>1, <2>2 DEF Typed
  <2>4. r = [m EXCEPT !.fences = F]  BY <2>1, <2>3 DEF SetFences
  <2> HIDE DEF r, F
  <2> QED  BY <2>3, <2>4
<1>4. f \in DOMAIN s.fences  BY <1>2
<1>5. s.groups[f].progress.terminal \in {None, "Cancelled"}
  <2>1. Follows(s, f) /\ s.fences[f] \in Status  BY <1>2, <1>4
  <2> QED  BY <2>1 DEF Follows, Status
<1>6. /\ DOMAIN G = DOMAIN s.fences /\ G = [g \in DOMAIN G |-> G[g]]
      /\ \A g \in DOMAIN s.fences : Grouped(G[g]) /\ (g # f => G[g] = s.groups[g])
      /\ G[f].progress.terminal = "Cancelled"
  <2>1. /\ DOMAIN G = DOMAIN s.groups /\ G = [g \in DOMAIN G |-> G[g]]
        /\ \A g \in DOMAIN s.groups : g # f => G[g] = s.groups[g]
        /\ f \in DOMAIN s.groups => G[f] = [s.groups[f] EXCEPT !.progress = CancelProgress(@)]
    OBVIOUS
  <2> HIDE DEF G
  <2> DEFINE h == s.groups[f]
             k == [h EXCEPT !.progress = CancelProgress(@)]
  <2>a. Grouped(h) /\ h.progress.terminal \in {None, "Cancelled"} /\ G[f] = k
    BY <1>2, <1>4, <1>5, <2>1
  <2> HIDE DEF h
  <2>b. Grouped(k) /\ k.progress.terminal = "Cancelled"  BY <2>a, CancelGroup
  <2>2. Grouped(G[f]) /\ G[f].progress.terminal = "Cancelled"  BY <2>a, <2>b
  <2> QED  BY <1>2, <2>1, <2>2
<1>7. /\ DOMAIN F = DOMAIN s.fences /\ F = [g \in DOMAIN F |-> F[g]]
      /\ \A g \in DOMAIN s.fences : F[g] = IF g = f THEN "Failed" ELSE s.fences[g]
  BY <1>4 DEF Insert
<1> HIDE DEF F, G
<1>8. F \in [DOMAIN F -> Status] /\ DOMAIN F \subseteq Fence
  <2>1. \A g \in DOMAIN F : F[g] \in Status  BY <1>2, <1>7 DEF Status
  <2> QED  BY <1>2, <1>7, <2>1
<1>9. G \in [DOMAIN G -> GroupState] /\ DOMAIN G \subseteq Fence
  <2>1. \A g \in DOMAIN G : G[g] \in GroupState  BY <1>2, <1>6 DEF Grouped
  <2> QED  BY <1>2, <1>6, <2>1
<1> HIDE DEF r
<1>10. Relabelled(s, F, G, r)  BY <1>3, <1>8, <1>9, RelabelFacts
<1>11. r.fences = F /\ r.groups = G /\ Live(r) = Live(s)  BY <1>10 DEF Relabelled
<1>12. ASSUME NEW g \in DOMAIN s.fences PROVE Follows(r, g) /\ Remembers(r, g, j, e, b2)
  <2>1. Follows(s, g) /\ Remembers(s, g, j, e, b)  BY <1>2
  <2>2. g \in b2 <=> g = f \/ g \in b  OBVIOUS
  <2> HIDE DEF b2
  <2>3. CASE g = f
    <3>1. r.fences[g] = "Failed" /\ r.groups[g].progress.terminal = "Cancelled"
      BY <1>4, <1>6, <1>7, <1>11, <2>3
    <3> QED  BY <2>2, <2>3, <3>1 DEF Follows, Remembers
  <2>4. CASE g # f
    <3>1. r.fences[g] = s.fences[g] /\ r.groups[g] = s.groups[g]
      BY <1>6, <1>7, <1>11, <2>4
    <3>2. Follows(r, g)  BY <1>11, <2>1, <3>1 DEF Follows
    <3>3. Remembers(r, g, j, e, b2)  BY <2>1, <2>2, <2>4, <3>1 DEF Remembers
    <3> QED  BY <3>2, <3>3
  <2> QED  BY <2>3, <2>4
<1> HIDE DEF b2
<1>13. Fenced(r, j, e, b2)  BY <1>2, <1>6, <1>7, <1>11, <1>12 DEF Fenced
<1>14. r.fences[f] = "Failed"  BY <1>4, <1>7, <1>11
<1> QED  BY <1>10, <1>13, <1>14 DEF Relabelled, b2, r
-------------------------------------------------------------------------------
(* A queue drained leaves the others behind what they wait for. *)

LEMMA DrainedBehind ==
  ASSUME NEW s, Staged(s), NEW r \in Region, NEW d, Drained(s, r, d),
         NEW p \in Region, p = r \/ Behind(s, p)
  PROVE  Behind(d, p)
<1>1. CASE p = r  BY <1>1 DEF Drained
<1>2. CASE p # r /\ Behind(s, p)
  <2> SUFFICES ASSUME NEW i \in DOMAIN s.queued[p] PROVE Busy(d, s.queued[p][i].target)
    BY <1>2 DEF Behind, Drained
  <2> DEFINE u == s.queued[p][i].target
  <2>1. RegionOf[u] = p
    <3>1. Queues(s.queued)  BY DEF Staged
    <3> QED  BY <3>1 DEF Queues
  <2>2. Busy(s, u)  BY <1>2 DEF Behind
  <2> HIDE DEF u
  <2>3. u \in Shown(s) /\ Runs(u, s.entry[u])  BY <2>2, BusyIs
  <2>4. u \in Shown(d) /\ d.entry[u] = s.entry[u]  BY <1>2, <2>1, <2>3 DEF Drained
  <2>5. Busy(d, u)  BY <2>3, <2>4, BusyIs
  <2> QED  BY <2>5 DEF u
<1> QED  BY <1>1, <1>2

(* A call after which queues are drained. *)
Cleared(s, T, d) ==
  /\ Staged(d) /\ Live(d) = Live(s) \ Lost(s, T)
  /\ d.fences = s.fences /\ d.groups = s.groups
  /\ ~ d.failed /\ Len(d.activated) <= MaxQueue
  /\ Patient(s) => Patient(d)

LEMMA EndVideoFacts ==
  ASSUME NEW s, Staged(s), NEW t \in Shown(s), RegionOf[t] = "Video",
         NEW phase \in {"Ended", "Failed"}, ~ EndVideo(s, t, phase).failed
  PROVE  /\ Cleared(s, {t}, EndVideo(s, t, phase))
         /\ \E m : /\ Staged(m) /\ Rests(s, m) /\ EndVideo(s, t, phase) = Drain(m, "Video")
                 /\ \A u \in Shown(s) \ {t} : u \in Shown(m) /\ m.entry[u] = s.entry[u]
<1> DEFINE b == s.entry[t]
           e == [b EXCEPT !.phase = phase, !.fence = NoFence]
           m == [s EXCEPT !.entry[t] = e]
           d == Drain(m, "Video")
           r == EndVideo(s, t, phase)
<1>1. r = CheckActivated(d)  BY DEF EndVideo
<1>2. b \in EntryState /\ "Video" \in Region  BY TypedIs DEF Staged, Typed, Region
<1> HIDE DEF r, d, m, b
<1>3. e = [id |-> b.id, fence |-> NoFence, left |-> b.left, phase |-> phase, tasks |-> b.tasks]
  <2> DEFINE o == [b EXCEPT !.phase = phase]
  <2>1. o = [id |-> b.id, fence |-> b.fence, left |-> b.left, phase |-> phase, tasks |-> b.tasks]
    BY <1>2 DEF EntryState
  <2>2. e = [o EXCEPT !.fence = NoFence]  OBVIOUS
  <2> HIDE DEF o, e
  <2> QED  BY <2>1, <2>2
<1> HIDE DEF e
<1>4. e \in EntryState  BY <1>2, <1>3 DEF EntryState
<1>5. Performs(t, e) /\ MemberOf(e) = {}  BY <1>3 DEF Performs, MemberOf
<1>6. Changed(s, t, e, m)  BY <1>4, <1>5, ChangeFacts DEF m
<1>7. /\ Staged(m) /\ Live(m) = Live(s) \ Lost(s, {t})
      /\ m.fences = s.fences /\ m.groups = s.groups
      /\ \A p \in Region : Behind(s, p) /\ p # "Video" => Behind(m, p)
  BY <1>5, <1>6 DEF Changed
<1>8. Drained(m, "Video", d)  BY <1>2, <1>7, DrainFacts DEF d
<1>9. Staged(d) /\ Live(d) = Live(m) /\ d.fences = m.fences /\ d.groups = m.groups
  BY <1>8 DEF Drained
<1>10. d \in Coordinator /\ ~ CheckActivated(d).failed  BY <1>1, <1>9 DEF Staged, r
<1>11. r = d /\ ~ d.failed /\ Len(d.activated) <= MaxQueue  BY <1>1, <1>10, CheckFacts
<1>12. ASSUME Patient(s) PROVE Patient(d)
  <2>1. \A p \in Region : Behind(s, p) => Behind(d, p)
    BY <1>2, <1>7, <1>8, DrainedBehind
  <2> QED  BY <1>12, <2>1 DEF Patient
<1>13. Cleared(s, {t}, r)  BY <1>7, <1>9, <1>11, <1>12 DEF Cleared
<1>14. m.entry[t].id = s.entry[t].id  BY <1>3, <1>6 DEF Changed, b
<1>15. Rests(s, m) /\ \A u \in Shown(s) \ {t} : u \in Shown(m) /\ m.entry[u] = s.entry[u]
  BY <1>6, <1>14 DEF Changed, Rests, Moving
<1> QED  BY <1>7, <1>11, <1>13, <1>15 DEF r, d

LEMMA TickFacts ==
  ASSUME NEW s, Staged(s), ~ BeforeFinish(s).failed
  PROVE  Cleared(s, EndsInFrame(s), BeforeFinish(s))
<1> DEFINE m == Elapse(s)
           d1 == Drain(m, "Character")
           d2 == Drain(d1, "Background")
           d == Drain(d2, "Video")
           r == BeforeFinish(s)
<1>1. r = CheckActivated(d)  BY DEF BeforeFinish, DrainInTick
<1>2. /\ Staged(m) /\ Live(m) = Live(s) \ Lost(s, EndsInFrame(s))
      /\ m.fences = s.fences /\ m.groups = s.groups
      /\ Behind(s, "Text") => Behind(m, "Text")
  BY ElapseFacts
<1>3. {"Character", "Background", "Text", "Video"} = Region  BY DEF Region
<1> HIDE DEF r, d, d1, d2, m
<1>4. Drained(m, "Character", d1)  BY <1>2, <1>3, DrainFacts DEF d1
<1>5. Staged(d1) /\ Live(d1) = Live(m) /\ d1.fences = m.fences /\ d1.groups = m.groups
  BY <1>4 DEF Drained
<1>6. Drained(d1, "Background", d2)  BY <1>3, <1>5, DrainFacts DEF d2
<1>7. Staged(d2) /\ Live(d2) = Live(m) /\ d2.fences = m.fences /\ d2.groups = m.groups
  BY <1>5, <1>6 DEF Drained
<1>8. Drained(d2, "Video", d)  BY <1>3, <1>7, DrainFacts DEF d
<1>9. Staged(d) /\ Live(d) = Live(m) /\ d.fences = m.fences /\ d.groups = m.groups
  BY <1>7, <1>8 DEF Drained
<1>10. d \in Coordinator /\ ~ CheckActivated(d).failed  BY <1>1, <1>9 DEF Staged, r
<1>11. r = d /\ ~ d.failed /\ Len(d.activated) <= MaxQueue  BY <1>1, <1>10, CheckFacts
<1>12. ASSUME Patient(s) PROVE Patient(d)
  <2>1. Behind(m, "Text")  BY <1>2, <1>3, <1>12 DEF Patient
  <2>2. Behind(d1, "Text") /\ Behind(d1, "Character")
    BY <1>2, <1>3, <1>4, <2>1, DrainedBehind
  <2>3. Behind(d2, "Text") /\ Behind(d2, "Character") /\ Behind(d2, "Background")
    BY <1>3, <1>5, <1>6, <2>2, DrainedBehind
  <2>4. \A p \in {"Character", "Background", "Text", "Video"} : Behind(d, p)
    BY <1>3, <1>7, <1>8, <2>3, DrainedBehind
  <2> QED  BY <1>3, <2>4 DEF Patient
<1>13. Cleared(s, EndsInFrame(s), r)  BY <1>2, <1>9, <1>11, <1>12 DEF Cleared
<1> QED  BY <1>13 DEF r

LEMMA AcknowledgeFacts ==
  ASSUME NEW s, Staged(s), NEW t \in Shown(s), RegionOf[t] = "Text", CanAcknowledge(s, t),
         ~ AcknowledgeText(s, t).failed
  PROVE  /\ Cleared(s, {t}, AcknowledgeText(s, t)) /\ Lost(s, {t}) = {}
         /\ \E m : Staged(m) /\ Rests(s, m) /\ AcknowledgeText(s, t) = Drain(m, "Text")
<1> DEFINE rest == [x \in Shown(s) \ {t} |-> s.entry[x]]
           m == [s EXCEPT !.entry = rest]
           d == Drain(m, "Text")
           r == AcknowledgeText(s, t)
<1>1. r = CheckActivated(d)  BY DEF AcknowledgeText
<1>2. Typed(s) /\ "Text" \in Region  BY TypedIs DEF Staged, Region
<1>3. Performs(t, s.entry[t]) /\ s.entry[t].left = 0
  BY DEF CanAcknowledge, Staged, Performing, Shown
<1>4. Lost(s, {t}) = {}  BY <1>3 DEF Performs, Lost, MemberOf
<1>5. /\ DOMAIN rest = Shown(s) \ {t} /\ \A x \in Shown(s) \ {t} : rest[x] = s.entry[x]
  OBVIOUS
<1>6. rest \in [DOMAIN rest -> EntryState] /\ DOMAIN rest \subseteq Target
  BY <1>2 DEF Typed
<1> HIDE DEF r, d, rest
<1>7. /\ m = [entry |-> m.entry, queued |-> m.queued, fences |-> s.fences, groups |-> s.groups,
              activated |-> m.activated, failed |-> m.failed]
      /\ m.entry = rest /\ m.queued = s.queued /\ m.fences = s.fences /\ m.groups = s.groups
      /\ m.activated = s.activated /\ m.failed = s.failed
  BY <1>2 DEF Typed
<1> HIDE DEF m
<1>8. Shown(m) = Shown(s) \ {t}  BY <1>5, <1>7 DEF Shown
<1>9. m \in Coordinator
  <2>1. m.queued \in [Region -> Seq(Commands)] /\ m.activated \in Seq(Ids) /\ m.failed \in BOOLEAN
    BY <1>2, <1>7 DEF Typed
  <2>2. m.entry \in [Shown(m) -> EntryState] /\ Shown(m) \subseteq Target
    BY <1>5, <1>6, <1>7, <1>8
  <2> QED  BY <1>2, <1>7, <2>1, <2>2, FieldsOf
<1>10. Performing(m.entry)
  <2>1. IsFiniteSet(Shown(s)) /\ \A x \in Shown(s) : Performs(x, s.entry[x])
    BY DEF Staged, Performing, Shown
  <2>2. IsFiniteSet(Shown(s) \ {t})  BY <2>1, FS_RemoveElement
  <2> QED  BY <1>5, <1>7, <2>1, <2>2 DEF Performing
<1>11. Staged(m) /\ Live(m) = Live(s) \ Lost(s, {t})
  <2> DEFINE T == {t}
  <2>1. T \in SUBSET Shown(s) /\ Shown(m) \subseteq Shown(s) /\ Shown(s) \ Shown(m) \subseteq T
    BY <1>8
  <2>2. \A x \in Shown(m) : MemberOf(m.entry[x]) = IF x \in T THEN {} ELSE MemberOf(s.entry[x])
    BY <1>5, <1>7, <1>8
  <2> HIDE DEF T
  <2>3. Staged(m) /\ Live(m) = Live(s) \ Lost(s, T)
    BY <1>7, <1>9, <1>10, <2>1, <2>2, EndFacts
  <2> QED  BY <2>3 DEF T
<1>12. Drained(m, "Text", d)  BY <1>2, <1>11, DrainFacts DEF d
<1>13. Staged(d) /\ Live(d) = Live(m) /\ d.fences = m.fences /\ d.groups = m.groups
  BY <1>12 DEF Drained
<1>14. d \in Coordinator /\ ~ CheckActivated(d).failed  BY <1>1, <1>13 DEF Staged, r
<1>15. r = d /\ ~ d.failed /\ Len(d.activated) <= MaxQueue  BY <1>1, <1>14, CheckFacts
<1>16. ASSUME NEW p \in Region, p # "Text", Behind(s, p) PROVE Behind(m, p)
  <2> SUFFICES ASSUME NEW i \in DOMAIN s.queued[p] PROVE Busy(m, s.queued[p][i].target)
    BY <1>7 DEF Behind
  <2> DEFINE u == s.queued[p][i].target
  <2>1. RegionOf[u] = p
    <3>1. Queues(s.queued)  BY DEF Staged
    <3> QED  BY <3>1 DEF Queues
  <2>2. Busy(s, u)  BY <1>16 DEF Behind
  <2> HIDE DEF u
  <2>3. Busy(m, u)  BY <1>5, <1>7, <1>8, <1>16, <2>1, <2>2, BusyIs
  <2> QED  BY <2>3 DEF u
<1>17. ASSUME Patient(s) PROVE Patient(d)
  <2>1. \A p \in Region : Behind(s, p) => Behind(d, p)
    BY <1>2, <1>11, <1>12, <1>16, DrainedBehind
  <2> QED  BY <1>17, <2>1 DEF Patient
<1>18. Cleared(s, {t}, r)  BY <1>7, <1>11, <1>13, <1>15, <1>17 DEF Cleared
<1>19. Rests(s, m)  BY <1>5, <1>7, <1>8 DEF Rests, Moving
<1> QED  BY <1>4, <1>11, <1>15, <1>18, <1>19 DEF r, d
-------------------------------------------------------------------------------
(* Every call keeps the coordinator sound. *)

SoundAt(s, j, e, b) ==
  /\ Staged(s)
  /\ Len(s.activated) <= MaxQueue
  /\ Fenced(s, j, e, b)
  /\ Patient(s)

LEMMA NewSound == SoundAt(NewCoordinator, {}, {}, {})
<1> DEFINE s == NewCoordinator
<1>1. /\ DOMAIN <<>> = {} /\ Len(<<>>) = 0 /\ \A S : <<>> \in [{} -> S] /\ <<>> \in Seq(S)
  OBVIOUS
<1>2. s = [entry |-> <<>>, queued |-> [r \in Region |-> <<>>], fences |-> <<>>,
           groups |-> <<>>, activated |-> <<>>, failed |-> FALSE]
  BY DEF NewCoordinator
<1> HIDE DEF s
<1>3. /\ s.entry = <<>> /\ s.queued = [r \in Region |-> <<>>] /\ s.fences = <<>>
      /\ s.groups = <<>> /\ s.activated = <<>> /\ s.failed = FALSE
      /\ s.queued \in [Region -> Seq(Commands)] /\ \A r \in Region : s.queued[r] = <<>>
  BY <1>1, <1>2
<1>4. Typed(s)
  <2>1. s \in [entry : {s.entry}, queued : [Region -> Seq(Commands)], fences : {s.fences},
              groups : {s.groups}, activated : Seq(Ids), failed : BOOLEAN]
    BY <1>1, <1>2, <1>3
  <2>2. s.entry \in [Shown(s) -> EntryState] /\ Shown(s) \subseteq Target  BY <1>1, <1>3 DEF Shown
  <2>3. /\ s.fences \in [DOMAIN s.fences -> Status] /\ DOMAIN s.fences \subseteq Fence
        /\ s.groups \in [DOMAIN s.groups -> GroupState] /\ DOMAIN s.groups \subseteq Fence
    BY <1>1, <1>3
  <2> QED  BY <2>1, <2>2, <2>3 DEF Typed
<1>5. s \in Coordinator  BY <1>4, TypedIs
<1>6. MembersIn(<<>>) = {} /\ Apart(<<>>)  BY <1>1 DEF MembersIn, Apart
<1>7. Live(s) = {}
  <2>1. Live(s) = MembersIn(s.entry) \cup UNION {MembersIn(s.queued[r]) : r \in Region}
    BY <1>5, LiveIs
  <2>2. \A r \in Region : MembersIn(s.queued[r]) = {}  BY <1>3, <1>6
  <2> QED  BY <1>3, <1>6, <2>1, <2>2
<1>8. Staged(s)
  <2>1. Performing(s.entry)  BY <1>1, <1>3, FS_EmptySet DEF Performing
  <2>2. Queues(s.queued)  BY <1>1, <1>3, RegionsOfTargets DEF Queues
  <2>3. Alone(s.entry, s.queued)  BY <1>3, <1>6 DEF Alone
  <2> QED  BY <1>5, <2>1, <2>2, <2>3 DEF Staged
<1>9. FencesOf({}) = {}  BY DEF FencesOf
<1>10. Fenced(s, {}, {}, {})  BY <1>1, <1>3, <1>7, <1>9 DEF Fenced
<1>11. Patient(s)  BY <1>1, <1>3 DEF Patient, Behind
<1>12. Len(s.activated) <= MaxQueue  BY <1>1, <1>3, RegionsOfTargets
<1> QED  BY <1>8, <1>10, <1>11, <1>12 DEF SoundAt, s

LEMMA InitSound == Init => SoundAt(c, joined, ended, broken)
BY NewSound DEF Init

LEMMA BatchSound ==
  ASSUME SoundAt(c, joined, ended, broken), ApplyBatchCall
  PROVE  SoundAt(c', joined', ended', broken')
<1>1. PICK batch \in Batch : TakesBatch(c, batch) /\ c' = ApplyBatch(c, batch) /\ RecordBatch(batch)
  BY DEF ApplyBatchCall
<1> DEFINE d == FoldLeft(Prepare, c, batch)
<1>2. /\ Staged(c) /\ Fenced(c, joined, ended, broken) /\ Patient(c)
      /\ Len(c.activated) <= MaxQueue
  BY DEF SoundAt
<1>3. batch \in Seq(Commands) /\ DistinctMembers(c, batch)
  BY <1>1, BatchesOfCommands DEF TakesBatch
<1>4. c' = Register(c, d, batch)  BY <1>1 DEF ApplyBatch
<1>5. Prepared(c, batch, d, Len(batch)) /\ Live(d) \subseteq Live(c) \cup BatchMembers(batch)
  BY <1>1, <1>2, <1>3, PreparedFacts
<1> HIDE DEF d
<1>6. /\ Staged(d) /\ Patient(d) /\ d.fences = c.fences /\ d.groups = c.groups
      /\ d.activated = c.activated
  BY <1>5 DEF Prepared
<1>7. Registered(c, d, batch, c')  BY <1>2, <1>3, <1>4, <1>6, RegisterFacts
<1>8. /\ Staged(c') /\ Live(c') = Live(d) /\ c'.activated = d.activated
      /\ \A q \in Region : Behind(d, q) => Behind(c', q)
  BY <1>7 DEF Registered
<1>9. /\ joined' = (joined \ Stale(c, joined, batch)) \cup BatchMembers(batch)
      /\ ended' = ended \ (Stale(c, joined, batch) \cup BatchMembers(batch))
      /\ broken' = (broken \ Fresh(c, batch)) \cup Replaced(c, d, batch)
  BY <1>1, <1>8 DEF RecordBatch, Stale, Fresh, Affected, Replaced
<1>10. Fenced(c', joined', ended', broken')
  BY <1>2, <1>3, <1>5, <1>6, <1>7, <1>9, BatchFenced
<1>11. Patient(c')  BY <1>6, <1>8 DEF Patient
<1> QED  BY <1>2, <1>6, <1>8, <1>10, <1>11 DEF SoundAt

(* What a frame, a click or the end of a video writes to the history. *)
LEMMA RecordFacts ==
  ASSUME Staged(c), NEW T \in SUBSET Shown(c), Live(c') = Live(c) \ Lost(c, T), RecordEnd(T)
  PROVE  joined' = joined /\ ended' = ended \cup Lost(c, T) /\ broken' = broken
<1> DEFINE over == {<<c.entry[t].fence, c.entry[t].id>> : t \in T}
<1>1. over \cap Live(c) = Lost(c, T)  BY LostAre
<1>2. /\ ended' = ended \cup (over \cap Live(c))
      /\ broken' = broken \cup FencesOf((Live(c) \ Live(c')) \ over)
      /\ joined' = joined
  BY DEF RecordEnd
<1> HIDE DEF over
<1>3. (Live(c) \ Live(c')) \ over = {}  BY <1>1
<1>4. FencesOf({}) = {}  BY DEF FencesOf
<1> QED  BY <1>1, <1>2, <1>3, <1>4

LEMMA EndedSound ==
  ASSUME SoundAt(c, joined, ended, broken), NEW T \in SUBSET Shown(c),
         NEW d, Cleared(c, T, d), c' = FinishFences(d, FencesOf(Lost(c, T))), RecordEnd(T)
  PROVE  SoundAt(c', joined', ended', broken')
<1>1. /\ Staged(c) /\ Fenced(c, joined, ended, broken) /\ Patient(c)  BY DEF SoundAt
<1>2. /\ Staged(d) /\ Live(d) = Live(c) \ Lost(c, T) /\ d.fences = c.fences /\ d.groups = c.groups
      /\ Len(d.activated) <= MaxQueue /\ Patient(d)
  BY <1>1 DEF Cleared
<1> DEFINE r == FinishFences(d, FencesOf(Lost(c, T)))
<1>r. SeenTo(d, joined, ended \cup Lost(c, T), broken, r)  BY <1>1, <1>2, EndingFacts
<1>3. /\ Staged(c') /\ Live(c') = Live(d) /\ c'.activated = d.activated
      /\ \A q \in Region : Behind(d, q) => Behind(c', q)
      /\ Fenced(c', joined, ended \cup Lost(c, T), broken)
  <2>1. c' = r  OBVIOUS
  <2> HIDE DEF r
  <2> QED  BY <1>r, <2>1 DEF SeenTo
<1>4. joined' = joined /\ ended' = ended \cup Lost(c, T) /\ broken' = broken
  BY <1>1, <1>2, <1>3, RecordFacts
<1>5. Patient(c')  BY <1>2, <1>3 DEF Patient
<1> QED  BY <1>2, <1>3, <1>4, <1>5 DEF SoundAt

(* Without a fence, nothing is completed. *)
LEMMA NoFenceNoLoss ==
  ASSUME NEW s, NEW t
  PROVE  /\ s.entry[t].fence = NoFence => Lost(s, {t}) = {}
         /\ s.entry[t].fence # NoFence => FencesOf(Lost(s, {t})) = {s.entry[t].fence}
<1>1. Lost(s, {t}) = MemberOf(s.entry[t])  BY DEF Lost
<1>2. s.entry[t].fence # NoFence => MemberOf(s.entry[t]) = {<<s.entry[t].fence, s.entry[t].id>>}
  BY DEF MemberOf
<1>3. \A f, v : FencesOf({<<f, v>>}) = {f}  BY DEF FencesOf
<1> QED  BY <1>1, <1>2, <1>3 DEF MemberOf

LEMMA QuietSound ==
  ASSUME SoundAt(c, joined, ended, broken), NEW T \in SUBSET Shown(c), Lost(c, T) = {},
         Cleared(c, T, c'), RecordEnd(T)
  PROVE  SoundAt(c', joined', ended', broken')
<1>1. /\ Staged(c) /\ Fenced(c, joined, ended, broken) /\ Patient(c)  BY DEF SoundAt
<1>2. /\ Staged(c') /\ Live(c') = Live(c) \ Lost(c, T) /\ c'.fences = c.fences /\ c'.groups = c.groups
      /\ Len(c'.activated) <= MaxQueue /\ Patient(c')
  BY <1>1 DEF Cleared
<1>3. joined' = joined /\ ended' = ended /\ broken' = broken  BY <1>1, <1>2, RecordFacts
<1>4. Fenced(c', joined, ended, broken)  BY <1>1, <1>2, KeepsFences
<1> QED  BY <1>2, <1>3, <1>4 DEF SoundAt

LEMMA TickSound ==
  ASSUME SoundAt(c, joined, ended, broken), Tick, ~ c'.failed
  PROVE  SoundAt(c', joined', ended', broken')
<1> DEFINE T == EndsInFrame(c)
           d == BeforeFinish(c)
<1>1. Staged(c)  BY DEF SoundAt
<1>2. c' = IF d.failed THEN d ELSE FinishFences(d, EndedFences(c))
  BY DEF Tick, TickCoordinator
<1>3. RecordEnd(T)  BY DEF Tick
<1>4. ~ d.failed /\ c' = FinishFences(d, EndedFences(c))
  <2> HIDE DEF d
  <2> QED  BY <1>2
<1>5. Cleared(c, T, d)  BY <1>1, <1>4, TickFacts
<1>6. T \in SUBSET Shown(c) /\ \A t \in T : c.entry[t].fence # NoFence  BY DEF EndsInFrame
<1>7. EndedFences(c) = {c.entry[t].fence : t \in T}  BY DEF EndedFences
<1> HIDE DEF T, d
<1>8. EndedFences(c) = FencesOf(Lost(c, T))
  <2>1. /\ \A t \in T : c.entry[t].fence \in FencesOf(Lost(c, T))
        /\ \A f \in FencesOf(Lost(c, T)) : \E t \in T : f = c.entry[t].fence
    BY <1>1, <1>6, LostAre
  <2> QED  BY <1>7, <2>1
<1> QED  BY <1>3, <1>4, <1>5, <1>6, <1>8, EndedSound

LEMMA RevealSound ==
  ASSUME ~ c.failed, SoundAt(c, joined, ended, broken), RequestTextAdvance
  PROVE  SoundAt(c', joined', ended', broken')
<1>1. PICK t \in Shown(c) : /\ RegionOf[t] = "Text" /\ c.entry[t].left > 0
                            /\ c' = RevealText(c, t) /\ RecordEnd({t})
  BY DEF RequestTextAdvance
<1>2. Staged(c) /\ Len(c.activated) <= MaxQueue  BY DEF SoundAt
<1> DEFINE e == [c.entry[t] EXCEPT !.left = 0, !.fence = NoFence, !.tasks = FinishReveal(@, Click)]
           d == [c EXCEPT !.entry[t] = e]
           f == c.entry[t].fence
<1>3. Changed(c, t, e, d) /\ MemberOf(e) = {} /\ Runs(t, e)  BY <1>1, <1>2, RevealFacts
<1>4. c' = IF f = NoFence THEN d ELSE FinishFences(d, {f})  BY <1>1 DEF RevealText
<1> HIDE DEF e, d
<1>5. Cleared(c, {t}, d)  BY <1>2, <1>3 DEF Changed, Cleared, Patient
<1>6. {t} \in SUBSET Shown(c)  OBVIOUS
<1>7. CASE f = NoFence
  <2>1. Lost(c, {t}) = {}  BY <1>7, NoFenceNoLoss
  <2> QED  BY <1>1, <1>4, <1>5, <1>6, <1>7, <2>1, QuietSound
<1>8. CASE f # NoFence
  <2>1. FencesOf(Lost(c, {t})) = {f}  BY <1>8, NoFenceNoLoss
  <2>2. c' = FinishFences(d, FencesOf(Lost(c, {t})))  BY <1>4, <1>8, <2>1
  <2> QED  BY <1>1, <1>5, <1>6, <2>2, EndedSound
<1> QED  BY <1>7, <1>8

LEMMA AcknowledgeSound ==
  ASSUME SoundAt(c, joined, ended, broken), AcknowledgeStoryAdvance, ~ c'.failed
  PROVE  SoundAt(c', joined', ended', broken')
<1>1. PICK t \in Shown(c) : /\ RegionOf[t] = "Text" /\ CanAcknowledge(c, t)
                            /\ c' = AcknowledgeText(c, t) /\ RecordEnd({})
  BY DEF AcknowledgeStoryAdvance
<1>2. Staged(c) /\ ~ AcknowledgeText(c, t).failed  BY <1>1 DEF SoundAt
<1>3. Cleared(c, {t}, AcknowledgeText(c, t)) /\ Lost(c, {t}) = {}
  BY <1>1, <1>2, AcknowledgeFacts
<1> DEFINE T == {}
<1>4. Lost(c, T) = {} /\ T \in SUBSET Shown(c)  BY DEF Lost
<1> HIDE DEF T
<1>5. Cleared(c, T, c')  BY <1>1, <1>3, <1>4 DEF Cleared
<1>6. RecordEnd(T)  BY <1>1 DEF T
<1> QED  BY <1>4, <1>5, <1>6, QuietSound

LEMMA StartVideoSound ==
  ASSUME SoundAt(c, joined, ended, broken), StartVideoCall
  PROVE  SoundAt(c', joined', ended', broken')
<1>1. PICK t \in Shown(c) : /\ RegionOf[t] = "Video" /\ c.entry[t].phase = "Prebuffering"
                            /\ c' = StartVideo(c, t)
  BY DEF StartVideoCall, Videos
<1>2. joined' = joined /\ ended' = ended /\ broken' = broken  BY DEF StartVideoCall, history
<1>3. /\ Staged(c) /\ Fenced(c, joined, ended, broken) /\ Patient(c)
      /\ Len(c.activated) <= MaxQueue
  BY DEF SoundAt
<1>4. /\ Staged(c') /\ Live(c') = Live(c) /\ c'.fences = c.fences /\ c'.groups = c.groups
      /\ c'.activated = c.activated /\ \A r \in Region : Behind(c, r) => Behind(c', r)
  BY <1>1, <1>3, StartVideoFacts
<1>5. Fenced(c', joined, ended, broken)  BY <1>3, <1>4, KeepsFences
<1>6. Patient(c')  BY <1>3, <1>4 DEF Patient
<1> QED  BY <1>2, <1>3, <1>4, <1>5, <1>6 DEF SoundAt

LEMMA CompleteVideoSound ==
  ASSUME SoundAt(c, joined, ended, broken), CompleteVideoCall, ~ c'.failed
  PROVE  SoundAt(c', joined', ended', broken')
<1>1. PICK t \in Shown(c) : RegionOf[t] = "Video" /\ c' = CompleteVideo(c, t) /\ RecordEnd({t})
  BY DEF CompleteVideoCall, Videos
<1> DEFINE d == EndVideo(c, t, "Ended")
           f == c.entry[t].fence
<1>2. c' = IF d.failed \/ f = NoFence THEN d ELSE FinishFences(d, {f})  BY <1>1 DEF CompleteVideo
<1>3. ~ d.failed
  <2> HIDE DEF d
  <2> QED  BY <1>2
<1>4. Cleared(c, {t}, d)  BY <1>1, <1>3, EndVideoFacts DEF SoundAt
<1> HIDE DEF d
<1>5. {t} \in SUBSET Shown(c)  OBVIOUS
<1>6. CASE f = NoFence
  <2>1. Lost(c, {t}) = {}  BY <1>6, NoFenceNoLoss
  <2>2. c' = d  BY <1>2, <1>6
  <2> QED  BY <1>1, <1>4, <1>5, <2>1, <2>2, QuietSound
<1>7. CASE f # NoFence
  <2>1. FencesOf(Lost(c, {t})) = {f}  BY <1>7, NoFenceNoLoss
  <2>2. c' = FinishFences(d, FencesOf(Lost(c, {t})))  BY <1>2, <1>3, <1>7, <2>1
  <2> QED  BY <1>1, <1>4, <1>5, <2>2, EndedSound
<1> QED  BY <1>6, <1>7

LEMMA FailVideoSound ==
  ASSUME SoundAt(c, joined, ended, broken), FailVideoCall, ~ c'.failed
  PROVE  SoundAt(c', joined', ended', broken')
<1>1. PICK t \in Shown(c) : /\ RegionOf[t] = "Video" /\ c' = FailVideo(c, t)
                            /\ broken' = broken \cup ({c.entry[t].fence} \ {NoFence})
                            /\ joined' = joined /\ ended' = ended
  BY DEF FailVideoCall, Videos
<1> DEFINE f == c.entry[t].fence
           m == IF f = NoFence THEN c ELSE SetFences(CancelGroups(c, {f}), {f}, "Failed")
<1>2. c' = EndVideo(m, t, "Failed")  BY <1>1 DEF FailVideo
<1>3. /\ Staged(c) /\ Fenced(c, joined, ended, broken) /\ Patient(c)  BY DEF SoundAt
<1>4. /\ Staged(m) /\ m.entry = c.entry /\ Patient(m) /\ Fenced(m, joined, ended, broken')
      /\ f # NoFence => m.fences[f] = "Failed"
  <2>1. CASE f = NoFence
    <3>1. m = c /\ broken' = broken  BY <1>1, <2>1
    <3> HIDE DEF m
    <3> QED  BY <1>3, <2>1, <3>1
  <2>2. CASE f # NoFence
    <3>1. f \in FencesOf(Live(c))
      <4> DEFINE T == {t}
      <4>1. T \in SUBSET Shown(c) /\ t \in T  OBVIOUS
      <4> HIDE DEF T
      <4>2. f \in FencesOf(Lost(c, T)) /\ Lost(c, T) \subseteq Live(c)
        BY <1>3, <2>2, <4>1, LostAre
      <4> QED  BY <4>2 DEF FencesOf
    <3> DEFINE r == SetFences(CancelGroups(c, {f}), {f}, "Failed")
    <3>2. /\ Staged(r) /\ r.entry = c.entry
          /\ \A q \in Region : Behind(c, q) => Behind(r, q)
          /\ Fenced(r, joined, ended, broken \cup {f}) /\ r.fences[f] = "Failed"
      BY <1>3, <3>1, FailFacts
    <3>3. m = r /\ broken' = broken \cup {f}  BY <1>1, <2>2
    <3> HIDE DEF m, r
    <3>4. Patient(r)  BY <1>3, <3>2 DEF Patient
    <3> QED  BY <3>2, <3>3, <3>4
  <2> QED  BY <2>1, <2>2
<1> HIDE DEF m
<1>5. t \in Shown(m)  BY <1>4 DEF Shown
<1>6. Cleared(m, {t}, c')  BY <1>1, <1>2, <1>4, <1>5, EndVideoFacts
<1>7. /\ Staged(c') /\ Live(c') = Live(m) \ Lost(m, {t})
      /\ c'.fences = m.fences /\ c'.groups = m.groups
      /\ Len(c'.activated) <= MaxQueue /\ Patient(c')
  BY <1>4, <1>6 DEF Cleared
<1>8. \A x \in Live(m) \ Live(c') : m.fences[x[1]] = "Failed"
  <2>1. Lost(m, {t}) = MemberOf(m.entry[t]) /\ m.entry[t].fence = f  BY <1>4 DEF Lost
  <2>2. \A x \in Lost(m, {t}) : x[1] = f /\ f # NoFence  BY <2>1 DEF MemberOf
  <2> QED  BY <1>4, <1>7, <2>2
<1>9. Fenced(c', joined, ended, broken')  BY <1>4, <1>7, <1>8, KeepsFences
<1> QED  BY <1>1, <1>7, <1>9 DEF SoundAt

LEMMA TakeSound ==
  ASSUME SoundAt(c, joined, ended, broken), TakeActivatedCommands
  PROVE  SoundAt(c', joined', ended', broken')
<1>1. c' = [c EXCEPT !.activated = <<>>] /\ joined' = joined /\ ended' = ended /\ broken' = broken
  BY DEF TakeActivatedCommands, TakeActivated, history
<1>2. /\ Staged(c) /\ Fenced(c, joined, ended, broken) /\ Patient(c)  BY DEF SoundAt
<1>3. Typed(c)  BY <1>2, TypedIs DEF Staged
<1> DEFINE d == [c EXCEPT !.activated = <<>>]
<1>4. d = [entry |-> c.entry, queued |-> c.queued, fences |-> c.fences, groups |-> c.groups,
           activated |-> <<>>, failed |-> c.failed]
  BY <1>3 DEF Typed
<1> HIDE DEF d
<1>5. Len(<<>>) = 0 /\ <<>> \in Seq(Ids)  OBVIOUS
<1>6. d \in Coordinator
  <2>1. Typed(d)
    <3>1. d.activated = <<>> /\ d.entry = c.entry /\ d.queued = c.queued /\ d.fences = c.fences
          /\ d.groups = c.groups /\ d.failed = c.failed
      BY <1>4
    <3>2. d \in [entry : {d.entry}, queued : [Region -> Seq(Commands)], fences : {d.fences},
                groups : {d.groups}, activated : Seq(Ids), failed : BOOLEAN]
      BY <1>3, <1>4, <1>5 DEF Typed
    <3> QED  BY <1>3, <3>1, <3>2 DEF Typed, Shown
  <2> QED  BY <2>1, TypedIs
<1>7. Staged(d) /\ Live(d) = Live(c)  BY <1>2, <1>4, <1>6, StagedSame
<1>8. Fenced(d, joined, ended, broken)  BY <1>2, <1>4, <1>7, KeepsFences
<1>9. Patient(d)
  <2>1. \A t : Busy(d, t) <=> Busy(c, t)  BY <1>4, BusyIs DEF Shown
  <2> QED  BY <1>2, <1>4, <2>1 DEF Patient, Behind
<1>10. Len(d.activated) <= MaxQueue  BY <1>4, <1>5, RegionsOfTargets
<1>11. SoundAt(d, joined, ended, broken)  BY <1>7, <1>8, <1>9, <1>10 DEF SoundAt
<1> QED  BY <1>1, <1>11 DEF d

-------------------------------------------------------------------------------
(* What every call keeps while the coordinator has not failed: the regions *)
(* are as their workers leave them, each member of a fence has one place,  *)
(* a group tells what its fence's status says, and the queues stay behind  *)
(* running targets.                                                        *)
THEOREM Invariance == Spec => []IInv
<1>1. Init => IInv  BY InitSound DEF IInv, Sound, SoundAt
<1>2. IInv /\ [Next]_vars => IInv'
  <2> SUFFICES ASSUME IInv, [Next]_vars, ~ c'.failed
               PROVE  SoundAt(c', joined', ended', broken')
    BY DEF IInv, Sound, SoundAt
  <2>1. ~ c.failed => SoundAt(c, joined, ended, broken)  BY DEF IInv, Sound, SoundAt
  <2>2. CASE ApplyBatchCall
    <3>1. ~ c.failed  BY <2>2 DEF ApplyBatchCall, TakesBatch
    <3> QED  BY <2>1, <2>2, <3>1, BatchSound
  <2>3. CASE Tick  BY <2>1, <2>3, TickSound DEF Tick
  <2>4. CASE TakeActivatedCommands  BY <2>1, <2>4, TakeSound DEF TakeActivatedCommands
  <2>5. CASE RequestTextAdvance
    <3>1. ~ c.failed  BY <2>5 DEF RequestTextAdvance
    <3> QED  BY <2>1, <2>5, <3>1, RevealSound
  <2>6. CASE AcknowledgeStoryAdvance
    <3>1. ~ c.failed  BY <2>6 DEF AcknowledgeStoryAdvance
    <3> QED  BY <2>1, <2>6, <3>1, AcknowledgeSound
  <2>7. CASE StartVideoCall
    <3>1. ~ c.failed  BY <2>7 DEF StartVideoCall, Videos
    <3> QED  BY <2>1, <2>7, <3>1, StartVideoSound
  <2>8. CASE CompleteVideoCall
    <3>1. ~ c.failed  BY <2>8 DEF CompleteVideoCall, Videos
    <3> QED  BY <2>1, <2>8, <3>1, CompleteVideoSound
  <2>9. CASE FailVideoCall
    <3>1. ~ c.failed  BY <2>9 DEF FailVideoCall, Videos
    <3> QED  BY <2>1, <2>9, <3>1, FailVideoSound
  <2>10. CASE UNCHANGED vars
    <3>1. c' = c /\ joined' = joined /\ ended' = ended /\ broken' = broken
      BY <2>10 DEF vars
    <3> QED  BY <2>1, <3>1
  <2> QED
    BY <2>2, <2>3, <2>4, <2>5, <2>6, <2>7, <2>8, <2>9, <2>10 DEF Next
<1> QED  BY <1>1, <1>2, PTL DEF Spec

(* A queued command has a busy target to wait for, so no call leaves one   *)
(* behind for ever: prepare_<region> queues behind what runs, and each     *)
(* end of an entry drains the queue of its region.                         *)
THEOREM QueuesStayBehind == Spec => []QueuedBehindActive
<1>1. IInv => QueuedBehindActive  BY DEF IInv, Sound, Patient, Behind, QueuedBehindActive
<1> QED  BY <1>1, Invariance, PTL

(* A fence tells what became of the commands that joined its group, and of *)
(* no others: it is Pending as long as one of them runs or is queued       *)
(* (register_fences, finish_fences, fail_fence).                           *)
THEOREM FencesTellTheTruth == Spec => []FenceTellsTheTruth
<1>1. IInv => FenceTellsTheTruth
  <2> SUFFICES ASSUME IInv, ~ c.failed, NEW f \in FencesOf(joined)
               PROVE  StatusOf(c, f) = CASE f \in broken -> "Failed"
                                         [] f \notin broken /\ Of(joined, f) \subseteq ended -> "Completed"
                                         [] OTHER -> "Pending"
    BY DEF FenceTellsTheTruth
  <2> DEFINE g == c.groups[f]
  <2>1. Typed(c) /\ Fenced(c, joined, ended, broken)  BY TypedIs DEF IInv, Sound, Staged
  <2>2. f \in DOMAIN c.fences /\ Grouped(g) /\ Follows(c, f) /\ Remembers(c, f, joined, ended, broken)
    BY <2>1 DEF Fenced
  <2>3. StatusOf(c, f) = c.fences[f] /\ c.fences[f] \in Status  BY <2>1, <2>2 DEF StatusOf, Typed
  <2>4. c.fences[f] = "Failed" <=> f \in broken  BY <2>2 DEF Remembers
  <2>5. c.fences[f] = "Completed" => Of(joined, f) \subseteq ended  BY <2>2 DEF Remembers
  <2>6. ASSUME c.fences[f] = "Pending" PROVE ~ (Of(joined, f) \subseteq ended)
    <3>1. g.progress.terminal = None /\ Whole(g.progress) /\ Members(g.progress) = DOMAIN g.ids
      BY <2>2, <2>6, GroupIs DEF Follows
    <3>2. PICK i \in DOMAIN g.ids : g.progress.members[i] = "Running"  BY <3>1, WholeIs
    <3>3. <<f, g.ids[i]>> \in Of(joined, f) /\ <<f, g.ids[i]>> \notin ended
      BY <2>2, <2>6, <3>2 DEF Remembers
    <3> QED  BY <3>3
  <2> QED  BY <2>3, <2>4, <2>5, <2>6 DEF Status
<1> QED  BY <1>1, Invariance, PTL
-------------------------------------------------------------------------------
(* A snapshot of the coordinator passes validate_restored_state. *)

(* As many values as arguments, if no value is taken twice. *)
LEMMA OneToOneCount ==
  ASSUME NEW S, IsFiniteSet(S), NEW T, NEW f \in [S -> T],
         \A x, y \in S : f[x] = f[y] => x = y,
         \A v \in T : \E x \in S : v = f[x]
  PROVE  Cardinality(T) = Cardinality(S)
<1>1. f \in Bijection(S, T)  BY DEF Bijection, Injection, IsInjective, Surjection
<1>2. ExistsBijection(S, T)  BY <1>1 DEF ExistsBijection
<1> QED  BY <1>2, FS_Bijection

LEMMA OwnTasks ==
  ASSUME NEW s, Staged(s), NEW t \in Shown(s), RegionOf[t] = "Text"
  PROVE  ValidTasks(s.entry[t].tasks, s.entry[t].left = 0)
<1>1. Performs(t, s.entry[t])  BY DEF Staged, Performing, Shown
<1>2. CASE s.entry[t].left = 0
  <2>t. s.entry[t].tasks \in {Revealed(Clock), Revealed(Click)}  BY <1>1, <1>2 DEF Performs
  <2>1. PICK w \in {Clock, Click} : s.entry[t].tasks = Revealed(w)  BY <2>t
  <2>2. (s.entry[t].left = 0) = TRUE  BY <1>2
  <2> QED  BY <2>1, <2>2, TaskValues
<1>3. CASE s.entry[t].left # 0
  <2>1. s.entry[t].tasks = Unrevealed  BY <1>1, <1>3 DEF Performs
  <2>2. (s.entry[t].left = 0) = FALSE  BY <1>3
  <2> QED  BY <2>1, <2>2, TaskValues
<1> QED  BY <1>2, <1>3

LEMMA OwnGroup ==
  ASSUME NEW s, NEW j, NEW e, NEW b, Staged(s), Fenced(s, j, e, b), NEW f \in DOMAIN s.groups
  PROVE  ValidGroup(s, f)
<1> DEFINE g == s.groups[f]
           active == {g.ids[i] : i \in Active(g.progress)}
           live == {m[2] : m \in {x \in Live(s) : x[1] = f}}
<1>1. f \in DOMAIN s.fences /\ Grouped(g) /\ Follows(s, f)  BY DEF Fenced
<1>2. StatusOf(s, f) = s.fences[f] /\ s.fences[f] \in Status
  BY <1>1, TypedIs DEF StatusOf, Typed, Staged
<1>3. /\ Whole(g.progress) /\ Len(g.progress.members) = Len(g.ids) /\ Len(g.ids) \in Nat \ {0}
      /\ DOMAIN g.ids = 1 .. Len(g.ids) /\ Members(g.progress) = DOMAIN g.ids
  BY <1>1, GroupIs
<1>4. Valid(g.progress)
  BY <1>3, RestoreTakesExactlyProgress DEF Whole, Progress, ProgressShape
<1>5. Cardinality(ToSet(g.ids)) = Len(g.ids)
  <2> DEFINE n == Len(g.ids)  T == ToSet(g.ids)
  <2>1. IsFiniteSet(1 .. n) /\ Cardinality(1 .. n) = n
    <3>1. n \in Nat /\ n > 0  BY <1>3
    <3> HIDE DEF n
    <3> QED  BY <3>1, FS_Interval
  <2>2. g.ids \in [1 .. n -> T] /\ \A v \in T : \E i \in 1 .. n : v = g.ids[i]
    BY <1>1, <1>3, GroupIs DEF ToSet
  <2>3. \A x, y \in 1 .. n : g.ids[x] = g.ids[y] => x = y  BY <1>1, <1>3 DEF Grouped, EachOnce
  <2> HIDE DEF n, T, g
  <2>4. Cardinality(T) = Cardinality(1 .. n)  BY <2>1, <2>2, <2>3, OneToOneCount
  <2> QED  BY <2>1, <2>4 DEF T, n
<1>6. ASSUME s.fences[f] = "Pending" PROVE active = live
  <2>1. \A i \in DOMAIN g.ids : i \in Active(g.progress) <=> <<f, g.ids[i]>> \in Live(s)
    BY <1>1, <1>3, <1>6 DEF Follows, Active
  <2>2. \A m \in Live(s) : m[1] = f => \E i \in DOMAIN g.ids : m = <<f, g.ids[i]>>
    BY <1>1, <1>6 DEF Follows
  <2>3. Active(g.progress) \subseteq DOMAIN g.ids  BY <1>3 DEF Active
  <2>4. ASSUME NEW v \in active PROVE v \in live
    <3>1. PICK i \in Active(g.progress) : v = g.ids[i]  BY <2>4
    <3>2. <<f, v>> \in Live(s)  BY <2>1, <2>3, <3>1
    <3> QED  BY <3>2
  <2>5. ASSUME NEW v \in live PROVE v \in active
    <3>1. PICK m \in Live(s) : m[1] = f /\ v = m[2]  BY <2>5
    <3>2. PICK i \in DOMAIN g.ids : m = <<f, g.ids[i]>>  BY <2>2, <3>1
    <3>3. i \in Active(g.progress) /\ v = g.ids[i]  BY <2>1, <3>1, <3>2
    <3> QED  BY <3>3
  <2> QED  BY <2>4, <2>5
<1>7. /\ s.fences[f] = "Completed" => g.progress.terminal = "Completed"
      /\ s.fences[f] = "Failed" => g.progress.terminal = "Cancelled"
      /\ s.fences[f] = "Pending" => g.progress.terminal = None
  BY <1>1 DEF Follows
<1>8. g.progress.mode = "All"  BY <1>3 DEF Whole
<1> QED  BY <1>2, <1>3, <1>4, <1>5, <1>6, <1>7, <1>8 DEF ValidGroup, Status

LEMMA FiniteImage ==
  ASSUME NEW S, IsFiniteSet(S), NEW T, NEW f \in [S -> T], \A v \in T : \E x \in S : v = f[x]
  PROVE  IsFiniteSet(T)
<1>1. f \in Surjection(S, T)  BY DEF Surjection
<1> QED  BY <1>1, FS_Surjection

(* The places of a queue. *)
Slots(s, r) == {<<r, i>> : i \in DOMAIN s.queued[r]}

LEMMA PlacesAreFinite ==
  ASSUME NEW s, Staged(s)
  PROVE  IsFiniteSet(Places(s))
<1>1. IsFiniteSet({<<t, 0>> : t \in Shown(s)})
  <2> DEFINE T == {<<t, 0>> : t \in Shown(s)}
             f == [t \in Shown(s) |-> <<t, 0>>]
  <2>1. IsFiniteSet(Shown(s))  BY DEF Staged, Performing, Shown
  <2>2. f \in [Shown(s) -> T] /\ \A v \in T : \E x \in Shown(s) : v = f[x]  OBVIOUS
  <2> HIDE DEF T, f
  <2>3. IsFiniteSet(T)  BY <2>1, <2>2, FiniteImage
  <2> QED  BY <2>3 DEF T
<1>2. ASSUME NEW r \in Region PROVE IsFiniteSet(Slots(s, r))
  <2> DEFINE D == DOMAIN s.queued[r]
             T == Slots(s, r)
             f == [i \in D |-> <<r, i>>]
  <2>1. IsFiniteSet(D)
    <3>1. s.queued[r] \in Seq(Commands)  BY TypedIs DEF Staged, Typed
    <3>2. D = 1 .. Len(s.queued[r]) /\ Len(s.queued[r]) \in Nat  BY <3>1
    <3> QED  BY <3>2, FS_Interval
  <2>2. f \in [D -> T] /\ \A v \in T : \E x \in D : v = f[x]  BY DEF Slots
  <2> HIDE DEF D, T, f
  <2>3. IsFiniteSet(T)  BY <2>1, <2>2, FiniteImage
  <2> QED  BY <2>3 DEF T
<1> DEFINE A == Slots(s, "Character")  B == Slots(s, "Background")
           C == Slots(s, "Text")       D == Slots(s, "Video")
           E == {<<t, 0>> : t \in Shown(s)}
<1>3. Places(s) = E \cup (A \cup (B \cup (C \cup D)))
  <2>1. UNION {Slots(s, r) : r \in Region} = A \cup (B \cup (C \cup D))
    <3> HIDE DEF A, B, C, D
    <3>1. A = Slots(s, "Character") /\ B = Slots(s, "Background")
          /\ C = Slots(s, "Text") /\ D = Slots(s, "Video")
      BY DEF A, B, C, D
    <3> QED  BY <3>1 DEF Region
  <2>2. Places(s) = E \cup UNION {Slots(s, r) : r \in Region}  BY DEF Places, Slots
  <2> HIDE DEF A, B, C, D, E
  <2> QED  BY <2>1, <2>2
<1>4. IsFiniteSet(A) /\ IsFiniteSet(B) /\ IsFiniteSet(C) /\ IsFiniteSet(D) /\ IsFiniteSet(E)
  BY <1>1, <1>2 DEF Region
<1> HIDE DEF A, B, C, D, E
<1>5. IsFiniteSet(C \cup D)  BY <1>4, FS_Union
<1>6. IsFiniteSet(B \cup (C \cup D))  BY <1>4, <1>5, FS_Union
<1>7. IsFiniteSet(A \cup (B \cup (C \cup D)))  BY <1>4, <1>6, FS_Union
<1> QED  BY <1>3, <1>4, <1>7, FS_Union

LEMMA PlacesApart ==
  ASSUME NEW s, Staged(s), NEW p \in FencedPlaces(s), NEW q \in FencedPlaces(s), p # q
  PROVE  MemberOf(At(s, p)) \cap MemberOf(At(s, q)) = {}
<1>1. \A r \in Region : \A i \in DOMAIN s.queued[r] : i # 0
  <2> SUFFICES ASSUME NEW r \in Region, NEW i \in DOMAIN s.queued[r] PROVE i # 0  OBVIOUS
  <2>1. s.queued[r] \in Seq(Commands)  BY TypedIs DEF Staged, Typed
  <2> QED  BY <2>1
<1>2. \A x \in FencedPlaces(s) :
        \/ \E t \in DOMAIN s.entry : x = <<t, 0>> /\ At(s, x) = s.entry[t]
        \/ \E r \in Region : \E i \in DOMAIN s.queued[r] : x = <<r, i>> /\ At(s, x) = s.queued[r][i]
  BY <1>1 DEF FencedPlaces, Places, At, Shown
<1>3. /\ Apart(s.entry)
      /\ \A r \in Region : Apart(s.queued[r]) /\ MembersIn(s.queued[r]) \cap MembersIn(s.entry) = {}
      /\ \A r, v \in Region : r # v => MembersIn(s.queued[r]) \cap MembersIn(s.queued[v]) = {}
  BY DEF Staged, Alone
<1>4. /\ \A t \in DOMAIN s.entry : MemberOf(s.entry[t]) \subseteq MembersIn(s.entry)
      /\ \A r \in Region : \A i \in DOMAIN s.queued[r] :
           MemberOf(s.queued[r][i]) \subseteq MembersIn(s.queued[r])
  BY DEF MembersIn
<1>5. CASE \E t \in DOMAIN s.entry : p = <<t, 0>> /\ At(s, p) = s.entry[t]
  <2>1. PICK t \in DOMAIN s.entry : p = <<t, 0>> /\ At(s, p) = s.entry[t]  BY <1>5
  <2>2. CASE \E u \in DOMAIN s.entry : q = <<u, 0>> /\ At(s, q) = s.entry[u]
    <3>1. PICK u \in DOMAIN s.entry : q = <<u, 0>> /\ At(s, q) = s.entry[u]  BY <2>2
    <3>2. t # u  BY <2>1, <3>1
    <3> QED  BY <1>3, <2>1, <3>1, <3>2 DEF Apart
  <2>3. CASE \E r \in Region : \E i \in DOMAIN s.queued[r] :
               q = <<r, i>> /\ At(s, q) = s.queued[r][i]
    BY <1>3, <1>4, <2>1, <2>3
  <2> QED  BY <1>2, <2>2, <2>3
<1>6. CASE \E r \in Region : \E i \in DOMAIN s.queued[r] :
             p = <<r, i>> /\ At(s, p) = s.queued[r][i]
  <2>1. PICK r \in Region : \E i \in DOMAIN s.queued[r] :
               p = <<r, i>> /\ At(s, p) = s.queued[r][i]
    BY <1>6
  <2>2. PICK i \in DOMAIN s.queued[r] : p = <<r, i>> /\ At(s, p) = s.queued[r][i]  BY <2>1
  <2>3. CASE \E u \in DOMAIN s.entry : q = <<u, 0>> /\ At(s, q) = s.entry[u]
    BY <1>3, <1>4, <2>2, <2>3
  <2>4. CASE \E v \in Region : \E k \in DOMAIN s.queued[v] :
               q = <<v, k>> /\ At(s, q) = s.queued[v][k]
    <3>1. PICK v \in Region : \E k \in DOMAIN s.queued[v] :
                 q = <<v, k>> /\ At(s, q) = s.queued[v][k]
      BY <2>4
    <3>2. PICK k \in DOMAIN s.queued[v] : q = <<v, k>> /\ At(s, q) = s.queued[v][k]  BY <3>1
    <3>3. CASE r = v
      <4>1. i # k  BY <2>2, <3>2, <3>3
      <4> QED  BY <1>3, <2>2, <3>2, <3>3, <4>1 DEF Apart
    <3>4. CASE r # v
      <4>1. MembersIn(s.queued[r]) \cap MembersIn(s.queued[v]) = {}  BY <1>3, <3>4
      <4>2. /\ MemberOf(s.queued[r][i]) \subseteq MembersIn(s.queued[r])
            /\ MemberOf(s.queued[v][k]) \subseteq MembersIn(s.queued[v])
        BY <1>4
      <4> QED  BY <2>2, <3>2, <4>1, <4>2
    <3> QED  BY <3>3, <3>4
  <2> QED  BY <1>2, <2>3, <2>4
<1> QED  BY <1>2, <1>5, <1>6

LEMMA OnePlaceEach ==
  ASSUME NEW s, Staged(s)
  PROVE  Cardinality(Live(s)) = Cardinality(FencedPlaces(s))
<1> DEFINE S == FencedPlaces(s)  T == Live(s)
           f == [p \in S |-> <<At(s, p).fence, At(s, p).id>>]
<1>1. IsFiniteSet(S)
  <2>1. IsFiniteSet(Places(s))  BY PlacesAreFinite
  <2>2. S \in SUBSET Places(s)  BY DEF FencedPlaces
  <2> QED  BY <2>1, <2>2, FS_Subset
<1>2. f \in [S -> T] /\ \A v \in T : \E x \in S : v = f[x]  BY DEF Live
<1>3. ASSUME NEW p \in S, NEW q \in S, f[p] = f[q] PROVE p = q
  <2>1. f[p] \in MemberOf(At(s, p)) /\ f[q] \in MemberOf(At(s, q))  BY DEF FencedPlaces, MemberOf
  <2> QED  BY <1>3, <2>1, PlacesApart
<1> HIDE DEF S, T, f
<1>4. Cardinality(T) = Cardinality(S)  BY <1>1, <1>2, <1>3, OneToOneCount
<1> QED  BY <1>4 DEF S, T

LEMMA OwnFences ==
  ASSUME NEW s, NEW j, NEW e, NEW b, Staged(s), Fenced(s, j, e, b)
  PROVE  ValidFences(s)
<1>1. \A f \in DOMAIN s.groups : ValidGroup(s, f)  BY OwnGroup
<1>2. DOMAIN s.fences \subseteq DOMAIN s.groups  BY DEF Fenced
<1>3. ASSUME NEW m \in Live(s) PROVE StatusOf(s, m[1]) \in {"Pending", "Failed"}
  <2>1. m[1] \in FencesOf(Live(s))  BY DEF FencesOf
  <2>2. m[1] \in DOMAIN s.fences /\ Follows(s, m[1])  BY <2>1 DEF Fenced
  <2>3. s.fences[m[1]] \in Status  BY <2>2, TypedIs DEF Staged, Typed
  <2> QED  BY <2>1, <2>2, <2>3 DEF Follows, StatusOf, Status
<1>4. ASSUME NEW f \in DOMAIN s.fences, s.fences[f] = "Pending" PROVE f \in FencesOf(Live(s))
  <2> DEFINE g == s.groups[f]
  <2>1. Grouped(g) /\ Follows(s, f)  BY DEF Fenced
  <2>2. Whole(g.progress) /\ Members(g.progress) = DOMAIN g.ids  BY <2>1, GroupIs
  <2>3. g.progress.terminal = None  BY <1>4, <2>1 DEF Follows
  <2>4. PICK i \in DOMAIN g.ids : g.progress.members[i] = "Running"  BY <2>2, <2>3, WholeIs
  <2>5. <<f, g.ids[i]>> \in Live(s)  BY <1>4, <2>1, <2>4 DEF Follows
  <2> QED  BY <2>5 DEF FencesOf
<1>5. Cardinality(Live(s)) = Cardinality(FencedPlaces(s))  BY OnePlaceEach
<1> QED  BY <1>1, <1>2, <1>3, <1>4, <1>5 DEF ValidFences

(* After any calls, the snapshot taken of the coordinator passes           *)
(* validate_restored_state, groups, text tasks and queues included: none   *)
(* of its checks can refuse a save that the coordinator itself wrote.      *)
THEOREM OwnSnapshotsLoad == Spec => []OwnSnapshotLoads
<1>1. IInv => OwnSnapshotLoads
  <2> SUFFICES ASSUME IInv, ~ c.failed PROVE Restorable(c)  BY DEF OwnSnapshotLoads
  <2>1. Staged(c) /\ Len(c.activated) <= MaxQueue /\ Fenced(c, joined, ended, broken)
    BY DEF IInv, Sound
  <2>2. ValidFences(c)  BY <2>1, OwnFences
  <2>3. \A t \in Shown(c) : RegionOf[t] = "Text" => ValidTasks(c.entry[t].tasks, c.entry[t].left = 0)
    BY <2>1, OwnTasks
  <2>4. Queues(c.queued)  BY <2>1 DEF Staged
  <2> QED  BY <2>1, <2>2, <2>3, <2>4 DEF Restorable, Queues
<1> QED  BY <1>1, Invariance, PTL

-------------------------------------------------------------------------------
(* The calls of the coordinator, for the director and the Player: whatever *)
(* the history was, the coordinator stays good, and what a call completes  *)
(* is what it returns.                                                     *)

(* A coordinator that works, whatever became of its groups: the calls of   *)
(* the coordinator lead from one to the next, as the director makes them.  *)
Good(s) == ~ s.failed /\ \E j, e, b : SoundAt(s, j, e, b)

(* The groups that are through. *)
CompletedIn(s) == {f \in DOMAIN s.fences : s.fences[f] = "Completed"}

(* A batch: only fences F are new or begin again.                          *)
Renews(s, F, r) ==
  /\ DOMAIN r.fences \subseteq DOMAIN s.fences \cup F
  /\ CompletedIn(r) \subseteq CompletedIn(s)
  /\ CompletedIn(s) \ F \subseteq CompletedIn(r)

(* What runs out: only fences F are completed.                             *)
Completes(s, F, r) ==
  DOMAIN r.fences = DOMAIN s.fences /\ CompletedIn(r) = CompletedIn(s) \cup F

(* What follows uses no more of a working coordinator than this.           *)
LEMMA GoodTyped ==
  ASSUME NEW s, Good(s)
  PROVE  s \in Coordinator /\ ~ s.failed /\ Typed(s) /\ Staged(s) /\ CompletedIn(s) \subseteq DOMAIN s.fences
<1>1. Staged(s)  BY DEF Good, SoundAt
<1> QED  BY <1>1, TypedIs DEF Staged, Good, CompletedIn

(* A batch completes no group, whatever it replaces.                       *)
LEMMA BatchGood ==
  ASSUME NEW s, Good(s), NEW batch \in Batch, TakesBatch(s, batch), NEW r, r = ApplyBatch(s, batch)
  PROVE  Good(r) /\ r.activated = s.activated /\ Renews(s, Affected(batch), r)
<1>1. PICK j, e, b : SoundAt(s, j, e, b)  BY DEF Good
<1> DEFINE d == FoldLeft(Prepare, s, batch)
<1>2. /\ Staged(s) /\ Fenced(s, j, e, b) /\ Patient(s)
      /\ Len(s.activated) <= MaxQueue
  BY <1>1 DEF SoundAt
<1>3. batch \in Seq(Commands) /\ DistinctMembers(s, batch)
  BY BatchesOfCommands DEF TakesBatch
<1>4. r = Register(s, d, batch)  BY DEF ApplyBatch
<1>5. Prepared(s, batch, d, Len(batch)) /\ Live(d) \subseteq Live(s) \cup BatchMembers(batch)
  BY <1>2, <1>3, PreparedFacts
<1> HIDE DEF d
<1>6. /\ Staged(d) /\ Patient(d) /\ d.fences = s.fences /\ d.groups = s.groups
      /\ d.activated = s.activated /\ d.failed = s.failed
  BY <1>5 DEF Prepared
<1>7. Registered(s, d, batch, r)  BY <1>2, <1>3, <1>4, <1>6, RegisterFacts
<1>8. /\ Staged(r) /\ Live(r) = Live(d) /\ r.activated = d.activated /\ r.failed = d.failed
      /\ \A q \in Region : Behind(d, q) => Behind(r, q)
  BY <1>7 DEF Registered
<1>9. Fenced(r, (j \ Stale(s, j, batch)) \cup BatchMembers(batch),
             e \ (Stale(s, j, batch) \cup BatchMembers(batch)),
             (b \ Fresh(s, batch)) \cup Replaced(s, d, batch))
  BY <1>2, <1>3, <1>5, <1>6, <1>7, BatchFenced
<1>10. Patient(r)  BY <1>6, <1>8 DEF Patient
<1>11. Good(r)
  <2>1. \E j1, e1, b1 : SoundAt(r, j1, e1, b1)  BY <1>2, <1>6, <1>8, <1>9, <1>10 DEF SoundAt
  <2> QED  BY <1>6, <1>8, <2>1 DEF Good
<1>12. /\ DOMAIN r.fences = DOMAIN s.fences \cup Affected(batch)
       /\ \A f \in DOMAIN r.fences :
            r.fences[f] = IF f \in Replaced(s, d, batch) THEN "Failed"
                          ELSE IF f \in Fresh(s, batch) THEN "Pending" ELSE s.fences[f]
  BY <1>7 DEF Registered
<1>13. \A f \in CompletedIn(s) : f \notin FencesOf(Live(s))
  BY <1>2 DEF CompletedIn, Fenced, Follows
<1>14. \A f \in CompletedIn(s) \ Affected(batch) : f \notin Replaced(s, d, batch)
  BY <1>13 DEF Replaced, Affected, FencesOf
<1>15. Fresh(s, batch) \subseteq Affected(batch) /\ Affected(batch) \subseteq Fresh(s, batch) \cup FencesOf(Live(s))
  BY DEF Fresh
<1>16. \A f \in CompletedIn(r) : f \in CompletedIn(s)
  <2> SUFFICES ASSUME NEW f \in CompletedIn(r) PROVE f \in CompletedIn(s)  OBVIOUS
  <2>1. f \in DOMAIN r.fences /\ r.fences[f] = "Completed"  BY DEF CompletedIn
  <2>2. f \notin Replaced(s, d, batch) /\ f \notin Fresh(s, batch) /\ s.fences[f] = "Completed"
    BY <1>12, <2>1
  <2>3. f \in DOMAIN s.fences
    <3>1. FencesOf(Live(s)) \subseteq DOMAIN s.fences  BY <1>2 DEF Fenced
    <3> QED  BY <1>12, <1>15, <2>1, <2>2, <3>1
  <2> QED  BY <2>2, <2>3 DEF CompletedIn
<1>17. CompletedIn(s) \ Affected(batch) \subseteq CompletedIn(r)
  BY <1>12, <1>14, <1>15 DEF CompletedIn
<1> QED  BY <1>6, <1>8, <1>11, <1>12, <1>16, <1>17 DEF Renews

(* Targets that are done, and their groups with them; without a fence      *)
(* nothing else changes.                                                   *)
LEMMA EndedGood ==
  ASSUME NEW s, Good(s), NEW T \in SUBSET Shown(s), NEW d, Cleared(s, T, d),
         NEW F, F = FencesOf(Lost(s, T)), NEW r, r = FinishFences(d, F)
  PROVE  Good(r) /\ r.activated = d.activated /\ Completes(s, Completed(d, F), r)
<1>1. PICK j, e, b : SoundAt(s, j, e, b)  BY DEF Good
<1>2. /\ Staged(s) /\ Fenced(s, j, e, b) /\ Patient(s)  BY <1>1 DEF SoundAt
<1>3. /\ Staged(d) /\ Live(d) = Live(s) \ Lost(s, T) /\ d.fences = s.fences /\ d.groups = s.groups
      /\ ~ d.failed /\ Len(d.activated) <= MaxQueue /\ Patient(d)
  BY <1>2 DEF Cleared
<1>4. SeenTo(d, j, e \cup Lost(s, T), b, r)  BY <1>2, <1>3, EndingFacts
<1>5. /\ Staged(r) /\ r.activated = d.activated /\ r.failed = d.failed
      /\ \A q \in Region : Behind(d, q) => Behind(r, q)
      /\ Fenced(r, j, e \cup Lost(s, T), b)
  BY <1>4 DEF SeenTo
<1>6. Good(r)
  <2>1. Patient(r)  BY <1>3, <1>5 DEF Patient
  <2>2. \E j1, e1, b1 : SoundAt(r, j1, e1, b1)  BY <1>3, <1>5, <2>1 DEF SoundAt
  <2> QED  BY <1>3, <1>5, <2>2 DEF Good
<1> DEFINE done == Completed(d, F)
           now == Candidates(d, F)
<1>7. /\ now = {f \in F : f \in DOMAIN s.fences /\ s.fences[f] = "Pending"}
      /\ done = {f \in now : FinishGroup(d, f).progress.terminal = "Completed"}
      /\ Relabelled(d, Insert(s.fences, [f \in done |-> "Completed"]),
                    Insert(s.groups, [f \in now |-> FinishGroup(d, f)]), r)
  BY <1>2, <1>3, FinishLabels
<1>8. r.fences = Insert(s.fences, [f \in done |-> "Completed"]) /\ done \subseteq DOMAIN s.fences
  BY <1>7 DEF Relabelled
<1> HIDE DEF done, now
<1>9. /\ DOMAIN r.fences = DOMAIN s.fences
      /\ \A f \in DOMAIN s.fences : r.fences[f] = IF f \in done THEN "Completed" ELSE s.fences[f]
  BY <1>8 DEF Insert
<1>10. CompletedIn(r) = CompletedIn(s) \cup done  BY <1>8, <1>9 DEF CompletedIn
<1> QED  BY <1>5, <1>6, <1>9, <1>10 DEF done, Completes

LEMMA QuietGood ==
  ASSUME NEW s, Good(s), NEW T \in SUBSET Shown(s), Lost(s, T) = {}, NEW r, Cleared(s, T, r)
  PROVE  Good(r) /\ Completes(s, {}, r)
<1>1. PICK j, e, b : SoundAt(s, j, e, b)  BY DEF Good
<1>2. /\ Staged(s) /\ Fenced(s, j, e, b) /\ Patient(s)  BY <1>1 DEF SoundAt
<1>3. /\ Staged(r) /\ Live(r) = Live(s) /\ r.fences = s.fences /\ r.groups = s.groups
      /\ ~ r.failed /\ Len(r.activated) <= MaxQueue /\ Patient(r)
  BY <1>2 DEF Cleared
<1>4. Fenced(r, j, e, b)  BY <1>2, <1>3, KeepsFences
<1>5. \E j1, e1, b1 : SoundAt(r, j1, e1, b1)  BY <1>3, <1>4 DEF SoundAt
<1> QED  BY <1>3, <1>5 DEF Good, Completes, CompletedIn

LEMMA TickGood ==
  ASSUME NEW s, Good(s), NEW r, r = TickCoordinator(s), ~ r.failed
  PROVE  Good(r) /\ Completes(s, TickCompletes(s), r)
<1> DEFINE T == EndsInFrame(s)
           d == BeforeFinish(s)
           F == EndedFences(s)
<1>1. Staged(s)  BY GoodTyped
<1>2. r = IF d.failed THEN d ELSE FinishFences(d, F)  BY DEF TickCoordinator
<1>3. ~ d.failed /\ r = FinishFences(d, F)
  <2> HIDE DEF d
  <2> QED  BY <1>2
<1>4. Cleared(s, T, d)  BY <1>1, <1>3, TickFacts
<1>5. T \in SUBSET Shown(s) /\ \A t \in T : s.entry[t].fence # NoFence  BY DEF EndsInFrame
<1>6. F = {s.entry[t].fence : t \in T}  BY DEF EndedFences
<1>7. TickCompletes(s) = Completed(d, F)  BY <1>3 DEF TickCompletes
<1> HIDE DEF T, d, F
<1>8. F = FencesOf(Lost(s, T))
  <2>1. /\ \A t \in T : s.entry[t].fence \in FencesOf(Lost(s, T))
        /\ \A f \in FencesOf(Lost(s, T)) : \E t \in T : f = s.entry[t].fence
    BY <1>1, <1>5, LostAre
  <2> QED  BY <1>6, <2>1
<1> QED  BY <1>3, <1>4, <1>5, <1>7, <1>8, EndedGood

LEMMA RevealGood ==
  ASSUME NEW s, Good(s), NEW t \in Shown(s), RegionOf[t] = "Text", s.entry[t].left > 0,
         s.entry[t].fence = NoFence, NEW r, r = RevealText(s, t)
  PROVE  Good(r) /\ Completes(s, {}, r) /\ Rests(s, r)
<1>1. Staged(s) /\ ~ s.failed /\ Len(s.activated) <= MaxQueue  BY DEF Good, SoundAt
<1> DEFINE e == [s.entry[t] EXCEPT !.left = 0, !.fence = NoFence, !.tasks = FinishReveal(@, Click)]
           d == [s EXCEPT !.entry[t] = e]
<1>2. Changed(s, t, e, d) /\ MemberOf(e) = {} /\ Runs(t, e)  BY <1>1, RevealFacts
<1>3. r = d  BY DEF RevealText
<1> HIDE DEF e, d
<1> DEFINE T == {t}
<1>4. T \in SUBSET Shown(s) /\ Lost(s, T) = {}  BY NoFenceNoLoss
<1>5. Cleared(s, T, d)  BY <1>1, <1>2 DEF Changed, Cleared, Patient
<1>6. Rests(s, d)  BY <1>2 DEF Changed, Rests, Moving
<1> HIDE DEF T
<1> QED  BY <1>3, <1>4, <1>5, <1>6, QuietGood

LEMMA AcknowledgeGood ==
  ASSUME NEW s, Good(s), NEW t \in Shown(s), RegionOf[t] = "Text", CanAcknowledge(s, t),
         NEW r, r = AcknowledgeText(s, t), ~ r.failed
  PROVE  /\ Good(r) /\ Completes(s, {}, r)
         /\ \E m : Staged(m) /\ Rests(s, m) /\ r = Drain(m, "Text")
<1>1. Staged(s)  BY GoodTyped
<1>2. /\ Cleared(s, {t}, r) /\ Lost(s, {t}) = {}
      /\ \E m : Staged(m) /\ Rests(s, m) /\ r = Drain(m, "Text")
  BY <1>1, AcknowledgeFacts
<1>3. {t} \in SUBSET Shown(s)  OBVIOUS
<1> QED  BY <1>2, <1>3, QuietGood

LEMMA CompleteGood ==
  ASSUME NEW s, Good(s), NEW t \in Shown(s), RegionOf[t] = "Video",
         NEW r, r = CompleteVideo(s, t), ~ r.failed
  PROVE  Good(r) /\ Completes(s, CompleteVideoCompletes(s, t), r)
<1> DEFINE d == EndVideo(s, t, "Ended")
           f == s.entry[t].fence
           T == {t}
<1>1. /\ r = IF d.failed \/ f = NoFence THEN d ELSE FinishFences(d, {f})
      /\ CompleteVideoCompletes(s, t) = IF d.failed \/ f = NoFence THEN {} ELSE Completed(d, {f})
  BY DEF CompleteVideo, CompleteVideoCompletes
<1>2. ~ d.failed
  <2> HIDE DEF d
  <2> QED  BY <1>1
<1>3. Cleared(s, T, d)  BY <1>2, GoodTyped, EndVideoFacts
<1> HIDE DEF d
<1>4. T \in SUBSET Shown(s)  OBVIOUS
<1>5. CASE f = NoFence
  <2>1. Lost(s, T) = {}  BY <1>5, NoFenceNoLoss
  <2>2. r = d /\ CompleteVideoCompletes(s, t) = {}  BY <1>1, <1>5
  <2> HIDE DEF T
  <2> QED  BY <1>3, <1>4, <2>1, <2>2, QuietGood
<1>6. CASE f # NoFence
  <2>1. FencesOf(Lost(s, T)) = {f}  BY <1>6, NoFenceNoLoss
  <2>2. r = FinishFences(d, {f}) /\ CompleteVideoCompletes(s, t) = Completed(d, {f})
    BY <1>1, <1>2, <1>6
  <2> HIDE DEF T, f
  <2> QED  BY <1>3, <1>4, <2>1, <2>2, EndedGood
<1> QED  BY <1>5, <1>6

LEMMA TakeGood ==
  ASSUME NEW s, Good(s)
  PROVE  LET d == TakeActivated(s) IN
         /\ Good(d) /\ Completes(s, {}, d)
         /\ d.entry = s.entry /\ d.queued = s.queued /\ d.activated = <<>>
<1>1. PICK j, e, b : SoundAt(s, j, e, b)  BY DEF Good
<1>2. /\ Staged(s) /\ Fenced(s, j, e, b) /\ Patient(s)  BY <1>1 DEF SoundAt
<1>3. Typed(s) /\ ~ s.failed  BY GoodTyped
<1> DEFINE d == TakeActivated(s)
<1>4. d = [entry |-> s.entry, queued |-> s.queued, fences |-> s.fences, groups |-> s.groups,
           activated |-> <<>>, failed |-> s.failed]
  BY <1>3 DEF Typed, TakeActivated
<1> HIDE DEF d
<1>5. Len(<<>>) = 0 /\ <<>> \in Seq(Ids)  OBVIOUS
<1>6. d \in Coordinator
  <2>1. /\ d.activated = <<>> /\ d.entry = s.entry /\ d.queued = s.queued /\ d.fences = s.fences
        /\ d.groups = s.groups /\ d.failed = s.failed
    BY <1>4
  <2>2. d \in [entry : {d.entry}, queued : [Region -> Seq(Commands)], fences : {d.fences},
              groups : {d.groups}, activated : Seq(Ids), failed : BOOLEAN]
    BY <1>3, <1>4, <1>5 DEF Typed
  <2>3. Typed(d)  BY <1>3, <2>1, <2>2 DEF Typed, Shown
  <2> QED  BY <2>3, TypedIs
<1>7. Staged(d) /\ Live(d) = Live(s)  BY <1>2, <1>4, <1>6, StagedSame
<1>8. Fenced(d, j, e, b)  BY <1>2, <1>4, <1>7, KeepsFences
<1>9. Patient(d)
  <2>1. \A t : Busy(d, t) <=> Busy(s, t)  BY <1>4, BusyIs DEF Shown
  <2> QED  BY <1>2, <1>4, <2>1 DEF Patient, Behind
<1>10. Len(d.activated) <= MaxQueue  BY <1>4, <1>5, RegionsOfTargets
<1>11. \E j1, e1, b1 : SoundAt(d, j1, e1, b1)  BY <1>7, <1>8, <1>9, <1>10 DEF SoundAt
<1>12. Good(d) /\ Completes(s, {}, d)  BY <1>3, <1>4, <1>11 DEF Good, Completes, CompletedIn
<1> QED  BY <1>4, <1>12 DEF d

(* The show of the frames that have been decoded: videos start to play.    *)
StartVideos(s, S) ==
  [s EXCEPT !.entry = [t \in DOMAIN s.entry |->
     IF t \in S THEN [s.entry[t] EXCEPT !.phase = "Playing"] ELSE s.entry[t]]]

LEMMA StartVideosGood ==
  ASSUME NEW s, Good(s), NEW S \in SUBSET Shown(s),
         \A t \in S : RegionOf[t] = "Video" /\ s.entry[t].phase \in {"Prebuffering", "Playing"}
  PROVE  /\ Good(StartVideos(s, S)) /\ Completes(s, {}, StartVideos(s, S))
         /\ Shown(StartVideos(s, S)) = Shown(s) /\ Rests(s, StartVideos(s, S))
<1> DEFINE d == StartVideos(s, S)
           e == [t \in DOMAIN s.entry |->
                   IF t \in S THEN [s.entry[t] EXCEPT !.phase = "Playing"] ELSE s.entry[t]]
<1>1. PICK j, f, b : SoundAt(s, j, f, b)  BY DEF Good
<1>2. Staged(s) /\ Fenced(s, j, f, b) /\ Patient(s) /\ Len(s.activated) <= MaxQueue
  BY <1>1 DEF SoundAt
<1>3. Typed(s) /\ ~ s.failed /\ s \in Coordinator  BY GoodTyped
<1>4. d = [s EXCEPT !.entry = e]  BY DEF StartVideos
<1>5. DOMAIN e = Shown(s) /\ e = [t \in DOMAIN e |-> e[t]]  BY DEF Shown
<1>6. \A t \in Shown(s) : e[t] = IF t \in S THEN [s.entry[t] EXCEPT !.phase = "Playing"]
                                 ELSE s.entry[t]
  BY DEF Shown
<1> HIDE DEF d, e
<1>7. /\ d = [entry |-> d.entry, queued |-> d.queued, fences |-> s.fences, groups |-> s.groups,
              activated |-> d.activated, failed |-> d.failed]
      /\ d.entry = e /\ d.queued = s.queued /\ d.fences = s.fences /\ d.groups = s.groups
      /\ d.activated = s.activated /\ d.failed = s.failed
  BY <1>3, <1>4 DEF Typed
<1>8. \A t \in Shown(s) : t \in Target /\ s.entry[t] \in EntryState /\ Performs(t, s.entry[t])
  BY <1>2, <1>3 DEF Staged, Performing, Typed, Shown
<1>9. ASSUME NEW t \in Shown(s)
      PROVE  /\ e[t] \in EntryState /\ Performs(t, e[t]) /\ MemberOf(e[t]) = MemberOf(s.entry[t])
             /\ Runs(t, s.entry[t]) => Runs(t, e[t])
             /\ e[t].id = s.entry[t].id
  <2>1. CASE t \notin S  BY <1>6, <1>8, <2>1
  <2>2. CASE t \in S
    <3> DEFINE o == s.entry[t]
               n == e[t]
    <3>1. o \in EntryState /\ Performs(t, o) /\ RegionOf[t] = "Video"  BY <1>8, <2>2
    <3>2. n = [o EXCEPT !.phase = "Playing"]  BY <1>6, <2>2
    <3> HIDE DEF o, n
    <3>3. n = [id |-> o.id, fence |-> o.fence, left |-> o.left, phase |-> "Playing", tasks |-> o.tasks]
      BY <3>1, <3>2 DEF EntryState
    <3>4. n \in EntryState /\ MemberOf(n) = MemberOf(o)  BY <3>1, <3>3 DEF EntryState, MemberOf
    <3>5. Runs(t, n) /\ n.fence = o.fence  BY <3>1, <3>3 DEF Runs
    <3>6. n.fence # NoFence => \E x \in Commands : x.target = t /\ x.fence = n.fence
      BY <3>1, <3>5 DEF Performs
    <3>7. Performs(t, n)  BY <3>1, <3>5, <3>6 DEF Performs
    <3>8. n.id = o.id  BY <3>3
    <3> QED  BY <3>4, <3>5, <3>7, <3>8 DEF o, n
  <2> QED  BY <2>1, <2>2
<1>10. Shown(d) = Shown(s)  BY <1>5, <1>7 DEF Shown
<1>11. d \in Coordinator
  <2>1. /\ Shown(s) \subseteq Target /\ s.queued \in [Region -> Seq(Commands)]
        /\ s.activated \in Seq(Ids) /\ s.failed \in BOOLEAN
    BY <1>3 DEF Typed
  <2>2. e \in [Shown(s) -> EntryState]  BY <1>5, <1>9
  <2> QED  BY <1>3, <1>7, <1>10, <2>1, <2>2, FieldsOf
<1>12. Performing(d.entry)
  <2>1. IsFiniteSet(Shown(s))  BY <1>2 DEF Staged, Performing, Shown
  <2> QED  BY <1>5, <1>7, <1>9, <2>1 DEF Performing
<1>13. Staged(d) /\ Live(d) = Live(s)
  <2> DEFINE T == {}
  <2>1. T \in SUBSET Shown(s) /\ Lost(s, T) = {} /\ Shown(s) \ Shown(d) \subseteq T
    BY <1>10 DEF Lost
  <2>2. \A t \in Shown(d) : MemberOf(d.entry[t]) = IF t \in T THEN {} ELSE MemberOf(s.entry[t])
    BY <1>7, <1>9, <1>10
  <2> HIDE DEF T
  <2>3. /\ Staged(s) /\ d \in Coordinator /\ d.queued = s.queued /\ Performing(d.entry)
        /\ T \in SUBSET Shown(s) /\ Shown(d) \subseteq Shown(s) /\ Shown(s) \ Shown(d) \subseteq T
    BY <1>2, <1>7, <1>10, <1>11, <1>12, <2>1
  <2>5. Staged(d) /\ Live(d) = Live(s) \ Lost(s, T)
    BY ONLY <2>2, <2>3, EndFacts
  <2>4. \A A : A \ {} = A  OBVIOUS
  <2> QED  BY <2>1, <2>4, <2>5
<1>14. Fenced(d, j, f, b)  BY <1>2, <1>7, <1>13, KeepsFences
<1>15. Patient(d)
  <2>1. \A t : Busy(s, t) => Busy(d, t)  BY <1>7, <1>9, <1>10, BusyIs
  <2>2. \A r \in Region : Behind(s, r) => Behind(d, r)  BY <1>7, <2>1 DEF Behind
  <2> QED  BY <1>2, <2>2 DEF Patient
<1>16. \E j1, e1, b1 : SoundAt(d, j1, e1, b1)  BY <1>2, <1>7, <1>13, <1>14, <1>15 DEF SoundAt
<1>17. Good(d) /\ Completes(s, {}, d)  BY <1>3, <1>7, <1>16 DEF Good, Completes, CompletedIn
<1>18. Rests(s, d)
  <2>1. \A t \in Shown(s) : RegionOf[t] \in Moving => e[t] = s.entry[t]  BY <1>6 DEF Moving
  <2> QED  BY <1>7, <1>9, <1>10, <2>1 DEF Rests
<1> QED  BY <1>10, <1>17, <1>18 DEF d

LEMMA NewGood == Good(NewCoordinator) /\ DOMAIN NewCoordinator.fences = {}
<1>1. DOMAIN <<>> = {} /\ NewCoordinator.fences = <<>> /\ NewCoordinator.failed = FALSE
  BY DEF NewCoordinator
<1>2. \E j, e, b : SoundAt(NewCoordinator, j, e, b)  BY NewSound
<1> QED  BY <1>1, <1>2 DEF Good
===============================================================================
