------------------------ MODULE MachineSchedulerProofs ------------------------
(***************************************************************************)
(* No two machines of a wave conflict by what their actions declare now,   *)
(* at most one of them draws ids, and ticks with waves implement machines  *)
(* that run one after the other, for any machines and actions whose        *)
(* declarations are complete (ReadsAreDeclared, WritesAreDeclared).  And   *)
(* the budget of permits the process's workers share (WorkerBudget), which *)
(* has no variable or constant in common with the scheduler, for every     *)
(* finite set of threads, every set of brokers, every limit and every      *)
(* bound on the tickets: permits are conserved, tickets stay in line and   *)
(* wakeups are not lost.                                                   *)
(***************************************************************************)
EXTENDS MachineScheduler, WorkerBudget, CommonLemmas, SequenceTheorems

(* The inductive invariant *)

(* Types of what TypeOK leaves open. *)
Typed ==
  /\ registry \in Registry
  /\ instance \in [Machine -> Instance] /\ board \in Board /\ events \in 0 .. MaxEvents
  /\ placed \in Seq(Machine) /\ unplaced \in Seq(Machine)
  /\ wave \in [Machine -> Nat] /\ open \in Nat

(* A machine is in the tick once. *)
Injective(s) == \A i, j \in DOMAIN s : s[i] = s[j] => i = j
EachMachineOnce ==
  /\ Injective(placed) /\ Injective(unplaced)
  /\ ToSet(placed) \cap ToSet(unplaced) = {}

(* Waves are one after the other. *)
InWaveOrder == \A i, j \in DOMAIN placed : i <= j => wave[placed[i]] <= wave[placed[j]]

(* Cached plans are those of the registry, if of its epoch, as they are    *)
(* during a tick.                                                          *)
PlansAreOfEpoch ==
  /\ plan_epoch = epoch => \A m \in DOMAIN plans : plans[m] = Plan(m, registry)
  /\ phase \in {"planning", "running"} => plan_epoch = epoch /\ DOMAIN plans = installed

(* Candidates are made while waves run, of the first one. *)
CandidatesOfFirstWave ==
  /\ phase # "running" => DOMAIN candidates = {}
  /\ \A m \in DOMAIN candidates : wave[m] = wave[Head(placed)]

(* A candidate, though made of the snapshot of its wave, is what the       *)
(* machine would make of the blackboard there is now.                      *)
CandidatesAreCurrent ==
  \A m \in DOMAIN candidates :
    candidates[m].run = Execute(m, instance[m], registry, events, board)

IInv ==
  /\ TypeOK
  /\ Typed
  /\ EachMachineOnce
  /\ InWaveOrder
  /\ PlansAreOfEpoch
  /\ WavesAreConflictFree
  /\ CandidatesOfFirstWave
  /\ CandidatesAreCurrent
-------------------------------------------------------------------------------
(* Finitely many numbers can be put in order. *)
LEMMA Ordered ==
  ASSUME NEW S, S \subseteq Nat, IsFiniteSet(S)
  PROVE  \E s \in [1 .. Cardinality(S) -> S] : \A i, j \in DOMAIN s : i < j => s[i] < s[j]
<1> DEFINE T == {n \in Nat : \A U \in SUBSET Nat : IsFiniteSet(U) /\ Cardinality(U) = n
                   => \E s \in [1 .. n -> U] : \A i, j \in 1 .. n : i < j => s[i] < s[j]}
<1>1. 0 \in T
  <2> SUFFICES ASSUME NEW U \in SUBSET Nat
               PROVE  \E s \in [1 .. 0 -> U] : \A i, j \in 1 .. 0 : i < j => s[i] < s[j]
    OBVIOUS
  <2> DEFINE s == [i \in 1 .. 0 |-> 0]
  <2>1. s \in [1 .. 0 -> U] /\ \A i \in 1 .. 0 : FALSE  OBVIOUS
  <2> QED  BY <2>1
<1>2. ASSUME NEW n \in Nat, n \in T PROVE n + 1 \in T
  <2> SUFFICES ASSUME NEW U \in SUBSET Nat, IsFiniteSet(U), Cardinality(U) = n + 1
               PROVE  \E s \in [1 .. n + 1 -> U] :
                        \A i, j \in 1 .. n + 1 : i < j => s[i] < s[j]
    OBVIOUS
  <2>1. n + 1 # 0  OBVIOUS
  <2>2. U # {}  BY <2>1, FS_EmptySet, Zenon
  <2>3. PICK k \in Nat : \A m \in U : m <= k  BY FiniteHasBound
  <2>4. PICK x \in U : \A m \in U : m <= x  BY <2>2, <2>3, Greatest
  <2>5. IsFiniteSet(U \ {x}) /\ Cardinality(U \ {x}) = Cardinality(U) - 1
    BY <2>4, FS_RemoveElement, Zenon
  <2>6. PICK s \in [1 .. n -> U \ {x}] : \A i, j \in 1 .. n : i < j => s[i] < s[j]
    BY <1>2, <2>5
  <2> DEFINE t == [i \in 1 .. n + 1 |-> IF i = n + 1 THEN x ELSE s[i]]
  <2>7. t \in [1 .. n + 1 -> U]  BY <2>6
  <2>8. ASSUME NEW i \in 1 .. n + 1, NEW j \in 1 .. n + 1, i < j PROVE t[i] < t[j]
    <3>1. i \in 1 .. n /\ t[i] = s[i] /\ s[i] \in U \ {x}  BY <2>6, <2>8
    <3>2. CASE j = n + 1
      <4>1. s[i] <= x /\ s[i] # x /\ s[i] \in Nat /\ x \in Nat  BY <3>1, <2>4
      <4> QED  BY <4>1, <3>1, <3>2
    <3>3. CASE j # n + 1
      <4>1. j \in 1 .. n  BY <3>3
      <4> QED  BY <4>1, <3>1, <2>6, <2>8
    <3> QED  BY <3>2, <3>3
  <2> HIDE DEF t
  <2> QED  BY <2>7, <2>8
<1>3. \A n \in Nat : n \in T
  <2> HIDE DEF T
  <2> QED  BY <1>1, <1>2, Induction
<1>4. Cardinality(S) \in Nat  BY FS_CardinalityType
<1>5. PICK s \in [1 .. Cardinality(S) -> S] :
        \A i, j \in 1 .. Cardinality(S) : i < j => s[i] < s[j]
  BY <1>3, <1>4
<1> QED  BY <1>5

(* A tick puts each machine once, all of them added. *)
LEMMA InOrderIsOnce ==
  ASSUME NEW S \in SUBSET Machine
  PROVE  /\ Serial!InOrder(S) \in Seq(S)
         /\ Injective(Serial!InOrder(S))
<1>1. IsFiniteSet(S) /\ S \subseteq Nat  BY SchedulerBounds, FS_Subset
<1>2. Cardinality(S) \in Nat  BY <1>1, FS_CardinalityType
<1> DEFINE s == Serial!InOrder(S)
<1>6. Serial!Cardinality(S) = Cardinality(S)
  BY DEF Serial!Cardinality, Cardinality
<1>3. s \in [1 .. Cardinality(S) -> S] /\ \A i, j \in DOMAIN s : i < j => s[i] < s[j]
  BY <1>1, <1>6, Ordered DEF Serial!InOrder
<1> HIDE DEF s
<1>4. s \in Seq(S) /\ DOMAIN s = 1 .. Cardinality(S)  BY <1>2, <1>3
<1>5. ASSUME NEW i \in DOMAIN s, NEW j \in DOMAIN s, s[i] = s[j] PROVE i = j
  <2>1. i \in 1 .. Cardinality(S) /\ j \in 1 .. Cardinality(S)  BY <1>4
  <2>2. s[i] \in S /\ s[j] \in S  BY <1>3, <2>1
  <2>3. s[i] \in Nat /\ s[j] \in Nat  BY <1>1, <2>2
  <2>4. i \in Nat /\ j \in Nat  BY <1>2, <2>1
  <2> QED  BY <1>3, <1>5, <2>3, <2>4
<1> QED  BY <1>4, <1>5 DEF s, Injective

-------------------------------------------------------------------------------
(* Access *)

LEMMA ConflictsAreSymmetric ==
  ASSUME NEW p, NEW q
  PROVE  AccessConflicts(p, q) <=> AccessConflicts(q, p)
BY DEF AccessConflicts, SetsConflict, Overlap

(* Of two plans without conflict neither declares what the other writes. *)
LEMMA WrittenIsNotDeclared ==
  ASSUME NEW p \in AccessPlan, NEW q \in AccessPlan, ~ AccessConflicts(p, q),
         NEW k \in Key, IsDeclared(p.writes, k)
  PROVE  ~ IsDeclared(q.reads \cup q.writes, k)
<1>1. SUFFICES ASSUME NEW d \in q.reads \cup q.writes, Overlap(d, k)
               PROVE  FALSE
  BY DEF IsDeclared
<1>2. PICK w \in p.writes : Overlap(w, k)  BY DEF IsDeclared
<1>3. k # "Blackboard"  BY KeysAreNoClass
<1>4. d \in {k, "Blackboard"} /\ w \in {k, "Blackboard"}
  BY <1>1, <1>2, <1>3 DEF Overlap
<1>5. Overlap(w, d)  BY <1>4 DEF Overlap
<1> QED  BY <1>1, <1>2, <1>5 DEF AccessConflicts, SetsConflict

(* Two plans that both write the source of ids conflict. *)
LEMMA DrawersConflict ==
  ASSUME NEW p, NEW q, "StableIdSource" \in p.writes, "StableIdSource" \in q.writes
  PROVE  AccessConflicts(p, q)
BY DEF AccessConflicts, SetsConflict, Overlap

(* What a machine makes of the blackboard is as before when another of its *)
(* wave has committed.                                                     *)
LEMMA CommitIsInvisible ==
  ASSUME NEW m \in Machine, NEW n \in Machine, NEW i \in Instance, NEW j \in Instance,
         NEW r \in Registry, NEW e \in 0 .. MaxEvents, NEW b \in Board,
         ~ AccessConflicts(Plan(n, r), Plan(m, r)),
         ~ Execute(n, j, r, e, b).failed
  PROVE  Execute(m, i, r, e, Serial!Commit(Execute(n, j, r, e, b).delta, b))
           = Execute(m, i, r, e, b)
<1> DEFINE c == Execute(n, j, r, e, b)
           d == Serial!Commit(c.delta, b)
           p == Plan(n, r)
           q == Plan(m, r)
<1>1. p \in AccessPlan /\ q \in AccessPlan  BY ExecuteMakesCandidates
<1>2. ~ p.serial /\ ~ q.serial  BY DEF AccessConflicts
<1>3. DOMAIN c.delta \subseteq Key /\ \A k \in DOMAIN c.delta : c.delta[k] \in Datum
  BY ExecuteMakesCandidates
<1>4. \A k \in DOMAIN c.delta : IsDeclared(p.writes, k)  BY <1>2, WritesAreDeclared
<1>5. d \in Board  BY <1>3 DEF Board, Serial!Commit
<1>6. ASSUME NEW k \in Key, IsDeclared(q.reads \cup q.writes, k) PROVE b[k] = d[k]
  <2>1. k \notin DOMAIN c.delta  BY <1>1, <1>4, <1>6, WrittenIsNotDeclared
  <2>2. k \in DOMAIN b  BY DEF Board
  <2> QED  BY <2>1, <2>2 DEF Serial!Commit
<1> HIDE DEF d
<1>7. Execute(m, i, r, e, b) = Execute(m, i, r, e, d)  BY <1>2, <1>5, <1>6, ReadsAreDeclared
<1> QED  BY <1>7 DEF d
-------------------------------------------------------------------------------
LEMMA HeadIsThere ==
  ASSUME NEW S, NEW s \in Seq(S), s # <<>>
  PROVE  /\ Head(s) = s[1] /\ 1 \in DOMAIN s
         /\ Head(s) \in S /\ Head(s) \in ToSet(s)
<1>1. Len(s) \in Nat \ {0} /\ DOMAIN s = 1 .. Len(s)  BY EmptySeq, LenProperties
<1>2. 1 \in DOMAIN s /\ Head(s) = s[1]  BY <1>1
<1> QED  BY <1>1, <1>2, ElementOfSeq DEF ToSet

LEMMA NothingIsEmpty == ToSet(<<>>) = {}
BY DEF ToSet

(* The invariant, action by action *)

LEMMA InitIInv == Init => IInv
<1> SUFFICES ASSUME Init PROVE IInv  OBVIOUS
<1> USE SchedulerBounds DEF Init
<1>1. ToSet(placed) = {} /\ ToSet(unplaced) = {}  BY DEF ToSet
<1>2. TypeOK  BY <1>1 DEF TypeOK
<1>3. registry \in Registry
  <2>1. registry \in [{} -> UNION {Offered[n] : n \in {}}]  OBVIOUS
  <2> QED  BY <2>1 DEF Registry, Serial!Registries
<1>4. Typed  BY <1>3 DEF Typed
<1>5. EachMachineOnce /\ InWaveOrder  BY <1>1 DEF EachMachineOnce, InWaveOrder, Injective
<1>6. PlansAreOfEpoch /\ CandidatesOfFirstWave /\ CandidatesAreCurrent
  BY DEF PlansAreOfEpoch, CandidatesOfFirstWave, CandidatesAreCurrent
<1>7. WavesAreConflictFree  BY <1>1 DEF WavesAreConflictFree
<1> QED  BY <1>2, <1>4, <1>5, <1>6, <1>7 DEF IInv

LEMMA AddMachineIInv ==
  ASSUME IInv, NEW m \in Machine, AddMachine(m)
  PROVE  IInv'
<1> USE DEF IInv, AddMachine, registryVars, waveVars, idVars
<1>1. TypeOK'  BY SchedulerBounds DEF TypeOK
<1>2. Typed'  BY DEF Typed
<1>3. EachMachineOnce' /\ InWaveOrder'  BY DEF EachMachineOnce, InWaveOrder, Injective
<1>4. PlansAreOfEpoch'  BY DEF PlansAreOfEpoch
<1>5. CandidatesOfFirstWave'  BY DEF CandidatesOfFirstWave
<1>6. CandidatesAreCurrent'  BY DEF CandidatesAreCurrent
<1>7. WavesAreConflictFree'  BY DEF WavesAreConflictFree
<1> QED  BY <1>1, <1>2, <1>3, <1>4, <1>5, <1>6, <1>7

(* A new registry, between ticks, of a new epoch. *)
LEMMA SetRegistryIInv ==
  ASSUME IInv, phase \in {"idle", "failed"}, epoch < MaxEpoch,
         registry' \in Registry, epoch' = epoch + 1,
         UNCHANGED <<instance, board, events, reports, phase, step>>,
         UNCHANGED <<storeVars, waveVars, idVars>>
  PROVE  IInv'
<1> USE DEF IInv, storeVars, waveVars, idVars
<1>1. TypeOK'
  <2>1. DOMAIN registry' \subseteq DOMAIN Offered
        /\ \A n \in DOMAIN registry' :
             registry'[n] \in Offered[n] /\ ValidDescriptor(registry'[n])
    BY DEF Registry, Serial!Registries
  <2> QED  BY <2>1, SchedulerBounds DEF TypeOK
<1>2. Typed'  BY DEF Typed
<1>3. EachMachineOnce' /\ InWaveOrder'  BY DEF EachMachineOnce, InWaveOrder, Injective
<1>4. PlansAreOfEpoch'  BY SchedulerBounds DEF PlansAreOfEpoch, TypeOK
<1>5. CandidatesOfFirstWave' /\ DOMAIN candidates' = {}  BY DEF CandidatesOfFirstWave
<1>6. CandidatesAreCurrent'  BY <1>5 DEF CandidatesAreCurrent
<1>7. WavesAreConflictFree'
  <2>1. placed' = <<>>  BY DEF TypeOK
  <2>2. ToSet(placed') = {}  BY <2>1 DEF ToSet
  <2> QED  BY <2>2 DEF WavesAreConflictFree
<1> QED  BY <1>1, <1>2, <1>3, <1>4, <1>5, <1>6, <1>7

LEMMA RegisteredIsRegistry ==
  ASSUME IInv, NEW name \in DOMAIN Offered, NEW a \in Offered[name], RegisterAction(name, a)
  PROVE  registry' \in Registry
<1>1. registry \in Registry  BY DEF IInv, Typed
<1>2. DOMAIN registry' = DOMAIN registry \cup {name}  BY DEF RegisterAction
<1>3. DOMAIN registry \subseteq DOMAIN Offered /\ DOMAIN registry' \subseteq DOMAIN Offered
  BY <1>1, <1>2 DEF Registry, Serial!Registries
<1>4. \A n \in DOMAIN registry' : registry'[n] \in Offered[n] /\ ValidDescriptor(registry'[n])
  BY <1>1 DEF RegisterAction, Registry
<1>5. registry' \in [DOMAIN registry' -> UNION {Offered[n] : n \in DOMAIN registry'}]
  BY <1>4 DEF RegisterAction
<1> QED  BY <1>3, <1>4, <1>5 DEF Registry, Serial!Registries

LEMMA KeptIsRegistry ==
  ASSUME IInv, NEW p, UnregisterProvider(p)
  PROVE  registry' \in Registry
<1>1. registry \in Registry  BY DEF IInv, Typed
<1>2. DOMAIN registry' \subseteq DOMAIN registry  BY DEF UnregisterProvider
<1>3. DOMAIN registry \subseteq DOMAIN Offered /\ DOMAIN registry' \subseteq DOMAIN Offered
  BY <1>1, <1>2 DEF Registry, Serial!Registries
<1>4. \A n \in DOMAIN registry' : registry'[n] \in Offered[n] /\ ValidDescriptor(registry'[n])
  BY <1>1 DEF UnregisterProvider, Registry
<1>5. registry' \in [DOMAIN registry' -> UNION {Offered[n] : n \in DOMAIN registry'}]
  BY <1>4 DEF UnregisterProvider
<1> QED  BY <1>3, <1>4, <1>5 DEF Registry, Serial!Registries

LEMMA CreateActorIInv ==
  ASSUME IInv, CreateActor
  PROVE  IInv'
<1> USE DEF IInv, CreateActor, storeVars, registryVars, waveVars
<1>1. TypeOK' /\ Typed'  BY DEF TypeOK, Typed
<1>2. EachMachineOnce' /\ InWaveOrder'  BY DEF EachMachineOnce, InWaveOrder, Injective
<1>3. PlansAreOfEpoch' /\ CandidatesOfFirstWave' /\ CandidatesAreCurrent'
  BY DEF PlansAreOfEpoch, CandidatesOfFirstWave, CandidatesAreCurrent
<1>4. WavesAreConflictFree'  BY DEF WavesAreConflictFree
<1> QED  BY <1>1, <1>2, <1>3, <1>4

LEMMA BeginTickIInv ==
  ASSUME IInv, NEW n \in 0 .. MaxEvents, BeginTick(n)
  PROVE  IInv'
<1> USE DEF IInv, BeginTick, registryVars, idVars
<1>1. /\ placed = <<>> /\ placed' = <<>> /\ ToSet(placed') = {} /\ DOMAIN placed' = {}
      /\ DOMAIN candidates' = {}
  BY DEF TypeOK, CandidatesOfFirstWave, ToSet
<1>2. Serial!Runnable \subseteq installed /\ Serial!Runnable \in SUBSET Machine
  BY DEF Serial!Runnable, TypeOK
<1>3. unplaced' \in Seq(Serial!Runnable) /\ Injective(unplaced')  BY <1>2, InOrderIsOnce
<1>4. ToSet(unplaced') \subseteq installed /\ unplaced' \in Seq(Machine)
  BY <1>2, <1>3 DEF ToSet
<1>5. plan_epoch' = epoch' /\ DOMAIN plans' = installed'
      /\ \A m \in DOMAIN plans' : plans'[m] = Plan(m, registry')
  <2>1. CASE PlansAreCurrent
    <3>1. IsFiniteSet(installed)  BY SchedulerBounds, FS_Subset DEF TypeOK
    <3>2. DOMAIN plans = installed  BY <2>1, <3>1, FS_Subset DEF PlansAreCurrent, TypeOK
    <3>3. plan_epoch' = plan_epoch /\ plans' = plans
      BY <2>1
    <3> QED  BY <2>1, <3>2, <3>3 DEF PlansAreCurrent, PlansAreOfEpoch
  <2>2. CASE ~ PlansAreCurrent  BY <2>2
  <2> QED  BY <2>1, <2>2
<1>6. TypeOK'
  <2>1. \A m \in DOMAIN plans' : plans'[m] \in AccessPlan
    <3>1. \A m \in Machine : Plan(m, registry) \in AccessPlan
      BY SchedulerBounds, ExecuteMakesCandidates DEF Typed
    <3> QED  BY <1>5, <3>1 DEF TypeOK
  <2>2. plan_epoch' \in 0 .. epoch'  BY <1>5, SchedulerBounds DEF TypeOK
  <2>3. step' \in 0 .. MaxStep  BY SchedulerBounds DEF TypeOK
  <2>4. \A m \in Machine : wave'[m] \in 0 .. open'  OBVIOUS
  <2> QED  BY <1>1, <1>4, <1>5, <2>1, <2>2, <2>3, <2>4 DEF TypeOK
<1>7. Typed'  BY <1>1, <1>4 DEF Typed
<1>8. EachMachineOnce' /\ InWaveOrder'
  BY <1>1, <1>3 DEF EachMachineOnce, InWaveOrder, Injective
<1>9. PlansAreOfEpoch'  BY <1>5 DEF PlansAreOfEpoch
<1>10. CandidatesOfFirstWave' /\ CandidatesAreCurrent'
  BY <1>1 DEF CandidatesOfFirstWave, CandidatesAreCurrent
<1>11. WavesAreConflictFree'  BY <1>1 DEF WavesAreConflictFree
<1> QED  BY <1>6, <1>7, <1>8, <1>9, <1>10, <1>11

LEMMA PlaceMachineIInv ==
  ASSUME IInv, PlaceMachine
  PROVE  IInv'
<1> DEFINE m == Head(unplaced)
           into == IF Conflicts(m) /\ Current # {} THEN open + 1 ELSE open
<1> USE DEF IInv, storeVars, registryVars, idVars
<1>1. /\ phase = "planning" /\ unplaced # <<>>
      /\ wave' = [wave EXCEPT ![m] = into]
      /\ open' = IF plans[m].serial THEN into + 1 ELSE into
      /\ placed' = Append(placed, m)
      /\ unplaced' = Tail(unplaced)
      /\ UNCHANGED <<instance, board, events, reports, phase, step, candidates>>
      /\ UNCHANGED <<storeVars, registryVars, idVars>>
  BY DEF PlaceMachine
<1>2. m \in Machine /\ m \in ToSet(unplaced) /\ m \notin ToSet(placed) /\ m \in installed
  <2>1. m \in Machine /\ m \in ToSet(unplaced)  BY <1>1, HeadIsThere DEF Typed
  <2> QED  BY <2>1 DEF EachMachineOnce, TypeOK
<1>3. /\ into \in Nat /\ into >= open /\ open' \in Nat /\ open' >= into
      /\ wave'[m] = into /\ \A k \in Machine \ {m} : wave'[k] = wave[k]
      /\ wave' \in [Machine -> Nat]
  BY <1>1, <1>2 DEF Typed
<1>4. \A k \in Machine : wave[k] \in 0 .. open /\ wave'[k] \in 0 .. open'
  BY <1>1, <1>2, <1>3 DEF TypeOK, Typed
<1>5. /\ placed' \in Seq(Machine) /\ Len(placed') = Len(placed) + 1
      /\ DOMAIN placed = 1 .. Len(placed) /\ DOMAIN placed' = 1 .. Len(placed) + 1
      /\ \A i \in DOMAIN placed : placed'[i] = placed[i] /\ placed[i] \in ToSet(placed)
      /\ placed'[Len(placed) + 1] = m /\ Len(placed) \in Nat
  BY <1>1, <1>2, AppendProperties DEF Typed, ToSet
<1>6. ToSet(placed') = ToSet(placed) \cup {m}
  BY <1>5 DEF ToSet
<1>7. /\ unplaced' \in Seq(Machine) /\ Len(unplaced') = Len(unplaced) - 1
      /\ DOMAIN unplaced = 1 .. Len(unplaced) /\ DOMAIN unplaced' = 1 .. Len(unplaced) - 1
      /\ \A i \in DOMAIN unplaced' : unplaced'[i] = unplaced[i + 1]
      /\ m = unplaced[1] /\ Len(unplaced) \in Nat \ {0}
  BY <1>1, HeadTailProperties DEF Typed
<1>8. ToSet(unplaced') \subseteq ToSet(unplaced) \ {m}
  <2> SUFFICES ASSUME NEW i \in DOMAIN unplaced'
               PROVE  unplaced'[i] \in ToSet(unplaced) /\ unplaced'[i] # m
    BY DEF ToSet
  <2>1. i + 1 \in DOMAIN unplaced /\ 1 \in DOMAIN unplaced /\ i + 1 # 1  BY <1>7
  <2> QED  BY <1>7, <2>1 DEF EachMachineOnce, Injective, ToSet
<1>9. TypeOK'
  <2>1. ToSet(placed') \cup ToSet(unplaced') \subseteq installed'
    BY <1>1, <1>2, <1>6, <1>8 DEF TypeOK
  <2>2. DOMAIN candidates' \subseteq ToSet(placed')  BY <1>1, <1>6 DEF TypeOK
  <2> QED  BY <1>1, <1>4, <2>1, <2>2 DEF TypeOK
<1>10. Typed'  BY <1>1, <1>3, <1>5, <1>7 DEF Typed
<1>11. EachMachineOnce'
  <2>1. ASSUME NEW i \in DOMAIN placed', NEW j \in DOMAIN placed', placed'[i] = placed'[j]
        PROVE  i = j
    <3>1. CASE i \in DOMAIN placed /\ j \in DOMAIN placed
      BY <1>5, <2>1, <3>1 DEF EachMachineOnce, Injective
    <3>2. CASE i = Len(placed) + 1 /\ j \in DOMAIN placed
      BY <1>2, <1>5, <2>1, <3>2
    <3>3. CASE j = Len(placed) + 1 /\ i \in DOMAIN placed
      BY <1>2, <1>5, <2>1, <3>3
    <3> QED  BY <1>5, <3>1, <3>2, <3>3
  <2>2. ASSUME NEW i \in DOMAIN unplaced', NEW j \in DOMAIN unplaced',
               unplaced'[i] = unplaced'[j]
        PROVE  i = j
    <3>1. i + 1 \in DOMAIN unplaced /\ j + 1 \in DOMAIN unplaced  BY <1>7
    <3>2. i + 1 = j + 1  BY <1>7, <2>2, <3>1 DEF EachMachineOnce, Injective
    <3> QED  BY <1>7, <3>2
  <2>3. ToSet(placed') \cap ToSet(unplaced') = {}
    BY <1>6, <1>8 DEF EachMachineOnce
  <2> QED  BY <2>1, <2>2, <2>3 DEF EachMachineOnce, Injective
<1>12. InWaveOrder'
  <2> SUFFICES ASSUME NEW i \in DOMAIN placed', NEW j \in DOMAIN placed', i <= j
               PROVE  wave'[placed'[i]] <= wave'[placed'[j]]
    BY DEF InWaveOrder
  <2>1. CASE j \in DOMAIN placed
    <3>1. i \in DOMAIN placed  BY <1>5, <2>1
    <3>2. placed[i] \in Machine \ {m} /\ placed[j] \in Machine \ {m}
      BY <1>2, <1>5, <2>1, <3>1 DEF Typed
    <3> QED  BY <1>3, <1>5, <2>1, <3>1, <3>2 DEF InWaveOrder
  <2>2. CASE j = Len(placed) + 1 /\ i \in DOMAIN placed
    <3>1. placed[i] \in Machine \ {m}  BY <1>2, <1>5, <2>2 DEF Typed
    <3>2. wave'[placed'[i]] = wave[placed[i]] /\ wave[placed[i]] \in 0 .. open
      BY <1>3, <1>4, <1>5, <2>2, <3>1
    <3>3. wave'[placed'[j]] = into  BY <1>3, <1>5, <2>2
    <3> QED  BY <1>3, <3>2, <3>3 DEF Typed
  <2>3. CASE i = Len(placed) + 1 /\ j = Len(placed) + 1
    BY <1>3, <1>5, <2>3
  <2> QED  BY <1>5, <2>1, <2>2, <2>3
<1>13. PlansAreOfEpoch'  BY <1>1 DEF PlansAreOfEpoch
<1>14. CandidatesOfFirstWave' /\ CandidatesAreCurrent'
  BY <1>1 DEF CandidatesOfFirstWave, CandidatesAreCurrent
<1>15. \A k \in ToSet(placed) : wave[k] = into => ~ AccessConflicts(plans[m], plans[k])
  <2> SUFFICES ASSUME NEW k \in ToSet(placed), wave[k] = into
               PROVE  ~ AccessConflicts(plans[m], plans[k])
    OBVIOUS
  <2>1. k \in Machine /\ wave[k] \in 0 .. open  BY <1>4 DEF Typed, ToSet
  <2>2. into = open /\ k \in Current  BY <1>3, <2>1 DEF Current, Typed
  <2>3. ~ Conflicts(m)  BY <2>2 DEF Typed
  <2> QED  BY <2>2, <2>3 DEF Conflicts
<1>16. WavesAreConflictFree'
  <2> DEFINE Free(k, l) == ~ AccessConflicts(Plan(k, registry), Plan(l, registry))
  <2>1. \A k \in installed : plans[k] = Plan(k, registry)  BY <1>1 DEF PlansAreOfEpoch
  <2>2. \A k \in ToSet(placed) : wave[k] = into => Free(m, k) /\ Free(k, m)
    BY <1>2, <1>15, <2>1, ConflictsAreSymmetric DEF TypeOK
  <2>3. \A k \in ToSet(placed) : k \in Machine \ {m}  BY <1>2 DEF Typed, ToSet
  <2> SUFFICES ASSUME NEW k \in ToSet(placed'), NEW l \in ToSet(placed'),
                      k # l, wave'[k] = wave'[l]
               PROVE  Free(k, l)
    BY <1>1 DEF WavesAreConflictFree
  <2>4. CASE k \in ToSet(placed) /\ l \in ToSet(placed)
    BY <1>3, <2>3, <2>4 DEF WavesAreConflictFree
  <2>5. CASE k = m /\ l \in ToSet(placed)
    BY <1>3, <2>2, <2>3, <2>5
  <2>6. CASE l = m /\ k \in ToSet(placed)
    BY <1>3, <2>2, <2>3, <2>6
  <2> QED  BY <1>6, <2>4, <2>5, <2>6
<1> QED  BY <1>9, <1>10, <1>11, <1>12, <1>13, <1>14, <1>16

LEMMA StartWavesIInv ==
  ASSUME IInv, StartWaves
  PROVE  IInv'
<1> USE DEF IInv, StartWaves, storeVars, registryVars, waveVars, idVars
<1>1. TypeOK' /\ Typed'  BY DEF TypeOK, Typed
<1>2. EachMachineOnce' /\ InWaveOrder'  BY DEF EachMachineOnce, InWaveOrder, Injective
<1>3. PlansAreOfEpoch' /\ CandidatesOfFirstWave' /\ CandidatesAreCurrent'
  BY DEF PlansAreOfEpoch, CandidatesOfFirstWave, CandidatesAreCurrent
<1>4. WavesAreConflictFree'  BY DEF WavesAreConflictFree
<1> QED  BY <1>1, <1>2, <1>3, <1>4

LEMMA ExecuteCandidateIInv ==
  ASSUME IInv, NEW m \in Machine, ExecuteCandidate(m)
  PROVE  IInv'
<1> USE DEF IInv, ExecuteCandidate, storeVars, registryVars, idVars
<1>1. m \in ToSet(placed) /\ wave[m] = wave[Head(placed)]  BY DEF FirstWave
<1>2. DOMAIN candidates' = DOMAIN candidates \cup {m}  OBVIOUS
<1>3. TypeOK' /\ Typed'  BY <1>1, <1>2 DEF TypeOK, Typed
<1>4. EachMachineOnce' /\ InWaveOrder'  BY DEF EachMachineOnce, InWaveOrder, Injective
<1>5. PlansAreOfEpoch' /\ CandidatesOfFirstWave'
  BY <1>1, <1>2 DEF PlansAreOfEpoch, CandidatesOfFirstWave
<1>6. CandidatesAreCurrent'  BY <1>2 DEF CandidatesAreCurrent
<1>7. WavesAreConflictFree'  BY DEF WavesAreConflictFree
<1> QED  BY <1>3, <1>4, <1>5, <1>6, <1>7

LEMMA CommitCandidateIInv ==
  ASSUME IInv, CommitCandidate
  PROVE  IInv'
<1> DEFINE h == Head(placed)
           c == candidates[h]
<1> USE DEF IInv, storeVars, registryVars
<1>1. /\ phase = "running" /\ WaveIsExecuted
      /\ candidates' = [n \in DOMAIN candidates \ {h} |-> candidates[n]]
      /\ placed' = Tail(placed)
      /\ UNCHANGED <<events, phase, step, unplaced, wave, open, storeVars, registryVars>>
  BY DEF CommitCandidate
<1>2. \/ c.run.failed /\ UNCHANGED <<instance, board>>
      \/ /\ ~ c.run.failed
         /\ instance' = [instance EXCEPT ![h] = c.run.instance]
         /\ board' = Serial!Commit(c.run.delta, board)
  BY DEF CommitCandidate
<1>3. /\ placed # <<>> /\ h \in Machine /\ h \in ToSet(placed) /\ h \in DOMAIN candidates
  <2>1. placed # <<>>  BY <1>1 DEF WaveIsExecuted
  <2>2. h \in Machine /\ h \in ToSet(placed)  BY <2>1, HeadIsThere DEF Typed
  <2> QED  BY <1>1, <2>1, <2>2 DEF WaveIsExecuted, FirstWave
<1>4. c.run = Execute(h, instance[h], registry, events, board) /\ instance[h] \in Instance
  BY <1>3 DEF CandidatesAreCurrent, Typed
<1>5. instance' \in [Machine -> Instance] /\ board' \in Board
  <2>1. ~ c.run.failed => /\ c.run.instance \in Instance
                          /\ DOMAIN c.run.delta \subseteq Key
                          /\ \A k \in DOMAIN c.run.delta : c.run.delta[k] \in Datum
    BY <1>3, <1>4, ExecuteMakesCandidates DEF Typed
  <2> QED  BY <1>2, <2>1 DEF Typed, Serial!Commit, Board
<1>6. /\ placed' \in Seq(Machine) /\ Len(placed') = Len(placed) - 1
      /\ DOMAIN placed = 1 .. Len(placed) /\ DOMAIN placed' = 1 .. Len(placed) - 1
      /\ \A i \in DOMAIN placed' : placed'[i] = placed[i + 1]
      /\ h = placed[1] /\ Len(placed) \in Nat \ {0}
  BY <1>1, <1>3, HeadTailProperties DEF Typed
<1>7. ToSet(placed') = ToSet(placed) \ {h}
  <2>1. \A i \in DOMAIN placed' : i + 1 \in DOMAIN placed /\ placed[i + 1] # h
    <3> SUFFICES ASSUME NEW i \in DOMAIN placed'
                 PROVE  i + 1 \in DOMAIN placed /\ placed[i + 1] # h
      OBVIOUS
    <3>1. i + 1 \in DOMAIN placed /\ 1 \in DOMAIN placed /\ i + 1 # 1  BY <1>6
    <3> QED  BY <1>6, <3>1 DEF EachMachineOnce, Injective
  <2>2. ASSUME NEW i \in DOMAIN placed, i # 1
        PROVE  i - 1 \in DOMAIN placed' /\ placed'[i - 1] = placed[i]
    <3>1. i \in Nat /\ i - 1 \in DOMAIN placed' /\ (i - 1) + 1 = i  BY <1>6, <2>2
    <3> QED  BY <1>6, <3>1
  <2>3. ToSet(placed') \subseteq ToSet(placed) \ {h}  BY <1>6, <2>1 DEF ToSet
  <2>4. ToSet(placed) \ {h} \subseteq ToSet(placed')
    <3> SUFFICES ASSUME NEW i \in DOMAIN placed, placed[i] # h
                 PROVE  placed[i] \in ToSet(placed')
      BY DEF ToSet
    <3> QED  BY <1>6, <2>2 DEF ToSet
  <2> QED  BY <2>3, <2>4
<1>8. DOMAIN candidates' = DOMAIN candidates \ {h}
      /\ \A n \in DOMAIN candidates' : candidates'[n] = candidates[n]
  BY <1>1
<1>9. TypeOK'
  <2>1. DOMAIN candidates' \subseteq ToSet(placed')  BY <1>7, <1>8 DEF TypeOK
  <2> QED  BY <1>1, <1>7, <2>1 DEF TypeOK
<1>10. Typed'  BY <1>1, <1>5, <1>6 DEF Typed
<1>11. EachMachineOnce'
  <2>1. ASSUME NEW i \in DOMAIN placed', NEW j \in DOMAIN placed', placed'[i] = placed'[j]
        PROVE  i = j
    <3>1. i + 1 \in DOMAIN placed /\ j + 1 \in DOMAIN placed  BY <1>6
    <3>2. i + 1 = j + 1  BY <1>6, <2>1, <3>1 DEF EachMachineOnce, Injective
    <3> QED  BY <1>6, <3>2
  <2> QED  BY <1>1, <1>7, <2>1 DEF EachMachineOnce, Injective
<1>12. InWaveOrder'
  <2> SUFFICES ASSUME NEW i \in DOMAIN placed', NEW j \in DOMAIN placed', i <= j
               PROVE  wave'[placed'[i]] <= wave'[placed'[j]]
    BY DEF InWaveOrder
  <2>1. i + 1 \in DOMAIN placed /\ j + 1 \in DOMAIN placed /\ i + 1 <= j + 1  BY <1>6
  <2> QED  BY <1>1, <1>6, <2>1 DEF InWaveOrder
<1>13. PlansAreOfEpoch'  BY <1>1 DEF PlansAreOfEpoch
<1>14. CandidatesOfFirstWave'
  <2> SUFFICES ASSUME NEW n \in DOMAIN candidates'
               PROVE  wave'[n] = wave'[Head(placed')]
    BY <1>1 DEF CandidatesOfFirstWave
  <2>1. n \in DOMAIN candidates /\ n \in ToSet(placed') /\ wave[n] = wave[h]
    BY <1>7, <1>8 DEF TypeOK, CandidatesOfFirstWave
  <2>2. PICK i \in DOMAIN placed' : placed'[i] = n  BY <2>1 DEF ToSet
  <2>3. 1 \in DOMAIN placed' /\ 1 <= i /\ Head(placed') = placed'[1] /\ placed'[1] = placed[2]
    BY <1>6, <2>2
  <2>4. 2 \in DOMAIN placed /\ 1 \in DOMAIN placed /\ 1 <= 2 /\ i + 1 \in DOMAIN placed
        /\ 2 <= i + 1
    BY <1>6, <2>2
  <2>5. wave[h] <= wave[placed[2]] /\ wave[placed[2]] <= wave[n]
    BY <1>6, <2>2, <2>4 DEF InWaveOrder
  <2>6. wave[h] \in Nat /\ wave[n] \in Nat /\ wave[placed[2]] \in Nat
    BY <1>3, <1>6, <2>1, <2>4 DEF Typed, TypeOK
  <2> QED  BY <1>1, <2>1, <2>3, <2>5, <2>6
<1>15. CandidatesAreCurrent'
  <2> SUFFICES ASSUME NEW n \in DOMAIN candidates'
               PROVE  candidates'[n].run = Execute(n, instance'[n], registry, events, board')
    BY <1>1 DEF CandidatesAreCurrent
  <2>1. n \in DOMAIN candidates /\ n # h /\ n \in ToSet(placed) /\ n \in Machine
    BY <1>8 DEF TypeOK
  <2>2. candidates'[n].run = Execute(n, instance[n], registry, events, board)
    BY <1>8, <2>1 DEF CandidatesAreCurrent
  <2>3. instance'[n] = instance[n]  BY <1>2, <2>1 DEF Typed
  <2>4. CASE c.run.failed  BY <1>2, <2>2, <2>3, <2>4
  <2>5. CASE ~ c.run.failed
    <3>1. ~ AccessConflicts(Plan(h, registry), Plan(n, registry))
      BY <1>3, <2>1 DEF CandidatesOfFirstWave, WavesAreConflictFree
    <3>2. Execute(n, instance[n], registry, events, board')
            = Execute(n, instance[n], registry, events, board)
      <4>1. board' = Serial!Commit(Execute(h, instance[h], registry, events, board).delta, board)
            /\ ~ Execute(h, instance[h], registry, events, board).failed
        BY <1>2, <1>4, <2>5
      <4>2. instance[n] \in Instance /\ registry \in Registry
            /\ events \in 0 .. MaxEvents /\ board \in Board
        BY <2>1 DEF Typed
      <4> HIDE DEF h, c
      <4> QED  BY <1>3, <1>4, <2>1, <3>1, <4>1, <4>2, CommitIsInvisible
    <3> QED  BY <2>2, <2>3, <3>2
  <2> QED  BY <2>4, <2>5
<1>16. WavesAreConflictFree'  BY <1>1, <1>7 DEF WavesAreConflictFree
<1> QED  BY <1>9, <1>10, <1>11, <1>12, <1>13, <1>14, <1>15, <1>16

LEMMA EndTickIInv ==
  ASSUME IInv, EndTick
  PROVE  IInv'
<1> USE DEF IInv, EndTick, storeVars, registryVars, waveVars, idVars
<1>1. TypeOK' /\ Typed'  BY DEF TypeOK, Typed
<1>2. EachMachineOnce' /\ InWaveOrder'  BY DEF EachMachineOnce, InWaveOrder, Injective
<1>3. DOMAIN candidates' = {}  BY NothingIsEmpty DEF TypeOK
<1>4. PlansAreOfEpoch' /\ CandidatesOfFirstWave' /\ CandidatesAreCurrent'
  BY <1>3 DEF PlansAreOfEpoch, CandidatesOfFirstWave, CandidatesAreCurrent
<1>5. WavesAreConflictFree'  BY DEF WavesAreConflictFree
<1> QED  BY <1>1, <1>2, <1>4, <1>5
-------------------------------------------------------------------------------
(* Theorems *)

LEMMA NextIInv == IInv /\ [Next]_vars => IInv'
<1> SUFFICES ASSUME IInv, [Next]_vars PROVE IInv'  OBVIOUS
<1>1. ASSUME NEW m \in Machine, AddMachine(m) PROVE IInv'  BY <1>1, AddMachineIInv
<1>2. ASSUME NEW name \in DOMAIN Offered, NEW a \in Offered[name], RegisterAction(name, a)
      PROVE  IInv'
  <2>1. registry' \in Registry  BY <1>2, RegisteredIsRegistry
  <2> QED  BY <1>2, <2>1, SetRegistryIInv DEF RegisterAction
<1>3. ASSUME NEW p, UnregisterProvider(p) PROVE IInv'
  <2>1. registry' \in Registry  BY <1>3, KeptIsRegistry
  <2> QED  BY <1>3, <2>1, SetRegistryIInv DEF UnregisterProvider
<1>4. CASE CreateActor  BY <1>4, CreateActorIInv
<1>5. ASSUME NEW n \in 0 .. MaxEvents, BeginTick(n) PROVE IInv'  BY <1>5, BeginTickIInv
<1>6. CASE PlaceMachine  BY <1>6, PlaceMachineIInv
<1>7. CASE StartWaves  BY <1>7, StartWavesIInv
<1>8. ASSUME NEW m \in Machine, ExecuteCandidate(m) PROVE IInv'
  BY <1>8, ExecuteCandidateIInv
<1>9. CASE CommitCandidate  BY <1>9, CommitCandidateIInv
<1>10. CASE EndTick  BY <1>10, EndTickIInv
<1>11. CASE UNCHANGED vars
  <2> USE <1>11 DEF IInv, vars
  <2>1. TypeOK' /\ Typed'  BY DEF TypeOK, Typed
  <2>2. EachMachineOnce' /\ InWaveOrder'  BY DEF EachMachineOnce, InWaveOrder, Injective
  <2>3. PlansAreOfEpoch' /\ CandidatesOfFirstWave' /\ CandidatesAreCurrent'
    BY DEF PlansAreOfEpoch, CandidatesOfFirstWave, CandidatesAreCurrent
  <2>4. WavesAreConflictFree'  BY DEF WavesAreConflictFree
  <2> QED  BY <2>1, <2>2, <2>3, <2>4
<1> QED  BY <1>1, <1>2, <1>3, <1>4, <1>5, <1>6, <1>7, <1>8, <1>9, <1>10, <1>11
         DEF Next, Between, Tick

(* The invariant holds in every state. *)
THEOREM Invariance == Spec => []IInv
BY InitIInv, NextIInv, PTL DEF Spec

(* Types of the scheduler's state, and how its phases use it. *)
THEOREM TypeCorrect == Spec => []TypeOK
<1>1. IInv => TypeOK  BY DEF IInv
<1> QED  BY <1>1, Invariance, PTL

(* Machines of one wave do not conflict by what is registered when they    *)
(* run, though build_conflict_waves works on plans of an earlier tick.     *)
THEOREM WavesNeverConflict == Spec => []WavesAreConflictFree
<1>1. IInv => WavesAreConflictFree  BY DEF IInv
<1> QED  BY <1>1, Invariance, PTL

(* Workers copy one generator, but only one of a wave draws from it. *)
THEOREM OneDrawsIds == Spec => []OneDrawerPerWave
<1>1. IInv => OneDrawerPerWave
  <2> SUFFICES ASSUME IInv, NEW m \in DOMAIN candidates, NEW n \in DOMAIN candidates, m # n,
                      ~ candidates[m].run.failed, ~ candidates[n].run.failed,
                      candidates[m].run.ids # 0, candidates[n].run.ids # 0
               PROVE  FALSE
    BY DEF OneDrawerPerWave
  <2> USE DEF IInv
  <2>1. /\ m \in ToSet(placed) /\ n \in ToSet(placed) /\ m \in Machine /\ n \in Machine
        /\ wave[m] = wave[n]
    BY DEF TypeOK, CandidatesOfFirstWave
  <2> DEFINE p == Plan(m, registry)
             q == Plan(n, registry)
  <2>2. ~ AccessConflicts(p, q)  BY <2>1 DEF WavesAreConflictFree
  <2>3. ~ p.serial /\ ~ q.serial  BY <2>2 DEF AccessConflicts
  <2>4. "StableIdSource" \in p.writes /\ "StableIdSource" \in q.writes
    BY <2>1, <2>3, WritesAreDeclared DEF CandidatesAreCurrent, Typed
  <2> QED  BY <2>2, <2>4, DrawersConflict
<1> QED  BY <1>1, Invariance, PTL

-------------------------------------------------------------------------------
(* Waves implement machines that run one after the other. *)

LEMMA InitIsSerial == Init => Serial!Init
<1> SUFFICES ASSUME Init PROVE Serial!Init  OBVIOUS
<1>1. placed \o unplaced = <<>>  BY ConcatEmptySeq, EmptySeq DEF Init
<1> QED  BY <1>1 DEF Init, Serial!Init

(* Committing a candidate is running its machine on the blackboard. *)
LEMMA CommitIsRun ==
  ASSUME IInv, CommitCandidate
  PROVE  Serial!RunMachine
<1> DEFINE h == Head(placed)
           c == Execute(h, instance[h], registry, events, board)
<1>1. phase = "running" /\ placed # <<>> /\ h \in DOMAIN candidates
  <2>1. placed # <<>>  BY DEF CommitCandidate, WaveIsExecuted
  <2>2. h \in ToSet(placed)  BY <2>1, HeadIsThere DEF IInv, Typed
  <2> QED  BY <2>1, <2>2 DEF CommitCandidate, WaveIsExecuted, FirstWave
<1>2. candidates[h].run = c  BY <1>1 DEF IInv, CandidatesAreCurrent
<1>3. placed \o unplaced = placed /\ placed' \o unplaced' = Tail(placed)
  <2>1. unplaced = <<>> /\ unplaced' = <<>>  BY <1>1 DEF IInv, TypeOK, CommitCandidate
  <2>2. placed \in Seq(Machine) /\ placed' = Tail(placed) /\ placed' \in Seq(Machine)
    BY <1>1, HeadTailProperties DEF IInv, Typed, CommitCandidate
  <2> QED  BY <2>1, <2>2, ConcatEmptySeq
<1>4. \/ /\ c.failed
         /\ reports' = reports \cup {h}
         /\ UNCHANGED <<instance, board>>
      \/ /\ ~ c.failed
         /\ instance' = [instance EXCEPT ![h] = c.instance]
         /\ board' = Serial!Commit(c.delta, board)
         /\ UNCHANGED reports
  BY <1>2 DEF CommitCandidate
<1>5. UNCHANGED <<installed, registry, events, phase>>
  BY DEF CommitCandidate, storeVars, registryVars
<1> QED  BY <1>1, <1>3, <1>4, <1>5 DEF Serial!RunMachine

(* A machine moves from those not placed to those placed: none has run. *)
LEMMA PlaceIsStutter ==
  ASSUME IInv, PlaceMachine
  PROVE  UNCHANGED Serial!vars
<1> DEFINE m == Head(unplaced)
<1>1. /\ unplaced # <<>> /\ placed' = Append(placed, m) /\ unplaced' = Tail(unplaced)
      /\ UNCHANGED <<installed, instance, registry, board, events, reports, phase>>
  BY DEF PlaceMachine, storeVars, registryVars
<1>2. placed \in Seq(Machine) /\ unplaced \in Seq(Machine)  BY DEF IInv, Typed
<1>3. Append(placed, m) \o Tail(unplaced) = placed \o unplaced
  BY <1>1, <1>2, HeadTailProperties
<1> QED  BY <1>1, <1>3 DEF Serial!vars

LEMMA StepIsSerial == IInv /\ [Next]_vars => [Serial!Next]_(Serial!vars)
<1> SUFFICES ASSUME IInv, [Next]_vars
             PROVE  Serial!Next \/ UNCHANGED Serial!vars
  OBVIOUS
<1>0. registry \in Registry  BY DEF IInv, Typed
<1>1. ASSUME NEW m \in Machine, AddMachine(m) PROVE Serial!Next
  <2>1. Serial!AddMachine(m)
    BY <1>1 DEF AddMachine, Serial!AddMachine, registryVars, waveVars, idVars
  <2> QED  BY <2>1 DEF Serial!Next
<1>2. ASSUME NEW name \in DOMAIN Offered, NEW a \in Offered[name], RegisterAction(name, a)
      PROVE  Serial!Next
  <2>1. registry' \in Serial!Registries  BY <1>2, RegisteredIsRegistry DEF Registry
  <2>2. Serial!SetRegistry(registry')
    BY <1>2 DEF RegisterAction, Serial!SetRegistry, storeVars, waveVars, idVars
  <2> QED  BY <2>1, <2>2 DEF Serial!Next
<1>3. ASSUME NEW p, UnregisterProvider(p) PROVE Serial!Next
  <2>1. registry' \in Serial!Registries  BY <1>3, KeptIsRegistry DEF Registry
  <2>2. Serial!SetRegistry(registry')
    BY <1>3 DEF UnregisterProvider, Serial!SetRegistry, storeVars, waveVars, idVars
  <2> QED  BY <2>1, <2>2 DEF Serial!Next
<1>4. CASE CreateActor
  BY <1>4 DEF CreateActor, Serial!vars, storeVars, registryVars, waveVars
<1>5. ASSUME NEW n \in 0 .. MaxEvents, BeginTick(n) PROVE Serial!Next
  <2>1. placed = <<>> /\ placed' = <<>>  BY <1>5 DEF BeginTick, IInv, TypeOK
  <2>2. Serial!Runnable \in SUBSET Machine  BY DEF Serial!Runnable, IInv, TypeOK
  <2>3. placed' \o unplaced' = Serial!InOrder(Serial!Runnable)
    BY <1>5, <2>1, <2>2, InOrderIsOnce, ConcatEmptySeq DEF BeginTick
  <2>4. Serial!BeginTick(n)
    BY <1>5, <2>3 DEF BeginTick, Serial!BeginTick, registryVars
  <2> QED  BY <2>4 DEF Serial!Next
<1>6. CASE PlaceMachine  BY <1>6, PlaceIsStutter
<1>7. CASE StartWaves
  BY <1>7 DEF StartWaves, Serial!vars, storeVars, registryVars, waveVars
<1>8. ASSUME NEW m \in Machine, ExecuteCandidate(m) PROVE UNCHANGED Serial!vars
  BY <1>8 DEF ExecuteCandidate, Serial!vars, storeVars, registryVars
<1>9. CASE CommitCandidate
  <2>1. Serial!RunMachine  BY <1>9, CommitIsRun
  <2> QED  BY <2>1 DEF Serial!Next
<1>10. CASE EndTick
  <2>1. placed \o unplaced = <<>>
    BY <1>10, ConcatEmptySeq, EmptySeq DEF EndTick, IInv, TypeOK
  <2>2. Serial!EndTick
    BY <1>10, <2>1 DEF EndTick, Serial!EndTick, storeVars, registryVars, waveVars
  <2> QED  BY <2>2 DEF Serial!Next
<1>11. CASE UNCHANGED vars  BY <1>11 DEF vars, Serial!vars
<1> QED  BY <1>1, <1>2, <1>3, <1>4, <1>5, <1>6, <1>7, <1>8, <1>9, <1>10, <1>11
         DEF Next, Between, Tick

(* Every tick has the outcome of its machines run in the order of their    *)
(* ids, whatever the waves and whichever worker was first.                 *)
THEOREM TicksAreSerial == Spec => AsIfSerial
BY InitIsSerial, StepIsSerial, Invariance, PTL DEF Spec, AsIfSerial, Serial!Spec
-------------------------------------------------------------------------------
(* The budget: who holds permits. *)

(* How often t itself is among the holders of b. *)
Held(t, b, states) ==
    (IF b \in leases[t] THEN 1 ELSE 0)
  + (IF scope[t] = b THEN 1 ELSE 0)
  + (IF pc[t] \in states /\ call[t].broker = b THEN 1 ELSE 0)

HoldingStates == {"record", "notify", "drop", "unlock"}
CountedStates == {"notify", "drop"}

(* Threads other than t keep what they hold. *)
OthersKeep(t) ==
  \A u \in Thread \ {t} :
    /\ leases'[u] = leases[u] /\ scope'[u] = scope[u] /\ call'[u] = call[u]
    /\ \/ pc'[u] = pc[u]
       \/ pc[u] = "asleep" /\ pc'[u] = "awake"

-------------------------------------------------------------------------------
(* Lemmas about counting holders *)

(* A finite set gains at most the element it is given. *)
LEMMA AddMaybe ==
  ASSUME NEW S, IsFiniteSet(S), NEW x, x \notin S, NEW p \in BOOLEAN
  PROVE  /\ IsFiniteSet(S \cup (IF p THEN {x} ELSE {}))
         /\ Cardinality(S \cup (IF p THEN {x} ELSE {}))
              = Cardinality(S) + (IF p THEN 1 ELSE 0)
<1>1. CASE p
  BY <1>1, FS_AddElement
<1>2. CASE ~ p
  <2>1. S \cup (IF p THEN {x} ELSE {}) = S  BY <1>2
  <2>2. Cardinality(S) \in Nat  BY FS_CardinalityType
  <2> QED  BY <1>2, <2>1, <2>2
<1> QED  BY <1>1, <1>2

LEMMA HoldingFinite ==
  /\ IsFiniteSet(Holding)
  /\ \A S \in SUBSET Holding : IsFiniteSet(S) /\ Cardinality(S) \in Nat
<1>1. IsFiniteSet({"lease", "scope", "call"})
  <2>1. IsFiniteSet({"lease"})  BY FS_Singleton
  <2>2. IsFiniteSet({"lease"} \cup {"scope"})  BY <2>1, FS_AddElement
  <2>3. IsFiniteSet(({"lease"} \cup {"scope"}) \cup {"call"})  BY <2>2, FS_AddElement
  <2>4. {"lease", "scope", "call"} = ({"lease"} \cup {"scope"}) \cup {"call"}  OBVIOUS
  <2> QED  BY <2>3, <2>4
<1>2. IsFiniteSet(Holding)  BY <1>1, ThreadAssumption, FS_Product DEF Holding
<1>3. \A S \in SUBSET Holding : IsFiniteSet(S) /\ Cardinality(S) \in Nat
  BY <1>2, FS_Subset, FS_CardinalityType
<1> QED  BY <1>2, <1>3

(* The holders are those of the other threads and those of t itself. *)
LEMMA SplitHolders ==
  ASSUME NEW In \in SUBSET Holding, NEW t \in Thread
  PROVE  Cardinality(In) = Cardinality({h \in In : h[1] # t})
           + (IF <<t, "lease">> \in In THEN 1 ELSE 0)
           + (IF <<t, "scope">> \in In THEN 1 ELSE 0)
           + (IF <<t, "call">> \in In THEN 1 ELSE 0)
<1> DEFINE O == {h \in In : h[1] # t}
           p == <<t, "lease">> \in In
           q == <<t, "scope">> \in In
           r == <<t, "call">> \in In
           A == O \cup (IF p THEN {<<t, "lease">>} ELSE {})
           B == A \cup (IF q THEN {<<t, "scope">>} ELSE {})
           C == B \cup (IF r THEN {<<t, "call">>} ELSE {})
<1>1. In = C
  <2>1. \A h \in In : h[1] = t => h = <<t, "lease">> \/ h = <<t, "scope">> \/ h = <<t, "call">>
    BY DEF Holding
  <2> QED  BY <2>1
<1>2. <<t, "lease">> \notin O /\ <<t, "scope">> \notin A /\ <<t, "call">> \notin B
  OBVIOUS
<1>3. p \in BOOLEAN /\ q \in BOOLEAN /\ r \in BOOLEAN  OBVIOUS
<1>4. IsFiniteSet(O) /\ Cardinality(O) \in Nat  BY HoldingFinite
<1> HIDE DEF O, p, q, r
<1>5. IsFiniteSet(A) /\ Cardinality(A) = Cardinality(O) + (IF p THEN 1 ELSE 0)
  BY <1>2, <1>3, <1>4, AddMaybe
<1> HIDE DEF A
<1>6. IsFiniteSet(B) /\ Cardinality(B) = Cardinality(A) + (IF q THEN 1 ELSE 0)
  BY <1>2, <1>3, <1>5, AddMaybe
<1> HIDE DEF B
<1>7. Cardinality(C) = Cardinality(B) + (IF r THEN 1 ELSE 0)
  BY <1>2, <1>3, <1>6, AddMaybe
<1>8. Cardinality(In) = Cardinality(O) + (IF p THEN 1 ELSE 0) + (IF q THEN 1 ELSE 0)
        + (IF r THEN 1 ELSE 0)
  BY <1>1, <1>4, <1>5, <1>6, <1>7
<1> QED  BY <1>8 DEF O, p, q, r

(* A step of t changes the holders by what t itself gains and loses.       *)
LEMMA CountStep ==
  ASSUME NEW t \in Thread, NEW b \in Broker,
         NEW states, states \cap Waiting = {}, OthersKeep(t)
  PROVE  /\ Cardinality(HoldersIn(b, states)) \in Nat
         /\ Cardinality(HoldersIn(b, states)')
              = Cardinality(HoldersIn(b, states)) - Held(t, b, states) + Held(t, b, states)'
<1> DEFINE In == HoldersIn(b, states)
           Others == {h \in In : h[1] # t}
<1>1. In \in SUBSET Holding /\ In' \in SUBSET Holding  BY DEF HoldersIn
<1>2. Others' = Others
  <2>1. \A h \in Holding : h[1] \in Thread  BY DEF Holding
  <2>2. \A h \in Holding : h[1] # t => (h \in In' <=> h \in In)
    BY <2>1 DEF HoldersIn, OthersKeep, Waiting
  <2> QED  BY <1>1, <2>2
<1>3. /\ (<<t, "lease">> \in In) = (b \in leases[t])
      /\ (<<t, "scope">> \in In) = (scope[t] = b)
      /\ (<<t, "call">> \in In) = (pc[t] \in states /\ call[t].broker = b)
  BY DEF HoldersIn, Holding
<1>4. /\ (<<t, "lease">> \in In') = (b \in leases'[t])
      /\ (<<t, "scope">> \in In') = (scope'[t] = b)
      /\ (<<t, "call">> \in In') = (pc'[t] \in states /\ call'[t].broker = b)
  BY DEF HoldersIn, Holding
<1>5. Cardinality(In) \in Nat /\ Cardinality(Others) \in Nat
  BY <1>1, HoldingFinite
<1>6. Cardinality(In) = Cardinality(Others) + Held(t, b, states)
  <2>1. Cardinality(In) = Cardinality(Others)
           + (IF <<t, "lease">> \in In THEN 1 ELSE 0)
           + (IF <<t, "scope">> \in In THEN 1 ELSE 0)
           + (IF <<t, "call">> \in In THEN 1 ELSE 0)
    BY <1>1, SplitHolders
  <2> HIDE DEF In, Others
  <2> QED  BY <1>3, <1>5, <2>1 DEF Held
<1>7. Cardinality(In') = Cardinality(Others) + Held(t, b, states)'
  <2>1. Cardinality(In') = Cardinality({h \in In' : h[1] # t})
           + (IF <<t, "lease">> \in In' THEN 1 ELSE 0)
           + (IF <<t, "scope">> \in In' THEN 1 ELSE 0)
           + (IF <<t, "call">> \in In' THEN 1 ELSE 0)
    BY <1>1, SplitHolders
  <2>2. {h \in In' : h[1] # t} = Others  BY <1>2
  <2>3. Held(t, b, states)' = (IF b \in leases'[t] THEN 1 ELSE 0)
           + (IF scope'[t] = b THEN 1 ELSE 0)
           + (IF pc'[t] \in states /\ call'[t].broker = b THEN 1 ELSE 0)
    BY DEF Held
  <2>4. Cardinality(In') = Cardinality(Others)
           + (IF b \in leases'[t] THEN 1 ELSE 0)
           + (IF scope'[t] = b THEN 1 ELSE 0)
           + (IF pc'[t] \in states /\ call'[t].broker = b THEN 1 ELSE 0)
    BY <1>4, <2>1, <2>2, Zenon
  <2> HIDE DEF In, Others
  <2> QED  BY <1>5, <2>3, <2>4
<1>8. Held(t, b, states) \in Nat /\ Held(t, b, states)' \in Nat  BY DEF Held
<1> HIDE DEF In, Others
<1>9. Cardinality(In') = Cardinality(In) - Held(t, b, states) + Held(t, b, states)'
  BY <1>5, <1>6, <1>7, <1>8
<1> QED  BY <1>5, <1>9 DEF In

-------------------------------------------------------------------------------
(* One lemma per part of the invariant *)

(* Every variable keeps its type.                                          *)
LEMMA TypeStep ==
  ASSUME BudgetTypeOK, [BudgetNext]_budgetVars
  PROVE  BudgetTypeOK'
<1> USE DEF BudgetTypeOK, Call, Kind, PC, Waiting
<1>1. ASSUME NEW t \in Thread, NEW b \in Broker, NEW kind \in {"lease", "scope"},
             Enter(t, b, kind)
      PROVE  BudgetTypeOK'
  <2>1. CASE Served(b, next_ticket[b])
    <3>1. available' \in [Broker -> Nat]
      <4>1. available[b] - 1 \in Nat  BY <2>1 DEF Served
      <4> QED  BY <1>1, <2>1, <4>1 DEF Enter, Take
    <3>2. /\ serving_ticket' \in [Broker -> Nat]
          /\ pc' \in [Thread -> PC]
      <4>1. serving_ticket' = [serving_ticket EXCEPT ![b] = @ + 1]
        BY <1>1, <2>1 DEF Enter, Take
      <4>2. pc' = [pc EXCEPT ![t] = "record"]  BY <1>1, <2>1 DEF Enter
      <4> QED  BY <4>1, <4>2
    <3>3. next_ticket' \in [Broker -> Nat] /\ ticket' \in [Thread -> Nat]
      BY <1>1 DEF Enter
    <3>4. call' \in [Thread -> Call]  BY <1>1 DEF Enter
    <3> QED  BY <1>1, <3>1, <3>2, <3>3, <3>4 DEF Enter, atomicVars
  <2>2. CASE ~ Served(b, next_ticket[b])
    BY <1>1, <2>2 DEF Enter, atomicVars
  <2> QED  BY <2>1, <2>2
<1>2. ASSUME NEW t \in Thread, NEW b \in Broker, TryAcquire(t, b)
      PROVE  BudgetTypeOK'
  <2>1. available[b] - 1 \in Nat  BY <1>2 DEF TryAcquire
  <2> QED  BY <1>2, <2>1 DEF TryAcquire, Take, atomicVars
<1>3. ASSUME NEW t \in Thread, WakeSpuriously(t)
      PROVE  BudgetTypeOK'
  BY <1>3 DEF WakeSpuriously, brokerVars, atomicVars
<1>4. ASSUME NEW t \in Thread, Recheck(t)
      PROVE  BudgetTypeOK'
  <2>1. CASE Served(call[t].broker, ticket[t])
    <3>1. available' \in [Broker -> Nat]
      <4>1. available[call[t].broker] - 1 \in Nat  BY <2>1 DEF Served
      <4> QED  BY <1>4, <2>1, <4>1 DEF Recheck, Take
    <3>2. serving_ticket' \in [Broker -> Nat]  BY <1>4, <2>1 DEF Recheck, Take
    <3>4. pc' \in [Thread -> PC]  BY <1>4, <2>1 DEF Recheck, Take
    <3>3. UNCHANGED <<next_ticket, acquired, peak_acquired, call, ticket, leases, scope>>
      BY <1>4 DEF Recheck, atomicVars
    <3> QED  BY <3>1, <3>2, <3>3, <3>4
  <2>2. CASE ~ Served(call[t].broker, ticket[t])
    BY <1>4, <2>2 DEF Recheck, atomicVars
  <2> QED  BY <2>1, <2>2
<1>5. ASSUME NEW t \in Thread, RecordAcquire(t)
      PROVE  BudgetTypeOK'
  <2>1. acquired' \in [Broker -> Int] /\ peak_acquired' \in [Broker -> Int]
    BY <1>5 DEF RecordAcquire
  <2>2. pc' \in [Thread -> PC]  BY <1>5 DEF RecordAcquire
  <2>3. leases' \in [Thread -> SUBSET Broker]
    <3>1. CASE call[t].kind = "try"
      <4>1. call[t].broker \in Broker  OBVIOUS
      <4>2. leases[t] \cup {call[t].broker} \in SUBSET Broker  BY <4>1
      <4> HIDE DEF BudgetTypeOK
      <4> QED  BY <1>5, <3>1, <4>2 DEF RecordAcquire, BudgetTypeOK
    <3>2. CASE call[t].kind # "try"  BY <1>5, <3>2 DEF RecordAcquire
    <3> QED  BY <3>1, <3>2
  <2> QED  BY <1>5, <2>1, <2>2, <2>3 DEF RecordAcquire, brokerVars
<1>6. ASSUME NEW t \in Thread, Acquired(t)
      PROVE  BudgetTypeOK'
  <2>1. \E next \in {"idle", "drop"} : NotifyAll(t, call[t].broker, next)
    BY <1>6 DEF Acquired
  <2>2. pc' \in [Thread -> PC]  BY <2>1 DEF NotifyAll
  <2>3. leases' \in [Thread -> SUBSET Broker] /\ scope' \in [Thread -> Broker \cup {NoBroker}]
    <3>1. call[t].broker \in Broker  OBVIOUS
    <3>2. leases[t] \cup {call[t].broker} \in SUBSET Broker  BY <3>1
    <3>3. scope' \in [Thread -> Broker \cup {NoBroker}]  BY <1>6, <3>1 DEF Acquired
    <3>4. leases' \in [Thread -> SUBSET Broker]  BY <1>6, <3>2 DEF Acquired
    <3> QED  BY <3>3, <3>4
  <2> QED  BY <1>6, <2>2, <2>3 DEF Acquired, brokerVars, atomicVars
<1>7. ASSUME NEW t \in Thread, CountRelease(t)
      PROVE  BudgetTypeOK'
  BY <1>7 DEF CountRelease, brokerVars
<1>8. ASSUME NEW t \in Thread, ReturnPermit(t)
      PROVE  BudgetTypeOK'
  BY <1>8 DEF ReturnPermit, atomicVars
<1>9. ASSUME NEW t \in Thread, NotifyReleased(t)
      PROVE  BudgetTypeOK'
  BY <1>9 DEF NotifyReleased, NotifyAll, brokerVars, atomicVars
<1>10. ASSUME NEW t \in Thread, NEW b \in Broker, DropLease(t, b)
       PROVE  BudgetTypeOK'
  BY <1>10 DEF DropLease, brokerVars, atomicVars
<1>11. ASSUME NEW t \in Thread, EndScope(t)
       PROVE  BudgetTypeOK'
  BY <1>11 DEF EndScope, brokerVars, atomicVars
<1>12. CASE UNCHANGED budgetVars
  BY <1>12 DEF budgetVars, brokerVars, atomicVars, threadVars
<1> QED
  BY <1>1, <1>2, <1>3, <1>4, <1>5, <1>6, <1>7, <1>8, <1>9, <1>10, <1>11, <1>12
     DEF BudgetNext, CallStep, Release

(* A step of t leaves what the others hold and whom they wait for.         *)
LEMMA OthersStep ==
  ASSUME BudgetTypeOK, BudgetNext
  PROVE  \E t \in Thread :
           /\ OthersKeep(t)
           /\ \/ \E b \in Broker, kind \in {"lease", "scope"} : Enter(t, b, kind)
              \/ \E b \in Broker : TryAcquire(t, b) \/ DropLease(t, b)
              \/ WakeSpuriously(t) \/ CallStep(t) \/ EndScope(t)
<1> USE DEF BudgetTypeOK, OthersKeep, Waiting, PC
<1>1. ASSUME NEW t \in Thread, NEW b \in Broker, NEW kind \in {"lease", "scope"},
             Enter(t, b, kind)
      PROVE  OthersKeep(t)
  BY <1>1 DEF Enter
<1>2. ASSUME NEW t \in Thread, NEW b \in Broker, TryAcquire(t, b) \/ DropLease(t, b)
      PROVE  OthersKeep(t)
  BY <1>2 DEF TryAcquire, DropLease
<1>3. ASSUME NEW t \in Thread, WakeSpuriously(t) \/ EndScope(t)
      PROVE  OthersKeep(t)
  BY <1>3 DEF WakeSpuriously, EndScope
<1>4. ASSUME NEW t \in Thread, Acquired(t) \/ NotifyReleased(t)
      PROVE  OthersKeep(t)
  BY <1>4 DEF Acquired, NotifyReleased, NotifyAll
<1>5. ASSUME NEW t \in Thread, Recheck(t) \/ RecordAcquire(t) \/ CountRelease(t) \/ ReturnPermit(t)
      PROVE  OthersKeep(t)
  BY <1>5 DEF Recheck, RecordAcquire, CountRelease, ReturnPermit
<1>6. PICK t \in Thread :
         \/ \E b \in Broker, kind \in {"lease", "scope"} : Enter(t, b, kind)
         \/ \E b \in Broker : TryAcquire(t, b) \/ DropLease(t, b)
         \/ WakeSpuriously(t) \/ CallStep(t) \/ EndScope(t)
  BY DEF BudgetNext, Release
<1>7. OthersKeep(t)
  BY <1>1, <1>2, <1>3, <1>4, <1>5, <1>6 DEF CallStep
<1> QED  BY <1>6, <1>7, Zenon

(* What t gains of the permits of b, b gives.                              *)
LEMMA Balance ==
  ASSUME BudgetTypeOK, CallsFit, NEW t \in Thread, NEW b \in Broker,
         \/ \E c \in Broker, kind \in {"lease", "scope"} : Enter(t, c, kind)
         \/ \E c \in Broker : TryAcquire(t, c) \/ DropLease(t, c)
         \/ WakeSpuriously(t) \/ CallStep(t) \/ EndScope(t)
  PROVE  available[b] + Held(t, b, HoldingStates)
           = available'[b] + Held(t, b, HoldingStates)'
<1> USE DEF BudgetTypeOK, HoldingStates
<1>0. /\ Held(t, b, HoldingStates)
           = (IF b \in leases[t] THEN 1 ELSE 0) + (IF scope[t] = b THEN 1 ELSE 0)
             + (IF pc[t] \in HoldingStates /\ call[t].broker = b THEN 1 ELSE 0)
      /\ Held(t, b, HoldingStates)'
           = (IF b \in leases'[t] THEN 1 ELSE 0) + (IF scope'[t] = b THEN 1 ELSE 0)
             + (IF pc'[t] \in HoldingStates /\ call'[t].broker = b THEN 1 ELSE 0)
  BY DEF Held
<1>1. ASSUME NEW c \in Broker, NEW kind \in {"lease", "scope"}, Enter(t, c, kind)
      PROVE  available[b] + Held(t, b, HoldingStates)
               = available'[b] + Held(t, b, HoldingStates)'
  <2>1. pc[t] = "idle" /\ call'[t].broker = c /\ UNCHANGED <<leases, scope>>
    BY <1>1 DEF Enter
  <2>2. CASE Served(c, next_ticket[c])
    <3>1. pc'[t] = "record" /\ available'[b] = available[b] - (IF b = c THEN 1 ELSE 0)
      BY <1>1, <2>2 DEF Enter, Take
    <3> QED  BY <1>0, <2>1, <3>1
  <2>3. CASE ~ Served(c, next_ticket[c])
    <3>1. pc'[t] = "asleep" /\ available' = available
      BY <1>1, <2>3 DEF Enter
    <3> QED  BY <1>0, <2>1, <3>1
  <2> QED  BY <2>2, <2>3
<1>2. ASSUME NEW c \in Broker, TryAcquire(t, c)
      PROVE  available[b] + Held(t, b, HoldingStates)
               = available'[b] + Held(t, b, HoldingStates)'
  <2>1. /\ pc[t] = "idle" /\ pc'[t] = "record" /\ call'[t].broker = c
        /\ UNCHANGED <<leases, scope>>
        /\ available'[b] = available[b] - (IF b = c THEN 1 ELSE 0)
    BY <1>2 DEF TryAcquire, Take
  <2> QED  BY <1>0, <2>1
<1>3. CASE WakeSpuriously(t)
  BY <1>0, <1>3 DEF WakeSpuriously, brokerVars
<1>4. CASE Recheck(t)
  <2>1. pc[t] = "awake" /\ call' = call /\ UNCHANGED <<leases, scope>>
    BY <1>4 DEF Recheck
  <2>2. CASE Served(call[t].broker, ticket[t])
    <3>1. /\ pc'[t] = "record"
          /\ available'[b] = available[b] - (IF b = call[t].broker THEN 1 ELSE 0)
      BY <1>4, <2>2 DEF Recheck, Take
    <3> QED  BY <1>0, <2>1, <3>1
  <2>3. CASE ~ Served(call[t].broker, ticket[t])
    <3>1. pc'[t] = "asleep" /\ available' = available
      BY <1>4, <2>3 DEF Recheck
    <3> QED  BY <1>0, <2>1, <3>1
  <2> QED  BY <2>2, <2>3
<1>5. CASE RecordAcquire(t)
  <2>1. pc[t] = "record" /\ call' = call /\ scope' = scope /\ available' = available
    BY <1>5 DEF RecordAcquire, brokerVars
  <2>2. CASE call[t].kind = "try"
    <3>1. pc'[t] = "idle" /\ leases'[t] = leases[t] \cup {call[t].broker}
      BY <1>5, <2>2 DEF RecordAcquire
    <3>2. call[t].broker \notin leases[t]  BY <2>1, <2>2 DEF CallsFit
    <3> QED  BY <1>0, <2>1, <3>1, <3>2
  <2>3. CASE call[t].kind # "try"
    <3>1. pc'[t] = "notify" /\ leases' = leases
      BY <1>5, <2>3 DEF RecordAcquire
    <3> QED  BY <1>0, <2>1, <3>1
  <2> QED  BY <2>2, <2>3
<1>6. CASE Acquired(t)
  <2>1. pc[t] = "notify" /\ call' = call /\ available' = available
    BY <1>6 DEF Acquired, brokerVars
  <2>2. CASE /\ call[t].kind = "lease" /\ pc'[t] = "idle"
             /\ leases'[t] = leases[t] \cup {call[t].broker} /\ scope' = scope
    <3>1. call[t].broker \notin leases[t]  BY <2>1, <2>2 DEF CallsFit
    <3> QED  BY <1>0, <2>1, <2>2, <3>1
  <2>3. CASE /\ scope[t] = NoBroker /\ pc'[t] = "idle"
             /\ scope'[t] = call[t].broker /\ leases' = leases
    BY <1>0, <2>1, <2>3, BrokerAssumption
  <2>4. CASE pc'[t] = "drop" /\ leases' = leases /\ scope' = scope
    BY <1>0, <2>1, <2>4
  <2> QED  BY <1>6, <2>2, <2>3, <2>4 DEF Acquired, NotifyAll
<1>7. CASE CountRelease(t)
  BY <1>0, <1>7 DEF CountRelease, brokerVars
<1>8. CASE ReturnPermit(t)
  <2>1. /\ pc[t] = "unlock" /\ pc'[t] = "wake" /\ UNCHANGED <<call, leases, scope>>
        /\ available'[b] = available[b] + (IF b = call[t].broker THEN 1 ELSE 0)
    BY <1>8 DEF ReturnPermit
  <2> QED  BY <1>0, <2>1
<1>9. CASE NotifyReleased(t)
  BY <1>0, <1>9 DEF NotifyReleased, NotifyAll, brokerVars
<1>10. ASSUME NEW c \in Broker, DropLease(t, c)
       PROVE  available[b] + Held(t, b, HoldingStates)
                = available'[b] + Held(t, b, HoldingStates)'
  <2>1. /\ pc[t] = "idle" /\ pc'[t] = "drop" /\ call'[t].broker = c
        /\ c \in leases[t] /\ leases'[t] = leases[t] \ {c}
        /\ scope' = scope /\ available' = available
    BY <1>10 DEF DropLease, brokerVars
  <2> QED  BY <1>0, <2>1
<1>11. CASE EndScope(t)
  <2>1. /\ pc[t] = "idle" /\ pc'[t] = "drop" /\ call'[t].broker = scope[t]
        /\ scope[t] # NoBroker /\ scope'[t] = NoBroker
        /\ leases' = leases /\ available' = available
    BY <1>11 DEF EndScope, brokerVars
  <2> QED  BY <1>0, <2>1, BrokerAssumption
<1> QED
  BY <1>1, <1>2, <1>3, <1>4, <1>5, <1>6, <1>7, <1>8, <1>9, <1>10, <1>11 DEF CallStep

(* What t gains of the counted permits of b, the counter shows.            *)
LEMMA CountBalance ==
  ASSUME BudgetTypeOK, CallsFit, NEW t \in Thread, NEW b \in Broker,
         \/ \E c \in Broker, kind \in {"lease", "scope"} : Enter(t, c, kind)
         \/ \E c \in Broker : TryAcquire(t, c) \/ DropLease(t, c)
         \/ WakeSpuriously(t) \/ CallStep(t) \/ EndScope(t)
  PROVE  /\ acquired'[b] - Held(t, b, CountedStates)'
              = acquired[b] - Held(t, b, CountedStates)
         /\ \/ peak_acquired'[b] = peak_acquired[b]
            \/ peak_acquired'[b] = acquired'[b]
<1> USE DEF BudgetTypeOK, CountedStates
<1> DEFINE Kept == /\ acquired'[b] - Held(t, b, CountedStates)'
                        = acquired[b] - Held(t, b, CountedStates)
                   /\ \/ peak_acquired'[b] = peak_acquired[b]
                      \/ peak_acquired'[b] = acquired'[b]
<1>0. /\ Held(t, b, CountedStates)
           = (IF b \in leases[t] THEN 1 ELSE 0) + (IF scope[t] = b THEN 1 ELSE 0)
             + (IF pc[t] \in CountedStates /\ call[t].broker = b THEN 1 ELSE 0)
      /\ Held(t, b, CountedStates)'
           = (IF b \in leases'[t] THEN 1 ELSE 0) + (IF scope'[t] = b THEN 1 ELSE 0)
             + (IF pc'[t] \in CountedStates /\ call'[t].broker = b THEN 1 ELSE 0)
  BY DEF Held
<1>1. ASSUME NEW c \in Broker, NEW kind \in {"lease", "scope"}, Enter(t, c, kind)
      PROVE  Kept
  <2>1. /\ pc[t] = "idle" /\ UNCHANGED <<acquired, peak_acquired, leases, scope>>
        /\ pc'[t] \in {"record", "asleep"}
    BY <1>1 DEF Enter, atomicVars
  <2> QED  BY <1>0, <2>1
<1>2. ASSUME NEW c \in Broker, TryAcquire(t, c)
      PROVE  Kept
  <2>1. /\ pc[t] = "idle" /\ UNCHANGED <<acquired, peak_acquired, leases, scope>>
        /\ pc'[t] = "record"
    BY <1>2 DEF TryAcquire, atomicVars
  <2> QED  BY <1>0, <2>1
<1>3. ASSUME WakeSpuriously(t) \/ Recheck(t) \/ ReturnPermit(t) \/ NotifyReleased(t)
      PROVE  Kept
  <2>1. /\ pc[t] \notin CountedStates
        /\ UNCHANGED <<acquired, peak_acquired, leases, scope>>
        /\ pc'[t] \notin CountedStates
    BY <1>3 DEF WakeSpuriously, Recheck, ReturnPermit, NotifyReleased, NotifyAll, atomicVars
  <2> QED  BY <1>0, <2>1
<1>4. CASE RecordAcquire(t)
  <2>1. /\ pc[t] = "record" /\ call' = call /\ scope' = scope
        /\ acquired'[b] = acquired[b] + (IF b = call[t].broker THEN 1 ELSE 0)
    BY <1>4 DEF RecordAcquire
  <2>2. peak_acquired'[b] = peak_acquired[b] \/ peak_acquired'[b] = acquired'[b]
    BY <1>4 DEF RecordAcquire
  <2>3. CASE call[t].kind = "try"
    <3>1. pc'[t] = "idle" /\ leases'[t] = leases[t] \cup {call[t].broker}
      BY <1>4, <2>3 DEF RecordAcquire
    <3>2. call[t].broker \notin leases[t]  BY <2>1, <2>3 DEF CallsFit
    <3> QED  BY <1>0, <2>1, <2>2, <3>1, <3>2
  <2>4. CASE call[t].kind # "try"
    <3>1. pc'[t] = "notify" /\ leases' = leases
      BY <1>4, <2>4 DEF RecordAcquire
    <3> QED  BY <1>0, <2>1, <2>2, <3>1
  <2> QED  BY <2>3, <2>4
<1>5. CASE Acquired(t)
  <2>1. pc[t] = "notify" /\ call' = call /\ UNCHANGED <<acquired, peak_acquired>>
    BY <1>5 DEF Acquired, atomicVars
  <2>2. CASE /\ call[t].kind = "lease" /\ pc'[t] = "idle"
             /\ leases'[t] = leases[t] \cup {call[t].broker} /\ scope' = scope
    <3>1. call[t].broker \notin leases[t]  BY <2>1, <2>2 DEF CallsFit
    <3> QED  BY <1>0, <2>1, <2>2, <3>1
  <2>3. CASE /\ scope[t] = NoBroker /\ pc'[t] = "idle"
             /\ scope'[t] = call[t].broker /\ leases' = leases
    BY <1>0, <2>1, <2>3, BrokerAssumption
  <2>4. CASE pc'[t] = "drop" /\ leases' = leases /\ scope' = scope
    BY <1>0, <2>1, <2>4
  <2> QED  BY <1>5, <2>2, <2>3, <2>4 DEF Acquired, NotifyAll
<1>6. CASE CountRelease(t)
  <2>1. /\ pc[t] = "drop" /\ pc'[t] = "unlock" /\ UNCHANGED <<call, leases, scope, peak_acquired>>
        /\ acquired'[b] = acquired[b] - (IF b = call[t].broker THEN 1 ELSE 0)
    BY <1>6 DEF CountRelease
  <2> QED  BY <1>0, <2>1
<1>7. ASSUME NEW c \in Broker, DropLease(t, c)
      PROVE  Kept
  <2>1. /\ pc[t] = "idle" /\ pc'[t] = "drop" /\ call'[t].broker = c
        /\ c \in leases[t] /\ leases'[t] = leases[t] \ {c}
        /\ scope' = scope /\ UNCHANGED <<acquired, peak_acquired>>
    BY <1>7 DEF DropLease, atomicVars
  <2> QED  BY <1>0, <2>1
<1>8. CASE EndScope(t)
  <2>1. /\ pc[t] = "idle" /\ pc'[t] = "drop" /\ call'[t].broker = scope[t]
        /\ scope[t] # NoBroker /\ scope'[t] = NoBroker
        /\ leases' = leases /\ UNCHANGED <<acquired, peak_acquired>>
    BY <1>8 DEF EndScope, atomicVars
  <2> QED  BY <1>0, <2>1, BrokerAssumption
<1> QED
  BY <1>1, <1>2, <1>3, <1>4, <1>5, <1>6, <1>7, <1>8 DEF CallStep

(* Permits and counters follow their holders through every step.           *)
LEMMA PermitStep ==
  ASSUME BudgetTypeOK, BudgetTypeOK', CallsFit, PermitsConserved, CountersMatch, [BudgetNext]_budgetVars
  PROVE  PermitsConserved' /\ CountersMatch'
<1>1. CASE UNCHANGED budgetVars
  BY <1>1 DEF budgetVars, brokerVars, atomicVars, threadVars, PermitsConserved, CountersMatch,
       Holders, Counted, HoldersIn
<1>2. CASE BudgetNext
  <2>1. PICK t \in Thread :
          /\ OthersKeep(t)
          /\ \/ \E b \in Broker, kind \in {"lease", "scope"} : Enter(t, b, kind)
             \/ \E b \in Broker : TryAcquire(t, b) \/ DropLease(t, b)
             \/ WakeSpuriously(t) \/ CallStep(t) \/ EndScope(t)
    BY <1>2, OthersStep
  <2>2. ASSUME NEW b \in Broker
        PROVE  /\ available'[b] + Cardinality(Holders(b))' = Limit[b]
               /\ acquired'[b] = Cardinality(Counted(b))'
               /\ peak_acquired'[b] <= Limit[b]
    <3> DEFINE H == Cardinality(Holders(b))
               C == Cardinality(Counted(b))
               h == Held(t, b, HoldingStates)
               c == Held(t, b, CountedStates)
    <3>1. /\ available[b] \in Nat /\ available'[b] \in Nat /\ Limit[b] \in Nat
          /\ acquired[b] \in Int /\ acquired'[b] \in Int
          /\ peak_acquired[b] \in Int /\ peak_acquired'[b] \in Int
      BY LimitAssumption DEF BudgetTypeOK
    <3>2. h \in Nat /\ h' \in Nat /\ c \in Nat /\ c' \in Nat  BY DEF Held
    <3>3. H \in Nat /\ H' = H - h + h'
      <4>1. HoldingStates \cap Waiting = {}  BY DEF HoldingStates, Waiting
      <4>2. /\ Cardinality(HoldersIn(b, HoldingStates)) \in Nat
            /\ Cardinality(HoldersIn(b, HoldingStates))'
                 = Cardinality(HoldersIn(b, HoldingStates)) - h + h'
        BY <2>1, <4>1, CountStep
      <4> QED  BY <4>2 DEF Holders, HoldingStates
    <3>4. C \in Nat /\ C' = C - c + c'
      <4>1. CountedStates \cap Waiting = {}  BY DEF CountedStates, Waiting
      <4>2. /\ Cardinality(HoldersIn(b, CountedStates)) \in Nat
            /\ Cardinality(HoldersIn(b, CountedStates))'
                 = Cardinality(HoldersIn(b, CountedStates)) - c + c'
        BY <2>1, <4>1, CountStep
      <4> QED  BY <4>2 DEF Counted, CountedStates
    <3>5. available[b] + h = available'[b] + h'  BY <2>1, Balance
    <3>6. /\ acquired'[b] - c' = acquired[b] - c
          /\ peak_acquired'[b] = peak_acquired[b] \/ peak_acquired'[b] = acquired'[b]
      BY <2>1, CountBalance
    <3>7. available[b] + H = Limit[b]  BY DEF PermitsConserved
    <3>8. acquired[b] = C /\ peak_acquired[b] <= Limit[b]  BY DEF CountersMatch
    <3>9. C' <= H' /\ H' \in Nat
      <4>1. Counted(b)' \subseteq Holders(b)' /\ Holders(b)' \in SUBSET Holding
        BY DEF Counted, Holders, HoldersIn
      <4> QED  BY <4>1, HoldingFinite, FS_Subset
    <3> HIDE DEF H, C, h, c
    <3>10. available'[b] + H' = Limit[b]  BY <3>1, <3>2, <3>3, <3>5, <3>7
    <3>11. acquired'[b] = C'  BY <3>1, <3>2, <3>4, <3>6, <3>8
    <3>12. peak_acquired'[b] <= Limit[b]
      BY <3>1, <3>6, <3>8, <3>9, <3>10, <3>11
    <3> QED  BY <3>10, <3>11, <3>12 DEF H, C
  <2> QED  BY <2>2 DEF PermitsConserved, CountersMatch
<1> QED  BY <1>1, <1>2

(* A call that has taken a permit for a lease still has none of its own.   *)
LEMMA CallsStep ==
  ASSUME BudgetTypeOK, CallsFit, [BudgetNext]_budgetVars
  PROVE  CallsFit'
<1> USE DEF BudgetTypeOK, Waiting
<1>1. CASE UNCHANGED budgetVars
  BY <1>1 DEF budgetVars, threadVars, CallsFit
<1>2. CASE BudgetNext
  <2>1. PICK t \in Thread :
          /\ OthersKeep(t)
          /\ \/ \E b \in Broker, kind \in {"lease", "scope"} : Enter(t, b, kind)
             \/ \E b \in Broker : TryAcquire(t, b) \/ DropLease(t, b)
             \/ WakeSpuriously(t) \/ CallStep(t) \/ EndScope(t)
    BY <1>2, OthersStep
  <2> DEFINE Fits(u) ==
        /\ pc'[u] \in Waiting \cup {"notify"} => call'[u].kind # "try"
        /\ pc'[u] \in Waiting \cup {"record", "notify"} /\ call'[u].kind # "scope" =>
             call'[u].broker \notin leases'[u]
  <2>2. ASSUME NEW u \in Thread, u # t
        PROVE  Fits(u)
    BY <2>1, <2>2 DEF OthersKeep, CallsFit
  <2>3. ASSUME NEW b \in Broker, NEW kind \in {"lease", "scope"}, Enter(t, b, kind)
        PROVE  Fits(t)
    <3>1. call'[t] = [broker |-> b, kind |-> kind] /\ leases'[t] = {}
      BY <2>3 DEF Enter, MayBlock
    <3> QED  BY <3>1
  <2>4. ASSUME NEW b \in Broker, TryAcquire(t, b)
        PROVE  Fits(t)
    BY <2>4 DEF TryAcquire
  <2>5. ASSUME NEW b \in Broker, DropLease(t, b)
        PROVE  Fits(t)
    BY <2>5 DEF DropLease
  <2>6. ASSUME WakeSpuriously(t) \/ Recheck(t)
        PROVE  Fits(t)
    <3>1. pc[t] \in Waiting /\ call' = call /\ leases' = leases
      BY <2>6 DEF WakeSpuriously, Recheck
    <3>2. pc'[t] \in Waiting \cup {"record"}
      BY <2>6 DEF WakeSpuriously, Recheck
    <3> QED  BY <3>1, <3>2 DEF CallsFit
  <2>7. ASSUME RecordAcquire(t)
        PROVE  Fits(t)
    <3>1. CASE call[t].kind = "try"
      BY <2>7, <3>1 DEF RecordAcquire
    <3>2. CASE call[t].kind # "try"
      BY <2>7, <3>2 DEF RecordAcquire, CallsFit
    <3> QED  BY <3>1, <3>2
  <2>8. ASSUME Acquired(t) \/ CountRelease(t) \/ ReturnPermit(t) \/ NotifyReleased(t) \/ EndScope(t)
        PROVE  Fits(t)
    <3>1. pc'[t] \in {"idle", "drop", "unlock", "wake"}
      BY <2>8 DEF Acquired, CountRelease, ReturnPermit, NotifyReleased, EndScope, NotifyAll
    <3> QED  BY <3>1
  <2>9. Fits(t)
    BY <2>1, <2>3, <2>4, <2>5, <2>6, <2>7, <2>8 DEF CallStep
  <2> QED  BY <2>2, <2>9 DEF CallsFit
<1> QED  BY <1>1, <1>2

(* A line whose tickets and waiters stay is still a line.                  *)
LEMMA LineKept ==
  ASSUME NEW b \in Broker, InLine(b),
         next_ticket'[b] = next_ticket[b], serving_ticket'[b] = serving_ticket[b],
         \A u \in Thread : /\ Waits(u, b)' <=> Waits(u, b)
                           /\ Waits(u, b) => ticket'[u] = ticket[u]
  PROVE  InLine(b)'
<1>1. serving_ticket'[b] <= next_ticket'[b]  BY DEF InLine
<1>2. \A n \in serving_ticket'[b] .. next_ticket'[b] - 1 :
        \E u \in Thread : Waits(u, b)' /\ ticket'[u] = n
  BY DEF InLine
<1>3. \A u \in Thread : Waits(u, b)' =>
        serving_ticket'[b] <= ticket'[u] /\ ticket'[u] < next_ticket'[b]
  BY DEF InLine
<1>4. \A t, u \in Thread : Waits(t, b)' /\ Waits(u, b)' /\ ticket'[t] = ticket'[u] => t = u
  BY DEF InLine
<1> QED  BY <1>1, <1>2, <1>3, <1>4 DEF InLine

(* A newcomer joins the end of the line.                                   *)
LEMMA LineJoined ==
  ASSUME BudgetTypeOK, NEW b \in Broker, InLine(b), NEW t \in Thread,
         ~ Waits(t, b), Waits(t, b)', ticket'[t] = next_ticket[b],
         next_ticket'[b] = next_ticket[b] + 1, serving_ticket'[b] = serving_ticket[b],
         \A u \in Thread \ {t} : /\ Waits(u, b)' <=> Waits(u, b)
                                 /\ ticket'[u] = ticket[u]
  PROVE  InLine(b)'
<1>0. next_ticket[b] \in Nat /\ serving_ticket[b] \in Nat
      /\ \A u \in Thread : ticket[u] \in Nat
  BY DEF BudgetTypeOK
<1>1. serving_ticket'[b] <= next_ticket'[b]  BY <1>0 DEF InLine
<1>2. ASSUME NEW n \in serving_ticket'[b] .. next_ticket'[b] - 1
      PROVE  \E u \in Thread : Waits(u, b)' /\ ticket'[u] = n
  <2>1. CASE n = next_ticket[b]  BY <2>1
  <2>2. CASE n # next_ticket[b]
    <3>1. n \in serving_ticket[b] .. next_ticket[b] - 1  BY <1>0, <1>2, <2>2
    <3>2. PICK u \in Thread : Waits(u, b) /\ ticket[u] = n  BY <3>1 DEF InLine
    <3> QED  BY <3>2
  <2> QED  BY <2>1, <2>2
<1>3. \A u \in Thread : Waits(u, b)' =>
        serving_ticket'[b] <= ticket'[u] /\ ticket'[u] < next_ticket'[b]
  BY <1>0 DEF InLine
<1>4. \A v, u \in Thread : Waits(v, b)' /\ Waits(u, b)' /\ ticket'[v] = ticket'[u] => v = u
  BY <1>0 DEF InLine
<1> QED  BY <1>1, <1>2, <1>3, <1>4 DEF InLine

(* The head of the line is served.                                         *)
LEMMA LineServed ==
  ASSUME BudgetTypeOK, NEW b \in Broker, InLine(b), NEW t \in Thread,
         Waits(t, b), ~ Waits(t, b)', ticket[t] = serving_ticket[b], ticket' = ticket,
         next_ticket'[b] = next_ticket[b], serving_ticket'[b] = serving_ticket[b] + 1,
         \A u \in Thread \ {t} : Waits(u, b)' <=> Waits(u, b)
  PROVE  InLine(b)'
<1>0. next_ticket[b] \in Nat /\ serving_ticket[b] \in Nat
      /\ \A u \in Thread : ticket[u] \in Nat
  BY DEF BudgetTypeOK
<1>1. serving_ticket'[b] <= next_ticket'[b]  BY <1>0 DEF InLine
<1>2. ASSUME NEW n \in serving_ticket'[b] .. next_ticket'[b] - 1
      PROVE  \E u \in Thread : Waits(u, b)' /\ ticket'[u] = n
  <2>1. n \in serving_ticket[b] .. next_ticket[b] - 1 /\ n # ticket[t]  BY <1>0, <1>2
  <2>2. PICK u \in Thread : Waits(u, b) /\ ticket[u] = n  BY <2>1 DEF InLine
  <2> QED  BY <2>1, <2>2
<1>3. \A u \in Thread : Waits(u, b)' =>
        serving_ticket'[b] <= ticket'[u] /\ ticket'[u] < next_ticket'[b]
  BY <1>0 DEF InLine
<1>4. \A v, u \in Thread : Waits(v, b)' /\ Waits(u, b)' /\ ticket'[v] = ticket'[u] => v = u
  BY DEF InLine
<1> QED  BY <1>1, <1>2, <1>3, <1>4 DEF InLine

(* With nobody in line a permit is taken past both ends of the line.       *)
LEMMA LineEmpty ==
  ASSUME BudgetTypeOK, NEW b \in Broker, InLine(b), serving_ticket[b] = next_ticket[b]
  PROVE  /\ \A u \in Thread : ~ Waits(u, b)
         /\ ( /\ next_ticket'[b] = next_ticket[b] + 1
              /\ serving_ticket'[b] = serving_ticket[b] + 1
              /\ \A u \in Thread : Waits(u, b)' <=> Waits(u, b) ) => InLine(b)'
<1>0. next_ticket[b] \in Nat /\ serving_ticket[b] \in Nat
      /\ \A u \in Thread : ticket[u] \in Nat
  BY DEF BudgetTypeOK
<1>1. \A u \in Thread : ~ Waits(u, b)  BY <1>0 DEF InLine
<1>2. ASSUME next_ticket'[b] = next_ticket[b] + 1, serving_ticket'[b] = serving_ticket[b] + 1,
             \A u \in Thread : Waits(u, b)' <=> Waits(u, b)
      PROVE  InLine(b)'
  <2>1. serving_ticket'[b] = next_ticket'[b] /\ next_ticket'[b] \in Nat  BY <1>0, <1>2
  <2>2. serving_ticket'[b] .. next_ticket'[b] - 1 = {}  BY <2>1
  <2> QED  BY <1>1, <1>2, <2>1, <2>2 DEF InLine
<1> QED  BY <1>1, <1>2

(* Waits is untouched for the threads that do not move. *)
LEMMA OthersWait ==
  ASSUME NEW t \in Thread, OthersKeep(t), NEW b \in Broker
  PROVE  \A u \in Thread \ {t} : Waits(u, b)' <=> Waits(u, b)
BY DEF OthersKeep, Waits, Waiting

(* Every step keeps the line of every broker.                              *)
LEMMA TicketStep ==
  ASSUME BudgetTypeOK, TicketsInLine, [BudgetNext]_budgetVars
  PROVE  TicketsInLine'
<1> USE DEF BudgetTypeOK
<1>1. CASE UNCHANGED budgetVars
  BY <1>1 DEF budgetVars, brokerVars, threadVars, TicketsInLine, InLine, Waits
<1>2. CASE BudgetNext
  <2>1. PICK t \in Thread :
          /\ OthersKeep(t)
          /\ \/ \E b \in Broker, kind \in {"lease", "scope"} : Enter(t, b, kind)
             \/ \E b \in Broker : TryAcquire(t, b) \/ DropLease(t, b)
             \/ WakeSpuriously(t) \/ CallStep(t) \/ EndScope(t)
    BY <1>2, OthersStep
  <2>2. SUFFICES ASSUME NEW b \in Broker PROVE InLine(b)'
    BY DEF TicketsInLine
  <2>3. InLine(b)  BY DEF TicketsInLine
  <2>4. \A u \in Thread \ {t} : Waits(u, b)' <=> Waits(u, b)
    BY <2>1, OthersWait
  <2>5. ASSUME NEW c \in Broker, next_ticket[c] = serving_ticket[c],
               pc[t] = "idle", pc'[t] = "record",
               next_ticket' = [next_ticket EXCEPT ![c] = @ + 1],
               serving_ticket' = [serving_ticket EXCEPT ![c] = @ + 1],
               \A u \in Thread \ {t} : ticket'[u] = ticket[u]
        PROVE  InLine(b)'
    <3>1. ~ Waits(t, b) /\ ~ Waits(t, b)'  BY <2>5 DEF Waits, Waiting
    <3>2. \A u \in Thread : Waits(u, b)' <=> Waits(u, b)  BY <2>4, <3>1
    <3>3. CASE b = c
      <4>1. next_ticket'[b] = next_ticket[b] + 1 /\ serving_ticket'[b] = serving_ticket[b] + 1
        BY <2>5, <3>3
      <4> QED  BY <2>3, <2>5, <3>2, <3>3, <4>1, LineEmpty
    <3>4. CASE b # c
      <4>1. next_ticket'[b] = next_ticket[b] /\ serving_ticket'[b] = serving_ticket[b]
        BY <2>5, <3>4
      <4>2. \A u \in Thread : Waits(u, b) => ticket'[u] = ticket[u]  BY <2>5, <3>1
      <4> QED  BY <2>3, <3>2, <4>1, <4>2, LineKept
    <3> QED  BY <3>3, <3>4
  <2>6. ASSUME UNCHANGED <<next_ticket, serving_ticket, ticket>>,
               Waits(t, b)' <=> Waits(t, b)
        PROVE  InLine(b)'
    BY <2>3, <2>4, <2>6, LineKept
  <2>7. ASSUME NEW c \in Broker, NEW kind \in {"lease", "scope"}, Enter(t, c, kind)
        PROVE  InLine(b)'
    <3>1. /\ pc[t] = "idle" /\ call'[t].broker = c
          /\ next_ticket' = [next_ticket EXCEPT ![c] = @ + 1]
          /\ ticket'[t] = next_ticket[c]
          /\ \A u \in Thread \ {t} : ticket'[u] = ticket[u]
      BY <2>7 DEF Enter
    <3>2. CASE Served(c, next_ticket[c])
      BY <2>5, <2>7, <3>1, <3>2 DEF Enter, Take, Served
    <3>3. CASE ~ Served(c, next_ticket[c])
      <4>1. pc'[t] = "asleep" /\ serving_ticket' = serving_ticket  BY <2>7, <3>3 DEF Enter
      <4>2. ~ Waits(t, b) /\ (Waits(t, b)' <=> b = c)
        BY <3>1, <4>1 DEF Waits, Waiting
      <4>3. CASE b = c
        BY <2>3, <2>4, <3>1, <4>1, <4>2, <4>3, LineJoined
      <4>4. CASE b # c
        <5>1. next_ticket'[b] = next_ticket[b]  BY <3>1, <4>4
        <5> QED  BY <2>3, <2>4, <3>1, <4>1, <4>2, <4>4, <5>1, LineKept
      <4> QED  BY <4>3, <4>4
    <3> QED  BY <3>2, <3>3
  <2>8. ASSUME NEW c \in Broker, TryAcquire(t, c)
        PROVE  InLine(b)'
    BY <2>5, <2>8 DEF TryAcquire, Take
  <2>9. CASE Recheck(t)
    <3>1. pc[t] = "awake" /\ UNCHANGED <<next_ticket, ticket, call>>  BY <2>9 DEF Recheck
    <3>2. CASE Served(call[t].broker, ticket[t])
      <4>1. /\ pc'[t] = "record"
            /\ serving_ticket'[b] = serving_ticket[b] + (IF b = call[t].broker THEN 1 ELSE 0)
        BY <2>9, <3>2 DEF Recheck, Take
      <4>2. ~ Waits(t, b)' /\ (Waits(t, b) <=> b = call[t].broker)
        BY <3>1, <4>1 DEF Waits, Waiting
      <4>3. CASE b = call[t].broker
        <5>1. ticket[t] = serving_ticket[b]  BY <3>2, <4>3 DEF Served
        <5> QED  BY <2>3, <2>4, <3>1, <4>1, <4>2, <4>3, <5>1, LineServed
      <4>4. CASE b # call[t].broker
        <5>1. serving_ticket'[b] = serving_ticket[b]  BY <4>1, <4>4
        <5> QED  BY <2>3, <2>4, <3>1, <4>2, <4>4, <5>1, LineKept
      <4> QED  BY <4>3, <4>4
    <3>3. CASE ~ Served(call[t].broker, ticket[t])
      <4>1. pc'[t] = "asleep" /\ serving_ticket' = serving_ticket
        BY <2>9, <3>3 DEF Recheck
      <4> QED  BY <2>6, <3>1, <4>1 DEF Waits, Waiting
    <3> QED  BY <3>2, <3>3
  <2>10. CASE WakeSpuriously(t)
    BY <2>6, <2>10 DEF WakeSpuriously, brokerVars, Waits, Waiting
  <2>11. CASE RecordAcquire(t)
    BY <2>6, <2>11 DEF RecordAcquire, brokerVars, Waits, Waiting
  <2>12. CASE Acquired(t)
    <3>1. pc[t] = "notify" /\ pc'[t] \in {"idle", "drop"}
      BY <2>12 DEF Acquired, NotifyAll
    <3> QED  BY <2>6, <2>12, <3>1 DEF Acquired, brokerVars, Waits, Waiting
  <2>13. CASE CountRelease(t)
    BY <2>6, <2>13 DEF CountRelease, brokerVars, Waits, Waiting
  <2>14. CASE ReturnPermit(t)
    BY <2>6, <2>14 DEF ReturnPermit, Waits, Waiting
  <2>15. CASE NotifyReleased(t)
    BY <2>6, <2>15 DEF NotifyReleased, NotifyAll, brokerVars, Waits, Waiting
  <2>16. ASSUME NEW c \in Broker, DropLease(t, c)
         PROVE  InLine(b)'
    BY <2>6, <2>16 DEF DropLease, brokerVars, Waits, Waiting
  <2>17. CASE EndScope(t)
    BY <2>6, <2>17 DEF EndScope, brokerVars, Waits, Waiting
  <2> QED
    BY <2>1, <2>7, <2>8, <2>9, <2>10, <2>11, <2>12, <2>13, <2>14, <2>15, <2>16, <2>17
       DEF CallStep
<1> QED  BY <1>1, <1>2

(* Every step leaves a sleeper whose turn it is someone who will wake it.  *)
LEMMA WakeStep ==
  ASSUME BudgetTypeOK, CallsFit, TicketsInLine, NoLostWakeup, [BudgetNext]_budgetVars
  PROVE  NoLostWakeup'
<1> USE DEF BudgetTypeOK
<1>1. CASE UNCHANGED budgetVars
  BY <1>1 DEF budgetVars, brokerVars, threadVars, NoLostWakeup, Served, WillNotify
<1>2. CASE BudgetNext
  <2>1. PICK t \in Thread :
          /\ OthersKeep(t)
          /\ \/ \E b \in Broker, kind \in {"lease", "scope"} : Enter(t, b, kind)
             \/ \E b \in Broker : TryAcquire(t, b) \/ DropLease(t, b)
             \/ WakeSpuriously(t) \/ CallStep(t) \/ EndScope(t)
    BY <1>2, OthersStep
  <2>2. SUFFICES ASSUME NEW u \in Thread, NEW b \in Broker, call'[u].broker = b,
                        pc'[u] = "asleep", ticket'[u] = serving_ticket'[b], available'[b] # 0
                 PROVE  \E v \in Thread : WillNotify(v, b)'
    <3>1. call' \in [Thread -> Call]  BY TypeStep
    <3>2. \A v \in Thread : call'[v].broker \in Broker  BY <3>1 DEF Call
    <3> QED  BY <3>2 DEF NoLostWakeup, Served, WillNotify
  (* t does not come between the sleeper and the one that wakes it. *)
  <2>3. ASSUME u # t, ~ WillNotify(t, b), ticket'[u] = ticket[u],
               serving_ticket'[b] = serving_ticket[b], available'[b] = available[b]
        PROVE  \E v \in Thread : WillNotify(v, b)'
    <3>1. pc[u] = "asleep" /\ call[u].broker = b  BY <2>1, <2>2, <2>3 DEF OthersKeep
    <3>2. Served(b, ticket[u])  BY <2>2, <2>3 DEF Served
    <3>3. PICK v \in Thread : WillNotify(v, b)  BY <3>1, <3>2 DEF NoLostWakeup
    <3>4. v # t  BY <2>3, <3>3
    <3> QED  BY <2>1, <3>3, <3>4 DEF OthersKeep, WillNotify
  <2>4. ASSUME NEW c \in Broker, NEW kind \in {"lease", "scope"}, Enter(t, c, kind)
        PROVE  \E v \in Thread : WillNotify(v, b)'
    <3>1. /\ pc[t] = "idle" /\ call'[t] = [broker |-> c, kind |-> kind]
          /\ \A v \in Thread \ {t} : ticket'[v] = ticket[v]
          /\ ticket'[t] = next_ticket[c]
      BY <2>4 DEF Enter
    <3>2. ~ WillNotify(t, b)  BY <3>1 DEF WillNotify
    <3>3. CASE Served(c, next_ticket[c])
      <4>1. /\ pc'[t] = "record"
            /\ c # b => available'[b] = available[b] /\ serving_ticket'[b] = serving_ticket[b]
        BY <2>4, <3>3 DEF Enter, Take
      <4>2. CASE b = c  BY <3>1, <4>1, <4>2 DEF WillNotify
      <4>3. CASE b # c  BY <2>2, <2>3, <3>1, <3>2, <4>1, <4>3
      <4> QED  BY <4>2, <4>3
    <3>4. CASE ~ Served(c, next_ticket[c])
      <4>1. available' = available /\ serving_ticket' = serving_ticket
        BY <2>4, <3>4 DEF Enter
      <4>2. u # t  BY <2>2, <3>1, <3>4, <4>1 DEF Served
      <4> QED  BY <2>3, <3>1, <3>2, <4>1, <4>2
    <3> QED  BY <3>3, <3>4
  <2>5. ASSUME NEW c \in Broker, TryAcquire(t, c)
        PROVE  \E v \in Thread : WillNotify(v, b)'
    <3>1. /\ pc[t] = "idle" /\ pc'[t] = "record" /\ ticket' = ticket
          /\ next_ticket[c] = serving_ticket[c]
          /\ c # b => available'[b] = available[b] /\ serving_ticket'[b] = serving_ticket[b]
      BY <2>5 DEF TryAcquire, Take
    <3>2. u # t /\ ~ WillNotify(t, b)  BY <2>2, <3>1 DEF WillNotify
    <3>3. b # c
      <4>1. \A v \in Thread : ~ Waits(v, c)
        BY <3>1, LineEmpty DEF TicketsInLine
      <4>2. Waits(u, b)  BY <2>1, <2>2, <3>2 DEF OthersKeep, Waits, Waiting
      <4> QED  BY <4>1, <4>2
    <3> QED  BY <2>3, <3>1, <3>2, <3>3
  <2>6. CASE WakeSpuriously(t)
    <3>1. pc[t] = "asleep" /\ pc'[t] = "awake" /\ UNCHANGED <<brokerVars, ticket>>
      BY <2>6 DEF WakeSpuriously
    <3> QED  BY <2>2, <2>3, <3>1 DEF WillNotify, brokerVars
  <2>7. CASE Recheck(t)
    <3>1. pc[t] = "awake" /\ call' = call /\ ticket' = ticket  BY <2>7 DEF Recheck
    <3>2. ~ WillNotify(t, b)  BY <3>1 DEF WillNotify
    <3>3. CASE Served(call[t].broker, ticket[t])
      <4>1. /\ pc'[t] = "record"
            /\ call[t].broker # b =>
                 available'[b] = available[b] /\ serving_ticket'[b] = serving_ticket[b]
        BY <2>7, <3>3 DEF Recheck, Take
      <4>2. call[t].kind # "try"  BY <3>1 DEF CallsFit, Waiting
      <4>3. CASE b = call[t].broker  BY <3>1, <4>1, <4>2, <4>3 DEF WillNotify
      <4>4. CASE b # call[t].broker  BY <2>2, <2>3, <3>1, <3>2, <4>1, <4>4
      <4> QED  BY <4>3, <4>4
    <3>4. CASE ~ Served(call[t].broker, ticket[t])
      <4>1. available' = available /\ serving_ticket' = serving_ticket
        BY <2>7, <3>4 DEF Recheck
      <4>2. u # t  BY <2>2, <3>1, <3>4, <4>1 DEF Served
      <4> QED  BY <2>3, <3>1, <3>2, <4>1, <4>2
    <3> QED  BY <3>3, <3>4
  <2>8. CASE RecordAcquire(t)
    <3>1. pc[t] = "record" /\ call' = call /\ UNCHANGED <<brokerVars, ticket>>
      BY <2>8 DEF RecordAcquire
    <3>2. CASE call[t].kind # "try" /\ call[t].broker = b
      <4>1. pc'[t] = "notify"  BY <2>8, <3>2 DEF RecordAcquire
      <4> QED  BY <3>1, <3>2, <4>1 DEF WillNotify
    <3>3. CASE ~ (call[t].kind # "try" /\ call[t].broker = b)
      <4>1. ~ WillNotify(t, b)  BY <3>1, <3>3 DEF WillNotify
      <4>2. u # t  BY <2>2, <2>8 DEF RecordAcquire
      <4> QED  BY <2>3, <3>1, <4>1, <4>2 DEF brokerVars
    <3> QED  BY <3>2, <3>3
  <2>9. ASSUME UNCHANGED <<brokerVars, call, ticket>>, pc[t] \in {"notify", "wake"},
               \E next \in {"idle", "drop"} : NotifyAll(t, call[t].broker, next)
        PROVE  \E v \in Thread : WillNotify(v, b)'
    <3>1. u # t  BY <2>2, <2>9 DEF NotifyAll
    <3>2. call[t].broker # b  BY <2>2, <2>9, <3>1 DEF NotifyAll
    <3>3. ~ WillNotify(t, b)  BY <3>2 DEF WillNotify
    <3> QED  BY <2>3, <2>9, <3>1, <3>3 DEF brokerVars
  <2>10. CASE Acquired(t) \/ NotifyReleased(t)
    BY <2>9, <2>10 DEF Acquired, NotifyReleased
  <2>11. CASE ReturnPermit(t)
    <3>1. /\ pc[t] = "unlock" /\ pc'[t] = "wake" /\ call' = call
          /\ UNCHANGED <<serving_ticket, ticket>>
          /\ call[t].broker # b => available'[b] = available[b]
      BY <2>11 DEF ReturnPermit
    <3>2. CASE call[t].broker = b  BY <3>1, <3>2 DEF WillNotify
    <3>3. CASE call[t].broker # b  BY <2>2, <2>3, <3>1, <3>3 DEF WillNotify
    <3> QED  BY <3>2, <3>3
  <2>12. ASSUME NEW c \in Broker, CountRelease(t) \/ EndScope(t) \/ DropLease(t, c)
         PROVE  \E v \in Thread : WillNotify(v, b)'
    <3>1. /\ pc[t] \in {"drop", "idle"} /\ pc'[t] \in {"drop", "unlock"}
          /\ UNCHANGED <<brokerVars, ticket>>
      BY <2>12 DEF CountRelease, EndScope, DropLease
    <3> QED  BY <2>2, <2>3, <3>1 DEF WillNotify, brokerVars
  <2>13. CASE CountRelease(t) \/ EndScope(t)
    BY <2>12, <2>13
  <2> QED
    BY <2>1, <2>4, <2>5, <2>6, <2>7, <2>8, <2>10, <2>11, <2>12, <2>13 DEF CallStep
<1> QED  BY <1>1, <1>2

-------------------------------------------------------------------------------
(* Theorems *)

LEMMA InitInv == BudgetInit => BudgetIInv
<1> SUFFICES ASSUME BudgetInit PROVE BudgetIInv  OBVIOUS
<1> USE DEF BudgetInit
<1>1. BudgetTypeOK
  <2>1. (CHOOSE b \in Broker : TRUE) \in Broker  BY BrokerAssumption
  <2>2. call \in [Thread -> Call]  BY <2>1 DEF Call, Kind
  <2>3. available \in [Broker -> Nat]  BY LimitAssumption
  <2> QED  BY <2>2, <2>3 DEF BudgetTypeOK, PC, Waiting
<1>2. ASSUME NEW b \in Broker
      PROVE  Holders(b) = {} /\ Counted(b) = {} /\ ~ \E t \in Thread : Waits(t, b)
  <2>1. \A h \in Holding : h[1] \in Thread  BY DEF Holding
  <2> QED  BY <2>1, BrokerAssumption DEF Holders, Counted, HoldersIn, Waits, Waiting
<1>3. \A b \in Broker : Cardinality(Holders(b)) = 0 /\ Cardinality(Counted(b)) = 0
  BY <1>2, FS_EmptySet, Zenon
<1>4. PermitsConserved /\ CountersMatch
  BY <1>3, LimitAssumption DEF PermitsConserved, CountersMatch
<1>5. TicketsInLine
  <2>1. 0 .. 0 - 1 = {}  OBVIOUS
  <2> QED  BY <1>2, <2>1 DEF TicketsInLine, InLine
<1> QED  BY <1>1, <1>4, <1>5 DEF BudgetIInv, CallsFit, NoLostWakeup, Waiting

LEMMA StepInv == BudgetIInv /\ [BudgetNext]_budgetVars => BudgetIInv'
<1> SUFFICES ASSUME BudgetIInv, [BudgetNext]_budgetVars PROVE BudgetIInv'  OBVIOUS
<1>1. /\ BudgetTypeOK /\ CallsFit /\ PermitsConserved /\ CountersMatch
      /\ TicketsInLine /\ NoLostWakeup
  BY DEF BudgetIInv
<1>2. BudgetTypeOK'  BY <1>1, TypeStep
<1>3. CallsFit'  BY <1>1, CallsStep
<1>4. PermitsConserved' /\ CountersMatch'  BY <1>1, <1>2, PermitStep
<1>5. TicketsInLine'  BY <1>1, TicketStep
<1>6. NoLostWakeup'  BY <1>1, WakeStep
<1> QED  BY <1>2, <1>3, <1>4, <1>5, <1>6 DEF BudgetIInv

(* Permits by holders, counters by counted holders, tickets by waiters and *)
(* sleepers by who will wake them: the invariant of every execution.       *)
THEOREM BudgetInvariant == BudgetSpec => []BudgetIInv
<1> QED  BY InitInv, StepInv, PTL DEF BudgetSpec

(* A broker's permits are never lost nor made, for any limit and number of *)
(* threads, nested scopes included.                                        *)
THEOREM PermitsAreConserved == BudgetSpec => []PermitsConserved
<1>1. BudgetIInv => PermitsConserved  BY DEF BudgetIInv
<1> QED  BY <1>1, BudgetInvariant, PTL

(* acquired and peak_acquired, read without the mutex, stay within limit.  *)
THEOREM CountersWithinLimit == BudgetSpec => []AcquiredWithinLimit
<1>1. ASSUME BudgetIInv PROVE AcquiredWithinLimit
  <2> SUFFICES ASSUME NEW b \in Broker
               PROVE  /\ acquired[b] <= Limit[b] - available[b]
                      /\ peak_acquired[b] <= Limit[b]
    BY DEF AcquiredWithinLimit
  <2>1. /\ available[b] + Cardinality(Holders(b)) = Limit[b]
        /\ acquired[b] = Cardinality(Counted(b)) /\ peak_acquired[b] <= Limit[b]
    BY <1>1 DEF BudgetIInv, PermitsConserved, CountersMatch
  <2>2. Counted(b) \subseteq Holders(b) /\ Holders(b) \in SUBSET Holding
    BY DEF Counted, Holders, HoldersIn
  <2>3. /\ Cardinality(Counted(b)) <= Cardinality(Holders(b))
        /\ Cardinality(Counted(b)) \in Nat /\ Cardinality(Holders(b)) \in Nat
    BY <2>2, HoldingFinite, FS_Subset
  <2>4. available[b] \in Nat /\ Limit[b] \in Nat
    BY <1>1, LimitAssumption DEF BudgetIInv, BudgetTypeOK
  <2> QED  BY <2>1, <2>3, <2>4
<1> QED  BY <1>1, BudgetInvariant, PTL

(* The line of tickets has no gaps and no doubles.                         *)
THEOREM TicketsStayInLine == BudgetSpec => []TicketsInLine
<1>1. BudgetIInv => TicketsInLine  BY DEF BudgetIInv
<1> QED  BY <1>1, BudgetInvariant, PTL

(* No wakeup is lost: a sleeper that may go on has one about to wake it.   *)
THEOREM WakeupsAreNotLost == BudgetSpec => []NoLostWakeup
<1>1. BudgetIInv => NoLostWakeup  BY DEF BudgetIInv
<1> QED  BY <1>1, BudgetInvariant, PTL

(* Neither try_acquire nor a new ticket overtakes a thread that waits.     *)
THEOREM FirstInFirstOut == BudgetSpec => NewcomerNeverOvertakes
<1>1. ASSUME BudgetIInv, [BudgetNext]_budgetVars PROVE [NewcomerStep]_budgetVars
  <2>1. BudgetTypeOK /\ TicketsInLine  BY <1>1 DEF BudgetIInv
  <2>2. CASE UNCHANGED budgetVars  BY <2>2
  <2>3. CASE BudgetNext
    <3> SUFFICES ASSUME NEW u \in Thread, pc[u] = "idle", pc'[u] = "record"
                 PROVE  ~ \E v \in Thread : Waits(v, call'[u].broker)
      BY DEF NewcomerStep
    <3>1. PICK t \in Thread :
            /\ OthersKeep(t)
            /\ \/ \E b \in Broker, kind \in {"lease", "scope"} : Enter(t, b, kind)
               \/ \E b \in Broker : TryAcquire(t, b) \/ DropLease(t, b)
               \/ WakeSpuriously(t) \/ CallStep(t) \/ EndScope(t)
      BY <2>1, <2>3, OthersStep
    <3>2. u = t  BY <3>1 DEF OthersKeep
    <3>3. \A b \in Broker : next_ticket[b] = serving_ticket[b] =>
            \A v \in Thread : ~ Waits(v, b)
      BY <2>1, LineEmpty DEF TicketsInLine
    <3>4. ASSUME NEW b \in Broker, NEW kind \in {"lease", "scope"}, Enter(t, b, kind)
          PROVE  ~ \E v \in Thread : Waits(v, call'[u].broker)
      <4>1. call'[t].broker = b  BY <2>1, <3>4 DEF Enter, BudgetTypeOK
      <4>2. Served(b, next_ticket[b])
        BY <2>1, <3>2, <3>4 DEF Enter, BudgetTypeOK
      <4> QED  BY <3>2, <3>3, <4>1, <4>2 DEF Served
    <3>5. ASSUME NEW b \in Broker, TryAcquire(t, b)
          PROVE  ~ \E v \in Thread : Waits(v, call'[u].broker)
      <4>1. call'[t].broker = b /\ next_ticket[b] = serving_ticket[b]
        BY <2>1, <3>5 DEF TryAcquire, BudgetTypeOK
      <4> QED  BY <3>2, <3>3, <4>1
    <3>6. ~ CallStep(t) /\ ~ WakeSpuriously(t)
      BY <3>2 DEF CallStep, WakeSpuriously, Recheck, RecordAcquire, Acquired,
           CountRelease, ReturnPermit, NotifyReleased
    <3>7. ~ EndScope(t) /\ \A b \in Broker : ~ DropLease(t, b)
      BY <2>1, <3>2 DEF EndScope, DropLease, BudgetTypeOK
    <3> QED  BY <3>1, <3>4, <3>5, <3>6, <3>7
  <2> QED  BY <1>1, <2>2, <2>3
<1> QED  BY <1>1, BudgetInvariant, PTL DEF BudgetSpec, NewcomerNeverOvertakes
===============================================================================
