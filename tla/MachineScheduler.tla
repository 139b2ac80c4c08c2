---------------------------- MODULE MachineScheduler ----------------------------
(***************************************************************************)
(* StateMachineStore::tick of astra-runtime with what surrounds it in a    *)
(* World: machines added, actions registered and unregistered, access      *)
(* plans cached, waves of machines without conflicts planned and executed  *)
(* by workers on one snapshot, candidates committed in order, ids drawn.   *)
(*                                                                         *)
(* Vec<Vec<usize>> is kept as the machines in order (todo, once placed)    *)
(* and the number of the wave each is in.                                  *)
(***************************************************************************)
EXTENDS ActionAccess, FiniteSets, SequencesExt

CONSTANTS
  Machine, Offered, Fresh, Blank, MaxEvents, Execute(_, _, _, _, _),
  Plan(_, _),   \* the access plan of a machine under a registry
  Instance,     \* instances of machines
  Datum,        \* values of a key of the blackboard
  MaxStep,      \* bound on fixed steps
  MaxEpoch,     \* bound on changes of the registry
  MaxHanded     \* bound on ids drawn

VARIABLES
  installed, instance, registry, board, events, reports, phase,
  epoch,        \* identity of the registry's epoch
  plans,        \* cached access plans, by machine
  plan_epoch,   \* epoch they were made for; 0 when cleared
  step,         \* fixed step of the World
  unplaced,     \* machines build_conflict_waves has not reached
  placed,       \* machines in waves that are not committed, in order
  wave,         \* number of the wave of each placed machine
  open,         \* number of the wave being filled
  candidates,   \* results of the machines of the first wave
  sequence,     \* StableIdGenerator's counter
  handed        \* history: the ids drawn, <<step, sequence>>

storeVars == <<installed, plans, plan_epoch>>
registryVars == <<registry, epoch>>
waveVars == <<unplaced, placed, wave, open, candidates>>
idVars == <<sequence, handed>>
vars == <<installed, instance, registry, board, events, reports, phase, epoch,
          plans, plan_epoch, step, unplaced, placed, wave, open, candidates,
          sequence, handed>>
-------------------------------------------------------------------------------
(* Serial scheduling, which these variables implement: a tick is one phase, *)
(* and what has not been committed is still to do.                         *)
Serial == INSTANCE SerialScheduler
            WITH todo <- placed \o unplaced,
                 phase <- IF phase \in {"planning", "running"} THEN "tick" ELSE phase

Board == [Key -> Datum]
Registry ==
  {r \in Serial!Registries :
     \A n \in DOMAIN r : r[n] \in Offered[n] /\ ValidDescriptor(r[n])}

(* Machines are known by number, and no bound is negative. *)
ASSUME SchedulerBounds ==
  /\ Machine \subseteq Nat /\ IsFiniteSet(Machine)
  /\ MaxEvents \in Nat /\ MaxStep \in Nat /\ MaxEpoch \in Nat \ {0}
  /\ Blank \in Board /\ Fresh \in [Machine -> Instance]

(* A machine that has not failed leaves an instance and writes to keys.    *)
ASSUME ExecuteMakesCandidates ==
  \A m \in Machine, i \in Instance, r \in Registry, n \in 0 .. MaxEvents, b \in Board :
    LET c == Execute(m, i, r, n, b)
    IN /\ Plan(m, r) \in AccessPlan
       /\ ~ c.failed => /\ c.instance \in Instance
                        /\ DOMAIN c.delta \subseteq Key
                        /\ \A k \in DOMAIN c.delta : c.delta[k] \in Datum

(* A machine that may share a wave writes, and draws ids, as its actions   *)
(* declare; validate_observed_access refuses those that do not.            *)
ASSUME WritesAreDeclared ==
  \A m \in Machine, i \in Instance, r \in Registry, n \in 0 .. MaxEvents, b \in Board :
    LET c == Execute(m, i, r, n, b)
    IN ~ Plan(m, r).serial /\ ~ c.failed
         => /\ \A k \in DOMAIN c.delta : IsDeclared(Plan(m, r).writes, k)
            /\ c.ids # 0 => "StableIdSource" \in Plan(m, r).writes

(* What it does depends on no key that its actions do not declare.  The    *)
(* code relies on this: it sees that the blackboard was read, not which    *)
(* key, and looks at no guard.                                             *)
ASSUME ReadsAreDeclared ==
  \A m \in Machine, i \in Instance, r \in Registry, n \in 0 .. MaxEvents, b, d \in Board :
    LET p == Plan(m, r)
    IN /\ ~ p.serial
       /\ \A k \in Key : IsDeclared(p.reads \cup p.writes, k) => b[k] = d[k]
       => Execute(m, i, r, n, b) = Execute(m, i, r, n, d)

(* The ids a generator at position n hands out to c draws in this step *)
Ids(n, c) == [i \in 1 .. c |-> <<step, n + i - 1>>]

Init ==
  /\ installed = {} /\ instance = [m \in Machine |-> Fresh[m]]
  /\ registry = <<>> /\ epoch = 1
  /\ plans = <<>> /\ plan_epoch = 0
  /\ board = Blank /\ events = 0 /\ reports = {} /\ phase = "idle" /\ step = 0
  /\ unplaced = <<>> /\ placed = <<>> /\ wave = [m \in Machine |-> 0] /\ open = 0
  /\ candidates = <<>>
  /\ sequence = 0 /\ handed = <<>>
-------------------------------------------------------------------------------
(* Between ticks *)

AddMachine(m) ==
  /\ phase = "idle"
  /\ m \notin installed
  /\ installed' = installed \cup {m}
  /\ plans' = <<>>
  /\ plan_epoch' = 0
  /\ UNCHANGED <<instance, board, events, reports, phase, step>>
  /\ UNCHANGED <<registryVars, waveVars, idVars>>

(* Mutant: an action is registered whatever its descriptor says. *)
RegisterActionUnchecked(name, a) ==
  /\ phase \in {"idle", "failed"}
  /\ epoch < MaxEpoch
  /\ name \notin DOMAIN registry
  /\ registry' = [n \in DOMAIN registry \cup {name} |->
                    IF n = name THEN a ELSE registry[n]]
  /\ epoch' = epoch + 1
  /\ UNCHANGED <<instance, board, events, reports, phase, step>>
  /\ UNCHANGED <<storeVars, waveVars, idVars>>

(* Registration does not ask whether the World is active. *)
RegisterAction(name, a) ==
  /\ phase \in {"idle", "failed"}
  /\ epoch < MaxEpoch
  /\ ValidDescriptor(a)
  /\ name \notin DOMAIN registry
  /\ registry' = [n \in DOMAIN registry \cup {name} |->
                    IF n = name THEN a ELSE registry[n]]
  /\ epoch' = epoch + 1
  /\ UNCHANGED <<instance, board, events, reports, phase, step>>
  /\ UNCHANGED <<storeVars, waveVars, idVars>>

UnregisterProvider(p) ==
  LET kept == {n \in DOMAIN registry : registry[n].provider # p} IN
    /\ phase \in {"idle", "failed"}
    /\ epoch < MaxEpoch
    /\ kept # DOMAIN registry
    /\ registry' = [n \in kept |-> registry[n]]
    /\ epoch' = epoch + 1
    /\ UNCHANGED <<instance, board, events, reports, phase, step>>
    /\ UNCHANGED <<storeVars, waveVars, idVars>>

(* An id drawn by the World outside the tick, as create_actor does. *)
CreateActor ==
  /\ phase = "idle"
  /\ Len(handed) < MaxHanded
  /\ handed' = handed \o Ids(sequence, 1)
  /\ sequence' = sequence + 1
  /\ UNCHANGED <<instance, board, events, reports, phase, step>>
  /\ UNCHANGED <<storeVars, registryVars, waveVars>>
-------------------------------------------------------------------------------
(* The tick *)

(* Mutant: the epoch of the registry is not looked at. *)
PlansAreCurrentByLength == Cardinality(DOMAIN plans) = Cardinality(installed)

(* refresh_access_plans: made again unless as many plans as machines are   *)
(* cached for this epoch of the registry.                                  *)
PlansAreCurrent ==
  /\ Cardinality(DOMAIN plans) = Cardinality(installed)
  /\ plan_epoch = epoch

BeginTick(n) ==
  /\ phase = "idle"
  /\ step < MaxStep
  /\ step' = step + 1
  /\ events' = n
  /\ reports' = {}
  /\ phase' = "planning"
  /\ unplaced' = Serial!InOrder(Serial!Runnable)
  /\ wave' = [m \in Machine |-> 0]
  /\ open' = 0
  /\ \/ PlansAreCurrent /\ UNCHANGED <<plans, plan_epoch>>
     \/ /\ ~ PlansAreCurrent
        /\ plans' = [m \in installed |-> Plan(m, registry)]
        /\ plan_epoch' = epoch
  /\ UNCHANGED <<installed, instance, board, placed, candidates>>
  /\ UNCHANGED <<registryVars, idVars>>

(* One machine of build_conflict_waves *)
Current == {n \in ToSet(placed) : wave[n] = open}

Conflicts(m) ==
  \/ plans[m].serial
  \/ \E n \in Current : AccessConflicts(plans[m], plans[n])

PlaceMachine ==
  /\ phase = "planning"
  /\ unplaced # <<>>
  /\ LET m == Head(unplaced)
         into == IF Conflicts(m) /\ Current # {} THEN open + 1 ELSE open
     IN /\ wave' = [wave EXCEPT ![m] = into]
        /\ open' = IF plans[m].serial THEN into + 1 ELSE into
        /\ placed' = Append(placed, m)
  /\ unplaced' = Tail(unplaced)
  /\ UNCHANGED <<instance, board, events, reports, phase, step, candidates>>
  /\ UNCHANGED <<storeVars, registryVars, idVars>>

StartWaves ==
  /\ phase = "planning"
  /\ unplaced = <<>>
  /\ phase' = "running"
  /\ UNCHANGED <<instance, board, events, reports, step>>
  /\ UNCHANGED <<storeVars, registryVars, waveVars, idVars>>

FirstWave == {m \in ToSet(placed) : wave[m] = wave[Head(placed)]}

(* Workers finish the machines of a wave in any order.  All of them read   *)
(* what the wave started with and draw ids from a copy of its generator.   *)
ExecuteCandidate(m) ==
  /\ phase = "running"
  /\ placed # <<>>
  /\ m \in FirstWave \ DOMAIN candidates
  /\ candidates' = [n \in DOMAIN candidates \cup {m} |->
                      IF n = m
                        THEN [run |-> Execute(m, instance[m], registry, events, board),
                              base |-> sequence]
                        ELSE candidates[n]]
  /\ UNCHANGED <<instance, board, events, reports, phase, step>>
  /\ UNCHANGED <<storeVars, registryVars, idVars, unplaced, placed, wave, open>>

(* The commit loop: a failed candidate leaves its diagnostic only; the     *)
(* generator becomes the copy of the candidate, whatever others drew.      *)
WaveIsExecuted == placed # <<>> /\ FirstWave \subseteq DOMAIN candidates

CommitCandidate ==
  /\ phase = "running"
  /\ WaveIsExecuted
  /\ LET m == Head(placed)
         c == candidates[m]
     IN /\ \/ /\ c.run.failed
              /\ reports' = reports \cup {m}
              /\ UNCHANGED <<instance, board, idVars>>
           \/ /\ ~ c.run.failed
              /\ instance' = [instance EXCEPT ![m] = c.run.instance]
              /\ board' = Serial!Commit(c.run.delta, board)
              /\ sequence' = c.base + c.run.ids
              /\ handed' = handed \o Ids(c.base, c.run.ids)
              /\ UNCHANGED reports
        /\ candidates' = [n \in DOMAIN candidates \ {m} |-> candidates[n]]
  /\ placed' = Tail(placed)
  /\ UNCHANGED <<events, phase, step, unplaced, wave, open, storeVars, registryVars>>

(* A blocking diagnostic of any machine fails the tick and the World. *)
EndTick ==
  /\ phase = "running"
  /\ placed = <<>>
  /\ phase' = IF reports = {} THEN "idle" ELSE "failed"
  /\ UNCHANGED <<instance, board, events, reports, step>>
  /\ UNCHANGED <<storeVars, registryVars, waveVars, idVars>>
-------------------------------------------------------------------------------
Between ==
  \/ \E m \in Machine : AddMachine(m)
  \/ \E name \in DOMAIN Offered : \E a \in Offered[name] : RegisterAction(name, a)
  \/ \E name \in DOMAIN Offered : \E a \in Offered[name] : UnregisterProvider(a.provider)
  \/ CreateActor

Tick ==
  \/ \E n \in 0 .. MaxEvents : BeginTick(n)
  \/ PlaceMachine
  \/ StartWaves
  \/ \E m \in Machine : ExecuteCandidate(m)
  \/ CommitCandidate
  \/ EndTick

Next == Between \/ Tick

Spec == Init /\ [][Next]_vars
-------------------------------------------------------------------------------
(* Properties *)

(* Types of the variables, and how the phases use them. *)
TypeOK ==
  /\ installed \subseteq Machine
  /\ DOMAIN registry \subseteq DOMAIN Offered
  /\ \A n \in DOMAIN registry : registry[n] \in Offered[n] /\ ValidDescriptor(registry[n])
  /\ phase \in {"idle", "planning", "running", "failed"}
  /\ epoch \in 1 .. MaxEpoch /\ plan_epoch \in 0 .. epoch /\ step \in 0 .. MaxStep
  /\ DOMAIN plans \subseteq installed /\ \A m \in DOMAIN plans : plans[m] \in AccessPlan
  /\ ToSet(placed) \cup ToSet(unplaced) \subseteq installed
  /\ \A m \in Machine : wave[m] \in 0 .. open
  /\ DOMAIN candidates \subseteq ToSet(placed)
  /\ phase # "planning" => unplaced = <<>>
  /\ phase \notin {"planning", "running"} => placed = <<>>

(* No two machines of a wave have conflicting access by what their actions *)
(* declare NOW: build_conflict_waves on plans that refresh_access_plans    *)
(* keeps may not use those of an action since replaced.                    *)
WavesAreConflictFree ==
  \A m, n \in ToSet(placed) :
    m # n /\ wave[m] = wave[n]
      => ~ AccessConflicts(Plan(m, registry), Plan(n, registry))

(* Of the candidates of a wave at most one draws ids, since all draw from  *)
(* copies of the same generator: the reservation must keep them apart.     *)
OneDrawerPerWave ==
  \A m, n \in DOMAIN candidates :
    m # n /\ ~ candidates[m].run.failed /\ ~ candidates[n].run.failed
      => candidates[m].run.ids = 0 \/ candidates[n].run.ids = 0

(* The docs save the generator as an ever increasing number; no id is      *)
(* handed out twice.  The commit loop breaks it: a candidate that drew     *)
(* nothing puts back the generator of before its wave.                     *)
NoIdReused == \A i, j \in DOMAIN handed : handed[i] = handed[j] => i = j

(* Whatever waves are formed and in whatever order workers finish, the     *)
(* machines, the blackboard and the failures of every tick are those of    *)
(* machines run one after the other.                                       *)
AsIfSerial == Serial!Spec
===============================================================================
