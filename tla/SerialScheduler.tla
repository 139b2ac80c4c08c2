---------------------------- MODULE SerialScheduler ----------------------------
(***************************************************************************)
(* What the state machines of a World promise: in each fixed tick those    *)
(* that have not completed run one after the other in the order of their   *)
(* ids, each on what the ones before it wrote.  No waves, no workers, no   *)
(* cached plans.                                                           *)
(***************************************************************************)
EXTENDS Integers, Sequences, FiniteSets

CONSTANTS
  Machine,             \* ids of state machines, numbers
  Offered,             \* Offered[name]: what providers register under a name
  Fresh,               \* Fresh[m]: the instance of a machine just added
  Blank,               \* the blackboard of a new World
  MaxEvents,           \* bound on the ready events of a tick
  Execute(_, _, _, _, _)   \* machine, instance, registry, events, blackboard

VARIABLES
  installed,  \* machines of the World
  instance,   \* state of each machine
  registry,   \* registered actions
  board,      \* the blackboard
  events,     \* ready events of the tick
  todo,       \* machines that have not run in this tick, in order
  reports,    \* machines that failed in this tick
  phase       \* "idle", "tick" or "failed"

vars == <<installed, instance, registry, board, events, todo, reports, phase>>
-------------------------------------------------------------------------------
InOrder(S) == CHOOSE s \in [1 .. Cardinality(S) -> S] :
                \A i, j \in DOMAIN s : i < j => s[i] < s[j]

Runnable == {m \in installed : ~ instance[m].completed}

(* A candidate's writes over the blackboard *)
Commit(delta, b) == [k \in DOMAIN b |-> IF k \in DOMAIN delta THEN delta[k] ELSE b[k]]

Init ==
  /\ installed = {}
  /\ instance = [m \in Machine |-> Fresh[m]]
  /\ registry = <<>>
  /\ board = Blank
  /\ events = 0
  /\ todo = <<>>
  /\ reports = {}
  /\ phase = "idle"

AddMachine(m) ==
  /\ phase = "idle"
  /\ installed' = installed \cup {m}
  /\ UNCHANGED <<instance, registry, board, events, todo, reports, phase>>

SetRegistry(r) ==
  /\ phase # "tick"
  /\ registry' = r
  /\ UNCHANGED <<installed, instance, board, events, todo, reports, phase>>

BeginTick(n) ==
  /\ phase = "idle"
  /\ events' = n
  /\ todo' = InOrder(Runnable)
  /\ reports' = {}
  /\ phase' = "tick"
  /\ UNCHANGED <<installed, instance, registry, board>>

RunMachine ==
  /\ phase = "tick"
  /\ todo # <<>>
  /\ LET m == Head(todo)
         c == Execute(m, instance[m], registry, events, board)
     IN \/ /\ c.failed
           /\ reports' = reports \cup {m}
           /\ UNCHANGED <<instance, board>>
        \/ /\ ~ c.failed
           /\ instance' = [instance EXCEPT ![m] = c.instance]
           /\ board' = Commit(c.delta, board)
           /\ UNCHANGED reports
  /\ todo' = Tail(todo)
  /\ UNCHANGED <<installed, registry, events, phase>>

EndTick ==
  /\ phase = "tick"
  /\ todo = <<>>
  /\ phase' = IF reports = {} THEN "idle" ELSE "failed"
  /\ UNCHANGED <<installed, instance, registry, board, events, todo, reports>>

Registries == UNION {[S -> UNION {Offered[n] : n \in S}] : S \in SUBSET DOMAIN Offered}

Next ==
  \/ \E m \in Machine : AddMachine(m)
  \/ \E r \in Registries : SetRegistry(r)
  \/ \E n \in 0 .. MaxEvents : BeginTick(n)
  \/ RunMachine
  \/ EndTick

Spec == Init /\ [][Next]_vars
===============================================================================
