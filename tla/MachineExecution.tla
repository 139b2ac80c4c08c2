---------------------------- MODULE MachineExecution ----------------------------
(***************************************************************************)
(* One state machine in one fixed tick: execute_machine on an immutable    *)
(* snapshot, what its actions declare, and the check of what they touched. *)
(***************************************************************************)
EXTENDS ActionAccess, SequencesExt

CONSTANTS
  MaxValue,        \* bound on the values of a key
  MaxMicrosteps,   \* microstep budget of a machine, 1024 in the code
  Evidence         \* TickIntegrityMode::Evidence?

Value == 0 .. MaxValue
-------------------------------------------------------------------------------
(* The context has one way to read, blackboard(), which reads all of it.   *)
ObservedReads(a) == IF a.uses = {} THEN {} ELSE {"Blackboard"}
ObservedWrites(a) == a.sets \cup (IF a.ids > 0 THEN {"StableIdSource"} ELSE {})

AccessRefused(a) ==
  \/ \E o \in ObservedReads(a) : ~ IsDeclared(a.reads, o) /\ ~ IsDeclared(a.writes, o)
  \/ \E o \in ObservedWrites(a) : ~ IsDeclared(a.writes, o)
  \/ a.ids > a.reservation

ActionFails(a) == a.fails \/ (Evidence /\ AccessRefused(a))

(* What an action writes: one more than all it depends on. *)
Result(a, board) == (1 + MapThenSumSet(LAMBDA k : board[k], a.uses)) % (MaxValue + 1)

(* A missing or failed action fails the machine; the actions after it do   *)
(* not run.                                                                *)
RunAction(registry, run, name) ==
  IF run.failed THEN run
  ELSE IF name \notin DOMAIN registry \/ ActionFails(registry[name])
    THEN [run EXCEPT !.failed = TRUE]
    ELSE LET a == registry[name] IN
         [run EXCEPT !.board = [k \in Key |-> IF k \in a.sets THEN Result(a, run.board)
                                              ELSE run.board[k]],
                     !.written = @ \cup a.sets,
                     !.ids = @ + a.ids,
                     !.trace = @ \cup {name}]
-------------------------------------------------------------------------------
(* A definition: its transitions in order of priority, its initial state   *)
(* and its terminal states.                                                *)
NewInstance(d) == [state |-> d.initial, completed |-> d.initial \in d.terminal]

GuardHolds(g, run) ==
  \/ g.kind = "always"
  \/ g.kind = "event" /\ run.events > 0
  \/ g.kind = "key" /\ run.board[g.key] # 0

(* find_transition: the first whose guard holds; none when it rests.       *)
Matches(d, run) ==
  {n \in DOMAIN d.transitions :
     d.transitions[n].from = run.state /\ GuardHolds(d.transitions[n].guard, run)}

Transition(d, run) == d.transitions[CHOOSE n \in Matches(d, run) :
                                      \A o \in Matches(d, run) : n <= o]

(* One pass of the loop: the budget, the transition, its actions in order, *)
(* the event it consumes and the state it enters.                          *)
Microstep(d, registry, run) ==
  IF run.completed \/ run.failed THEN run
  ELSE IF run.microsteps >= MaxMicrosteps THEN [run EXCEPT !.failed = TRUE]
  ELSE IF Matches(d, run) = {} THEN run
  ELSE LET t == Transition(d, run)
           ran == FoldLeft(LAMBDA r, name : RunAction(registry, r, name), run, t.actions)
       IN IF ran.failed THEN ran
          ELSE [ran EXCEPT !.events = IF t.guard.kind = "event" THEN @ - 1 ELSE @,
                           !.state = t.to,
                           !.completed = t.to \in d.terminal,
                           !.microsteps = @ + 1]

(* execute_machine: the candidate a machine makes of its instance, the     *)
(* registered actions, the number of ready events and the blackboard.  The *)
(* overlay starts empty; the delta holds the keys written to it.           *)
ExecuteMachine(d, instance, registry, events, board) ==
  LET run[n \in 0 .. MaxMicrosteps + 1] ==
        IF n = 0
          THEN [state |-> instance.state, completed |-> instance.completed,
                board |-> board, written |-> {}, ids |-> 0, trace |-> {},
                events |-> events, microsteps |-> 0, failed |-> FALSE]
          ELSE Microstep(d, registry, run[n - 1])
      end == run[MaxMicrosteps + 1]
  IN [instance |-> [state |-> end.state, completed |-> end.completed],
      delta |-> [k \in end.written |-> end.board[k]],
      ids |-> end.ids, trace |-> end.trace, failed |-> end.failed]

(* machine_access_plan: what the actions of all its transitions declare.   *)
(* Guards are not looked at.                                               *)
MachineAccessPlan(d, registry) ==
  LET names == UNION {ToSet(d.transitions[n].actions) : n \in DOMAIN d.transitions}
      known == {registry[a] : a \in names \cap DOMAIN registry}
  IN [serial |-> \/ names \ DOMAIN registry # {}
                 \/ \E a \in known : a.class = "serial",
      reads |-> UNION {a.reads : a \in known},
      writes |-> UNION {a.writes : a \in known}]
===============================================================================
