--------------------------- MODULE MCMachineScheduler ---------------------------
(* Small instances of MachineScheduler.  Machines 1 and 2 run one action   *)
(* per event; machine 3 runs its own as long as key a is not zero, within  *)
(* the microstep budget, and then one more that ends it.                   *)
EXTENDS MachineExecution, MachineScheduler

MCKey == {"a", "b"}
MCProvider == {"px", "py", "pz"}
MCBlank == [k \in MCKey |-> 0]

OnEvent == [kind |-> "event"]
OnKey(k) == [kind |-> "key", key |-> k]
Loop(guard, names) ==
  [initial |-> "on", terminal |-> {"off"},
   transitions |-> <<[from |-> "on", to |-> "on", guard |-> guard, actions |-> names]>>]

MCDefinition ==
  <<Loop(OnEvent, <<"x">>),
    Loop(OnEvent, <<"y">>),
    [initial |-> "on", terminal |-> {"off"},
     transitions |->
       <<[from |-> "on", to |-> "on", guard |-> OnKey("a"), actions |-> <<"z">>],
         [from |-> "on", to |-> "off", guard |-> OnEvent, actions |-> <<"x", "z">>]>>]>>

MCExecute(m, i, r, e, b) == ExecuteMachine(MCDefinition[m], i, r, e, b)
MCPlan(m, r) == MachineAccessPlan(MCDefinition[m], r)
MCInstance == [state : {"on", "off"}, completed : BOOLEAN]
MCFresh == [m \in 1 .. 3 |-> NewInstance(MCDefinition[m])]

Transactional(p, reads, writes, uses, sets) ==
  [provider |-> p, class |-> "parallel_transactional", reads |-> reads,
   writes |-> writes, reservation |-> 0, uses |-> uses, sets |-> sets, ids |-> 0,
   fails |-> FALSE]
Drawing(a) ==
  [a EXCEPT !.writes = @ \cup {"StableIdSource"}, !.reservation = 1, !.ids = 1]

(* Honest declarations, with a drawing of ids reserved or not, and some    *)
(* that the registry or the machine refuses.                               *)
MCOffered ==
  [x |-> {Transactional("px", {}, {"a"}, {}, {"a"}),
          Transactional("px", {"Blackboard"}, {"a"}, {"b"}, {"a"})},
   y |-> {Drawing(Transactional("py", {}, {"b"}, {}, {"b"})),
          Transactional("py", {"Blackboard"}, {"a"}, {"a"}, {"a"}),
          [Transactional("py", {"b"}, {"a"}, {}, {"b"}) EXCEPT !.class = "parallel_pure"]},
   z |-> {Transactional("pz", {"Blackboard"}, {"a"}, {"a"}, {"a"}),
          Drawing(Transactional("pz", {"a"}, {}, {}, {})),
          [Transactional("pz", {"a"}, {}, {}, {}) EXCEPT !.class = "serial"],
          [Transactional("pz", {"a"}, {}, {}, {}) EXCEPT !.fails = TRUE],
          [Transactional("pz", {"a"}, {"b"}, {}, {"a"}) EXCEPT !.ids = 1]}]

(* Actions that draw ids and actions that do not. *)
MCOfferedIds ==
  [x |-> {Drawing(Transactional("px", {}, {"a"}, {}, {"a"}))},
   y |-> {Transactional("py", {}, {"b"}, {}, {"b"})},
   z |-> {Drawing(Transactional("pz", {"a"}, {}, {}, {})),
          Transactional("pz", {"a"}, {}, {}, {})}]

===============================================================================
