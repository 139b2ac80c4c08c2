------------------------------ MODULE MCVnSession ------------------------------
(* A short story of a hall, a room behind a policy action and a side path  *)
(* past a bell that is counted once, with two system pages, and system     *)
(* actions that start anew, forget the bell, close the page or turn it.    *)
(* The way to the end leads to no compiled state: the story ends there.    *)
EXTENDS VnSession, TLC

Does(op, id) == [op |-> op, id |-> id]
To(op, id, target) == [op |-> op, id |-> id, target |-> target]
Option(target, needs) == [target |-> target, needs |-> needs]
Page(page, id) == [op |-> "page", id |-> id, page |-> page]
Seen(op, value) == [key |-> "seen", op |-> op, value |-> value]
Write(how, value) == "seen" :> [how |-> how, value |-> value]
Set(id, writes) == [op |-> "set", id |-> id, writes |-> writes]

MCScript ==
  "title" :> <<Set("unseen", Write("set", 0)), To("jump", "begin", "hall")>>
  @@ "hall" :> <<Does("text", "hello"), Does("fence", "fade"),
                 [op |-> "choice", id |-> "where",
                  options |-> {Option("room", None), Option("path", None),
                               Option("end", Seen("ge", 1))}]>>
  @@ "room" :> <<Does("policy", "lookup"), Does("text", "found"), To("jump", "leave", "hall")>>
  @@ "path" :> <<[op |-> "stage", id |-> "allow", allowed |-> TRUE],
                 Page("config", "ask"), To("call", "ring", "bell"), Does("input", "go"),
                 [op |-> "branch", id |-> "back", test |-> Seen("lt", 1),
                  then |-> "count", else |-> "hall"]>>
  @@ "bell" :> <<Does("fence", "peal"), Does("return", "done")>>
  @@ "count" :> <<Set("mark", Write("add", 1)), To("jump", "counted", "hall")>>
  @@ "config.page" :> <<Page("config", "config.show")>>
  @@ "log.page" :> <<Page("log", "log.show")>>

MCEntry == "config" :> "config.page" @@ "log" :> "log.page"
MCReading == {"manual", "fast", "hidden"}

Program(writes, ends, to) == [writes |-> writes, ends |-> ends, to |-> to]
MCSystemActions ==
  {Program(Write("set", 0), "jumps", "hall"), Program(Write("set", 0), "stays", None),
   Program(<<>>, "returns", None), Program(<<>>, "switches", "log")}

(* The plan of this story.  A path through the hall or out of the room     *)
(* passes one line and one answer at most before it stops.                 *)
MCPlan ==
  [depth |-> [q \in DOMAIN MCScript |-> IF q = "bell" THEN 1 ELSE 0],
   rank |-> [p \in Places |->
               CASE p \in {At("bell", 2), At("path", 4), At("room", 2)} -> 2
                 [] p \in {At("title", 1), At("title", 2), At("hall", 1), At("path", 5),
                           At("count", 1), At("count", 2), At("room", 3)} -> 1
                 [] OTHER -> 0],
   quiet |-> {At("hall", 1), At("hall", 2), At("room", 2), At("room", 3)},
   aside |-> {"config.page", "log.page"},
   memory |-> [p \in Places |->
                 CASE p = At("title", 1) \/ p.state \in {"config.page", "log.page"} -> Memory
                   [] p = At("count", 1) -> {vs \in Memory : "seen" \in DOMAIN vs /\ vs["seen"] < 1}
                   [] OTHER -> {vs \in Memory : "seen" \in DOMAIN vs}]]

ASSUME MCScriptIsOrderly ==
  Orderly(MCPlan) /\ \A c \in Commands : c.op = "stage" => c.allowed
===============================================================================
