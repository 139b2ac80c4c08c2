------------------------------- MODULE VnSession -------------------------------
(***************************************************************************)
(* A session of a visual novel: the interpreter of the compiled story, the *)
(* system pages that interrupt it, the policy action it may wait for, and  *)
(* the await tokens of the runtime world that stand for its waits.         *)
(*                                                                         *)
(* A step of the session takes one command of the player, lets the         *)
(* interpreter run until it is blocked, and then settles with the world:   *)
(* the action nobody waits for any more is cancelled, the wait that was    *)
(* answered is completed in a tick, the new wait gets a token.  A step is  *)
(* one call; the only thing that comes between its actions here is the     *)
(* worker that reads for the policy action.  A step that fails leaves the  *)
(* session failed, and a failed session accepts only a saved game.         *)
(***************************************************************************)
EXTENDS Integers, Sequences, FiniteSets

CONSTANTS
  Script,       \* the compiled states: sequences of commands
  Start,        \* the state the game is launched in
  Entry,        \* the state of the system story behind each page
  Route,        \* the states on the route chart or unlocked for replay
  SystemActions, \* the compiled system actions
  Keys,         \* the variables that the script declares
  MinValue, MaxValue, \* the least and the greatest value, of 64 bits in the code
  Reading,      \* the reading modes of the profile
  None,
  MenuAfterEnd, \* is a system page opened after the story has ended?
  MaxWaits,     \* the turns of one fast-forward, 100000 in the code
  MaxFrames,    \* bound: system pages open at a time, and calls left behind
  MaxReads      \* bound: reads of one policy action

ASSUME ScriptAssumption ==
  /\ Start \in DOMAIN Script
  /\ Route \cup {Entry[page] : page \in DOMAIN Entry} \subseteq DOMAIN Script
ASSUME BoundAssumption ==
  /\ MaxWaits \in Nat \ {0, 1} /\ MaxFrames \in Nat /\ MaxReads \in Nat
  /\ MenuAfterEnd \in BOOLEAN
ASSUME NoneAssumption == None \notin Nat

(* A command of the compiled story is known by its id, and is there once.  *)
Commands == UNION {{Script[q][i] : i \in DOMAIN Script[q]} : q \in DOMAIN Script}

ASSUME CommandAssumption ==
  /\ \A q \in DOMAIN Script : Script[q] \in Seq(Commands)
  /\ \A c \in Commands : c.id # None
  /\ \A q, r \in DOMAIN Script : \A i \in DOMAIN Script[q], j \in DOMAIN Script[r] :
       Script[q][i].id = Script[r][j].id => q = r /\ i = j

(* A system action mutates variables and ends with one more effect at most. *)
Ends(kind) == {a \in SystemActions : a.ends = kind}

ASSUME ActionAssumption ==
  /\ SystemActions = Ends("stays") \cup Ends("jumps") \cup Ends("switches") \cup Ends("returns")
  /\ \A a \in Ends("jumps") : a.to \in DOMAIN Script
  /\ \A a \in Ends("switches") : a.to \in DOMAIN Entry
ASSUME VariableAssumption ==
  /\ MinValue \in Int /\ MaxValue \in Int /\ 0 \in MinValue .. MaxValue
  /\ \A x \in SystemActions \cup {c \in Commands : c.op = "set"} : DOMAIN x.writes \subseteq Keys

VARIABLES
  story,    \* VnRuntimeState
  step,     \* None, or what the running step knows of the state before it
  tokens,   \* the pending await tokens of story waits
  readings, \* the pending await tokens of policy reads
  policy,   \* SessionPolicyState: the action, its reads and their tokens
  worker,   \* None, or the read the worker thread is at
  failed    \* VnSession.failed

vars == <<story, step, tokens, readings, policy, worker, failed>>
--------------------------------------------------------------------------------
(* The story: the cursor, the frames of calls and of system pages, what it *)
(* waits for, and what skipping depends on.  Every line in the backlog is  *)
(* read, so read stands for both.  A wait's token is None until the        *)
(* session binds it.                                                       *)
NewStory ==
  [cursor |-> None, calls |-> <<>>, frames |-> <<>>, wait |-> None,
   choice |-> None, vars |-> <<>>, read |-> {}, reached |-> {},
   skip |-> "none", allowed |-> TRUE, reading |-> "manual"]

NoAction == [source |-> None, reads |-> <<>>, waiting |-> 0, awaits |-> <<>>]

Go(s, state) ==
  [s EXCEPT !.reached = @ \cup {state},
            !.cursor = IF state \in DOMAIN Script
                         THEN [state |-> state, ordinal |-> 1] ELSE None]
Unblocked(s) == [s EXCEPT !.wait = None, !.choice = None]
Past(s) == [s EXCEPT !.cursor.ordinal = @ + 1]
WaitsFor(s, kinds) == s.wait # None /\ s.wait.kind \in kinds
Blocked(s, kind, id) == [s EXCEPT !.wait = [kind |-> kind, command |-> id, token |-> None]]

(* A variable has no value before it is written.  What a mutation adds to  *)
(* or takes from is 0 then; what a condition reads must be there.          *)
Value == MinValue .. MaxValue
Memory == UNION {[keys -> Value] : keys \in SUBSET Keys}

Written(vs, values) ==
  [key \in DOMAIN vs \cup DOMAIN values |->
     IF key \in DOMAIN values THEN values[key] ELSE vs[key]]

Results(vs, writes) ==
  [key \in DOMAIN writes |->
     LET write == writes[key]
         before == IF key \in DOMAIN vs THEN vs[key] ELSE 0
     IN  CASE write.how = "set" -> write.value
           [] write.how = "add" -> before + write.value
           [] write.how = "sub" -> before - write.value]

(* A sum that is not a value of the type is an error.                      *)
Fits(vs, writes) == \A key \in DOMAIN writes : Results(vs, writes)[key] \in Value
Mutated(vs, writes) == Written(vs, Results(vs, writes))

Holds(vs, test) ==
  LET actual == vs[test.key]
  IN  CASE test.op = "eq" -> actual = test.value
        [] test.op = "ne" -> actual # test.value
        [] test.op = "lt" -> actual < test.value
        [] test.op = "le" -> actual <= test.value
        [] test.op = "gt" -> actual > test.value
        [] test.op = "ge" -> actual >= test.value

(* What a choice reads, and the targets of the options it offers.          *)
Tests(choice) == {o.needs : o \in choice.options} \ {None}
Offered(vs, choice) ==
  {o.target : o \in {q \in choice.options : q.needs = None \/ Holds(vs, q.needs)}}

(* The waits a player answers by advancing, and fast-forward passes.       *)
Clickable == {"text", "input"}

(* Every wait the story still means to come back to.                       *)
Held(s) == ({s.wait} \cup {s.frames[i].wait : i \in DOMAIN s.frames}) \ {None}

Actions == {c.id : c \in {d \in Commands : d.op = "policy"}}
Place(id) ==
  CHOOSE c \in UNION {{[state |-> q, ordinal |-> i] : i \in DOMAIN Script[q]} :
                        q \in DOMAIN Script} : Script[c.state][c.ordinal].id = id

(* Only a token that something still refers to is kept, so a few do.       *)
Fresh(used) == CHOOSE t \in 1 .. Cardinality(used) + 1 : t \notin used
TokensOf(s) == {w.token : w \in Held(s)}

PendingReads(p) == {i \in DOMAIN p.reads : p.reads[i] = "pending"}
ReadTokens(p) == {p.awaits[i] : i \in DOMAIN p.awaits}

(* The awaits follow the pending reads: an await whose read is no longer   *)
(* pending is cancelled, a new read gets a token.                          *)
SyncAwaits(p) ==
  LET kept == PendingReads(p) \cap DOMAIN p.awaits
      free == (1 .. 2 * MaxReads) \ readings
      new == CHOOSE f \in [PendingReads(p) \ kept -> free] :
               \A i, j \in DOMAIN f : f[i] = f[j] => i = j
  IN  [p EXCEPT !.awaits = [i \in PendingReads(p) |->
                              IF i \in kept THEN p.awaits[i] ELSE new[i]]]

(* A worker whose read is not pending is stopped; a free worker takes the  *)
(* first read that is.                                                     *)
Dispatch(p) ==
  LET pending == PendingReads(p)
      first == CHOOSE i \in pending : \A j \in pending : i <= j
  IN  IF worker # None /\ worker.read \in pending THEN worker
      ELSE IF pending = {} THEN None ELSE [read |-> first, done |-> FALSE]
--------------------------------------------------------------------------------
Init ==
  /\ story = NewStory
  /\ step = None
  /\ tokens = {} /\ readings = {}
  /\ policy = NoAction
  /\ worker = None
  /\ failed = FALSE

(* A step ends with an error, and what it has done so far stays.           *)
Fail ==
  /\ failed' = TRUE
  /\ step' = None
  /\ UNCHANGED <<story, tokens, readings, policy, worker>>

Ready == step = None /\ ~failed
Launched == Ready /\ story.reached # {}

(* The token of the wait that belongs to the policy action.                *)
ActionToken(p) ==
  LET own == {w \in Held(story) : w.command = p.source}
  IN  IF own = {} THEN None ELSE (CHOOSE w \in own : TRUE).token

(* A step begins: the command has changed the story to s.  resolves says   *)
(* whether the command answers the wait there was, which is decided by the *)
(* kind of command and wait before the command is run.                     *)
Begin(s, resolves, fuel, p) ==
  /\ story' = s
  /\ step' = [prior |-> story.wait, token |-> ActionToken(p), resolves |-> resolves,
              action |-> FALSE, fuel |-> fuel]
  /\ UNCHANGED <<tokens, failed>>

Turn(s, resolves, fuel) ==
  Begin(s, resolves, fuel, policy) /\ UNCHANGED <<readings, policy, worker>>
Command(s, resolves) == Turn(s, resolves, MaxWaits)

OnPage == WaitsFor(story, {"page"})
Cleared == Unblocked([story EXCEPT !.calls = <<>>, !.frames = <<>>])

Launch ==
  /\ Ready /\ story.reached = {}
  /\ Command(Go(Cleared, Start), FALSE)

(* Mutant: the reading mode is not asked. *)
AdvanceResolvesHidden == WaitsFor(story, Clickable)

(* A hidden text comes back first; a text or an input wait is answered;    *)
(* any other wait stays.                                                   *)
AdvanceResolves == story.reading # "hidden" /\ WaitsFor(story, Clickable)
Advance ==
  /\ Launched
  /\ Command(IF story.reading = "hidden" THEN [story EXCEPT !.reading = "manual"]
             ELSE IF WaitsFor(story, Clickable) THEN [story EXCEPT !.wait = None]
             ELSE story,
             AdvanceResolves)

(* The player is offered the enabled options of the pending choice; an     *)
(* option without a compiled target goes on behind the choice.             *)
Choose ==
  /\ Launched /\ story.choice # None
  /\ \E option \in story.choice :
       IF ~WaitsFor(story, {"choice"}) THEN Fail
       ELSE Command(IF option \in DOMAIN Script THEN Go(Unblocked(story), option)
                    ELSE Unblocked(story), TRUE)

(* Mutant: the frame copies the choice and leaves it pending. *)
OpenedKeepsChoice(s, page) ==
  Go([s EXCEPT
        !.wait = None,
        !.frames = Append(@, [cursor |-> s.cursor, wait |-> s.wait, choice |-> s.choice])],
     Entry[page])

(* The frame of a system page takes cursor, wait and choice with it.       *)
Opened(s, page) ==
  Go([Unblocked(s) EXCEPT
        !.frames = Append(@, [cursor |-> s.cursor, wait |-> s.wait, choice |-> s.choice])],
     Entry[page])

OpenSystem ==
  /\ Launched /\ Len(story.frames) < MaxFrames
  /\ story.cursor # None \/ MenuAfterEnd
  /\ \E page \in DOMAIN Entry :
       IF story.cursor = None THEN Fail ELSE Command(Opened(story, page), FALSE)

Switched(s, page) == Go(Unblocked(s), Entry[page])
SwitchSystemPage ==
  /\ Launched /\ story.frames # <<>>
  /\ \E page \in DOMAIN Entry : Command(Switched(story, page), OnPage)

Returned(s) ==
  LET frame == s.frames[Len(s.frames)]
  IN  [s EXCEPT !.cursor = frame.cursor, !.wait = frame.wait, !.choice = frame.choice,
                !.frames = SubSeq(@, 1, Len(@) - 1)]
ReturnSystem == Launched /\ story.frames # <<>> /\ Command(Returned(story), OnPage)

(* Fast-forward passes the wait at once, if the script allows skipping:    *)
(* that is the first of its turns.                                         *)
SetReadingMode ==
  /\ Launched
  /\ \E mode \in Reading :
       LET s == [story EXCEPT !.reading = mode]
           fast == mode = "fast" /\ WaitsFor(story, Clickable)
       IN  IF fast /\ story.allowed THEN Turn([s EXCEPT !.wait = None], fast, MaxWaits - 1)
           ELSE Command(s, fast)

SetSkip ==
  /\ Launched
  /\ \E mode \in {"none", "read", "all"} \ {story.skip} :
       Command([story EXCEPT !.skip = mode], FALSE)

(* A system action may write variables, and then jump, switch or return.   *)
(* The jump closes every page and leaves the frames of calls; an action    *)
(* that only writes leaves the story where it is.                          *)
Effect(a) ==
  CASE a.ends = "stays" -> story
    [] a.ends = "jumps" -> Go(Unblocked([story EXCEPT !.frames = <<>>]), a.to)
    [] a.ends = "switches" -> Switched(story, a.to)
    [] a.ends = "returns" -> Returned(story)

InvokeSystemAction ==
  /\ Launched
  /\ \E a \in SystemActions :
       /\ a.ends = "jumps" => Len(story.calls) < MaxFrames
       /\ a.ends \in {"switches", "returns"} => story.frames # <<>>
       /\ IF Fits(story.vars, a.writes)
            THEN Command([Effect(a) EXCEPT !.vars = Mutated(story.vars, a.writes)],
                         OnPage /\ a.ends # "stays")
            ELSE Fail

(* StartReplay and JumpRoute.                                              *)
JumpToState ==
  /\ Launched /\ OnPage
  /\ \E state \in story.reached \cap Route : Command(Go(Cleared, state), OnPage)

JumpBacklog ==
  /\ Launched /\ OnPage
  /\ \E id \in story.read :
       Command([Go(Cleared, Place(id).state) EXCEPT !.cursor = Place(id)], OnPage)

(* The media host reports the end of a movie, a voice or a timeline.       *)
CompleteWait ==
  /\ Launched /\ WaitsFor(story, {"fence"}) /\ story.wait.command \notin Actions
  /\ Command([story EXCEPT !.wait = None], TRUE)

(* The policy action is polled while its fence is what the story waits     *)
(* for.  If the read it waits for is there, its script runs again: it may  *)
(* cancel reads and ask for others, and waits for one of them or completes, *)
(* and then its variables are written.                                     *)
PolicyActionPending ==
  story.frames = <<>> /\ WaitsFor(story, {"fence"}) /\ story.wait.command = policy.source

Await(dropped, n) ==
  LET reads == [i \in 1 .. Len(policy.reads) + n |->
                  IF i > Len(policy.reads) THEN "pending"
                  ELSE IF i \in dropped THEN "done" ELSE policy.reads[i]]
      p == SyncAwaits([policy EXCEPT !.reads = reads])
  IN  /\ \E i \in PendingReads(p) : policy' = [p EXCEPT !.waiting = i]
      /\ readings' = (readings \ ReadTokens(policy)) \cup ReadTokens(p)
      /\ worker' = Dispatch(p)
      /\ Begin(story, FALSE, MaxWaits, policy)

Complete ==
  /\ policy' = NoAction
  /\ readings' = readings \ ReadTokens(policy)
  /\ worker' = None
  /\ \E values \in Memory :
       Begin([story EXCEPT !.wait = None, !.vars = Written(@, values)], TRUE, MaxWaits, NoAction)

Poll ==
  /\ Launched /\ PolicyActionPending
  /\ IF policy.waiting \in PendingReads(policy)
       THEN Command(story, FALSE)
       ELSE \/ \E dropped \in SUBSET PendingReads(policy), n \in 0 .. MaxReads - Len(policy.reads) :
                 Await(dropped, n)
            \/ Complete

(* The worker thread has its result.                                       *)
ReadDone ==
  /\ worker # None /\ ~worker.done
  /\ worker' = [worker EXCEPT !.done = TRUE]
  /\ UNCHANGED <<story, step, tokens, readings, policy, failed>>
--------------------------------------------------------------------------------
(* run_until_blocked, a command at a time.                                 *)
Running == step # None /\ story.wait = None /\ story.cursor # None
AtEnd == story.cursor.ordinal > Len(Script[story.cursor.state])
Current == Script[story.cursor.state][story.cursor.ordinal]
Meets(op) == Running /\ ~AtEnd /\ Current.op = op

Runs(s) == story' = s /\ UNCHANGED <<step, tokens, readings, policy, worker, failed>>

EndOfState == Running /\ AtEnd /\ Runs([story EXCEPT !.cursor = None])

ShouldSkip(id) ==
  story.allowed /\ (story.skip = "all" \/ (story.skip = "read" /\ id \in story.read))

Text ==
  /\ Meets("text")
  /\ Runs(IF ShouldSkip(Current.id) THEN Past(story)
          ELSE [Blocked(Past(story), "text", Current.id) EXCEPT !.read = @ \cup {Current.id}])

(* Every option is asked whether it is enabled. *)
Choice ==
  /\ Meets("choice")
  /\ IF \E test \in Tests(Current) : test.key \notin DOMAIN story.vars THEN Fail
     ELSE Runs([Blocked(Past(story), "choice", Current.id) EXCEPT
                  !.choice = Offered(story.vars, Current)])

Jump == Meets("jump") /\ Runs(Go(story, Current.target))

Branch ==
  /\ Meets("branch")
  /\ IF Current.test.key \notin DOMAIN story.vars THEN Fail
     ELSE Runs(Go(story, IF Holds(story.vars, Current.test) THEN Current.then ELSE Current.else))

Call ==
  /\ Meets("call")
  /\ IF Current.target \notin DOMAIN Script THEN Fail
     ELSE Runs(Go([story EXCEPT !.calls = Append(@, Past(story).cursor)], Current.target))

Return ==
  /\ Meets("return")
  /\ IF story.calls = <<>> THEN Fail
     ELSE Runs([story EXCEPT !.cursor = story.calls[Len(story.calls)],
                             !.calls = SubSeq(@, 1, Len(@) - 1)])

Mutate ==
  /\ Meets("set")
  /\ IF Fits(story.vars, Current.writes)
       THEN Runs([Past(story) EXCEPT !.vars = Mutated(@, Current.writes)])
     ELSE Fail

(* A page command in the story opens the page's system story; in that      *)
(* system story, or where the page has none, it shows the page.            *)
SystemPage ==
  /\ Meets("page")
  /\ Runs(IF Current.page \in {page \in DOMAIN Entry : Entry[page] # story.cursor.state}
            THEN Opened(Past(story), Current.page)
            ELSE Blocked(Past(story), "page", Current.id))

Stage == Meets("stage") /\ Runs([Past(story) EXCEPT !.allowed = Current.allowed])

Fence == Meets("fence") /\ Runs(Blocked(Past(story), "fence", Current.id))

Input == Meets("input") /\ Runs(Blocked(Past(story), "input", Current.id))

(* The request for the action travels in the presentation of the step.     *)
PolicyAction ==
  /\ Meets("policy")
  /\ story' = Blocked(Past(story), "fence", Current.id)
  /\ step' = [step EXCEPT !.action = TRUE]
  /\ UNCHANGED <<tokens, readings, policy, worker, failed>>
--------------------------------------------------------------------------------
Stopped == step # None /\ ~Running
FastForwards ==
  story.reading = "fast" /\ story.allowed /\ story.frames = <<>> /\ WaitsFor(story, Clickable)

(* A fast-forward has passed a wait in its last turn, and only a choice or *)
(* a page ends it before it looks at its turns.                            *)
OutOfFuel == step.fuel = 0 /\ story.choice = None /\ story.frames = <<>>

SkipWait ==
  /\ Stopped /\ (FastForwards \/ OutOfFuel)
  /\ IF OutOfFuel THEN Fail
     ELSE /\ story' = [story EXCEPT !.wait = None]
          /\ step' = [step EXCEPT !.fuel = @ - 1]
          /\ UNCHANGED <<tokens, readings, policy, worker, failed>>

(* Mutant: only the pending wait is looked at. *)
AbandonedUnderPage == policy.source # None /\ ~WaitsFor(story, {"fence"})

(* An action is abandoned when no wait is left that it owns, neither the   *)
(* pending one nor one under a system page.                                *)
Abandoned ==
  policy.source # None /\ \A w \in Held(story) : w.command # policy.source

(* The new wait is bound to a token of its own.                            *)
Bound(s, pending) ==
  IF s.wait = None \/ s.wait = step.prior \/ s.wait.token # None THEN s
  ELSE [s EXCEPT !.wait.token = Fresh(pending \cup (TokensOf(s) \ {None}))]

(* The read of the worker is committed once its token is completed.        *)
Commits(p) == worker # None /\ worker.done /\ worker.read \in PendingReads(p)
Committed(p) ==
  [p EXCEPT !.reads[worker.read] = "done",
            !.awaits = [i \in DOMAIN @ \ {worker.read} |-> @[i]]]

Settle ==
  /\ Stopped /\ ~FastForwards /\ ~OutOfFuel
  /\ LET left == IF Abandoned THEN NoAction ELSE policy
         pending == tokens \ IF Abandoned THEN {step.token} ELSE {}
         p == IF step.action THEN [NoAction EXCEPT !.source = story.wait.command]
              ELSE IF Commits(left) THEN Committed(left) ELSE left
         open == pending \ IF step.resolves THEN {step.prior.token} ELSE {}
         s == Bound(story, open)
     IN  IF \/ step.action /\ left.source # None
            \/ step.resolves /\ step.prior.token \notin pending
         THEN Fail
         ELSE /\ story' = s
              /\ tokens' = (open \cup IF s = story THEN {} ELSE {s.wait.token}) \cap TokensOf(s)
              /\ readings' = IF Abandoned THEN readings \ ReadTokens(policy)
                             ELSE IF Commits(left) THEN readings \ {policy.awaits[worker.read]}
                             ELSE readings
              /\ policy' = p
              /\ worker' = Dispatch(p)
              /\ step' = None
              /\ UNCHANGED failed
--------------------------------------------------------------------------------
(* What a loaded game is checked for: the awaits are those of the pending  *)
(* reads, the tokens saved are theirs, and the one wait of an action in    *)
(* the story is owned by the action there is.                              *)
Restorable ==
  LET owned == {w \in Held(story) : w.command \in Actions}
  IN  /\ DOMAIN policy.awaits = PendingReads(policy)
      /\ \A i, j \in DOMAIN policy.awaits : policy.awaits[i] = policy.awaits[j] => i = j
      /\ ReadTokens(policy) = readings
      /\ IF policy.source = None THEN owned = {}
         ELSE Cardinality(owned) = 1 /\ \A w \in owned : w.command = policy.source

(* Loading a game that was saved here, at whatever time it is loaded: a    *)
(* read that was pending is interrupted and its worker is stopped.         *)
Restore ==
  /\ Ready /\ Restorable
  /\ policy' = [policy EXCEPT !.reads = [i \in DOMAIN @ |-> "done"], !.awaits = <<>>]
  /\ readings' = readings \ ReadTokens(policy)
  /\ worker' = None
  /\ UNCHANGED <<story, step, tokens, failed>>

Player ==
  \/ Launch \/ Advance \/ Choose \/ OpenSystem \/ SwitchSystemPage \/ ReturnSystem
  \/ SetReadingMode \/ SetSkip \/ InvokeSystemAction \/ JumpToState \/ JumpBacklog
Host == CompleteWait \/ Poll \/ ReadDone \/ Restore
Interpreter ==
  \/ EndOfState \/ Text \/ Choice \/ Jump \/ Branch \/ Call \/ Return \/ Mutate
  \/ SystemPage \/ Stage \/ Fence \/ Input \/ PolicyAction \/ SkipWait
Next == Player \/ Host \/ Interpreter \/ Settle

Spec == Init /\ [][Next]_vars
--------------------------------------------------------------------------------
(* No command the player is offered, and nothing the host reports, ends a  *)
(* step with an error: a system page opens over any wait and gives it      *)
(* back, a choice is answered once, the wait a command answers has a token *)
(* still pending, and a new policy action finds the one before it gone.    *)
NoLegalInputFails == ~failed

(* Between two steps every wait the story will come back to, under pages   *)
(* too, has a token of its own and the token is pending: else the answer   *)
(* to the wait could not be delivered, and the step that answers fails.    *)
HeldWaitsArePending ==
  Ready => /\ TokensOf(story) \subseteq tokens
           /\ \A w, v \in Held(story) : w.token = v.token => w = v

(* A game saved between two steps can be loaded: at whatever point its     *)
(* policy action is, with reads asked for, under way, done or dropped, and *)
(* however many pages are open over it, the session accepts the save.      *)
OwnSaveRestores == Ready => Restorable
--------------------------------------------------------------------------------
(* A story that cannot strand the session.  Where that is so, a plan of    *)
(* the story says it: the calls that are open at least in a state (depth), *)
(* the clicks a fast-forward passes from a place before it meets a wait    *)
(* that it cannot (rank), the places from which no policy action is asked  *)
(* for before such a wait (quiet), the states of system stories, which     *)
(* call nothing and ask for nothing (aside), and what the variables may    *)
(* hold at a place (memory).                                               *)
At(state, ordinal) == [state |-> state, ordinal |-> ordinal]
Places == UNION {{At(q, i) : i \in 1 .. Len(Script[q]) + 1} : q \in DOMAIN Script}
CommandAt(p) == Script[p.state][p.ordinal]
ReturnPlaces ==
  {p \in Places : p.ordinal > 1 /\ CommandAt(At(p.state, p.ordinal - 1)).op = "call"}

Onward(plan, p, r) ==
  plan.rank[r] <= plan.rank[p] /\ (p \in plan.quiet => r \in plan.quiet)
Within(plan, p, target) ==
  target \in DOMAIN Script => /\ plan.depth[target] <= plan.depth[p.state]
                              /\ p.state \in plan.aside => target \in plan.aside
Leads(plan, p, target) ==
  Within(plan, p, target) /\ (target \in DOMAIN Script => Onward(plan, p, At(target, 1)))

(* A line may be jumped back to from the backlog, which forgets the calls: *)
(* so no line is spoken in a routine that returns.                         *)
Obeys(plan, p) ==
  LET c == CommandAt(p)
      next == At(p.state, p.ordinal + 1)
  IN  /\ c.op \in {"set", "stage", "text", "input"} => Onward(plan, p, next)
      /\ c.op \in {"text", "input"} => plan.rank[next] < plan.rank[p]
      /\ c.op = "text" => plan.depth[p.state] = 0 /\ p \in plan.quiet
      /\ c.op = "choice" => \A option \in c.options : Within(plan, p, option.target)
      /\ c.op = "jump" => Leads(plan, p, c.target)
      /\ c.op = "branch" => Leads(plan, p, c.then) /\ Leads(plan, p, c.else)
      /\ c.op \in {"call", "return", "policy"} => p.state \notin plan.aside
      /\ c.op = "call" => /\ c.target \in DOMAIN Script
                          /\ plan.depth[c.target] <= plan.depth[p.state] + 1
                          /\ Onward(plan, p, At(c.target, 1))
      /\ c.op = "return" => /\ plan.depth[p.state] > 0
                            /\ \A r \in ReturnPlaces : Onward(plan, p, r)
      /\ c.op = "policy" => p \notin plan.quiet

(* Whatever is written, and these writes, leave the memory of a place, or  *)
(* of every place, as it is.                                               *)
Lasting(memory) == \A vs \in memory, values \in Memory : Written(vs, values) \in memory
Harmless(plan, writes) ==
  \A p \in Places : \A vs \in plan.memory[p] :
    Fits(vs, writes) => Mutated(vs, writes) \in plan.memory[p]

(* The variables fit the state that is gone to, if there is one.           *)
Suits(plan, vs, target) == target \in DOMAIN Script => vs \in plan.memory[At(target, 1)]

(* What may be held at a place is such that its command finds the          *)
(* variables it reads and stays within 64 bits, and is what may be held    *)
(* where the story goes on from there.  The player comes back to a line at *)
(* any time later, and a policy action writes any variable it likes.       *)
Recollects(plan, p) ==
  LET c == CommandAt(p)
      next == At(p.state, p.ordinal + 1)
  IN  \A vs \in plan.memory[p] :
        /\ c.op \in {"text", "choice", "page", "stage", "fence", "input", "policy"} =>
             vs \in plan.memory[next]
        /\ c.op = "text" => Lasting(plan.memory[p])
        /\ c.op = "policy" => Lasting(plan.memory[next])
        /\ c.op = "choice" => /\ \A test \in Tests(c) : test.key \in DOMAIN vs
                              /\ \A target \in Offered(vs, c) : Suits(plan, vs, target)
        /\ c.op \in {"jump", "call"} => Suits(plan, vs, c.target)
        /\ c.op = "branch" => /\ c.test.key \in DOMAIN vs
                              /\ Suits(plan, vs, IF Holds(vs, c.test) THEN c.then ELSE c.else)
        /\ c.op = "return" => \A r \in ReturnPlaces : vs \in plan.memory[r]
        /\ c.op = "set" => /\ Fits(vs, c.writes) /\ Mutated(vs, c.writes) \in plan.memory[next]
                           /\ p.state \in plan.aside => Harmless(plan, c.writes)

Orderly(plan) ==
  /\ plan.depth \in [DOMAIN Script -> Nat] /\ plan.rank \in [Places -> 0 .. MaxWaits - 1]
  /\ plan.quiet \subseteq Places /\ plan.memory \in [Places -> SUBSET Memory]
  /\ plan.aside \subseteq DOMAIN Script
  /\ plan.depth[Start] = 0 /\ <<>> \in plan.memory[At(Start, 1)]
  /\ \A page \in DOMAIN Entry :
       Entry[page] \in plan.aside /\ Memory \subseteq plan.memory[At(Entry[page], 1)]
  /\ \A q \in Route \cup {a.to : a \in Ends("jumps")} :
       plan.depth[q] = 0 /\ At(q, 1) \in plan.quiet
  /\ \A q \in Route : Lasting(plan.memory[At(q, 1)])
  /\ \A a \in SystemActions :
       /\ \A vs \in Memory : Fits(vs, a.writes)
       /\ IF a.ends = "jumps"
            THEN \A vs \in Memory : Suits(plan, Mutated(vs, a.writes), a.to)
          ELSE Harmless(plan, a.writes)
  /\ \A p \in Places : p.ordinal \in DOMAIN Script[p.state] => Obeys(plan, p) /\ Recollects(plan, p)
================================================================================
