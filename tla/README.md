# AstraEngine: specification and proofs

TLA+ specifications of AstraEngine, the Rust engine with the AstraVN, Editor and
AstraEMU products built on it. The specifications follow the source; where a
contract document and the source disagree, the module follows the source and a
run shows the disagreement.

    tlc -config <run>.cfg <module>     for the runs listed in PROJECT.json
    tlapm <component>Proofs.tla        for the proofs (CommonLemmas.tla too)

## 1. The system

The engine is a set of crates around one deterministic core. A host thread owns
a `RuntimeWorld` and calls `tick` once per fixed step. Everything asynchronous
(text layout, decoding, file reads, audio, the platform's own threads) happens
outside and comes back as completions, events and fences that enter the World at
the next tick. A save is a snapshot of the World between two ticks.

| Component | State | Operations | Talks to |
|---|---|---|---|
| **Waits and task scopes** (`astra-runtime`: `await_token.rs`, `task_scope.rs`, `world/`) | pending tokens, queued results, completion handles, tree of cancellation scopes, tick mode, failed flag | insert, handle, cancel, complete, the phases of `tick`, `save`, `load`, `restore_snapshot` | worker threads complete handles and cancel scopes; events go to the event queue |
| **Event queues** (`event.rs`, `delayed_event.rs`) | queue of events, sorted queue of timers, a sequence counter each | push, schedule, cancel, drain for a step | host calls, machines' outputs, results of waits |
| **State machine scheduler** (`state_machine/`, `action.rs`) | machines, registry of actions with declared access, cached access plans, id generator | register, unregister, one tick: waves of machines in parallel on a snapshot, commit in order | actor store, blackboard, worker pool |
| **Task groups** (`task_group.rs`) | progress of a sequence, an all or a race; a scope per member | handle, complete, cancel, snapshot, restore, drop | task scopes; used by VN presentation |
| **Worker budget** (`astra-worker-budget`) | permits, FIFO tickets, two atomic counters, thread-local scope | acquire, try, run scoped, drop | every pool of the process: text, package, decode, machines |
| **Platform session** (`astra-platform/session`) | command and event channels, event sequence, wake registrations | command, emit, receive, wake, shutdown | one host thread, any number of emitters |
| **Text** (`astra-text`) | layout cache with single-flight entries | layout, wait for a flight | worker budget |
| **VN session and interpreter** (`astra-vn/session`, `astra-vn-core/runtime`) | cursor, call and page frames, the pending wait, reading and skip modes, policy action with its reads and worker | launch, advance, choose, pages, jumps, skip, poll, save, restore | World (an await token per wait), director, a worker thread |
| **Presentation coordinator** (`astra-vn-presentation/presentation_coordinator`) | entries and queues of four regions, text tasks, a fence group each, counters | batch, frame, click, video reports, snapshot, restore | task group state; owned by the director |
| **Stage director** (`astra-vn-presentation/stage_director`) | coordinator, entities, tweens, kept commands, movies, a failed flag | prepare and commit a batch, frame, configure text | coordinator, player |
| **Player presentation** (`astra-player-vn`) | video requests, cancellation scopes, streams, completions, signals | frame, media loop, input, skip, save, load | session, director, decoders |
| **Player products** (`astra-player-*`) | save operations, prefetch | save, load, prefetch | VN, package, byte sources |
| **Audio** (`astra-audio-kira`) | voices | commands to the audio thread | platform wakes |
| **Emulator** (`Emulator/`) | family instances, patches | start, publish a patch | platform, package |
| **Tools, compilers, hosts, editor** | files, windows | build, draw | operating system |

`PROJECT.json` lists every crate with what is modelled of it and why the rest is
not. The components outside the rows modelled in section 2 are planned (section 7)
or are not state machines (compilers, codecs, drawing, operating-system hosts).

What is hard in this code, with the properties it needs:

- **Workers against a tick.** `TaskScope::cancel` and a handle's `status` run on
  any thread while the owner sweeps, drains and finishes. A wait must end exactly
  once, a stale handle must never complete a later wait, and a save must always
  load again.
- **Waves.** Machines that run in parallel on one snapshot must give what they
  would one after the other, whatever was registered again since the plans were
  cached, whichever worker is first, and whichever machine fails.
- **Permits.** A condition variable, tickets and atomics read without the lock:
  no lost wakeup, no overtaking, no permit lost on an error path, no deadlock of
  nested scopes.
- **Restores.** Task groups, waits and queues come back from a save that was taken
  half way through a race, with a queued result or with timers in any order.
- **Order.** Timers, events, results and machine outputs meet in one tick.
- **Two clocks for one transition.** The director's tween and the coordinator's entry
  are timed apart and must end together, through queues and replacements.
- **The way of a completion.** The end of a movie passes director, pending
  completions, signals and the story's wait, in turns of two loops, with clicks,
  skips, saves and loads between them.
- **Waits and tokens.** The interpreter clears and makes waits, a separate table says
  which command answers which wait, and the World holds a token for each; pages,
  jumps and policy actions move them about.

## 2. Modules

### RuntimeWorld

`RuntimeWorld.tla` models the waits. The World is owned by one thread, so its
calls do not overlap, but `CancelScope` is enabled between any two phases of a
tick: `BeginTick`, `SubmitAwaitResult` (ingress), `StartSweep`, `ScanHandle` (one
handle read at a time), `CancelSwept`, `DrainResults`, then `TickSucceeds` or
`TickFails` with a wait the machines asked for. `InsertAwaitToken`, `AwaitHandle`,
`CancelAwait`, `Save`, `RestoreSnapshot`, `Load` and `DropWorld` are the owner's
calls between ticks.

| Variable | Code |
|---|---|
| `pending`, `completed`, `diagnostics` | the fields of `AwaitQueue` |
| `owner` | `TaskRuntime.pending`, token to handle |
| `status`, `handles` | the `AtomicU8` and the scope of each handle ever issued |
| `cancelled`, `generation` | cancelled scopes; a restore makes a new `TaskRuntime` |
| `saved` | the snapshot a later load or restore uses |
| `owed`, `doomed` | history only |

A completion can be built from any handle ever issued, any number of times.
`Load` is offered the snapshot as saved and with one result or token more, which
is what the host's `validate` closure can leave there.

### EventQueues

`EventQueues.tla` models both queues and the part of the tick that uses them:
due timers move to the event queue, all ready events go to the machines in the
order of step and sequence, then any number of the machines' cancellations, timers
and events are applied, in this order. Timers are inserted where `partition_point`
puts them. Saves are restored directly or loaded with the timers of the save in any
order (the deserializer sorts them). `made`, `delivered` and `removed` are history:
when and how each id was made, what the machines were given, what was cancelled.

### ActionAccess, MachineExecution, MachineScheduler, SerialScheduler

- `ActionAccess`: which declared resources overlap and when plans conflict
  (`resource_keys_overlap`, `access_conflicts`, registration checks).
- `MachineExecution`: `execute_machine`, a constant-level function of the
  instance, the registry, the ready events and the snapshot: microsteps, guards,
  actions, the check of observed access, the budget of microsteps, rollback.
- `MachineScheduler`: registration and its epoch, the plan cache, the building of
  waves, candidates executed in any order, the commit loop, the id generator.
- `SerialScheduler`: the abstract specification. Machines run one after the other;
  it knows no waves, workers, plans or ids.
  `Serial == INSTANCE SerialScheduler WITH todo <- placed \o unplaced, ...`
  is the refinement mapping, `AsIfSerial == Serial!Spec` the property. A machine
  of the abstract one runs when the detailed one commits its candidate.

### TaskGroupState, TaskGroup

`TaskGroupState.tla` is the value (new, complete, cancel, finish, validate), used by
the groups and by the presentation's fences and text; it also says what progress may
be at all (`Progress`, `Consistent`), without how it came about. `TaskGroup.tla` models its
owner (handles, scopes, snapshot, restore, drop). `validate` rebuilds
progress by completing the saved results again; `Replay` is that loop as a fold.
A call of the group looks at its scopes before it changes anything, so a call is
one action even with the parent scope cancelled by another thread.

### WorkerBudget

`WorkerBudget.tla`: one action is one critical section, one atomic operation or
one `notify_all`. A thread asks for a permit (`Enter`), sleeps, is woken (also for
no reason), takes its turn (`Recheck`), updates the counters (`RecordAcquire`),
wakes the next (`Acquired`), and gives back in three steps (`CountRelease`,
`ReturnPermit`, `NotifyReleased`). `run_scoped` inside the scope of another broker
acquires first and is refused afterwards, as in the code. `MayBlock` states the
discipline of the callers: nobody blocks for a permit while holding a lease, and,
where `MayNest` is false, nobody enters a second broker's scope.

### PresentationRegions, PresentationCoordinator

`PresentationRegions.tla` has the coordinator's state as a value and its calls as
operators: where a command starts, waits or is refused (`prepare_character` and its
three siblings), queues, drains, groups of a fence, text tasks, frames, video
reports, the validation of a restored state. `PresentationCoordinator.tla` calls
them in any order and keeps, as history, which members joined a fence and which
ended. The workers of `prepare_batch` get a region each and are joined before
anything is committed, so a batch is one step.

### StageDirector, PlayerPresentation

`StageDirector.tla` is the director as a value on top of the coordinator: what a
command does to entities, tweens and movies at once, what it does when the
coordinator activates it later, and the four assertions the director makes about
itself as named errors. `PlayerPresentation.tla` composes it with the story's
batches and waits, the player's requests, cancellation scopes, streams,
completions and signals. `Frame` is the 60 Hz pump, `Process` a turn of the media
loop, `Input` a click, a skip, a save or a load; all run on one task, and `turn`
says who must run next, as in `run_bundled_game`. The streams that end in one turn
of the loop are reported one after the other; which comes first is fixed. A call of
the coordinator that activates too much at once ends the session (`ActivationLimit`).

### VnSession

`VnSession.tla` is a step of the session: one action per player command, then the
interpreter's commands one at a time (`run_until_blocked`), the waits a
fast-forward passes (`SkipWait`), and `Settle`, the rest of
`apply_command_at_step`: abandoned action cancelled, new action queued, answered
wait completed, worker's read committed, new wait bound to a token. `Poll` lets the
script of the action cancel reads, ask for more, wait or complete. `Restore` is the
load of a game saved in that state: what happens between save and load has no
effect on the result, so loading later leads to the same state.

| Variable | Code |
|---|---|
| `story` | `VnRuntimeState`; `calls`, `frames` are `call_stack`, `system_stack` |
| `step` | locals of `apply_command_at_step` |
| `tokens`, `readings` | the World's pending awaits, by kind |
| `policy`, `worker` | `SessionPolicyState`, `PolicyIoWorker` |
| `failed` | `VnSession.failed` |

The last part of the module says which stories cannot strand the session. `Orderly(plan)`
holds when the story has a plan: `depth`, the calls that are open at least in a state;
`rank`, the clicks a fast-forward passes from a place before it must stop; `quiet`, the
places from which no policy action is asked for before a stop; `aside`, the states of
system stories, which neither call nor ask for an action; `memory`, what the variables may
hold at a place. `memory` is an annotation in the manner of Hoare: with what it allows
before a command the command finds the variables it reads, overflows none, and leaves what
is allowed where the story goes on (`Recollects`). Places that the player comes back to at any
time, a line in the backlog or a state on the route chart, keep to it whatever is written later
(`Lasting`), for a policy action and a system action write while the story is elsewhere.
Each clause answers one way in which the code ends a session (section 5.12, 5.14, 5.16 to
5.18), and `MCVnSession` has TLC evaluate that the story of the run has such a plan.

`VnSessionProofs` proves what holds of waits and tokens, then what holds of the cursors,
the reads and the owner of each wait, which a save depends on, and last that the session
of a story with a plan keeps to it and never fails (section 4).

### The proof modules

Each of `RuntimeWorldProofs`, `TaskGroupProofs`, `EventQueuesProofs`, `MachineSchedulerProofs`,
`PresentationProofs` and `VnSessionProofs` extends the module it is about.
`MachineSchedulerProofs` also holds the proofs of `WorkerBudget`, the budget of the workers; the
two share no state, so the budget's own invariant and next-state relation are called
`BudgetIInv` and `BudgetNext`. `PlayerProofs` extends `PlayerPresentation` and `PresentationProofs`:
what is proved of a call of the coordinator is used there for director and Player.
`CommonLemmas` has what several of them need: induction and folds in a form
the provers can use, and what `complete`, `cancel` and `validate` do to progress of any length.

## 3. Runs

| Run | Shows |
|---|---|
| `world` | one token id through completions, cancellation from other threads between any two phases of a tick, a timeout, a failure, save, restore and load, with a scope and its child: one result per token, exactly one terminal event per wait, a scope cancelled before the sweep loses its wait in that tick, no stale handle is pending, every save loads, terminal status is final up to one stated window; cancelled waits go and queued results are delivered |
| `event_queues` | each event once, at its tick, in order, through cancel, save, failure and load |
| `scheduler_serial` | no conflicting machines in a wave under the actions registered now, one drawer of ids per wave, and the refinement |
| `scheduler_reuse` | violation: ids handed out twice |
| `task_group` | progress consistent with its mode, own snapshots load, damaged ones are refused unless consistent, results accepted in total give the promised verdict, ended members are cancelled |
| `budget_nested` | permits conserved, counters within the limit, two brokers nested |
| `budget_queue` | tickets in line, no lost wakeup, no overtaking, every waiter served |
| `fences` | a fence completes when its last member ends and fails when one is lost, own snapshots load, nothing is queued behind a free target |
| `stage` | the director's assertions hold but for a layer that fades out (section 5.9), streams belong to what is shown, a completed group's completion reaches the story, a wait is released by its group only and is released in the end |
| `stage_queue` | violation: a queued movie never starts |
| `stage_save` | violation: a save between a video's end and the next turn loses the completion |
| `session` | no offered command fails the session, every wait held has a pending token, every state between two steps can be saved and loaded |

Every property of a passing run has a mutant in `PROJECT.json`: a plausible bug in
a definition of the code that the run must notice.

### Bounds and why they are enough

- `RuntimeWorld`: steps saturate at `MaxStep` = 2 (a timeout is in the past, now or
  in the future); one token id, used again, with two handles gives stale against
  current; two generations give before and after a restore. Proofs cover all bounds.
- `EventQueues`: three events and steps 0 to 2: two equal and one different,
  overdue, now and later, in both queues.
- `MachineScheduler`: three machines, so that a wave can hold two and a third
  conflicts with one of them; two keys; epochs up to 5, enough to register three actions
  and replace one; two ticks, so plans are used after they were cached;
  `MaxMicrosteps` = 3 in place of 1024, so that the looping machine meets it.
- `TaskGroup`: three members (a first, a middle, a last), one restore.
- `WorkerBudget`: three threads on one permit: one that holds, two that queue, and a
  newcomer again with the fourth ticket; two brokers of one and two permits for two threads nested.
- `PresentationCoordinator`: a target in each region, a queue of one, a batch that
  joins two regions to a fence, one that replaces, one of two movies where the second
  queues: members of a group in two regions and of another fence behind them.
- `PlayerPresentation`: five stories (`MCPlayerPresentation`): everything queued, a
  group of two films that loses one, films queued on their layer, a wait for a group
  of two, a room that comes back while it may still fade out. Transitions last one or two frames, so that they end before, with and
  after each other. `MaxLoads` = 2, a load of a save made after a load. `QuietSaves`
  keeps saves away from completions on their way (`stage_save` shows what happens
  otherwise), `Audible` keeps music playing so that the media loop runs (section 5).
  No story uses a fence twice, and none clicks or replaces a film while another is
  activated and not yet opened (section 5.10).
- `VnSession`: a story in which each command occurs; two pages over it; the policy
  action reads twice; `MaxWaits` = 4 for the 100000 of the code, more than the story
  has between two choices. One variable with the values 0 and 1 for the 64 bits of the
  code: a counter reaches its limit by one addition, so an addition that is not guarded by a
  branch would overflow. It is set in the first state, and before that it has no value; the policy
  action and the system actions write it at any time. One system action for each of its four
  endings. The story leaves out what section 5 lists as failing: skipping is never forbidden, a
  called state has no text and is no jump target, a choice lies between every jump target
  and the policy action, no condition comes before the variable it reads is set, and the counter
  is counted below its limit only. The option that ends it has no compiled state, as the compiler
  allows.

### Fairness

- `RuntimeWorld!FairSpec`: weak fairness of `BeginTick` and of the tick's steps.
  The host's frame loop calls `tick` as long as the World lives, and a call of
  `tick` returns. Nothing is assumed of workers: they need never complete or
  cancel. Leads-to properties end in the failed or dropped World too, and hold
  for one snapshot at a time.
- `WorkerBudget!FairSpec`: weak fairness of a thread inside a call (the operating
  system runs it) and strong fairness of dropping a lease and of ending a scope
  (work ends). A thread need never ask for a permit. `notify_all` is the code's; no
  fairness of spurious wakeups.
- `PlayerPresentation!LiveSpec`: the pump comes 60 times a second and a frame
  returns (weak fairness of `Frame` when it is due), a turn of the media loop ends,
  the game is launched; strong fairness that a stream ends, since its frames run
  out whenever it is played. Nothing is assumed of the player: no click, skip or
  load need come.
- The other modules state safety only.

`CHECK_DEADLOCK FALSE` is set where a bound or a dropped World really ends a behaviour.

## 4. Proofs

All proofs are checked by TLAPS for every value of the constants that satisfies
the named assumptions. Each has the same shape: an inductive invariant `IInv`, one
lemma per action, temporal theorems that follow from it. TLC checks
its conjuncts that say something of the code in the runs.

| Module | Theorems | Assumes |
|---|---|---|
| `RuntimeWorldProofs` | `TypeCorrect`, `NoStalePendingHandle`, `TasksAndQueueAgree`, `AcceptedCompletionIsHarmless`, `ExactlyOneTerminalEvent`, `OwnSaveLoads`, `StatusIsFinal`, `OneOfEach`, `ResultsComeFromTheirHandle`, `CancelledBeforeSweepGoes` | the scope tree is reflexive and its root has no ancestor; bounds are numbers |
| `EventQueuesProofs` | `Invariance`, `TypeCorrect`, `AllAccountedFor`, `OnTime`, `InItsOrder` | bounds are numbers |
| `MachineSchedulerProofs` | `Invariance`, `TypeCorrect`, `WavesNeverConflict`, `OneDrawsIds`, `TicksAreSerial` (the refinement of `SerialScheduler`) | bounds are numbers; a machine's candidate, as `Execute` makes it, reads and writes what its plan declares (see below) |
| `MachineSchedulerProofs` | `BudgetInvariant`, `PermitsAreConserved`, `CountersWithinLimit`, `TicketsStayInLine`, `WakeupsAreNotLost`, `FirstInFirstOut` | finitely many threads, positive limits |
| `CommonLemmas` | `RestoreTakesExactlyProgress`: `validate` accepts a snapshot exactly if its mode allows it | none |
| `TaskGroupProofs` | `GroupInvariant`, `TypeCorrect`, `ProgressStaysConsistent`, `EndedMembersStayCancelled`, `OwnSnapshotsRestore`, `DamageNeverRestores`, `ResultsAsPromised` | positive bounds |
| `PresentationProofs` | `Invariance`, `FencesTellTheTruth`, `OwnSnapshotsLoad`, `QueuesStayBehind` | batches are sequences of commands; a command with a fence takes time (below); a target has a region |
| `PlayerProofs` | `PlayerInvariance`, `DirectorKeepsItsAssertions` | stories are made of commands as the compiler makes them (`StoriesOfCommands`) and end with a line; the coordinator's batches are those of the director (`StoriesSend`) |
| `PlayerProofs` | `WaitsAreReleasedByTheirGroups` | as above; a fence begins in one step of the story only (`FencesBeginOnce`) |
| `PlayerProofs` | `CompletionsReachTheStory` | as above; no two steps wait for one fence (`FencesAwaitedOnce`); games are saved in quiet moments (`QuietSaves`) |
| `PlayerProofs` | `StreamsStayCurrent` | as for `PlayerInvariance`: nothing is assumed of fences or of saves |
| `VnSessionProofs` | `SessionInvariant`, `HeldWaitsStayPending` | `None` is no number and no record; command ids are unique (`record_source` of the compiler refuses others); skipping is allowed throughout the run |
| `VnSessionProofs` | `SaveInvariant`, `OwnSaveIsAccepted`, `EveryWaitCanBeAnswered` | as above, with `ScriptAllows` (no command of the script forbids skipping) in place of the last |
| `VnSessionProofs` | `SessionKeepsToPlan`, `NoOfferedCommandFails` | as in the row above; the story has a plan (`Orderly`: calls, turns, policy actions and what the variables hold at each place); no page is opened after its end (`MenuAfterEnd` = FALSE) |

Three assumptions say more than a type. `WritesAreDeclared` and `ReadsAreDeclared` of
`MachineScheduler`: what `Execute` writes its plan declares, and a change of the
snapshot outside the declared reads is invisible to it. They are stated of the operator
that executes a machine, and TLC evaluates them on the instance, where `Execute` is the
`MachineExecution` of the code. The code relies on the same (section 5.6 says where it
does not check it). `FencedCommandsTakeTime` of the coordinator: the director gives
fences to movies only, which end from outside; section 5.8 says what happens to a fenced
command of length zero.

Why the strengthenings:

- *World.* That a stale handle is never pending needs that each handle belongs to a
  scope below its generation's root (so dropping the `TaskRuntime` cancels it), and
  that `owner` and `status` agree. One terminal event per wait needs one token per
  id and the types of queued results; own saves load because the snapshot itself
  is part of the invariant. That a wait cancelled before the sweep goes needs
  what a sweep half way has still to do: a doomed token is in the list of those to be
  cancelled, or it is still to be scanned and its handle reads Cancelled, which no
  completion can take back.
- *Event queues.* Every id is in one place: waiting in one of the queues, delivered, or
  removed. The numbers of a queue are below its counter and agree with the ids in what
  comes first, so that the order of delivery says something of the order of making. A load
  takes the timers in any order; that it finds the same timers needs that a sorted
  queue depends on the set of its entries only. Queues grow by folds over the
  machines' output: a tick of any length keeps each part.
- *Scheduler.* The waves of a tick are built of plans of the present epoch, and what
  is placed together does not conflict under them. The refinement needs that the
  candidates of the first wave are what the machines would compute now:
  a commit before them wrote nothing they read, so it is invisible to them.
- *Budget.* Permits are counted by their holders (a lease, a scope, or a call at one
  of four points), so conservation is a statement about cardinalities; that
  counters stay within the limit needs which of these have been counted. A
  lost wakeup is excluded by naming who will call `notify_all`; `try_acquire`
  calls none, which is right only because it succeeds with no ticket in line.
- *Group.* The scopes of ended members stay cancelled only if snapshots are
  consistent, since restore derives the scopes from the saved members; progress
  stays consistent by a lemma for each mode. That validation accepts exactly the
  consistent progress is a lemma about its fold: after each member replayed the
  rebuilt progress is the saved one as far as it was taken. That the results accepted give
  the promised verdict needs that each ended member of unfinished progress has its result
  in the history, through restores, and for the verdict of all that as many
  results as members leave no member out.
- *Coordinator.* A fence is Pending as long as its group has a running member, so the
  running members of a pending group must be exactly the live ones, shown or queued. This
  needs that a member has one place (two places would outlive an end), that only
  running entries carry a fence (a click or a frame takes it from what ends), and that
  the groups' ids are distinct (validation counts them). The queues need
  that a drain starts or queues again everything it takes, in order, behind what runs.
  Text tasks take three values only, which the three calls that touch them keep.
- *Director.* That none of its assertions fires relates its tweens to the entries of the
  coordinator, which counts down on its own. `Ready` says, between two calls: what has a
  tween is on stage and still moves (`Acting`); the commands kept by id are commands of
  regions with ids already drawn, and those kept for the stage are of no region (`Keeping`); every command
  queued or activated is kept, no id is queued twice or both queued and activated
  (`Stocked`), and what is activated and not yet taken is a movie (`OnlyMovies`);
  and a tween ends no later than the entry of its target (`Covered`), unless a layer
  fades out. Within a call `Covered` is broken and mended: a frame takes one from the entries
  before it takes one from the tweens, so the lemmas of the coordinator say what a tick,
  a batch, a skip or an end leaves of the entries (`Ticks`, `Unlocks`, `Calm`): an
  activated command has found its target with at most this frame to go, and those
  activated before it on that target took no time (`Lined`). The director then carries out
  the activated commands in this order, each on a target without tween. The
  exception, `Excused`, is the one of section 5.9, and names the layer.
- *Player.* That a completion reaches the story is a statement about four records in
  four places: the group in the coordinator, the completions of the director, the
  signals of the media host, the wait. `PlayerInv` says of the running game, and of the
  saved one at the place of the story where it was saved (`Told`): the coordinator is
  sound, whatever its history (`Good`), which is the invariant of the coordinator above,
  taken over call by call; its groups are of fences of steps that were done; what the
  Player has heard of is completed; and every completed group has been heard of, or a
  wait for it is over. The director is `Ready` for what the story has sent so far; a session that
  failed says of the story only that `AssertionsHold` excuses it. Then a step of the story begins groups of its own fences
  only, so it completes none and makes none Pending again that was heard of; and a
  frame, an ended stream, a skip complete exactly the groups they report, also when
  several streams end in one turn. Both conditions on the fences are needed: a fence
  used again is released by the signal left from before (section 5.10). TLC checked the
  invariant on the stories of `stage`, with and without `QuietSaves`, before it was proved.
- *Streams.* That a live stream is the video its layer shows joins three things: the
  movies the director opens, with their ids; what the coordinator shows; and the scope of
  each layer, which names one id. `FilmsInv`, on top of `PlayerInv`, says: a film on its way
  has an id of its own, already drawn, that no command the director keeps has
  (`Numbered`); of the activated movies of a layer the last is the one shown (`Newest`);
  a layer shows a film only if the story has sent one there; of the
  streams and requests, those that the scope of their layer names are current
  (`Sees`); and between two turns no stream is kept whose scope is gone, so that a save
  holds live streams only, and a load, which makes the scopes anew from the streams,
  revives no old one. A call of the director keeps this because its movies are opened
  in their order (`Rescoped` is the fold of the scopes); what breaks it is a film that was
  activated when another ended, which only the next frame opens, hence the exception. No
  condition on the fences or the time of saves is needed. TLC checked `FilmsInv` on the
  stories of `stage` and on stories of one and two films a step with the policies that
  can queue or replace, the exception among them, before it was proved.
- *Session.* That every wait held is pending needs, between two steps, that the wait in
  front and those under pages have different tokens, each pending; and during a step,
  what the step remembers: the wait before it, whether the command answers it, and
  that an answered wait is held nowhere any more, since `Settle` takes its token away.
  That the session accepts its own save needs that the action's tokens are those of
  its pending reads, one each, and that the waits of policy commands in the story are
  those of the action there is, except for the one a step has just asked for. This
  in turn needs cursors that stay on the script, so that a command that waits is a
  command of the script and known by its id. A script that forbids skipping breaks
  the theorems: a fast-forward then completes a wait it leaves in place (section
  5.13). That no step fails needs the plan in the invariant: the story under all pages is
  where the plan allows with the calls that are open, each call returns to a state that
  needs fewer, what lies above is a system story and so neither calls nor returns, the
  rank of the cursor is below the turns a fast-forward has left, and with a policy action
  alive a story that runs is in a quiet place. The last is why a new action never meets the
  old one: the wait of an action is a fence, so the story leaves it only by a jump, and
  a jump leads to quiet places. Of the variables it needs, besides, that what they hold
  suits every place the session may come back to (`Recalls`): the cursor, each option of a
  pending choice, the lines in the backlog, the states reached that the route chart offers,
  and the same under each page, since the writes above a page are seen by the story below. TLC checked the invariants, `IInv`, `SaveInv` and `Plays`,
  on the instance of `session` before they were proved.

Induction is used in one form: a set with 0 and the successor of each of its numbers has
them all (`Induction`, from the fact that `<` is well-founded). With it, `FoldRecursion`
and `FoldValues` give the intermediate values of a fold, and each fold of the models has
a lemma that names what holds after k elements.

Only model-checked: liveness (`CancelledWaitGoes`, `QueuedResultResolved`, `WaiterIsServed`,
`WaitIsReleased`), which needs `ENABLED`, and `QueuedMovieStarts` and the other properties of
the runs that show a violation. Every invariant and every action property of a passing run is
proved.

## 5. Where the code and its documents disagree

Shown by a run:

1. `scheduler_reuse`: committing a candidate that drew no id puts the generator
   back to the start of its wave, so ids of the candidate before it are drawn
   again.
2. `stage_queue`: a movie activated when the one before it ended is opened by the
   next frame, and `requires_frame_tick` knows of none when nothing else moves.
3. `stage_save`: completions and requests on their way are in no save; a save
   between a movie's end and the next turn of the media loop loads into a wait
   without end, while the operator's guide says a save keeps the wait.

Read from the code while modelling it, kept out of the passing runs by their
instances:

4. World: `restore_snapshot` leaves the tick mode it had before, while
   `Docs/contracts/runtime.md:138` calls it the same recovery boundary as load.
5. Events: a tick applies its machines' cancellations before their timers; a timer
   made and cancelled in one tick fires.
6. Scheduler: one declared blackboard key admits the read of all of them, in
   evidence mode too, since overlap is symmetric; guards read keys that no access plan
   holds; outside evidence mode undeclared access is not seen.
7. Budget: the refusal of a nested scope comes after its permit is taken, so two
   threads with two brokers can block each other where the message promises an error;
   a thread with a lease that asks for another may wait for itself.
8. Coordinator: commands of length zero are over before they start, so a drain may
   drop a fence without failing it, and a transition of length zero that replaces
   another leaves the queue behind it to the next frame (`FencedCommandsTakeTime` and
   `TransitionsTakeTime` say that a batch has none); `request_text_advance` drops the result of
   `finish_fences`; a movie without a fence never completes in it.
9. Director: the tweens of a ClearLayer that takes time have no entry in the
   coordinator, so a Show, Hide, Move or Background with the policy `queue` on that
   layer starts at once and meets the divergence assertion, "region coordinator
   activated a queued command while its stage tween remained active"
   (`prepare_interrupt.rs:18`): a layer that is cleared in half a second and shown again
   in the same step ends the session. The fifth story of `stage` gets there, and
   `AssertionsHold` says that there is no other way. A Hide or Move queued behind
   a Hide is activated for an entity that is gone.
10. Player: without music the loop that takes a completion runs at the next input
    only; a fence used again is released by the signal left from before. The movie of a
    wait stays in the director's table after its stream has ended, so a click before the
    completion is heard completes whatever its layer shows by then, also a film that was
    queued behind it and is not opened yet (`media_scope.rs:30`;
    `Docs/contracts/rebuild.md:13` says the matching fence). A movie that was activated
    and then replaced by the story is opened by the next frame all the same
    (`stage_director/new.rs:267`): its request takes the layer, and the film on the layer
    loses its own; `FilmAfterQueued` of `PlayerPresentation` names the stories where this can
    happen, a film on a layer after a step that queued one behind another there, and
    `StreamIsCurrent` leaves them out (the stories of `stage` are none of them, so TLC checks
    it there without exception). TLC finds both when the story of `stage_queue` goes on with a wait for
    the first film, or replaces the second.
11. Session: the menu cannot be opened after the story has ended and the attempt ends
    the session (`open_system_story` needs a cursor to return to), although
    `Docs/modules/astra-vn-system-ui-profile.md:48` wants every page openable; with
    `MenuAfterEnd` = TRUE the instance of `session` shows it.
12. Session: a jump to a called state, or from the backlog to a line spoken in one, clears
    the call stack, and its `return` then ends the session with `ASTRA_VN_RETURN_STACK`.
13. Session: setting fast-forward on a text while skipping is forbidden completes the
    wait's token and leaves the wait; the next click fails with
    `ASTRA_AWAIT_TOKEN_MISSING`.
14. Session: a jump back to the policy command whose action is being abandoned, in one
    step because texts are skipped, finds the old action still there and fails.
15. Session: jumps from a page, and a return from a page in fast-forward, leave the
    token of the wait underneath pending in the World for ever. The module drops
    tokens nobody refers to.
16. Session: a fast-forward that has passed 100000 waits ends the session, also when it
    has just come to a fence; the wait passed by setting the mode is one of them; with `skip` at all, a story of texts that jump to each other without any
    other wait keeps `run_until_blocked` in its loop; only fast-forward is bounded.
17. Session: variables start empty (`new.rs:40`) and the compiler does not check that one
    is set before it is read. A branch on a variable no command has set ends the session with
    `ASTRA_VN_BRANCH_VARIABLE_MISSING` (`load_slot.rs:144`). A choice asks for the condition of
    every option when it is shown, so one option on such a variable ends it with
    `ASTRA_VN_CHOICE_VARIABLE_MISSING` (`load_slot.rs:359`) whatever the player would choose. A mutation
    takes the same variable to be 0. With `title` without its first command the instance of `session`
    shows it.
18. Session: a mutation whose sum is out of 64 bits ends the session with
    `ASTRA_VN_MUTATION_OVERFLOW` (`cursor_for.rs:231`), in the story as in a system action.

## 6. Abstractions

- Payloads, ids as byte strings, wording, logs, metrics and integrity hashes are
  left out. Blackboard keys stand for the actor store too.
- *RuntimeWorld*: the ingress warnings that change nothing; actor, module and
  presentation calls; `TaskScope::run`. A worker's `status()` reads the stored value
  and then the scope; the two reads are modelled as one.
- *EventQueues*: payload and source; results of waits (they are in RuntimeWorld).
- *Scheduler*: other effects of actions (committed in machine order with the
  rest), panics (a failure), validation of definitions, starting the pool. Guards
  are not part of access plans in the code either: the documents give machines of a
  wave one snapshot, and the runs use guards on keys that the machine's actions
  declare; with other guards the refinement would not hold.
- *TaskGroup*: two groups alive from one snapshot.
- *Coordinator, director, player*: time is counted in frames; assets, poses, easing,
  presets and volumes are left out; a move's two coordinates are one; timelines,
  shakes and effects are not there, a camera move stands for what is animated outside
  the regions; looping movies, decoder errors and the policy of `silence`.
- *VnSession*: a variable is known by one key for its scope and its key, with a value in a small
  range; a system action mutates a variable once (the code takes a list, in order), and it is
  invoked to switch or leave a page only where one is open; movie, voice and timeline waits are one kind;
  presentation, audio, configuration, unlocks and text input have no effect on the
  control; a read is pending or done, whatever it brought; the script of an action
  decides freely within its API. The journal of the World's events is `EventQueues`.
- *WorkerBudget*: one lease per thread and broker at a time; `fetch_max` of the peak
  together with `fetch_add`; the process-wide `OnceLock`; poisoned locks.

## 7. Plan

Done in the order of importance: waits, budget, scheduler, task groups, queues,
coordinator, director and player, session; proofs of all of them.
Next:

1. **HostChannel** (`astra-platform/session`): emitters that draw a number and then
   send (`shutdown.rs:229`, two may send in the other order and the receiver refuses
   the older number), wake registrations (`host_start_future.rs:219`), shutdown.
2. **LayoutFlight** (`astra-text/provider.rs:447`) composed with WorkerBudget: leader,
   followers and permits on a one-worker profile, where a leader may wait for the
   permit of a follower that waits for it.
3. **ProductSave** and prefetch (`astra-player-*`), then the patch transaction of
   the emulator.
