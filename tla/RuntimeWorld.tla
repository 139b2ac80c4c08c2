----------------------------- MODULE RuntimeWorld -----------------------------
(***************************************************************************)
(* The waits of one astra_runtime::RuntimeWorld: its AwaitQueue, the       *)
(* TaskRuntime that hands out completion handles, the cancellation scopes  *)
(* other threads may cancel at any moment, the phases of a tick, the       *)
(* failed state, and save, load and restore_snapshot.                      *)
(*                                                                         *)
(* The World is owned by one thread (&mut self): its calls never overlap.  *)
(* TaskScope::cancel is the exception; it runs on any thread, between any  *)
(* two phases of a tick, so a tick is one action per phase.                *)
(*                                                                         *)
(* A completion carries the handle it was built from and can be built from *)
(* any handle ever issued, any number of times (handles are Clone), so the *)
(* ingress of a tick is any sequence of completions of issued handles.     *)
(***************************************************************************)
EXTENDS Integers, FiniteSets

CONSTANTS
  TokenId,        \* identities of await tokens (StableId values)
  ScopeName,      \* the cancellation scopes of one World generation
  Root,           \* the scope owned by TaskRuntime
  Ancestors,      \* [ScopeName -> SUBSET ScopeName], reflexive
  MaxStep,        \* fixed steps are counted up to here, then saturate
  MaxHandle,      \* bound on handles ever issued
  MaxGeneration   \* bound on restores

Handle == 1 .. MaxHandle
NoHandle == 0
Step == 1 .. MaxStep
NoTimeout == 0
Policy == {"HostResult", "TickTimeout"}
Scope == (1 .. MaxGeneration) \X ScopeName

ASSUME ScopeAssumption ==
  /\ Root \in ScopeName
  /\ Ancestors \in [ScopeName -> SUBSET ScopeName]
  /\ \A n \in ScopeName : n \in Ancestors[n]
  /\ Ancestors[Root] = {Root}
ASSUME BoundAssumption ==
  /\ MaxStep \in Nat \ {0}
  /\ MaxHandle \in Nat
  /\ MaxGeneration \in Nat \ {0}

(* AwaitToken and AwaitResult.  `by` is not in the program: it records the *)
(* handle a queued result came from, NoHandle for one read from a save.    *)
Token == [id : TokenId, policy : Policy, due : Step \cup {NoTimeout}]
Result == [token : TokenId, at : Step, by : Handle \cup {NoHandle}]

VARIABLES
  step,                \* RuntimeWorld.step
  required_tick_mode,  \* the TickMode the next tick must carry
  failed,              \* RuntimeWorld.failed
  phase,               \* where the tick in progress is, "idle" between calls
  pending,             \* AwaitQueue.pending
  completed,           \* AwaitQueue.completed
  diagnostics,         \* AwaitQueue.diagnostics, without the plain refusals
  generation,          \* how many TaskRuntimes this World has had
  cancelled,           \* scopes whose CancellationToken was cancelled
  owner,               \* TaskRuntime.pending: token -> its handle
  issued,              \* number of handles issued so far
  handles,             \* handle -> its token and scope
  status,              \* handle -> the value of its AtomicU8
  scan, swept,         \* progress of the cancellation sweep of a tick
  fault,               \* the tick has seen a blocking diagnostic
  saved,               \* a snapshot written by save, or NoSave
  doomed,              \* history: tokens already cancelled when the sweep began
  owed                 \* history: waits inserted minus terminal events, by token

worldVars == <<step, required_tick_mode, failed, pending, completed, diagnostics, owed>>
taskVars == <<generation, owner, issued, handles, status>>
tickVars == <<phase, scan, swept, fault, doomed>>
vars == <<worldVars, taskVars, tickVars, cancelled, saved>>

NoSave == [step |-> 0]
Snapshot == [step : 0 .. MaxStep, pending : SUBSET Token, completed : SUBSET Result,
             owed : [TokenId -> Int]]
Code == {"UNKNOWN", "POLICY"}
Phase == {"idle", "ingress", "sweep", "drain", "machines", "dropped"}
HandleRecord == [token : TokenId, scope : Scope]

TypeOK ==
  /\ step \in 0 .. MaxStep
  /\ required_tick_mode \in {"Live", "RestoreContinuation"}
  /\ failed \in BOOLEAN /\ fault \in BOOLEAN
  /\ phase \in Phase
  /\ pending \subseteq Token
  /\ completed \subseteq Result
  /\ diagnostics \subseteq Code
  /\ generation \in 1 .. MaxGeneration
  /\ cancelled \subseteq Scope
  /\ owner \in [TokenId -> Handle \cup {NoHandle}]
  /\ issued \in 0 .. MaxHandle
  /\ handles \in [1 .. issued -> HandleRecord]
  /\ status \in [1 .. issued -> {"Pending", "Completed", "Cancelled"}]
  /\ scan \subseteq TokenId /\ swept \subseteq TokenId /\ doomed \subseteq TokenId
  /\ saved \in Snapshot \cup {NoSave}
  /\ owed \in [TokenId -> Int]
-------------------------------------------------------------------------------
(* Scopes and handles *)

IsCancelled(s) == \E a \in Ancestors[s[2]] : <<s[1], a>> \in cancelled

BelongsTo(s, root) == s[1] = root[1] /\ root[2] \in Ancestors[s[2]]

RootScope == <<generation, Root>>

(* Variant: dropping the TaskRuntime leaves its scopes alive. *)
DropTasksSilently == UNCHANGED cancelled

(* TaskRuntime::drop, and what a failed tick does to the root scope. *)
DropTasks == cancelled' = cancelled \cup {RootScope}

(* Variant: the scope is asked before the stored value. *)
StatusScopeFirst(h) ==
  IF IsCancelled(handles[h].scope) THEN "Cancelled" ELSE status[h]

(* AwaitCompletionHandle::status: the stored terminal value wins over the scope. *)
Status(h) ==
  IF status[h] # "Pending" THEN status[h]
  ELSE IF IsCancelled(handles[h].scope) THEN "Cancelled" ELSE "Pending"

(* TaskRuntime::finish for every token of T *)
Finish(T, terminal) ==
  /\ status' = [h \in 1 .. issued |->
                  IF \E t \in T : owner[t] = h THEN terminal ELSE status[h]]
  /\ owner' = [t \in TokenId |-> IF t \in T THEN NoHandle ELSE owner[t]]

(* TaskRuntime::accepts *)
Accepts(h) == Status(h) = "Pending" /\ owner[handles[h].token] = h

(* TaskScope::cancel, from any thread; cancelling twice changes nothing. *)
CancelScope(s) ==
  /\ s[1] <= generation
  /\ ~ IsCancelled(s)
  /\ cancelled' = cancelled \cup {s}
  /\ UNCHANGED <<worldVars, taskVars, tickVars, saved>>
-------------------------------------------------------------------------------
(* AwaitQueue *)

TokenIds(P) == {k.id : k \in P}

(* Variant: the completion policy of the token is not looked at. *)
AnyToken(P, t) == t \in TokenIds(P)

HostToken(P, t) == \E k \in P : k.id = t /\ k.policy = "HostResult"
HasResult(C, t) == \E r \in C : r.token = t

(* AwaitToken::validate *)
ValidToken(k) == (k.policy = "HostResult") <=> (k.due = NoTimeout)

(* AwaitQueue::validate *)
ValidQueue(P, C) ==
  /\ \A k \in P : ValidToken(k)
  /\ \A k, l \in P : k.id = l.id => k = l
  /\ \A r \in C : HostToken(P, r.token)
  /\ \A r, s \in C : r.token = s.token => r = s

(* AwaitQueue::insert succeeds *)
CanInsert(k) == ValidToken(k) /\ k.id \notin TokenIds(pending)

(* Variant: no check for a result that is already queued. *)
SubmitResultAgain(r) ==
  /\ completed' = completed \cup {r}
  /\ UNCHANGED diagnostics

(* AwaitQueue::submit_result.  The warning for a duplicate is left out.     *)
SubmitResult(r) ==
  IF r.token \notin TokenIds(pending)
    THEN diagnostics' = diagnostics \cup {"UNKNOWN"} /\ UNCHANGED completed
  ELSE IF \E k \in pending : k.id = r.token /\ k.policy = "TickTimeout"
    THEN diagnostics' = diagnostics \cup {"POLICY"} /\ UNCHANGED completed
  ELSE IF HasResult(completed, r.token)
    THEN UNCHANGED <<completed, diagnostics>>
  ELSE completed' = completed \cup {r} /\ UNCHANGED diagnostics

(* Variant: queued results of a cancelled token are kept. *)
CancelTokensKeepResults(T) ==
  /\ UNCHANGED completed
  /\ pending' = {k \in pending : k.id \notin T}
  /\ owed' = [t \in TokenId |->
                owed[t] - Cardinality({k \in pending : k.id = t /\ t \in T})]

(* AwaitQueue::cancel for every token of T, each emitting await.cancelled *)
CancelTokens(T) ==
  /\ completed' = {r \in completed : r.token \notin T}
  /\ pending' = {k \in pending : k.id \notin T}
  /\ owed' = [t \in TokenId |->
                owed[t] - Cardinality({k \in pending : k.id = t /\ t \in T})]
-------------------------------------------------------------------------------
(* Calls of the owner between ticks; all but load and restore need a World *)
(* that has not failed.                                                    *)

Active == phase = "idle" /\ ~ failed

InsertAwaitToken(k) ==
  /\ Active
  /\ CanInsert(k)
  /\ pending' = pending \cup {k}
  /\ owed' = [owed EXCEPT ![k.id] = @ + 1]
  /\ UNCHANGED <<step, required_tick_mode, failed, completed, diagnostics,
                 taskVars, tickVars, cancelled, saved>>

(* await_handle issues a new handle; asked again for the same scope it     *)
(* returns the handle it has, and every refusal changes nothing.           *)
AwaitHandle(t, s) ==
  /\ Active
  /\ HostToken(pending, t)
  /\ ~ HasResult(completed, t)
  /\ BelongsTo(s, RootScope) /\ ~ IsCancelled(s)
  /\ owner[t] = NoHandle
  /\ issued < MaxHandle
  /\ issued' = issued + 1
  /\ handles' = [h \in 1 .. issued + 1 |->
                   IF h = issued + 1 THEN [token |-> t, scope |-> s] ELSE handles[h]]
  /\ status' = [h \in 1 .. issued + 1 |-> IF h = issued + 1 THEN "Pending" ELSE status[h]]
  /\ owner' = [owner EXCEPT ![t] = issued + 1]
  /\ UNCHANGED <<worldVars, generation, tickVars, cancelled, saved>>

CancelAwait(t) ==
  /\ Active
  /\ Finish({t}, "Cancelled")
  /\ CancelTokens({t} \cap TokenIds(pending))
  /\ UNCHANGED <<step, required_tick_mode, failed, diagnostics, generation, issued,
                 handles, tickVars, cancelled, saved>>

Save ==
  /\ Active
  /\ generation < MaxGeneration     \* bound: a save that can still be loaded
  /\ saved' = [step |-> step, pending |-> pending, completed |-> completed, owed |-> owed]
  /\ UNCHANGED <<worldVars, taskVars, tickVars, cancelled>>

(* restore_snapshot: dropping the old TaskRuntime cancels its root scope. *)
RestoreSnapshot(s) ==
  /\ phase = "idle"
  /\ generation < MaxGeneration
  /\ generation' = generation + 1
  /\ DropTasks
  /\ owner' = [t \in TokenId |-> NoHandle]
  /\ failed' = FALSE
  /\ step' = s.step
  /\ pending' = s.pending
  /\ completed' = {[r EXCEPT !.by = NoHandle] : r \in s.completed}
  /\ diagnostics' = {}
  /\ owed' = s.owed
  /\ UNCHANGED <<issued, handles, status, tickVars, saved>>

Restore ==
  /\ saved # NoSave
  /\ RestoreSnapshot(saved)
  /\ UNCHANGED required_tick_mode

(* What the host's validate closure, or a save whose container hash is     *)
(* valid, can present: the queue as saved, with one result more, or with   *)
(* one token more.                                                         *)
Candidates ==
  {saved}
    \cup {[saved EXCEPT !.completed = @ \cup {r}] : r \in [token : TokenId, at : Step, by : {NoHandle}]}
    \cup {[saved EXCEPT !.pending = @ \cup {k}, !.owed[k.id] = @ + 1] : k \in Token \ saved.pending}

(* load_with_validation; a candidate that does not validate changes nothing. *)
Load ==
  /\ saved # NoSave
  /\ \E s \in Candidates : ValidQueue(s.pending, s.completed) /\ RestoreSnapshot(s)
  /\ required_tick_mode' = "RestoreContinuation"

DropWorld ==
  /\ phase = "idle"
  /\ phase' = "dropped"
  /\ DropTasks
  /\ UNCHANGED <<worldVars, taskVars, scan, swept, fault, doomed, saved>>
-------------------------------------------------------------------------------
(* The tick *)

(* validate_tick_request accepted the request; a refusal changes nothing. *)
BeginTick(mode) ==
  /\ Active
  /\ mode = required_tick_mode
  /\ phase' = "ingress"
  /\ UNCHANGED <<worldVars, taskVars, scan, swept, fault, doomed, cancelled, saved>>

(* One AwaitCompletion of the ingress: submit_await_result.  A completion  *)
(* of a stale handle is dropped with a warning and changes nothing.        *)
SubmitAwaitResult(h, at) ==
  /\ phase = "ingress"
  /\ Accepts(h)
  /\ SubmitResult([token |-> handles[h].token, at |-> at, by |-> h])
  /\ UNCHANGED <<step, required_tick_mode, failed, pending, owed, taskVars, tickVars,
                 cancelled, saved>>

(* The only step a request may carry; MaxStep stands for "all later ones". *)
NextStep == IF step < MaxStep THEN step + 1 ELSE step

StartSweep ==
  /\ phase = "ingress"
  /\ phase' = "sweep"
  /\ step' = NextStep
  /\ scan' = {t \in TokenId : owner[t] # NoHandle}
  /\ swept' = {}
  /\ doomed' = {t \in TokenId : owner[t] # NoHandle /\ Status(owner[t]) = "Cancelled"}
  /\ UNCHANGED <<required_tick_mode, failed, pending, completed, diagnostics, owed,
                 taskVars, fault, cancelled, saved>>

(* Variant: the sweep reads the stored status only. *)
ScanHandleStored(t) ==
  /\ phase = "sweep"
  /\ t \in scan
  /\ scan' = scan \ {t}
  /\ swept' = IF status[owner[t]] = "Cancelled" THEN swept \cup {t} ELSE swept
  /\ UNCHANGED <<worldVars, taskVars, phase, fault, doomed, cancelled, saved>>

(* TaskRuntime::cancelled reads one handle at a time. *)
ScanHandle(t) ==
  /\ phase = "sweep"
  /\ t \in scan
  /\ scan' = scan \ {t}
  /\ swept' = IF Status(owner[t]) = "Cancelled" THEN swept \cup {t} ELSE swept
  /\ UNCHANGED <<worldVars, taskVars, phase, fault, doomed, cancelled, saved>>

CancelSwept ==
  /\ phase = "sweep"
  /\ scan = {}
  /\ phase' = "drain"
  /\ Finish(swept, "Cancelled")
  /\ CancelTokens(swept \cap TokenIds(pending))
  /\ swept' = {}
  /\ UNCHANGED <<step, required_tick_mode, failed, diagnostics, generation, issued,
                 handles, scan, fault, doomed, cancelled, saved>>

Ready == {r \in completed : r.at <= step}

(* Variant: a timeout fires at its own step only. *)
TimedOutExactly == {k \in pending : k.policy = "TickTimeout" /\ k.due = step}

(* The timeout pass runs over the tokens that no ready result took. *)
TimedOut == {k \in pending : k.id \notin {r.token : r \in Ready}
                              /\ k.policy = "TickTimeout" /\ k.due <= step}

(* drain_ordered_results, then finish and one event for every result *)
DrainResults ==
  /\ phase = "drain"
  /\ phase' = "machines"
  /\ LET gone == {r.token : r \in Ready} \cup TokenIds(TimedOut) IN
       /\ completed' = completed \ Ready
       /\ pending' = {k \in pending : k.id \notin {r.token : r \in Ready}} \ TimedOut
       /\ Finish(gone, "Completed")
  /\ owed' = [t \in TokenId |-> owed[t] - Cardinality({r \in Ready : r.token = t})
                                        - Cardinality({k \in TimedOut : k.id = t})]
  /\ diagnostics' = {}
  /\ fault' = ("POLICY" \in diagnostics)
  /\ doomed' = {}
  /\ UNCHANGED <<step, required_tick_mode, failed, generation, issued, handles, scan,
                 swept, cancelled, saved>>

(* The machines may ask for waits K; their tokens are inserted after them. *)
InsertOutputs(K) ==
  /\ pending' = pending \cup K
  /\ owed' = [t \in TokenId |-> owed[t] + (IF t \in TokenIds(K) THEN 1 ELSE 0)]

TickSucceeds(K) ==
  /\ phase = "machines"
  /\ ~ fault
  /\ \A k \in K : CanInsert(k)
  /\ InsertOutputs(K)
  /\ phase' = "idle"
  /\ required_tick_mode' = "Live"
  /\ UNCHANGED <<step, failed, completed, diagnostics, taskVars, scan, swept, fault,
                 doomed, cancelled, saved>>

(* A blocking diagnostic, a panic, or a token conflict after K went in. *)
TickFails(K) ==
  /\ phase = "machines"
  /\ \A k \in K : CanInsert(k)
  /\ InsertOutputs(K)
  /\ phase' = "idle"
  /\ failed' = TRUE
  /\ fault' = FALSE
  /\ DropTasks
  /\ UNCHANGED <<step, required_tick_mode, completed, diagnostics, taskVars, scan,
                 swept, doomed, saved>>
-------------------------------------------------------------------------------
(* What one tick's machines output: nothing or one wait. *)
MachineOutput == {{}} \cup {{k} : k \in Token}

Init ==
  /\ step = 0 /\ required_tick_mode = "Live" /\ failed = FALSE
  /\ phase = "idle" /\ scan = {} /\ swept = {} /\ fault = FALSE /\ doomed = {}
  /\ pending = {} /\ completed = {} /\ diagnostics = {}
  /\ generation = 1 /\ cancelled = {}
  /\ owner = [t \in TokenId |-> NoHandle]
  /\ issued = 0 /\ handles = << >> /\ status = << >>
  /\ saved = NoSave
  /\ owed = [t \in TokenId |-> 0]

OwnerStep ==
  \/ \E k \in Token : InsertAwaitToken(k)
  \/ \E t \in TokenId, s \in Scope : AwaitHandle(t, s)
  \/ \E t \in TokenId : CancelAwait(t)
  \/ Save
  \/ Restore
  \/ Load
  \/ DropWorld

TickStep ==
  \/ StartSweep
  \/ \E t \in TokenId : ScanHandle(t)
  \/ CancelSwept
  \/ DrainResults
  \/ \E K \in MachineOutput : TickSucceeds(K) \/ TickFails(K)

Next ==
  \/ \E s \in Scope : CancelScope(s)
  \/ OwnerStep
  \/ \E mode \in {"Live", "RestoreContinuation"} : BeginTick(mode)
  \/ \E h \in 1 .. issued, at \in Step : SubmitAwaitResult(h, at)
  \/ TickStep

Spec == Init /\ [][Next]_vars

(* The frame loop of the host keeps calling tick, and a call returns. *)
FairSpec ==
  /\ Spec
  /\ WF_vars(\E mode \in {"Live", "RestoreContinuation"} : BeginTick(mode))
  /\ WF_vars(TickStep)
-------------------------------------------------------------------------------
(* A completion handle that a worker still sees as Pending is the one the  *)
(* live World tracks for its token: no restore, failure, cancellation or   *)
(* re-insertion of the same token id leaves a stale handle that could      *)
(* still complete something (TaskRuntime, runtime.md "异步完成句柄").      *)
PendingHandleIsTracked ==
  \A h \in 1 .. issued :
    Status(h) = "Pending" =>
      /\ ~ failed /\ phase # "dropped"
      /\ handles[h].scope[1] = generation
      /\ owner[handles[h].token] = h

(* TaskRuntime and AwaitQueue agree: a tracked handle belongs to a         *)
(* host-result token that is still pending, and has no terminal status.    *)
TrackedHandleHasWait ==
  \A t \in TokenId :
    owner[t] # NoHandle =>
      /\ owner[t] <= issued
      /\ handles[owner[t]].token = t
      /\ status[owner[t]] = "Pending"
      /\ HostToken(pending, t)

(* A queued result belongs to a pending host-result token and was queued   *)
(* by the handle tracked now; a result from a save has no handle, and none *)
(* is issued for its token (has_result in await_handle).                   *)
QueuedResultFromTrackedHandle ==
  \A r \in completed : HostToken(pending, r.token) /\ owner[r.token] = r.by

(* At most one token has a given id and at most one result waits for it.   *)
OneTokenOneResult ==
  /\ \A k, l \in pending : k.id = l.id => k = l
  /\ \A r, s \in completed : r.token = s.token => r = s

(* A completion that passed accepts never meets a missing token or a       *)
(* timeout token, whose POLICY diagnostic would fail the whole World.      *)
AcceptedCompletionMeetsItsToken == diagnostics \cap {"UNKNOWN", "POLICY"} = {}

(* Every wait ever inserted is still pending or has had exactly one        *)
(* terminal event: a result, a timeout or await.cancelled.                 *)
OneTerminalEventPerWait ==
  \A t \in TokenId : owed[t] = (IF t \in TokenIds(pending) THEN 1 ELSE 0)

(* Whenever save is possible, what it would write passes the validation of *)
(* load: the engine never refuses its own save.                            *)
SavedQueueLoads == Active => ValidQueue(pending, completed)

(* Every handle was issued for a scope below the root of some generation,  *)
(* so dropping that generation's TaskRuntime cancels it.                   *)
HandlesBelongToWorld ==
  \A h \in 1 .. issued :
    handles[h].scope[1] <= generation /\ Root \in Ancestors[handles[h].scope[2]]

(* A snapshot taken by save is one that load accepts.                      *)
SavedIsConsistent ==
  saved # NoSave =>
    /\ ValidQueue(saved.pending, saved.completed)
    /\ \A t \in TokenId : saved.owed[t] = (IF t \in TokenIds(saved.pending) THEN 1 ELSE 0)

(* The strengthening that is inductive: the facts above together, with     *)
(* where handles and snapshots come from and what insert validates.        *)
IInv ==
  /\ TypeOK
  /\ HandlesBelongToWorld
  /\ PendingHandleIsTracked
  /\ TrackedHandleHasWait
  /\ QueuedResultFromTrackedHandle
  /\ OneTokenOneResult
  /\ AcceptedCompletionMeetsItsToken
  /\ \A k \in pending : ValidToken(k)
  /\ OneTerminalEventPerWait
  /\ SavedIsConsistent

(* A token whose scope was cancelled before the sweep of a tick is gone,   *)
(* its queued result with it, when the tick drains results.                *)
CancelledBeforeSweepIsGone ==
  phase = "drain" =>
    \A t \in doomed : t \notin TokenIds(pending) /\ ~ HasResult(completed, t)

(* Completed is final; a handle seen as Cancelled turns Completed only by  *)
(* the drain of a tick whose sweep it escaped, with its result queued.     *)
StatusStep ==
  \A h \in 1 .. issued :
    /\ Status(h) = "Completed" => Status(h)' = "Completed"
    /\ Status(h) = "Cancelled" /\ Status(h)' # "Cancelled" =>
         phase = "drain" /\ \E r \in Ready : r.by = h

(* Every step is such a step, so a worker never sees a finished handle as  *)
(* pending again, whatever cancel, restore or a tick does.                 *)
TerminalStatusIsFinal == [][StatusStep]_vars

(* A cancelled scope's wait does not stay behind while the World lives.    *)
CancelledWaitGoes ==
  \A h \in Handle, t \in TokenId :
    (h <= issued /\ owner[t] = h /\ Status(h) = "Cancelled")
      ~> (owner[t] # h \/ failed \/ phase = "dropped")

(* A queued result is delivered or cancelled, and a timeout fires, unless  *)
(* another snapshot is restored meanwhile.                                 *)
QueuedResultResolved ==
  \A t \in TokenId, g \in 1 .. MaxGeneration :
    (generation = g /\ (HasResult(completed, t)
                          \/ \E k \in pending : k.id = t /\ k.policy = "TickTimeout"))
      ~> (owed[t] = 0 \/ failed \/ phase = "dropped" \/ generation # g)
===============================================================================
