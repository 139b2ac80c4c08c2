----------------------------- MODULE WorkerBudget -----------------------------
(***************************************************************************)
(* astra_worker_budget: permits of a broker, served first in first out by  *)
(* tickets under a mutex, with a condition variable and two atomics that   *)
(* are read without the mutex.                                             *)
(*                                                                         *)
(* One action is one critical section, one atomic operation or one         *)
(* notify_all.  What a thread does with a permit is left out; it asks for  *)
(* permits, runs scopes and drops leases in any order that its nesting     *)
(* discipline allows.  A future of acquire runs blocking_acquire on a pool *)
(* thread, which is one more thread here.                                  *)
(***************************************************************************)
EXTENDS Integers, FiniteSets

CONSTANTS
  Thread,
  Broker,
  NoBroker,     \* the thread-local scope of a thread that runs none
  Limit,        \* [Broker -> permits]
  MaxTicket,    \* bound on the tickets a broker hands out
  MayNest       \* may the work of one broker's scope enter another's?

ASSUME ThreadAssumption == IsFiniteSet(Thread)
ASSUME BrokerAssumption == Broker # {} /\ NoBroker \notin Broker
ASSUME LimitAssumption == Limit \in [Broker -> Nat \ {0}]
ASSUME TicketAssumption == MaxTicket \in Nat /\ MayNest \in BOOLEAN

VARIABLES
  available,        \* BudgetState.available
  next_ticket,      \* BudgetState.next_ticket
  serving_ticket,   \* BudgetState.serving_ticket
  acquired,         \* BrokerInner.acquired
  peak_acquired,    \* BrokerInner.peak_acquired
  pc,               \* where the thread is in its call, "idle" outside
  call,             \* the broker and kind of the call the thread is in
  ticket,           \* its ticket while it waits
  leases,           \* the brokers it holds a lease of
  scope             \* SCOPED_BROKER of the thread

brokerVars == <<available, next_ticket, serving_ticket>>
atomicVars == <<acquired, peak_acquired>>
threadVars == <<pc, call, ticket, leases, scope>>
budgetVars == <<brokerVars, atomicVars, threadVars>>

Kind == {"lease", "scope", "try"}
Call == [broker : Broker, kind : Kind]
Waiting == {"asleep", "awake"}
PC == Waiting \cup {"idle", "record", "notify", "drop", "unlock", "wake"}

BudgetTypeOK ==
  /\ available \in [Broker -> Nat]
  /\ next_ticket \in [Broker -> Nat]
  /\ serving_ticket \in [Broker -> Nat]
  /\ acquired \in [Broker -> Int]
  /\ peak_acquired \in [Broker -> Int]
  /\ pc \in [Thread -> PC]
  /\ call \in [Thread -> Call]
  /\ ticket \in [Thread -> Nat]
  /\ leases \in [Thread -> SUBSET Broker]
  /\ scope \in [Thread -> Broker \cup {NoBroker}]
-------------------------------------------------------------------------------
Waits(t, b) == pc[t] \in Waiting /\ call[t].broker = b

(* The condition of the wait loop *)
Served(b, n) == n = serving_ticket[b] /\ available[b] # 0

(* Variant: notify_one, which may wake a thread whose turn it is not. *)
NotifyOne(t, b, next) ==
  LET sleepers == {u \in Thread \ {t} : pc[u] = "asleep" /\ call[u].broker = b} IN
    IF sleepers = {} THEN pc' = [pc EXCEPT ![t] = next]
    ELSE \E u \in sleepers : pc' = [pc EXCEPT ![t] = next, ![u] = "awake"]

(* notify_all: every sleeper of b looks at the condition again. *)
NotifyAll(t, b, next) ==
  pc' = [u \in Thread |->
           IF u = t THEN next
           ELSE IF pc[u] = "asleep" /\ call[u].broker = b THEN "awake" ELSE pc[u]]

(* Variant: the turn passes on but the permit is not taken. *)
TakeTurnOnly(b) ==
  /\ UNCHANGED available
  /\ serving_ticket' = [serving_ticket EXCEPT ![b] = @ + 1]

(* The end of the loop: the permit is taken and the next ticket is served. *)
Take(b) ==
  /\ available' = [available EXCEPT ![b] = @ - 1]
  /\ serving_ticket' = [serving_ticket EXCEPT ![b] = @ + 1]

(* The products nest calls of one broker only: a thread that holds a lease *)
(* does not block for another, nor a scope's work for another broker.      *)
MayBlock(t, kind) ==
  leases[t] = {} /\ (scope[t] = NoBroker \/ (MayNest /\ kind = "scope"))

(* blocking_acquire and run_scoped outside a scope of b; inside one both   *)
(* run inline and change nothing.  The ticket is drawn and the condition   *)
(* first looked at in one critical section.                                *)
Enter(t, b, kind) ==
  /\ pc[t] = "idle"
  /\ scope[t] # b
  /\ MayBlock(t, kind)
  /\ next_ticket[b] < MaxTicket
  /\ call' = [call EXCEPT ![t] = [broker |-> b, kind |-> kind]]
  /\ ticket' = [ticket EXCEPT ![t] = next_ticket[b]]
  /\ next_ticket' = [next_ticket EXCEPT ![b] = @ + 1]
  /\ IF Served(b, next_ticket[b])
       THEN Take(b) /\ pc' = [pc EXCEPT ![t] = "record"]
       ELSE UNCHANGED <<available, serving_ticket>> /\ pc' = [pc EXCEPT ![t] = "asleep"]
  /\ UNCHANGED <<atomicVars, leases, scope>>

(* A condition variable may wake a thread for no reason. *)
WakeSpuriously(t) ==
  /\ pc[t] = "asleep"
  /\ pc' = [pc EXCEPT ![t] = "awake"]
  /\ UNCHANGED <<brokerVars, atomicVars, call, ticket, leases, scope>>

Recheck(t) ==
  /\ pc[t] = "awake"
  /\ LET b == call[t].broker IN
       IF Served(b, ticket[t])
         THEN Take(b) /\ pc' = [pc EXCEPT ![t] = "record"]
         ELSE UNCHANGED <<available, serving_ticket>> /\ pc' = [pc EXCEPT ![t] = "asleep"]
  /\ UNCHANGED <<next_ticket, atomicVars, call, ticket, leases, scope>>

(* Variant: a free permit is enough, whoever is queued. *)
TryAcquireJumping(t, b) ==
  /\ pc[t] = "idle"
  /\ b \notin leases[t]
  /\ available[b] # 0
  /\ next_ticket[b] < MaxTicket
  /\ next_ticket' = [next_ticket EXCEPT ![b] = @ + 1]
  /\ Take(b)
  /\ call' = [call EXCEPT ![t] = [broker |-> b, kind |-> "try"]]
  /\ pc' = [pc EXCEPT ![t] = "record"]
  /\ UNCHANGED <<atomicVars, ticket, leases, scope>>

(* try_acquire succeeds; it is refused, without effect, behind a queue.    *)
TryAcquire(t, b) ==
  /\ pc[t] = "idle"
  /\ b \notin leases[t]          \* bound: one lease of b at a time
  /\ available[b] # 0 /\ next_ticket[b] = serving_ticket[b]
  /\ next_ticket[b] < MaxTicket
  /\ next_ticket' = [next_ticket EXCEPT ![b] = @ + 1]
  /\ Take(b)
  /\ call' = [call EXCEPT ![t] = [broker |-> b, kind |-> "try"]]
  /\ pc' = [pc EXCEPT ![t] = "record"]
  /\ UNCHANGED <<atomicVars, ticket, leases, scope>>

(* record_acquire, after the mutex was unlocked. *)
RecordAcquire(t) ==
  /\ pc[t] = "record"
  /\ LET b == call[t].broker IN
       /\ acquired' = [acquired EXCEPT ![b] = @ + 1]
       /\ peak_acquired' = [peak_acquired EXCEPT
                              ![b] = IF @ < acquired[b] + 1 THEN acquired[b] + 1 ELSE @]
       /\ IF call[t].kind = "try"
            THEN /\ pc' = [pc EXCEPT ![t] = "idle"]
                 /\ leases' = [leases EXCEPT ![t] = @ \cup {b}]
            ELSE pc' = [pc EXCEPT ![t] = "notify"] /\ UNCHANGED leases
  /\ UNCHANGED <<brokerVars, call, ticket, scope>>

(* The permit is taken: its thread wakes the next in line and returns the  *)
(* lease, enters the scope, or finds itself inside another broker's scope  *)
(* and drops the lease again.                                              *)
Acquired(t) ==
  /\ pc[t] = "notify"
  /\ LET b == call[t].broker IN
       \/ /\ call[t].kind = "lease"
          /\ NotifyAll(t, b, "idle")
          /\ leases' = [leases EXCEPT ![t] = @ \cup {b}]
          /\ UNCHANGED scope
       \/ /\ call[t].kind = "scope" /\ scope[t] = NoBroker
          /\ NotifyAll(t, b, "idle")
          /\ scope' = [scope EXCEPT ![t] = b]
          /\ UNCHANGED leases
       \/ /\ call[t].kind = "scope" /\ scope[t] # NoBroker
          /\ NotifyAll(t, b, "drop")
          /\ UNCHANGED <<leases, scope>>
  /\ UNCHANGED <<brokerVars, atomicVars, call, ticket>>

(* The owner lets a lease go. *)
DropLease(t, b) ==
  /\ pc[t] = "idle"
  /\ b \in leases[t]
  /\ leases' = [leases EXCEPT ![t] = @ \ {b}]
  /\ call' = [call EXCEPT ![t] = [broker |-> b, kind |-> "lease"]]
  /\ pc' = [pc EXCEPT ![t] = "drop"]
  /\ UNCHANGED <<brokerVars, atomicVars, ticket, scope>>

(* The scoped work returned: the scope is left, then its lease dropped.    *)
EndScope(t) ==
  /\ pc[t] = "idle"
  /\ scope[t] # NoBroker
  /\ scope' = [scope EXCEPT ![t] = NoBroker]
  /\ call' = [call EXCEPT ![t] = [broker |-> scope[t], kind |-> "scope"]]
  /\ pc' = [pc EXCEPT ![t] = "drop"]
  /\ UNCHANGED <<brokerVars, atomicVars, ticket, leases>>

(* Variant: only a lease handed out is counted back, not a scope's. *)
CountReleaseOfLeases(t) ==
  /\ pc[t] = "drop"
  /\ acquired' = [acquired EXCEPT
                    ![call[t].broker] = IF call[t].kind = "lease" THEN @ - 1 ELSE @]
  /\ pc' = [pc EXCEPT ![t] = "unlock"]
  /\ UNCHANGED <<brokerVars, peak_acquired, call, ticket, leases, scope>>

(* WorkerBudgetLease::drop: the count goes down before the permit is back. *)
CountRelease(t) ==
  /\ pc[t] = "drop"
  /\ acquired' = [acquired EXCEPT ![call[t].broker] = @ - 1]
  /\ pc' = [pc EXCEPT ![t] = "unlock"]
  /\ UNCHANGED <<brokerVars, peak_acquired, call, ticket, leases, scope>>

ReturnPermit(t) ==
  /\ pc[t] = "unlock"
  /\ available' = [available EXCEPT ![call[t].broker] = @ + 1]
  /\ pc' = [pc EXCEPT ![t] = "wake"]
  /\ UNCHANGED <<next_ticket, serving_ticket, atomicVars, call, ticket, leases, scope>>

NotifyReleased(t) ==
  /\ pc[t] = "wake"
  /\ NotifyAll(t, call[t].broker, "idle")
  /\ UNCHANGED <<brokerVars, atomicVars, call, ticket, leases, scope>>
-------------------------------------------------------------------------------
BudgetInit ==
  /\ available = Limit
  /\ next_ticket = [b \in Broker |-> 0] /\ serving_ticket = [b \in Broker |-> 0]
  /\ acquired = [b \in Broker |-> 0] /\ peak_acquired = [b \in Broker |-> 0]
  /\ pc = [t \in Thread |-> "idle"]
  /\ call = [t \in Thread |-> [broker |-> CHOOSE b \in Broker : TRUE, kind |-> "lease"]]
  /\ ticket = [t \in Thread |-> 0]
  /\ leases = [t \in Thread |-> {}]
  /\ scope = [t \in Thread |-> NoBroker]

(* What a thread that is inside a call does next. *)
CallStep(t) ==
  \/ Recheck(t)
  \/ RecordAcquire(t)
  \/ Acquired(t)
  \/ CountRelease(t)
  \/ ReturnPermit(t)
  \/ NotifyReleased(t)

Release(t) == EndScope(t) \/ \E b \in Broker : DropLease(t, b)

BudgetNext ==
  \E t \in Thread :
    \/ \E b \in Broker, kind \in {"lease", "scope"} : Enter(t, b, kind)
    \/ \E b \in Broker : TryAcquire(t, b)
    \/ WakeSpuriously(t)
    \/ CallStep(t)
    \/ Release(t)

BudgetSpec == BudgetInit /\ [][BudgetNext]_budgetVars

(* Threads run, and nobody keeps a permit for ever. *)
FairSpec ==
  /\ BudgetSpec
  /\ \A t \in Thread : WF_budgetVars(CallStep(t))
  /\ \A t \in Thread, b \in Broker : SF_budgetVars(DropLease(t, b))
  /\ \A t \in Thread : SF_budgetVars(EndScope(t))
-------------------------------------------------------------------------------
(* Who has a permit of b, by how it is held: a lease, a scope, or a call   *)
(* that has taken it or is giving it back.                                 *)
Holding == Thread \X {"lease", "scope", "call"}

HoldersIn(b, states) ==
  {h \in Holding :
     \/ h[2] = "lease" /\ b \in leases[h[1]]
     \/ h[2] = "scope" /\ scope[h[1]] = b
     \/ h[2] = "call" /\ pc[h[1]] \in states /\ call[h[1]].broker = b}

Holders(b) == HoldersIn(b, {"record", "notify", "drop", "unlock"})
Counted(b) == HoldersIn(b, {"notify", "drop"})

(* Permits are never lost nor made: those a broker has and those its       *)
(* callers hold add up, whatever scope is refused or lease dropped.        *)
PermitsConserved ==
  \A b \in Broker : available[b] + Cardinality(Holders(b)) = Limit[b]

(* The counters read without the mutex never show more work than permits   *)
(* allow: peak_acquired is what the performance reports rely on.           *)
AcquiredWithinLimit ==
  \A b \in Broker : acquired[b] <= Limit[b] - available[b] /\ peak_acquired[b] <= Limit[b]

(* The tickets of b drawn and not yet served are those of its waiters.     *)
InLine(b) ==
  /\ serving_ticket[b] <= next_ticket[b]
  /\ \A n \in serving_ticket[b] .. next_ticket[b] - 1 :
       \E t \in Thread : Waits(t, b) /\ ticket[t] = n
  /\ \A t \in Thread : Waits(t, b) =>
       serving_ticket[b] <= ticket[t] /\ ticket[t] < next_ticket[b]
  /\ \A t, u \in Thread : Waits(t, b) /\ Waits(u, b) /\ ticket[t] = ticket[u] => t = u

(* No gap in the line of tickets: nobody behind an abandoned or doubled    *)
(* ticket waits for ever, and queued is the number of threads in wait.     *)
TicketsInLine == \A b \in Broker : InLine(b)

(* u has yet to call notify_all of b. *)
WillNotify(u, b) ==
  /\ call[u].broker = b
  /\ \/ pc[u] = "wake"
     \/ pc[u] \in {"record", "notify"} /\ call[u].kind # "try"

(* Every sleeper whose turn it is has someone about to wake it: the two    *)
(* notify_all of blocking_acquire and of a dropped lease are enough, and   *)
(* try_acquire needs none.                                                 *)
NoLostWakeup ==
  \A t \in Thread :
    pc[t] = "asleep" /\ Served(call[t].broker, ticket[t]) =>
      \E u \in Thread : WillNotify(u, call[t].broker)

(* Who waits was not refused by try_acquire, and a call that will hand out *)
(* a lease of b finds its thread without one.                              *)
CallsFit ==
  \A t \in Thread :
    /\ pc[t] \in Waiting \cup {"notify"} => call[t].kind # "try"
    /\ pc[t] \in Waiting \cup {"record", "notify"} /\ call[t].kind # "scope" =>
         call[t].broker \notin leases[t]

(* The atomic counters follow the holders that have been counted.          *)
CountersMatch ==
  \A b \in Broker : acquired[b] = Cardinality(Counted(b)) /\ peak_acquired[b] <= Limit[b]

(* The inductive invariant: permits and counters by their holders, tickets *)
(* by their waiters, sleepers by who will wake them.                       *)
BudgetIInv ==
  /\ BudgetTypeOK
  /\ CallsFit
  /\ PermitsConserved
  /\ CountersMatch
  /\ TicketsInLine
  /\ NoLostWakeup

(* A thread that finds a permit at once, by try_acquire or by a new        *)
(* ticket, never overtakes one that waits.                                 *)
NewcomerStep ==
  \A t \in Thread :
    pc[t] = "idle" /\ pc'[t] = "record" =>
      ~ \E u \in Thread : Waits(u, call'[t].broker)

(* No step lets a newcomer pass the queue ("bounded and FIFO").            *)
NewcomerNeverOvertakes == [][NewcomerStep]_budgetVars

(* Every thread that waits for a permit gets one, if permits are returned  *)
(* and threads nest only calls of one broker.                              *)
WaiterIsServed ==
  \A t \in Thread : pc[t] \in Waiting ~> pc[t] = "record"

===============================================================================
