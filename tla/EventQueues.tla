------------------------------ MODULE EventQueues ------------------------------
(***************************************************************************)
(* The event queues of a RuntimeWorld: EventQueue, read by the machines of *)
(* a tick, and DelayedEventQueue, timers by the fixed step they are due.   *)
(* A tick moves due timers to the event queue, hands all ready events to   *)
(* the machines and takes the machines' own cancellations, timers and      *)
(* events.  Both queues are saved; results of waits are in RuntimeWorld.   *)
(***************************************************************************)
EXTENDS SequencesExt, Integers

CONSTANTS
  MaxEvent,   \* bound on events and timers made, by their id
  MaxStep     \* bound on the fixed steps

ASSUME EventBounds == MaxEvent \in Nat /\ MaxStep \in Nat \ {0}

VARIABLES
  step,        \* RuntimeWorld.step
  failed,      \* RuntimeWorld.failed
  next_id,     \* the id source; ids grow
  delayed,     \* DelayedEventQueue.queued, of [id, step, sequence]
  next_timer,  \* DelayedEventQueue.next_sequence
  queued,      \* EventQueue.queued, of [id, step, sequence]
  next_event,  \* EventQueue.next_sequence
  saved,       \* saves made, all of the state above with its history
  made,        \* history: how and when each event was made, [timer, due, at]
  delivered,   \* history: what machines were given, [id, at]
  removed      \* history: ids that left the timers when cancelled

queueVars == <<delayed, next_timer, queued, next_event>>
historyVars == <<made, delivered, removed>>
vars == <<step, failed, next_id, queueVars, saved, historyVars>>

Steps == 0 .. MaxStep
-------------------------------------------------------------------------------
(* Entries of the queues, of [id, step, sequence]; the step of a timer is  *)
(* the one it is due at.                                                   *)

Before(d, e) == d.step < e.step \/ (d.step = e.step /\ d.sequence < e.sequence)

(* partition_point: where the first entry with Test is, or the end.        *)
First(entries, Test(_)) ==
  Min({i \in DOMAIN entries : Test(entries[i])} \cup {Len(entries) + 1})

(* Mutant: an entry goes before those of the same step. *)
InsertFirst(entries, e) ==
  InsertAt(entries, First(entries, LAMBDA d : d.step >= e.step), e)

(* schedule keeps the timers in order. *)
Insert(entries, e) ==
  InsertAt(entries, First(entries, LAMBDA d : Before(e, d)), e)

Sorted(entries) == FoldLeft(Insert, <<>>, entries)

(* drain_due, of entries in order: those of a step that has come, and the  *)
(* others.                                                                 *)
Due(entries, s) == SubSeq(entries, 1, First(entries, LAMBDA e : e.step > s) - 1)
Pending(entries, s) ==
  SubSeq(entries, First(entries, LAMBDA e : e.step > s), Len(entries))

(* cancel removes the timer, if it is still there. *)
Without(timers, id) == RemoveFirstMatch(timers, LAMBDA e : e.id = id)

(* Mutant: timers are taken from a save as they come. *)
AsTheyCome(timers) == timers

(* Deserialization puts them in order, whatever order the save has.        *)
Normalized(timers) == Sorted(timers)
-------------------------------------------------------------------------------
(* push gives the events, in order, the next sequence numbers.             *)
Pushed(queue, next, events) ==
  queue \o [n \in DOMAIN events |-> [events[n] EXCEPT !.sequence = next + n - 1]]

(* Mutant: events of the step stay in the queue. *)
LaterInclusive(queue, s) == Pending(Sorted(queue), s - 1)

(* drain_ordered_for_step sorts the queue first. *)
Ready(queue, s) == Due(Sorted(queue), s)
Later(queue, s) == Pending(Sorted(queue), s)
-------------------------------------------------------------------------------
Entry(id, s, sequence) == [id |-> id, step |-> s, sequence |-> sequence]
Event(id, s) == Entry(id, s, 0)
Made(timer, due, at) == [timer |-> timer, due |-> due, at |-> at]

Init ==
  /\ step = 0 /\ failed = FALSE /\ next_id = 1
  /\ delayed = <<>> /\ next_timer = 0
  /\ queued = <<>> /\ next_event = 0
  /\ saved = {}
  /\ made = <<>> /\ delivered = <<>> /\ removed = {}

Fresh == ~ failed /\ next_id <= MaxEvent

(* emit_event with the current step, enqueue_event with any.               *)
PushEvent(s) ==
  /\ Fresh
  /\ next_id' = next_id + 1
  /\ queued' = Pushed(queued, next_event, <<Event(next_id, s)>>)
  /\ next_event' = next_event + 1
  /\ made' = Append(made, Made(FALSE, s, step))
  /\ UNCHANGED <<step, failed, delayed, next_timer, saved, delivered, removed>>

ScheduleEvent(due) ==
  /\ Fresh
  /\ next_id' = next_id + 1
  /\ delayed' = Insert(delayed, Entry(next_id, due, next_timer))
  /\ next_timer' = next_timer + 1
  /\ made' = Append(made, Made(TRUE, due, step))
  /\ UNCHANGED <<step, failed, queued, next_event, saved, delivered, removed>>

CancelDelayedEvent(id) ==
  /\ ~ failed
  /\ delayed' = Without(delayed, id)
  /\ removed' = removed \cup {e.id : e \in ToSet(delayed) \ ToSet(delayed')}
  /\ UNCHANGED <<step, failed, next_id, next_timer, queued, next_event, saved, made, delivered>>

(* A tick whose machines output cancellations, a timer for each of dues    *)
(* and emitted events, in this order; a failure keeps them, and only a     *)
(* restore goes on.                                                        *)
Tick(cancels, dues, emitted, fails) ==
  LET now == step + 1
      due == Due(delayed, now)
      waiting == Pushed(queued, next_event, due)
      ready == Ready(waiting, now)
      kept == Pending(delayed, now)
      left == FoldLeft(Without, kept, cancels)
      timers == [n \in DOMAIN dues |-> Entry(next_id + n - 1, dues[n], next_timer + n - 1)]
      events == [n \in 1 .. emitted |-> Event(next_id + Len(dues) + n - 1, now)]
      hands == [n \in DOMAIN ready |-> [id |-> ready[n].id, at |-> now]]
  IN /\ ~ failed
     /\ step < MaxStep
     /\ next_id + Len(dues) + emitted <= MaxEvent + 1
     /\ step' = now
     /\ failed' = fails
     /\ next_id' = next_id + Len(dues) + emitted
     /\ delayed' = FoldLeft(Insert, left, timers)
     /\ next_timer' = next_timer + Len(dues)
     /\ queued' = Pushed(Later(waiting, now), next_event + Len(due), events)
     /\ next_event' = next_event + Len(due) + emitted
     /\ made' = made \o [n \in DOMAIN dues |-> Made(TRUE, dues[n], now)]
                     \o [n \in 1 .. emitted |-> Made(FALSE, now, now)]
     /\ delivered' = delivered \o hands
     /\ removed' = removed \cup {e.id : e \in ToSet(kept) \ ToSet(left)}
     /\ UNCHANGED saved

State == [step |-> step, next_id |-> next_id, delayed |-> delayed, next_timer |-> next_timer,
          queued |-> queued, next_event |-> next_event, made |-> made,
          delivered |-> delivered, removed |-> removed]

Save ==
  /\ ~ failed
  /\ saved' = {State}
  /\ UNCHANGED <<step, failed, next_id, queueVars, historyVars>>

(* Mutant: the timers are restored, their counter is not. *)
RestoreWithFreshCounter(s, timers) ==
  /\ step' = s.step /\ failed' = FALSE /\ next_id' = s.next_id
  /\ delayed' = timers /\ next_timer' = 0
  /\ queued' = s.queued /\ next_event' = s.next_event
  /\ made' = s.made /\ delivered' = s.delivered
  /\ removed' = s.removed
  /\ UNCHANGED saved

(* restore_snapshot with the timers given, in place of a failed World too. *)
RestoreWith(s, timers) ==
  /\ step' = s.step /\ failed' = FALSE /\ next_id' = s.next_id
  /\ delayed' = timers /\ next_timer' = s.next_timer
  /\ queued' = s.queued /\ next_event' = s.next_event
  /\ made' = s.made /\ delivered' = s.delivered
  /\ removed' = s.removed
  /\ UNCHANGED saved

RestoreSnapshot(s) == RestoreWith(s, s.delayed)

(* load reads the timers of a save in the order they were written.         *)
Load(s, order) == RestoreWith(s, Normalized([i \in DOMAIN s.delayed |-> s.delayed[order[i]]]))

Next ==
  \/ \E s \in Steps : PushEvent(s)
  \/ \E due \in Steps : ScheduleEvent(due)
  \/ \E id \in 1 .. next_id - 1 : CancelDelayedEvent(id)
  \/ \E dues \in SeqOf(Steps, 1), emitted \in 0 .. 1, fails \in BOOLEAN :
       \E cancels \in SeqOf(1 .. next_id - 1 + Len(dues), 1) :
         Tick(cancels, dues, emitted, fails)
  \/ Save
  \/ \E s \in saved : RestoreSnapshot(s)
  \/ \E s \in saved :
       \E order \in Bijection(DOMAIN s.delayed, DOMAIN s.delayed) : Load(s, order)

Spec == Init /\ [][Next]_vars
-------------------------------------------------------------------------------
(* Properties *)

(* Types of the variables; numbers of queued events and timers were given. *)
TypeOK ==
  /\ step \in Steps /\ failed \in BOOLEAN /\ next_id \in 1 .. MaxEvent + 1
  /\ \A e \in ToSet(delayed) : e.id < next_id /\ e.step \in Steps /\ e.sequence < next_timer
  /\ \A e \in ToSet(queued) : e.id < next_id /\ e.step \in Steps /\ e.sequence < next_event
  /\ Len(made) = next_id - 1
  /\ removed \subseteq 1 .. next_id - 1

(* Where an event can be, and how often it is there. *)
Times(s, id) == Cardinality({n \in DOMAIN s : s[n].id = id})

(* No event is lost or doubled between the two queues, the machines and    *)
(* cancellation, through saves, failures and restores.                     *)
EachEventOnce ==
  \A id \in DOMAIN made :
    Times(delayed, id) + Times(queued, id) + Times(delivered, id)
      + (IF id \in removed THEN 1 ELSE 0) = 1

(* The tick an event belongs to: its own step, or the first after it was   *)
(* made, for one that is overdue.                                          *)
FirstTick(id) == Max({made[id].due, made[id].at + 1})

(* Machines see an event in that tick, not earlier or later, also when the *)
(* World was saved and loaded in between ("the same trigger tick").        *)
DeliveredOnTime ==
  /\ \A n \in DOMAIN delivered : delivered[n].at = FirstTick(delivered[n].id)
  /\ \A e \in ToSet(delayed) \cup ToSet(queued) : FirstTick(e.id) > step

(* In one tick events come by their step; of one step those pushed come    *)
(* before timers, and each in the order they were made, whatever order     *)
(* timers of other steps were made, cancelled or loaded in.                *)
ComesBefore(a, b) ==
  \/ made[a].due < made[b].due
  \/ /\ made[a].due = made[b].due
     /\ \/ ~ made[a].timer /\ made[b].timer
        \/ made[a].timer = made[b].timer /\ a < b

DeliveredInOrder ==
  \A m, n \in DOMAIN delivered :
    m < n /\ delivered[m].at = delivered[n].at
      => ComesBefore(delivered[m].id, delivered[n].id)

===============================================================================
