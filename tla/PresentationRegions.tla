------------------------- MODULE PresentationRegions -------------------------
(***************************************************************************)
(* The state of a PresentationCoordinator as a value, and its calls as     *)
(* operators from one state to the next.  Four regions show characters,    *)
(* backgrounds, one line of text and videos; a command starts on its       *)
(* target, waits in the queue of its region behind what is running, or is  *)
(* refused.  Commands that name the same fence form a group that completes *)
(* when all have ended.                                                    *)
(*                                                                         *)
(* Time is counted in frames; assets, poses and volumes are left out, and  *)
(* so are the sequence and step numbers that a batch must carry in order.  *)
(***************************************************************************)
EXTENDS TaskGroupState

CONSTANTS
  Target,      \* character ids, background layers, the text line, video sessions
  RegionOf,    \* [Target -> Region]
  LayerOf,     \* [Target -> layer written, or NoLayer for text]
  NoLayer,
  NoFence,     \* the fence of a command that has none
  MaxQueue     \* MAX_REGION_QUEUE

Region == {"Character", "Background", "Text", "Video"}
Policy == {"Queue", "Reject", "SnapThenStart", "ReplaceFromCurrent"}

ASSUME RegionsOfTargets ==
  /\ RegionOf \in [Target -> Region]
  /\ LayerOf \in [Target -> {LayerOf[t] : t \in Target}]
  /\ MaxQueue \in Nat \ {0}
-------------------------------------------------------------------------------
(* A map with the entries of another inserted. *)
Insert(map, entries) ==
  [x \in DOMAIN map \cup DOMAIN entries |->
     IF x \in DOMAIN entries THEN entries[x] ELSE map[x]]

(* Text tasks: the reveal is a race of clock and click, and a sequence has *)
(* the reveal before the acknowledgement of the story.                     *)

FinishReveal(tasks, winner) ==
  IF tasks.reveal.terminal = None
    THEN [sequence |-> Complete(tasks.sequence, 1, "Completed"),
          reveal |-> Complete(tasks.reveal, winner, "Completed")]
    ELSE tasks

Clock == 1
Click == 2

NewTasks(revealed) ==
  LET new == [sequence |-> NewProgress("Sequence", 2), reveal |-> NewProgress("Race", 2)]
  IN IF revealed THEN FinishReveal(new, Clock) ELSE new

ValidTasks(tasks, revealed) ==
  /\ Valid(tasks.sequence) /\ Valid(tasks.reveal)
  /\ tasks.sequence.terminal = None
  /\ tasks.reveal.terminal = IF revealed THEN "Completed" ELSE None
  /\ Active(tasks.sequence) = {IF revealed THEN 2 ELSE 1}
-------------------------------------------------------------------------------
(* What is shown and what waits *)

(* left: frames, or units of text, still to show; a video ends from        *)
(* outside, and its left stays 0.                                          *)
Entry(command) ==
  LET region == RegionOf[command.target] IN
    [id |-> command.id, fence |-> command.fence,
     left |-> command.length,
     phase |-> IF region = "Video" THEN "Prebuffering" ELSE "None",
     tasks |-> IF region = "Text" THEN NewTasks(command.length = 0) ELSE None]

NewCoordinator ==
  [entry |-> <<>>, queued |-> [r \in Region |-> <<>>],
   fences |-> <<>>, groups |-> <<>>, activated |-> <<>>, failed |-> FALSE]

Shown(c) == DOMAIN c.entry

Busy(c, t) ==
  /\ t \in Shown(c)
  /\ CASE RegionOf[t] = "Text" -> TRUE
       [] RegionOf[t] = "Video" -> c.entry[t].phase \notin {"Ended", "Failed"}
       [] OTHER -> c.entry[t].left > 0

(* members: the commands that a fence waits for, shown or queued.          *)
Places(c) == {<<t, 0>> : t \in Shown(c)}
               \cup UNION {{<<r, i>> : i \in DOMAIN c.queued[r]} : r \in Region}
At(c, p) == IF p[2] = 0 THEN c.entry[p[1]] ELSE c.queued[p[1]][p[2]]
FencedPlaces(c) == {p \in Places(c) : At(c, p).fence # NoFence}
Live(c) == {<<At(c, p).fence, At(c, p).id>> : p \in FencedPlaces(c)}
FencesOf(members) == {m[1] : m \in members}
BatchMembers(batch) ==
  {<<b.fence, b.id>> : b \in {x \in ToSet(batch) : x.fence # NoFence}}

Start(c, command) ==
  [c EXCEPT !.entry = Insert(@, [t \in {command.target} |-> Entry(command)])]

Enqueue(c, command) ==
  [c EXCEPT !.queued[RegionOf[command.target]] = Append(@, command)]

(* Would prepare_<region> take the command?                                *)
Takes(c, command) ==
  Busy(c, command.target) =>
    CASE command.policy = "Queue" -> Len(c.queued[RegionOf[command.target]]) < MaxQueue
      [] command.policy = "Reject" -> FALSE
      [] OTHER -> TRUE

Prepare(c, command) ==
  IF Busy(c, command.target) /\ command.policy = "Queue"
    THEN Enqueue(c, command)
    ELSE Start(c, command)

(* drain_<region>_queue: every command queued is prepared again.           *)
Drain(c, r) ==
  FoldLeft(LAMBDA s, command :
             IF Busy(s, command.target)
               THEN Enqueue(s, command)
               ELSE [Start(s, command) EXCEPT !.activated = Append(@, command.id)],
           [c EXCEPT !.queued[r] = <<>>], c.queued[r])

(* push_activated: the host must take what was activated.                  *)
CheckActivated(c) == [c EXCEPT !.failed = @ \/ Len(c.activated) > MaxQueue]
-------------------------------------------------------------------------------
(* Fences *)

StatusOf(c, f) == IF f \in DOMAIN c.fences THEN c.fences[f] ELSE "Unknown"

SetFences(c, F, status) == [c EXCEPT !.fences = Insert(@, [f \in F |-> status])]

(* validate_commands: members of a pending group, those that have ended    *)
(* too, have different command ids.                                        *)
DistinctMembers(c, batch) ==
  LET taken == Live(c) \cup
        UNION {{<<f, id>> : id \in ToSet(c.groups[f].ids)} :
                 f \in {g \in DOMAIN c.groups : StatusOf(c, g) = "Pending"}}
  IN \A i \in DOMAIN batch : batch[i].fence # NoFence =>
       /\ <<batch[i].fence, batch[i].id>> \notin taken
       /\ \A j \in 1 .. i - 1 :
            <<batch[i].fence, batch[i].id>> # <<batch[j].fence, batch[j].id>>

(* The group of a fence after a batch: a fence no command waits for any    *)
(* more starts a new group, any other keeps the results of its members.    *)
Joined(before, c, batch, f) ==
  LET old == IF f \in FencesOf(Live(before)) THEN before.groups[f].ids ELSE <<>>
      ids == FoldLeft(LAMBDA s, b : IF b.fence # f \/ Contains(s, b.id) THEN s
                                    ELSE Append(s, b.id), old, batch)
      progress ==
        FoldLeftDomain(LAMBDA p, i :
                         IF before.groups[f].progress.members[i] \in Terminal
                           THEN Complete(p, i, before.groups[f].progress.members[i])
                           ELSE p,
                       NewProgress("All", Len(ids)), old)
  IN [ids |-> ids,
      progress |-> IF StatusOf(c, f) = "Failed" THEN CancelProgress(progress) ELSE progress]

CancelGroups(c, F) ==
  [c EXCEPT !.groups = [f \in DOMAIN @ |->
     IF f \in F THEN [@[f] EXCEPT !.progress = CancelProgress(c.groups[f].progress)] ELSE @[f]]]

(* Mutant: a group whose member was replaced waits on. *)
RegisterKeepLost(before, c, batch) ==
  LET affected == FencesOf(BatchMembers(batch))
      fresh == affected \ FencesOf(Live(before))
      named == SetFences(c, fresh, "Pending")
  IN [named EXCEPT !.groups =
        Insert(@, [f \in affected |-> Joined(before, named, batch, f)])]

(* register_fences: `before' is the state the batch found, c the state     *)
(* with its commands in the regions.  A member that is neither shown nor   *)
(* queued afterwards was replaced: its group fails.                        *)
Register(before, c, batch) ==
  LET affected == FencesOf(BatchMembers(batch))
      fresh == affected \ FencesOf(Live(before))
      named == SetFences(c, fresh, "Pending")
      joined == [named EXCEPT !.groups =
                   Insert(@, [f \in affected |-> Joined(before, named, batch, f)])]
      lost == FencesOf((Live(before) \cup BatchMembers(batch)) \ Live(c))
  IN SetFences(CancelGroups(joined, lost), lost, "Failed")

(* finish_fences, for one fence: members no longer shown or queued have    *)
(* completed.                                                              *)
FinishGroup(c, f) ==
  LET group == c.groups[f] IN
    [group EXCEPT !.progress =
       FoldLeftDomain(LAMBDA p, i :
                        IF i \in Active(group.progress) /\ <<f, group.ids[i]>> \notin Live(c)
                          THEN Complete(p, i, "Completed")
                          ELSE p,
                      group.progress, group.ids)]

Candidates(c, F) == {f \in F : StatusOf(c, f) = "Pending" /\ f \in DOMAIN c.groups}

(* The fences that finish_fences returns. *)
Completed(c, F) ==
  {f \in Candidates(c, F) : FinishGroup(c, f).progress.terminal = "Completed"}

FinishFences(c, F) ==
  SetFences([c EXCEPT !.groups = Insert(@, [f \in Candidates(c, F) |-> FinishGroup(c, f)])],
            Completed(c, F), "Completed")

(* validate_fences: what a snapshot must satisfy to be restored.           *)
ValidGroup(c, f) ==
  LET group == c.groups[f]
      active == {group.ids[i] : i \in Active(group.progress)}
      live == {m[2] : m \in {x \in Live(c) : x[1] = f}}
      status == StatusOf(c, f)
  IN /\ Valid(group.progress)
     /\ group.progress.mode = "All"
     /\ Len(group.ids) = Len(group.progress.members)
     /\ Cardinality(ToSet(group.ids)) = Len(group.ids)
     /\ CASE status = "Completed" -> group.progress.terminal = "Completed"
          [] status = "Failed" -> group.progress.terminal = "Cancelled"
          [] status = "Pending" -> active = live /\ group.progress.terminal = None
          [] status = "Unknown" -> FALSE

ValidFences(c) ==
  /\ \A f \in DOMAIN c.groups : ValidGroup(c, f)
  /\ DOMAIN c.fences \subseteq DOMAIN c.groups
  /\ \A m \in Live(c) : StatusOf(c, m[1]) \in {"Pending", "Failed"}
  /\ \A f \in DOMAIN c.fences : c.fences[f] = "Pending" => f \in FencesOf(Live(c))
  /\ Cardinality(Live(c)) = Cardinality(FencedPlaces(c))

(* validate_queues and validate_restored_state.                            *)
Restorable(c) ==
  /\ ~ c.failed
  /\ \A r \in Region :
       /\ Len(c.queued[r]) <= MaxQueue
       /\ \A i \in DOMAIN c.queued[r] :
            RegionOf[c.queued[r][i].target] = r /\ c.queued[r][i].policy = "Queue"
  /\ Len(c.activated) <= MaxQueue
  /\ \A t \in Shown(c) : RegionOf[t] = "Text" => ValidTasks(c.entry[t].tasks, c.entry[t].left = 0)
  /\ ValidFences(c)
-------------------------------------------------------------------------------
(* The calls *)

(* validate_batch, and what each region prepares; a batch is taken as a    *)
(* whole or not at all.                                                    *)
TakesBatch(c, batch) ==
  /\ ~ c.failed
  /\ DistinctMembers(c, batch)
  /\ \A i, j \in DOMAIN batch :
       LET s == batch[i].target  t == batch[j].target IN
         LayerOf[s] = LayerOf[t] /\ LayerOf[s] # NoLayer => RegionOf[s] = RegionOf[t]
  /\ \A i \in DOMAIN batch : Takes(FoldLeft(Prepare, c, SubSeq(batch, 1, i - 1)), batch[i])

ApplyBatch(c, batch) == Register(c, FoldLeft(Prepare, c, batch), batch)

(* Entries that a frame ends, and so takes their fence from.               *)
EndsInFrame(c) ==
  {t \in Shown(c) : RegionOf[t] # "Video" /\ c.entry[t].left <= 1 /\ c.entry[t].fence # NoFence}

(* Mutant: the fence of an entry that ends stays with it. *)
ElapseKeepFence(c) ==
  [c EXCEPT !.entry = [t \in Shown(c) |->
     LET e == c.entry[t] IN
       IF RegionOf[t] = "Video" THEN e
       ELSE [e EXCEPT !.left = IF @ > 0 THEN @ - 1 ELSE 0,
                      !.tasks = IF RegionOf[t] = "Text" /\ e.left <= 1
                                  THEN FinishReveal(@, Clock) ELSE @]]]

Elapse(c) ==
  [c EXCEPT !.entry = [t \in Shown(c) |->
     LET e == c.entry[t] IN
       IF RegionOf[t] = "Video" THEN e
       ELSE [e EXCEPT !.left = IF @ > 0 THEN @ - 1 ELSE 0,
                      !.fence = IF e.left <= 1 THEN NoFence ELSE @,
                      !.tasks = IF RegionOf[t] = "Text" /\ e.left <= 1
                                  THEN FinishReveal(@, Clock) ELSE @]]]

(* tick: time passes in every region, then all queues but that of the text *)
(* are drained, then the fences of what ended are looked at.               *)
DrainInTick(c) == CheckActivated(Drain(Drain(Drain(c, "Character"), "Background"), "Video"))
EndedFences(c) == {c.entry[t].fence : t \in EndsInFrame(c)}
BeforeFinish(c) == DrainInTick(Elapse(c))
TickCoordinator(c) ==
  LET d == BeforeFinish(c) IN IF d.failed THEN d ELSE FinishFences(d, EndedFences(c))
TickCompletes(c) ==
  IF BeforeFinish(c).failed THEN {} ELSE Completed(BeforeFinish(c), EndedFences(c))

(* request_text_advance on a line not yet revealed.                        *)
RevealText(c, t) ==
  LET f == c.entry[t].fence
      e == [c.entry[t] EXCEPT !.left = 0, !.fence = NoFence, !.tasks = FinishReveal(@, Click)]
      d == [c EXCEPT !.entry[t] = e]
  IN IF f = NoFence THEN d ELSE FinishFences(d, {f})

(* acknowledge_story_advance: the line goes and the next one starts.       *)
CanAcknowledge(c, t) ==
  t \in Shown(c) /\ c.entry[t].left = 0 /\ CanComplete(c.entry[t].tasks.sequence, 2)
AcknowledgeText(c, t) ==
  CheckActivated(Drain([c EXCEPT !.entry = [x \in Shown(c) \ {t} |-> c.entry[x]]], "Text"))

StartVideo(c, t) == [c EXCEPT !.entry[t].phase = "Playing"]

(* Mutant: the queue waits for the next frame. *)
EndVideoLater(c, t, phase) ==
  [c EXCEPT !.entry[t] = [@ EXCEPT !.phase = phase, !.fence = NoFence]]

EndVideo(c, t, phase) ==
  CheckActivated(Drain([c EXCEPT !.entry[t] = [@ EXCEPT !.phase = phase, !.fence = NoFence]],
                       "Video"))

CompleteVideo(c, t) ==
  LET d == EndVideo(c, t, "Ended") IN
    IF d.failed \/ c.entry[t].fence = NoFence THEN d ELSE FinishFences(d, {c.entry[t].fence})

(* Mutant: the groups are looked at when they have been finished. *)
CompleteVideoCompletesLate(c, t) == Completed(CompleteVideo(c, t), {c.entry[t].fence})

(* Mutant: each video reports its fence. *)
CompleteVideoCompletesEach(c, t) == {c.entry[t].fence} \ {NoFence}

CompleteVideoCompletes(c, t) ==
  LET d == EndVideo(c, t, "Ended") IN
    IF d.failed \/ c.entry[t].fence = NoFence THEN {} ELSE Completed(d, {c.entry[t].fence})

(* fail_video: the group fails first, then the queue is drained.           *)
FailVideo(c, t) ==
  LET f == c.entry[t].fence
      d == IF f = NoFence THEN c ELSE SetFences(CancelGroups(c, {f}), {f}, "Failed")
  IN EndVideo(d, t, "Failed")

TakeActivated(c) == [c EXCEPT !.activated = <<>>]
===============================================================================
