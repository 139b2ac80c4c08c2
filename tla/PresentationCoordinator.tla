----------------------- MODULE PresentationCoordinator -----------------------
(***************************************************************************)
(* The PresentationCoordinator of the visual novel player: batches of      *)
(* commands from the story, frames, clicks and reports of the video        *)
(* decoder, in any order.                                                  *)
(*                                                                         *)
(* A coordinator is owned by the director and its calls do not overlap; the*)
(* workers of prepare_batch get a region each and the batch is committed   *)
(* when all are done, so a call is one step.                               *)
(***************************************************************************)
EXTENDS PresentationRegions

CONSTANTS
  Fence,
  Batch        \* the sequences of commands the story may send

VARIABLES
  c,           \* the coordinator
  joined, ended, broken  \* history: members of each fence's group, those
                         \* that ended, and fences that lost a member

vars == <<c, joined, ended, broken>>
history == <<joined, ended, broken>>

Commands == UNION {ToSet(b) : b \in Batch}
Ids == {x.id : x \in Commands}

ASSUME BatchesOfCommands ==
  /\ Batch \subseteq Seq(Commands)
  /\ Commands \subseteq [id : Ids, target : Target, policy : Policy,
                         fence : Fence \cup {NoFence}, length : Nat]

(* A command with a fence is not over before it starts: the director gives *)
(* fences to movies only, which end from outside (region_envelope).        *)
ASSUME FencedCommandsTakeTime ==
  \A x \in Commands : x.fence # NoFence => RegionOf[x.target] = "Video" \/ x.length > 0

Init ==
  /\ c = NewCoordinator
  /\ joined = {} /\ ended = {} /\ broken = {}
-------------------------------------------------------------------------------
(* History: what happened to the commands that carry a fence. *)
Of(members, f) == {m \in members : m[1] = f}

(* A batch begins a new group of a fence that nothing waits for. *)
RecordBatch(batch) ==
  LET fresh == FencesOf(BatchMembers(batch)) \ FencesOf(Live(c))
      stale == {m \in joined : m[1] \in fresh}
      lost == FencesOf((Live(c) \cup BatchMembers(batch)) \ Live(c'))
  IN /\ joined' = (joined \ stale) \cup BatchMembers(batch)
     /\ ended' = ended \ (stale \cup BatchMembers(batch))
     /\ broken' = (broken \ fresh) \cup lost

(* Any other call: members end with the entries of targets T.              *)
RecordEnd(T) ==
  LET over == {<<c.entry[t].fence, c.entry[t].id>> : t \in T} IN
    /\ ended' = ended \cup (over \cap Live(c))
    /\ broken' = broken \cup FencesOf((Live(c) \ Live(c')) \ over)
    /\ UNCHANGED joined
-------------------------------------------------------------------------------
ApplyBatchCall ==
  \E batch \in Batch :
    /\ TakesBatch(c, batch)
    /\ c' = ApplyBatch(c, batch)
    /\ RecordBatch(batch)

Tick ==
  /\ ~ c.failed
  /\ c' = TickCoordinator(c)
  /\ RecordEnd(EndsInFrame(c))

RequestTextAdvance ==
  \E t \in Shown(c) :
    /\ ~ c.failed /\ RegionOf[t] = "Text" /\ c.entry[t].left > 0
    /\ c' = RevealText(c, t)
    /\ RecordEnd({t})

AcknowledgeStoryAdvance ==
  \E t \in Shown(c) :
    /\ ~ c.failed /\ RegionOf[t] = "Text" /\ CanAcknowledge(c, t)
    /\ c' = AcknowledgeText(c, t)
    /\ RecordEnd({})

Videos == {t \in Shown(c) : ~ c.failed /\ RegionOf[t] = "Video"}

StartVideoCall ==
  \E t \in Videos :
    /\ c.entry[t].phase = "Prebuffering"
    /\ c' = StartVideo(c, t)
    /\ UNCHANGED history

CompleteVideoCall ==
  \E t \in Videos : c' = CompleteVideo(c, t) /\ RecordEnd({t})

FailVideoCall ==
  \E t \in Videos :
    /\ c' = FailVideo(c, t)
    /\ broken' = broken \cup ({c.entry[t].fence} \ {NoFence})
    /\ UNCHANGED <<joined, ended>>

TakeActivatedCommands ==
  /\ ~ c.failed /\ c.activated # <<>>
  /\ c' = TakeActivated(c)
  /\ UNCHANGED history

Next ==
  \/ ApplyBatchCall \/ Tick \/ TakeActivatedCommands
  \/ RequestTextAdvance \/ AcknowledgeStoryAdvance
  \/ StartVideoCall \/ CompleteVideoCall \/ FailVideoCall

Spec == Init /\ [][Next]_vars
-------------------------------------------------------------------------------
(* Properties *)

(* A fence is Completed when every command that joined its group has       *)
(* ended, Failed when one of them was replaced or its video failed, and    *)
(* Pending until then, over any number of batches that join, of frames     *)
(* and of groups with the same id (register_fences, finish_fences).        *)
FenceTellsTheTruth ==
  ~ c.failed => \A f \in FencesOf(joined) :
    StatusOf(c, f) = CASE f \in broken -> "Failed"
                       [] f \notin broken /\ Of(joined, f) \subseteq ended -> "Completed"
                       [] OTHER -> "Pending"

(* Whatever the calls made of the coordinator, the snapshot taken of it    *)
(* passes validate_restored_state: a game can be loaded from any save.     *)
OwnSnapshotLoads == ~ c.failed => Restorable(c)

(* A queued command has something to wait for: its target is busy, so it   *)
(* is not left behind when a queue is drained (drain_<region>_queue).  A   *)
(* transition without a length that takes the place of another leaves      *)
(* those queued behind it to the next frame.                               *)
TransitionsTakeTime ==
  \A x \in Commands : RegionOf[x.target] \in {"Character", "Background"} => x.length > 0

QueuedBehindActive ==
  ~ c.failed => \A r \in Region : r \in {"Text", "Video"} \/ TransitionsTakeTime =>
    \A i \in DOMAIN c.queued[r] : Busy(c, c.queued[r][i].target)
===============================================================================
