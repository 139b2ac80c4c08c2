----------------------------- MODULE StageDirector -----------------------------
(***************************************************************************)
(* The ProductStageDirector as a value.  A command of a region goes to the *)
(* coordinator first; what starts there is performed at once on the        *)
(* entities, their tweens and the movies, and what must wait is kept until *)
(* the coordinator reports that it was activated.  So the state of a       *)
(* transition is kept twice, as the time left of a region's entry and as a *)
(* tween, and a frame advances one after the other.                        *)
(*                                                                         *)
(* A move's two coordinates are one property here.  Timelines, shakes,     *)
(* presets, easing and coordinates are left out; a camera move stands for  *)
(* everything that is animated outside the regions.                        *)
(***************************************************************************)
EXTENDS PresentationRegions

RegionKind == {"Background", "Show", "Hide", "Move", "Movie"}
Kind == RegionKind \cup {"ClearLayer", "Camera"}

(* region_envelope: a command goes to the region of its kind.              *)
RegionOfKind(kind) ==
  CASE kind = "Background" -> "Background"
    [] kind = "Movie" -> "Video"
    [] OTHER -> "Character"

(* A command of a story; a camera is no entity.                            *)
IsCommand(x) ==
  /\ x \in [kind : Kind, target : {x.target}, policy : Policy, length : Nat,
            fence : {x.fence}, id : {0}]
  /\ x.kind \in RegionKind => x.target \in Target /\ RegionOf[x.target] = RegionOfKind(x.kind)
  /\ x.kind = "Camera" => x.target \notin Target

(* Errors: the four first are assertions of the director about itself.     *)
Assertion == {"QueueState", "QueueDuplicate", "Divergence", "TweenState"}

(* entities: what is on stage; tweens: a function of entity and property;  *)
(* region: queued_region_commands; stage: queued_stage_commands; out: the  *)
(* movies to open, which the caller takes.                                 *)
NewDirector ==
  [c |-> NewCoordinator, entities |-> {}, tweens |-> <<>>, region |-> <<>>,
   stage |-> <<>>, movies |-> <<>>, out |-> <<>>, next |-> 1, error |-> None]

Fail(d, code) == [d EXCEPT !.error = code]

TweensOf(d, targets) == {k \in DOMAIN d.tweens : k[1] \in targets}
DropTweens(d, targets) ==
  [d EXCEPT !.tweens = Restrict(@, DOMAIN @ \ TweensOf(d, targets))]

(* remove from the entities, and cancel_target.                            *)
RemoveEntities(d, targets) ==
  DropTweens([d EXCEPT !.entities = @ \ targets], targets)

(* schedule_tween, for several targets.                                    *)
Schedule(d, targets, property, length, remove) ==
  [d EXCEPT !.tweens =
     Insert(@, [k \in targets \X {property} |-> [left |-> length, remove |-> remove]])]

OnLayer(d, layer) == {e \in d.entities : LayerOf[e] = layer}
-------------------------------------------------------------------------------
(* What a command does when nothing holds it up. *)

Appear(d, command) ==
  LET shown == [d EXCEPT !.entities = @ \cup {command.target}] IN
    IF command.length = 0 THEN shown
    ELSE Schedule(shown, {command.target}, "Opacity", command.length, FALSE)

Vanish(d, targets, length) ==
  IF length = 0 THEN RemoveEntities(d, targets)
  ELSE Schedule(d, targets, "Opacity", length, TRUE)

Travel(d, command) ==
  IF command.length = 0 THEN d
  ELSE Schedule(d, {command.target}, "Position", command.length, FALSE)

OpenMovie(d, command) ==
  LET movie == [layer |-> command.target, id |-> command.id, fence |-> command.fence] IN
    [d EXCEPT !.movies = Insert(@, [l \in {command.target} |-> movie]), !.out = Append(@, movie)]

Perform(d, command) ==
  CASE command.kind \in {"Show", "Background"} -> Appear(d, command)
    [] command.kind = "Hide" /\ command.target \in d.entities ->
         Vanish(d, {command.target}, command.length)
    [] command.kind = "Camera" \/ (command.kind = "Move" /\ command.target \in d.entities) ->
         Travel(d, command)
    [] command.kind = "ClearLayer" ->
         Vanish(d, OnLayer(d, command.target), command.length)
    [] command.kind = "Movie" -> OpenMovie(d, command)
    [] OTHER -> Fail(d, "UnknownEntity")

(* interrupt_targets *)
Targets(d, command) ==
  CASE command.kind \in {"Background", "Show", "Hide", "Move"} -> {command.target}
    [] command.kind = "ClearLayer" -> OnLayer(d, command.target)
    [] OTHER -> {}

(* SnapThenStart: what was fading out is gone. *)
Snap(d, targets) ==
  RemoveEntities(DropTweens(d, targets),
                 {k[1] : k \in {x \in TweensOf(d, targets) : d.tweens[x].remove}})

(* apply_inner, after prepare_interrupt: a command that meets a running    *)
(* tween.  The coordinator has made those of a region wait already.        *)
Apply(d, command) ==
  LET targets == Targets(d, command) IN
    CASE d.error # None -> d
      [] d.error = None /\ TweensOf(d, targets) = {} -> Perform(d, command)
      [] d.error = None /\ TweensOf(d, targets) # {} ->
           CASE command.policy = "ReplaceFromCurrent" -> Perform(DropTweens(d, targets), command)
             [] command.policy = "SnapThenStart" -> Perform(Snap(d, targets), command)
             [] command.policy = "Reject" -> Fail(d, "Rejected")
             [] command.policy = "Queue" ->
                  IF command.kind \in RegionKind THEN Fail(d, "Divergence")
                  ELSE IF Len(d.stage) < MaxQueue THEN [d EXCEPT !.stage = Append(@, command)]
                  ELSE Fail(d, "QueueLimit")

(* One command of prepare_batch. *)
Envelope(d, command) ==
  [id |-> d.next, target |-> command.target, policy |-> command.policy,
   fence |-> IF command.kind = "Movie" THEN command.fence ELSE NoFence,
   length |-> IF command.kind = "Movie" THEN 0 ELSE command.length]

Present(d, command) ==
  LET envelope == Envelope(d, command)
      named == [command EXCEPT !.id = d.next]
      sent == [d EXCEPT !.c = ApplyBatch(@, <<envelope>>), !.next = @ + 1]
  IN CASE d.error # None -> d
       [] d.error = None /\ command.kind \notin RegionKind -> Apply(d, command)
       [] d.error = None /\ command.kind \in RegionKind ->
            IF command.kind \in {"Hide", "Move"} /\ command.target \notin d.entities
              THEN Fail(d, "UnknownEntity")
            ELSE IF ~ TakesBatch(d.c, <<envelope>>) THEN Fail(d, "Refused")
            ELSE IF ~ (Busy(d.c, command.target) /\ command.policy = "Queue")
              THEN Apply(sent, named)
            ELSE IF d.next \in DOMAIN d.region THEN Fail(d, "QueueDuplicate")
            ELSE [sent EXCEPT !.region = Insert(@, [id \in {d.next} |-> named])]

(* validate_state: every tween belongs to an entity.                       *)
Validate(d) ==
  IF d.error = None /\ \E k \in DOMAIN d.tweens : k[1] \in Target \ d.entities
    THEN Fail(d, "TweenState") ELSE d

PrepareBatch(d, batch) == Validate(FoldLeft(Present, d, batch))

(* configure_text: a new line takes the place of the one that is shown.    *)
ConfigureText(d, target, length) ==
  [d EXCEPT !.next = @ + 1,
     !.c = ApplyBatch(@, <<[id |-> d.next, target |-> target, fence |-> NoFence,
                            policy |-> "ReplaceFromCurrent", length |-> length]>>)]
-------------------------------------------------------------------------------
(* A frame *)

(* requires_frame_tick: nothing else is advanced by a frame, and without   *)
(* it there is none.                                                       *)
RequiresFrameTick(d) ==
  \/ DOMAIN d.tweens # {}
  \/ \E t \in Shown(d.c) : RegionOf[t] = "Text" /\ d.c.entry[t].left > 0

(* Mutant: a tween lasts one frame longer than the entry of its region.    *)
AdvanceTweensLate(d) ==
  LET over == {k \in DOMAIN d.tweens : d.tweens[k].left = 0}
      left == [k \in DOMAIN d.tweens \ over |-> [d.tweens[k] EXCEPT !.left = @ - 1]]
  IN RemoveEntities([d EXCEPT !.tweens = left], {k[1] : k \in {x \in over : d.tweens[x].remove}})

(* advance_tweens *)
AdvanceTweens(d) ==
  LET over == {k \in DOMAIN d.tweens : d.tweens[k].left = 1}
      left == [k \in DOMAIN d.tweens \ over |-> [d.tweens[k] EXCEPT !.left = @ - 1]]
  IN RemoveEntities([d EXCEPT !.tweens = left], {k[1] : k \in {x \in over : d.tweens[x].remove}})

(* A command the coordinator activated. *)
Activate(d, id) ==
  CASE d.error # None -> d
    [] d.error = None /\ id \notin DOMAIN d.region -> Fail(d, "QueueState")
    [] d.error = None /\ id \in DOMAIN d.region ->
         Apply([d EXCEPT !.region = Restrict(@, DOMAIN @ \ {id})], d.region[id])

TickStage(d) ==
  LET advanced == Validate(AdvanceTweens(d))
      ticked == [advanced EXCEPT !.c = TickCoordinator(@)]
      activated == FoldLeft(Activate, [ticked EXCEPT !.c = TakeActivated(@)], ticked.c.activated)
  IN CASE advanced.error # None -> advanced
       [] advanced.error = None /\ ticked.c.failed -> Fail(ticked, "ActivationLimit")
       [] advanced.error = None /\ ~ ticked.c.failed ->
            FoldLeft(Apply, [activated EXCEPT !.stage = <<>>], activated.stage)

(* The fences a frame completes. *)
StageCompletes(d) == TickCompletes(Validate(AdvanceTweens(d)).c)
===============================================================================
