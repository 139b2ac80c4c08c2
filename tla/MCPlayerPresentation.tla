------------------------- MODULE MCPlayerPresentation -------------------------
(* A hero, a room, a line of text and two layers of video.                 *)
EXTENDS PlayerPresentation

MCTargets == {"hero", "room", "line", "film", "snow"}
MCRegionOf == [t \in MCTargets |->
  CASE t = "hero" -> "Character" [] t = "room" -> "Background"
    [] t = "line" -> "Text" [] OTHER -> "Video"]
MCLayerOf == [t \in MCTargets |-> IF t = "line" THEN "none" ELSE t]

Do(kind, target, policy, length) ==
  [kind |-> kind, target |-> target, policy |-> policy, length |-> length,
   fence |-> "none", id |-> 0]
Film(layer, policy, fence) == [Do("Movie", layer, policy, 0) EXCEPT !.fence = fence]
Talk(length) == [kind |-> "Dialogue", length |-> length]
For(kind, fence) == [kind |-> kind, fence |-> fence]
Then(commands, until) == [commands |-> commands, wait |-> until]

Enter == Do("Show", "hero", "Queue", 2)
Walk == Do("Move", "hero", "Queue", 1)
Leave == Do("Hide", "hero", "SnapThenStart", 1)
Turn == Do("Move", "hero", "ReplaceFromCurrent", 2)
Dusk == Do("Background", "room", "Reject", 1)
Pan == Do("Camera", "camera", "Queue", 1)
Fade == Do("ClearLayer", "room", "Queue", 1)
Dawn == Do("Background", "room", "Queue", 1)

(* A walk-on with everything queued; a group of two films that loses one   *)
(* to another film; films queued on their layer; a wait for a group of two *)
(* films, and the camera moved twice; a room that comes back while it may  *)
(* still fade out.                                                         *)
MCScripts == {
  <<Then(<<Enter, Walk, Dusk>>, Talk(1)),
    Then(<<Film("film", "Queue", "f"), Fade, Turn>>, For("MovieEnd", "f")),
    Then(<<Leave, Pan>>, Talk(0))>>,
  <<Then(<<Film("film", "Queue", "f"), Film("snow", "Queue", "f")>>, Talk(0)),
    Then(<<Film("film", "ReplaceFromCurrent", "g"), Enter>>, For("MovieEnd", "g")),
    Then(<<Walk, Dusk>>, Talk(1))>>,
  <<Then(<<Film("film", "Queue", "f"), Film("film", "Queue", "g"), Enter>>, For("Fence", "f")),
    Then(<<Film("snow", "Queue", "h")>>, For("Fence", "g")),
    Then(<<Pan>>, Talk(0))>>,
  <<Then(<<Film("film", "Queue", "f"), Film("snow", "Queue", "f"), Pan>>, For("MovieEnd", "f")),
    Then(<<Pan, Film("snow", "Reject", "g"), Enter, Walk, Turn>>, For("Fence", "g")),
    Then(<<Leave>>, Talk(2))>>,
  <<Then(<<Dusk, Film("film", "Queue", "f")>>, Talk(0)),
    Then(<<Fade>>, For("Fence", "f")),
    Then(<<Dawn>>, Talk(0))>>}

(* Two films one after the other, with nothing else on stage.              *)
MCQueued == {
  <<Then(<<Film("film", "Queue", "f"), Film("film", "Queue", "g")>>, For("Fence", "g")),
    Then(<<>>, Talk(0))>>}
===============================================================================
