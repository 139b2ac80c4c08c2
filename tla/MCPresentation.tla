---------------------------- MODULE MCPresentation ----------------------------
(* A character, a background, the line and a movie, two fences, and        *)
(* commands of each policy that join them alone or in pairs.               *)
EXTENDS PresentationCoordinator

MCTargets == {"hero", "room", "line", "film"}
MCRegionOf == [t \in MCTargets |->
  CASE t = "hero" -> "Character" [] t = "room" -> "Background"
    [] t = "line" -> "Text" [] t = "film" -> "Video"]
MCLayerOf == [t \in MCTargets |-> IF t = "line" THEN "none" ELSE t]

Command(id, target, policy, fence, length) ==
  [id |-> id, target |-> target, policy |-> policy, fence |-> fence, length |-> length]

Walk == Command("walk", "hero", "Queue", "f", 1)
Turn == Command("turn", "hero", "ReplaceFromCurrent", "none", 2)
Dusk == Command("dusk", "room", "Reject", "f", 1)
Say == Command("say", "line", "Queue", "g", 1)
Film == Command("film", "film", "Queue", "f", 0)
Coda == Command("coda", "film", "Queue", "g", 0)

MCBatches == {<<Walk, Dusk>>, <<Turn>>, <<Say>>, <<Film, Coda>>}
===============================================================================
