-------------------------- MODULE PlayerPresentation --------------------------
(***************************************************************************)
(* The presentation of a visual novel in the Player: the story sends       *)
(* batches of commands and then waits for a click, a movie or a fence; the *)
(* pump of 60 frames a second ticks the director and lets the media host   *)
(* process; the player of the game clicks, saves and loads at any moment.  *)
(*                                                                         *)
(* One task owns the director and the media host.  A frame, an input and   *)
(* each turn of the media host's loop are steps, and after an input the    *)
(* loop always runs; after a frame it runs when something is active.       *)
(***************************************************************************)
EXTENDS StageDirector

CONSTANTS
  Script,      \* the stories: sequences of steps, a step being a batch and a wait
  Line,        \* the text target
  Audible,     \* is music playing all the time?
  QuietSaves,  \* are saves made only when nothing is on its way?
  MaxLoads     \* bound: how often a saved game is loaded

ASSUME StoriesWaitAtTheEnd ==
  /\ \A s \in Script : Len(s) \in Nat \ {0} /\ s[Len(s)].wait.kind = "Dialogue"
  /\ Audible \in BOOLEAN /\ QuietSaves \in BOOLEAN /\ MaxLoads \in Nat

(* What a story is made of, after the compiler.                            *)
ASSUME LineIsText == Line \in Target /\ RegionOf[Line] = "Text"

ASSUME StoriesOfCommands ==
  \A s \in Script : \A n \in 1 .. Len(s) :
    /\ s[n].commands \in Seq(ToSet(s[n].commands))
    /\ \A x \in ToSet(s[n].commands) : IsCommand(x)
    /\ s[n].wait.kind \in {"Dialogue", "MovieEnd", "Fence"}
    /\ s[n].wait.kind = "Dialogue" => s[n].wait.length \in Nat

VARIABLES
  director,     \* stage_director
  script, sent, \* the story and how many of its steps are done
  wait,         \* pending_wait
  requests,     \* pending_video
  scope,        \* video_scopes: the request of a layer that is not cancelled, or 0
  completions,  \* pending_stage_completions
  streams,      \* active_videos of the media host
  signals,      \* completed_signals of the media host
  turn,         \* who runs next: the media host's loop, or whoever comes
  failed,       \* the session ended with an error
  saved, loads  \* the slot, and how often it was loaded

story == <<script, sent, wait>>
slot == <<saved, loads>>
playerVars ==
  <<director, story, requests, scope, completions, streams, signals, turn, failed, slot>>

VideoLayer == {t \in Target : RegionOf[t] = "Video"}
IsLive(movie) == scope[movie.layer] = movie.id
Waiting == wait.kind \in {"MovieEnd", "Fence"}

PlayerInit ==
  /\ script \in Script
  /\ director = NewDirector
  /\ sent = 0 /\ wait = [kind |-> "Launch"]
  /\ requests = {} /\ scope = [l \in VideoLayer |-> 0]
  /\ completions = {} /\ streams = {} /\ signals = {}
  /\ turn = "idle" /\ failed = FALSE
  /\ saved = <<>> /\ loads = 0
-------------------------------------------------------------------------------
(* Mutant: a new request leaves the one before it alone. *)
CommitKeepScope(next, kept) ==
  /\ director' = [next EXCEPT !.out = <<>>]
  /\ requests' = kept \cup ToSet(next.out)
  /\ scope' = FoldLeft(LAMBDA s, m : [s EXCEPT ![m.layer] = IF @ = 0 THEN m.id ELSE @],
                       scope, next.out)

(* Take the movies the director put out: a request cancels the one before. *)
Commit(next, kept) ==
  /\ director' = [next EXCEPT !.out = <<>>]
  /\ requests' = kept \cup ToSet(next.out)
  /\ scope' = FoldLeft(LAMBDA s, m : [s EXCEPT ![m.layer] = m.id], scope, next.out)

(* The session ends; what the step prepared is not committed.              *)
End(error) ==
  /\ failed' = TRUE
  /\ director' = [director EXCEPT !.error = error]
  /\ UNCHANGED <<requests, scope>>

(* The story runs to its next wait; `now' is the director at that moment.  *)
(* The fence waited for must not be Failed, before the batch or after it.  *)
StepStory(now, kept) ==
  /\ sent < Len(script)
  /\ sent' = sent + 1 /\ wait' = script[sent'].wait
  /\ UNCHANGED script
  /\ \E ready \in {IF wait'.kind = "Dialogue" THEN ConfigureText(now, Line, wait'.length) ELSE now} :
     \E next \in {PrepareBatch(ready, script[sent'].commands)} :
       IF \E x \in {ready, next} : wait'.kind # "Dialogue" /\ StatusOf(x.c, wait'.fence) = "Failed"
         THEN End("FenceFailed")
       ELSE IF next.error # None THEN End(next.error)
       ELSE Commit(next, kept) /\ UNCHANGED failed

Launch ==
  /\ wait.kind = "Launch"
  /\ StepStory(director, {})
  /\ turn' = "process"
  /\ UNCHANGED <<completions, streams, signals, slot>>

MediaActive == Audible \/ streams # {}

(* A due step of the pump: tick_presentation, and the loop if it is due.   *)
Frame ==
  /\ turn = "idle" /\ ~ failed /\ wait.kind # "Launch"
  /\ turn' = IF MediaActive THEN "process" ELSE "idle"
  /\ IF ~ RequiresFrameTick(director)
       THEN UNCHANGED <<director, requests, scope, completions, failed>>
       ELSE \E next \in {TickStage(director)} :
         IF next.error # None
           THEN End(next.error) /\ UNCHANGED completions
           ELSE /\ Commit(next, requests)
                /\ completions' = completions \cup StageCompletes(director)
                /\ UNCHANGED failed
  /\ UNCHANGED <<story, streams, signals, slot>>
-------------------------------------------------------------------------------
(* The media host *)

(* start_video for each stream that shows a frame.                         *)
CanShow(playing) ==
  \A s \in playing :
    /\ s.layer \in Shown(director.c)
    /\ director.c.entry[s.layer].phase \in {"Prebuffering", "Playing"}
ShowFrames(playing) ==
  LET started == {s.layer : s \in playing}
      shown == director.c.entry
  IN [director.c EXCEPT !.entry = [t \in DOMAIN shown |->
        IF t \in started THEN [shown[t] EXCEPT !.phase = "Playing"] ELSE shown[t]]]

(* complete_video_fence for the streams that end and have a fence, one    *)
(* after the other.                                                        *)
EndStream(x, s) ==
  [c |-> CompleteVideo(x.c, s.layer),
   done |-> x.done \cup CompleteVideoCompletes(x.c, s.layer)]

EndStreams(c, ends) ==
  FoldLeft(EndStream, [c |-> c, done |-> {}], SetToSeq({s \in ends : s.fence # NoFence}))

(* One turn of the loop: cancelled streams go, requests are opened and     *)
(* show their first frame, completions become signals, streams show a      *)
(* frame or end, and the story goes on when its signal is there.  What     *)
(* ends now is a signal in the next turn only.                             *)
Process(ends) ==
  LET playing == {s \in streams : IsLive(s)}
      opened == {r \in requests : IsLive(r)}
      heard == signals \cup completions
  IN /\ turn = "process" /\ ~ failed
     /\ ends \subseteq playing
     /\ streams' = (playing \cup opened) \ ends
     /\ \E over \in {EndStreams(ShowFrames(playing \cup opened), ends)} :
          IF ~ CanShow(playing \cup opened) \/ over.c.failed
            THEN End("Video") /\ UNCHANGED <<completions, signals, turn, story>>
            ELSE /\ completions' = over.done
                 /\ IF Waiting /\ wait.fence \in heard
                      THEN /\ signals' = heard \ {wait.fence}
                           /\ StepStory([director EXCEPT !.c = over.c], {})
                           /\ UNCHANGED turn
                      ELSE /\ signals' = heard
                           /\ turn' = "idle"
                           /\ director' = [director EXCEPT !.c = over.c]
                           /\ requests' = {}
                           /\ UNCHANGED <<scope, failed, story>>
     /\ UNCHANGED slot

ProcessSome == \E ends \in SUBSET streams : Process(ends)
EveryStreamEnds == streams # {} /\ Process({s \in streams : IsLive(s)})
-------------------------------------------------------------------------------
(* The player of the game; after each input the media host's loop runs.    *)

Input == turn = "idle" /\ ~ failed /\ wait.kind # "Launch" /\ turn' = "process"

(* The movie of the wait, when its request is not cancelled.               *)
Skippable ==
  {m \in {director.movies[l] : l \in DOMAIN director.movies} :
     wait.kind = "MovieEnd" /\ m.fence = wait.fence /\ scope[m.layer] # 0}

(* skip_waiting_video *)
SkipMovie ==
  \E m \in Skippable : \E c \in {CompleteVideo(director.c, m.layer)} :
    /\ Input
    /\ IF m.layer \notin Shown(director.c) \/ c.failed
         THEN End("Video") /\ UNCHANGED completions
         ELSE /\ director' = [director EXCEPT !.c = c]
              /\ completions' = completions \cup CompleteVideoCompletes(director.c, m.layer)
              /\ scope' = [scope EXCEPT ![m.layer] = 0]
              /\ requests' = {r \in requests : r.layer # m.layer}
              /\ UNCHANGED failed
    /\ UNCHANGED <<story, streams, signals, slot>>

LineShown == Line \in Shown(director.c)

(* The first click shows the whole line. *)
RevealLine ==
  /\ Input /\ Skippable = {}
  /\ LineShown /\ director.c.entry[Line].left > 0
  /\ director' = [director EXCEPT !.c = RevealText(@, Line)]
  /\ UNCHANGED <<story, requests, scope, completions, streams, signals, failed, slot>>

(* The next one acknowledges it, and the story goes on.                    *)
AdvanceStory ==
  /\ Input /\ wait.kind = "Dialogue"
  /\ LineShown /\ CanAcknowledge(director.c, Line)
  /\ \E c \in {AcknowledgeText(director.c, Line)} :
       IF c.failed
         THEN End("ActivationLimit") /\ UNCHANGED story
         ELSE StepStory([director EXCEPT !.c = c], requests)
  /\ UNCHANGED <<completions, streams, signals, slot>>

Save ==
  /\ Input /\ loads < MaxLoads
  /\ QuietSaves => completions = {} /\ requests = {}
  /\ saved' = <<[director |-> director, sent |-> sent, wait |-> wait, streams |-> streams, signals |-> signals]>>
  /\ UNCHANGED <<director, story, requests, scope, completions, streams, signals, failed, loads>>

(* Requests and completions of the session that was left are cleared; the  *)
(* saved streams are opened again.  A session that failed is left this way *)
(* too, by the program started again.                                      *)
Load ==
  /\ turn = "idle" \/ failed
  /\ turn' = "process"
  /\ saved # <<>> /\ loads < MaxLoads
  /\ loads' = loads + 1
  /\ director' = saved[1].director /\ sent' = saved[1].sent /\ wait' = saved[1].wait
  /\ streams' = saved[1].streams /\ signals' = saved[1].signals
  /\ scope' = [l \in VideoLayer |-> IF \E s \in saved[1].streams : s.layer = l
                                      THEN (CHOOSE s \in saved[1].streams : s.layer = l).id ELSE 0]
  /\ requests' = {} /\ completions' = {} /\ failed' = FALSE
  /\ UNCHANGED <<script, saved>>

PlayerNext ==
  \/ Launch \/ Frame \/ ProcessSome
  \/ SkipMovie \/ RevealLine \/ AdvanceStory \/ Save \/ Load

(* When a step that changes the state is due. *)
FrameDue ==
  turn = "idle" /\ ~ failed /\ wait.kind # "Launch" /\ (MediaActive \/ RequiresFrameTick(director))
ProcessDue == turn = "process" /\ ~ failed

(* The story is launched, the loop comes to its end and the pump runs: WF, *)
(* that of a Frame with its guard in place of ENABLED.  And a video has an *)
(* end: SF in the same form.                                               *)
Fairness ==
  /\ WF_sent(wait.kind = "Launch" /\ sent' = sent + 1)
  /\ WF_turn(ProcessDue /\ turn' = "idle")
  /\ []<>(~ FrameDue) \/ []<><<Frame>>_playerVars
  /\ <>[](~ ProcessDue \/ streams = {}) \/ []<><<EveryStreamEnds>>_playerVars

PlayerSpec == PlayerInit /\ [][PlayerNext]_playerVars
LiveSpec == PlayerSpec /\ Fairness
-------------------------------------------------------------------------------
(* Properties *)

(* A command of a region is queued on a layer that fades out: the tweens   *)
(* of ClearLayer are unknown to the coordinator.                           *)
QueuedOnFade ==
  \E m, n \in 1 .. sent :
    \E fade \in ToSet(script[m].commands), command \in ToSet(script[n].commands) :
      /\ fade.kind = "ClearLayer" /\ fade.length > 0
      /\ command.kind \in RegionKind /\ command.policy = "Queue"
      /\ LayerOf[command.target] = fade.target

(* The assertions the director makes about itself never fire but for one   *)
(* case: a command the coordinator activates was kept, once, and nothing   *)
(* moves its target any more, except a layer that fades out, whatever is   *)
(* queued, replaced or removed meanwhile (tick_committed, prepare_batch,   *)
(* prepare_interrupt).                                                     *)
AssertionsHold ==
  director.error \in Assertion => director.error = "Divergence" /\ QueuedOnFade

(* The movies of step n of story s on layer l, by their place in the batch,*)
(* and those of them that are queued behind a movie of the layer.          *)
FilmsOf(s, n, l) ==
  {i \in DOMAIN s[n].commands : s[n].commands[i].kind = "Movie" /\ s[n].commands[i].target = l}
QueuedFilms(s, n, l) ==
  {i \in FilmsOf(s, n, l) :
     /\ s[n].commands[i].policy = "Queue"
     /\ \E m \in 1 .. n : \E j \in FilmsOf(s, m, l) : m < n \/ j < i}

(* A movie of a later step follows one that was queued behind another: the *)
(* queued one is activated when the other ends, but opened by the next     *)
(* frame, and takes the scope from a movie that came in between.           *)
FilmAfterQueued(s, n, l) ==
  \E m, k \in 1 .. n : m < k /\ QueuedFilms(s, m, l) # {} /\ FilmsOf(s, k, l) # {}

(* A stream whose request is not cancelled belongs to the video its layer  *)
(* shows, so no frame and no end of an old stream reaches a newer video    *)
(* (validate_video_request, replace_video_scope), but for that case.       *)
StreamIsCurrent ==
  ~ failed => \A s \in streams \cup requests : IsLive(s) =>
    \/ s.layer \in Shown(director.c) /\ director.c.entry[s.layer].id = s.id
    \/ FilmAfterQueued(script, sent, s.layer)

(* When the group the story waits for has completed, its completion is on  *)
(* the way to the story and not lost between director, host and save.      *)
CompletionReachesStory ==
  ~ failed /\ Waiting /\ StatusOf(director.c, wait.fence) = "Completed" =>
    wait.fence \in completions \cup signals

(* The story goes on from the wait for a fence only when its group has     *)
(* completed: no member, no older group and no other wait releases it.     *)
WaitReleasedByItsGroup ==
  [][Waiting /\ sent' = sent + 1 => StatusOf(director.c, wait.fence) = "Completed"]_playerVars

(* A wait ends, in the next step of the story or with the session, without *)
(* a click, if music keeps the loop running and no queued movie is held    *)
(* up: frames, streams and signals carry it there.                         *)
WaitIsReleased ==
  \A n \in 1 .. Max({Len(s) : s \in Script}) :
    Waiting /\ sent = n ~> ~ Waiting \/ sent # n \/ failed \/ director.c.activated # <<>>

(* A movie that waited for the one before it starts when that has ended.   *)
QueuedMovieStarts == director.c.activated # <<>> ~> director.c.activated = <<>> \/ failed
===============================================================================
