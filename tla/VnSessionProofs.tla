---------------------------- MODULE VnSessionProofs ----------------------------
(***************************************************************************)
(* The waits of a session: every wait that the story holds has a token of  *)
(* its own, and the session accepts its own save between any two steps,    *)
(* for every script that does not forbid skipping, every set of pages and  *)
(* every bound.  First the waits and tokens, as long as a run allows       *)
(* skipping; then where the story is, and saves; last, for a story that    *)
(* has a plan, that the session keeps to it and no step of it fails.       *)
(***************************************************************************)
EXTENDS VnSession, FiniteSetTheorems, SequenceTheorems, TLAPS

--------------------------------------------------------------------------------
(* The invariant *)

Framed(f) == f \in Seq({f[i] : i \in DOMAIN f})

(* The fields that the waits of a story depend on. *)
Fields(s) == {"wait", "frames", "allowed"} \subseteq DOMAIN s

(* A wait in a frame has a pending token that no other wait has; the wait  *)
(* in front may have none yet.                                             *)
Under(s, i) == s.frames[i].wait

FramesBound(s, pending) ==
  \A i \in DOMAIN s.frames : Under(s, i) # None => Under(s, i).token \in pending
FramesDiffer(s) ==
  \A i, j \in DOMAIN s.frames :
    Under(s, i) # None /\ Under(s, j) # None /\ Under(s, i).token = Under(s, j).token => i = j
FrontDiffers(s) ==
  \A i \in DOMAIN s.frames :
    Under(s, i) # None /\ s.wait # None => Under(s, i).token # s.wait.token
FrontBound(s, pending) ==
  s.wait # None => \/ s.wait.token \in pending
                   \/ s.wait.token = None /\ "token" \in DOMAIN s.wait

Sound(s, pending) ==
  /\ Fields(s)
  /\ Framed(s.frames)
  /\ FramesBound(s, pending) /\ FramesDiffer(s)
  /\ FrontBound(s, pending) /\ FrontDiffers(s)

(* Nothing the story comes back to has this token. *)
Gone(token, s) == \A w \in Held(s) : w.token # token

(* What a step remembers stays true of the story it changes: the wait it   *)
(* started from was bound, the wait it answers is no longer held, and only *)
(* the policy action has the token of the policy action.                   *)
Remembers ==
  /\ step = [prior |-> step.prior, token |-> step.token, resolves |-> step.resolves,
              action |-> step.action, fuel |-> step.fuel]
  /\ step.prior # None => step.prior.token # None
  /\ step.resolves => step.prior # None /\ Gone(step.prior.token, story)
  /\ policy.source # None =>
       \A w \in Held(story) : w.token # None /\ w.token = step.token => w.command = policy.source

IInv ==
  /\ IsFiniteSet(tokens) /\ tokens \subseteq Nat
  /\ "source" \in DOMAIN policy
  /\ Sound(story, tokens)
  /\ IF step = None THEN Ready /\ story.wait # None => story.wait.token # None ELSE Remembers

(* None is not what a step remembers, as it is not in a model. *)
NoneIsNoStep ==
  \A prior, token, resolves, action, fuel :
    None # [prior |-> prior, token |-> token, resolves |-> resolves,
            action |-> action, fuel |-> fuel]

--------------------------------------------------------------------------------
(* What a command or the interpreter may do to the waits of a story *)

Keeps(r, s) == Fields(r) /\ r.frames = s.frames /\ r.wait = s.wait
Blocks(r, s) ==
  /\ Fields(r) /\ r.frames = s.frames
  /\ r.wait # None => r.wait.token = None /\ "token" \in DOMAIN r.wait
Closes(r) == Fields(r) /\ r.frames = <<>> /\ r.wait = None
Opens(r, s) ==
  /\ Fields(r) /\ r.wait = None
  /\ \E frame : frame.wait = s.wait /\ r.frames = Append(s.frames, frame)
Pops(r, s) ==
  /\ Fields(r) /\ s.frames # <<>>
  /\ r.frames = SubSeq(s.frames, 1, Len(s.frames) - 1)
  /\ r.wait = Under(s, Len(s.frames))

Changes(r, s) ==
  \/ Keeps(r, s) \/ Blocks(r, s) \/ Closes(r) \/ Pops(r, s)
  \/ Opens(r, s) /\ (s.wait # None => s.wait.token # None)

(* A sequence is one whatever set its elements are taken from. *)
LEMMA SequenceIsFramed ==
  ASSUME NEW S, NEW f \in Seq(S)
  PROVE  Framed(f)
<1>1. f \in [1 .. Len(f) -> S] /\ Len(f) \in Nat  BY LenProperties
<1>2. f \in [1 .. Len(f) -> {f[i] : i \in DOMAIN f}]  BY <1>1
<1> QED  BY <1>1, <1>2, SeqDef DEF Framed

(* A change that keeps the frames and keeps or blocks the front. *)
LEMMA BlocksSound ==
  ASSUME NEW pending, NEW r, NEW s, Sound(s, pending), None \notin pending,
         Keeps(r, s) \/ Blocks(r, s)
  PROVE  Sound(r, pending)
<1> USE DEF Sound, Under, FramesBound, FramesDiffer, FrontBound, FrontDiffers
<1>1. CASE Keeps(r, s)  BY <1>1 DEF Keeps
<1>2. CASE Blocks(r, s)  BY <1>2 DEF Blocks
<1> QED  BY <1>1, <1>2

LEMMA ClosesSound ==
  ASSUME NEW pending, NEW r, Closes(r)
  PROVE  Sound(r, pending)
<1>1. Framed(<<>>)  BY EmptySeq, SequenceIsFramed
<1> QED  BY <1>1 DEF Closes, Sound, Under, FramesBound, FramesDiffer, FrontBound, FrontDiffers

(* The frames of a story with one more. *)
LEMMA FrameAppended ==
  ASSUME NEW frames, NEW frame, Framed(frames)
  PROVE  LET n == Len(frames)
             more == Append(frames, frame)
         IN  /\ n \in Nat /\ DOMAIN frames = 1 .. n /\ DOMAIN more = 1 .. n + 1
             /\ Framed(more)
             /\ \A i \in 1 .. n : more[i] = frames[i]
             /\ more[n + 1] = frame
<1> DEFINE S == {frames[i] : i \in DOMAIN frames}
           n == Len(frames)
           more == Append(frames, frame)
<1>1. frames \in Seq(S)  BY DEF Framed
<1>2. frames \in Seq(S \cup {frame})  BY <1>1, SeqMonotonic
<1>3. /\ more \in Seq(S \cup {frame}) /\ n \in Nat
      /\ DOMAIN frames = 1 .. n /\ DOMAIN more = 1 .. n + 1
      /\ \A i \in 1 .. n : more[i] = frames[i]
      /\ more[n + 1] = frame
  BY <1>1, <1>2, AppendProperties, LenProperties
<1>4. Framed(more)  BY <1>3, SequenceIsFramed
<1> QED  BY <1>3, <1>4

LEMMA OpensSound ==
  ASSUME NEW pending, NEW r, NEW s, Sound(s, pending), None \notin pending,
         Opens(r, s), s.wait # None => s.wait.token # None
  PROVE  /\ Sound(r, pending)
         /\ \A i \in DOMAIN r.frames :
              Under(r, i) = s.wait \/ (i \in DOMAIN s.frames /\ Under(r, i) = Under(s, i))
<1> DEFINE n == Len(s.frames)
<1>1. PICK frame : frame.wait = s.wait /\ r.frames = Append(s.frames, frame)  BY DEF Opens
<1>2. /\ n \in Nat
      /\ DOMAIN s.frames = 1 .. n /\ DOMAIN r.frames = 1 .. n + 1
      /\ Framed(r.frames)
      /\ \A i \in 1 .. n : r.frames[i] = s.frames[i]
      /\ r.frames[n + 1] = frame
  BY <1>1, FrameAppended DEF Sound
<1> HIDE DEF n
<1>5. \A i \in 1 .. n : Under(r, i) = Under(s, i)  BY <1>2 DEF Under
<1>6. Under(r, n + 1) = s.wait  BY <1>1, <1>2 DEF Under
<1>7. \A i \in DOMAIN r.frames : i \in 1 .. n \/ i = n + 1  BY <1>2
<1>8. FramesBound(r, pending)
  BY <1>2, <1>5, <1>6, <1>7 DEF Sound, FramesBound, FrontBound
<1>9. FramesDiffer(r)
  BY <1>2, <1>5, <1>6, <1>7 DEF Sound, FramesDiffer, FrontDiffers
<1> QED  BY <1>2, <1>5, <1>6, <1>7, <1>8, <1>9 DEF Sound, Opens, FrontBound, FrontDiffers

LEMMA PopsSound ==
  ASSUME NEW pending, NEW r, NEW s, Sound(s, pending), None \notin pending, Pops(r, s)
  PROVE  /\ Sound(r, pending)
         /\ Len(s.frames) \in DOMAIN s.frames
         /\ \A i \in DOMAIN r.frames : i \in DOMAIN s.frames /\ Under(r, i) = Under(s, i)
<1> DEFINE S == {s.frames[i] : i \in DOMAIN s.frames}
           n == Len(s.frames)
<1>1. s.frames \in Seq(S) /\ s.frames # <<>>  BY DEF Sound, Framed, Pops
<1>2. n \in Nat \ {0} /\ DOMAIN s.frames = 1 .. n  BY <1>1, LenProperties, EmptySeq
<1>3. r.frames = SubSeq(s.frames, 1, n - 1)  BY DEF Pops
<1>4. /\ r.frames \in Seq(S) /\ DOMAIN r.frames = 1 .. n - 1
      /\ \A i \in 1 .. n - 1 : r.frames[i] = s.frames[i]
  <2>1. 1 \in Int /\ n - 1 \in Int /\ \A i \in 1 .. n - 1 : s.frames[i] \in S  BY <1>2
  <2> HIDE DEF n, S
  <2>2. /\ r.frames \in Seq(S)
        /\ Len(r.frames) = IF 1 <= n - 1 THEN n - 1 - 1 + 1 ELSE 0
        /\ \A i \in 1 .. n - 1 - 1 + 1 : r.frames[i] = s.frames[1 + i - 1]
    BY <1>3, <2>1, SubSeqProperties
  <2>3. DOMAIN r.frames = 1 .. n - 1  BY <1>2, <2>2, LenProperties
  <2>4. \A i \in 1 .. n - 1 : r.frames[i] = s.frames[i]
    <3>1. TAKE i \in 1 .. n - 1
    <3>2. 1 + i - 1 = i /\ i \in 1 .. n - 1 - 1 + 1  BY <1>2
    <3> QED  BY <2>2, <3>2
  <2> QED  BY <2>2, <2>3, <2>4
<1>5. Framed(r.frames)  BY <1>4, SequenceIsFramed
<1>6. r.wait = Under(s, n)  BY DEF Pops
<1> HIDE DEF S, n
<1>7. n \in DOMAIN s.frames
      /\ \A i \in DOMAIN r.frames : i \in DOMAIN s.frames /\ i # n /\ Under(r, i) = Under(s, i)
  BY <1>2, <1>4 DEF Under
<1>8. FramesBound(r, pending) /\ FrontBound(r, pending)
  BY <1>6, <1>7 DEF Sound, FramesBound, FrontBound
<1>9. FramesDiffer(r) /\ FrontDiffers(r)
  BY <1>6, <1>7 DEF Sound, FramesDiffer, FrontDiffers
<1> QED  BY <1>5, <1>7, <1>8, <1>9 DEF Sound, Pops, n

(* Any of them leaves the waits sound and binds none. *)
LEMMA ChangesSound ==
  ASSUME NEW pending, NEW r, NEW s, Sound(s, pending), None \notin pending, Changes(r, s)
  PROVE  /\ Sound(r, pending)
         /\ \A w \in Held(r) : w \in Held(s) \/ w.token = None
<1>1. CASE Keeps(r, s)
  <2>1. Sound(r, pending)  BY <1>1, BlocksSound
  <2> QED  BY <1>1, <2>1 DEF Keeps, Held
<1>2. CASE Blocks(r, s)
  <2>1. Sound(r, pending)  BY <1>2, BlocksSound
  <2> QED  BY <1>2, <2>1 DEF Blocks, Held
<1>3. CASE Closes(r)
  <2>1. Sound(r, pending)  BY <1>3, ClosesSound
  <2> QED  BY <1>3, <2>1 DEF Closes, Held
<1>4. CASE Pops(r, s)
  <2>1. Sound(r, pending)  BY <1>4, PopsSound
  <2>2. \A i \in DOMAIN r.frames : i \in DOMAIN s.frames /\ Under(r, i) = Under(s, i)
    BY <1>4, PopsSound
  <2>3. Len(s.frames) \in DOMAIN s.frames  BY <1>4, PopsSound
  <2> QED  BY <1>4, <2>1, <2>2, <2>3 DEF Pops, Under, Held
<1>5. CASE Opens(r, s) /\ (s.wait # None => s.wait.token # None)
  <2>1. Sound(r, pending)  BY <1>5, OpensSound
  <2>2. r.wait = None  BY <1>5 DEF Opens
  <2>3. \A i \in DOMAIN r.frames :
          Under(r, i) = s.wait \/ (i \in DOMAIN s.frames /\ Under(r, i) = Under(s, i))
    BY <1>5, OpensSound
  <2> QED  BY <2>1, <2>2, <2>3 DEF Under, Held
<1> QED  BY <1>1, <1>2, <1>3, <1>4, <1>5 DEF Changes

(* The waits of a sound story can be told apart by their tokens. *)
LEMMA HeldDiffer ==
  ASSUME NEW pending, NEW s, Sound(s, pending)
  PROVE  \A w, v \in Held(s) : w.token = v.token => w = v
<1> SUFFICES ASSUME NEW w \in Held(s), NEW v \in Held(s), w.token = v.token PROVE w = v
  OBVIOUS
<1> DEFINE In(x) == \E i \in DOMAIN s.frames : x = Under(s, i)
<1>1. w # None /\ v # None /\ (w = s.wait \/ In(w)) /\ (v = s.wait \/ In(v))
  BY DEF Held, Under
<1>2. CASE In(w) /\ In(v)  BY <1>1, <1>2 DEF Sound, FramesDiffer
<1>3. CASE w = s.wait /\ In(v)  BY <1>1, <1>3 DEF Sound, FrontDiffers
<1>4. CASE In(w) /\ v = s.wait  BY <1>1, <1>4 DEF Sound, FrontDiffers
<1> QED  BY <1>1, <1>2, <1>3, <1>4

(* Only waits under a page are left. *)
Drops(r, s) == \A w \in Held(r) : \E i \in DOMAIN s.frames : w = Under(s, i)

LEMMA DropsGone ==
  ASSUME NEW pending, NEW r, NEW s, Sound(s, pending), s.wait # None, Drops(r, s)
  PROVE  Gone(s.wait.token, r)
<1>1. \A w \in Held(r) : w # None  BY DEF Held
<1> QED  BY <1>1 DEF Drops, Gone, Sound, FrontDiffers

LEMMA WhatDrops ==
  ASSUME NEW pending, NEW r, NEW s, Sound(s, pending), None \notin pending,
         \/ r.frames = s.frames /\ r.wait = None
         \/ Closes(r)
         \/ Pops(r, s)
  PROVE  Drops(r, s)
<1>1. CASE r.frames = s.frames /\ r.wait = None  BY <1>1 DEF Drops, Held, Under
<1>2. CASE Closes(r)  BY <1>2 DEF Closes, Drops, Held
<1>3. CASE Pops(r, s)
  <2>1. \A i \in DOMAIN r.frames : i \in DOMAIN s.frames /\ Under(r, i) = Under(s, i)
    BY <1>3, PopsSound
  <2>2. Len(s.frames) \in DOMAIN s.frames  BY <1>3, PopsSound
  <2> QED  BY <1>3, <2>1, <2>2 DEF Pops, Drops, Held, Under
<1> QED  BY <1>1, <1>2, <1>3

--------------------------------------------------------------------------------
(* Steps, by what they do to the waits *)

(* The interpreter changes the story and leaves the rest. *)
LEMMA RunsSafe ==
  ASSUME IInv, NoneIsNoStep, step # None, Changes(story', story),
         \/ step' = step
         \/ step' = [step EXCEPT !.action = TRUE]
         \/ step' = [step EXCEPT !.fuel = @ - 1],
         UNCHANGED <<tokens, policy, failed>>
  PROVE  IInv'
<1>1. Sound(story, tokens) /\ None \notin tokens  BY NoneAssumption DEF IInv
<1>2. /\ Sound(story', tokens)
      /\ \A w \in Held(story') : w \in Held(story) \/ w.token = None
  BY <1>1, ChangesSound
<1>3. Remembers  BY DEF IInv
<1>4. /\ step' = [prior |-> step.prior, token |-> step.token, resolves |-> step.resolves,
                  action |-> step'.action, fuel |-> step'.fuel]
      /\ step'.prior = step.prior /\ step'.token = step.token
      /\ step'.resolves = step.resolves
  <2> HIDE DEF IInv, NoneIsNoStep
  <2> QED  BY <1>3 DEF Remembers
<1>5. step' # None  BY <1>4 DEF NoneIsNoStep
<1>6. step'.resolves => Gone(step'.prior.token, story')
  <2> SUFFICES ASSUME step'.resolves PROVE Gone(step'.prior.token, story')  OBVIOUS
  <2>1. step.resolves /\ step'.prior = step.prior  BY <1>4
  <2>2. Gone(step.prior.token, story)  BY <1>3, <2>1 DEF Remembers
  <2>3. step.prior # None /\ step.prior.token # None  BY <1>3, <2>1 DEF Remembers
  <2> QED  BY <1>2, <2>1, <2>2, <2>3 DEF Gone
<1>7. policy'.source # None =>
        \A w \in Held(story') :
          w.token # None /\ w.token = step'.token => w.command = policy'.source
  BY <1>2, <1>3, <1>4 DEF Remembers
<1>8. Remembers'  BY <1>3, <1>4, <1>6, <1>7 DEF Remembers
<1> QED  BY <1>2, <1>5, <1>8 DEF IInv

(* A step begins: the command has changed the story to r, and if it is the *)
(* answer to the wait there was, that wait is gone.                        *)
LEMMA BeginSafe ==
  ASSUME IInv, NoneIsNoStep, Ready, NEW r, NEW resolves, NEW fuel, NEW p,
         Begin(r, resolves, fuel, p), Changes(r, story),
         resolves => story.wait # None /\ Drops(r, story),
         "source" \in DOMAIN policy',
         policy'.source # None => p.source = policy'.source
  PROVE  IInv'
<1>1. Sound(story, tokens) /\ None \notin tokens  BY NoneAssumption DEF IInv
<1>2. /\ Sound(r, tokens)
      /\ \A w \in Held(r) : w \in Held(story) \/ w.token = None
  BY <1>1, ChangesSound
<1>3. story.wait # None => story.wait.token # None  BY DEF IInv, Ready
<1>4. /\ story' = r /\ tokens' = tokens
      /\ step' = [prior |-> story.wait, token |-> ActionToken(p), resolves |-> resolves,
                  action |-> FALSE, fuel |-> fuel]
  BY DEF Begin
<1>5. step' # None  BY <1>4 DEF NoneIsNoStep
<1>6. /\ step'.prior = story.wait /\ step'.token = ActionToken(p)
      /\ step' = [prior |-> step'.prior, token |-> step'.token, resolves |-> step'.resolves,
                  action |-> step'.action, fuel |-> step'.fuel]
  BY <1>4
<1>7. step'.resolves => Gone(story.wait.token, r)
  <2> SUFFICES ASSUME step'.resolves PROVE Gone(story.wait.token, r)  OBVIOUS
  <2>1. resolves  BY <1>4
  <2> QED  BY <1>1, <2>1, DropsGone
<1>8. ASSUME policy'.source # None, NEW w \in Held(r), w.token # None, w.token = ActionToken(p)
      PROVE  w.command = policy'.source
  <2> DEFINE own == {v \in Held(story) : v.command = p.source}
  <2>1. w \in Held(story)  BY <1>2, <1>8
  <2>2. own # {}  BY <1>8 DEF ActionToken
  <2>3. PICK v \in own : w.token = v.token  BY <1>8, <2>2 DEF ActionToken
  <2>4. w = v  BY <1>1, <2>1, <2>3, HeldDiffer
  <2> QED  BY <1>8, <2>3, <2>4
<1>9. step'.resolves => step'.prior # None
  BY <1>4
<1>10. Remembers'  BY <1>3, <1>4, <1>6, <1>7, <1>8, <1>9 DEF Remembers
<1> QED  BY <1>2, <1>4, <1>5, <1>10 DEF IInv

(* What the helpers of the commands do to the waits. *)
LEMMA HelperShapes ==
  ASSUME NEW s, Fields(s)
  PROVE  /\ \A q : Keeps(Go(s, q), s)
         /\ Keeps(Past(s), s)
         /\ Blocks(Unblocked(s), s) /\ Unblocked(s).wait = None
         /\ \A kind, id : Blocks(Blocked(s, kind, id), s)
         /\ \A page : Opens(Opened(s, page), s)
<1> USE DEF Fields
<1>1. \A q : Keeps(Go(s, q), s)  BY DEF Go, Keeps
<1>2. Keeps(Past(s), s)  BY DEF Past, Keeps
<1>3. Blocks(Unblocked(s), s) /\ Unblocked(s).wait = None  BY DEF Unblocked, Blocks
<1>4. \A kind, id : Blocks(Blocked(s, kind, id), s)  BY DEF Blocked, Blocks
<1>5. ASSUME NEW page PROVE Opens(Opened(s, page), s)
  <2> DEFINE r == Opened(s, page)
             frame == [cursor |-> s.cursor, wait |-> s.wait, choice |-> s.choice]
  <2>1. Fields(r) /\ r.wait = None /\ r.frames = Append(s.frames, frame)
    BY DEF Opened, Go, Unblocked
  <2>2. frame.wait = s.wait  OBVIOUS
  <2> HIDE DEF r, frame
  <2> QED  BY <2>1, <2>2 DEF Opens, r
<1> QED  BY <1>1, <1>2, <1>3, <1>4, <1>5

LEMMA CommandSafe ==
  ASSUME IInv, NoneIsNoStep, Ready, NEW r, NEW resolves, NEW fuel,
         Turn(r, resolves, fuel), Changes(r, story),
         resolves => story.wait # None /\ Drops(r, story)
  PROVE  IInv'
<1>1. Begin(r, resolves, fuel, policy) /\ policy' = policy  BY DEF Turn
<1>2. "source" \in DOMAIN policy  BY DEF IInv
<1> QED  BY <1>1, <1>2, BeginSafe

(* A step that fails leaves the story behind. *)
LEMMA FailSafe == ASSUME IInv, Fail PROVE IInv'
<1>1. /\ failed' = TRUE /\ step' = None
      /\ UNCHANGED <<story, tokens, policy>>
  BY DEF Fail
<1> QED  BY <1>1 DEF IInv, Sound, Fields, Framed, FramesBound, FramesDiffer, FrontBound,
              FrontDiffers, Under, Ready

(* A command of the player, or of the host, leaves no new wait.            *)
Calms(r, s) ==
  Changes(r, s) /\ (r.wait = None \/ r.wait = s.wait \/ Pops(r, s))

Commanded ==
  \E resolves, fuel :
    /\ Ready /\ Turn(story', resolves, fuel) /\ Calms(story', story)
    /\ story.allowed /\ resolves => story.wait # None /\ Drops(story', story)

LEMMA CalmsHeld ==
  ASSUME NEW pending, NEW r, NEW s, Sound(s, pending), None \notin pending, Calms(r, s)
  PROVE  Held(r) \subseteq Held(s)
<1>1. CASE Pops(r, s)
  <2>1. \A i \in DOMAIN r.frames : i \in DOMAIN s.frames /\ Under(r, i) = Under(s, i)
    BY <1>1, PopsSound
  <2>2. Len(s.frames) \in DOMAIN s.frames  BY <1>1, PopsSound
  <2> QED  BY <1>1, <2>1, <2>2 DEF Pops, Under, Held
<1>2. CASE Opens(r, s) /\ (s.wait # None => s.wait.token # None)
  <2>1. \A i \in DOMAIN r.frames :
          Under(r, i) = s.wait \/ (i \in DOMAIN s.frames /\ Under(r, i) = Under(s, i))
    BY <1>2, OpensSound
  <2> QED  BY <1>2, <2>1 DEF Opens, Under, Held
<1>3. CASE Closes(r)  BY <1>3 DEF Closes, Held
<1>4. CASE r.frames = s.frames /\ (r.wait = None \/ r.wait = s.wait)  BY <1>4 DEF Held
<1> QED  BY <1>1, <1>2, <1>3, <1>4 DEF Calms, Changes, Keeps, Blocks

LEMMA CommandShape ==
  ASSUME Ready, NEW r, NEW resolves, Calms(r, story),
         Command(r, resolves) \/ Turn(r, resolves, MaxWaits - 1),
         story.allowed /\ resolves => story.wait # None /\ Drops(r, story)
  PROVE  Commanded
<1>1. PICK fuel : Turn(r, resolves, fuel)  BY DEF Command
<1>2. story' = r  BY <1>1 DEF Turn, Begin
<1> QED  BY <1>1, <1>2 DEF Commanded

(* What a system action may end with, and that its writes change no wait.  *)
LEMMA KindsOfActions ==
  ASSUME NEW a \in SystemActions
  PROVE  a.ends \in {"stays", "jumps", "switches", "returns"}
BY ActionAssumption DEF Ends

LEMMA WritesCalm ==
  ASSUME NEW r, NEW s, NEW vs, Calms(r, s)
  PROVE  /\ Calms([r EXCEPT !.vars = vs], s)
         /\ Drops(r, s) => Drops([r EXCEPT !.vars = vs], s)
<1> DEFINE t == [r EXCEPT !.vars = vs]
<1>1. Fields(r)  BY DEF Calms, Changes, Keeps, Blocks, Closes, Opens, Pops
<1>2. Fields(t) /\ t.frames = r.frames /\ t.wait = r.wait  BY <1>1 DEF Fields
<1> HIDE DEF t
<1>3. Calms(t, s)
  BY <1>2 DEF Calms, Changes, Keeps, Blocks, Closes, Opens, Pops
<1>4. Drops(r, s) => Drops(t, s)  BY <1>2 DEF Drops, Held
<1> QED  BY <1>3, <1>4 DEF t

LEMMA PlayerShape ==
  ASSUME IInv, Player
  PROVE  Fail \/ Commanded
<1> DEFINE Known == Sound(story, tokens) /\ Fields(story) /\ None \notin tokens
<1>0. Known /\ (Ready => (story.wait # None => story.wait.token # None))
  BY NoneAssumption DEF IInv, Sound, Ready
<1> USE DEF Launched, OnPage, WaitsFor
<1>1. CASE Launch
  <2> DEFINE r == Go(Cleared, Start)
  <2>1. Ready /\ Command(r, FALSE)  BY <1>1 DEF Launch
  <2>2. Closes(r)  BY <1>0 DEF Closes, Cleared, Go, Unblocked, Fields
  <2> QED  BY <2>1, <2>2, CommandShape DEF Calms, Changes, Closes, Keeps
<1>2. CASE Advance
  <2> DEFINE r == IF story.reading = "hidden" THEN [story EXCEPT !.reading = "manual"]
                  ELSE IF WaitsFor(story, Clickable) THEN [story EXCEPT !.wait = None]
                  ELSE story
  <2>1. Ready /\ Command(r, AdvanceResolves)  BY <1>2 DEF Advance
  <2>2. Fields(r) /\ r.frames = story.frames /\ (r.wait = story.wait \/ r.wait = None)
    BY <1>0 DEF Fields
  <2>3. AdvanceResolves => story.wait # None /\ r.wait = None
    BY <1>0 DEF AdvanceResolves, Fields
  <2>4. Calms(r, story)  BY <2>2 DEF Calms, Changes, Keeps, Blocks
  <2>5. AdvanceResolves => Drops(r, story)  BY <1>0, <2>2, <2>3, WhatDrops
  <2> HIDE DEF r
  <2> QED  BY <2>1, <2>3, <2>4, <2>5, CommandShape
<1>3. CASE Choose
  <2>1. PICK option \in story.choice :
          IF ~WaitsFor(story, {"choice"}) THEN Fail
          ELSE Command(IF option \in DOMAIN Script THEN Go(Unblocked(story), option)
                       ELSE Unblocked(story), TRUE)
    BY <1>3 DEF Choose
  <2>2. CASE ~WaitsFor(story, {"choice"})  BY <2>1, <2>2
  <2>3. CASE WaitsFor(story, {"choice"})
    <3> DEFINE r == IF option \in DOMAIN Script THEN Go(Unblocked(story), option)
                    ELSE Unblocked(story)
    <3>1. Ready /\ Command(r, TRUE) /\ story.wait # None  BY <1>3, <2>1, <2>3 DEF Choose
    <3>2. Blocks(r, story) /\ r.wait = None  BY <1>0 DEF Blocks, Go, Unblocked, Fields
    <3>3. Calms(r, story) /\ Drops(r, story)  BY <1>0, <3>2, WhatDrops DEF Calms, Changes, Blocks
    <3> HIDE DEF r
    <3> QED  BY <3>1, <3>3, CommandShape
  <2> QED  BY <2>2, <2>3
<1>4. CASE OpenSystem
  <2>1. PICK page : IF story.cursor = None THEN Fail ELSE Command(Opened(story, page), FALSE)
    BY <1>4 DEF OpenSystem
  <2>2. Ready  BY <1>4 DEF OpenSystem
  <2>3. Calms(Opened(story, page), story)  BY <1>0, <2>2, HelperShapes DEF Calms, Changes, Opens
  <2> QED  BY <2>1, <2>2, <2>3, CommandShape
<1>5. CASE SwitchSystemPage
  <2>1. PICK page \in DOMAIN Entry : Command(Switched(story, page), OnPage)
    BY <1>5 DEF SwitchSystemPage
  <2> DEFINE r == Switched(story, page)
  <2>2. Ready  BY <1>5 DEF SwitchSystemPage
  <2>3. Blocks(r, story) /\ r.wait = None  BY <1>0 DEF Blocks, Switched, Go, Unblocked, Fields
  <2>4. Calms(r, story) /\ Drops(r, story)  BY <1>0, <2>3, WhatDrops DEF Calms, Changes, Blocks
  <2> HIDE DEF r
  <2>5. Command(r, OnPage)  BY <2>1 DEF r
  <2>6. OnPage => story.wait # None  OBVIOUS
  <2> QED  BY <2>2, <2>4, <2>5, <2>6, CommandShape
<1>6. CASE ReturnSystem
  <2> DEFINE r == Returned(story)
  <2>1. Ready /\ story.frames # <<>> /\ Command(r, OnPage)  BY <1>6 DEF ReturnSystem
  <2>2. Pops(r, story)  BY <1>0, <2>1 DEF Pops, Returned, Under, Fields
  <2>3. Calms(r, story) /\ Drops(r, story)  BY <1>0, <2>2, WhatDrops DEF Calms, Changes, Closes
  <2>4. OnPage => story.wait # None  OBVIOUS
  <2> HIDE DEF r
  <2> QED  BY <2>1, <2>3, <2>4, CommandShape
<1>7. CASE SetReadingMode
  <2>1. PICK mode \in Reading :
          LET s == [story EXCEPT !.reading = mode]
              fast == mode = "fast" /\ WaitsFor(story, Clickable)
          IN  IF fast /\ story.allowed THEN Turn([s EXCEPT !.wait = None], fast, MaxWaits - 1)
              ELSE Command(s, fast)
    BY <1>7 DEF SetReadingMode
  <2> DEFINE s == [story EXCEPT !.reading = mode]
             fast == mode = "fast" /\ WaitsFor(story, Clickable)
             r == IF fast /\ story.allowed THEN [s EXCEPT !.wait = None] ELSE s
  <2>2. Ready /\ (Command(r, fast) \/ Turn(r, fast, MaxWaits - 1))
    BY <1>7, <2>1 DEF SetReadingMode
  <2>3. Fields(r) /\ r.frames = story.frames /\ (r.wait = story.wait \/ r.wait = None)
    BY <1>0 DEF Fields
  <2>4. story.allowed /\ fast => story.wait # None /\ r.wait = None  BY <1>0 DEF Fields
  <2> HIDE DEF r, fast
  <2>5. Calms(r, story)  BY <2>3 DEF Calms, Changes, Keeps, Blocks
  <2>6. story.allowed /\ fast => Drops(r, story)  BY <1>0, <2>3, <2>4, WhatDrops
  <2> QED  BY <2>2, <2>4, <2>5, <2>6, CommandShape
<1>8. CASE SetSkip
  <2>1. PICK mode : Command([story EXCEPT !.skip = mode], FALSE)  BY <1>8 DEF SetSkip
  <2>2. Ready  BY <1>8 DEF SetSkip
  <2>3. Keeps([story EXCEPT !.skip = mode], story)  BY <1>0 DEF Keeps, Fields
  <2> QED  BY <2>1, <2>2, <2>3, CommandShape DEF Calms, Changes, Closes, Keeps
<1>9. CASE InvokeSystemAction
  <2>1. PICK a \in SystemActions :
          /\ a.ends = "returns" => story.frames # <<>>
          /\ Fail \/ Command([Effect(a) EXCEPT !.vars = Mutated(story.vars, a.writes)],
                            OnPage /\ a.ends # "stays")
    BY <1>9 DEF InvokeSystemAction
  <2> DEFINE e == Effect(a)
             r == [e EXCEPT !.vars = Mutated(story.vars, a.writes)]
             resolves == OnPage /\ a.ends # "stays"
  <2>2. Ready  BY <1>9 DEF InvokeSystemAction
  <2>3. Calms(e, story) /\ (a.ends # "stays" => Drops(e, story))
    <3>1. CASE a.ends = "stays"
      <4>1. e = story  BY <3>1 DEF Effect
      <4> QED  BY <1>0, <3>1, <4>1 DEF Calms, Changes, Keeps
    <3>2. CASE a.ends = "jumps"
      <4>1. e = Go(Unblocked([story EXCEPT !.frames = <<>>]), a.to)  BY <3>2 DEF Effect
      <4>2. Closes(e)  BY <1>0, <4>1 DEF Closes, Go, Unblocked, Fields
      <4> HIDE DEF e
      <4> QED  BY <1>0, <4>2, WhatDrops DEF Calms, Changes, Closes
    <3>3. CASE a.ends = "switches"
      <4>1. e = Switched(story, a.to)  BY <3>3 DEF Effect
      <4>2. Blocks(e, story) /\ e.wait = None
        BY <1>0, <4>1 DEF Blocks, Switched, Go, Unblocked, Fields
      <4> HIDE DEF e
      <4> QED  BY <1>0, <4>2, WhatDrops DEF Calms, Changes, Blocks
    <3>4. CASE a.ends = "returns"
      <4>1. e = Returned(story)  BY <3>4 DEF Effect
      <4>2. Pops(e, story)  BY <1>0, <2>1, <3>4, <4>1 DEF Pops, Returned, Under, Fields
      <4> HIDE DEF e
      <4> QED  BY <1>0, <4>2, WhatDrops DEF Calms, Changes, Closes
    <3> QED  BY <3>1, <3>2, <3>3, <3>4, KindsOfActions
  <2> HIDE DEF e
  <2>4. Calms(r, story) /\ (a.ends # "stays" => Drops(r, story))  BY <2>3, WritesCalm
  <2>5. resolves => story.wait # None /\ Drops(r, story)  BY <2>4
  <2>6. Fail \/ Command(r, resolves)  BY <2>1 DEF e
  <2> HIDE DEF r, resolves
  <2> QED  BY <2>2, <2>4, <2>5, <2>6, CommandShape
<1>10. CASE JumpToState
  <2>1. PICK state : Command(Go(Cleared, state), OnPage)  BY <1>10 DEF JumpToState
  <2> DEFINE r == Go(Cleared, state)
  <2>2. Ready  BY <1>10 DEF JumpToState
  <2>3. Closes(r)  BY <1>0 DEF Closes, Cleared, Go, Unblocked, Fields
  <2>4. Calms(r, story) /\ Drops(r, story)  BY <1>0, <2>3, WhatDrops DEF Calms, Changes, Closes
  <2> HIDE DEF r
  <2>5. Command(r, OnPage)  BY <2>1 DEF r
  <2>6. OnPage => story.wait # None  OBVIOUS
  <2> QED  BY <2>2, <2>4, <2>5, <2>6, CommandShape
<1>11. CASE JumpBacklog
  <2>1. PICK id : Command([Go(Cleared, Place(id).state) EXCEPT !.cursor = Place(id)], OnPage)
    BY <1>11 DEF JumpBacklog
  <2> DEFINE r == [Go(Cleared, Place(id).state) EXCEPT !.cursor = Place(id)]
  <2>2. Ready  BY <1>11 DEF JumpBacklog
  <2>3. Closes(r)  BY <1>0 DEF Closes, Cleared, Go, Unblocked, Fields
  <2>4. Calms(r, story) /\ Drops(r, story)  BY <1>0, <2>3, WhatDrops DEF Calms, Changes, Closes
  <2> HIDE DEF r
  <2>5. Command(r, OnPage)  BY <2>1 DEF r
  <2>6. OnPage => story.wait # None  OBVIOUS
  <2> QED  BY <2>2, <2>4, <2>5, <2>6, CommandShape
<1> QED
  BY <1>1, <1>2, <1>3, <1>4, <1>5, <1>6, <1>7, <1>8, <1>9, <1>10, <1>11 DEF Player

LEMMA PlayerSafe ==
  ASSUME IInv, NoneIsNoStep, story.allowed, Player
  PROVE  IInv'
<1>1. CASE Fail  BY <1>1, FailSafe
<1>2. CASE Commanded
  <2>1. PICK resolves, fuel :
          /\ Ready /\ Turn(story', resolves, fuel) /\ Changes(story', story)
          /\ resolves => story.wait # None /\ Drops(story', story)
    BY <1>2 DEF Commanded, Calms
  <2> QED  BY <2>1, CommandSafe
<1> QED  BY <1>1, <1>2, PlayerShape

LEMMA HostSafe ==
  ASSUME IInv, NoneIsNoStep, Host
  PROVE  IInv'
<1>0. Sound(story, tokens) /\ Fields(story) /\ None \notin tokens /\ "source" \in DOMAIN policy
  BY NoneAssumption DEF IInv, Sound
<1>1. CASE CompleteWait
  <2> DEFINE r == [story EXCEPT !.wait = None]
  <2>1. Ready /\ Command(r, TRUE) /\ story.wait # None
    BY <1>1 DEF CompleteWait, Launched, WaitsFor
  <2>2. Blocks(r, story) /\ r.wait = None  BY <1>0 DEF Blocks, Fields
  <2>3. Changes(r, story) /\ Drops(r, story)  BY <1>0, <2>2, WhatDrops DEF Changes, Blocks
  <2> HIDE DEF r
  <2> QED  BY <2>1, <2>3, CommandSafe DEF Command
<1>2. CASE Poll
  <2>1. Ready /\ story.wait # None  BY <1>2 DEF Poll, Launched, PolicyActionPending, WaitsFor
  <2>2. Changes(story, story)  BY <1>0 DEF Changes, Keeps
  <2>3. CASE Command(story, FALSE)  BY <2>1, <2>2, <2>3, CommandSafe DEF Command
  <2>4. ASSUME NEW dropped, NEW n, Await(dropped, n) PROVE IInv'
    <3>1. Begin(story, FALSE, MaxWaits, policy)  BY <2>4 DEF Await
    <3>2. "source" \in DOMAIN policy' /\ policy'.source = policy.source
      BY <1>0, <2>4 DEF Await, SyncAwaits
    <3> QED  BY <2>1, <2>2, <3>1, <3>2, BeginSafe
  <2>5. CASE Complete
    <3>0. PICK values \in Memory :
            Begin([story EXCEPT !.wait = None, !.vars = Written(@, values)], TRUE, MaxWaits, NoAction)
      BY <2>5 DEF Complete
    <3> DEFINE r == [story EXCEPT !.wait = None, !.vars = Written(@, values)]
    <3>1. Begin(r, TRUE, MaxWaits, NoAction)  BY <3>0
    <3>2. "source" \in DOMAIN policy' /\ policy'.source = None
      BY <2>5 DEF Complete, NoAction
    <3>3. Blocks(r, story) /\ r.wait = None  BY <1>0 DEF Blocks, Fields
    <3>4. Changes(r, story) /\ Drops(r, story)  BY <1>0, <3>3, WhatDrops DEF Changes, Blocks
    <3> HIDE DEF r
    <3> QED  BY <2>1, <3>1, <3>2, <3>4, BeginSafe
  <2> QED  BY <1>2, <2>3, <2>4, <2>5 DEF Poll
<1>3. ASSUME UNCHANGED <<story, step, tokens, failed>>,
             "source" \in DOMAIN policy', policy'.source = policy.source
      PROVE  IInv'
  BY <1>3 DEF IInv, Sound, Fields, Framed, FramesBound, FramesDiffer, FrontBound,
              FrontDiffers, Under, Ready, Remembers, Gone, Held
<1>4. CASE ReadDone  BY <1>0, <1>3, <1>4 DEF ReadDone
<1>5. CASE Restore
  <2>1. "source" \in DOMAIN policy' /\ policy'.source = policy.source
    BY <1>0, <1>5 DEF Restore
  <2> QED  BY <1>3, <1>5, <2>1 DEF Restore
<1> QED  BY <1>1, <1>2, <1>4, <1>5 DEF Host

(* The interpreter blocks on a command, shows a page or goes on.           *)
BlocksOn(r, s, id) ==
  /\ Fields(r) /\ r.frames = s.frames
  /\ \E kind : r.wait = [kind |-> kind, command |-> id, token |-> None]

Interpreted ==
  \/ Fail
  \/ /\ Running /\ Runs(story')
     /\ \/ Keeps(story', story) \/ Opens(story', story)
        \/ ~AtEnd /\ Current.op # "policy" /\ BlocksOn(story', story, Current.id)
  \/ PolicyAction
  \/ SkipWait

LEMMA InterpreterShape ==
  ASSUME Fields(story), Interpreter
  PROVE  Interpreted
<1>0. Fields(story)  OBVIOUS
<1>1. \A s : Runs(s) => story' = s  BY DEF Runs
<1>2. ASSUME NEW s, Runs(s), Running,
             \/ Keeps(s, story) \/ Opens(s, story)
             \/ ~AtEnd /\ Current.op # "policy" /\ BlocksOn(s, story, Current.id)
      PROVE  Interpreted
  BY <1>1, <1>2 DEF Interpreted
<1> DEFINE Here == Current
           NextUp == Past(story)
<1>3. /\ Keeps(NextUp, story) /\ Fields(NextUp)
      /\ \A kind, id : BlocksOn(Blocked(NextUp, kind, id), story, id)
  <2>1. Keeps(NextUp, story) /\ Fields(NextUp)  BY <1>0, HelperShapes DEF Keeps
  <2>2. \A kind, id : BlocksOn(Blocked(NextUp, kind, id), NextUp, id)
    BY <2>1 DEF Blocked, BlocksOn, Fields
  <2> QED  BY <2>1, <2>2 DEF Keeps, BlocksOn
<1> HIDE DEF Here, NextUp
<1>4. CASE EndOfState
  <2>1. Keeps([story EXCEPT !.cursor = None], story)  BY <1>0 DEF Keeps, Fields
  <2> QED  BY <1>2, <1>4, <2>1 DEF EndOfState
<1>5. CASE Text
  <2> DEFINE b == Blocked(NextUp, "text", Here.id)
             r == [b EXCEPT !.read = @ \cup {Here.id}]
  <2>1. /\ Running /\ ~AtEnd /\ Current.op # "policy"
        /\ Runs(IF ShouldSkip(Here.id) THEN NextUp ELSE r)
    BY <1>5 DEF Text, Meets, Here, NextUp
  <2>2. BlocksOn(b, story, Here.id)  BY <1>3
  <2> HIDE DEF b
  <2>3. BlocksOn(r, story, Current.id)  BY <2>2 DEF BlocksOn, Fields, Here
  <2> HIDE DEF r
  <2> QED  BY <1>2, <1>3, <2>1, <2>3
<1>6. CASE Choice
  <2> DEFINE b == Blocked(NextUp, "choice", Here.id)
             r == [b EXCEPT !.choice = Offered(story.vars, Here)]
  <2>1. Running /\ ~AtEnd /\ Current.op # "policy" /\ (Fail \/ Runs(r))
    BY <1>6 DEF Choice, Meets, Here, NextUp
  <2>2. BlocksOn(b, story, Here.id)  BY <1>3
  <2> HIDE DEF b
  <2>3. BlocksOn(r, story, Current.id)  BY <2>2 DEF BlocksOn, Fields, Here
  <2> HIDE DEF r
  <2> QED  BY <1>2, <2>1, <2>3 DEF Interpreted
<1>7. CASE Jump \/ Branch
  <2>1. PICK q : Running /\ (Fail \/ Runs(Go(story, q)))  BY <1>7 DEF Jump, Branch, Meets
  <2> QED  BY <1>0, <1>2, <2>1, HelperShapes DEF Interpreted
<1>8. CASE Call
  <2> DEFINE b == [story EXCEPT !.calls = Append(@, Past(story).cursor)]
  <2>1. Running /\ (Fail \/ Runs(Go(b, Current.target)))  BY <1>8 DEF Call, Meets
  <2>2. Keeps(b, story)  BY <1>0 DEF Keeps, Fields
  <2> HIDE DEF b
  <2>3. Keeps(Go(b, Current.target), b)  BY <2>2, HelperShapes DEF Keeps
  <2>4. Keeps(Go(b, Current.target), story)  BY <2>2, <2>3 DEF Keeps
  <2> QED  BY <1>2, <2>1, <2>4 DEF Interpreted
<1>9. CASE Return
  <2> DEFINE r == [story EXCEPT !.cursor = story.calls[Len(story.calls)],
                                !.calls = SubSeq(@, 1, Len(@) - 1)]
  <2>1. Running /\ (Fail \/ Runs(r))  BY <1>9 DEF Return, Meets
  <2>2. Keeps(r, story)  BY <1>0 DEF Keeps, Fields
  <2> HIDE DEF r
  <2> QED  BY <1>2, <2>1, <2>2 DEF Interpreted
<1>10. CASE Mutate
  <2> DEFINE r == [NextUp EXCEPT !.vars = Mutated(@, Here.writes)]
  <2>1. Running /\ (Fail \/ Runs(r))  BY <1>10 DEF Mutate, Meets, Here, NextUp
  <2>2. Keeps(r, story)  BY <1>3 DEF Keeps, Fields
  <2> HIDE DEF r
  <2> QED  BY <1>2, <2>1, <2>2 DEF Interpreted
<1>11. CASE SystemPage
  <2>1. /\ Running /\ ~AtEnd /\ Current.op # "policy"
        /\ Runs(IF Here.page \in {page \in DOMAIN Entry : Entry[page] # story.cursor.state}
                  THEN Opened(NextUp, Here.page) ELSE Blocked(NextUp, "page", Here.id))
    BY <1>11 DEF SystemPage, Meets, Here, NextUp
  <2>2. CASE Runs(Blocked(NextUp, "page", Here.id))
    <3>1. BlocksOn(Blocked(NextUp, "page", Here.id), story, Current.id)  BY <1>3 DEF Here
    <3> QED  BY <1>2, <2>1, <2>2, <3>1
  <2>3. CASE Runs(Opened(NextUp, Here.page))
    <3> DEFINE r == Opened(NextUp, Here.page)
    <3>1. Opens(r, NextUp)  BY <1>3, HelperShapes
    <3> HIDE DEF r
    <3>2. Opens(r, story)  BY <1>3, <3>1 DEF Opens, Keeps
    <3> QED  BY <1>2, <2>1, <2>3, <3>2 DEF r
  <2> QED  BY <2>1, <2>2, <2>3
<1>12. CASE Stage
  <2> DEFINE r == [NextUp EXCEPT !.allowed = Here.allowed]
  <2>1. Running /\ Runs(r)  BY <1>12 DEF Stage, Meets, Here, NextUp
  <2>2. Keeps(r, story)  BY <1>3 DEF Keeps, Fields
  <2> HIDE DEF r
  <2> QED  BY <1>2, <2>1, <2>2
<1>13. CASE Fence \/ Input
  <2>1. PICK kind : /\ Running /\ ~AtEnd /\ Current.op # "policy"
                    /\ Runs(Blocked(NextUp, kind, Current.id))
    BY <1>13 DEF Fence, Input, Meets, NextUp
  <2> QED  BY <1>2, <1>3, <2>1
<1>14. CASE PolicyAction \/ SkipWait  BY <1>14 DEF Interpreted
<1> QED
  BY <1>4, <1>5, <1>6, <1>7, <1>8, <1>9, <1>10, <1>11, <1>12, <1>13, <1>14 DEF Interpreter

LEMMA InterpreterSafe ==
  ASSUME IInv, NoneIsNoStep, Interpreter
  PROVE  IInv'
<1>0. Fields(story)  BY DEF IInv, Sound
<1>1. CASE Fail  BY <1>1, FailSafe
<1>2. CASE /\ Running /\ Runs(story')
           /\ \/ Keeps(story', story) \/ Opens(story', story)
              \/ BlocksOn(story', story, Current.id)
  <2>1. step # None /\ story.wait = None  BY <1>2 DEF Running
  <2>2. Changes(story', story)
    <3>1. ASSUME BlocksOn(story', story, Current.id) PROVE Blocks(story', story)
      BY <3>1 DEF Blocks, BlocksOn
    <3> QED  BY <1>2, <2>1, <3>1 DEF Changes
  <2>3. UNCHANGED <<step, tokens, policy, failed>>  BY <1>2 DEF Runs
  <2> QED  BY <2>1, <2>2, <2>3, RunsSafe
<1>3. CASE PolicyAction
  <2>1. /\ Running /\ story' = Blocked(Past(story), "fence", Current.id)
        /\ step' = [step EXCEPT !.action = TRUE]
        /\ UNCHANGED <<tokens, policy, failed>>
    BY <1>3 DEF PolicyAction, Meets
  <2>2. Keeps(Past(story), story)  BY <1>0, HelperShapes
  <2>3. Blocks(story', Past(story))  BY <2>1, <2>2, HelperShapes DEF Keeps
  <2>4. Changes(story', story) /\ step # None
    BY <2>1, <2>2, <2>3 DEF Changes, Running, Keeps, Blocks
  <2> QED  BY <2>1, <2>4, RunsSafe
<1>4. CASE SkipWait /\ ~Fail
  <2>1. /\ step # None /\ story' = [story EXCEPT !.wait = None]
        /\ step' = [step EXCEPT !.fuel = @ - 1]
        /\ UNCHANGED <<tokens, policy, failed>>
    BY <1>4 DEF SkipWait, Stopped
  <2>2. Changes(story', story)  BY <1>0, <2>1 DEF Changes, Blocks, Fields
  <2> QED  BY <2>1, <2>2, RunsSafe
<1> QED  BY <1>0, <1>1, <1>2, <1>3, <1>4, InterpreterShape DEF Interpreted

(* A token of Fresh is not one of those used. *)
LEMMA FreshIsNew ==
  ASSUME NEW used, IsFiniteSet(used)
  PROVE  Fresh(used) \in Nat /\ Fresh(used) \notin used
<1> DEFINE n == Cardinality(used)
<1>1. n \in Nat  BY FS_CardinalityType
<1>2. Cardinality(1 .. n + 1) = n + 1
  <2> HIDE DEF n
  <2> QED  BY <1>1, FS_Interval
<1>3. ~(1 .. n + 1 \subseteq used)
  <2>1. ASSUME 1 .. n + 1 \subseteq used PROVE FALSE
    <3>1. Cardinality(1 .. n + 1) <= n  BY <2>1, FS_Subset
    <3> HIDE DEF n
    <3> QED  BY <1>1, <1>2, <3>1
  <2> QED  BY <2>1
<1>4. \E t \in 1 .. n + 1 : t \notin used  BY <1>3
<1>5. Fresh(used) \in 1 .. n + 1 /\ Fresh(used) \notin used  BY <1>4 DEF Fresh
<1> HIDE DEF n
<1> QED  BY <1>1, <1>5

(* The end of a step: what is held was pending and is not the token that   *)
(* goes, and a wait without a token gets one that no other wait has.       *)
LEMMA SettleSafe ==
  ASSUME IInv, Settle
  PROVE  IInv'
<1> DEFINE left == IF Abandoned THEN NoAction ELSE policy
           pending == tokens \ IF Abandoned THEN {step.token} ELSE {}
           p == IF step.action THEN [NoAction EXCEPT !.source = story.wait.command]
                ELSE IF Commits(left) THEN Committed(left) ELSE left
           open == pending \ IF step.resolves THEN {step.prior.token} ELSE {}
           s == Bound(story, open)
<1>1. CASE Fail  BY <1>1, FailSafe
<1>2. CASE ~Fail
  <2>1. /\ step # None /\ story' = s /\ policy' = p /\ step' = None
        /\ tokens' = (open \cup IF s = story THEN {} ELSE {s.wait.token}) \cap TokensOf(s)
    BY <1>2 DEF Settle, Stopped
  <2>2. Sound(story, tokens) /\ None \notin tokens /\ Remembers
    BY <2>1, NoneAssumption DEF IInv
  <2>3. IsFiniteSet(tokens) /\ tokens \subseteq Nat /\ open \subseteq tokens  BY DEF IInv
  <2>4. "source" \in DOMAIN policy'
    <3>1. "source" \in DOMAIN left  BY DEF IInv, NoAction
    <3> HIDE DEF left
    <3>2. "source" \in DOMAIN p  BY <3>1 DEF NoAction, Committed
    <3> QED  BY <2>1, <3>2
  <2>5. ASSUME NEW w \in Held(story), w.token # None PROVE w.token \in open
    <3>1. w.token \in tokens
      BY <2>2, <2>5 DEF Sound, FramesBound, FrontBound, Held, Under
    <3>2. Abandoned => w.token # step.token
      BY <2>2, <2>5 DEF Abandoned, Remembers
    <3>3. step.resolves => w.token # step.prior.token  BY <2>2 DEF Remembers, Gone
    <3> QED  BY <3>1, <3>2, <3>3
  <2> HIDE DEF left, pending, p, open
  <2>6. \A i \in DOMAIN story.frames : Under(story, i) # None =>
          Under(story, i) \in Held(story) /\ Under(story, i).token \in open
    <3> TAKE i \in DOMAIN story.frames
    <3> HAVE Under(story, i) # None
    <3>1. Under(story, i) \in Held(story)  BY DEF Held, Under
    <3>2. Under(story, i).token # None  BY <2>2 DEF Sound, FramesBound
    <3> QED  BY <2>5, <3>1, <3>2
  <2>7. CASE story.wait = None \/ story.wait = step.prior \/ story.wait.token # None
    <3>1. s = story  BY <2>7 DEF Bound
    <3> HIDE DEF s
    <3>2. story' = story /\ tokens' = open \cap TokensOf(story)  BY <2>1, <3>1
    <3>3. story.wait # None =>
            story.wait.token # None /\ story.wait \in Held(story) /\ story.wait.token \in open
      BY <2>2, <2>5, <2>7 DEF Remembers, Held
    <3>4. FramesBound(story', tokens')  BY <2>6, <3>2 DEF FramesBound, TokensOf, Under
    <3>5. FrontBound(story', tokens')  BY <3>2, <3>3 DEF FrontBound, TokensOf
    <3>6. Sound(story', tokens')  BY <2>2, <3>2, <3>4, <3>5 DEF Sound
    <3>7. IsFiniteSet(tokens') /\ tokens' \subseteq Nat  BY <2>3, <3>2, FS_Subset
    <3> QED  BY <2>1, <2>4, <3>2, <3>3, <3>6, <3>7 DEF IInv
  <2>8. CASE ~(story.wait = None \/ story.wait = step.prior \/ story.wait.token # None)
    <3> DEFINE used == open \cup (TokensOf(story) \ {None})
               t == Fresh(used)
    <3>1. used \subseteq tokens  BY <2>3, <2>5 DEF TokensOf
    <3>2. IsFiniteSet(used)  BY <2>3, <3>1, FS_Subset
    <3>3. t \in Nat /\ t \notin used /\ t # None
      <4> HIDE DEF used
      <4> QED  BY <3>2, FreshIsNew, NoneAssumption
    <3>4. s = [story EXCEPT !.wait.token = t]  BY <2>8 DEF Bound
    <3> HIDE DEF s, t
    <3>5. Fields(story) /\ "token" \in DOMAIN story.wait
      BY <2>2, <2>8, NoneAssumption, <2>3 DEF Sound, FrontBound
    <3>6. Fields(s) /\ s.frames = story.frames /\ s.wait.token = t  BY <3>4, <3>5 DEF Fields
    <3>7. s # story  BY <2>8, <3>3, <3>6
    <3>8. tokens' = (open \cup {t}) \cap TokensOf(s)  BY <2>1, <3>6, <3>7
    <3>9. FramesBound(s, tokens')
      BY <2>6, <3>6, <3>8 DEF FramesBound, Under, TokensOf, Held
    <3>10. FramesDiffer(s)  BY <2>2, <3>6 DEF Sound, FramesDiffer, Under
    <3>11. FrontDiffers(s)  BY <2>6, <3>3, <3>6 DEF FrontDiffers, Under
    <3>12. FrontBound(s, tokens')  BY <3>6, <3>8 DEF FrontBound, TokensOf, Held
    <3>13. Framed(s.frames)  BY <2>2, <3>6 DEF Sound
    <3>14. Sound(story', tokens')
      BY <2>1, <3>6, <3>9, <3>10, <3>11, <3>12, <3>13 DEF Sound
    <3>15. IsFiniteSet(tokens') /\ tokens' \subseteq Nat
      <4>1. IsFiniteSet(tokens \cup {t}) /\ tokens \cup {t} \subseteq Nat
        BY <2>3, <3>3, FS_AddElement
      <4> QED  BY <2>3, <3>8, <4>1, FS_Subset
    <3> QED  BY <2>1, <2>4, <3>3, <3>6, <3>14, <3>15 DEF IInv
  <2> QED  BY <2>7, <2>8
<1> QED  BY <1>1, <1>2

--------------------------------------------------------------------------------
(* The theorems *)

SkippingAllowed == story.allowed

LEMMA InitSafe == Init => IInv
<1> SUFFICES ASSUME Init PROVE IInv  OBVIOUS
<1>1. Closes(story)  BY DEF Init, NewStory, Closes, Fields
<1>2. Sound(story, tokens)  BY <1>1, ClosesSound
<1>3. IsFiniteSet(tokens) /\ tokens \subseteq Nat  BY FS_EmptySet DEF Init
<1>4. "source" \in DOMAIN policy  BY DEF Init, NoAction
<1>5. step = None /\ story.wait = None  BY DEF Init, NewStory
<1> QED  BY <1>2, <1>3, <1>4, <1>5 DEF IInv

LEMMA NextSafe ==
  ASSUME IInv, NoneIsNoStep, SkippingAllowed, [Next]_vars
  PROVE  IInv'
<1>1. CASE Player  BY <1>1, PlayerSafe DEF SkippingAllowed
<1>2. CASE Host  BY <1>2, HostSafe
<1>3. CASE Interpreter  BY <1>3, InterpreterSafe
<1>4. CASE Settle  BY <1>4, SettleSafe
<1>5. CASE UNCHANGED vars
  BY <1>5 DEF vars, IInv, Sound, Fields, Framed, FramesBound, FramesDiffer, FrontBound,
              FrontDiffers, Under, Ready, Remembers, Gone, Held
<1> QED  BY <1>1, <1>2, <1>3, <1>4, <1>5 DEF Next

(* As long as the story has not forbidden skipping, what the session knows *)
(* of its waits is an invariant of the interpreter, the pages, the policy  *)
(* action and the settling of a step together.                             *)
THEOREM SessionInvariant ==
  ASSUME NoneIsNoStep
  PROVE  Spec /\ []SkippingAllowed => []IInv
<1>1. Init => IInv  BY InitSafe
<1>2. IInv /\ SkippingAllowed /\ [Next]_vars => IInv'  BY NextSafe
<1> QED  BY <1>1, <1>2, PTL DEF Spec

(* As long as the story has not forbidden skipping, for every script and   *)
(* every order of commands: between two steps a wait that the story will   *)
(* come back to has a pending token of its own (apply_command_at_step), so *)
(* its answer can be delivered.                                            *)
THEOREM HeldWaitsStayPending ==
  ASSUME NoneIsNoStep
  PROVE  Spec /\ []SkippingAllowed => []HeldWaitsArePending
<1>1. IInv => HeldWaitsArePending
  <2> SUFFICES ASSUME IInv, Ready
               PROVE  /\ TokensOf(story) \subseteq tokens
                      /\ \A w, v \in Held(story) : w.token = v.token => w = v
    BY DEF HeldWaitsArePending
  <2>1. Sound(story, tokens)  BY DEF IInv
  <2>2. story.wait # None => story.wait.token # None  BY DEF IInv, Ready
  <2>3. \A w \in Held(story) : w.token \in tokens
    BY <2>1, <2>2 DEF Sound, FramesBound, FrontBound, Held, Under
  <2> QED  BY <2>1, <2>3, HeldDiffer DEF TokensOf
<1> QED  BY <1>1, SessionInvariant, PTL
-------------------------------------------------------------------------------
(* Where the story is: cursors are in the script, what was read as well.   *)

OnScript(c) ==
  c # None => /\ {"state", "ordinal"} \subseteq DOMAIN c
              /\ c.state \in DOMAIN Script /\ c.ordinal \in Nat \ {0}

Calls(f) == Framed(f) /\ \A i \in DOMAIN f : OnScript(f[i])
Pages(f) == Framed(f) /\ \A i \in DOMAIN f : OnScript(f[i].cursor)

(* No command of the script forbids skipping. *)
ScriptAllows == \A c \in Commands : c.op = "stage" => c.allowed

Located(s) ==
  /\ {"cursor", "calls", "frames", "read", "allowed", "wait", "choice", "reached", "vars"} \subseteq DOMAIN s
  /\ OnScript(s.cursor) /\ Calls(s.calls) /\ Pages(s.frames)
  /\ ScriptAllows => s.allowed
  /\ \A id \in s.read : \E q \in DOMAIN Script : \E i \in DOMAIN Script[q] : Script[q][i].id = id

(* A sequence with its last element dropped. *)
LEMMA LastDropped ==
  ASSUME NEW f, Framed(f), f # <<>>
  PROVE  LET n == Len(f)
             less == SubSeq(f, 1, n - 1)
         IN  /\ n \in DOMAIN f
             /\ Framed(less)
             /\ \A i \in DOMAIN less : i \in DOMAIN f /\ less[i] = f[i]
<1> DEFINE S == {f[i] : i \in DOMAIN f}
           n == Len(f)
           less == SubSeq(f, 1, n - 1)
<1>1. f \in Seq(S)  BY DEF Framed
<1>2. n \in Nat \ {0} /\ DOMAIN f = 1 .. n  BY <1>1, LenProperties, EmptySeq
<1>3. 1 \in Int /\ n - 1 \in Int /\ \A i \in 1 .. n - 1 : f[i] \in S  BY <1>2
<1> HIDE DEF n, S
<1>4. /\ less \in Seq(S)
      /\ Len(less) = IF 1 <= n - 1 THEN n - 1 - 1 + 1 ELSE 0
      /\ \A i \in 1 .. n - 1 - 1 + 1 : less[i] = f[1 + i - 1]
  BY <1>3, SubSeqProperties
<1> HIDE DEF less
<1>5. DOMAIN less = 1 .. n - 1  BY <1>2, <1>4, LenProperties
<1>6. \A i \in 1 .. n - 1 : less[i] = f[i]
  <2>1. TAKE i \in 1 .. n - 1
  <2>2. 1 + i - 1 = i /\ i \in 1 .. n - 1 - 1 + 1  BY <1>2
  <2> QED  BY <1>4, <2>2
<1>7. Framed(less)  BY <1>4, SequenceIsFramed
<1>8. n \in DOMAIN f /\ \A i \in DOMAIN less : i \in DOMAIN f /\ less[i] = f[i]
  BY <1>2, <1>5, <1>6
<1> QED  BY <1>7, <1>8 DEF n, less

LEMMA CallsAndPages ==
  /\ Calls(<<>>) /\ Pages(<<>>)
  /\ \A f, c : Calls(f) /\ OnScript(c) => Calls(Append(f, c))
  /\ \A f, x : Pages(f) /\ OnScript(x.cursor) => Pages(Append(f, x))
  /\ \A f : Calls(f) /\ f # <<>> =>
       Calls(SubSeq(f, 1, Len(f) - 1)) /\ OnScript(f[Len(f)])
  /\ \A f : Pages(f) /\ f # <<>> =>
       Pages(SubSeq(f, 1, Len(f) - 1)) /\ OnScript(f[Len(f)].cursor)
<1>1. Calls(<<>>) /\ Pages(<<>>)
  <2>1. Framed(<<>>)  BY EmptySeq, SequenceIsFramed
  <2> QED  BY <2>1 DEF Calls, Pages
<1>2. ASSUME NEW f, NEW c, Calls(f), OnScript(c) PROVE Calls(Append(f, c))
  <2> DEFINE n == Len(f)
             more == Append(f, c)
  <2>1. /\ n \in Nat /\ DOMAIN f = 1 .. n /\ DOMAIN more = 1 .. n + 1
        /\ Framed(more)
        /\ \A i \in 1 .. n : more[i] = f[i]
        /\ more[n + 1] = c
    BY <1>2, FrameAppended DEF Calls
  <2> HIDE DEF n, more
  <2>2. \A i \in DOMAIN more : i \in 1 .. n \/ i = n + 1  BY <2>1
  <2>3. Calls(more)  BY <1>2, <2>1, <2>2 DEF Calls
  <2> QED  BY <2>3 DEF more
<1>3. ASSUME NEW f, NEW x, Pages(f), OnScript(x.cursor) PROVE Pages(Append(f, x))
  <2> DEFINE n == Len(f)
             more == Append(f, x)
  <2>1. /\ n \in Nat /\ DOMAIN f = 1 .. n /\ DOMAIN more = 1 .. n + 1
        /\ Framed(more)
        /\ \A i \in 1 .. n : more[i] = f[i]
        /\ more[n + 1] = x
    BY <1>3, FrameAppended DEF Pages
  <2> HIDE DEF n, more
  <2>2. \A i \in DOMAIN more : i \in 1 .. n \/ i = n + 1  BY <2>1
  <2>3. Pages(more)  BY <1>3, <2>1, <2>2 DEF Pages
  <2> QED  BY <2>3 DEF more
<1>4. ASSUME NEW f, Calls(f), f # <<>>
      PROVE  Calls(SubSeq(f, 1, Len(f) - 1)) /\ OnScript(f[Len(f)])
  BY <1>4, LastDropped DEF Calls
<1>5. ASSUME NEW f, Pages(f), f # <<>>
      PROVE  Pages(SubSeq(f, 1, Len(f) - 1)) /\ OnScript(f[Len(f)].cursor)
  BY <1>5, LastDropped DEF Pages
<1> QED  BY <1>1, <1>2, <1>3, <1>4, <1>5

(* The command at a cursor of the script is a command of the script, and   *)
(* every command read has a place.                                         *)
LEMMA CurrentIsCommand ==
  ASSUME Located(story), story.cursor # None, ~AtEnd
  PROVE  /\ Current \in Commands
         /\ story.cursor.state \in DOMAIN Script
         /\ story.cursor.ordinal \in DOMAIN Script[story.cursor.state]
<1> DEFINE q == story.cursor.state
           i == story.cursor.ordinal
<1>1. q \in DOMAIN Script /\ i \in Nat \ {0}  BY DEF Located, OnScript
<1>2. Script[q] \in Seq(Commands)  BY <1>1, CommandAssumption
<1>3. Len(Script[q]) \in Nat /\ DOMAIN Script[q] = 1 .. Len(Script[q])  BY <1>2, LenProperties
<1>4. ~(i > Len(Script[q]))  BY DEF AtEnd
<1>5. i \in DOMAIN Script[q]  BY <1>1, <1>3, <1>4
<1> QED  BY <1>1, <1>5 DEF Commands, Current

LEMMA PlaceOnScript ==
  ASSUME NEW id,
         \E q \in DOMAIN Script : \E i \in DOMAIN Script[q] : Script[q][i].id = id
  PROVE  OnScript(Place(id))
<1> DEFINE Spots == UNION {{[state |-> q, ordinal |-> i] : i \in DOMAIN Script[q]} :
                              q \in DOMAIN Script}
<1>0. PICK q \in DOMAIN Script : \E i \in DOMAIN Script[q] : Script[q][i].id = id  OBVIOUS
<1>1. PICK i \in DOMAIN Script[q] : Script[q][i].id = id  BY <1>0
<1>2. \E c \in Spots : Script[c.state][c.ordinal].id = id
  <2>1. [state |-> q, ordinal |-> i] \in Spots  OBVIOUS
  <2> HIDE DEF Spots
  <2> QED  BY <1>1, <2>1
<1>3. Place(id) \in Spots
  <2> HIDE DEF Spots
  <2>1. Place(id) = CHOOSE c \in Spots : Script[c.state][c.ordinal].id = id
    BY DEF Place, Spots
  <2> QED  BY <1>2, <2>1
<1>4. PICK r \in DOMAIN Script : \E k \in DOMAIN Script[r] : Place(id) = [state |-> r, ordinal |-> k]
  BY <1>3
<1>5. PICK j \in DOMAIN Script[r] : Place(id) = [state |-> r, ordinal |-> j]  BY <1>4
<1>6. j \in Nat \ {0}
  <2>1. Script[r] \in Seq(Commands)  BY CommandAssumption
  <2>2. DOMAIN Script[r] = 1 .. Len(Script[r]) /\ Len(Script[r]) \in Nat  BY <2>1, LenProperties
  <2> QED  BY <2>2
<1> QED  BY <1>4, <1>5, <1>6 DEF OnScript

LEMMA HelpersLocate ==
  ASSUME NEW s, Located(s)
  PROVE  /\ \A q : Located(Go(s, q))
         /\ Located(Unblocked(s))
         /\ s.cursor # None => Located(Past(s))
         /\ \A kind, id : Located(Blocked(s, kind, id))
         /\ \A page : Located(Opened(s, page))
<1>1. ASSUME NEW r, NEW q, Located(r) PROVE Located(Go(r, q))
  <2>1. OnScript(IF q \in DOMAIN Script THEN [state |-> q, ordinal |-> 1] ELSE None)
    BY DEF OnScript
  <2> QED  BY <1>1, <2>1 DEF Located, Go
<1>2. Located(Unblocked(s))  BY DEF Located, Unblocked
<1>3. ASSUME s.cursor # None PROVE Located(Past(s))
  <2> DEFINE c == [s.cursor EXCEPT !.ordinal = @ + 1]
  <2>1. OnScript(c)  BY <1>3 DEF Located, OnScript
  <2>2. Past(s) = [s EXCEPT !.cursor = c]  BY DEF Past
  <2> HIDE DEF c
  <2> QED  BY <2>1, <2>2 DEF Located
<1>4. \A kind, id : Located(Blocked(s, kind, id))  BY DEF Located, Blocked
<1>5. ASSUME NEW page PROVE Located(Opened(s, page))
  <2> DEFINE frame == [cursor |-> s.cursor, wait |-> s.wait, choice |-> s.choice]
             r == [Unblocked(s) EXCEPT !.frames = Append(@, frame)]
  <2>1. Pages(Append(s.frames, frame))  BY CallsAndPages DEF Located
  <2>2. Located(r)  BY <1>2, <2>1 DEF Located, Unblocked
  <2>3. Opened(s, page) = Go(r, Entry[page])  BY DEF Opened
  <2> HIDE DEF r
  <2> QED  BY <1>1, <2>2, <2>3
<1> QED  BY <1>1, <1>2, <1>3, <1>4, <1>5

LEMMA PagesLocate ==
  ASSUME NEW s, Located(s)
  PROVE  /\ \A page : Located(Switched(s, page))
         /\ s.frames # <<>> => Located(Returned(s))
<1>1. \A page : Located(Switched(s, page))
  <2>1. Located(Unblocked(s))  BY HelpersLocate
  <2> QED  BY <2>1, HelpersLocate DEF Switched
<1>2. ASSUME s.frames # <<>> PROVE Located(Returned(s))
  <2> DEFINE frame == s.frames[Len(s.frames)]
  <2>1. Returned(s) = [s EXCEPT !.cursor = frame.cursor, !.wait = frame.wait,
                                !.choice = frame.choice,
                                !.frames = SubSeq(@, 1, Len(@) - 1)]
    BY DEF Returned
  <2>2. Pages(SubSeq(s.frames, 1, Len(s.frames) - 1)) /\ OnScript(frame.cursor)
    BY <1>2, CallsAndPages DEF Located
  <2> HIDE DEF frame
  <2> QED  BY <2>1, <2>2 DEF Located
<1> QED  BY <1>1, <1>2

LEMMA PlayerLocates ==
  ASSUME Located(story), Player
  PROVE  Located(story')
<1>0. \A r, resolves, fuel : Turn(r, resolves, fuel) \/ Command(r, resolves) => story' = r
  BY DEF Command, Turn, Begin
<1>00. Fail => story' = story  BY DEF Fail
<1>1. Located(Cleared)
  <2> DEFINE r == [story EXCEPT !.calls = <<>>, !.frames = <<>>]
  <2>1. Located(r)  BY CallsAndPages DEF Located
  <2> QED  BY <2>1, HelpersLocate DEF Cleared
<1>2. CASE Launch  BY <1>0, <1>1, <1>2, HelpersLocate DEF Launch
<1>3. CASE Advance
  <2>1. story' = story \/ story' = [story EXCEPT !.reading = "manual"]
        \/ story' = [story EXCEPT !.wait = None]
    BY <1>0, <1>3 DEF Advance
  <2> QED  BY <2>1 DEF Located
<1>4. CASE Choose
  <2>1. PICK option : story' = story \/ story' = Go(Unblocked(story), option)
                      \/ story' = Unblocked(story)
    BY <1>0, <1>00, <1>4 DEF Choose
  <2> QED  BY <2>1, HelpersLocate
<1>5. CASE OpenSystem
  <2>1. PICK page : story' = story \/ story' = Opened(story, page)
    BY <1>0, <1>00, <1>5 DEF OpenSystem
  <2> QED  BY <2>1, HelpersLocate
<1>6. CASE SwitchSystemPage
  <2>1. PICK page : story' = Switched(story, page)  BY <1>0, <1>6 DEF SwitchSystemPage
  <2> QED  BY <2>1, PagesLocate
<1>7. CASE ReturnSystem
  <2>1. story.frames # <<>> /\ story' = Returned(story)  BY <1>0, <1>7 DEF ReturnSystem
  <2> QED  BY <2>1, PagesLocate
<1>8. CASE SetReadingMode
  <2>1. PICK mode :
          \/ story' = [story EXCEPT !.reading = mode]
          \/ story' = [[story EXCEPT !.reading = mode] EXCEPT !.wait = None]
    BY <1>0, <1>8 DEF SetReadingMode
  <2> QED  BY <2>1 DEF Located
<1>9. CASE SetSkip
  <2>1. PICK mode : story' = [story EXCEPT !.skip = mode]  BY <1>0, <1>9 DEF SetSkip
  <2> QED  BY <2>1 DEF Located
<1>10. CASE InvokeSystemAction
  <2>1. PICK a \in SystemActions :
          /\ a.ends = "returns" => story.frames # <<>>
          /\ Fail \/ story' = [Effect(a) EXCEPT !.vars = Mutated(story.vars, a.writes)]
    BY <1>0, <1>10 DEF InvokeSystemAction
  <2>2. Located(Effect(a))
    <3> DEFINE r == [story EXCEPT !.frames = <<>>]
    <3>1. Located(r)  BY CallsAndPages DEF Located
    <3> HIDE DEF r
    <3>2. Located(Go(Unblocked(r), a.to))  BY <3>1, HelpersLocate
    <3>3. Located(Switched(story, a.to))  BY PagesLocate
    <3>4. a.ends = "returns" => Located(Returned(story))  BY <2>1, PagesLocate
    <3> QED  BY <3>2, <3>3, <3>4, KindsOfActions DEF Effect, r
  <2>3. Located([Effect(a) EXCEPT !.vars = Mutated(story.vars, a.writes)])  BY <2>2 DEF Located
  <2> QED  BY <1>00, <2>1, <2>3
<1>11. CASE JumpToState
  <2>1. PICK state : story' = Go(Cleared, state)  BY <1>0, <1>11 DEF JumpToState
  <2> QED  BY <1>1, <2>1, HelpersLocate
<1>12. CASE JumpBacklog
  <2>1. PICK id \in story.read : story' = [Go(Cleared, Place(id).state) EXCEPT !.cursor = Place(id)]
    BY <1>0, <1>12 DEF JumpBacklog
  <2> DEFINE r == Go(Cleared, Place(id).state)
  <2>2. OnScript(Place(id))  BY PlaceOnScript DEF Located
  <2>3. Located(r)  BY <1>1, HelpersLocate
  <2> HIDE DEF r
  <2>4. Located([r EXCEPT !.cursor = Place(id)])  BY <2>2, <2>3 DEF Located
  <2> QED  BY <2>1, <2>4 DEF r
<1> QED
  BY <1>2, <1>3, <1>4, <1>5, <1>6, <1>7, <1>8, <1>9, <1>10, <1>11, <1>12 DEF Player

LEMMA InterpreterLocates ==
  ASSUME Located(story), Interpreter
  PROVE  Located(story')
<1>0. \A s : Runs(s) => story' = s  BY DEF Runs
<1>00. Fail => story' = story  BY DEF Fail
<1> DEFINE Here == Current
           NextUp == Past(story)
<1>1. Running => Located(NextUp) /\ \A kind, id : Located(Blocked(NextUp, kind, id))
  BY HelpersLocate DEF Running
<1>2. NextUp.cursor = [story.cursor EXCEPT !.ordinal = @ + 1] /\ NextUp.read = story.read
  BY DEF Past, Located
<1> HIDE DEF Here, NextUp
<1>3. CASE EndOfState
  <2>1. story' = [story EXCEPT !.cursor = None]  BY <1>0, <1>3 DEF EndOfState
  <2> QED  BY <2>1 DEF Located, OnScript
<1>4. CASE Text
  <2> DEFINE b == Blocked(NextUp, "text", Here.id)
  <2>1. Running /\ ~AtEnd
        /\ (story' = NextUp \/ story' = [b EXCEPT !.read = @ \cup {Here.id}])
    BY <1>0, <1>4 DEF Text, Meets, Here, NextUp
  <2>2. story.cursor.state \in DOMAIN Script
        /\ story.cursor.ordinal \in DOMAIN Script[story.cursor.state]
    BY <2>1, CurrentIsCommand DEF Running
  <2>3. \E q \in DOMAIN Script : \E i \in DOMAIN Script[q] : Script[q][i].id = Here.id
    BY <2>2 DEF Current, Here
  <2>4. Located(b)  BY <1>1, <2>1
  <2> HIDE DEF b
  <2>5. Located([b EXCEPT !.read = @ \cup {Here.id}])  BY <2>3, <2>4 DEF Located
  <2> QED  BY <1>1, <2>1, <2>5
<1>5. CASE Choice
  <2> DEFINE b == Blocked(NextUp, "choice", Here.id)
  <2>1. PICK c : Running /\ (story' = story \/ story' = [b EXCEPT !.choice = c])
    BY <1>0, <1>00, <1>5 DEF Choice, Meets, Here, NextUp
  <2>2. Located(b)  BY <1>1, <2>1
  <2> HIDE DEF b
  <2> QED  BY <2>1, <2>2 DEF Located
<1>6. CASE Jump \/ Branch
  <2>1. PICK q : story' = story \/ story' = Go(story, q)  BY <1>0, <1>00, <1>6 DEF Jump, Branch
  <2> QED  BY <2>1, HelpersLocate
<1>7. CASE Call
  <2> DEFINE b == [story EXCEPT !.calls = Append(@, NextUp.cursor)]
  <2>1. Running /\ (story' = story \/ story' = Go(b, Current.target))
    BY <1>0, <1>00, <1>7 DEF Call, Meets, NextUp
  <2>2. OnScript(NextUp.cursor)  BY <1>1, <2>1 DEF Located
  <2>3. Calls(Append(story.calls, NextUp.cursor))  BY <2>2, CallsAndPages DEF Located
  <2>4. Located(b)  BY <2>3 DEF Located
  <2> HIDE DEF b
  <2> QED  BY <2>1, <2>4, HelpersLocate
<1>8. CASE Return
  <2>1. CASE Fail  BY <1>00, <2>1
  <2>2. CASE ~Fail
    <3>1. story.calls # <<>>
          /\ story' = [story EXCEPT !.cursor = story.calls[Len(story.calls)],
                                    !.calls = SubSeq(@, 1, Len(@) - 1)]
      BY <1>0, <1>8, <2>2 DEF Return
    <3>2. Calls(SubSeq(story.calls, 1, Len(story.calls) - 1))
          /\ OnScript(story.calls[Len(story.calls)])
      BY <3>1, CallsAndPages DEF Located
    <3> QED  BY <3>1, <3>2 DEF Located
  <2> QED  BY <2>1, <2>2
<1>9. CASE Mutate
  <2>1. Running /\ (story' = story \/ story' = [NextUp EXCEPT !.vars = Mutated(@, Here.writes)])
    BY <1>0, <1>00, <1>9 DEF Mutate, Meets, Here, NextUp
  <2> QED  BY <1>1, <2>1 DEF Located
<1>10. CASE SystemPage
  <2>1. Running
        /\ (story' = Blocked(NextUp, "page", Here.id) \/ story' = Opened(NextUp, Here.page))
    BY <1>0, <1>10 DEF SystemPage, Meets, Here, NextUp
  <2> QED  BY <1>1, <2>1, HelpersLocate
<1>11. CASE Stage
  <2>1. Running /\ ~AtEnd /\ Here.op = "stage" /\ story' = [NextUp EXCEPT !.allowed = Here.allowed]
    BY <1>0, <1>11 DEF Stage, Meets, Here, NextUp
  <2>2. Here \in Commands  BY <2>1, CurrentIsCommand DEF Running, Here
  <2>3. ScriptAllows => Here.allowed  BY <2>1, <2>2 DEF ScriptAllows
  <2> QED  BY <1>1, <2>1, <2>3 DEF Located
<1>12. CASE Fence \/ Input \/ PolicyAction
  <2>1. PICK kind, id : Running /\ story' = Blocked(NextUp, kind, id)
    BY <1>0, <1>12 DEF Fence, Input, PolicyAction, Meets, NextUp
  <2> QED  BY <1>1, <2>1
<1>13. CASE SkipWait
  <2>1. story' = story \/ story' = [story EXCEPT !.wait = None]  BY <1>00, <1>13 DEF SkipWait
  <2> QED  BY <2>1 DEF Located
<1> QED
  BY <1>3, <1>4, <1>5, <1>6, <1>7, <1>8, <1>9, <1>10, <1>11, <1>12, <1>13 DEF Interpreter

LEMMA HostLocates ==
  ASSUME Located(story), Host
  PROVE  Located(story')
<1>1. PICK vs : \/ story' = story \/ story' = [story EXCEPT !.wait = None]
                \/ story' = [story EXCEPT !.wait = None, !.vars = vs]
  BY DEF Host, CompleteWait, Poll, Await, Complete, ReadDone, Restore, Command, Turn, Begin
<1> QED  BY <1>1 DEF Located

LEMMA SettleLocates ==
  ASSUME Located(story), Settle
  PROVE  Located(story')
<1>1. PICK pending : story' = story \/ story' = Bound(story, pending)  BY DEF Settle, Fail
<1>2. PICK t : story' = story \/ story' = [story EXCEPT !.wait.token = t]
  BY <1>1 DEF Bound
<1> QED  BY <1>2 DEF Located

LEMMA NextLocates ==
  ASSUME Located(story), [Next]_vars
  PROVE  Located(story')
<1>1. CASE UNCHANGED vars  BY <1>1 DEF vars
<1> QED
  BY <1>1, PlayerLocates, InterpreterLocates, HostLocates, SettleLocates DEF Next

--------------------------------------------------------------------------------
(* The reads of the policy action                                          *)

AwaitsFollow(p) ==
  /\ {"source", "reads", "waiting", "awaits"} \subseteq DOMAIN p
  /\ p.reads \in Seq({"pending", "done"}) /\ Len(p.reads) <= MaxReads
  /\ DOMAIN p.awaits = PendingReads(p)
  /\ \A i, j \in DOMAIN p.awaits : p.awaits[i] = p.awaits[j] => i = j

ReadsInv ==
  /\ AwaitsFollow(policy)
  /\ ReadTokens(policy) = readings
  /\ policy.source = None => policy.reads = <<>>

LEMMA ReadingsAreFew ==
  ASSUME ReadsInv
  PROVE  IsFiniteSet(readings) /\ Cardinality(readings) <= MaxReads
<1> DEFINE n == Len(policy.reads)
           D == PendingReads(policy)
           f == [i \in D |-> policy.awaits[i]]
<1>1. n \in Nat /\ DOMAIN policy.reads = 1 .. n /\ n <= MaxReads /\ MaxReads \in Nat
  BY LenProperties, BoundAssumption DEF ReadsInv, AwaitsFollow
<1>2. D \subseteq 1 .. n  BY <1>1 DEF PendingReads
<1> HIDE DEF n
<1>3. IsFiniteSet(1 .. n) /\ Cardinality(1 .. n) = n  BY <1>1, FS_Interval
<1>4. IsFiniteSet(D) /\ Cardinality(D) <= n  BY <1>2, <1>3, FS_Subset
<1>5. f \in Surjection(D, readings)
  <2>1. readings = {policy.awaits[i] : i \in D}  BY DEF ReadsInv, AwaitsFollow, ReadTokens
  <2> HIDE DEF D
  <2> QED  BY <2>1 DEF Surjection
<1> HIDE DEF D, f
<1>6. IsFiniteSet(readings) /\ Cardinality(readings) <= Cardinality(D)
  BY <1>4, <1>5, FS_Surjection
<1>7. Cardinality(readings) \in Nat /\ Cardinality(D) \in Nat
  BY <1>4, <1>6, FS_CardinalityType
<1> QED  BY <1>1, <1>4, <1>6, <1>7

(* There are tokens for all the reads an action may add.                   *)
LEMMA NewTokens ==
  ASSUME ReadsInv, NEW D \in SUBSET (1 .. MaxReads)
  PROVE  LET free == (1 .. 2 * MaxReads) \ readings
         IN  \E f \in [D -> free] : \A i, j \in DOMAIN f : f[i] = f[j] => i = j
<1> DEFINE free == (1 .. 2 * MaxReads) \ readings
           m == Cardinality(free)
           both == (1 .. 2 * MaxReads) \cap readings
<1>1. MaxReads \in Nat /\ 2 * MaxReads \in Nat  BY BoundAssumption
<1>2. IsFiniteSet(1 .. 2 * MaxReads) /\ Cardinality(1 .. 2 * MaxReads) = 2 * MaxReads
  BY <1>1, FS_Interval
<1>3. IsFiniteSet(free)
      /\ Cardinality(free) = Cardinality(1 .. 2 * MaxReads) - Cardinality(both)
  BY <1>2, FS_Difference
<1>4. IsFiniteSet(readings) /\ Cardinality(readings) <= MaxReads  BY ReadingsAreFew
<1>5. IsFiniteSet(both) /\ Cardinality(both) <= Cardinality(readings)
  BY <1>4, FS_Subset
<1>6. Cardinality(both) \in Nat /\ Cardinality(readings) \in Nat /\ m \in Nat
  BY <1>3, <1>4, <1>5, FS_CardinalityType
<1>7. MaxReads <= m
  <2> HIDE DEF both, free
  <2> QED  BY <1>1, <1>2, <1>3, <1>4, <1>5, <1>6
<1>8. PICK g : g \in Bijection(1 .. m, free)
  BY <1>3, FS_CardinalityType DEF ExistsBijection
<1> HIDE DEF free, m
<1>9. /\ g \in [1 .. m -> free]
      /\ \A i, j \in 1 .. m : g[i] = g[j] => i = j
  BY <1>8 DEF Bijection, Injection, IsInjective
<1>10. D \subseteq 1 .. m  BY <1>1, <1>6, <1>7
<1> DEFINE f == [i \in D |-> g[i]]
<1>11. f \in [D -> free] /\ \A i, j \in DOMAIN f : f[i] = f[j] => i = j  BY <1>9, <1>10
<1> QED  BY <1>11 DEF free

(* Awaits synchronized with the reads follow them, and a read that stays   *)
(* pending keeps its token.                                                *)
LEMMA SyncFollows ==
  ASSUME ReadsInv, NEW reads \in Seq({"pending", "done"}), Len(reads) <= MaxReads
  PROVE  LET p == SyncAwaits([policy EXCEPT !.reads = reads])
         IN  AwaitsFollow(p) /\ p.source = policy.source /\ p.reads = reads
<1> DEFINE r == [policy EXCEPT !.reads = reads]
           kept == PendingReads(r) \cap DOMAIN r.awaits
           free == (1 .. 2 * MaxReads) \ readings
           Distinct(f) == \A i, j \in DOMAIN f : f[i] = f[j] => i = j
           new == CHOOSE f \in [PendingReads(r) \ kept -> free] : Distinct(f)
           awaits == [i \in PendingReads(r) |-> IF i \in kept THEN r.awaits[i] ELSE new[i]]
           p == [r EXCEPT !.awaits = awaits]
<1>1. /\ {"source", "reads", "waiting", "awaits"} \subseteq DOMAIN r
      /\ r.reads = reads /\ r.source = policy.source /\ r.awaits = policy.awaits
  BY DEF ReadsInv, AwaitsFollow
<1>2. SyncAwaits(r) = p  BY DEF SyncAwaits
<1>3. PendingReads(r) \subseteq 1 .. MaxReads
  <2>1. DOMAIN reads = 1 .. Len(reads) /\ Len(reads) \in Nat  BY LenProperties
  <2> QED  BY <1>1, <2>1, BoundAssumption DEF PendingReads
<1> HIDE DEF r
<1>4. new \in [PendingReads(r) \ kept -> free] /\ Distinct(new)
  <2> DEFINE D == PendingReads(r) \ kept
  <2>1. D \in SUBSET (1 .. MaxReads)  BY <1>3
  <2> HIDE DEF D
  <2>2. \E f \in [D -> free] : Distinct(f)  BY <2>1, NewTokens
  <2> HIDE DEF free, Distinct
  <2> QED  BY <2>2 DEF D
<1> HIDE DEF new
<1>5. \A i \in kept : r.awaits[i] \in readings
  BY <1>1 DEF ReadsInv, ReadTokens
<1>6. \A i, j \in DOMAIN awaits : awaits[i] = awaits[j] => i = j
  <2> SUFFICES ASSUME NEW i \in PendingReads(r), NEW j \in PendingReads(r), awaits[i] = awaits[j]
               PROVE  i = j
    OBVIOUS
  <2>1. CASE i \in kept /\ j \in kept  BY <1>1, <2>1 DEF ReadsInv, AwaitsFollow
  <2>2. CASE i \in kept /\ j \notin kept  BY <1>4, <1>5, <2>2
  <2>3. CASE i \notin kept /\ j \in kept  BY <1>4, <1>5, <2>3
  <2>4. CASE i \notin kept /\ j \notin kept  BY <1>4, <2>4
  <2> QED  BY <2>1, <2>2, <2>3, <2>4
<1>7. DOMAIN awaits = PendingReads(r)  OBVIOUS
<1> HIDE DEF awaits
<1>8. /\ {"source", "reads", "waiting", "awaits"} \subseteq DOMAIN p
      /\ p.reads = reads /\ p.source = policy.source /\ p.awaits = awaits
  BY <1>1
<1>9. PendingReads(p) = PendingReads(r)  BY <1>1, <1>8 DEF PendingReads
<1> HIDE DEF p
<1>10. AwaitsFollow(p)  BY <1>6, <1>7, <1>8, <1>9 DEF AwaitsFollow
<1> QED  BY <1>2, <1>8, <1>10 DEF r

LEMMA SequenceMade ==
  ASSUME NEW S, NEW n \in Nat, NEW f \in [1 .. n -> S]
  PROVE  f \in Seq(S) /\ Len(f) = n
<1>1. f \in Seq(S)  BY SeqDef
<1>2. DOMAIN f = 1 .. n /\ DOMAIN f = 1 .. Len(f) /\ Len(f) \in Nat  BY <1>1, LenProperties
<1>3. Len(f) = n
  <2>1. \A m, k \in Nat : 1 .. m = 1 .. k => ~(m < k)
    <3> SUFFICES ASSUME NEW m \in Nat, NEW k \in Nat, 1 .. m = 1 .. k, m < k PROVE FALSE
      OBVIOUS
    <3>1. k \in 1 .. k /\ k \notin 1 .. m  OBVIOUS
    <3> QED  BY <3>1
  <2>2. ~(n < Len(f)) /\ ~(Len(f) < n)  BY <1>2, <2>1
  <2> QED  BY <1>2, <2>2
<1> QED  BY <1>1, <1>3

LEMMA NoActionFollows ==
  ASSUME NEW source
  PROVE  LET p == [NoAction EXCEPT !.source = source]
         IN  /\ AwaitsFollow(p) /\ ReadTokens(p) = {} /\ PendingReads(p) = {}
             /\ p.source = source /\ p.reads = <<>>
<1> DEFINE p == [NoAction EXCEPT !.source = source]
<1>1. /\ {"source", "reads", "waiting", "awaits"} \subseteq DOMAIN p
      /\ p.source = source /\ p.reads = <<>> /\ p.awaits = <<>>
  BY DEF NoAction
<1>2. <<>> \in Seq({"pending", "done"}) /\ Len(<<>>) = 0 /\ DOMAIN <<>> = {}
  <2>1. <<>> \in Seq({"pending", "done"}) /\ Len(<<>>) = 0  BY EmptySeq
  <2>2. DOMAIN <<>> = 1 .. 0  BY <2>1, LenProperties
  <2> QED  BY <2>1, <2>2
<1> HIDE DEF p
<1>3. PendingReads(p) = {} /\ ReadTokens(p) = {}  BY <1>1, <1>2 DEF PendingReads, ReadTokens
<1>4. AwaitsFollow(p)  BY <1>1, <1>2, <1>3, BoundAssumption DEF AwaitsFollow
<1> QED  BY <1>1, <1>3, <1>4 DEF p

LEMMA NoActionItself ==
  /\ AwaitsFollow(NoAction) /\ ReadTokens(NoAction) = {} /\ PendingReads(NoAction) = {}
  /\ NoAction.source = None /\ NoAction.reads = <<>>
<1>1. [NoAction EXCEPT !.source = None] = NoAction  BY DEF NoAction
<1> QED  BY <1>1, NoActionFollows

(* A read that is committed takes its await with it. *)
LEMMA CommittedFollows ==
  ASSUME ReadsInv, Commits(policy)
  PROVE  LET p == Committed(policy)
         IN  /\ AwaitsFollow(p) /\ p.source = policy.source
             /\ ReadTokens(p) = readings \ {policy.awaits[worker.read]}
<1> DEFINE k == worker.read
           p == Committed(policy)
           reads == [policy.reads EXCEPT ![k] = "done"]
           awaits == [i \in DOMAIN policy.awaits \ {k} |-> policy.awaits[i]]
<1>1. k \in PendingReads(policy) /\ k \in DOMAIN policy.reads  BY DEF Commits, PendingReads
<1>2. /\ {"source", "reads", "waiting", "awaits"} \subseteq DOMAIN p
      /\ p.source = policy.source /\ p.reads = reads /\ p.awaits = awaits
  BY DEF Committed, ReadsInv, AwaitsFollow
<1>3. reads \in Seq({"pending", "done"}) /\ Len(reads) <= MaxReads
  <2> DEFINE n == Len(policy.reads)
  <2>1. n \in Nat /\ policy.reads \in [1 .. n -> {"pending", "done"}] /\ n <= MaxReads
    BY LenProperties DEF ReadsInv, AwaitsFollow
  <2> HIDE DEF n, k
  <2>2. reads \in [1 .. n -> {"pending", "done"}]  BY <2>1
  <2> HIDE DEF reads
  <2> QED  BY <2>1, <2>2, SequenceMade
<1>4. PendingReads(p) = PendingReads(policy) \ {k}
  <2> HIDE DEF k, p
  <2> QED  BY <1>1, <1>2 DEF PendingReads
<1>5. DOMAIN policy.awaits = PendingReads(policy)
      /\ \A i, j \in DOMAIN policy.awaits : policy.awaits[i] = policy.awaits[j] => i = j
  BY DEF ReadsInv, AwaitsFollow
<1> HIDE DEF p, k, reads
<1>6. AwaitsFollow(p)  BY <1>2, <1>3, <1>4, <1>5 DEF AwaitsFollow
<1>7. ReadTokens(p) = ReadTokens(policy) \ {policy.awaits[k]}
  BY <1>1, <1>2, <1>5 DEF ReadTokens
<1> QED  BY <1>2, <1>6, <1>7 DEF p, k, ReadsInv

--------------------------------------------------------------------------------
(* The wait of the policy action                                           *)

Owned(s) == {w \in Held(s) : w.command \in Actions}

(* At rest the one wait of an action in the story is that of the action    *)
(* there is.                                                               *)
OneOwned ==
  IF policy.source = None THEN Owned(story) = {}
  ELSE \E w \in Owned(story) : Owned(story) = {w} /\ w.command = policy.source

(* During a step the waits of an action are that action's, but for the     *)
(* wait of the action the step has asked for.                              *)
OwnedMidStep ==
  /\ step.action \in BOOLEAN
  /\ \A w \in Owned(story) : w # story.wait \/ ~step.action =>
       policy.source # None /\ w.command = policy.source
  /\ ~step.action => \A w, v \in Owned(story) : w = v
  /\ step.action => /\ story.wait # None /\ story.wait.command \in Actions
                    /\ story.wait.kind = "fence" /\ story.wait.token = None

OwnedInv ==
  /\ policy.source # None => policy.source \in Actions
  /\ \A w \in Held(story) : w.command # None
  /\ story.wait # None /\ story.wait.token = None =>
       story.wait = [kind |-> story.wait.kind, command |-> story.wait.command, token |-> None]
  /\ IF step = None THEN ~failed => OneOwned ELSE OwnedMidStep

SaveInv == IInv /\ Located(story) /\ ReadsInv /\ OwnedInv

NoneIsNoRecord ==
  /\ NoneIsNoStep
  /\ \A kind, command, token :
       None # [kind |-> kind, command |-> command, token |-> token]

LEMMA RestBound ==
  ASSUME IInv, Ready
  PROVE  \A w \in Held(story) : w.token # None
<1>1. Sound(story, tokens) /\ None \notin tokens  BY NoneAssumption DEF IInv
<1>2. story.wait # None => story.wait.token # None  BY DEF IInv, Ready
<1> QED  BY <1>1, <1>2 DEF Sound, FramesBound, Held, Under

(* A step begins: no wait is new, and no action either. *)
LEMMA BeginOwns ==
  ASSUME SaveInv, NoneIsNoRecord, Ready, NEW resolves, NEW fuel, NEW p,
         Begin(story', resolves, fuel, p),
         Held(story') \subseteq Held(story),
         \/ policy'.source = policy.source
         \/ policy'.source = None /\ Held(story') = {}
  PROVE  OwnedInv'
<1>1. step' = [prior |-> story.wait, token |-> ActionToken(p), resolves |-> resolves,
              action |-> FALSE, fuel |-> fuel]
  BY DEF Begin
<1>2. step' # None /\ step'.action = FALSE
  <2>1. step' # None  BY <1>1 DEF NoneIsNoRecord, NoneIsNoStep
  <2> QED  BY <1>1, <2>1
<1>3. \A w \in Held(story) : w.token # None  BY RestBound DEF SaveInv
<1>4. OneOwned /\ \A w \in Held(story) : w.command # None
  BY DEF SaveInv, OwnedInv, Ready
<1>5. policy'.source # None => policy'.source \in Actions
  BY DEF SaveInv, OwnedInv
<1>6. Owned(story') \subseteq Owned(story)  BY DEF Owned
<1>7. ASSUME NEW w \in Owned(story')
      PROVE  policy'.source # None /\ w.command = policy'.source
  <2>1. policy'.source = policy.source /\ w \in Owned(story)  BY <1>6, <1>7 DEF Owned
  <2> QED  BY <1>4, <2>1 DEF OneOwned
<1>8. \A w, v \in Owned(story') : w = v  BY <1>4, <1>6 DEF OneOwned
<1>9. OwnedMidStep'  BY <1>2, <1>7, <1>8 DEF OwnedMidStep
<1>10. \A w \in Held(story') : w.command # None /\ w.token # None  BY <1>3, <1>4
<1>11. story'.wait # None => story'.wait.token # None
  <2>1. story'.wait # None => story'.wait \in Held(story')  BY DEF Held
  <2> QED  BY <1>10, <2>1
<1> QED  BY <1>2, <1>5, <1>9, <1>10, <1>11 DEF OwnedInv

LEMMA FailOwns ==
  ASSUME OwnedInv, Fail
  PROVE  OwnedInv'
<1>1. failed' = TRUE /\ step' = None /\ UNCHANGED <<story, policy>>  BY DEF Fail
<1> QED  BY <1>1 DEF OwnedInv

LEMMA PlayerOwns ==
  ASSUME SaveInv, NoneIsNoRecord, Player
  PROVE  OwnedInv'
<1>1. CASE Fail  BY <1>1, FailOwns DEF SaveInv
<1>2. CASE Commanded
  <2>1. PICK resolves, fuel : Ready /\ Turn(story', resolves, fuel) /\ Calms(story', story)
    BY <1>2 DEF Commanded
  <2>2. Sound(story, tokens) /\ None \notin tokens  BY NoneAssumption DEF SaveInv, IInv
  <2>3. Held(story') \subseteq Held(story)  BY <2>1, <2>2, CalmsHeld
  <2>4. Begin(story', resolves, fuel, policy) /\ policy' = policy  BY <2>1 DEF Turn
  <2> QED  BY <2>1, <2>3, <2>4, BeginOwns
<1> QED  BY <1>1, <1>2, PlayerShape DEF SaveInv

LEMMA HostOwns ==
  ASSUME SaveInv, NoneIsNoRecord, Host
  PROVE  OwnedInv'
<1>0. Fields(story) /\ {"source", "reads", "waiting", "awaits"} \subseteq DOMAIN policy
  BY DEF SaveInv, IInv, Sound, ReadsInv, AwaitsFollow
<1>1. CASE CompleteWait
  <2> DEFINE r == [story EXCEPT !.wait = None]
  <2>1. Ready /\ Begin(r, TRUE, MaxWaits, policy) /\ policy' = policy /\ story' = r
    BY <1>1 DEF CompleteWait, Launched, Command, Turn, Begin
  <2>2. Held(story') \subseteq Held(story)  BY <1>0, <2>1 DEF Held, Fields
  <2> HIDE DEF r
  <2> QED  BY <2>1, <2>2, BeginOwns
<1>2. CASE Poll
  <2>1. Ready /\ story.frames = <<>>  BY <1>2 DEF Poll, Launched, PolicyActionPending
  <2>2. CASE Command(story, FALSE)
    <3>1. Begin(story, FALSE, MaxWaits, policy) /\ policy' = policy /\ story' = story
      BY <2>2 DEF Command, Turn, Begin
    <3> QED  BY <2>1, <3>1, BeginOwns
  <2>3. ASSUME NEW dropped, NEW n, Await(dropped, n) PROVE OwnedInv'
    <3>1. Begin(story, FALSE, MaxWaits, policy) /\ story' = story  BY <2>3 DEF Await, Begin
    <3>2. policy'.source = policy.source  BY <1>0, <2>3 DEF Await, SyncAwaits
    <3> QED  BY <2>1, <3>1, <3>2, BeginOwns
  <2>4. CASE Complete
    <3>0. PICK values \in Memory :
            Begin([story EXCEPT !.wait = None, !.vars = Written(@, values)],
                  TRUE, MaxWaits, NoAction)
      BY <2>4 DEF Complete
    <3> DEFINE r == [story EXCEPT !.wait = None, !.vars = Written(@, values)]
    <3>1. Begin(r, TRUE, MaxWaits, NoAction) /\ policy' = NoAction /\ story' = r
      BY <2>4, <3>0 DEF Complete, Begin
    <3>2. story'.wait = None /\ story'.frames = <<>>  BY <1>0, <2>1, <3>1 DEF Fields
    <3>3. Held(story') = {}  BY <3>2 DEF Held
    <3>4. policy'.source = None  BY <3>1, NoActionItself
    <3> HIDE DEF r
    <3> QED  BY <2>1, <3>1, <3>3, <3>4, BeginOwns
  <2> QED  BY <1>2, <2>2, <2>3, <2>4 DEF Poll
<1>3. ASSUME UNCHANGED <<story, step, failed>>, policy'.source = policy.source
      PROVE  OwnedInv'
  BY <1>3 DEF SaveInv, OwnedInv, OneOwned, OwnedMidStep, Owned
<1>4. CASE ReadDone  BY <1>3, <1>4 DEF ReadDone
<1>5. CASE Restore
  <2>1. policy'.source = policy.source  BY <1>0, <1>5 DEF Restore
  <2> QED  BY <1>3, <1>5, <2>1 DEF Restore
<1> QED  BY <1>1, <1>2, <1>4, <1>5 DEF Host

(* A command and its place are known by its id. *)
LEMMA IdsNameCommands ==
  ASSUME NEW c \in Commands, NEW d \in Commands, c.id = d.id
  PROVE  c = d
<1>1. PICK q \in DOMAIN Script : \E i \in DOMAIN Script[q] : c = Script[q][i]  BY DEF Commands
<1>2. PICK r \in DOMAIN Script : \E i \in DOMAIN Script[r] : d = Script[r][i]  BY DEF Commands
<1>3. PICK i \in DOMAIN Script[q] : c = Script[q][i]  BY <1>1
<1>4. PICK j \in DOMAIN Script[r] : d = Script[r][j]  BY <1>2
<1> QED  BY <1>3, <1>4, CommandAssumption

(* A command that is not a policy action has not the id of one. *)
LEMMA OtherCommands ==
  ASSUME NEW c \in Commands
  PROVE  c.id # None /\ (c.op # "policy" => c.id \notin Actions)
BY CommandAssumption, IdsNameCommands DEF Actions

(* The step has not asked for a policy action. *)
AsksNothing == step # None /\ step.action = FALSE

Shaped(s) ==
  s.wait # None /\ s.wait.token = None =>
    s.wait = [kind |-> s.wait.kind, command |-> s.wait.command, token |-> None]

(* A step goes on: what is newly waited for is no policy action. *)
LEMMA RunsOwn ==
  ASSUME SaveInv, AsksNothing, AsksNothing',
         policy' = policy, failed' = failed,
         \A w \in Held(story') :
           w \in Held(story) \/ (w.command \notin Actions /\ w.command # None),
         Shaped(story')
  PROVE  OwnedInv'
<1>0. step # None /\ step.action = FALSE /\ step' # None /\ step'.action = FALSE
  BY DEF AsksNothing
<1>1. OwnedMidStep /\ \A w \in Held(story) : w.command # None
  BY <1>0 DEF SaveInv, OwnedInv
<1>2. Owned(story') \subseteq Owned(story)  BY DEF Owned
<1>3. OwnedMidStep'  BY <1>0, <1>1, <1>2 DEF OwnedMidStep
<1>4. policy.source # None => policy.source \in Actions  BY DEF SaveInv, OwnedInv
<1>5. \A w \in Held(story') : w.command # None  BY <1>1
<1> QED  BY <1>0, <1>3, <1>4, <1>5 DEF OwnedInv, Shaped

LEMMA InterpreterOwns ==
  ASSUME SaveInv, NoneIsNoRecord, Interpreter
  PROVE  OwnedInv'
<1>0. /\ Fields(story) /\ Sound(story, tokens) /\ None \notin tokens
      /\ Located(story) /\ OwnedInv
  BY NoneAssumption DEF SaveInv, IInv, Sound
<1>1. CASE Fail  BY <1>0, <1>1, FailOwns
<1>2. CASE Running /\ Runs(story') /\ (Keeps(story', story) \/ Opens(story', story))
  <2>1. step # None /\ story.wait = None  BY <1>2 DEF Running
  <2>2. step.action = FALSE  BY <1>0, <2>1 DEF OwnedInv, OwnedMidStep
  <2>3. Calms(story', story)
    BY <1>2, <2>1 DEF Calms, Changes, Keeps, Opens
  <2>4. Held(story') \subseteq Held(story)  BY <1>0, <2>3, CalmsHeld
  <2>5. story'.wait = None  BY <1>2, <2>1 DEF Keeps, Opens
  <2>6. UNCHANGED <<step, policy, failed>>  BY <1>2 DEF Runs
  <2>7. AsksNothing /\ AsksNothing'  BY <2>1, <2>2, <2>6 DEF AsksNothing
  <2>8. Shaped(story')  BY <2>5 DEF Shaped
  <2>9. \A w \in Held(story') :
          w \in Held(story) \/ (w.command \notin Actions /\ w.command # None)
    BY <2>4
  <2>10. policy' = policy /\ failed' = failed  BY <2>6
  <2> QED  BY <2>7, <2>8, <2>9, <2>10, RunsOwn
<1>3. CASE /\ Running /\ Runs(story') /\ ~AtEnd /\ Current.op # "policy"
           /\ BlocksOn(story', story, Current.id)
  <2>1. step # None /\ story.wait = None /\ story.cursor # None  BY <1>3 DEF Running
  <2>2. step.action = FALSE  BY <1>0, <2>1 DEF OwnedInv, OwnedMidStep
  <2>3. Current \in Commands  BY <1>0, <1>3, <2>1, CurrentIsCommand
  <2>4. Current.id \notin Actions /\ Current.id # None  BY <1>3, <2>3, OtherCommands
  <2>5. PICK kind : story'.wait = [kind |-> kind, command |-> Current.id, token |-> None]
    BY <1>3 DEF BlocksOn
  <2>6. story'.wait.command = Current.id /\ story'.wait.kind = kind  BY <2>5
  <2>7. \A w \in Held(story') : w \in Held(story) \/ w = story'.wait
    BY <1>3 DEF BlocksOn, Held
  <2>8. UNCHANGED <<step, policy, failed>>  BY <1>3 DEF Runs
  <2>9. story'.wait = [kind |-> story'.wait.kind, command |-> story'.wait.command, token |-> None]
    BY <2>5, <2>6
  <2>10. AsksNothing /\ AsksNothing'  BY <2>1, <2>2, <2>8 DEF AsksNothing
  <2>11. \A w \in Held(story') :
           w \in Held(story) \/ (w.command \notin Actions /\ w.command # None)
    BY <2>4, <2>6, <2>7
  <2>12. Shaped(story')  BY <2>9 DEF Shaped
  <2>13. policy' = policy /\ failed' = failed  BY <2>8
  <2> QED  BY <2>10, <2>11, <2>12, <2>13, RunsOwn
<1>4. CASE PolicyAction
  <2> DEFINE id == Current.id
             w1 == [kind |-> "fence", command |-> id, token |-> None]
  <2>1. /\ Running /\ ~AtEnd /\ Current.op = "policy"
        /\ story' = Blocked(Past(story), "fence", id)
        /\ step' = [step EXCEPT !.action = TRUE]
        /\ UNCHANGED <<tokens, policy, failed>>
    BY <1>4 DEF PolicyAction, Meets
  <2>2. step # None /\ story.wait = None /\ story.cursor # None  BY <2>1 DEF Running
  <2>3. OwnedMidStep /\ ~step.action  BY <1>0, <2>2 DEF OwnedInv, OwnedMidStep
  <2>4. Current \in Commands  BY <1>0, <2>1, <2>2, CurrentIsCommand
  <2>5. id \in Actions /\ id # None  BY <2>1, <2>4, OtherCommands DEF Actions
  <2>6. story'.frames = story.frames /\ story'.wait = w1
    BY <1>0, <2>1 DEF Blocked, Past, Fields
  <2>7. w1 # None  BY DEF NoneIsNoRecord
  <2>8. w1.kind = "fence" /\ w1.command = id /\ w1.token = None  OBVIOUS
  <2>9. step' = [prior |-> step.prior, token |-> step.token, resolves |-> step.resolves,
                 action |-> TRUE, fuel |-> step.fuel]
    <3>1. Remembers  BY <2>2 DEF SaveInv, IInv
    <3> QED  BY <2>1, <3>1 DEF Remembers
  <2>10. step' # None /\ step'.action = TRUE
    <3>1. step' # None  BY <2>9 DEF NoneIsNoRecord, NoneIsNoStep
    <3> QED  BY <2>9, <3>1
  <2> HIDE DEF w1, id
  <2>11. \A w \in Held(story') : w \in Held(story) \/ w = story'.wait  BY <2>6 DEF Held
  <2>12. \A w \in Owned(story') : w # story'.wait => w \in Owned(story)
    BY <2>11 DEF Owned
  <2>13. OwnedMidStep'  BY <2>1, <2>3, <2>5, <2>6, <2>7, <2>8, <2>10, <2>12 DEF OwnedMidStep
  <2>14. \A w \in Held(story') : w.command # None
    BY <1>0, <2>5, <2>6, <2>8, <2>11 DEF OwnedInv
  <2>15. story'.wait = [kind |-> story'.wait.kind, command |-> story'.wait.command, token |-> None]
    BY <2>6, <2>8 DEF w1
  <2> QED  BY <1>0, <2>1, <2>10, <2>13, <2>14, <2>15 DEF OwnedInv
<1>5. CASE SkipWait /\ ~Fail
  <2>1. /\ step # None /\ story' = [story EXCEPT !.wait = None]
        /\ step' = [step EXCEPT !.fuel = @ - 1]
        /\ WaitsFor(story, Clickable)
        /\ UNCHANGED <<tokens, policy, failed>>
    BY <1>5 DEF SkipWait, Stopped, FastForwards
  <2>2. step.action = FALSE  BY <1>0, <2>1 DEF OwnedInv, OwnedMidStep, WaitsFor, Clickable
  <2>3. step' = [prior |-> step.prior, token |-> step.token, resolves |-> step.resolves,
                 action |-> step.action, fuel |-> step'.fuel]
    <3>1. Remembers  BY <2>1 DEF SaveInv, IInv
    <3> QED  BY <2>1, <3>1 DEF Remembers
  <2>4. step' # None /\ step'.action = FALSE
    <3>1. step' # None  BY <2>3 DEF NoneIsNoRecord, NoneIsNoStep
    <3> QED  BY <2>2, <2>3, <3>1
  <2>5. Held(story') \subseteq Held(story) /\ story'.wait = None
    BY <1>0, <2>1 DEF Held, Fields
  <2>6. AsksNothing /\ AsksNothing'  BY <2>1, <2>2, <2>4 DEF AsksNothing
  <2>7. Shaped(story')  BY <2>5 DEF Shaped
  <2>8. \A w \in Held(story') :
          w \in Held(story) \/ (w.command \notin Actions /\ w.command # None)
    BY <2>5
  <2>9. policy' = policy /\ failed' = failed  BY <2>1
  <2> QED  BY <2>6, <2>7, <2>8, <2>9, RunsOwn
<1> QED
  BY <1>0, <1>1, <1>2, <1>3, <1>4, <1>5, InterpreterShape DEF Interpreted

LEMMA SameReads ==
  ASSUME ReadsInv, policy' = policy, readings' = readings
  PROVE  ReadsInv'
BY DEF ReadsInv, AwaitsFollow, PendingReads, ReadTokens

LEMMA PlayerReads ==
  ASSUME ReadsInv, Player
  PROVE  ReadsInv'
<1>1. policy' = policy /\ readings' = readings
  BY DEF Player, Launch, Advance, Choose, OpenSystem, SwitchSystemPage, ReturnSystem,
         SetReadingMode, SetSkip, InvokeSystemAction, JumpToState, JumpBacklog, Command, Turn,
         Fail
<1> QED  BY <1>1, SameReads

LEMMA InterpreterReads ==
  ASSUME ReadsInv, Interpreter
  PROVE  ReadsInv'
<1>1. policy' = policy /\ readings' = readings
  BY DEF Interpreter, EndOfState, Text, Choice, Jump, Branch, Call, Return, Mutate, SystemPage,
         Stage, Fence, Input, PolicyAction, SkipWait, Runs, Fail
<1> QED  BY <1>1, SameReads

LEMMA NoActionReads ==
  ASSUME NEW source, policy' = [NoAction EXCEPT !.source = source], readings' = {}
  PROVE  ReadsInv'
<1>1. /\ AwaitsFollow(policy') /\ ReadTokens(policy') = {}
      /\ policy'.source = source /\ policy'.reads = <<>>
  BY NoActionFollows
<1> QED  BY <1>1 DEF ReadsInv, AwaitsFollow, PendingReads, ReadTokens

LEMMA HostReads ==
  ASSUME SaveInv, Host
  PROVE  ReadsInv'
<1>0. ReadsInv /\ AwaitsFollow(policy) /\ ReadTokens(policy) = readings
  BY DEF SaveInv, ReadsInv
<1> DEFINE n == Len(policy.reads)
<1>1. /\ n \in Nat /\ n <= MaxReads /\ MaxReads \in Nat
      /\ policy.reads \in [1 .. n -> {"pending", "done"}]
  BY <1>0, LenProperties, BoundAssumption DEF AwaitsFollow
<1> HIDE DEF n
<1>2. CASE Poll
  <2>1. policy.source # None
    <3>1. Ready /\ WaitsFor(story, {"fence"}) /\ story.wait.command = policy.source
      BY <1>2 DEF Poll, Launched, PolicyActionPending
    <3>2. story.wait \in Held(story)  BY <3>1 DEF WaitsFor, Held
    <3> QED  BY <3>1, <3>2 DEF SaveInv, OwnedInv
  <2>2. CASE Command(story, FALSE)  BY <1>0, <2>2, SameReads DEF Command, Turn
  <2>3. ASSUME NEW dropped, NEW m \in 0 .. MaxReads - n, Await(dropped, m)
        PROVE  ReadsInv'
    <3> DEFINE reads == [i \in 1 .. n + m |->
                           IF i > n THEN "pending"
                           ELSE IF i \in dropped THEN "done" ELSE policy.reads[i]]
               p == SyncAwaits([policy EXCEPT !.reads = reads])
    <3>1. reads \in [1 .. n + m -> {"pending", "done"}] /\ n + m \in Nat  BY <1>1
    <3>2. n + m <= MaxReads  BY <1>1
    <3> HIDE DEF reads
    <3>3. reads \in Seq({"pending", "done"}) /\ Len(reads) <= MaxReads
      BY <3>1, <3>2, SequenceMade
    <3>4. AwaitsFollow(p) /\ p.source = policy.source /\ p.reads = reads
      BY <1>0, <3>3, SyncFollows
    <3>5. PICK k \in PendingReads(p) : policy' = [p EXCEPT !.waiting = k]
      BY <2>3 DEF Await, n, reads
    <3>6. readings' = (readings \ ReadTokens(policy)) \cup ReadTokens(p)
      BY <2>3 DEF Await, n, reads
    <3> HIDE DEF p
    <3>7. /\ {"source", "reads", "waiting", "awaits"} \subseteq DOMAIN policy'
          /\ policy'.source = policy.source /\ policy'.reads = reads
          /\ policy'.awaits = p.awaits
      BY <3>4, <3>5 DEF AwaitsFollow
    <3>8. AwaitsFollow(policy') /\ ReadTokens(policy') = ReadTokens(p)
      BY <3>4, <3>7 DEF AwaitsFollow, PendingReads, ReadTokens
    <3>9. readings' = ReadTokens(policy')  BY <1>0, <3>6, <3>8
    <3> QED  BY <2>1, <3>7, <3>8, <3>9 DEF ReadsInv, AwaitsFollow, PendingReads, ReadTokens
  <2>4. CASE Complete
    <3>1. policy' = NoAction /\ readings' = {}  BY <1>0, <2>4 DEF Complete
    <3>2. [NoAction EXCEPT !.source = None] = NoAction  BY DEF NoAction
    <3> QED  BY <3>1, <3>2, NoActionReads
  <2> QED  BY <1>2, <2>2, <2>3, <2>4 DEF Poll, n
<1>3. CASE Restore
  <2> DEFINE reads == [i \in DOMAIN policy.reads |-> "done"]
  <2>1. policy' = [policy EXCEPT !.reads = reads, !.awaits = <<>>]
        /\ readings' = readings \ ReadTokens(policy)
    BY <1>3 DEF Restore
  <2>2. reads \in [1 .. n -> {"pending", "done"}] /\ \A i \in DOMAIN reads : reads[i] = "done"
    BY <1>1
  <2> HIDE DEF reads
  <2>3. reads \in Seq({"pending", "done"}) /\ Len(reads) = n  BY <1>1, <2>2, SequenceMade
  <2>4. /\ {"source", "reads", "waiting", "awaits"} \subseteq DOMAIN policy'
        /\ policy'.source = policy.source /\ policy'.reads = reads /\ policy'.awaits = <<>>
    BY <1>0, <2>1 DEF AwaitsFollow
  <2>5. DOMAIN <<>> = {}
    <3>1. <<>> \in Seq({}) /\ Len(<<>>) = 0  BY EmptySeq
    <3>2. DOMAIN <<>> = 1 .. 0  BY <3>1, LenProperties
    <3> QED  BY <3>2
  <2>6. PendingReads(policy') = {} /\ ReadTokens(policy') = {}
    BY <2>2, <2>4, <2>5 DEF PendingReads, ReadTokens
  <2>7. AwaitsFollow(policy')  BY <1>1, <2>3, <2>4, <2>5, <2>6 DEF AwaitsFollow
  <2>8. policy'.source = None => policy'.reads = <<>>
    <3> SUFFICES ASSUME policy.source = None PROVE reads = <<>>  BY <2>4
    <3>1. policy.reads = <<>>  BY DEF SaveInv, ReadsInv
    <3>2. n = 0  BY <3>1, EmptySeq DEF n
    <3> QED  BY <2>3, <3>2, EmptySeq
  <2>9. readings' = {}  BY <1>0, <2>1
  <2> QED  BY <2>6, <2>7, <2>8, <2>9 DEF ReadsInv, AwaitsFollow, PendingReads, ReadTokens
<1>4. CASE CompleteWait \/ ReadDone
  <2>1. policy' = policy /\ readings' = readings  BY <1>4 DEF CompleteWait, ReadDone, Command, Turn
  <2> QED  BY <1>0, <2>1, SameReads
<1> QED  BY <1>2, <1>3, <1>4 DEF Host

LEMMA EmptyDomain == DOMAIN <<>> = {}
<1>1. <<>> \in Seq({}) /\ Len(<<>>) = 0  BY EmptySeq
<1>2. DOMAIN <<>> = 1 .. 0  BY <1>1, LenProperties
<1> QED  BY <1>2

(* The wait in front with a token, and nothing else changed. *)
LEMMA BoundHeld ==
  ASSUME SaveInv, NoneIsNoRecord, NEW pending, NEW s, s = Bound(story, pending)
  PROVE  \/ s = story
         \/ /\ story.wait # None /\ story.wait.token = None
            /\ s.wait # None /\ s.wait.command = story.wait.command
            /\ \A w \in Held(s) : w = s.wait \/ (w \in Held(story) /\ w # story.wait)
            /\ s.wait \in Held(s) /\ Shaped(s)
            /\ \A w \in Held(story) : w = story.wait \/ w \in Held(s)
<1> DEFINE t == Fresh(pending \cup (TokensOf(story) \ {None}))
<1>1. CASE story.wait = None \/ story.wait = step.prior \/ story.wait.token # None
  BY <1>1 DEF Bound
<1>2. CASE ~(story.wait = None \/ story.wait = step.prior \/ story.wait.token # None)
  <2>1. story.wait = [kind |-> story.wait.kind, command |-> story.wait.command, token |-> None]
    BY <1>2 DEF SaveInv, OwnedInv
  <2>2. s = [story EXCEPT !.wait.token = t] /\ Fields(story)
    BY <1>2 DEF Bound, SaveInv, IInv, Sound
  <2> HIDE DEF t
  <2>3. /\ s.frames = story.frames
        /\ s.wait = [kind |-> story.wait.kind, command |-> story.wait.command, token |-> t]
    BY <2>1, <2>2 DEF Fields
  <2>4. s.wait # None /\ s.wait.command = story.wait.command
    <3>1. s.wait # None  BY <2>3 DEF NoneIsNoRecord
    <3> QED  BY <2>3, <3>1
  <2>5. \A i \in DOMAIN story.frames : Under(story, i) # None => Under(story, i) # story.wait
    <3>1. None \notin tokens /\ FramesBound(story, tokens)
      BY NoneAssumption DEF SaveInv, IInv, Sound
    <3> QED  BY <1>2, <3>1 DEF FramesBound
  <2>6. \A w \in Held(s) : w = s.wait \/ (w \in Held(story) /\ w # story.wait)
    BY <2>3, <2>5 DEF Held, Under
  <2>7. s.wait \in Held(s) /\ \A w \in Held(story) : w = story.wait \/ w \in Held(s)
    BY <2>3, <2>4 DEF Held
  <2>8. Shaped(s)  BY <2>3 DEF Shaped
  <2> QED  BY <1>2, <2>4, <2>6, <2>7, <2>8
<1> QED  BY <1>1, <1>2

LEMMA SettleSaves ==
  ASSUME SaveInv, NoneIsNoRecord, Settle
  PROVE  ReadsInv' /\ OwnedInv'
<1> DEFINE left == IF Abandoned THEN NoAction ELSE policy
           pending == tokens \ IF Abandoned THEN {step.token} ELSE {}
           p == IF step.action THEN [NoAction EXCEPT !.source = story.wait.command]
                ELSE IF Commits(left) THEN Committed(left) ELSE left
           open == pending \ IF step.resolves THEN {step.prior.token} ELSE {}
           s == Bound(story, open)
           refused == \/ step.action /\ left.source # None
                      \/ step.resolves /\ step.prior.token \notin pending
<1>1. ReadsInv /\ OwnedInv  BY DEF SaveInv
<1>2. CASE refused
  <2>1. Fail  BY <1>2 DEF Settle
  <2>2. policy' = policy /\ readings' = readings  BY <2>1 DEF Fail
  <2> QED  BY <1>1, <2>1, <2>2, FailOwns, SameReads
<1>3. CASE ~refused
  <2>1. /\ step # None /\ story' = s /\ policy' = p /\ step' = None
        /\ readings' = IF Abandoned THEN readings \ ReadTokens(policy)
                       ELSE IF Commits(left) THEN readings \ {policy.awaits[worker.read]}
                       ELSE readings
    BY <1>3 DEF Settle, Stopped
  <2>2. ~(step.action /\ left.source # None)  BY <1>3
  <2>3. OwnedMidStep  BY <1>1, <2>1 DEF OwnedInv
  <2>4. \/ s = story
        \/ /\ story.wait # None /\ story.wait.token = None
           /\ s.wait # None /\ s.wait.command = story.wait.command
           /\ \A w \in Held(s) : w = s.wait \/ (w \in Held(story) /\ w # story.wait)
           /\ s.wait \in Held(s) /\ Shaped(s)
           /\ \A w \in Held(story) : w = story.wait \/ w \in Held(s)
    BY BoundHeld
  <2>5. Shaped(story')
    <3>1. Shaped(story)  BY <1>1 DEF OwnedInv, Shaped
    <3> QED  BY <2>1, <2>4, <3>1
  <2> HIDE DEF pending, open, s, refused
  <2>6. \A w \in Held(s) : w.command # None
    BY <1>1, <2>4 DEF OwnedInv, Held
  <2>7. ASSUME ReadsInv', policy'.source # None => policy'.source \in Actions, OneOwned'
        PROVE  ReadsInv' /\ OwnedInv'
    BY <2>1, <2>5, <2>6, <2>7 DEF OwnedInv, Shaped
  <2>8. CASE step.action
    <3> DEFINE id == story.wait.command
    <3>1. left.source = None /\ id \in Actions /\ story.wait # None  BY <2>2, <2>3, <2>8 DEF OwnedMidStep
    <3>2. policy' = [NoAction EXCEPT !.source = id]  BY <2>1, <2>8
    <3>3. policy'.source = id  BY <3>2 DEF NoAction
    <3>4. readings' = {} /\ \A w \in Owned(story) : w = story.wait
      <4>1. CASE Abandoned
        <5>1. readings' = {}  BY <1>1, <2>1, <4>1 DEF ReadsInv
        <5>2. \A w \in Held(story) : w.command # policy.source  BY <4>1 DEF Abandoned
        <5> QED  BY <2>3, <5>1, <5>2 DEF OwnedMidStep, Owned
      <4>2. CASE ~Abandoned
        <5>1. left = policy /\ policy.source = None  BY <3>1, <4>2
        <5>2. policy.reads = <<>> /\ DOMAIN <<>> = {}  BY <1>1, <5>1, EmptyDomain DEF ReadsInv
        <5>3. PendingReads(policy) = {}  BY <5>2 DEF PendingReads
        <5>4. DOMAIN policy.awaits = {}  BY <1>1, <5>3 DEF ReadsInv, AwaitsFollow
        <5>5. readings = {}  BY <1>1, <5>4 DEF ReadsInv, ReadTokens
        <5>6. ~Commits(left)  BY <5>1, <5>3 DEF Commits
        <5>7. readings' = {}  BY <2>1, <4>2, <5>5, <5>6
        <5> QED  BY <2>3, <5>1, <5>7 DEF OwnedMidStep
      <4> QED  BY <4>1, <4>2
    <3>5. ReadsInv'  BY <3>2, <3>4, NoActionReads
    <3>6. s.wait # None /\ s.wait.command = id /\ s.wait \in Held(s)
      BY <2>4, <3>1 DEF Held
    <3>7. \A w \in Owned(s) : w = s.wait  BY <2>4, <3>4 DEF Owned
    <3>8. Owned(s) = {s.wait}  BY <3>1, <3>6, <3>7 DEF Owned
    <3>9. id # None  BY <1>1, <3>1 DEF OwnedInv, Held
    <3>10. OneOwned'  BY <2>1, <3>3, <3>6, <3>8, <3>9 DEF OneOwned
    <3> QED  BY <2>7, <3>1, <3>3, <3>5, <3>10
  <2>9. CASE ~step.action /\ Abandoned
    <3>1. readings' = {}  BY <1>1, <2>1, <2>9 DEF ReadsInv
    <3>2. policy' = NoAction
      <4>1. left = NoAction  BY <2>9
      <4>2. ~Commits(left)  BY <4>1, NoActionItself DEF Commits
      <4> HIDE DEF left
      <4> QED  BY <2>1, <2>9, <4>1, <4>2
    <3>3. [NoAction EXCEPT !.source = None] = NoAction  BY DEF NoAction
    <3>4. ReadsInv' /\ policy'.source = None  BY <3>1, <3>2, <3>3, NoActionReads, NoActionItself
    <3>5. Owned(story) = {}
      <4>1. \A w \in Held(story) : w.command # policy.source  BY <2>9 DEF Abandoned
      <4> QED  BY <2>3, <2>9, <4>1 DEF OwnedMidStep, Owned
    <3>6. Owned(s) = {}  BY <2>4, <3>5 DEF Owned, Held
    <3>7. OneOwned'  BY <2>1, <3>4, <3>6 DEF OneOwned
    <3> QED  BY <2>7, <3>4, <3>7
  <2>10. CASE ~step.action /\ ~Abandoned
    <3>1. left = policy  BY <2>10
    <3>2. policy' = (IF Commits(policy) THEN Committed(policy) ELSE policy)
          /\ readings' = (IF Commits(policy) THEN readings \ {policy.awaits[worker.read]} ELSE readings)
      <4> HIDE DEF left
      <4> QED  BY <2>1, <2>10, <3>1
    <3>3. ReadsInv' /\ policy'.source = policy.source
      <4>1. CASE ~Commits(policy)  BY <1>1, <3>2, <4>1, SameReads
      <4>2. CASE Commits(policy)
        <5>1. /\ AwaitsFollow(policy') /\ policy'.source = policy.source
              /\ ReadTokens(policy') = readings'
          BY <1>1, <3>2, <4>2, CommittedFollows
        <5>2. policy.source # None
          <6>1. PendingReads(policy) # {}  BY <4>2 DEF Commits
          <6>2. policy.reads # <<>>  BY <6>1, EmptyDomain DEF PendingReads
          <6> QED  BY <1>1, <6>2 DEF ReadsInv
        <5> QED  BY <5>1, <5>2 DEF ReadsInv, AwaitsFollow, PendingReads, ReadTokens
      <4> QED  BY <4>1, <4>2
    <3>4. /\ \A w \in Owned(story) : policy.source # None /\ w.command = policy.source
          /\ \A w, v \in Owned(story) : w = v
      BY <2>3, <2>10 DEF OwnedMidStep
    <3>5. policy.source # None => policy.source \in Actions  BY <1>1 DEF OwnedInv
    <3>6. CASE policy.source = None
      <4>1. Owned(story) = {}  BY <3>4, <3>6
      <4>2. Owned(s) = {}  BY <2>4, <4>1 DEF Owned, Held
      <4> QED  BY <2>1, <2>7, <3>3, <3>6, <4>2 DEF OneOwned
    <3>7. CASE policy.source # None
      <4>1. PICK w \in Held(story) : w.command = policy.source  BY <2>10, <3>7 DEF Abandoned
      <4>2. w \in Owned(story) /\ Owned(story) = {w}  BY <3>4, <3>5, <3>7, <4>1 DEF Owned
      <4>3. \E v \in Owned(s) : Owned(s) = {v} /\ v.command = policy.source
        <5>1. CASE s = story  BY <4>1, <4>2, <5>1
        <5>2. CASE s # story /\ w = story.wait
          <6>1. s.wait \in Owned(s) /\ s.wait.command = policy.source
            BY <2>4, <3>5, <3>7, <4>1, <5>2 DEF Owned
          <6>2. \A v \in Owned(s) : v = s.wait  BY <2>4, <4>2, <5>2 DEF Owned
          <6> QED  BY <6>1, <6>2
        <5>3. CASE s # story /\ w # story.wait
          <6>1. story.wait \notin Owned(story) /\ story.wait \in Held(story)
            BY <2>4, <4>2, <5>3 DEF Held
          <6>2. s.wait \notin Owned(s)  BY <2>4, <5>3, <6>1 DEF Owned
          <6>3. Owned(s) \subseteq {w}  BY <2>4, <4>2, <5>3, <6>2 DEF Owned
          <6>4. w \in Held(s)  BY <2>4, <4>1, <5>3
          <6> QED  BY <3>5, <3>7, <4>1, <6>3, <6>4 DEF Owned
        <5> QED  BY <5>1, <5>2, <5>3
      <4> QED  BY <2>1, <2>7, <3>3, <3>5, <3>7, <4>3 DEF OneOwned
    <3> QED  BY <3>6, <3>7
  <2> QED  BY <2>8, <2>9, <2>10
<1> QED  BY <1>2, <1>3

(* Between two steps the game can be saved.                                *)
LEMMA SaveRestorable ==
  ASSUME SaveInv, Ready
  PROVE  Restorable
<1>1. ReadsInv /\ AwaitsFollow(policy)  BY DEF SaveInv, ReadsInv
<1>2. OneOwned  BY DEF SaveInv, OwnedInv, Ready
<1>3. IF policy.source = None THEN Owned(story) = {}
      ELSE Cardinality(Owned(story)) = 1 /\ \A w \in Owned(story) : w.command = policy.source
  <2>1. CASE policy.source = None  BY <1>2, <2>1 DEF OneOwned
  <2>2. CASE policy.source # None
    <3>1. PICK w \in Owned(story) : Owned(story) = {w} /\ w.command = policy.source
      BY <1>2, <2>2 DEF OneOwned
    <3>2. Cardinality({w}) = 1  BY FS_Singleton
    <3> QED  BY <2>2, <3>1, <3>2
  <2> QED  BY <2>1, <2>2
<1> QED  BY <1>1, <1>3 DEF Restorable, Owned, ReadsInv, AwaitsFollow

LEMMA InitSaves == Init => SaveInv
<1> SUFFICES ASSUME Init PROVE SaveInv  OBVIOUS
<1>1. IInv  BY InitSafe
<1>2. Located(story)  BY CallsAndPages DEF Init, NewStory, Located, OnScript
<1>3. ReadsInv  BY NoActionItself DEF Init, ReadsInv
<1>4. policy.source = None /\ story.wait = None /\ story.frames = <<>> /\ step = None
  BY NoActionItself DEF Init, NewStory
<1>5. Held(story) = {}  BY <1>4, EmptyDomain DEF Held
<1>6. OwnedInv  BY <1>4, <1>5 DEF OwnedInv, OneOwned, Owned
<1> QED  BY <1>1, <1>2, <1>3, <1>6 DEF SaveInv

LEMMA NextSaves ==
  ASSUME SaveInv, NoneIsNoRecord, ScriptAllows, [Next]_vars
  PROVE  SaveInv'
<1>1. IInv'
  <2>1. SkippingAllowed  BY DEF SaveInv, Located, SkippingAllowed
  <2> QED  BY <2>1, NextSafe DEF SaveInv, NoneIsNoRecord
<1>2. Located(story')  BY NextLocates DEF SaveInv
<1>3. ReadsInv' /\ OwnedInv'
  <2>1. CASE Player  BY <2>1, PlayerReads, PlayerOwns DEF SaveInv
  <2>2. CASE Host  BY <2>2, HostReads, HostOwns
  <2>3. CASE Interpreter  BY <2>3, InterpreterReads, InterpreterOwns DEF SaveInv
  <2>4. CASE Settle  BY <2>4, SettleSaves
  <2>5. CASE UNCHANGED vars
    <3>1. policy' = policy /\ readings' = readings  BY <2>5 DEF vars
    <3>2. ReadsInv'  BY <3>1, SameReads DEF SaveInv
    <3>3. OwnedInv'
      BY <2>5 DEF SaveInv, OwnedInv, OneOwned, OwnedMidStep, Owned, vars
    <3> QED  BY <3>2, <3>3
  <2> QED  BY <2>1, <2>2, <2>3, <2>4, <2>5 DEF Next
<1> QED  BY <1>1, <1>2, <1>3 DEF SaveInv

--------------------------------------------------------------------------------
(* The theorems *)

(* Waits, tokens, cursors, reads and the policy action agree in every      *)
(* state that commands, the interpreter, the worker and loading reach, for *)
(* every script that does not forbid skipping.                             *)
THEOREM SaveInvariant ==
  ASSUME NoneIsNoRecord, ScriptAllows
  PROVE  Spec => []SaveInv
<1>1. Init => SaveInv  BY InitSaves
<1>2. SaveInv /\ [Next]_vars => SaveInv'  BY NextSaves
<1> QED  BY <1>1, <1>2, PTL DEF Spec

(* The session accepts its own save, taken between any two steps: the      *)
(* awaits of the policy action are those of its pending reads, and of all  *)
(* the waits of the story, under pages too, exactly one is the action's.   *)
THEOREM OwnSaveIsAccepted ==
  ASSUME NoneIsNoRecord, ScriptAllows
  PROVE  Spec => []OwnSaveRestores
<1>1. SaveInv => OwnSaveRestores  BY SaveRestorable DEF OwnSaveRestores
<1> QED  BY <1>1, SaveInvariant, PTL

(* Every wait the story will come back to can be answered: it has a token  *)
(* of its own and the token is pending.                                    *)
THEOREM EveryWaitCanBeAnswered ==
  ASSUME NoneIsNoRecord, ScriptAllows
  PROVE  Spec => []HeldWaitsArePending
<1>1. SaveInv => SkippingAllowed  BY DEF SaveInv, Located, SkippingAllowed
<1>2. NoneIsNoStep  BY DEF NoneIsNoRecord
<1> QED  BY <1>1, <1>2, SaveInvariant, HeldWaitsStayPending, PTL

--------------------------------------------------------------------------------
(* Where a plan of the story says the session is                           *)

(* The clicks a fast-forward may still have to pass from a cursor. *)
Ahead(plan, c) == IF c = None THEN 0 ELSE plan.rank[c]

(* Cursor, wait and choice of the story under all pages, with n calls open. *)
OnStory(plan, n, c, w, o) ==
  /\ c # None => c \in Places /\ plan.depth[c.state] <= n
  /\ w # None => /\ w.command \in Actions => w.kind = "fence"
                 /\ w.kind \in Clickable => Ahead(plan, c) + 1 < MaxWaits
  /\ o # None => /\ w # None /\ w.kind = "choice"
                 /\ \A t \in o : t \in DOMAIN Script => plan.depth[t] <= n

(* Cursor, wait and choice of the system story of a page. *)
OnAside(plan, c, w, o) ==
  /\ c # None => c \in Places /\ c.state \in plan.aside
  /\ w # None => w.command \notin Actions
  /\ o # None => /\ w # None /\ w.kind = "choice"
                 /\ \A t \in o : t \in DOMAIN Script => t \in plan.aside

Front(plan, frames, n, c, w, o) ==
  IF frames = <<>> THEN OnStory(plan, n, c, w, o) ELSE OnAside(plan, c, w, o)

Behind(plan, frames, n) ==
  \A i \in DOMAIN frames :
    IF i = 1 THEN OnStory(plan, n, frames[i].cursor, frames[i].wait, frames[i].choice)
    ELSE OnAside(plan, frames[i].cursor, frames[i].wait, frames[i].choice)

(* What the variables hold suits the place the story goes on from, there   *)
(* too if the policy action it waits for writes them, and every option.    *)
Minds(plan, vs, reached, c, w, o) ==
  /\ c # None => /\ vs \in plan.memory[c] /\ c.state \in reached
                 /\ w # None /\ w.command \in Actions => Lasting(plan.memory[c])
  /\ o # None => \A t \in o : Suits(plan, vs, t)

(* It suits wherever the player may come back to.                          *)
Returns(plan, vs, s) ==
  /\ vs \in Memory /\ (s.reached = {} => vs = <<>>)
  /\ \A i \in DOMAIN s.calls : s.calls[i].state \in s.reached
  /\ \A q \in s.reached \cap Route : vs \in plan.memory[At(q, 1)]
  /\ \A id \in s.read : vs \in plan.memory[Place(id)] /\ Place(id).state \in s.reached

Beneath(plan, vs, s) ==
  \A i \in DOMAIN s.frames :
    Minds(plan, vs, s.reached, s.frames[i].cursor, s.frames[i].wait, s.frames[i].choice)

Recalls(plan, vs, s) ==
  /\ Returns(plan, vs, s) /\ Beneath(plan, vs, s)
  /\ Minds(plan, vs, s.reached, s.cursor, s.wait, s.choice)

(* The calls that are open return to states that need fewer. *)
CallsFit(plan, f) == \A i \in DOMAIN f : f[i] \in ReturnPlaces /\ plan.depth[f[i].state] < i

LinesRead(s) == \A id \in s.read : \E line \in Commands : line.op = "text" /\ line.id = id

Ordered(plan, s) ==
  /\ CallsFit(plan, s.calls)
  /\ Behind(plan, s.frames, Len(s.calls))
  /\ Front(plan, s.frames, Len(s.calls), s.cursor, s.wait, s.choice)
  /\ s.reached = {} => s.frames = <<>> /\ s.wait = None /\ s.cursor = None

(* In a running step, the fuel of a fast-forward lasts, and while there is *)
(* a policy action no other is asked for.                                  *)
Goes(s) == s.wait = None \/ WaitsFor(s, Clickable)
Runnable(plan, s, fuel, source) ==
  s.frames = <<>> =>
    /\ s.wait = None => Ahead(plan, s.cursor) < fuel
    /\ WaitsFor(s, Clickable) => Ahead(plan, s.cursor) + 1 < fuel
    /\ source # None /\ Goes(s) /\ s.cursor # None => s.cursor \in plan.quiet

StepFits(plan) ==
  step # None =>
    /\ step.resolves => /\ step.prior.token \in tokens
                        /\ policy.source # None => step.token # step.prior.token
    /\ step.action => policy.source = None
    /\ step.fuel \in Nat \ {0}
    /\ Runnable(plan, story, step.fuel, policy.source)

Plays(plan) ==
  /\ SaveInv /\ LinesRead(story) /\ Ordered(plan, story) /\ StepFits(plan) /\ ~failed
  /\ Recalls(plan, story.vars, story)

(* What a story needs for it. *)
Whole(s) ==
  /\ {"cursor", "calls", "frames", "wait", "choice", "reached", "read", "vars"} \subseteq DOMAIN s
  /\ Framed(s.calls) /\ Framed(s.frames)

LEMMA LocatedWhole == ASSUME NEW s, Located(s) PROVE Whole(s)
BY DEF Located, Calls, Pages, Whole

(* Lengths, and the places of a state. *)
LEMMA FramedLength ==
  ASSUME NEW f, Framed(f)
  PROVE  /\ Len(f) \in Nat /\ DOMAIN f = 1 .. Len(f)
         /\ f = <<>> <=> Len(f) = 0
<1>1. f \in Seq({f[i] : i \in DOMAIN f})  BY DEF Framed
<1> QED  BY <1>1, LenProperties, EmptySeq

LEMMA PlacesOf ==
  ASSUME NEW p \in Places
  PROVE  /\ p.state \in DOMAIN Script /\ p = At(p.state, p.ordinal)
         /\ Len(Script[p.state]) \in Nat /\ DOMAIN Script[p.state] = 1 .. Len(Script[p.state])
         /\ p.ordinal \in 1 .. Len(Script[p.state]) + 1
<1>1. PICK q \in DOMAIN Script : \E i \in 1 .. Len(Script[q]) + 1 : p = At(q, i)
  BY DEF Places
<1>2. PICK i \in 1 .. Len(Script[q]) + 1 : p = At(q, i)  BY <1>1
<1>3. Script[q] \in Seq(Commands)  BY CommandAssumption
<1>4. Len(Script[q]) \in Nat /\ DOMAIN Script[q] = 1 .. Len(Script[q])  BY <1>3, LenProperties
<1> QED  BY <1>2, <1>4 DEF At

LEMMA AtPlace ==
  ASSUME NEW q \in DOMAIN Script, NEW i \in 1 .. Len(Script[q]) + 1
  PROVE  At(q, i) \in Places /\ At(q, i).state = q /\ At(q, i).ordinal = i
BY DEF Places, At

LEMMA FirstPlace ==
  ASSUME NEW q \in DOMAIN Script
  PROVE  At(q, 1) \in Places /\ At(q, 1).state = q
<1>1. Script[q] \in Seq(Commands)  BY CommandAssumption
<1>2. 1 \in 1 .. Len(Script[q]) + 1  BY <1>1, LenProperties
<1> QED  BY <1>2, AtPlace

(* The numbers of a plan. *)
LEMMA PlanNumbers ==
  ASSUME NEW plan, Orderly(plan)
  PROVE  /\ MaxWaits \in Nat \ {0} /\ MaxWaits - 1 \in Nat \ {0}
         /\ \A q \in DOMAIN Script : plan.depth[q] \in Nat
         /\ \A p \in Places : plan.rank[p] \in 0 .. MaxWaits - 1 /\ Ahead(plan, p) <= plan.rank[p]
         /\ \A p \in Places : Ahead(plan, p) \in Nat /\ Ahead(plan, p) < MaxWaits
         /\ Ahead(plan, None) = 0
<1>1. MaxWaits \in Nat \ {0} /\ MaxWaits - 1 \in Nat \ {0}  BY BoundAssumption
<1>2. plan.depth \in [DOMAIN Script -> Nat] /\ plan.rank \in [Places -> 0 .. MaxWaits - 1]
  BY DEF Orderly
<1>3. \A p \in Places : plan.rank[p] \in 0 .. MaxWaits - 1  BY <1>2
<1> QED  BY <1>1, <1>2, <1>3 DEF Ahead

(* What changes in front leaves the rest in order. *)
LEMMA FrontChanges ==
  ASSUME NEW plan, NEW s, NEW r, Ordered(plan, s),
         r.frames = s.frames, r.calls = s.calls, r.reached # {},
         Front(plan, s.frames, Len(s.calls), r.cursor, r.wait, r.choice)
  PROVE  Ordered(plan, r)
BY DEF Ordered

LEMMA SameOrder ==
  ASSUME NEW plan, NEW s, NEW r, Ordered(plan, s),
         r.frames = s.frames, r.calls = s.calls, r.reached = s.reached,
         r.cursor = s.cursor, r.wait = s.wait, r.choice = s.choice
  PROVE  Ordered(plan, r)
BY DEF Ordered

(* No choice is open but one that is waited for. *)
LEMMA ChoiceIsWaitedFor ==
  ASSUME NEW plan, NEW s, Ordered(plan, s), s.choice # None
  PROVE  s.wait # None /\ s.wait.kind = "choice"
BY DEF Ordered, Front, OnStory, OnAside

(* The wait in front is answered. *)
LEMMA AnsweredOrder ==
  ASSUME NEW plan, NEW s, NEW r, Ordered(plan, s), ~WaitsFor(s, {"choice"}),
         r.frames = s.frames, r.calls = s.calls, r.reached # {},
         r.cursor = s.cursor, r.wait = None, r.choice = s.choice
  PROVE  Ordered(plan, r)
<1>1. s.choice = None  BY ChoiceIsWaitedFor DEF WaitsFor
<1>2. Front(plan, s.frames, Len(s.calls), r.cursor, r.wait, r.choice)
  BY <1>1 DEF Ordered, Front, OnStory, OnAside
<1> QED  BY <1>2, FrontChanges

(* A state that needs no call is gone to, and no page is open. *)
LEMMA LandedOrder ==
  ASSUME NEW plan, Orderly(plan), NEW s, Ordered(plan, s), Whole(s), NEW r,
         r.calls = <<>> \/ r.calls = s.calls, r.frames = <<>>, r.reached # {},
         r.wait = None, r.choice = None,
         r.cursor \in Places /\ plan.depth[r.cursor.state] = 0
  PROVE  Ordered(plan, r)
<1>1. Len(<<>>) = 0 /\ DOMAIN <<>> = {}  BY EmptyDomain, EmptySeq
<1>2. Len(r.calls) \in Nat  BY <1>1, FramedLength DEF Whole
<1>3. CallsFit(plan, r.calls)  BY <1>1 DEF Ordered, CallsFit
<1>4. Behind(plan, r.frames, Len(r.calls))  BY <1>1 DEF Behind
<1>5. Front(plan, r.frames, Len(r.calls), r.cursor, r.wait, r.choice)
  BY <1>2 DEF Front, OnStory
<1> QED  BY <1>3, <1>4, <1>5 DEF Ordered

(* A page is opened over the story, or over another page. *)
LEMMA OpenedOrder ==
  ASSUME NEW plan, Orderly(plan), NEW s, Ordered(plan, s), Whole(s), NEW r, NEW page \in DOMAIN Entry,
         r.calls = s.calls, r.reached # {}, r.wait = None, r.choice = None,
         r.frames = Append(s.frames, [cursor |-> s.cursor, wait |-> s.wait, choice |-> s.choice]),
         r.cursor = At(Entry[page], 1)
  PROVE  Ordered(plan, r) /\ r.frames # <<>>
<1> DEFINE frame == [cursor |-> s.cursor, wait |-> s.wait, choice |-> s.choice]
           n == Len(s.frames)
           more == Append(s.frames, frame)
<1>1. /\ n \in Nat /\ DOMAIN s.frames = 1 .. n /\ DOMAIN more = 1 .. n + 1
      /\ \A i \in 1 .. n : more[i] = s.frames[i]
      /\ more[n + 1] = frame
  BY FrameAppended DEF Whole
<1>2. n = 0 <=> s.frames = <<>>  BY FramedLength DEF Whole
<1>3. /\ frame.cursor = s.cursor /\ frame.wait = s.wait /\ frame.choice = s.choice
      /\ r.frames = more
  OBVIOUS
<1> HIDE DEF n, more, frame
<1>4. ASSUME NEW i \in DOMAIN more
      PROVE  IF i = 1
               THEN OnStory(plan, Len(s.calls), more[i].cursor, more[i].wait, more[i].choice)
             ELSE OnAside(plan, more[i].cursor, more[i].wait, more[i].choice)
  <2>1. CASE i \in 1 .. n
    <3>1. more[i] = s.frames[i] /\ i \in DOMAIN s.frames  BY <1>1, <2>1
    <3> QED  BY <3>1 DEF Ordered, Behind
  <2>2. CASE i = n + 1
    <3>1. more[i] = frame /\ (i = 1 <=> s.frames = <<>>)  BY <1>1, <1>2, <2>2
    <3> QED  BY <1>3, <3>1 DEF Ordered, Front
  <2> QED  BY <1>1, <1>4, <2>1, <2>2
<1>5. Behind(plan, more, Len(s.calls))  BY <1>4 DEF Behind
<1>6. r.frames # <<>>
  <2>1. 1 \in DOMAIN more  BY <1>1
  <2> QED  BY <1>3, <2>1, EmptyDomain
<1>7. Entry[page] \in plan.aside /\ Entry[page] \in DOMAIN Script  BY DEF Orderly
<1>8. OnAside(plan, r.cursor, r.wait, r.choice)
  BY <1>7, FirstPlace DEF OnAside
<1> QED  BY <1>3, <1>5, <1>6, <1>8 DEF Ordered, Front

(* The page in front is left, and what it was opened over comes back. *)
LEMMA PoppedOrder ==
  ASSUME NEW plan, NEW s, Ordered(plan, s), Whole(s), s.frames # <<>>, NEW r,
         r.frames = SubSeq(s.frames, 1, Len(s.frames) - 1), r.calls = s.calls, r.reached # {},
         LET frame == s.frames[Len(s.frames)]
         IN  r.cursor = frame.cursor /\ r.wait = frame.wait /\ r.choice = frame.choice
  PROVE  /\ Ordered(plan, r)
         /\ r.frames = <<>> => DOMAIN s.frames = {1} /\ r.wait = s.frames[1].wait
<1> DEFINE n == Len(s.frames)
           less == SubSeq(s.frames, 1, n - 1)
<1>1. /\ n \in DOMAIN s.frames /\ Framed(less)
      /\ \A i \in DOMAIN less : i \in DOMAIN s.frames /\ less[i] = s.frames[i]
  BY LastDropped DEF Whole
<1>2. n \in Nat /\ DOMAIN s.frames = 1 .. n  BY FramedLength DEF Whole
<1>3. Len(less) = n - 1
  <2>1. s.frames \in Seq({s.frames[i] : i \in DOMAIN s.frames})  BY DEF Whole, Framed
  <2>2. \A i \in 1 .. n - 1 : s.frames[i] \in {s.frames[j] : j \in DOMAIN s.frames}  BY <1>2
  <2>3. n - 1 \in Int /\ 1 \in Int /\ n - 1 >= 0  BY <1>1, <1>2
  <2> HIDE DEF n
  <2>4. Len(less) = IF 1 <= n - 1 THEN n - 1 - 1 + 1 ELSE 0  BY <2>2, <2>3, SubSeqProperties
  <2> QED  BY <2>3, <2>4
<1>4. less = <<>> <=> n = 1
  <2> HIDE DEF less
  <2>1. less = <<>> <=> Len(less) = 0  BY <1>1, FramedLength
  <2> HIDE DEF n
  <2> QED  BY <1>2, <1>3, <2>1
<1>5. r.frames = less /\ r.cursor = s.frames[n].cursor /\ r.wait = s.frames[n].wait
      /\ r.choice = s.frames[n].choice
  OBVIOUS
<1> HIDE DEF n, less
<1>6. Behind(plan, less, Len(s.calls))  BY <1>1 DEF Ordered, Behind
<1>7. Front(plan, less, Len(s.calls), r.cursor, r.wait, r.choice)
  BY <1>1, <1>4, <1>5 DEF Ordered, Behind, Front
<1>8. less = <<>> => DOMAIN s.frames = {1} /\ r.wait = s.frames[1].wait
  BY <1>2, <1>4, <1>5
<1> QED  BY <1>5, <1>6, <1>7, <1>8 DEF Ordered

(* What the helpers of the commands do to the fields of a story. *)
Kept(r, s) ==
  /\ Whole(r) /\ r.calls = s.calls /\ r.frames = s.frames /\ r.read = s.read /\ r.vars = s.vars
Went(r, s, q) ==
  /\ Kept(r, s) /\ r.wait = s.wait /\ r.choice = s.choice
  /\ r.reached # {} /\ r.reached = s.reached \cup {q}
  /\ r.cursor = IF q \in DOMAIN Script THEN At(q, 1) ELSE None
Freed(r, s) ==
  /\ Kept(r, s) /\ r.cursor = s.cursor /\ r.reached = s.reached
  /\ r.wait = None /\ r.choice = None
Passed(r, s) ==
  /\ Kept(r, s) /\ r.wait = s.wait /\ r.choice = s.choice /\ r.reached = s.reached
  /\ r.cursor = [s.cursor EXCEPT !.ordinal = @ + 1]
Stops(r, s, kind, id) ==
  /\ Kept(r, s) /\ r.cursor = s.cursor /\ r.choice = s.choice /\ r.reached = s.reached
  /\ r.wait = [kind |-> kind, command |-> id, token |-> None]
PageOver(r, s, page) ==
  /\ r.calls = s.calls /\ r.read = s.read /\ r.vars = s.vars /\ r.wait = None /\ r.choice = None
  /\ r.reached # {} /\ r.reached = s.reached \cup {Entry[page]}
  /\ r.frames = Append(s.frames, [cursor |-> s.cursor, wait |-> s.wait, choice |-> s.choice])
  /\ r.cursor = IF Entry[page] \in DOMAIN Script THEN At(Entry[page], 1) ELSE None

LEMMA HelperFields ==
  ASSUME NEW s, Whole(s)
  PROVE  /\ \A q : Went(Go(s, q), s, q)
         /\ Freed(Unblocked(s), s)
         /\ Passed(Past(s), s)
         /\ \A kind, id : Stops(Blocked(s, kind, id), s, kind, id)
         /\ \A page : PageOver(Opened(s, page), s, page)
<1>1. \A r, q : Whole(r) => Went(Go(r, q), r, q)
  BY DEF Whole, Went, Kept, Go, At
<1>2. Freed(Unblocked(s), s)  BY DEF Whole, Freed, Kept, Unblocked
<1>3. Passed(Past(s), s)  BY DEF Whole, Passed, Kept, Past
<1>4. \A kind, id : Stops(Blocked(s, kind, id), s, kind, id)
  BY DEF Whole, Stops, Kept, Blocked
<1>5. ASSUME NEW page PROVE PageOver(Opened(s, page), s, page)
  <2> DEFINE frame == [cursor |-> s.cursor, wait |-> s.wait, choice |-> s.choice]
             more == Append(s.frames, frame)
             u == Unblocked(s)
             r == [u EXCEPT !.frames = Append(@, frame)]
  <2>1. Whole(u) /\ u.frames = s.frames  BY <1>2 DEF Freed, Kept
  <2>2. Framed(more)  BY FrameAppended DEF Whole
  <2>3. Opened(s, page) = Go(r, Entry[page])  BY DEF Opened
  <2>4. Freed(u, s)  BY <1>2
  <2> HIDE DEF u, frame
  <2>5. /\ r.frames = more /\ r.calls = u.calls /\ r.read = u.read /\ r.wait = u.wait
        /\ r.choice = u.choice /\ r.vars = u.vars /\ r.reached = u.reached /\ Whole(r)
    BY <2>1, <2>2 DEF Whole
  <2> HIDE DEF r, more
  <2>6. Went(Opened(s, page), r, Entry[page])  BY <1>1, <2>3, <2>5
  <2>7. Opened(s, page).frames = Append(s.frames, frame)  BY <2>5, <2>6 DEF Went, Kept, more
  <2> QED  BY <2>4, <2>5, <2>6, <2>7 DEF Went, Kept, PageOver, Freed, frame
<1> QED  BY <1>1, <1>2, <1>3, <1>4, <1>5

(* What is written to the variables fits them. *)
LEMMA WrittenMemory ==
  ASSUME NEW vs \in Memory, NEW values \in Memory
  PROVE  Written(vs, values) \in Memory
<1>1. PICK k \in SUBSET Keys : vs \in [k -> Value]  BY DEF Memory
<1>2. PICK l \in SUBSET Keys : values \in [l -> Value]  BY DEF Memory
<1>3. Written(vs, values) \in [k \cup l -> Value]  BY <1>1, <1>2 DEF Written
<1>4. k \cup l \in SUBSET Keys  OBVIOUS
<1> QED  BY <1>3, <1>4 DEF Memory

LEMMA MutatedMemory ==
  ASSUME NEW vs \in Memory, NEW writes, DOMAIN writes \subseteq Keys, Fits(vs, writes)
  PROVE  /\ Results(vs, writes) \in Memory
         /\ Mutated(vs, writes) = Written(vs, Results(vs, writes))
         /\ Mutated(vs, writes) \in Memory
<1> DEFINE results == Results(vs, writes)
<1>1. \A key \in DOMAIN writes : results[key] \in Value  BY DEF Fits
<1>3. results \in [DOMAIN writes -> Value]  BY <1>1 DEF Results
<1> HIDE DEF results
<1>4. DOMAIN writes \in SUBSET Keys  OBVIOUS
<1>5. results \in Memory  BY <1>3, <1>4 DEF Memory
<1>6. Mutated(vs, writes) = Written(vs, results)  BY DEF Mutated, results
<1> QED  BY <1>5, <1>6, WrittenMemory DEF results

(* The story moves: the variables suit where it is now, and what else it   *)
(* may come back to it knew before, or suits them as well.                 *)
LEMMA MovedRecalls ==
  ASSUME NEW plan, NEW vs, NEW s, NEW r, Recalls(plan, vs, s), s.reached \subseteq r.reached,
         r.reached # {} \/ r.reached = s.reached,
         \A q \in r.reached \cap Route : q \in s.reached \/ vs \in plan.memory[At(q, 1)],
         \A id \in r.read :
           id \in s.read \/ (vs \in plan.memory[Place(id)] /\ Place(id).state \in r.reached),
         \A i \in DOMAIN r.calls :
           (\E j \in DOMAIN s.calls : r.calls[i] = s.calls[j]) \/ r.calls[i].state \in r.reached,
         \A i \in DOMAIN r.frames :
           \/ \E j \in DOMAIN s.frames : r.frames[i] = s.frames[j]
           \/ Minds(plan, vs, s.reached, r.frames[i].cursor, r.frames[i].wait, r.frames[i].choice),
         Minds(plan, vs, r.reached, r.cursor, r.wait, r.choice)
  PROVE  Recalls(plan, vs, r)
<1>1. Returns(plan, vs, s) /\ Beneath(plan, vs, s)  BY DEF Recalls
<1>2. Returns(plan, vs, r)
  <2>1. vs \in Memory /\ (r.reached = {} => vs = <<>>)  BY <1>1 DEF Returns
  <2>2. \A i \in DOMAIN r.calls : r.calls[i].state \in r.reached  BY <1>1 DEF Returns
  <2>3. \A q \in r.reached \cap Route : vs \in plan.memory[At(q, 1)]  BY <1>1 DEF Returns
  <2>4. \A id \in r.read : vs \in plan.memory[Place(id)] /\ Place(id).state \in r.reached
    BY <1>1 DEF Returns
  <2> QED  BY <2>1, <2>2, <2>3, <2>4 DEF Returns
<1>3. Beneath(plan, vs, r)
  <2> SUFFICES ASSUME NEW i \in DOMAIN r.frames
               PROVE  Minds(plan, vs, r.reached, r.frames[i].cursor, r.frames[i].wait,
                            r.frames[i].choice)
    BY DEF Beneath
  <2>1. Minds(plan, vs, s.reached, r.frames[i].cursor, r.frames[i].wait, r.frames[i].choice)
    BY <1>1 DEF Beneath
  <2> QED  BY <2>1 DEF Minds
<1> QED  BY <1>2, <1>3 DEF Recalls

LEMMA FrontRecalls ==
  ASSUME NEW plan, NEW vs, NEW s, NEW r, Recalls(plan, vs, s),
         r.calls = s.calls, r.frames = s.frames, r.read = s.read, r.reached = s.reached,
         Minds(plan, vs, s.reached, r.cursor, r.wait, r.choice)
  PROVE  Recalls(plan, vs, r)
BY DEF Recalls, Returns, Beneath

LEMMA StayedRecalls ==
  ASSUME NEW plan, NEW vs, NEW s, NEW r, Recalls(plan, vs, s),
         r.calls = s.calls, r.frames = s.frames, r.read = s.read, r.reached = s.reached,
         r.cursor = s.cursor, r.choice \in {s.choice, None},
         r.wait = None \/ (s.wait # None /\ r.wait.command = s.wait.command) \/ r.wait = s.wait
  PROVE  Recalls(plan, vs, r)
<1>1. Minds(plan, vs, s.reached, r.cursor, r.wait, r.choice)  BY DEF Recalls, Minds
<1> QED  BY <1>1, FrontRecalls

(* It goes to a state that suits the variables, with calls and frames it   *)
(* had, or none.                                                           *)
LEMMA GoneRecalls ==
  ASSUME NEW plan, NEW vs, NEW s, NEW r, NEW q, Recalls(plan, vs, s), Suits(plan, vs, q),
         r.calls = s.calls \/ r.calls = <<>>, r.frames = s.frames \/ r.frames = <<>>,
         r.read = s.read, r.reached = s.reached \cup {q},
         r.wait = None, r.choice = None,
         r.cursor = IF q \in DOMAIN Script THEN At(q, 1) ELSE None
  PROVE  Recalls(plan, vs, r)
<1>1. Minds(plan, vs, r.reached, r.cursor, r.wait, r.choice)  BY DEF Minds, Suits, At
<1>2. \A p \in r.reached \cap Route : p \in s.reached \/ vs \in plan.memory[At(p, 1)]
  BY ScriptAssumption DEF Suits
<1>3. \A i \in DOMAIN r.calls : \E j \in DOMAIN s.calls : r.calls[i] = s.calls[j]
  BY EmptyDomain
<1>4. \A i \in DOMAIN r.frames : \E j \in DOMAIN s.frames : r.frames[i] = s.frames[j]
  BY EmptyDomain
<1>5. s.reached \subseteq r.reached /\ (r.reached # {} \/ r.reached = s.reached)  OBVIOUS
<1>6. \A id \in r.read :
        id \in s.read \/ (vs \in plan.memory[Place(id)] /\ Place(id).state \in r.reached)
  OBVIOUS
<1>7. \A i \in DOMAIN r.calls :
        (\E j \in DOMAIN s.calls : r.calls[i] = s.calls[j]) \/ r.calls[i].state \in r.reached
  BY <1>3
<1>8. \A i \in DOMAIN r.frames :
        \/ \E j \in DOMAIN s.frames : r.frames[i] = s.frames[j]
        \/ Minds(plan, vs, s.reached, r.frames[i].cursor, r.frames[i].wait, r.frames[i].choice)
  BY <1>4
<1> HIDE DEF Recalls, Minds
<1> QED  BY ONLY <1>1, <1>2, <1>5, <1>6, <1>7, <1>8, Recalls(plan, vs, s), MovedRecalls

LEMMA OpenedRecalls ==
  ASSUME NEW plan, NEW vs, NEW s, NEW r, NEW page, Recalls(plan, vs, s), Whole(s),
         PageOver(r, s, page), Suits(plan, vs, Entry[page])
  PROVE  Recalls(plan, vs, r)
<1> DEFINE frame == [cursor |-> s.cursor, wait |-> s.wait, choice |-> s.choice]
           n == Len(s.frames)
           more == Append(s.frames, frame)
<1>1. /\ n \in Nat /\ DOMAIN s.frames = 1 .. n /\ DOMAIN more = 1 .. n + 1
      /\ \A i \in 1 .. n : more[i] = s.frames[i]
      /\ more[n + 1] = frame
  BY FrameAppended DEF Whole
<1>2. /\ frame.cursor = s.cursor /\ frame.wait = s.wait /\ frame.choice = s.choice
      /\ r.frames = more
  BY DEF PageOver
<1> HIDE DEF n, more, frame
<1>3. \A i \in DOMAIN r.frames :
        \/ \E j \in DOMAIN s.frames : r.frames[i] = s.frames[j]
        \/ Minds(plan, vs, s.reached, r.frames[i].cursor, r.frames[i].wait, r.frames[i].choice)
  <2> SUFFICES ASSUME NEW i \in 1 .. n + 1
               PROVE  \/ \E j \in DOMAIN s.frames : more[i] = s.frames[j]
                      \/ Minds(plan, vs, s.reached, more[i].cursor, more[i].wait, more[i].choice)
    BY <1>1, <1>2
  <2>1. CASE i \in 1 .. n  BY <1>1, <2>1
  <2>2. CASE i = n + 1
    <3>1. more[i] = frame  BY <1>1, <2>2
    <3> QED  BY <1>2, <3>1 DEF Recalls
  <2> QED  BY <1>1, <2>1, <2>2
<1>4. Minds(plan, vs, r.reached, r.cursor, r.wait, r.choice)  BY DEF PageOver, Minds, Suits, At
<1>5. \A p \in r.reached \cap Route : p \in s.reached \/ vs \in plan.memory[At(p, 1)]
  BY ScriptAssumption DEF PageOver, Suits
<1>6. r.calls = s.calls /\ r.read = s.read /\ s.reached \subseteq r.reached /\ r.reached # {}
  BY DEF PageOver
<1> QED  BY <1>3, <1>4, <1>5, <1>6, MovedRecalls

LEMMA PoppedRecalls ==
  ASSUME NEW plan, NEW vs, NEW s, NEW r, Recalls(plan, vs, s), Whole(s), s.frames # <<>>,
         r.frames = SubSeq(s.frames, 1, Len(s.frames) - 1), r.calls = s.calls, r.read = s.read,
         r.reached = s.reached,
         LET frame == s.frames[Len(s.frames)]
         IN  r.cursor = frame.cursor /\ r.wait = frame.wait /\ r.choice = frame.choice
  PROVE  Recalls(plan, vs, r)
<1> DEFINE n == Len(s.frames)
           less == SubSeq(s.frames, 1, n - 1)
<1>1. /\ n \in DOMAIN s.frames
      /\ \A i \in DOMAIN less : i \in DOMAIN s.frames /\ less[i] = s.frames[i]
  BY LastDropped DEF Whole
<1>2. /\ r.frames = less /\ r.cursor = s.frames[n].cursor /\ r.wait = s.frames[n].wait
      /\ r.choice = s.frames[n].choice
  OBVIOUS
<1> HIDE DEF n, less
<1>3. Minds(plan, vs, r.reached, r.cursor, r.wait, r.choice)
  BY <1>1, <1>2 DEF Recalls, Beneath
<1>4. \A i \in DOMAIN r.frames : \E j \in DOMAIN s.frames : r.frames[i] = s.frames[j]
  BY <1>1, <1>2
<1>5. /\ \A p \in r.reached \cap Route : p \in s.reached
      /\ \A id \in r.read : id \in s.read
      /\ \A i \in DOMAIN r.calls : \E j \in DOMAIN s.calls : r.calls[i] = s.calls[j]
      /\ s.reached \subseteq r.reached
  OBVIOUS
<1> QED  BY <1>3, <1>4, <1>5, MovedRecalls

(* Variables are written: where it lasts, what the player comes back to    *)
(* suits them still; where it harms nothing, all does.                     *)
LEMMA LastingReturns ==
  ASSUME NEW plan, Orderly(plan), NEW vs, NEW s, Returns(plan, vs, s), s.reached # {},
         \A id \in s.read : Lasting(plan.memory[Place(id)]), NEW values \in Memory
  PROVE  Returns(plan, Written(vs, values), s)
<1>1. \A q \in Route : Lasting(plan.memory[At(q, 1)])  BY DEF Orderly
<1>2. Written(vs, values) \in Memory  BY WrittenMemory DEF Returns
<1> QED  BY <1>1, <1>2 DEF Returns, Lasting

LEMMA HarmlessRecalls ==
  ASSUME NEW plan, Orderly(plan), NEW s, Ordered(plan, s), NEW vs, Recalls(plan, vs, s),
         s.reached # {}, \A id \in s.read : Place(id) \in Places,
         NEW writes, DOMAIN writes \subseteq Keys, Fits(vs, writes), Harmless(plan, writes)
  PROVE  Recalls(plan, Mutated(vs, writes), s)
<1> DEFINE ws == Mutated(vs, writes)
<1>1. \A p \in Places : vs \in plan.memory[p] => ws \in plan.memory[p]  BY DEF Harmless
<1>2. ws \in Memory  BY MutatedMemory DEF Recalls, Returns
<1> HIDE DEF ws
<1>3. \A t \in DOMAIN Script : At(t, 1) \in Places  BY FirstPlace
<1>4. \A t : Suits(plan, vs, t) => Suits(plan, ws, t)  BY <1>1, <1>3 DEF Suits
<1>5. \A q \in Route : At(q, 1) \in Places  BY <1>3, ScriptAssumption
<1>6. Returns(plan, ws, s)  BY <1>1, <1>2, <1>5 DEF Recalls, Returns
<1>7. ASSUME NEW c, NEW w, NEW o, c # None => c \in Places, Minds(plan, vs, s.reached, c, w, o)
      PROVE  Minds(plan, ws, s.reached, c, w, o)
  BY <1>1, <1>4, <1>7 DEF Minds
<1>8. Minds(plan, ws, s.reached, s.cursor, s.wait, s.choice)
  <2>1. s.cursor # None => s.cursor \in Places  BY DEF Ordered, Front, OnStory, OnAside
  <2> QED  BY <1>7, <2>1 DEF Recalls
<1>9. Beneath(plan, ws, s)
  <2> SUFFICES ASSUME NEW i \in DOMAIN s.frames
               PROVE  Minds(plan, ws, s.reached, s.frames[i].cursor, s.frames[i].wait,
                            s.frames[i].choice)
    BY DEF Beneath
  <2>1. s.frames[i].cursor # None => s.frames[i].cursor \in Places
    BY DEF Ordered, Behind, OnStory, OnAside
  <2>2. Minds(plan, vs, s.reached, s.frames[i].cursor, s.frames[i].wait, s.frames[i].choice)
    BY DEF Recalls, Beneath
  <2> QED  BY <1>7, <2>1, <2>2
<1> QED  BY <1>6, <1>8, <1>9 DEF Recalls, ws

(* A step begins in order: it has all its fuel, or has passed a wait with  *)
(* a turn; the wait it answers is pending and is not that of the policy    *)
(* action, and where it may run on no second action is near.               *)
Fuelled(plan, fuel) ==
  \/ fuel = MaxWaits
  \/ /\ fuel = MaxWaits - 1 /\ story'.wait = None
     /\ story'.frames = <<>> => Ahead(plan, story'.cursor) + 1 < MaxWaits

LEMMA BeginPlays ==
  ASSUME NEW plan, Orderly(plan), Plays(plan), SaveInv', LinesRead(story)', NoneIsNoRecord, Ready,
         NEW resolves, NEW fuel, NEW p, Begin(story', resolves, fuel, p), Fuelled(plan, fuel),
         Recalls(plan, story'.vars, story'),
         policy'.source = None \/ (policy'.source = policy.source /\ p = policy),
         Ordered(plan, story'),
         resolves => story.wait # None /\ (policy'.source = None \/ story.wait.command \notin Actions),
         story'.frames = <<>> /\ policy'.source # None /\ Goes(story') /\ story'.cursor # None =>
           story'.cursor \in plan.quiet
  PROVE  Plays(plan)'
<1>1. /\ step' = [prior |-> story.wait, token |-> ActionToken(p), resolves |-> resolves,
                  action |-> FALSE, fuel |-> fuel]
      /\ UNCHANGED <<tokens, failed>>
  BY DEF Begin
<1>2. /\ step'.prior = story.wait /\ step'.token = ActionToken(p) /\ step'.action = FALSE
      /\ step'.fuel = fuel /\ step'.resolves = resolves
  BY <1>1
<1>3. Sound(story, tokens) /\ None \notin tokens /\ (story.wait # None => story.wait.token # None)
  BY NoneAssumption DEF Plays, SaveInv, IInv, Ready
<1>4. ASSUME resolves PROVE story.wait.token \in tokens
  BY <1>3, <1>4 DEF Sound, FrontBound
<1>5. ASSUME resolves, policy'.source # None PROVE ActionToken(p) # story.wait.token
  <2> DEFINE own == {w \in Held(story) : w.command = p.source}
  <2>1. p = policy /\ p.source = policy'.source  BY <1>5
  <2>2. p.source \in Actions  BY <1>5, <2>1 DEF Plays, SaveInv, OwnedInv
  <2>3. CASE own = {}
    <3>1. ActionToken(p) = None  BY <2>3 DEF ActionToken
    <3> QED  BY <1>3, <1>5, <3>1
  <2>4. CASE own # {}
    <3>1. PICK w \in own : ActionToken(p) = w.token  BY <2>4 DEF ActionToken
    <3>2. story.wait \in Held(story)  BY <1>5 DEF Held
    <3>3. ASSUME w.token = story.wait.token PROVE FALSE
      <4>1. w = story.wait  BY <1>3, <3>2, <3>3, HeldDiffer
      <4> QED  BY <1>5, <2>2, <4>1
    <3> QED  BY <3>1, <3>3
  <2> QED  BY <2>3, <2>4
<1>6. fuel \in Nat \ {0} /\ MaxWaits \in Nat  BY PlanNumbers DEF Fuelled
<1>7. Runnable(plan, story', fuel, policy'.source)
  <2> SUFFICES ASSUME story'.frames = <<>>
               PROVE  /\ story'.wait = None => Ahead(plan, story'.cursor) < fuel
                      /\ WaitsFor(story', Clickable) => Ahead(plan, story'.cursor) + 1 < fuel
    BY DEF Runnable
  <2>1. OnStory(plan, Len(story'.calls), story'.cursor, story'.wait, story'.choice)
    BY DEF Ordered, Front
  <2>2. Ahead(plan, story'.cursor) \in Nat /\ Ahead(plan, story'.cursor) < MaxWaits
    BY <1>6, <2>1, PlanNumbers DEF OnStory
  <2>3. CASE fuel = MaxWaits  BY <2>1, <2>2, <2>3 DEF OnStory, WaitsFor
  <2>4. CASE fuel # MaxWaits  BY <1>6, <2>2, <2>4 DEF Fuelled, WaitsFor
  <2> QED  BY <2>3, <2>4
<1>8. StepFits(plan)'
  BY <1>1, <1>2, <1>4, <1>5, <1>6, <1>7 DEF StepFits
<1>9. ~failed'  BY <1>1 DEF Plays
<1> QED  BY <1>8, <1>9 DEF Plays

(* At rest and under no page, the action there is is what is waited for.   *)
LEMMA ActionIsWaitedFor ==
  ASSUME NEW plan, Plays(plan), Ready, story.frames = <<>>, policy.source # None
  PROVE  story.wait # None /\ story.wait.kind = "fence" /\ story.wait.command \in Actions
<1>1. PICK w \in Owned(story) : w.command = policy.source
  BY DEF Plays, SaveInv, OwnedInv, OneOwned, Ready
<1>2. w = story.wait /\ w # None /\ w.command \in Actions
  BY <1>1, EmptyDomain DEF Owned, Held
<1> QED  BY <1>2 DEF Plays, Ordered, Front, OnStory

(* A page waits for no action.                                             *)
LEMMA PagesWaitForNone ==
  ASSUME NEW plan, Plays(plan), Ready, story.frames # <<>>, DOMAIN story.frames = {1},
         policy.source # None
  PROVE  /\ story.frames[1].wait # None /\ story.frames[1].wait.kind = "fence"
<1>1. PICK w \in Owned(story) : w.command = policy.source
  BY DEF Plays, SaveInv, OwnedInv, OneOwned, Ready
<1>2. w # None /\ w.command \in Actions /\ (w = story.wait \/ w = story.frames[1].wait)
  BY <1>1 DEF Owned, Held
<1>3. OnAside(plan, story.cursor, story.wait, story.choice)
  BY DEF Plays, Ordered, Front
<1>4. OnStory(plan, Len(story.calls), story.frames[1].cursor, story.frames[1].wait,
              story.frames[1].choice)
  BY DEF Plays, Ordered, Behind
<1> QED  BY <1>2, <1>3, <1>4 DEF OnAside, OnStory

(* What the lemmas on steps share. *)
PlaysOn(plan) == Orderly(plan) /\ Plays(plan) /\ SaveInv' /\ NoneIsNoRecord

LEMMA TurnPlays ==
  ASSUME NEW plan, PlaysOn(plan), Ready, NEW resolves, NEW fuel, Turn(story', resolves, fuel),
         Fuelled(plan, fuel), Recalls(plan, story'.vars, story'),
         Ordered(plan, story'), story'.read = story.read,
         resolves => story.wait # None /\ (story.wait.kind # "fence" \/ story.wait.command \notin Actions),
         story'.frames = <<>> /\ policy.source # None /\ Goes(story') /\ story'.cursor # None =>
           story'.cursor \in plan.quiet
  PROVE  Plays(plan)'
<1>1. Begin(story', resolves, fuel, policy) /\ policy' = policy  BY DEF Turn
<1>2. story.wait # None /\ story.wait.kind # "fence" => story.wait.command \notin Actions
  BY DEF PlaysOn, Plays, Ordered, Front, OnStory, OnAside
<1>3. LinesRead(story)'  BY DEF PlaysOn, Plays, LinesRead
<1> QED  BY <1>1, <1>2, <1>3, BeginPlays DEF PlaysOn

LEMMA CommandPlays ==
  ASSUME NEW plan, PlaysOn(plan), Ready, NEW resolves, Command(story', resolves),
         Recalls(plan, story'.vars, story'),
         Ordered(plan, story'), story'.read = story.read,
         resolves => story.wait # None /\ (story.wait.kind # "fence" \/ story.wait.command \notin Actions),
         story'.frames = <<>> /\ policy.source # None /\ Goes(story') /\ story'.cursor # None =>
           story'.cursor \in plan.quiet
  PROVE  Plays(plan)'
<1>1. Turn(story', resolves, MaxWaits) /\ Fuelled(plan, MaxWaits)  BY DEF Command, Fuelled
<1> QED  BY <1>1, TurnPlays

(* The story stays where it is, and a wait in front may be answered, for   *)
(* which fast-forward has given a turn.                                    *)
Stays(r, s) ==
  /\ r.calls = s.calls /\ r.frames = s.frames /\ r.read = s.read
  /\ r.cursor = s.cursor /\ r.choice = s.choice /\ r.reached = s.reached
  /\ \/ r.wait = s.wait
     \/ r.wait = None /\ (s.wait.kind \in Clickable \/ s.wait.command \notin Actions)
        /\ ~WaitsFor(s, {"choice"})

LEMMA StaysPlays ==
  ASSUME NEW plan, PlaysOn(plan), Launched, NEW resolves,
         \/ Command(story', resolves)
         \/ /\ Turn(story', resolves, MaxWaits - 1)
            /\ story'.wait = None /\ WaitsFor(story, Clickable),
         Stays(story', story), Recalls(plan, story'.vars, story),
         resolves => story.wait # None /\ (story.wait.kind # "fence" \/ story.wait.command \notin Actions)
  PROVE  Plays(plan)'
<1>1. Ready /\ story.reached # {} /\ Ordered(plan, story)  BY DEF Launched, PlaysOn, Plays
<1>2. Ordered(plan, story')
  <2>1. CASE story'.wait = story.wait  BY <1>1, <2>1, SameOrder DEF Stays
  <2>2. CASE story'.wait # story.wait
    <3>1. story'.wait = None /\ ~WaitsFor(story, {"choice"})  BY <2>2 DEF Stays
    <3> QED  BY <1>1, <3>1, AnsweredOrder DEF Stays
  <2> QED  BY <2>1, <2>2
<1>3. ~(story'.frames = <<>> /\ policy.source # None /\ Goes(story'))
  <2> SUFFICES ASSUME story'.frames = <<>>, policy.source # None PROVE ~Goes(story')
    OBVIOUS
  <2>1. story.frames = <<>>  BY DEF Stays
  <2>2. story.wait # None /\ story.wait.kind = "fence" /\ story.wait.command \in Actions
    BY <1>1, <2>1, ActionIsWaitedFor DEF PlaysOn
  <2>3. story'.wait = story.wait  BY <2>2 DEF Stays, Clickable
  <2> QED  BY <2>2, <2>3 DEF Goes, WaitsFor, Clickable
<1>4. story'.read = story.read  BY DEF Stays
<1>5. Recalls(plan, story'.vars, story')  BY StayedRecalls DEF Stays
<1>6. PICK fuel : Turn(story', resolves, fuel) /\ Fuelled(plan, fuel)
  <2>1. CASE Command(story', resolves)  BY <2>1 DEF Command, Fuelled
  <2>2. CASE /\ Turn(story', resolves, MaxWaits - 1)
             /\ story'.wait = None /\ WaitsFor(story, Clickable)
    <3>1. story.frames = <<>> => Ahead(plan, story.cursor) + 1 < MaxWaits
      BY <1>1, <2>2 DEF Ordered, Front, OnStory, WaitsFor
    <3>2. Fuelled(plan, MaxWaits - 1)  BY <2>2, <3>1 DEF Fuelled, Stays
    <3> QED  BY <2>2, <3>2
  <2> QED  BY <2>1, <2>2
<1> QED  BY <1>1, <1>2, <1>3, <1>4, <1>5, <1>6, TurnPlays

LEMMA ClearedFields ==
  ASSUME Whole(story)
  PROVE  /\ Whole(Cleared) /\ Cleared.calls = <<>> /\ Cleared.frames = <<>>
         /\ Cleared.wait = None /\ Cleared.choice = None /\ Cleared.read = story.read
         /\ Cleared.vars = story.vars /\ Cleared.reached = story.reached
<1> DEFINE r == [story EXCEPT !.calls = <<>>, !.frames = <<>>]
<1>1. Framed(<<>>)  BY EmptySeq, SequenceIsFramed
<1>2. Whole(r) /\ r.calls = <<>> /\ r.frames = <<>> /\ r.read = story.read
      /\ r.vars = story.vars /\ r.reached = story.reached
  BY <1>1 DEF Whole
<1>3. Cleared = Unblocked(r)  BY DEF Cleared
<1> HIDE DEF r
<1> QED  BY <1>2, <1>3, HelperFields DEF Freed, Kept

(* Where a command may go, no call is needed. *)
LEMMA Landings ==
  ASSUME NEW plan, Orderly(plan), NEW q,
         q = Start \/ q \in Route \cup {a.to : a \in Ends("jumps")}
  PROVE  /\ q \in DOMAIN Script /\ At(q, 1) \in Places /\ plan.depth[At(q, 1).state] = 0
         /\ q \in Route \cup {a.to : a \in Ends("jumps")} => At(q, 1) \in plan.quiet
<1>1. q \in DOMAIN Script  BY ScriptAssumption, ActionAssumption
<1> QED  BY <1>1, FirstPlace DEF Orderly

(* A line that was read is spoken at its place. *)
LEMMA LinePlace ==
  ASSUME NEW plan, Orderly(plan), LinesRead(story), Located(story), NEW id \in story.read
  PROVE  /\ Place(id) \in Places /\ plan.depth[Place(id).state] = 0 /\ Place(id) \in plan.quiet
         /\ \A vs \in plan.memory[Place(id)] : Lasting(plan.memory[Place(id)])
<1> DEFINE Spots == UNION {{[state |-> q, ordinal |-> i] : i \in DOMAIN Script[q]} :
                             q \in DOMAIN Script}
<1>0. PICK q \in DOMAIN Script : \E i \in DOMAIN Script[q] : Script[q][i].id = id  BY DEF Located
<1>1. PICK i \in DOMAIN Script[q] : Script[q][i].id = id  BY <1>0
<1>2. \E c \in Spots : Script[c.state][c.ordinal].id = id
  <2>1. [state |-> q, ordinal |-> i] \in Spots  OBVIOUS
  <2> HIDE DEF Spots
  <2> QED  BY <1>1, <2>1
<1>3. Place(id) \in Spots /\ Script[Place(id).state][Place(id).ordinal].id = id
  <2> HIDE DEF Spots
  <2>1. Place(id) = CHOOSE c \in Spots : Script[c.state][c.ordinal].id = id
    BY DEF Place, Spots
  <2> QED  BY <1>2, <2>1
<1>4. PICK r \in DOMAIN Script : \E k \in DOMAIN Script[r] : Place(id) = [state |-> r, ordinal |-> k]
  BY <1>3
<1>5. PICK j \in DOMAIN Script[r] : Place(id) = [state |-> r, ordinal |-> j]  BY <1>4
<1>6. Place(id) = At(r, j) /\ At(r, j) \in Places
  <2>1. Script[r] \in Seq(Commands)  BY CommandAssumption
  <2>2. DOMAIN Script[r] = 1 .. Len(Script[r]) /\ Len(Script[r]) \in Nat  BY <2>1, LenProperties
  <2>3. j \in 1 .. Len(Script[r]) + 1  BY <2>2
  <2> QED  BY <1>5, <2>3, AtPlace DEF At
<1>7. PICK line \in Commands : line.op = "text" /\ line.id = id  BY DEF LinesRead
<1>8. CommandAt(Place(id)) = line
  <2>1. Script[r][j] \in Commands  BY DEF Commands
  <2> QED  BY <1>3, <1>5, <1>7, <2>1, IdsNameCommands DEF CommandAt
<1>9. Obeys(plan, Place(id)) /\ Recollects(plan, Place(id))
  <2>1. Place(id).state = r /\ Place(id).ordinal = j  BY <1>5
  <2> QED  BY <1>6, <2>1 DEF Orderly
<1>10. Place(id) \in Places /\ plan.depth[Place(id).state] = 0 /\ Place(id) \in plan.quiet
  BY <1>6, <1>7, <1>8, <1>9 DEF Obeys
<1>11. \A vs \in plan.memory[Place(id)] : Lasting(plan.memory[Place(id)])
  BY <1>7, <1>8, <1>9 DEF Recollects
<1> QED  BY <1>10, <1>11

LEMMA LinesLast ==
  ASSUME NEW plan, Orderly(plan), Plays(plan)
  PROVE  \A id \in story.read : Place(id) \in Places /\ Lasting(plan.memory[Place(id)])
<1>1. Located(story) /\ LinesRead(story) /\ Returns(plan, story.vars, story)
  BY DEF Plays, SaveInv, Recalls
<1> QED  BY <1>1, LinePlace DEF Returns

(* Variables are written, and the story goes on under no page at a place   *)
(* that they suit.                                                         *)
LEMMA WritesRecall ==
  ASSUME NEW plan, Orderly(plan), Plays(plan), story.reached # {}, NEW values \in Memory, NEW r,
         r.frames = <<>>, r.calls = story.calls, r.read = story.read, r.wait = None, r.choice = None,
         \/ r.reached = story.reached
         \/ \E q : r.reached = story.reached \cup {q} /\ Suits(plan, Written(story.vars, values), q),
         r.cursor # None => /\ Written(story.vars, values) \in plan.memory[r.cursor]
                            /\ r.cursor.state \in r.reached
  PROVE  Recalls(plan, Written(story.vars, values), r)
<1> DEFINE vs == Written(story.vars, values)
<1>1. Returns(plan, vs, story)
  BY LinesLast, LastingReturns DEF Plays, Recalls
<1> HIDE DEF vs
<1>2. Minds(plan, vs, r.reached, r.cursor, r.wait, r.choice)  BY DEF Minds, vs
<1>3. Beneath(plan, vs, r)  BY EmptyDomain DEF Beneath
<1>4. \A q \in r.reached \cap Route : q \in story.reached \/ vs \in plan.memory[At(q, 1)]
  BY ScriptAssumption DEF Suits, vs
<1>5. Returns(plan, vs, r)  BY <1>1, <1>4 DEF Returns
<1> QED  BY <1>2, <1>3, <1>5 DEF Recalls, vs


(* Commands that only the variables tell from one that is looked at here.  *)
Alike(r, s) ==
  /\ r.calls = s.calls /\ r.frames = s.frames /\ r.read = s.read /\ r.reached = s.reached
  /\ r.cursor = s.cursor /\ r.wait = s.wait /\ r.choice = s.choice

LEMMA SwitchedFields ==
  ASSUME NEW s, Whole(s), NEW page \in DOMAIN Entry
  PROVE  LET r == Switched(s, page)
         IN  /\ r.calls = s.calls /\ r.frames = s.frames /\ r.read = s.read /\ r.vars = s.vars
             /\ r.wait = None /\ r.choice = None /\ r.reached = s.reached \cup {Entry[page]}
             /\ r.cursor = At(Entry[page], 1) /\ Entry[page] \in DOMAIN Script /\ Whole(r)
<1>1. Freed(Unblocked(s), s)  BY HelperFields
<1>2. Went(Switched(s, page), Unblocked(s), Entry[page])
  BY <1>1, HelperFields DEF Freed, Kept, Switched
<1>3. Entry[page] \in DOMAIN Script  BY ScriptAssumption
<1> QED  BY <1>1, <1>2, <1>3 DEF Went, Freed, Kept

LEMMA ReturnedFields ==
  ASSUME NEW s, Whole(s), s.frames # <<>>
  PROVE  LET r == Returned(s)
             frame == s.frames[Len(s.frames)]
         IN  /\ r.calls = s.calls /\ r.read = s.read /\ r.reached = s.reached /\ r.vars = s.vars
             /\ r.frames = SubSeq(s.frames, 1, Len(s.frames) - 1)
             /\ r.cursor = frame.cursor /\ r.wait = frame.wait /\ r.choice = frame.choice
             /\ Whole(r)
<1> DEFINE frame == s.frames[Len(s.frames)]
<1>1. Returned(s) = [s EXCEPT !.cursor = frame.cursor, !.wait = frame.wait,
                              !.choice = frame.choice,
                              !.frames = SubSeq(@, 1, Len(@) - 1)]
  BY DEF Returned
<1>2. Framed(SubSeq(s.frames, 1, Len(s.frames) - 1))  BY LastDropped DEF Whole
<1> HIDE DEF frame
<1> QED  BY <1>1, <1>2 DEF Whole, frame

LEMMA SwitchedPlays ==
  ASSUME NEW plan, PlaysOn(plan), Launched, story.frames # <<>>, NEW page \in DOMAIN Entry,
         NEW resolves, Command(story', resolves), resolves => OnPage,
         Alike(story', Switched(story, page)), Recalls(plan, story'.vars, story)
  PROVE  Plays(plan)'
<1>1. /\ Orderly(plan) /\ Ordered(plan, story) /\ Whole(story) /\ Ready /\ story.reached # {}
  BY LocatedWhole DEF PlaysOn, Plays, SaveInv, Launched
<1>2. /\ story'.calls = story.calls /\ story'.frames = story.frames /\ story'.read = story.read
      /\ story'.wait = None /\ story'.choice = None
      /\ story'.reached = story.reached \cup {Entry[page]}
      /\ story'.cursor = At(Entry[page], 1) /\ Entry[page] \in DOMAIN Script
  BY <1>1, SwitchedFields DEF Alike
<1>3. Front(plan, story.frames, Len(story.calls), story'.cursor, story'.wait, story'.choice)
  BY <1>1, <1>2, FirstPlace DEF Front, OnAside, Orderly
<1>4. Ordered(plan, story')  BY <1>1, <1>2, <1>3, FrontChanges
<1>5. Recalls(plan, story'.vars, story')
  <2>1. Suits(plan, story'.vars, Entry[page])  BY <1>1 DEF Recalls, Returns, Orderly, Suits
  <2> QED  BY <1>2, <2>1, GoneRecalls
<1>6. resolves => story.wait # None /\ story.wait.kind # "fence"  BY DEF OnPage, WaitsFor
<1> QED  BY <1>1, <1>2, <1>4, <1>5, <1>6, CommandPlays

LEMMA ReturnedPlays ==
  ASSUME NEW plan, PlaysOn(plan), Launched, story.frames # <<>>,
         NEW resolves, Command(story', resolves), resolves => OnPage,
         Alike(story', Returned(story)), Recalls(plan, story'.vars, story)
  PROVE  Plays(plan)'
<1>1. /\ Orderly(plan) /\ Ordered(plan, story) /\ Whole(story) /\ Ready /\ story.reached # {}
  BY LocatedWhole DEF PlaysOn, Plays, SaveInv, Launched
<1> DEFINE frame == story.frames[Len(story.frames)]
<1>2. /\ story'.calls = story.calls /\ story'.read = story.read /\ story'.reached = story.reached
      /\ story'.frames = SubSeq(story.frames, 1, Len(story.frames) - 1)
      /\ story'.cursor = frame.cursor /\ story'.wait = frame.wait /\ story'.choice = frame.choice
  BY <1>1, ReturnedFields DEF Alike
<1>3. /\ Ordered(plan, story') /\ Recalls(plan, story'.vars, story')
      /\ story'.frames = <<>> => DOMAIN story.frames = {1} /\ story'.wait = story.frames[1].wait
  <2> HIDE DEF frame
  <2>1. LET last == story.frames[Len(story.frames)]
        IN  story'.cursor = last.cursor /\ story'.wait = last.wait /\ story'.choice = last.choice
    BY <1>2 DEF frame
  <2>2. story'.calls = story.calls /\ story'.reached # {}
        /\ story'.frames = SubSeq(story.frames, 1, Len(story.frames) - 1)
    BY <1>1, <1>2
  <2>3. /\ Ordered(plan, story')
        /\ story'.frames = <<>> => DOMAIN story.frames = {1} /\ story'.wait = story.frames[1].wait
    BY <1>1, <2>1, <2>2, PoppedOrder
  <2>4. Recalls(plan, story'.vars, story')  BY <1>1, <1>2, <2>1, <2>2, PoppedRecalls
  <2> QED  BY <2>3, <2>4
<1>4. ~(story'.frames = <<>> /\ policy.source # None /\ Goes(story'))
  <2> SUFFICES ASSUME story'.frames = <<>>, policy.source # None PROVE ~Goes(story')
    OBVIOUS
  <2>1. story'.wait # None /\ story'.wait.kind = "fence"
    BY <1>1, <1>3, PagesWaitForNone DEF PlaysOn
  <2> QED  BY <2>1 DEF Goes, WaitsFor, Clickable
<1>5. resolves => story.wait # None /\ story.wait.kind # "fence"  BY DEF OnPage, WaitsFor
<1> QED  BY <1>1, <1>2, <1>3, <1>4, <1>5, CommandPlays

(* What a system action writes fits, and suits where the story goes on.    *)
LEMMA SystemActionPlays ==
  ASSUME NEW plan, PlaysOn(plan), InvokeSystemAction
  PROVE  Plays(plan)'
<1>1. /\ Orderly(plan) /\ Ordered(plan, story) /\ Whole(story) /\ Plays(plan)
      /\ Recalls(plan, story.vars, story) /\ story.vars \in Memory
  BY LocatedWhole DEF PlaysOn, Plays, SaveInv, Recalls, Returns
<1>2. PICK a \in SystemActions :
        /\ a.ends \in {"switches", "returns"} => story.frames # <<>>
        /\ IF Fits(story.vars, a.writes)
             THEN Command([Effect(a) EXCEPT !.vars = Mutated(story.vars, a.writes)],
                          OnPage /\ a.ends # "stays")
             ELSE Fail
  BY DEF InvokeSystemAction
<1> DEFINE vs == Mutated(story.vars, a.writes)
           r == [Effect(a) EXCEPT !.vars = vs]
           resolves == OnPage /\ a.ends # "stays"
<1>3. Launched /\ Ready /\ story.reached # {}  BY DEF InvokeSystemAction, Launched
<1>4. Fits(story.vars, a.writes) /\ DOMAIN a.writes \subseteq Keys
  BY <1>1, VariableAssumption DEF Orderly
<1>5. story' = r /\ Command(story', resolves)  BY <1>2, <1>4 DEF Command, Turn, Begin
<1>6. /\ Results(story.vars, a.writes) \in Memory
      /\ vs = Written(story.vars, Results(story.vars, a.writes))
  BY <1>1, <1>4, MutatedMemory
<1> HIDE DEF vs, resolves
<1>7. ASSUME Whole(Effect(a)) PROVE Alike(story', Effect(a)) /\ story'.vars = vs
  BY <1>5, <1>7 DEF Alike, Whole
<1>8. a.ends # "jumps" => Recalls(plan, vs, story)
  <2>1. a.ends # "jumps" => Harmless(plan, a.writes)  BY <1>1 DEF Orderly
  <2> QED  BY <1>1, <1>3, <1>4, <2>1, LinesLast, HarmlessRecalls DEF vs
<1>9. resolves => OnPage /\ a.ends # "stays"  BY DEF resolves
<1>10. CASE a.ends = "stays"
  <2>1. Effect(a) = story  BY <1>10 DEF Effect
  <2>2. Stays(story', story) /\ story'.vars = vs  BY <1>1, <1>7, <2>1 DEF Stays, Alike
  <2> QED  BY <1>3, <1>5, <1>8, <1>9, <1>10, <2>2, StaysPlays
<1>11. CASE a.ends = "switches"
  <2>1. Effect(a) = Switched(story, a.to) /\ a.to \in DOMAIN Entry
    BY <1>11, ActionAssumption DEF Effect, Ends
  <2>2. Whole(Effect(a))  BY <1>1, <2>1, SwitchedFields
  <2>3. Alike(story', Switched(story, a.to)) /\ story'.vars = vs  BY <1>7, <2>1, <2>2
  <2> QED  BY <1>2, <1>3, <1>5, <1>8, <1>9, <1>11, <2>1, <2>3, SwitchedPlays
<1>12. CASE a.ends = "returns"
  <2>1. Effect(a) = Returned(story) /\ story.frames # <<>>  BY <1>2, <1>12 DEF Effect
  <2>2. Whole(Effect(a))  BY <1>1, <2>1, ReturnedFields
  <2>3. Alike(story', Returned(story)) /\ story'.vars = vs  BY <1>7, <2>1, <2>2
  <2> QED  BY <1>3, <1>5, <1>8, <1>9, <1>12, <2>1, <2>3, ReturnedPlays
<1>13. CASE a.ends = "jumps"
  <2> DEFINE s == [story EXCEPT !.frames = <<>>]
             u == Unblocked(s)
             q == a.to
  <2>1. Effect(a) = Go(u, q) /\ q \in {b.to : b \in Ends("jumps")}
    BY <1>13 DEF Effect, Ends
  <2>2. Whole(s) /\ s.calls = story.calls /\ s.frames = <<>> /\ s.read = story.read
        /\ s.reached = story.reached
    <3>1. Framed(<<>>)  BY EmptySeq, SequenceIsFramed
    <3> QED  BY <1>1, <3>1 DEF Whole
  <2> HIDE DEF s
  <2>3. Freed(u, s)  BY <2>2, HelperFields
  <2> HIDE DEF u
  <2>4. Went(Effect(a), u, q)  BY <2>1, <2>3, HelperFields DEF Freed, Kept
  <2>5. q \in DOMAIN Script /\ At(q, 1) \in Places /\ plan.depth[At(q, 1).state] = 0
        /\ At(q, 1) \in plan.quiet
    BY <1>1, <2>1, Landings
  <2>6. Alike(story', Effect(a)) /\ story'.vars = vs  BY <1>7, <2>4 DEF Went, Kept
  <2>7. /\ story'.calls = story.calls /\ story'.frames = <<>> /\ story'.read = story.read
        /\ story'.wait = None /\ story'.choice = None /\ story'.reached # {}
        /\ story'.reached = story.reached \cup {q} /\ story'.cursor = At(q, 1)
    BY <2>2, <2>3, <2>4, <2>5, <2>6 DEF Alike, Went, Freed, Kept
  <2>8. Ordered(plan, story')  BY <1>1, <2>5, <2>7, LandedOrder
  <2>9. Suits(plan, vs, q)  BY <1>1, <1>13 DEF Orderly, vs
  <2>10. Recalls(plan, vs, story')
    <3>1. vs \in plan.memory[story'.cursor] /\ story'.cursor.state \in story'.reached
      BY <2>5, <2>7, <2>9 DEF Suits, At
    <3> HIDE DEF q
    <3> QED  BY <1>1, <1>3, <1>6, <2>7, <2>9, <3>1, WritesRecall
  <2>11. resolves => story.wait # None /\ story.wait.kind # "fence"
    BY <1>9 DEF OnPage, WaitsFor
  <2> QED  BY <1>3, <1>5, <2>5, <2>6, <2>7, <2>8, <2>10, <2>11, CommandPlays
<1> QED  BY <1>10, <1>11, <1>12, <1>13, KindsOfActions

LEMMA PlayerPlays ==
  ASSUME NEW plan, PlaysOn(plan), ~MenuAfterEnd, Player
  PROVE  Plays(plan)'
<1>1. /\ Orderly(plan) /\ Ordered(plan, story) /\ Whole(story) /\ Located(story) /\ LinesRead(story)
      /\ Recalls(plan, story.vars, story)
  BY LocatedWhole DEF PlaysOn, Plays, SaveInv
<1>2. \A r, resolves : Command(r, resolves) => story' = r /\ Command(story', resolves)
  BY DEF Command, Turn, Begin
<1>3. Launched => Ready /\ story.reached # {}  BY DEF Launched
<1>4. Ready /\ story.frames = <<>> /\ policy.source # None =>
        story.wait # None /\ story.wait.kind = "fence" /\ story.wait.command \in Actions
  BY ActionIsWaitedFor DEF PlaysOn
<1>5. OnPage => story.wait # None /\ story.wait.kind = "page"  BY DEF OnPage, WaitsFor
<1>6. CASE Launch
  <2>1. Ready /\ story.reached = {} /\ story' = Go(Cleared, Start) /\ Command(story', FALSE)
    BY <1>2, <1>6 DEF Launch
  <2>2. story.frames = <<>> /\ story.wait = None  BY <1>1, <2>1 DEF Ordered
  <2>3. Went(story', Cleared, Start) /\ Cleared.calls = <<>> /\ Cleared.frames = <<>>
        /\ Cleared.wait = None /\ Cleared.choice = None /\ Cleared.read = story.read
        /\ Cleared.vars = story.vars /\ Cleared.reached = story.reached
    BY <1>1, <2>1, ClearedFields, HelperFields
  <2>4. Start \in DOMAIN Script /\ At(Start, 1) \in Places /\ plan.depth[At(Start, 1).state] = 0
    BY <1>1, Landings
  <2>5. Ordered(plan, story')  BY <1>1, <2>3, <2>4, LandedOrder DEF Went, Kept
  <2>6. policy.source = None  BY <1>4, <2>1, <2>2
  <2>7. story'.read = story.read  BY <2>3 DEF Went, Kept
  <2>8. Suits(plan, story.vars, Start)
    BY <1>1, <2>1 DEF Recalls, Returns, Suits, Orderly
  <2>9. Recalls(plan, story'.vars, story')  BY <1>1, <2>3, <2>8, GoneRecalls DEF Went, Kept
  <2> QED  BY <2>1, <2>5, <2>6, <2>7, <2>9, CommandPlays
<1>7. CASE Advance
  <2>1. /\ Launched /\ Command(story', AdvanceResolves)
        /\ story' = IF story.reading = "hidden" THEN [story EXCEPT !.reading = "manual"]
                    ELSE IF WaitsFor(story, Clickable) THEN [story EXCEPT !.wait = None]
                    ELSE story
    BY <1>2, <1>7 DEF Advance
  <2>2. Stays(story', story) /\ story'.vars = story.vars
    BY <1>1, <2>1 DEF Stays, Whole, WaitsFor, Clickable
  <2>3. AdvanceResolves => story.wait # None /\ story.wait.kind # "fence"
    BY DEF AdvanceResolves, WaitsFor, Clickable
  <2> QED  BY <1>1, <2>1, <2>2, <2>3, StaysPlays
<1>8. CASE Choose
  <2>1. PICK option \in story.choice :
          IF ~WaitsFor(story, {"choice"}) THEN Fail
          ELSE Command(IF option \in DOMAIN Script THEN Go(Unblocked(story), option)
                       ELSE Unblocked(story), TRUE)
    BY <1>8 DEF Choose
  <2>2. Launched /\ story.choice # None  BY <1>8 DEF Choose
  <2>3. story.wait # None /\ story.wait.kind = "choice"  BY <1>1, <2>2, ChoiceIsWaitedFor
  <2>4. Command(story', TRUE)
        /\ story' = IF option \in DOMAIN Script THEN Go(Unblocked(story), option)
                    ELSE Unblocked(story)
    BY <1>2, <2>1, <2>3 DEF WaitsFor
  <2>5. Freed(Unblocked(story), story)  BY <1>1, HelperFields
  <2>6. /\ story'.calls = story.calls /\ story'.frames = story.frames /\ story'.read = story.read
        /\ story'.wait = None /\ story'.choice = None /\ story'.reached # {}
        /\ story'.cursor = IF option \in DOMAIN Script THEN At(option, 1) ELSE story.cursor
        /\ story'.reached = IF option \in DOMAIN Script THEN story.reached \cup {option}
                            ELSE story.reached
        /\ story'.vars = story.vars
    <3>1. CASE option \in DOMAIN Script
      <4>1. Went(story', Unblocked(story), option)
        BY <2>4, <2>5, <3>1, HelperFields DEF Freed, Kept
      <4> QED  BY <2>5, <3>1, <4>1 DEF Went, Freed, Kept
    <3>2. CASE option \notin DOMAIN Script
      BY <1>3, <2>2, <2>4, <2>5, <3>2 DEF Freed, Kept
    <3> QED  BY <3>1, <3>2
  <2>7. Front(plan, story.frames, Len(story.calls), story'.cursor, story'.wait, story'.choice)
    BY <1>1, <2>2, <2>6, FirstPlace DEF Ordered, Front, OnStory, OnAside
  <2>8. Ordered(plan, story')  BY <1>1, <2>6, <2>7, FrontChanges
  <2>9. ~(story'.frames = <<>> /\ policy.source # None)  BY <1>3, <1>4, <2>2, <2>3, <2>6
  <2>10. Recalls(plan, story'.vars, story')
    <3>1. CASE option \in DOMAIN Script
      <4>1. Suits(plan, story.vars, option)  BY <1>1, <2>2 DEF Recalls, Minds
      <4> QED  BY <1>1, <2>6, <3>1, <4>1, GoneRecalls
    <3>2. CASE option \notin DOMAIN Script  BY <1>1, <2>6, <3>2, StayedRecalls
    <3> QED  BY <3>1, <3>2
  <2> QED  BY <1>3, <2>2, <2>3, <2>4, <2>6, <2>8, <2>9, <2>10, CommandPlays
<1>9. CASE OpenSystem
  <2>1. PICK page \in DOMAIN Entry :
          Launched /\ story' = Opened(story, page) /\ Command(story', FALSE)
    BY <1>2, <1>9 DEF OpenSystem
  <2>2. PageOver(story', story, page)  BY <1>1, <2>1, HelperFields
  <2>3. Entry[page] \in DOMAIN Script  BY ScriptAssumption
  <2>4. Ordered(plan, story') /\ story'.frames # <<>>
    BY <1>1, <2>2, <2>3, OpenedOrder DEF PageOver
  <2>5. story'.read = story.read /\ story'.vars = story.vars  BY <2>2 DEF PageOver
  <2>6. Recalls(plan, story'.vars, story')
    <3>1. Suits(plan, story.vars, Entry[page])
      BY <1>1 DEF Recalls, Returns, Orderly, Suits
    <3> QED  BY <1>1, <2>2, <2>5, <3>1, OpenedRecalls
  <2> QED  BY <1>3, <2>1, <2>4, <2>5, <2>6, CommandPlays
<1>10. CASE SwitchSystemPage
  <2>1. PICK page \in DOMAIN Entry :
          Launched /\ story' = Switched(story, page) /\ Command(story', OnPage)
    BY <1>2, <1>10 DEF SwitchSystemPage
  <2>2. story.frames # <<>>  BY <1>10 DEF SwitchSystemPage
  <2>3. Alike(story', Switched(story, page)) /\ story'.vars = story.vars
    BY <1>1, <2>1, SwitchedFields DEF Alike
  <2> QED  BY <1>1, <2>1, <2>2, <2>3, SwitchedPlays
<1>11. CASE ReturnSystem
  <2>1. /\ Launched /\ story.frames # <<>> /\ story' = Returned(story) /\ Command(story', OnPage)
    BY <1>2, <1>11 DEF ReturnSystem
  <2>2. Alike(story', Returned(story)) /\ story'.vars = story.vars
    BY <1>1, <2>1, ReturnedFields DEF Alike
  <2> QED  BY <1>1, <2>1, <2>2, ReturnedPlays
<1>12. CASE SetReadingMode
  <2>1. PICK mode \in Reading :
          LET s == [story EXCEPT !.reading = mode]
              fast == mode = "fast" /\ WaitsFor(story, Clickable)
          IN  IF fast /\ story.allowed THEN Turn([s EXCEPT !.wait = None], fast, MaxWaits - 1)
              ELSE Command(s, fast)
    BY <1>12 DEF SetReadingMode
  <2> DEFINE s == [story EXCEPT !.reading = mode]
             fast == mode = "fast" /\ WaitsFor(story, Clickable)
  <2>2. Launched  BY <1>12 DEF SetReadingMode
  <2>3. fast => story.wait # None /\ story.wait.kind \in Clickable /\ story.wait.kind # "fence"
    BY DEF WaitsFor, Clickable
  <2>4. CASE fast /\ Turn([s EXCEPT !.wait = None], fast, MaxWaits - 1)
    <3>1. story' = [s EXCEPT !.wait = None]  BY <2>4 DEF Turn, Begin
    <3>2. Stays(story', story) /\ story'.vars = story.vars /\ story'.wait = None
      BY <1>1, <2>3, <2>4, <3>1 DEF Stays, Whole, WaitsFor, Clickable
    <3>3. Turn(story', fast, MaxWaits - 1)  BY <2>4, <3>1
    <3> QED  BY <1>1, <2>2, <2>3, <2>4, <3>2, <3>3, StaysPlays
  <2>5. CASE Command(s, fast)
    <3>1. story' = s /\ Command(story', fast)  BY <1>2, <2>5
    <3>2. Stays(story', story) /\ story'.vars = story.vars  BY <1>1, <3>1 DEF Stays, Whole
    <3> QED  BY <1>1, <2>2, <2>3, <3>1, <3>2, StaysPlays
  <2> QED  BY <2>1, <2>4, <2>5
<1>13. CASE SetSkip
  <2>0. PICK mode : Launched /\ Command([story EXCEPT !.skip = mode], FALSE)
    BY <1>13 DEF SetSkip
  <2>1. Launched /\ story' = [story EXCEPT !.skip = mode] /\ Command(story', FALSE)
    BY <1>2, <2>0
  <2>2. Stays(story', story) /\ story'.vars = story.vars  BY <1>1, <2>1 DEF Stays, Whole
  <2> QED  BY <1>1, <2>1, <2>2, StaysPlays
<1>14. CASE InvokeSystemAction  BY <1>14, SystemActionPlays
<1>15. CASE JumpToState
  <2>0. PICK q \in story.reached \cap Route : Launched /\ OnPage /\ Command(Go(Cleared, q), OnPage)
    BY <1>15 DEF JumpToState
  <2>1. Launched /\ OnPage /\ story' = Go(Cleared, q) /\ Command(story', OnPage)
    BY <1>2, <2>0
  <2>2. Went(story', Cleared, q) /\ Cleared.calls = <<>> /\ Cleared.frames = <<>>
        /\ Cleared.wait = None /\ Cleared.choice = None /\ Cleared.read = story.read
        /\ Cleared.vars = story.vars /\ Cleared.reached = story.reached
    BY <1>1, <2>1, ClearedFields, HelperFields
  <2>3. q \in DOMAIN Script /\ At(q, 1) \in Places /\ plan.depth[At(q, 1).state] = 0
        /\ At(q, 1) \in plan.quiet
    BY <1>1, Landings
  <2>4. Ordered(plan, story')  BY <1>1, <2>2, <2>3, LandedOrder DEF Went, Kept
  <2>5. story'.read = story.read /\ story'.cursor = At(q, 1)  BY <2>2, <2>3 DEF Went, Kept
  <2>6. Suits(plan, story.vars, q)  BY <1>1, <2>0 DEF Recalls, Returns, Suits
  <2>7. Recalls(plan, story'.vars, story')  BY <1>1, <2>2, <2>6, GoneRecalls DEF Went, Kept
  <2> QED  BY <1>3, <1>5, <2>1, <2>3, <2>4, <2>5, <2>7, CommandPlays
<1>16. CASE JumpBacklog
  <2>1. PICK id \in story.read :
          /\ Launched /\ OnPage /\ Command(story', OnPage)
          /\ story' = [Go(Cleared, Place(id).state) EXCEPT !.cursor = Place(id)]
    BY <1>2, <1>16 DEF JumpBacklog
  <2> DEFINE r == Go(Cleared, Place(id).state)
  <2>2. Went(r, Cleared, Place(id).state) /\ Cleared.calls = <<>> /\ Cleared.frames = <<>>
        /\ Cleared.wait = None /\ Cleared.choice = None /\ Cleared.read = story.read
        /\ Cleared.vars = story.vars /\ Cleared.reached = story.reached
    BY <1>1, ClearedFields, HelperFields
  <2>3. story' = [r EXCEPT !.cursor = Place(id)]  BY <2>1
  <2> HIDE DEF r
  <2>4. /\ story'.calls = <<>> /\ story'.frames = <<>> /\ story'.read = story.read
        /\ story'.wait = None /\ story'.choice = None /\ story'.reached # {}
        /\ story'.cursor = Place(id)
        /\ story'.reached = story.reached \cup {Place(id).state} /\ story'.vars = story.vars
    BY <2>2, <2>3 DEF Went, Kept, Whole
  <2>5. Place(id) \in Places /\ plan.depth[Place(id).state] = 0 /\ Place(id) \in plan.quiet
    BY <1>1, LinePlace
  <2>6. Ordered(plan, story')  BY <1>1, <2>4, <2>5, LandedOrder
  <2>7. story.vars \in plan.memory[Place(id)] /\ Place(id).state \in story.reached
    BY <1>1, <2>1 DEF Recalls, Returns
  <2>8. Recalls(plan, story'.vars, story')
    <3>1. story'.reached = story.reached  BY <2>4, <2>7
    <3>2. Minds(plan, story.vars, story.reached, story'.cursor, story'.wait, story'.choice)
      BY <2>4, <2>7 DEF Minds
    <3> QED  BY <1>1, <2>4, <3>1, <3>2, EmptyDomain, MovedRecalls
  <2> QED  BY <1>3, <1>5, <2>1, <2>4, <2>5, <2>6, <2>8, CommandPlays
<1> QED
  BY <1>6, <1>7, <1>8, <1>9, <1>10, <1>11, <1>12, <1>13, <1>14, <1>15, <1>16
  DEF Player, PlaysOn

LEMMA HostPlays ==
  ASSUME NEW plan, PlaysOn(plan), Host
  PROVE  Plays(plan)'
<1>1. /\ Orderly(plan) /\ Ordered(plan, story) /\ Whole(story) /\ LinesRead(story)
      /\ StepFits(plan) /\ ~failed
      /\ {"source", "reads", "waiting", "awaits"} \subseteq DOMAIN policy
      /\ Recalls(plan, story.vars, story)
  BY LocatedWhole DEF PlaysOn, Plays, SaveInv, ReadsInv, AwaitsFollow
<1>2. CASE CompleteWait
  <2> DEFINE r == [story EXCEPT !.wait = None]
  <2>1. /\ Launched /\ Command(r, TRUE) /\ story' = r
        /\ story.wait # None /\ story.wait.kind = "fence" /\ story.wait.command \notin Actions
    BY <1>2 DEF CompleteWait, Command, Turn, Begin, WaitsFor
  <2>2. Stays(story', story) /\ story'.vars = story.vars
    BY <1>1, <2>1 DEF Stays, Whole, WaitsFor
  <2> HIDE DEF r
  <2> QED  BY <1>1, <2>1, <2>2, StaysPlays
<1>3. CASE Poll
  <2>1. /\ Launched /\ Ready /\ story.frames = <<>> /\ story.wait # None
        /\ story.wait.kind = "fence" /\ story.reached # {}
    BY <1>3 DEF Poll, Launched, PolicyActionPending, WaitsFor
  <2>2. CASE Command(story, FALSE)
    <3>1. story' = story  BY <2>2 DEF Command, Turn, Begin
    <3>2. Stays(story', story)  BY <3>1 DEF Stays
    <3> QED  BY <1>1, <2>1, <2>2, <3>1, <3>2, StaysPlays
  <2>3. ASSUME NEW dropped, NEW n, Await(dropped, n) PROVE Plays(plan)'
    <3>1. Begin(story, FALSE, MaxWaits, policy) /\ story' = story  BY <2>3 DEF Await, Begin
    <3>2. policy'.source = policy.source  BY <1>1, <2>3 DEF Await, SyncAwaits
    <3>3. ~Goes(story')  BY <2>1, <3>1 DEF Goes, WaitsFor, Clickable
    <3>4. LinesRead(story)' /\ Ordered(plan, story')  BY <1>1, <3>1
    <3>5. Begin(story', FALSE, MaxWaits, policy) /\ Fuelled(plan, MaxWaits)
          /\ Recalls(plan, story'.vars, story')
      BY <1>1, <3>1 DEF Fuelled
    <3> QED  BY <2>1, <3>2, <3>3, <3>4, <3>5, BeginPlays DEF PlaysOn
  <2>4. CASE Complete
    <3>0. PICK values \in Memory :
            Begin([story EXCEPT !.wait = None, !.vars = Written(@, values)],
                  TRUE, MaxWaits, NoAction)
      BY <2>4 DEF Complete
    <3> DEFINE vs == Written(story.vars, values)
               r == [story EXCEPT !.wait = None, !.vars = vs]
    <3>1. story' = r /\ policy' = NoAction /\ Begin(story', TRUE, MaxWaits, NoAction)
      BY <2>4, <3>0 DEF Complete, Begin
    <3>2. policy'.source = None  BY <3>1, NoActionItself
    <3> HIDE DEF vs
    <3>3. /\ story'.frames = story.frames /\ story'.calls = story.calls
          /\ story'.reached = story.reached /\ story'.cursor = story.cursor /\ story'.vars = vs
          /\ story'.wait = None /\ story'.choice = story.choice /\ story'.read = story.read
      BY <1>1, <3>1 DEF Whole
    <3>4. Ordered(plan, story')  BY <1>1, <2>1, <3>3, AnsweredOrder DEF WaitsFor
    <3>5. LinesRead(story)'  BY <1>1, <3>3 DEF LinesRead
    <3>6. story.wait.command \in Actions
      <4>1. story.wait \in Held(story) /\ story.wait.command = policy.source
        BY <1>3, <2>1 DEF Poll, PolicyActionPending, Held
      <4> QED  BY <2>1, <4>1 DEF PlaysOn, Plays, SaveInv, OwnedInv
    <3>7. Recalls(plan, vs, story')
      <4>1. story.choice = None  BY <1>1, <2>1, ChoiceIsWaitedFor
      <4>2. story.cursor # None =>
              vs \in plan.memory[story.cursor] /\ story.cursor.state \in story.reached
        BY <1>1, <2>1, <3>6 DEF Recalls, Minds, Lasting, vs
      <4> QED  BY <1>1, <2>1, <3>3, <4>1, <4>2, WritesRecall DEF vs, PlaysOn
    <3>8. Fuelled(plan, MaxWaits)  BY DEF Fuelled
    <3> HIDE DEF r
    <3> QED  BY <2>1, <3>1, <3>2, <3>3, <3>4, <3>5, <3>7, <3>8, BeginPlays DEF PlaysOn
  <2> QED  BY <1>3, <2>2, <2>3, <2>4 DEF Poll
<1>4. ASSUME UNCHANGED <<story, step, tokens, failed>>, policy'.source = policy.source
      PROVE  Plays(plan)'
  BY <1>1, <1>4 DEF PlaysOn, Plays, StepFits, LinesRead
<1>5. CASE ReadDone  BY <1>4, <1>5 DEF ReadDone
<1>6. CASE Restore
  <2>1. policy'.source = policy.source  BY <1>1, <1>6 DEF Restore
  <2> QED  BY <1>4, <1>6, <2>1 DEF Restore
<1> QED  BY <1>2, <1>3, <1>5, <1>6 DEF Host

(* The place of a command is where it stands. *)
LEMMA PlaceIsThere ==
  ASSUME NEW q \in DOMAIN Script, NEW i \in DOMAIN Script[q]
  PROVE  Place(Script[q][i].id) = [state |-> q, ordinal |-> i]
<1> DEFINE Spots == UNION {{[state |-> r, ordinal |-> k] : k \in DOMAIN Script[r]} :
                             r \in DOMAIN Script}
           id == Script[q][i].id
<1>1. [state |-> q, ordinal |-> i] \in Spots  OBVIOUS
<1>2. \A c \in Spots : Script[c.state][c.ordinal].id = id => c = [state |-> q, ordinal |-> i]
  <2>1. TAKE c \in Spots
  <2>2. PICK r \in DOMAIN Script : \E k \in DOMAIN Script[r] : c = [state |-> r, ordinal |-> k]
    BY <2>1
  <2>3. PICK k \in DOMAIN Script[r] : c = [state |-> r, ordinal |-> k]  BY <2>2
  <2>4. c.state = r /\ c.ordinal = k  BY <2>3
  <2> QED  BY <2>3, <2>4, CommandAssumption
<1>3. Place(id) = CHOOSE c \in Spots : Script[c.state][c.ordinal].id = id  BY DEF Place
<1>4. \E c \in Spots : Script[c.state][c.ordinal].id = id
  <2> HIDE DEF Spots
  <2> QED  BY <1>1
<1> HIDE DEF Spots, id
<1> QED  BY <1>2, <1>3, <1>4 DEF id

(* The command the interpreter is at, and the place behind it. *)
NextPlace == [story.cursor EXCEPT !.ordinal = @ + 1]

LEMMA HereObeys ==
  ASSUME NEW plan, PlaysOn(plan), Running, ~AtEnd
  PROVE  /\ story.cursor \in Places /\ Obeys(plan, story.cursor)
         /\ Recollects(plan, story.cursor) /\ story.vars \in plan.memory[story.cursor]
         /\ story.cursor.state \in story.reached /\ Place(Current.id) = story.cursor
         /\ CommandAt(story.cursor) = Current /\ Current \in Commands
         /\ NextPlace \in Places /\ NextPlace.state = story.cursor.state
         /\ NextPlace = At(story.cursor.state, story.cursor.ordinal + 1)
         /\ NextPlace.ordinal = story.cursor.ordinal + 1 /\ story.cursor.ordinal >= 1
         /\ At(story.cursor.state, story.cursor.ordinal) = story.cursor
<1> DEFINE p == story.cursor
<1>1. story.cursor # None /\ Located(story)  BY DEF PlaysOn, Plays, SaveInv, Running
<1>2. p \in Places
  BY <1>1 DEF PlaysOn, Plays, Ordered, Front, OnStory, OnAside
<1>3. p.ordinal \in DOMAIN Script[p.state]  BY <1>2, PlacesOf DEF AtEnd
<1>4. Obeys(plan, p) /\ Recollects(plan, p)  BY <1>2, <1>3 DEF PlaysOn, Orderly
<1>5. CommandAt(p) = Current /\ Current \in Commands
  BY <1>1, CurrentIsCommand DEF CommandAt, Current
<1>6. p.ordinal + 1 \in 1 .. Len(Script[p.state]) + 1 /\ p.state \in DOMAIN Script
      /\ p = At(p.state, p.ordinal) /\ p.ordinal >= 1
  BY <1>2, <1>3, PlacesOf
<1>7. NextPlace = At(p.state, p.ordinal + 1)  BY <1>6 DEF NextPlace, At
<1>8. NextPlace \in Places /\ NextPlace.state = p.state /\ NextPlace.ordinal = p.ordinal + 1
  BY <1>6, <1>7, AtPlace
<1>9. story.vars \in plan.memory[p] /\ p.state \in story.reached
  BY <1>1 DEF PlaysOn, Plays, Recalls, Minds
<1>10. Place(Current.id) = p
  BY <1>3, <1>6, PlaceIsThere DEF Current, At
<1> QED  BY <1>2, <1>4, <1>5, <1>6, <1>7, <1>8, <1>9, <1>10

LEMMA RunsPlays ==
  ASSUME NEW plan, PlaysOn(plan), step # None, Runs(story'), Recalls(plan, story'.vars, story'),
         Ordered(plan, story'), LinesRead(story)',
         Runnable(plan, story', step.fuel, policy.source)
  PROVE  Plays(plan)'
BY DEF PlaysOn, Plays, StepFits, Runs

(* The interpreter goes on to a place from which it passes no more waits. *)
GoesTo(plan, c) ==
  c # None => /\ c \in Places /\ plan.depth[c.state] <= plan.depth[story.cursor.state]
              /\ story.cursor.state \in plan.aside => c.state \in plan.aside
              /\ Onward(plan, story.cursor, c)

LEMMA Numbers ==
  ASSUME NEW plan, PlaysOn(plan), Running
  PROVE  /\ story.cursor \in Places /\ story.cursor # None /\ step # None
         /\ story.wait = None /\ story.choice = None /\ story.reached # {}
         /\ step.fuel \in Nat \ {0} /\ Whole(story) /\ Len(story.calls) \in Nat
         /\ plan.depth[story.cursor.state] \in Nat
         /\ plan.rank[story.cursor] \in Nat /\ plan.rank[story.cursor] < MaxWaits
         /\ MaxWaits \in Nat
         /\ Orderly(plan) /\ Ordered(plan, story) /\ LinesRead(story)
         /\ Recalls(plan, story.vars, story)
         /\ story.frames = <<>> => /\ plan.rank[story.cursor] < step.fuel
                                   /\ policy.source # None => story.cursor \in plan.quiet
                                   /\ plan.depth[story.cursor.state] <= Len(story.calls)
         /\ story.frames # <<>> => story.cursor.state \in plan.aside
<1>1. /\ story.cursor # None /\ step # None /\ story.wait = None
      /\ Orderly(plan) /\ Ordered(plan, story) /\ StepFits(plan) /\ Whole(story) /\ LinesRead(story)
      /\ Recalls(plan, story.vars, story)
  BY LocatedWhole DEF PlaysOn, Plays, SaveInv, Running
<1>2. story.cursor \in Places  BY <1>1 DEF Ordered, Front, OnStory, OnAside
<1>3. story.choice = None  BY <1>1, ChoiceIsWaitedFor
<1>4. story.reached # {}  BY <1>1 DEF Ordered
<1>5. story.cursor.state \in DOMAIN Script  BY <1>2, PlacesOf
<1>6. /\ plan.depth[story.cursor.state] \in Nat /\ MaxWaits \in Nat
      /\ plan.rank[story.cursor] \in Nat /\ plan.rank[story.cursor] < MaxWaits
  BY <1>1, <1>2, <1>5, PlanNumbers
<1>7. Len(story.calls) \in Nat  BY <1>1, FramedLength DEF Whole
<1>8. step.fuel \in Nat \ {0}  BY <1>1 DEF StepFits
<1>9. Ahead(plan, story.cursor) = plan.rank[story.cursor]  BY <1>1 DEF Ahead
<1>10. story.frames = <<>> => /\ plan.rank[story.cursor] < step.fuel
                              /\ policy.source # None => story.cursor \in plan.quiet
  BY <1>1, <1>9 DEF StepFits, Runnable, Goes
<1>11. /\ story.frames = <<>> => plan.depth[story.cursor.state] <= Len(story.calls)
       /\ story.frames # <<>> => story.cursor.state \in plan.aside
  BY <1>1 DEF Ordered, Front, OnStory, OnAside
<1> QED  BY <1>1, <1>2, <1>3, <1>4, <1>6, <1>7, <1>8, <1>10, <1>11

LEMMA MovesPlay ==
  ASSUME NEW plan, PlaysOn(plan), Running, Runs(story'), GoesTo(plan, story'.cursor),
         Recalls(plan, story'.vars, story'),
         story'.calls = story.calls, story'.frames = story.frames, story'.read = story.read,
         story'.wait = None, story'.choice = None, story'.reached # {}
  PROVE  Plays(plan)'
<1> DEFINE c == story'.cursor
<1>1. c # None => plan.rank[c] \in Nat /\ plan.depth[c.state] \in Nat /\ Ahead(plan, c) = plan.rank[c]
  BY PlacesOf, PlanNumbers DEF GoesTo, PlaysOn, Ahead
<1>2. Front(plan, story.frames, Len(story.calls), c, story'.wait, story'.choice)
  <2>1. CASE story.frames = <<>>
    <3>1. c # None => c \in Places /\ plan.depth[c.state] <= Len(story.calls)
      BY <1>1, <2>1, Numbers DEF GoesTo
    <3> QED  BY <2>1, <3>1 DEF Front, OnStory
  <2>2. CASE story.frames # <<>>
    <3>1. c # None => c \in Places /\ c.state \in plan.aside  BY <2>2, Numbers DEF GoesTo
    <3> QED  BY <2>2, <3>1 DEF Front, OnAside
  <2> QED  BY <2>1, <2>2
<1>3. Ordered(plan, story')  BY <1>2, Numbers, FrontChanges
<1>4. Runnable(plan, story', step.fuel, policy.source)
  <2> SUFFICES ASSUME story'.frames = <<>>
               PROVE  /\ Ahead(plan, c) < step.fuel
                      /\ policy.source # None /\ c # None => c \in plan.quiet
    BY DEF Runnable, WaitsFor
  <2>1. CASE c = None  BY <2>1, Numbers DEF Ahead
  <2>2. CASE c # None
    BY <1>1, <2>2, Numbers DEF GoesTo, Onward
  <2> QED  BY <2>1, <2>2
<1>5. LinesRead(story)'  BY Numbers DEF LinesRead
<1> QED  BY <1>3, <1>4, <1>5, RunsPlays, Numbers

(* The interpreter blocks behind the command it was at. *)
Answered == {"text", "input"}
BlocksPlain(plan, r, kind) ==
  /\ r.calls = story.calls /\ r.frames = story.frames /\ r.reached = story.reached
  /\ r.vars = story.vars
  /\ r.read = story.read \/ (Current.op = "text" /\ r.read = story.read \cup {Current.id})
  /\ Current.op \in {"text", "choice", "page", "fence", "input", "policy"}
  /\ r.cursor = NextPlace
  /\ r.wait = [kind |-> kind, command |-> Current.id, token |-> None]
  /\ kind \in Clickable => Current.op \in Answered
  /\ Current.op = "policy" => kind = "fence" /\ story.frames = <<>>
  /\ r.choice # None =>
       /\ kind = "choice"
       /\ \A t \in r.choice : Within(plan, story.cursor, t) /\ Suits(plan, story.vars, t)

LEMMA BlocksOrder ==
  ASSUME NEW plan, PlaysOn(plan), Running, ~AtEnd, NEW r, NEW kind, BlocksPlain(plan, r, kind)
  PROVE  /\ Ordered(plan, r) /\ Runnable(plan, r, step.fuel, policy.source)
         /\ Recalls(plan, r.vars, r)
<1>1. r.wait # None /\ r.wait.kind = kind /\ r.wait.command = Current.id
  <2>1. r.wait = [kind |-> kind, command |-> Current.id, token |-> None]  BY DEF BlocksPlain
  <2>2. r.wait # None  BY <2>1 DEF NoneIsNoRecord, PlaysOn
  <2> QED  BY <2>1, <2>2
<1>2. Current.op # "policy" => Current.id \notin Actions  BY HereObeys, OtherCommands
<1>3. /\ NextPlace \in Places /\ plan.rank[NextPlace] \in Nat /\ Ahead(plan, NextPlace) \in Nat
      /\ Ahead(plan, NextPlace) <= plan.rank[NextPlace]
      /\ NextPlace.state = story.cursor.state
  BY HereObeys, PlanNumbers DEF PlaysOn
<1>4. kind \in Clickable => Onward(plan, story.cursor, NextPlace)
                            /\ plan.rank[NextPlace] < plan.rank[story.cursor]
  BY HereObeys DEF BlocksPlain, Obeys, Answered
<1>5. \A t \in DOMAIN Script : plan.depth[t] \in Nat  BY PlanNumbers DEF PlaysOn
<1>6. Front(plan, story.frames, Len(story.calls), r.cursor, r.wait, r.choice)
  <2>1. CASE story.frames = <<>>
    <3>1. r.wait.command \in Actions => r.wait.kind = "fence"  BY <1>1, <1>2 DEF BlocksPlain
    <3>2. r.wait.kind \in Clickable => Ahead(plan, r.cursor) + 1 < MaxWaits
      BY <1>1, <1>3, <1>4, Numbers DEF BlocksPlain
    <3>3. r.cursor \in Places /\ plan.depth[r.cursor.state] <= Len(story.calls)
      BY <1>3, <2>1, Numbers DEF BlocksPlain
    <3>4. ASSUME r.choice # None, NEW t \in r.choice, t \in DOMAIN Script
          PROVE  plan.depth[t] <= Len(story.calls)
      <4>1. plan.depth[t] <= plan.depth[story.cursor.state]  BY <3>4 DEF BlocksPlain, Within
      <4> QED  BY <1>5, <2>1, <3>4, <4>1, Numbers
    <3>5. r.choice # None => r.wait.kind = "choice"  BY <1>1 DEF BlocksPlain
    <3> QED  BY <1>1, <2>1, <3>1, <3>2, <3>3, <3>4, <3>5 DEF Front, OnStory
  <2>2. CASE story.frames # <<>>
    <3>1. story.cursor.state \in plan.aside  BY <2>2, Numbers
    <3>2. r.wait.command \notin Actions  BY <1>1, <1>2, <2>2 DEF BlocksPlain
    <3>3. r.cursor \in Places /\ r.cursor.state \in plan.aside  BY <1>3, <3>1 DEF BlocksPlain
    <3>4. ASSUME r.choice # None, NEW t \in r.choice, t \in DOMAIN Script PROVE t \in plan.aside
      BY <3>1, <3>4 DEF BlocksPlain, Within
    <3>5. r.choice # None => r.wait.kind = "choice"  BY <1>1 DEF BlocksPlain
    <3> QED  BY <1>1, <2>2, <3>2, <3>3, <3>4, <3>5 DEF Front, OnAside
  <2> QED  BY <2>1, <2>2
<1>7. Ordered(plan, r)
  <2>1. r.frames = story.frames /\ r.calls = story.calls /\ r.reached # {}
    BY Numbers DEF BlocksPlain
  <2> QED  BY <1>6, <2>1, Numbers, FrontChanges
<1>8. Runnable(plan, r, step.fuel, policy.source)
  <2> SUFFICES ASSUME r.frames = <<>>, r.wait.kind \in Clickable
               PROVE  /\ Ahead(plan, r.cursor) + 1 < step.fuel
                      /\ policy.source # None => r.cursor \in plan.quiet
    BY <1>1 DEF Runnable, Goes, WaitsFor
  <2>1. story.frames = <<>> /\ kind \in Clickable /\ r.cursor = NextPlace  BY <1>1 DEF BlocksPlain
  <2>2. plan.rank[NextPlace] < plan.rank[story.cursor] /\ Onward(plan, story.cursor, NextPlace)
    BY <1>4, <2>1
  <2>3. Ahead(plan, NextPlace) + 1 < step.fuel  BY <1>3, <2>1, <2>2, Numbers
  <2>4. policy.source # None => NextPlace \in plan.quiet  BY <2>1, <2>2, Numbers DEF Onward
  <2> QED  BY <2>1, <2>3, <2>4
<1>9. Recalls(plan, story.vars, r)
  <2>1. /\ story.vars \in plan.memory[NextPlace] /\ NextPlace.state \in story.reached
        /\ Current.op = "policy" => Lasting(plan.memory[NextPlace])
    BY HereObeys DEF BlocksPlain, Recollects
  <2>2. Minds(plan, story.vars, story.reached, r.cursor, r.wait, r.choice)
    BY <1>1, <1>2, <2>1 DEF BlocksPlain, Minds
  <2>3. \A id \in r.read : \/ id \in story.read
                          \/ /\ story.vars \in plan.memory[Place(id)]
                             /\ Place(id).state \in story.reached
    BY HereObeys DEF BlocksPlain
  <2>4. /\ r.calls = story.calls /\ r.frames = story.frames /\ r.reached = story.reached
        /\ Recalls(plan, story.vars, story)
    BY Numbers DEF BlocksPlain
  <2>5. /\ \A i \in DOMAIN r.calls : \E j \in DOMAIN story.calls : r.calls[i] = story.calls[j]
        /\ \A i \in DOMAIN r.frames : \E j \in DOMAIN story.frames : r.frames[i] = story.frames[j]
    BY <2>4
  <2> QED  BY <2>2, <2>3, <2>4, <2>5, MovedRecalls
<1>10. r.vars = story.vars  BY DEF BlocksPlain
<1> QED  BY <1>7, <1>8, <1>9, <1>10

LEMMA BlocksPlay ==
  ASSUME NEW plan, PlaysOn(plan), Running, ~AtEnd, NEW kind, BlocksPlain(plan, story', kind),
         Runs(story')
  PROVE  Plays(plan)'
<1>1. /\ Ordered(plan, story') /\ Runnable(plan, story', step.fuel, policy.source)
      /\ Recalls(plan, story'.vars, story')
  BY BlocksOrder
<1>2. LinesRead(story)'  BY HereObeys, Numbers DEF LinesRead, BlocksPlain
<1> QED  BY <1>1, <1>2, Numbers, RunsPlays

LEMMA SkipWaitPlays ==
  ASSUME NEW plan, PlaysOn(plan), SkipWait
  PROVE  Plays(plan)'
<1>1. /\ step # None /\ StepFits(plan) /\ Ordered(plan, story) /\ Whole(story) /\ LinesRead(story)
      /\ ~failed /\ Orderly(plan)
      /\ step = [prior |-> step.prior, token |-> step.token, resolves |-> step.resolves,
                 action |-> step.action, fuel |-> step.fuel]
  BY LocatedWhole DEF SkipWait, Stopped, PlaysOn, Plays, SaveInv, IInv, Remembers
<1>0. ~OutOfFuel  BY <1>1 DEF StepFits, OutOfFuel
<1>2. story.frames = <<>> /\ WaitsFor(story, Clickable) /\ story.wait # None
      /\ ~WaitsFor(story, {"choice"})
  BY <1>0 DEF SkipWait, FastForwards, WaitsFor, Clickable
<1>3. Ahead(plan, story.cursor) + 1 < step.fuel /\ step.fuel \in Nat
      /\ (policy.source # None /\ story.cursor # None => story.cursor \in plan.quiet)
  BY <1>1, <1>2 DEF StepFits, Runnable, Goes
<1>4. Ahead(plan, story.cursor) \in Nat
  <2>1. story.cursor # None => story.cursor \in Places
    BY <1>1, <1>2 DEF Ordered, Front, OnStory
  <2> QED  BY <1>1, <2>1, PlanNumbers
<1>5. /\ story' = [story EXCEPT !.wait = None]
      /\ step' = [step EXCEPT !.fuel = @ - 1]
      /\ UNCHANGED <<tokens, policy, failed>>
  BY <1>0 DEF SkipWait
<1>6. /\ story'.frames = story.frames /\ story'.calls = story.calls /\ story'.wait = None
      /\ story'.reached = story.reached /\ story'.cursor = story.cursor
      /\ story'.choice = story.choice /\ story'.read = story.read /\ story'.vars = story.vars
  BY <1>1, <1>5 DEF Whole
<1>7. story.reached # {}  BY <1>1, <1>2 DEF Ordered
<1>8. Ordered(plan, story')  BY <1>1, <1>2, <1>6, <1>7, AnsweredOrder
<1>9. /\ step'.fuel = step.fuel - 1 /\ step'.prior = step.prior /\ step'.token = step.token
      /\ step'.resolves = step.resolves /\ step'.action = step.action
  BY <1>1, <1>5
<1>10. Runnable(plan, story', step'.fuel, policy'.source)
  BY <1>3, <1>4, <1>5, <1>6, <1>9 DEF Runnable, WaitsFor
<1>11. step'.fuel \in Nat \ {0}  BY <1>3, <1>4, <1>9
<1>12. StepFits(plan)'  BY <1>1, <1>5, <1>9, <1>10, <1>11 DEF StepFits
<1>13. LinesRead(story)'  BY <1>1, <1>6 DEF LinesRead
<1>14. Recalls(plan, story'.vars, story')
  <2>1. Recalls(plan, story.vars, story)  BY DEF PlaysOn, Plays
  <2> QED  BY <1>6, <2>1, StayedRecalls
<1> QED  BY <1>1, <1>5, <1>8, <1>12, <1>13, <1>14 DEF Plays, PlaysOn

LEMMA PolicyActionPlays ==
  ASSUME NEW plan, PlaysOn(plan), PolicyAction
  PROVE  Plays(plan)'
<1>1. /\ Running /\ ~AtEnd /\ Current.op = "policy"
      /\ story' = Blocked(Past(story), "fence", Current.id)
      /\ step' = [step EXCEPT !.action = TRUE]
      /\ UNCHANGED <<tokens, policy, failed>>
  BY DEF PolicyAction, Meets
<1>2. Obeys(plan, story.cursor) /\ CommandAt(story.cursor) = Current  BY <1>1, HereObeys
<1>3. story.cursor.state \notin plan.aside /\ story.cursor \notin plan.quiet
  BY <1>1, <1>2 DEF Obeys
<1>4. story.frames = <<>> /\ policy.source = None  BY <1>1, <1>3, Numbers
<1>5. Passed(Past(story), story) /\ Whole(story)  BY <1>1, Numbers, HelperFields
<1>6. Stops(story', Past(story), "fence", Current.id)
  BY <1>1, <1>5, HelperFields DEF Passed, Kept
<1>7. BlocksPlain(plan, story', "fence")
  BY <1>1, <1>4, <1>5, <1>6, Numbers DEF BlocksPlain, Passed, Stops, Kept, NextPlace, Clickable
<1>8. /\ Ordered(plan, story') /\ Runnable(plan, story', step.fuel, policy.source)
      /\ Recalls(plan, story'.vars, story')
  BY <1>1, <1>7, BlocksOrder
<1>9. step = [prior |-> step.prior, token |-> step.token, resolves |-> step.resolves,
              action |-> step.action, fuel |-> step.fuel] /\ StepFits(plan) /\ step # None /\ ~failed
  BY <1>1 DEF Running, PlaysOn, Plays, SaveInv, IInv, Remembers
<1>10. /\ step'.fuel = step.fuel /\ step'.prior = step.prior /\ step'.token = step.token
       /\ step'.resolves = step.resolves
  BY <1>1, <1>9
<1>11. StepFits(plan)'  BY <1>1, <1>4, <1>8, <1>9, <1>10 DEF StepFits
<1>12. LinesRead(story)'
  BY <1>1, <1>5, <1>6, Numbers DEF LinesRead, Passed, Stops, Kept
<1> QED  BY <1>1, <1>8, <1>9, <1>11, <1>12 DEF Plays, PlaysOn

LEMMA InterpreterPlays ==
  ASSUME NEW plan, PlaysOn(plan), Interpreter
  PROVE  Plays(plan)'
<1>1. \A r : Runs(r) => story' = r /\ Runs(story')  BY DEF Runs
<1> DEFINE p == story.cursor
           past == Past(story)
           Here == Current
<1>2. Running => /\ Passed(past, story) /\ Whole(story) /\ Whole(past) /\ past.cursor = NextPlace
                 /\ past.wait = None /\ past.choice = None /\ past.reached # {}
                 /\ past.calls = story.calls /\ past.frames = story.frames /\ past.read = story.read
                 /\ past.vars = story.vars /\ past.reached = story.reached
                 /\ Recalls(plan, story.vars, story)
  BY Numbers, HelperFields DEF Passed, Kept, NextPlace
<1>3. ASSUME Running, ~AtEnd, NEW kind, NEW r, Stops(r, past, kind, Here.id),
             kind \in Clickable => Here.op \in Answered, Here.op # "policy",
             Here.op \in {"text", "choice", "page", "fence", "input"}
      PROVE  BlocksPlain(plan, r, kind) /\ r.read = story.read /\ Whole(r)
  BY <1>2, <1>3 DEF Stops, Kept, BlocksPlain
<1>4. ASSUME Running, ~AtEnd, Onward(plan, p, NextPlace) PROVE GoesTo(plan, NextPlace)
  <2>1. plan.depth[p.state] \in Nat  BY <1>4, Numbers
  <2> QED  BY <1>4, <2>1, HereObeys DEF GoesTo
<1>5. ASSUME Running, NEW target, Leads(plan, p, target), NEW r, Went(r, story, target),
             Suits(plan, story.vars, target)
      PROVE  /\ Recalls(plan, r.vars, r)
             /\ GoesTo(plan, r.cursor) /\ r.calls = story.calls /\ r.frames = story.frames
             /\ r.read = story.read /\ r.wait = None /\ r.choice = None /\ r.reached # {}
  <2>0. /\ r.calls = story.calls /\ r.frames = story.frames /\ r.read = story.read
        /\ r.wait = None /\ r.choice = None /\ r.reached # {}
        /\ r.cursor = IF target \in DOMAIN Script THEN At(target, 1) ELSE None
    BY <1>5, Numbers DEF Went, Kept
  <2>1. ASSUME target \in DOMAIN Script PROVE GoesTo(plan, r.cursor)
    <3>1. r.cursor = At(target, 1)  BY <2>0, <2>1
    <3> QED  BY <1>5, <2>1, <3>1, FirstPlace, Numbers DEF Leads, Within, GoesTo
  <2>2. ASSUME target \notin DOMAIN Script PROVE GoesTo(plan, r.cursor)
    BY <2>0, <2>2, Numbers DEF GoesTo
  <2>3. Recalls(plan, r.vars, r)  BY <1>5, Numbers, GoneRecalls DEF Went, Kept
  <2>4. GoesTo(plan, r.cursor)  BY <2>1, <2>2
  <2> QED  BY <2>0, <2>3, <2>4
<1>6. Running /\ ~AtEnd => Obeys(plan, p) /\ CommandAt(p) = Here /\ Here \in Commands
                           /\ NextPlace = At(p.state, p.ordinal + 1)
                           /\ Recollects(plan, p) /\ story.vars \in plan.memory[p]
                           /\ NextPlace.state \in story.reached
  BY HereObeys
<1>7. \A kind, id : Running => Stops(Blocked(past, kind, id), past, kind, id)
  BY <1>2, HelperFields
<1>70. ASSUME Running, NEW vs, Recalls(plan, vs, story), vs \in plan.memory[NextPlace],
              NextPlace.state \in story.reached, NEW r,
              r.cursor = NextPlace, r.wait = None, r.choice = None, r.reached = story.reached,
              r.calls = story.calls, r.frames = story.frames, r.read = story.read
       PROVE  Recalls(plan, vs, r)
  <2>1. Minds(plan, vs, story.reached, r.cursor, r.wait, r.choice)  BY <1>70 DEF Minds
  <2> QED  BY <1>70, <2>1, FrontRecalls
<1> HIDE DEF p, past, Here
<1>8. CASE EndOfState
  <2>1. Running /\ Runs(story') /\ story' = [story EXCEPT !.cursor = None]
    BY <1>1, <1>8 DEF EndOfState
  <2>2. /\ story'.cursor = None /\ story'.calls = story.calls /\ story'.frames = story.frames
        /\ story'.read = story.read /\ story'.wait = None /\ story'.choice = None
        /\ story'.reached # {} /\ story'.reached = story.reached /\ story'.vars = story.vars
    BY <2>1, Numbers DEF Whole
  <2>3. Minds(plan, story.vars, story.reached, story'.cursor, story'.wait, story'.choice)
    BY <2>2 DEF Minds
  <2>4. Recalls(plan, story'.vars, story')  BY <2>1, <2>2, <2>3, Numbers, FrontRecalls
  <2> QED  BY <2>1, <2>2, <2>4, MovesPlay DEF GoesTo
<1>9. CASE Text
  <2> DEFINE b == Blocked(past, "text", Here.id)
  <2>1. /\ Running /\ ~AtEnd /\ Here.op = "text" /\ Runs(story')
        /\ story' = IF ShouldSkip(Here.id) THEN past ELSE [b EXCEPT !.read = @ \cup {Here.id}]
    BY <1>1, <1>9 DEF Text, Meets, Here, past
  <2>2. Onward(plan, p, NextPlace)  BY <1>6, <2>1 DEF Obeys
  <2>3. CASE story' = past
    <3>1. story.vars \in plan.memory[NextPlace] /\ NextPlace.state \in story.reached
      BY <1>6, <2>1 DEF Recollects
    <3>2. Recalls(plan, story'.vars, story')  BY <1>2, <1>70, <2>1, <2>3, <3>1
    <3> QED  BY <1>2, <1>4, <2>1, <2>2, <2>3, <3>2, MovesPlay
  <2>4. CASE story' = [b EXCEPT !.read = @ \cup {Here.id}]
    <3>1. Stops(b, past, "text", Here.id)  BY <1>7, <2>1
    <3>2. BlocksPlain(plan, b, "text") /\ b.read = story.read /\ Whole(b)
      BY <1>3, <2>1, <3>1 DEF Answered
    <3> HIDE DEF b
    <3>3. BlocksPlain(plan, story', "text")
      BY <2>1, <2>4, <3>2 DEF BlocksPlain, Whole, Here
    <3> QED  BY <2>1, <3>3, BlocksPlay
  <2> QED  BY <2>1, <2>3, <2>4
<1>10. CASE Choice
  <2> DEFINE b == Blocked(past, "choice", Here.id)
             offered == Offered(story.vars, Here)
  <2>0. Running /\ ~AtEnd /\ Here.op = "choice"  BY <1>10 DEF Choice, Meets, Here
  <2>00. /\ \A test \in Tests(Here) : test.key \in DOMAIN story.vars
         /\ \A t \in offered : Suits(plan, story.vars, t)
    BY <1>6, <2>0 DEF Recollects
  <2>1. Runs(story') /\ story' = [b EXCEPT !.choice = offered]
    BY <1>1, <1>10, <2>00 DEF Choice, Here, past
  <2>2. Stops(b, past, "choice", Here.id)  BY <1>7, <2>0
  <2>3. BlocksPlain(plan, b, "choice") /\ b.read = story.read /\ Whole(b)
    BY <1>3, <2>0, <2>2 DEF Clickable
  <2>4. \A t \in offered : Within(plan, p, t)  BY <1>6, <2>0 DEF Obeys, Offered
  <2> HIDE DEF b, offered
  <2>5. BlocksPlain(plan, story', "choice")
    BY <2>00, <2>1, <2>3, <2>4 DEF BlocksPlain, Whole, p
  <2> QED  BY <2>0, <2>1, <2>5, BlocksPlay
<1>11. CASE Jump
  <2>1. Running /\ ~AtEnd /\ Here.op = "jump" /\ Runs(story') /\ story' = Go(story, Here.target)
    BY <1>1, <1>11 DEF Jump, Meets, Here
  <2>2. Leads(plan, p, Here.target) /\ Suits(plan, story.vars, Here.target)
    BY <1>6, <2>1 DEF Obeys, Recollects
  <2>3. Went(story', story, Here.target)  BY <1>2, <2>1, HelperFields
  <2> QED  BY <1>5, <2>1, <2>2, <2>3, MovesPlay
<1>12. CASE Branch
  <2> DEFINE target == IF Holds(story.vars, Here.test) THEN Here.then ELSE Here.else
  <2>0. Running /\ ~AtEnd /\ Here.op = "branch"  BY <1>12 DEF Branch, Meets, Here
  <2>00. Here.test.key \in DOMAIN story.vars /\ Suits(plan, story.vars, target)
    BY <1>6, <2>0 DEF Recollects
  <2>1. Runs(story') /\ story' = Go(story, target)  BY <1>1, <1>12, <2>00 DEF Branch, Here
  <2>2. Leads(plan, p, target)  BY <1>6, <2>0 DEF Obeys
  <2> HIDE DEF target
  <2>3. Went(story', story, target)  BY <1>2, <2>0, <2>1, HelperFields
  <2> QED  BY <1>5, <2>0, <2>00, <2>1, <2>2, <2>3, MovesPlay
<1>13. CASE Call
  <2> DEFINE more == Append(story.calls, past.cursor)
             b == [story EXCEPT !.calls = more]
             n == Len(story.calls)
  <2>1. /\ Running /\ ~AtEnd /\ Here.op = "call"
        /\ IF Here.target \notin DOMAIN Script THEN Fail
           ELSE Runs(Go([story EXCEPT !.calls = Append(@, past.cursor)], Here.target))
    BY <1>13 DEF Call, Meets, Here, past
  <2>2. /\ Here.target \in DOMAIN Script /\ p.state \notin plan.aside
        /\ plan.depth[Here.target] <= plan.depth[p.state] + 1
        /\ Onward(plan, p, At(Here.target, 1))
    BY <1>6, <2>1 DEF Obeys
  <2>3. Runs(story') /\ story' = Go(b, Here.target)  BY <1>1, <2>1, <2>2
  <2>4. /\ n \in Nat /\ DOMAIN story.calls = 1 .. n /\ DOMAIN more = 1 .. n + 1
        /\ Framed(more)
        /\ \A i \in 1 .. n : more[i] = story.calls[i]
        /\ more[n + 1] = past.cursor
    BY <1>2, <2>1, FrameAppended DEF Whole
  <2>5. Whole(b) /\ b.calls = more /\ b.frames = story.frames /\ b.read = story.read
        /\ b.wait = story.wait /\ b.choice = story.choice
        /\ b.vars = story.vars /\ b.reached = story.reached
    BY <1>2, <2>1, <2>4 DEF Whole
  <2> HIDE DEF b, more
  <2>6. Went(story', b, Here.target)  BY <2>3, <2>5, HelperFields
  <2>7. Len(more) = n + 1
    <3>1. DOMAIN more = 1 .. Len(more) /\ Len(more) \in Nat  BY <2>4, FramedLength
    <3> QED  BY <2>4, <3>1
  <2> HIDE DEF n
  <2>8. past.cursor \in ReturnPlaces /\ past.cursor.state = p.state
    <3>1. /\ NextPlace \in Places /\ NextPlace.state = p.state
          /\ NextPlace.ordinal = p.ordinal + 1 /\ p.ordinal >= 1
          /\ At(p.state, p.ordinal) = p
      BY <2>1, HereObeys DEF p
    <3>2. p.ordinal \in Nat  BY <2>1, Numbers, PlacesOf DEF p
    <3>3. NextPlace.ordinal > 1 /\ NextPlace.ordinal - 1 = p.ordinal  BY <3>1, <3>2
    <3> QED  BY <1>2, <1>6, <2>1, <3>1, <3>3 DEF ReturnPlaces
  <2>9. story.frames = <<>>  BY <2>1, <2>2, Numbers DEF p
  <2>10. /\ plan.depth[p.state] \in Nat /\ plan.depth[p.state] <= n
         /\ Ordered(plan, story) /\ p # None /\ story.reached # {}
    BY <2>1, <2>9, Numbers DEF p, n
  <2>11. CallsFit(plan, more)
    <3> SUFFICES ASSUME NEW i \in DOMAIN more
                 PROVE  more[i] \in ReturnPlaces /\ plan.depth[more[i].state] < i
      BY DEF CallsFit
    <3>1. CASE i \in 1 .. n  BY <2>4, <2>10, <3>1 DEF Ordered, CallsFit
    <3>2. CASE i = n + 1  BY <2>4, <2>8, <2>10, <3>2
    <3> QED  BY <2>4, <3>1, <3>2
  <2>12. At(Here.target, 1) \in Places /\ At(Here.target, 1).state = Here.target
         /\ plan.depth[Here.target] \in Nat
    BY <2>1, <2>2, FirstPlace, PlanNumbers, Numbers
  <2>13. /\ story'.calls = more /\ story'.frames = <<>> /\ story'.read = story.read
         /\ story'.wait = None /\ story'.choice = None /\ story'.reached # {}
         /\ story'.cursor = At(Here.target, 1)
    BY <2>1, <2>2, <2>5, <2>6, <2>9, Numbers DEF Went, Kept
  <2>14. Ordered(plan, story')
    <3>1. plan.depth[Here.target] <= n + 1  BY <2>2, <2>4, <2>10, <2>12
    <3>2. Front(plan, <<>>, n + 1, story'.cursor, story'.wait, story'.choice)
      BY <2>12, <2>13, <3>1 DEF Front, OnStory
    <3>3. Behind(plan, <<>>, n + 1)  BY EmptyDomain DEF Behind
    <3> QED  BY <2>7, <2>11, <2>13, <3>2, <3>3 DEF Ordered
  <2>15. Runnable(plan, story', step.fuel, policy.source)
    <3>1. plan.rank[At(Here.target, 1)] <= plan.rank[p] /\ plan.rank[p] < step.fuel
          /\ plan.rank[p] \in Nat /\ step.fuel \in Nat
          /\ (policy.source # None => At(Here.target, 1) \in plan.quiet)
      BY <2>1, <2>2, <2>9, Numbers DEF Onward, p
    <3>2. Ahead(plan, At(Here.target, 1)) <= plan.rank[At(Here.target, 1)]
          /\ Ahead(plan, At(Here.target, 1)) \in Nat
          /\ plan.rank[At(Here.target, 1)] \in Nat
      BY <2>1, <2>12, PlanNumbers, Numbers
    <3>3. Ahead(plan, At(Here.target, 1)) < step.fuel  BY <3>1, <3>2
    <3> QED  BY <2>13, <3>1, <3>3 DEF Runnable, WaitsFor
  <2>16. LinesRead(story)'  BY <2>1, <2>13, Numbers DEF LinesRead
  <2>17. Recalls(plan, story'.vars, story')
    <3>1. /\ story'.vars = story.vars /\ story'.reached = story.reached \cup {Here.target}
          /\ Recalls(plan, story.vars, story) /\ Suits(plan, story.vars, Here.target)
      BY <1>2, <1>6, <2>1, <2>5, <2>6 DEF Went, Kept, Recollects
    <3>2. Minds(plan, story.vars, story'.reached, story'.cursor, story'.wait, story'.choice)
      BY <2>2, <2>12, <2>13, <3>1 DEF Minds, Suits
    <3>3. \A q \in story'.reached \cap Route :
            q \in story.reached \/ story.vars \in plan.memory[At(q, 1)]
      BY <3>1, ScriptAssumption DEF Suits
    <3>4. \A i \in DOMAIN story'.calls :
            \/ \E j \in DOMAIN story.calls : story'.calls[i] = story.calls[j]
            \/ story'.calls[i].state \in story'.reached
      <4> SUFFICES ASSUME NEW i \in 1 .. n + 1
                   PROVE  \/ \E j \in DOMAIN story.calls : more[i] = story.calls[j]
                          \/ more[i].state \in story'.reached
        BY <2>4, <2>13
      <4>1. CASE i \in 1 .. n  BY <2>4, <4>1
      <4>2. CASE i = n + 1
        <5>1. more[i].state = p.state /\ p.state \in story.reached
          BY <1>2, <2>1, <2>4, <2>8, <4>2, HereObeys DEF p
        <5> QED  BY <3>1, <5>1
      <4> QED  BY <2>4, <4>1, <4>2
    <3>5. \A i \in DOMAIN story'.frames :
            \E j \in DOMAIN story.frames : story'.frames[i] = story.frames[j]
      BY <2>13, EmptyDomain
    <3> QED  BY <2>13, <3>1, <3>2, <3>3, <3>4, <3>5, MovedRecalls
  <2> QED  BY <2>1, <2>3, <2>14, <2>15, <2>16, <2>17, Numbers, RunsPlays
<1>14. CASE Return
  <2> DEFINE n == Len(story.calls)
             less == SubSeq(story.calls, 1, n - 1)
  <2>1. /\ Running /\ ~AtEnd /\ Here.op = "return"
        /\ IF story.calls = <<>> THEN Fail
           ELSE Runs([story EXCEPT !.cursor = story.calls[n], !.calls = SubSeq(@, 1, Len(@) - 1)])
    BY <1>14 DEF Return, Meets, Here
  <2>2. /\ p.state \notin plan.aside /\ plan.depth[p.state] > 0
        /\ \A r \in ReturnPlaces : Onward(plan, p, r)
    BY <1>6, <2>1 DEF Obeys
  <2>3. /\ story.frames = <<>> /\ plan.depth[p.state] <= n /\ plan.depth[p.state] \in Nat
        /\ n \in Nat /\ Whole(story) /\ Ordered(plan, story) /\ p # None
    BY <2>1, <2>2, Numbers DEF p
  <2>4. story.calls # <<>>  BY <2>2, <2>3, FramedLength DEF Whole
  <2>5. Runs(story')
        /\ story' = [story EXCEPT !.cursor = story.calls[n], !.calls = SubSeq(@, 1, Len(@) - 1)]
    BY <1>1, <2>1, <2>4
  <2>6. /\ n \in DOMAIN story.calls /\ Framed(less)
        /\ \A i \in DOMAIN less : i \in DOMAIN story.calls /\ less[i] = story.calls[i]
    BY <2>3, <2>4, LastDropped DEF Whole
  <2>7. Len(less) = n - 1
    <3>1. story.calls \in Seq({story.calls[i] : i \in DOMAIN story.calls})
      BY <2>3 DEF Whole, Framed
    <3>2. DOMAIN story.calls = 1 .. n  BY <2>3, FramedLength DEF Whole
    <3>3. n - 1 \in Int /\ 1 \in Int /\ n - 1 >= 0  BY <2>3, <2>6, <3>2
    <3> HIDE DEF n
    <3>4. \A i \in 1 .. n - 1 : story.calls[i] \in {story.calls[j] : j \in DOMAIN story.calls}
      BY <2>3, <3>2
    <3>5. Len(less) = IF 1 <= n - 1 THEN n - 1 - 1 + 1 ELSE 0  BY <3>3, <3>4, SubSeqProperties
    <3> QED  BY <3>3, <3>5
  <2>8. story.calls[n] \in ReturnPlaces /\ plan.depth[story.calls[n].state] < n
    BY <2>3, <2>6 DEF Ordered, CallsFit
  <2>9. CallsFit(plan, less)  BY <2>3, <2>6 DEF Ordered, CallsFit
  <2>10. /\ story'.calls = less /\ story'.frames = <<>> /\ story'.read = story.read
         /\ story'.wait = None /\ story'.choice = None /\ story'.reached # {}
         /\ story'.cursor = story.calls[n]
         /\ story'.vars = story.vars /\ story'.reached = story.reached
    BY <2>1, <2>3, <2>5, Numbers DEF Whole
  <2> HIDE DEF less
  <2>11. story.calls[n] \in Places /\ plan.depth[story.calls[n].state] \in Nat
    BY <2>1, <2>8, Numbers, PlacesOf, PlanNumbers DEF ReturnPlaces
  <2> HIDE DEF n
  <2>12. Ordered(plan, story')
    <3>1. plan.depth[story.calls[n].state] <= n - 1  BY <2>3, <2>8, <2>11
    <3>2. Front(plan, <<>>, n - 1, story'.cursor, story'.wait, story'.choice)
      BY <2>10, <2>11, <3>1 DEF Front, OnStory
    <3>3. Behind(plan, <<>>, n - 1)  BY EmptyDomain DEF Behind
    <3> QED  BY <2>7, <2>9, <2>10, <3>2, <3>3 DEF Ordered
  <2>13. Runnable(plan, story', step.fuel, policy.source)
    <3> DEFINE c == story.calls[n]
    <3>1. plan.rank[c] <= plan.rank[p] /\ plan.rank[p] < step.fuel
          /\ plan.rank[p] \in Nat /\ step.fuel \in Nat
          /\ (policy.source # None => c \in plan.quiet)
      BY <2>1, <2>2, <2>3, <2>8, Numbers DEF Onward, p
    <3>2. Ahead(plan, c) <= plan.rank[c] /\ Ahead(plan, c) \in Nat /\ plan.rank[c] \in Nat
      BY <2>1, <2>11, PlanNumbers, Numbers
    <3>3. story'.cursor = c /\ story'.wait = None  BY <2>10
    <3> HIDE DEF c
    <3>4. Ahead(plan, c) < step.fuel  BY <3>1, <3>2
    <3> QED  BY <3>1, <3>3, <3>4 DEF Runnable, WaitsFor
  <2>14. LinesRead(story)'  BY <2>1, <2>10, Numbers DEF LinesRead
  <2>15. Recalls(plan, story'.vars, story')
    <3>1. Recalls(plan, story.vars, story)  BY <2>1, Numbers
    <3>2. story.vars \in plan.memory[story.calls[n]] /\ story.calls[n].state \in story.reached
      BY <1>6, <2>1, <2>6, <2>8, <3>1 DEF Recollects, Recalls, Returns
    <3>3. Minds(plan, story.vars, story.reached, story'.cursor, story'.wait, story'.choice)
      BY <2>10, <3>2 DEF Minds
    <3>4. \A i \in DOMAIN story'.calls : \E j \in DOMAIN story.calls : story'.calls[i] = story.calls[j]
      BY <2>6, <2>10 DEF less
    <3>5. \A i \in DOMAIN story'.frames :
            \E j \in DOMAIN story.frames : story'.frames[i] = story.frames[j]
      BY <2>10, EmptyDomain
    <3> QED  BY <2>10, <3>1, <3>3, <3>4, <3>5, MovedRecalls
  <2> QED  BY <2>1, <2>5, <2>12, <2>13, <2>14, <2>15, Numbers, RunsPlays
<1>15. CASE Mutate
  <2> DEFINE results == Results(story.vars, Here.writes)
             vs == Mutated(story.vars, Here.writes)
  <2>0. Running /\ ~AtEnd /\ Here.op = "set"  BY <1>15 DEF Mutate, Meets, Here
  <2>1. /\ Fits(story.vars, Here.writes) /\ vs \in plan.memory[NextPlace]
        /\ p.state \in plan.aside => Harmless(plan, Here.writes)
    BY <1>6, <2>0 DEF Recollects
  <2>2. Runs(story') /\ story' = [past EXCEPT !.vars = vs]
    BY <1>1, <1>2, <1>15, <2>0, <2>1 DEF Mutate, Here, past
  <2>3. DOMAIN Here.writes \subseteq Keys  BY <1>6, <2>0, VariableAssumption
  <2>4. story.vars \in Memory  BY <1>2, <2>0 DEF Recalls, Returns
  <2>5. results \in Memory /\ vs = Written(story.vars, results)
    BY <2>1, <2>3, <2>4, MutatedMemory
  <2>6. Onward(plan, p, NextPlace)  BY <1>6, <2>0 DEF Obeys
  <2> HIDE DEF vs, results
  <2>7. /\ story'.cursor = NextPlace /\ story'.wait = None /\ story'.choice = None
        /\ story'.reached # {} /\ story'.calls = story.calls /\ story'.frames = story.frames
        /\ story'.read = story.read /\ story'.reached = story.reached /\ story'.vars = vs
    BY <1>2, <2>0, <2>2 DEF Whole
  <2>8. Recalls(plan, vs, story')
    <3>1. CASE story.frames = <<>>
      <4>1. Orderly(plan) /\ Plays(plan) /\ story.reached # {}  BY <2>0, Numbers DEF PlaysOn
      <4> QED  BY <1>6, <2>0, <2>1, <2>5, <2>7, <3>1, <4>1, WritesRecall
    <3>2. CASE story.frames # <<>>
      <4>1. Harmless(plan, Here.writes)  BY <2>0, <2>1, <3>2, Numbers DEF p
      <4>2. /\ Orderly(plan) /\ Ordered(plan, story) /\ story.reached # {}
            /\ Recalls(plan, story.vars, story) /\ \A id \in story.read : Place(id) \in Places
        BY <2>0, Numbers, LinesLast DEF PlaysOn
      <4>3. Recalls(plan, vs, story)  BY <2>1, <2>3, <4>1, <4>2, HarmlessRecalls DEF vs
      <4> QED  BY <1>6, <1>70, <2>0, <2>1, <2>7, <4>3
    <3> QED  BY <3>1, <3>2
  <2> QED  BY <1>4, <2>0, <2>2, <2>6, <2>7, <2>8, MovesPlay
<1>150. CASE Stage
  <2>1. PICK open :
          /\ Running /\ ~AtEnd /\ Here.op = "stage" /\ Runs(story')
          /\ story' = [past EXCEPT !.allowed = open]
    BY <1>1, <1>150 DEF Stage, Meets, Here, past
  <2>2. Onward(plan, p, NextPlace) /\ story.vars \in plan.memory[NextPlace]
    BY <1>6, <2>1 DEF Obeys, Recollects
  <2>3. /\ story'.cursor = NextPlace /\ story'.wait = None /\ story'.choice = None
        /\ story'.reached # {} /\ story'.calls = story.calls /\ story'.frames = story.frames
        /\ story'.read = story.read /\ story'.reached = story.reached /\ story'.vars = story.vars
    BY <1>2, <2>1 DEF Whole
  <2>4. Recalls(plan, story'.vars, story')  BY <1>2, <1>6, <1>70, <2>1, <2>2, <2>3
  <2> QED  BY <1>4, <2>1, <2>2, <2>3, <2>4, MovesPlay
<1>16. CASE SystemPage
  <2> DEFINE other == {page \in DOMAIN Entry : Entry[page] # story.cursor.state}
  <2>1. /\ Running /\ ~AtEnd /\ Here.op = "page" /\ Runs(story')
        /\ story' = IF Here.page \in other THEN Opened(past, Here.page)
                    ELSE Blocked(past, "page", Here.id)
    BY <1>1, <1>16 DEF SystemPage, Meets, Here, past
  <2>2. CASE story' = Blocked(past, "page", Here.id)
    <3>1. Stops(story', past, "page", Here.id)  BY <1>7, <2>1, <2>2
    <3>2. BlocksPlain(plan, story', "page") /\ story'.read = story.read
      BY <1>3, <2>1, <3>1 DEF Clickable
    <3> QED  BY <2>1, <3>2, BlocksPlay
  <2>3. CASE Here.page \in other /\ story' = Opened(past, Here.page)
    <3>1. PageOver(story', past, Here.page)  BY <1>2, <2>1, <2>3, HelperFields
    <3>2. Here.page \in DOMAIN Entry /\ Entry[Here.page] \in DOMAIN Script
      BY <2>3, ScriptAssumption
    <3>3. Front(plan, story.frames, Len(story.calls), past.cursor, past.wait, past.choice)
      <4>1. NextPlace \in Places /\ NextPlace.state = story.cursor.state  BY <2>1, HereObeys
      <4> QED  BY <1>2, <2>1, <4>1, Numbers DEF Front, OnStory, OnAside
    <3>4. Ordered(plan, past)  BY <1>2, <2>1, <3>3, Numbers, FrontChanges
    <3>5. Ordered(plan, story') /\ story'.frames # <<>>
      <4>1. Orderly(plan) /\ Whole(past)  BY <1>2, <2>1 DEF PlaysOn
      <4>2. /\ story'.calls = past.calls /\ story'.reached # {}
            /\ story'.wait = None /\ story'.choice = None
            /\ story'.frames = Append(past.frames, [cursor |-> past.cursor, wait |-> past.wait,
                                                    choice |-> past.choice])
            /\ story'.cursor = At(Entry[Here.page], 1)
        BY <3>1, <3>2 DEF PageOver
      <4> QED  BY <3>2, <3>4, <4>1, <4>2, OpenedOrder
    <3>6. Runnable(plan, story', step.fuel, policy.source)  BY <3>5 DEF Runnable
    <3>8. Recalls(plan, story'.vars, story')
      <4>1. story.vars \in plan.memory[NextPlace]  BY <1>6, <2>1 DEF Recollects
      <4>2. Recalls(plan, story.vars, past)  BY <1>2, <1>6, <1>70, <2>1, <4>1
      <4>3. Suits(plan, story.vars, Entry[Here.page])
        BY <1>2, <2>1, <3>2 DEF PlaysOn, Orderly, Recalls, Returns, Suits
      <4>4. story'.vars = story.vars  BY <1>2, <2>1, <3>1 DEF PageOver
      <4> QED  BY <1>2, <2>1, <3>1, <4>2, <4>3, <4>4, OpenedRecalls
    <3>7. LinesRead(story)'  BY <1>2, <2>1, <3>1, Numbers DEF LinesRead, PageOver
    <3> QED  BY <2>1, <3>5, <3>6, <3>7, <3>8, Numbers, RunsPlays
  <2> QED  BY <2>1, <2>2, <2>3
<1>17. CASE Fence \/ Input
  <2>1. PICK kind : /\ Running /\ ~AtEnd /\ Here.op \in {"fence", "input"} /\ Runs(story')
                    /\ kind \in Clickable => Here.op \in Answered
                    /\ story' = Blocked(past, kind, Here.id)
    BY <1>1, <1>17 DEF Fence, Input, Meets, Here, past, Clickable, Answered
  <2>2. Stops(story', past, kind, Here.id)  BY <1>7, <2>1
  <2>3. BlocksPlain(plan, story', kind) /\ story'.read = story.read
    BY <1>3, <2>1, <2>2
  <2> QED  BY <2>1, <2>3, BlocksPlay
<1>18. CASE PolicyAction  BY <1>18, PolicyActionPlays
<1>19. CASE SkipWait  BY <1>19, SkipWaitPlays
<1> QED
  BY <1>8, <1>9, <1>10, <1>11, <1>12, <1>13, <1>14, <1>15, <1>150, <1>16, <1>17, <1>18,
     <1>19
  DEF Interpreter

(* The token that a wait is bound to changes nothing the plan speaks of.   *)
LEMMA BoundPlays ==
  ASSUME NEW plan, Plays(plan), NoneIsNoRecord, NEW pending, NEW s, s = Bound(story, pending)
  PROVE  Ordered(plan, s) /\ LinesRead(s) /\ Recalls(plan, s.vars, s)
<1> DEFINE t == Fresh(pending \cup (TokensOf(story) \ {None}))
<1>1. Ordered(plan, story) /\ LinesRead(story) /\ Whole(story) /\ Recalls(plan, story.vars, story)
  BY LocatedWhole DEF Plays, SaveInv
<1>2. CASE story.wait = None \/ story.wait = step.prior \/ story.wait.token # None
  BY <1>1, <1>2 DEF Bound
<1>3. CASE ~(story.wait = None \/ story.wait = step.prior \/ story.wait.token # None)
  <2>1. story.wait = [kind |-> story.wait.kind, command |-> story.wait.command, token |-> None]
    BY <1>3 DEF Plays, SaveInv, OwnedInv
  <2>2. s = [story EXCEPT !.wait.token = t]  BY <1>3 DEF Bound
  <2> HIDE DEF t
  <2>3. /\ s.frames = story.frames /\ s.calls = story.calls /\ s.cursor = story.cursor
        /\ s.choice = story.choice /\ s.reached = story.reached /\ s.read = story.read
        /\ s.vars = story.vars
        /\ s.wait = [kind |-> story.wait.kind, command |-> story.wait.command, token |-> t]
    BY <1>1, <2>1, <2>2 DEF Whole
  <2>4. s.wait # None /\ s.wait.kind = story.wait.kind /\ s.wait.command = story.wait.command
    <3>1. s.wait # None  BY <2>3 DEF NoneIsNoRecord
    <3> QED  BY <2>3, <3>1
  <2>5. s.reached # {}  BY <1>1, <1>3, <2>3 DEF Ordered
  <2>6. Front(plan, story.frames, Len(story.calls), s.cursor, s.wait, s.choice)
    BY <1>1, <1>3, <2>3, <2>4 DEF Ordered, Front, OnStory, OnAside
  <2>7. Ordered(plan, s) /\ LinesRead(s)  BY <1>1, <2>3, <2>5, <2>6, FrontChanges DEF LinesRead
  <2>8. Recalls(plan, s.vars, s)  BY <1>1, <1>3, <2>3, <2>4, StayedRecalls
  <2> QED  BY <2>7, <2>8
<1> QED  BY <1>2, <1>3

(* A step settles: the action it asks for finds none before it, and the    *)
(* token of the wait it answers is pending and not that of an action that  *)
(* is given up.                                                            *)
LEMMA SettlePlays ==
  ASSUME NEW plan, PlaysOn(plan), Settle
  PROVE  Plays(plan)'
<1> DEFINE left == IF Abandoned THEN NoAction ELSE policy
           pending == tokens \ IF Abandoned THEN {step.token} ELSE {}
           open == pending \ IF step.resolves THEN {step.prior.token} ELSE {}
           s == Bound(story, open)
           refused == \/ step.action /\ left.source # None
                      \/ step.resolves /\ step.prior.token \notin pending
<1>1. Plays(plan) /\ NoneIsNoRecord /\ SaveInv' /\ step # None /\ StepFits(plan) /\ ~failed
  BY DEF PlaysOn, Plays, Settle, Stopped
<1>2. ~(step.action /\ left.source # None)
  BY <1>1, NoActionItself DEF StepFits
<1>3. ~(step.resolves /\ step.prior.token \notin pending)
  BY <1>1 DEF StepFits, Abandoned
<1>4. ~refused  BY <1>2, <1>3
<1>5. story' = s /\ step' = None /\ failed' = failed  BY <1>4 DEF Settle
<1> HIDE DEF open, s, refused
<1>6. Ordered(plan, s) /\ LinesRead(s) /\ Recalls(plan, s.vars, s)  BY <1>1, BoundPlays DEF s
<1> QED  BY <1>1, <1>5, <1>6 DEF Plays, StepFits, LinesRead

LEMMA InitPlays ==
  ASSUME NEW plan, Orderly(plan), Init
  PROVE  Plays(plan)
<1>1. /\ story.reached = {} /\ story.vars = <<>>
      /\ story.cursor = None /\ story.calls = <<>> /\ story.frames = <<>> /\ story.wait = None
      /\ story.choice = None /\ story.read = {} /\ step = None /\ ~failed
  BY DEF Init, NewStory
<1>2. CallsFit(plan, story.calls) /\ Behind(plan, story.frames, Len(story.calls))
  BY <1>1, EmptyDomain DEF CallsFit, Behind
<1>3. Front(plan, story.frames, Len(story.calls), story.cursor, story.wait, story.choice)
  BY <1>1 DEF Front, OnStory
<1>4. Recalls(plan, story.vars, story)
  <2>1. plan.memory \in [Places -> SUBSET Memory] /\ <<>> \in plan.memory[At(Start, 1)]
    BY DEF Orderly
  <2>2. <<>> \in Memory  BY <2>1, ScriptAssumption, FirstPlace
  <2> QED  BY <1>1, <2>2, EmptyDomain DEF Recalls, Returns, Beneath, Minds
<1> QED  BY <1>1, <1>2, <1>3, <1>4, InitSaves DEF Plays, Ordered, StepFits, LinesRead

LEMMA NextPlays ==
  ASSUME NEW plan, Orderly(plan), Plays(plan), NoneIsNoRecord, ScriptAllows, ~MenuAfterEnd,
         [Next]_vars
  PROVE  Plays(plan)'
<1>1. PlaysOn(plan)  BY NextSaves DEF PlaysOn, Plays
<1>2. CASE Player  BY <1>1, <1>2, PlayerPlays
<1>3. CASE Host  BY <1>1, <1>3, HostPlays
<1>4. CASE Interpreter  BY <1>1, <1>4, InterpreterPlays
<1>5. CASE Settle  BY <1>1, <1>5, SettlePlays
<1>6. CASE UNCHANGED vars
  BY <1>1, <1>6 DEF PlaysOn, Plays, StepFits, LinesRead, vars
<1> QED  BY <1>2, <1>3, <1>4, <1>5, <1>6 DEF Next

(* The session is at every point where the plan of its story says: under   *)
(* the pages the story, above it system stories alone, with the calls each *)
(* state needs open, and never further from a stop than fast-forward lasts. *)
(* Wherever it goes on or may be taken back to, its variables hold what    *)
(* the plan's memory says of that place.                                   *)
THEOREM SessionKeepsToPlan ==
  ASSUME NoneIsNoRecord, ScriptAllows, ~MenuAfterEnd, NEW CONSTANT plan, Orderly(plan)
  PROVE  Spec => []Plays(plan)
<1>1. Init => Plays(plan)  BY InitPlays
<1>2. Plays(plan) /\ [Next]_vars => Plays(plan)'  BY NextPlays
<1> QED  BY <1>1, <1>2, PTL DEF Spec

(* No step of the session fails, whatever the player is offered and does,  *)
(* the worker reports and is loaded, in a story that has a plan: in the    *)
(* places it reaches no return is without a call, no branch or choice      *)
(* reads a variable that is not set, and no mutation overflows.            *)
THEOREM NoOfferedCommandFails ==
  ASSUME NoneIsNoRecord, ScriptAllows, ~MenuAfterEnd, NEW CONSTANT plan, Orderly(plan)
  PROVE  Spec => []NoLegalInputFails
<1>1. Plays(plan) => NoLegalInputFails  BY DEF Plays, NoLegalInputFails
<1> QED  BY <1>1, SessionKeepsToPlan, PTL
===============================================================================
