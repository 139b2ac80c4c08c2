---------------------------- MODULE TaskGroupState ----------------------------
(***************************************************************************)
(* TaskGroupState: the progress of a composition of tasks, as a value.     *)
(* Each operator takes progress to the progress after one call.  Task      *)
(* groups own one, and the presentation coordinator keeps one per fence.   *)
(***************************************************************************)
EXTENDS SequencesExt, Integers

Mode == {"Sequence", "All", "Race"}
Terminal == {"Completed", "Failed", "Cancelled"}
MemberState == Terminal \cup {"Waiting", "Running"}
None == "None"   \* no terminal state
NoWinner == 0    \* no winner

Members(s) == DOMAIN s.members
Active(s) == {i \in Members(s) : s.members[i] = "Running"}

NewProgress(mode, count) ==
  [mode |-> mode, terminal |-> None, winner |-> NoWinner,
   members |-> [i \in 1 .. count |->
                  IF mode = "Sequence" /\ i > 1 THEN "Waiting" ELSE "Running"]]

(* Mutant: members that wait are forgotten. *)
FinishRunning(s, result) ==
  [s EXCEPT !.terminal = result,
            !.members = [i \in Members(s) |->
                           IF s.members[i] = "Running" THEN "Cancelled" ELSE s.members[i]]]

(* finish: what has not ended is cancelled. *)
Finish(s, result) ==
  [s EXCEPT !.terminal = result,
            !.members = [i \in Members(s) |->
                           IF s.members[i] \in Terminal THEN s.members[i] ELSE "Cancelled"]]

CancelProgress(s) == IF s.terminal = None THEN Finish(s, "Cancelled") ELSE s

CanComplete(s, i) == s.terminal = None /\ i \in Active(s)

(* Mutant: cancellation takes precedence. *)
AllVerdictCancelledFirst(results) ==
  CASE "Cancelled" \in results -> "Cancelled"
    [] "Cancelled" \notin results /\ "Failed" \in results -> "Failed"
    [] OTHER -> "Completed"

(* Failure takes precedence over cancellation. *)
AllVerdict(results) ==
  CASE "Failed" \in results -> "Failed"
    [] "Failed" \notin results /\ "Cancelled" \in results -> "Cancelled"
    [] OTHER -> "Completed"

Complete(s, i, result) ==
  LET ended == [s EXCEPT !.members[i] = result] IN
    CASE s.mode = "Sequence" /\ result = "Completed" ->
           IF i = Len(s.members) THEN [ended EXCEPT !.terminal = result]
                                 ELSE [ended EXCEPT !.members[i + 1] = "Running"]
      [] s.mode = "Sequence" /\ result # "Completed" -> Finish(ended, result)
      [] s.mode = "Race" -> Finish([ended EXCEPT !.winner = i], result)
      [] s.mode = "All" ->
           IF Active(ended) = {}
             THEN [ended EXCEPT !.terminal = AllVerdict(ToSet(ended.members))]
             ELSE ended

(* validate: the results in the members are completed again, in the order  *)
(* of the members and as long as the group has not ended, on new progress. *)
(* A result that cannot be completed refuses the snapshot.                 *)
Refused == [mode |-> "Refused", terminal |-> None, winner |-> NoWinner, members |-> <<>>]

(* Mutant: results behind a failure are completed too. *)
ReplayPastEnd(s, results) ==
  FoldLeftDomain(LAMBDA r, i :
                   IF r = Refused \/ s.members[i] \notin results THEN r
                   ELSE IF ~ CanComplete(r, i) THEN Refused
                   ELSE Complete(r, i, s.members[i]),
                 NewProgress(s.mode, Len(s.members)), s.members)

Replay(s, results) ==
  FoldLeftDomain(LAMBDA r, i :
                   IF r = Refused \/ s.members[i] \notin results THEN r
                   ELSE IF r.terminal # None THEN r
                   ELSE IF ~ CanComplete(r, i) THEN Refused
                   ELSE Complete(r, i, s.members[i]),
                 NewProgress(s.mode, Len(s.members)), s.members)

Reconstructed(s) ==
  CASE s.terminal = "Cancelled" /\ s.winner = NoWinner ->
         LET r == Replay(s, {"Completed", "Failed"})
         IN IF r = Refused THEN Refused ELSE CancelProgress(r)
    [] s.winner # NoWinner /\ s.mode = "Race" ->
         LET new == NewProgress("Race", Len(s.members))
         IN IF s.winner \in Members(s) /\ s.members[s.winner] \in Terminal
              THEN Complete(new, s.winner, s.members[s.winner])
              ELSE Refused
    [] s.winner = NoWinner /\ s.mode = "Race" /\ s.terminal # "Cancelled" ->
         NewProgress("Race", Len(s.members))
    [] OTHER -> Replay(s, Terminal)

(* Mutant: only the end is compared. *)
ValidByTerminal(s) == s.members # <<>> /\ Reconstructed(s).terminal = s.terminal

Valid(s) == s.members # <<>> /\ Reconstructed(s) = s
-------------------------------------------------------------------------------
(* What progress can be *)

Progress(s) ==
  /\ s \in [mode : Mode, terminal : Terminal \cup {None}, winner : Nat,
            members : Seq(MemberState)]
  /\ s.winner \in {NoWinner} \cup Members(s)
  /\ Len(s.members) > 0

(* The progress that a mode allows, without how it came about: a sequence  *)
(* has one member running after those completed, a race that has ended one *)
(* winner and losers cancelled, all keep running until the last.           *)
Prefix(s, k) == \A i \in 1 .. k : s.members[i] = "Completed"
From(s, k, state) == \A i \in Members(s) : i >= k => s.members[i] = state

ConsistentSequence(s) ==
  \E k \in 0 .. Len(s.members) :
    /\ Prefix(s, k)
    /\ CASE s.terminal = "Completed" -> k = Len(s.members)
         [] s.terminal = "Cancelled" -> k < Len(s.members) /\ From(s, k + 1, "Cancelled")
         [] s.terminal \in {"Failed", None} ->
              /\ k < Len(s.members)
              /\ s.members[k + 1] = IF s.terminal = None THEN "Running" ELSE "Failed"
              /\ From(s, k + 2, IF s.terminal = None THEN "Waiting" ELSE "Cancelled")

ConsistentRace(s) ==
  IF s.winner = NoWinner
    THEN \/ s.terminal = None /\ From(s, 1, "Running")
         \/ s.terminal = "Cancelled" /\ From(s, 1, "Cancelled")
    ELSE /\ s.members[s.winner] = s.terminal
         /\ s.terminal # None
         /\ \A i \in Members(s) \ {s.winner} : s.members[i] = "Cancelled"

ConsistentAll(s) ==
  LET results == ToSet(s.members) IN
    /\ "Waiting" \notin results
    /\ (s.terminal = None) <=> ("Running" \in results)
    /\ s.terminal # None => s.terminal \in results
    /\ s.terminal = "Completed" => results = {"Completed"}

Consistent(s) ==
  /\ s.mode = "Race" \/ s.winner = NoWinner
  /\ CASE s.mode = "Sequence" -> ConsistentSequence(s)
       [] s.mode = "Race" -> ConsistentRace(s)
       [] s.mode = "All" -> ConsistentAll(s)
===============================================================================
