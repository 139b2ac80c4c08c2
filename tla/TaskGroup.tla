------------------------------- MODULE TaskGroup -------------------------------
(***************************************************************************)
(* A restorable composition of tasks: TaskGroupState, the progress that is *)
(* saved, and TaskGroup, its process-local owner, which gives each member  *)
(* a cancellation scope and hands out handles.  The parent scope may be    *)
(* cancelled from another thread at any time; a call of the group checks   *)
(* its scopes first, so a cancellation in the middle of one is one after.  *)
(***************************************************************************)
EXTENDS TaskGroupState

CONSTANTS
  MaxMembers,  \* bound on the members of a group
  MaxGroups    \* bound on the groups made of one progress, restored ones included

ASSUME BoundsArePositive == MaxMembers \in Nat \ {0} /\ MaxGroups \in Nat \ {0}

VARIABLES
  progress,    \* the TaskGroupState of the group
  group,       \* number of the group; the scopes of a group are its own
  dropped,     \* was the group dropped, and nothing restored in its place?
  parentGone,  \* is the parent scope cancelled?
  groupGone,   \* did the group cancel its own scope?
  gone,        \* members whose own scope is cancelled
  handles,     \* handles given out, <<group, member>>
  saved,       \* snapshots: the progress with the results it stands for
  accepted     \* history: results accepted, in order, [member, result]

vars == <<progress, group, dropped, parentGone, groupGone, gone, handles, saved, accepted>>
-------------------------------------------------------------------------------
(* TaskGroup *)

IsGone(g, i) == g # group \/ parentGone \/ groupGone \/ i \in gone

Init ==
  /\ \E mode \in Mode, count \in 1 .. MaxMembers : progress = NewProgress(mode, count)
  /\ group = 1
  /\ dropped = FALSE /\ parentGone = FALSE /\ groupGone = FALSE /\ gone = {}
  /\ handles = {} /\ saved = {} /\ accepted = <<>>

GiveHandle(i) ==
  /\ ~ dropped /\ ~ parentGone /\ ~ groupGone
  /\ i \in Active(progress)
  /\ handles' = handles \cup {<<group, i>>}
  /\ UNCHANGED <<progress, group, dropped, parentGone, groupGone, gone, saved, accepted>>

(* Mutant: only the member with a result is cancelled, not who lost to it. *)
CancelEndedOnlyCompleted(s) ==
  gone' = gone \cup {i \in Members(s) : s.members[i] = "Completed"}

(* The scopes of all members that have ended are cancelled, so that the    *)
(* workers of those a race or a failure leaves behind see it.              *)
CancelEnded(s) == gone' = gone \cup {i \in Members(s) : s.members[i] \in Terminal}

CompleteHandle(h, result) ==
  /\ ~ dropped
  /\ ~ IsGone(h[1], h[2])
  /\ CanComplete(progress, h[2])
  /\ progress' = Complete(progress, h[2], result)
  /\ CancelEnded(progress')
  /\ accepted' = Append(accepted, [member |-> h[2], result |-> result])
  /\ UNCHANGED <<group, dropped, parentGone, groupGone, handles, saved>>

CancelGroup ==
  /\ ~ dropped
  /\ groupGone' = TRUE
  /\ progress' = CancelProgress(progress)
  /\ UNCHANGED <<group, dropped, parentGone, gone, handles, saved, accepted>>

(* A worker cancels the scope of its handle, another thread the parent.    *)
CancelMember(h) ==
  /\ h[1] = group
  /\ gone' = gone \cup {h[2]}
  /\ UNCHANGED <<progress, group, dropped, parentGone, groupGone, handles, saved, accepted>>

CancelParent ==
  /\ parentGone' = TRUE
  /\ UNCHANGED <<progress, group, dropped, groupGone, gone, handles, saved, accepted>>

DropGroup ==
  /\ dropped' = TRUE
  /\ groupGone' = TRUE
  /\ UNCHANGED <<progress, group, parentGone, gone, handles, saved, accepted>>

Snapshot == IF parentGone \/ groupGone THEN CancelProgress(progress) ELSE progress

Save ==
  /\ ~ dropped
  /\ saved' = {[progress |-> Snapshot, accepted |-> accepted]}
  /\ UNCHANGED <<progress, group, dropped, parentGone, groupGone, gone, handles, accepted>>

(* A group restored in place of the other, below the same parent or, after *)
(* the World was loaded, below a new one.                                  *)
Restore(s, fresh) ==
  /\ group < MaxGroups
  /\ Valid(s.progress)
  /\ progress' = s.progress
  /\ group' = group + 1
  /\ dropped' = FALSE
  /\ parentGone' = (parentGone /\ ~ fresh)
  /\ groupGone' = FALSE
  /\ gone' = {i \in Members(s.progress) : s.progress.members[i] \in Terminal}
  /\ accepted' = s.accepted
  /\ UNCHANGED <<handles, saved>>

Next ==
  \/ \E i \in 1 .. MaxMembers : GiveHandle(i)
  \/ \E h \in handles, result \in Terminal : CompleteHandle(h, result)
  \/ CancelGroup
  \/ \E h \in handles : CancelMember(h)
  \/ CancelParent
  \/ DropGroup
  \/ Save
  \/ \E s \in saved, fresh \in BOOLEAN : Restore(s, fresh)

Spec == Init /\ [][Next]_vars
-------------------------------------------------------------------------------
(* Properties *)

Results(a, s) == a \in Seq([member : Members(s), result : Terminal])

(* Types of the variables; handles are of groups that were made. *)
TypeOK ==
  /\ Progress(progress)
  /\ \A s \in saved : Progress(s.progress) /\ Results(s.accepted, s.progress)
  /\ group \in 1 .. MaxGroups /\ handles \subseteq (1 .. group) \X Nat
  /\ \A h \in handles : h[1] = group => h[2] \in Members(progress)
  /\ gone \subseteq Members(progress)
  /\ dropped \in BOOLEAN /\ parentGone \in BOOLEAN /\ groupGone \in BOOLEAN
  /\ Results(accepted, progress)

(* complete, cancel and finish reach only progress that the mode allows,   *)
(* and no other is saved.                                                  *)
ProgressIsConsistent == Consistent(progress) /\ \A s \in saved : Consistent(s.progress)

(* Every snapshot the group makes is one that restore takes, also of a     *)
(* group that was cancelled half way or by its parent.                     *)
OwnSnapshotRestores == Valid(Snapshot)

(* A snapshot damaged in one place is refused unless it is progress that   *)
(* the mode allows (test corrupt_progress_is_rejected...).                 *)
Damaged(s) ==
  {[s EXCEPT !.members[i] = state] : i \in Members(s), state \in MemberState}
    \cup {[s EXCEPT !.terminal = t] : t \in Terminal \cup {None}}
    \cup {[s EXCEPT !.winner = w] : w \in 0 .. Len(s.members) + 1}

DamageIsRefused == \A s \in Damaged(Snapshot) : Valid(s) => Consistent(s)

(* The end that the docs promise for the results accepted.                 *)
Precedence == <<"Failed", "Cancelled", "Completed">>

Verdict(mode, count, results) ==
  IF results = <<>> THEN None
  ELSE CASE mode = "Sequence" ->
              IF Last(results) # "Completed" THEN Last(results)
              ELSE IF Len(results) = count THEN "Completed" ELSE None
         [] mode = "Race" -> results[1]
         [] mode = "All" ->
              IF Len(results) < count THEN None
              ELSE Precedence[Min({p \in 1 .. 3 : Precedence[p] \in ToSet(results)})]

(* ... and what they promise of both: each member has one result, those of *)
(* a sequence come in order, a race has one; the group ends as they say,   *)
(* or is cancelled.                                                        *)
Promised(s, a) ==
  LET results == [n \in DOMAIN a |-> a[n].result]
      promised == Verdict(s.mode, Len(s.members), results)
  IN /\ \A n, o \in DOMAIN a : a[n].member = a[o].member => n = o
     /\ s.mode = "Sequence" => \A n \in DOMAIN a : a[n].member = n
     /\ s.mode = "Race" => Len(a) <= 1
     /\ s.terminal = promised \/ (promised = None /\ s.terminal = "Cancelled")
     /\ \A n \in DOMAIN a : s.members[a[n].member] = a[n].result

(* The results accepted, those before a save and a restore included, are   *)
(* as promised, and complete_handle ended the group as they say.           *)
AcceptedAsPromised == Promised(progress, accepted)

(* A worker whose member has ended, by its own result, as the loser of a   *)
(* race or behind a failure, sees its scope cancelled and can stop.        *)
EndedMembersAreCancelled ==
  \A i \in Members(progress) : progress.members[i] \in Terminal => IsGone(group, i)

(* The inductive invariant: members that ended keep their scopes cancelled *)
(* only while snapshots are consistent, since restore starts from them.    *)
IInv == TypeOK /\ ProgressIsConsistent /\ EndedMembersAreCancelled
===============================================================================
