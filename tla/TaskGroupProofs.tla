---------------------------- MODULE TaskGroupProofs ----------------------------
(***************************************************************************)
(* The progress of a task group stays consistent with its mode, in the     *)
(* group and in what it saves; restore takes such progress and no other;   *)
(* the results accepted decide the end; and the scopes of ended members    *)
(* stay cancelled: for any number of members and of restored groups.       *)
(***************************************************************************)
EXTENDS TaskGroup, CommonLemmas

LEMMA InitIInv == Init => IInv
<1> SUFFICES ASSUME Init PROVE IInv
  OBVIOUS
<1>1. PICK mode \in Mode, count \in 1 .. MaxMembers : progress = NewProgress(mode, count)
  BY DEF Init
<1>2. Progress(progress) /\ Consistent(progress)
  BY <1>1, NewIsConsistent
<1>3. TypeOK
  <2>1. group \in 1 .. MaxGroups  BY BoundsArePositive DEF Init
  <2>2. Results(accepted, progress)  BY DEF Init, Results
  <2> QED  BY <1>2, <2>1, <2>2 DEF Init, TypeOK
<1>4. ProgressIsConsistent
  BY <1>2 DEF Init, ProgressIsConsistent
<1>5. \A i \in Members(progress) : progress.members[i] \notin Terminal
  BY <1>1 DEF NewProgress, Members, Terminal
<1> QED  BY <1>3, <1>4, <1>5 DEF IInv, EndedMembersAreCancelled

(* The snapshot of consistent progress is consistent progress of as many   *)
(* members.                                                                *)
LEMMA SnapshotIsConsistent ==
  ASSUME IInv
  PROVE  /\ Progress(Snapshot) /\ Consistent(Snapshot)
         /\ Members(Snapshot) = Members(progress)
<1>1. Progress(progress) /\ Consistent(progress)
  BY DEF IInv, TypeOK, ProgressIsConsistent
<1> QED  BY <1>1, CancelIsConsistent DEF Snapshot

(* Types when progress and snapshots stay as they are. *)
LEMMA TypeKept ==
  ASSUME TypeOK, UNCHANGED <<progress, group, saved, accepted>>,
         handles' \subseteq (1 .. group) \X Nat,
         \A h \in handles' : h[1] = group => h[2] \in Members(progress),
         gone' \subseteq Members(progress),
         dropped' \in BOOLEAN, parentGone' \in BOOLEAN, groupGone' \in BOOLEAN
  PROVE  TypeOK'
<1>1. Progress(progress)'  BY DEF TypeOK
<1>2. Results(accepted, progress)'  BY DEF TypeOK
<1>3. (\A s \in saved : Progress(s.progress) /\ Results(s.accepted, s.progress))'
  BY DEF TypeOK
<1> QED  BY <1>1, <1>2, <1>3 DEF TypeOK

LEMMA GiveHandleStep ==
  ASSUME IInv, NEW i \in 1 .. MaxMembers, GiveHandle(i)
  PROVE  IInv'
<1>0. /\ handles' = handles \cup {<<group, i>>} /\ i \in Members(progress)
      /\ UNCHANGED <<progress, group, dropped, parentGone, groupGone, gone, saved, accepted>>
  BY DEF GiveHandle, Active
<1>h. group \in 1 .. group
  BY BoundsArePositive DEF IInv, TypeOK
<1>1. TypeOK'
  <2>1. handles' \subseteq (1 .. group) \X Nat
    BY <1>0, <1>h DEF IInv, TypeOK
  <2>2. \A h \in handles' : h[1] = group => h[2] \in Members(progress)
    BY <1>0 DEF IInv, TypeOK
  <2> QED  BY <1>0, <2>1, <2>2, TypeKept DEF IInv, TypeOK
<1>2. ProgressIsConsistent'
  BY <1>0 DEF IInv, ProgressIsConsistent
<1>3. EndedMembersAreCancelled'
  BY <1>0 DEF IInv, EndedMembersAreCancelled, IsGone
<1> QED  BY <1>1, <1>2, <1>3 DEF IInv

LEMMA CompleteHandleStep ==
  ASSUME IInv, NEW h \in handles, NEW r \in Terminal, CompleteHandle(h, r)
  PROVE  IInv'
<1>1. /\ Progress(progress) /\ Consistent(progress)
      /\ CanComplete(progress, h[2]) /\ progress' = Complete(progress, h[2], r)
      /\ gone' = gone \cup {i \in Members(progress') : progress'.members[i] \in Terminal}
  BY DEF IInv, TypeOK, ProgressIsConsistent, CompleteHandle, CancelEnded
<1>2. Progress(progress') /\ Consistent(progress') /\ Members(progress') = Members(progress)
  BY <1>1, CompleteIsConsistent
<1>3. h[2] \in Members(progress)
  BY <1>1 DEF CanComplete, Active
<1>4. Results(accepted', progress')
  <2>1. accepted \in Seq([member : Members(progress), result : Terminal])
    BY DEF IInv, TypeOK, Results
  <2>2. accepted' = Append(accepted, [member |-> h[2], result |-> r])
    BY DEF CompleteHandle
  <2> QED  BY <1>2, <1>3, <2>1, <2>2 DEF Results
<1>5. TypeOK'
  BY <1>1, <1>2, <1>4 DEF IInv, TypeOK, CompleteHandle
<1>6. ProgressIsConsistent'
  BY <1>2 DEF IInv, ProgressIsConsistent, CompleteHandle
<1>7. EndedMembersAreCancelled'
  BY <1>1 DEF EndedMembersAreCancelled, IsGone
<1> QED  BY <1>5, <1>6, <1>7 DEF IInv

LEMMA CancelGroupStep ==
  ASSUME IInv, CancelGroup
  PROVE  IInv'
<1>1. Progress(progress) /\ Consistent(progress) /\ progress' = CancelProgress(progress)
  BY DEF IInv, TypeOK, ProgressIsConsistent, CancelGroup
<1>2. Progress(progress') /\ Consistent(progress') /\ Members(progress') = Members(progress)
  BY <1>1, CancelIsConsistent
<1>3. TypeOK'
  BY <1>2 DEF IInv, TypeOK, CancelGroup, Results
<1>4. ProgressIsConsistent'
  BY <1>2 DEF IInv, ProgressIsConsistent, CancelGroup
<1>5. EndedMembersAreCancelled'
  BY DEF CancelGroup, EndedMembersAreCancelled, IsGone
<1> QED  BY <1>3, <1>4, <1>5 DEF IInv

(* Scopes that are cancelled change nothing else. *)
LEMMA ScopeStep ==
  ASSUME IInv, CancelParent \/ DropGroup \/ \E h \in handles : CancelMember(h)
  PROVE  IInv'
<1>1. UNCHANGED <<progress, group, handles, saved, accepted>>
  BY DEF CancelParent, DropGroup, CancelMember
<1>2. gone' \subseteq Members(progress)
  BY DEF IInv, TypeOK, CancelParent, DropGroup, CancelMember
<1>3. dropped' \in BOOLEAN /\ parentGone' \in BOOLEAN /\ groupGone' \in BOOLEAN
  BY DEF IInv, TypeOK, CancelParent, DropGroup, CancelMember
<1>4. TypeOK'
  <2>1. TypeOK  BY DEF IInv
  <2>2. handles' \subseteq (1 .. group) \X Nat
    BY <1>1, <2>1 DEF TypeOK
  <2>3. \A h \in handles' : h[1] = group => h[2] \in Members(progress)
    BY <1>1, <2>1 DEF TypeOK
  <2> QED  BY <1>1, <1>2, <1>3, <2>1, <2>2, <2>3, TypeKept
<1>5. ProgressIsConsistent'
  BY <1>1 DEF IInv, ProgressIsConsistent
<1>6. ASSUME NEW i \in Members(progress), IsGone(group, i)  PROVE IsGone(group, i)'
  BY <1>6 DEF IsGone, CancelParent, DropGroup, CancelMember
<1>7. EndedMembersAreCancelled'
  BY <1>1, <1>6 DEF IInv, EndedMembersAreCancelled
<1> QED  BY <1>4, <1>5, <1>7 DEF IInv

LEMMA SaveStep ==
  ASSUME IInv, Save
  PROVE  IInv'
<1>1. Progress(Snapshot) /\ Consistent(Snapshot) /\ Members(Snapshot) = Members(progress)
  BY SnapshotIsConsistent
<1>2. saved' = {[progress |-> Snapshot, accepted |-> accepted]}
      /\ UNCHANGED <<progress, group, dropped, parentGone, groupGone, gone, handles, accepted>>
  BY DEF Save
<1> HIDE DEF Snapshot
<1>3. Results(accepted, Snapshot)
  BY <1>1 DEF IInv, TypeOK, Results
<1>4. TypeOK'
  BY <1>1, <1>2, <1>3 DEF IInv, TypeOK
<1>5. ProgressIsConsistent'
  BY <1>1, <1>2 DEF IInv, ProgressIsConsistent
<1>6. EndedMembersAreCancelled'
  BY <1>2 DEF IInv, EndedMembersAreCancelled, IsGone
<1> QED  BY <1>4, <1>5, <1>6 DEF IInv

LEMMA RestoreStep ==
  ASSUME IInv, NEW s \in saved, NEW fresh \in BOOLEAN, Restore(s, fresh)
  PROVE  IInv'
<1>1. Progress(s.progress) /\ Consistent(s.progress) /\ Results(s.accepted, s.progress)
  BY DEF IInv, TypeOK, ProgressIsConsistent
<1>2. /\ progress' = s.progress /\ accepted' = s.accepted
      /\ gone' = {i \in Members(s.progress) : s.progress.members[i] \in Terminal}
  BY DEF Restore
<1>3. TypeOK'
  <2>1. group' \in 1 .. MaxGroups /\ group' = group + 1 /\ group \in Nat
    BY BoundsArePositive DEF IInv, TypeOK, Restore
  <2>2. \A h \in handles : h[1] # group' /\ h \in (1 .. group') \X Nat
    BY <2>1 DEF IInv, TypeOK
  <2>3. /\ handles' = handles /\ saved' = saved /\ dropped' \in BOOLEAN
        /\ parentGone' \in BOOLEAN /\ groupGone' \in BOOLEAN
    BY DEF Restore
  <2>4. Progress(progress)' /\ Results(accepted, progress)'
    BY <1>1, <1>2
  <2>5. (\A t \in saved : Progress(t.progress) /\ Results(t.accepted, t.progress))'
    BY <2>3 DEF IInv, TypeOK
  <2>6. gone' \subseteq Members(progress')
    BY <1>2
  <2> QED  BY <2>1, <2>2, <2>3, <2>4, <2>5, <2>6 DEF TypeOK
<1>4. ProgressIsConsistent'
  BY <1>1, <1>2 DEF IInv, ProgressIsConsistent, Restore
<1>5. EndedMembersAreCancelled'
  BY <1>2 DEF EndedMembersAreCancelled, IsGone
<1> QED  BY <1>3, <1>4, <1>5 DEF IInv

-------------------------------------------------------------------------------
LEMMA NextStep == IInv /\ [Next]_vars => IInv'
<1> SUFFICES ASSUME IInv, [Next]_vars  PROVE IInv'
  OBVIOUS
<1>1. ASSUME NEW i \in 1 .. MaxMembers, GiveHandle(i)  PROVE IInv'
  BY <1>1, GiveHandleStep
<1>2. ASSUME NEW h \in handles, NEW r \in Terminal, CompleteHandle(h, r)  PROVE IInv'
  BY <1>2, CompleteHandleStep
<1>3. CASE CancelGroup
  BY <1>3, CancelGroupStep
<1>4. CASE CancelParent \/ DropGroup \/ \E h \in handles : CancelMember(h)
  BY <1>4, ScopeStep
<1>5. CASE Save
  BY <1>5, SaveStep
<1>6. ASSUME NEW s \in saved, NEW fresh \in BOOLEAN, Restore(s, fresh)  PROVE IInv'
  BY <1>6, RestoreStep
<1>7. CASE UNCHANGED vars
  <2>1. TypeOK'  BY <1>7 DEF IInv, TypeOK, vars
  <2>2. ProgressIsConsistent'  BY <1>7 DEF IInv, ProgressIsConsistent, vars
  <2>3. EndedMembersAreCancelled'
    BY <1>7 DEF IInv, EndedMembersAreCancelled, IsGone, vars
  <2> QED  BY <2>1, <2>2, <2>3 DEF IInv
<1> QED  BY <1>1, <1>2, <1>3, <1>4, <1>5, <1>6, <1>7 DEF Next

(* The inductive invariant of task groups: types, progress the mode        *)
(* allows, live and saved, and cancelled scopes of the members that ended. *)
THEOREM GroupInvariant == Spec => []IInv
<1>1. Init => IInv  BY InitIInv
<1>2. IInv /\ [Next]_vars => IInv'  BY NextStep
<1> QED  BY <1>1, <1>2, PTL DEF Spec

(* Every variable keeps its type: handles name members the group has, and  *)
(* a winner is a member (the indices complete_handle and finish use).      *)
THEOREM TypeCorrect == Spec => []TypeOK
<1>1. IInv => TypeOK  BY DEF IInv
<1> QED  BY <1>1, GroupInvariant, PTL

(* TaskGroupState::complete, cancel and finish reach only progress that    *)
(* the mode allows, and TaskGroup::snapshot saves no other.                *)
THEOREM ProgressStaysConsistent == Spec => []ProgressIsConsistent
<1>1. IInv => ProgressIsConsistent  BY DEF IInv
<1> QED  BY <1>1, GroupInvariant, PTL

(* The worker of a member that ended, also as the loser of a race, behind  *)
(* a failure or before a restore, finds its scope cancelled.               *)
THEOREM EndedMembersStayCancelled == Spec => []EndedMembersAreCancelled
<1>1. IInv => EndedMembersAreCancelled  BY DEF IInv
<1> QED  BY <1>1, GroupInvariant, PTL

(* What TaskGroup::snapshot saves, before or after any cancellation and    *)
(* completion, is taken by TaskGroup::restore.                             *)
THEOREM OwnSnapshotsRestore == Spec => []OwnSnapshotRestores
<1>1. IInv => OwnSnapshotRestores
  <2> SUFFICES ASSUME IInv PROVE Valid(Snapshot)  BY DEF OwnSnapshotRestores
  <2>1. Progress(Snapshot) /\ Consistent(Snapshot)  BY SnapshotIsConsistent
  <2>2. ProgressShape(Snapshot)  BY <2>1 DEF Progress, ProgressShape
  <2> QED  BY <2>1, <2>2, RestoreTakesExactlyProgress
<1> QED  BY <1>1, GroupInvariant, PTL

(* A snapshot damaged so that its mode cannot explain it is not restored:  *)
(* the replay in TaskGroupState::validate ends in something else.          *)
THEOREM DamageNeverRestores == Spec => []DamageIsRefused
<1>1. IInv => DamageIsRefused
  <2> SUFFICES ASSUME IInv, NEW s \in Damaged(Snapshot), Valid(s) PROVE Consistent(s)
    BY DEF DamageIsRefused
  <2> DEFINE p == Snapshot
  <2>1. ProgressShape(p) /\ Members(p) = 1 .. Len(p.members)
    <3>1. Progress(Snapshot)  BY SnapshotIsConsistent
    <3> QED  BY <3>1 DEF Progress, ProgressShape, Members
  <2>2. s \in Damaged(p)  OBVIOUS
  <2> HIDE DEF p
  <2>3. ASSUME NEW i \in Members(p), NEW state \in MemberState,
               s = [p EXCEPT !.members[i] = state]
        PROVE  ProgressShape(s)
    <3>1. s.members = [p.members EXCEPT ![i] = state]  BY <2>1, <2>3 DEF ProgressShape
    <3>2. s.members \in Seq(MemberState) /\ Len(s.members) = Len(p.members)
      BY <2>1, <3>1 DEF ProgressShape
    <3> QED  BY <2>1, <2>3, <3>1, <3>2 DEF ProgressShape
  <2>4. ASSUME NEW t \in Terminal \cup {None}, s = [p EXCEPT !.terminal = t]
        PROVE  ProgressShape(s)
    BY <2>1, <2>4 DEF ProgressShape
  <2>5. ASSUME NEW w \in 0 .. Len(p.members) + 1, s = [p EXCEPT !.winner = w]
        PROVE  ProgressShape(s)
    BY <2>1, <2>5 DEF ProgressShape
  <2>6. ProgressShape(s)  BY <2>2, <2>3, <2>4, <2>5 DEF Damaged
  <2> QED  BY <2>6, ValidIsConsistent
<1> QED  BY <1>1, GroupInvariant, PTL

-------------------------------------------------------------------------------
(* Results *)

(* Progress that has not ended knows of each result accepted for it.       *)
Accounted(s, a) ==
  /\ Promised(s, a)
  /\ s.terminal = None =>
       \A i \in Members(s) : s.members[i] \in Terminal => \E n \in DOMAIN a : a[n].member = i

Accounts == Accounted(progress, accepted) /\ \A s \in saved : Accounted(s.progress, s.accepted)

(* The verdict of no results, and of all: the worst of them.               *)
LEMMA VerdictOfAll ==
  ASSUME NEW count \in Nat, NEW results \in Seq(Terminal), results # <<>>, Len(results) >= count
  PROVE  Verdict("All", count, results) = AllVerdict(ToSet(results))
<1> DEFINE there == {p \in 1 .. 3 : Precedence[p] \in ToSet(results)}
<1>1. ToSet(results) \subseteq Terminal /\ ToSet(results) # {}
  <2>1. /\ Len(results) \in Nat /\ Len(results) # 0 /\ DOMAIN results = 1 .. Len(results)
        /\ \A i \in 1 .. Len(results) : results[i] \in Terminal
    BY EmptySeq, LenProperties, ElementOfSeq
  <2>2. 1 \in DOMAIN results  BY <2>1
  <2> QED  BY <2>1, <2>2 DEF ToSet
<1>2. Precedence[1] = "Failed" /\ Precedence[2] = "Cancelled" /\ Precedence[3] = "Completed"
  BY DEF Precedence
<1>3. Verdict("All", count, results) = Precedence[Min(there)]
  BY DEF Verdict
<1> HIDE DEF there
<1>4. there \in SUBSET (1 .. 3) /\ there # {}
  BY <1>1, <1>2 DEF there, Terminal
<1>5. Min(there) \in there /\ (\A m \in there : Min(there) <= m) /\ Min(there) \in 1 .. 3
  <2>1. there \subseteq Nat  BY <1>4
  <2>2. \E k \in there : \A m \in there : k <= m  BY <1>4, <2>1, Least
  <2> QED  BY <1>4, <2>2 DEF Min
<1>6. \A p \in 1 .. 3 : p \in there <=> Precedence[p] \in ToSet(results)  BY DEF there
<1>7. CASE "Failed" \in ToSet(results)
  <2>1. 1 \in there  BY <1>2, <1>6, <1>7
  <2>2. Min(there) = 1  BY <1>5, <2>1
  <2> QED  BY <1>2, <1>3, <1>7, <2>2 DEF AllVerdict
<1>8. CASE "Failed" \notin ToSet(results) /\ "Cancelled" \in ToSet(results)
  <2>1. 1 \notin there /\ 2 \in there  BY <1>2, <1>6, <1>8
  <2>2. Min(there) = 2  BY <1>5, <2>1
  <2> QED  BY <1>2, <1>3, <1>8, <2>2 DEF AllVerdict
<1>9. CASE "Failed" \notin ToSet(results) /\ "Cancelled" \notin ToSet(results)
  <2>1. 1 \notin there /\ 2 \notin there  BY <1>2, <1>6, <1>9
  <2>2. Min(there) = 3  BY <1>5, <2>1
  <2> QED  BY <1>2, <1>3, <1>9, <2>2 DEF AllVerdict
<1> QED  BY <1>7, <1>8, <1>9

ResultsOf(a) == [n \in DOMAIN a |-> a[n].result]

LEMMA ResultsFacts ==
  ASSUME NEW s, Progress(s), NEW a, Results(a, s)
  PROVE  /\ Len(a) \in Nat /\ DOMAIN a = 1 .. Len(a)
         /\ \A n \in 1 .. Len(a) : a[n].member \in Members(s) /\ a[n].result \in Terminal
         /\ ResultsOf(a) \in Seq(Terminal) /\ Len(ResultsOf(a)) = Len(a)
         /\ \A n \in 1 .. Len(a) : ResultsOf(a)[n] = a[n].result
<1>1. a \in Seq([member : Members(s), result : Terminal])  BY DEF Results
<1>2. Len(a) \in Nat /\ DOMAIN a = 1 .. Len(a)
      /\ \A n \in 1 .. Len(a) : a[n] \in [member : Members(s), result : Terminal]
  BY <1>1, LenProperties, ElementOfSeq
<1>3. \A n \in 1 .. Len(a) : a[n].member \in Members(s) /\ a[n].result \in Terminal
  BY <1>2
<1>4. ResultsOf(a) \in [1 .. Len(a) -> Terminal]  BY <1>2, <1>3 DEF ResultsOf
<1>5. ResultsOf(a) \in Seq(Terminal)  BY <1>2, <1>4, IsASeq
<1>6. Len(ResultsOf(a)) = Len(a)  BY <1>2, <1>4, <1>5, LenProperties
<1> QED  BY <1>2, <1>3, <1>5, <1>6 DEF ResultsOf

(* What Promised says of progress that has not ended, and what it takes.   *)
Verified(s, a) == Verdict(s.mode, Len(s.members), ResultsOf(a))

LEMMA PromisedParts ==
  ASSUME NEW s, NEW a
  PROVE  Promised(s, a) <=>
           /\ \A n, o \in DOMAIN a : a[n].member = a[o].member => n = o
           /\ s.mode = "Sequence" => \A n \in DOMAIN a : a[n].member = n
           /\ s.mode = "Race" => Len(a) <= 1
           /\ s.terminal = Verified(s, a) \/ (Verified(s, a) = None /\ s.terminal = "Cancelled")
           /\ \A n \in DOMAIN a : s.members[a[n].member] = a[n].result
BY DEF Promised, Verified, ResultsOf

(* New progress has no results.                                            *)
LEMMA NewIsAccounted ==
  ASSUME NEW mode \in Mode, NEW count \in Nat \ {0}
  PROVE  Accounted(NewProgress(mode, count), <<>>)
<1> DEFINE s == NewProgress(mode, count)
<1>0. s.terminal = None  BY DEF NewProgress
<1>1. \A i \in Members(s) : s.members[i] \notin Terminal  BY DEF NewProgress, Members, Terminal
<1>2. ResultsOf(<<>>) = <<>>  BY DEF ResultsOf
<1>3. Verified(s, <<>>) = None  BY <1>2 DEF Verified, Verdict
<1> HIDE DEF s
<1>4. DOMAIN <<>> = {} /\ Len(<<>>) <= 1  OBVIOUS
<1>5. Promised(s, <<>>)  BY <1>0, <1>3, <1>4, PromisedParts
<1> QED  BY <1>1, <1>5 DEF Accounted, s

(* Cancelling takes no result back.                                        *)
LEMMA CancelIsAccounted ==
  ASSUME NEW s, Progress(s), NEW a, Results(a, s), Accounted(s, a)
  PROVE  Accounted(CancelProgress(s), a)
<1>1. CASE s.terminal # None  BY <1>1 DEF CancelProgress
<1>2. CASE s.terminal = None
  <2> DEFINE f == Finish(s, "Cancelled")
  <2>1. CancelProgress(s) = f  BY <1>2 DEF CancelProgress
  <2>2. /\ f.mode = s.mode /\ f.terminal = "Cancelled" /\ Len(f.members) = Len(s.members)
        /\ \A i \in Members(s) :
             f.members[i] = IF s.members[i] \in Terminal THEN s.members[i] ELSE "Cancelled"
    BY FinishFacts DEF Terminal
  <2> HIDE DEF f
  <2>3. DOMAIN a = 1 .. Len(a)
        /\ \A n \in 1 .. Len(a) : a[n].member \in Members(s) /\ a[n].result \in Terminal
    BY ResultsFacts
  <2>4. Promised(s, a)  BY DEF Accounted
  <2>5. Verified(s, a) = None /\ \A n \in DOMAIN a : s.members[a[n].member] = a[n].result
    BY <1>2, <2>4, PromisedParts DEF None
  <2>6. Verified(f, a) = None  BY <2>2, <2>5 DEF Verified
  <2>7. \A n \in DOMAIN a : f.members[a[n].member] = a[n].result  BY <2>2, <2>3, <2>5
  <2>8. Promised(f, a)  BY <2>2, <2>4, <2>6, <2>7, PromisedParts
  <2> QED  BY <2>1, <2>2, <2>8 DEF Accounted, None
<1> QED  BY <1>1, <1>2

(* A completion adds its result. *)
LEMMA CompleteIsAccounted ==
  ASSUME NEW s, Progress(s), Consistent(s), NEW a, Results(a, s), Accounted(s, a),
         NEW i, CanComplete(s, i), NEW r \in Terminal
  PROVE  Accounted(Complete(s, i, r), Append(a, [member |-> i, result |-> r]))
<1> DEFINE c == Complete(s, i, r)
           b == Append(a, [member |-> i, result |-> r])
           L == Len(a)
           count == Len(s.members)
<1>1. /\ L \in Nat /\ DOMAIN a = 1 .. L
      /\ \A n \in 1 .. L : a[n].member \in Members(s) /\ a[n].result \in Terminal
  BY ResultsFacts
<1>2. /\ Len(b) = L + 1 /\ DOMAIN b = 1 .. L + 1 /\ b[L + 1] = [member |-> i, result |-> r]
      /\ \A n \in 1 .. L : b[n] = a[n]
  BY <1>1, AppendProperties DEF Results
<1>3. Outcome(s, i, r, c)  BY CompletedFacts
<1>4. s.terminal = None /\ s.members[i] = "Running" /\ i \in Members(s)
  BY DEF CanComplete, Active
<1>5. /\ Verified(s, a) = None
      /\ \A n, o \in 1 .. L : a[n].member = a[o].member => n = o
      /\ s.mode = "Sequence" => \A n \in 1 .. L : a[n].member = n
      /\ \A n \in 1 .. L : s.members[a[n].member] = a[n].result
  BY <1>1, <1>4, PromisedParts DEF Accounted, None
<1>6. \A j \in Members(s) : s.members[j] \in Terminal => \E n \in 1 .. L : a[n].member = j
  BY <1>1, <1>4 DEF Accounted
<1>7. Members(s) = 1 .. count /\ count \in Nat  BY DEF Progress, Members
<1> HIDE DEF b, c
<1>8. \A n \in 1 .. L : a[n].member # i
  BY <1>1, <1>4, <1>5 DEF Terminal
<1>9. /\ Progress(c) /\ c.mode = s.mode /\ Members(c) = 1 .. count /\ Len(c.members) = count
      /\ c.members[i] = r
  BY <1>3, <1>7 DEF Outcome
<1>10. \A n, o \in DOMAIN b : b[n].member = b[o].member => n = o
  <2>1. b[L + 1].member = i /\ \A n \in 1 .. L : b[n].member = a[n].member  BY <1>2
  <2> QED  BY <1>1, <1>2, <1>5, <1>8, <2>1
<1>11. Results(b, c)
  <2>1. b \in Seq([member : Members(s), result : Terminal])
    BY <1>4, AppendProperties DEF Results, b
  <2> QED  BY <1>7, <1>9, <2>1 DEF Results
<1>12. /\ ResultsOf(b) \in Seq(Terminal) /\ Len(ResultsOf(b)) = L + 1
       /\ \A n \in 1 .. L + 1 : ResultsOf(b)[n] = b[n].result
  BY <1>2, <1>9, <1>11, ResultsFacts
<1>13. ResultsOf(b)[L + 1] = r /\ ResultsOf(b) # <<>>
  BY <1>1, <1>2, <1>12, EmptySeq
<1>14. CASE s.mode = "Sequence"
  <2>1. PICK k \in 0 .. count - 1 :
          Prefix(s, k) /\ s.members[k + 1] = "Running" /\ From(s, k + 2, "Waiting")
    BY <1>4, <1>14, Unended
  <2>2. \A j \in 1 .. count : s.members[j] \in Terminal <=> j <= k
    <3> SUFFICES ASSUME NEW j \in 1 .. count PROVE s.members[j] \in Terminal <=> j <= k  OBVIOUS
    <3>1. CASE j <= k  BY <2>1, <3>1 DEF Prefix, Terminal
    <3>2. CASE j = k + 1  BY <2>1, <3>2 DEF Terminal
    <3>3. CASE j >= k + 2  BY <1>7, <2>1, <3>3 DEF From, Terminal
    <3> QED  BY <3>1, <3>2, <3>3
  <2>3. i = k + 1
    <3>1. CASE i <= k  BY <1>4, <1>7, <2>2, <3>1 DEF Terminal
    <3>2. CASE i >= k + 2  BY <1>4, <1>7, <2>1, <3>2 DEF From
    <3> QED  BY <1>4, <1>7, <3>1, <3>2
  <2>4. L = k
    <3>1. \A n \in 1 .. L : n \in 1 .. count /\ n <= k  BY <1>1, <1>5, <1>7, <1>14, <2>2
    <3>2. \A j \in 1 .. k : j \in 1 .. L
      <4> SUFFICES ASSUME NEW j \in 1 .. k PROVE j \in 1 .. L  OBVIOUS
      <4>1. j \in 1 .. count /\ s.members[j] \in Terminal  BY <1>7, <2>2
      <4> QED  BY <1>5, <1>6, <1>7, <1>14, <4>1
    <3>3. L <= k
      <4>1. CASE L = 0  BY <4>1
      <4>2. CASE L # 0  BY <1>1, <3>1, <4>2
      <4> QED  BY <4>1, <4>2
    <3>4. k <= L
      <4>1. CASE k = 0  BY <1>1, <4>1
      <4>2. CASE k # 0  BY <3>2, <4>2
      <4> QED  BY <4>1, <4>2
    <3>5. L \in Int /\ k \in Int  BY <1>1, <1>7
    <3> HIDE DEF L
    <3> QED  BY <3>3, <3>4, <3>5
  <2>5. \A n \in DOMAIN b : b[n].member = n
    <3> SUFFICES ASSUME NEW n \in 1 .. L + 1 PROVE b[n].member = n  BY <1>2
    <3>1. CASE n = L + 1  BY <1>2, <2>3, <2>4, <3>1
    <3>2. CASE n \in 1 .. L  BY <1>2, <1>5, <1>14, <3>2
    <3> QED  BY <1>1, <3>1, <3>2
  <2>6. Verified(c, b) = IF r # "Completed" THEN r
                         ELSE IF L + 1 = count THEN "Completed" ELSE None
    <3>1. Last(ResultsOf(b)) = r  BY <1>12, <1>13 DEF Last
    <3> QED  BY <1>9, <1>12, <1>13, <1>14, <3>1 DEF Verified, Verdict
  <2>7. c.terminal = Verified(c, b)
    BY <1>3, <1>14, <2>3, <2>4, <2>6 DEF Outcome
  <2>8. \A j \in 1 .. k : c.members[j] = s.members[j]
    <3> SUFFICES ASSUME NEW j \in 1 .. k PROVE c.members[j] = s.members[j]  OBVIOUS
    <3>1. j \in Members(s) \ {i} /\ j # i + 1 /\ s.members[j] \in Terminal
      BY <1>7, <2>2, <2>3
    <3> QED  BY <1>3, <1>14, <3>1 DEF Outcome
  <2>9. \A n \in DOMAIN b : c.members[b[n].member] = b[n].result
    <3> SUFFICES ASSUME NEW n \in 1 .. L + 1 PROVE c.members[b[n].member] = b[n].result
      BY <1>2
    <3>1. CASE n = L + 1  BY <1>2, <1>9, <3>1
    <3>2. CASE n \in 1 .. L  BY <1>2, <1>5, <1>14, <2>4, <2>8, <3>2
    <3> QED  BY <1>1, <3>1, <3>2
  <2>10. ASSUME c.terminal = None, NEW j \in Members(c), c.members[j] \in Terminal
         PROVE  \E n \in DOMAIN b : b[n].member = j
    <3>1. r = "Completed" /\ i # count  BY <1>3, <1>14, <2>10 DEF Outcome, None, Terminal
    <3>2. j \in 1 .. count  BY <1>9
    <3>3. CASE j <= k + 1
      <4>1. j \in DOMAIN b  BY <1>2, <2>4, <3>2, <3>3
      <4> QED  BY <2>5, <4>1
    <3>4. CASE j = k + 2
      <4>1. c.members[j] = "Running"  BY <1>3, <1>7, <1>14, <2>3, <3>1, <3>2, <3>4 DEF Outcome
      <4> QED  BY <2>10, <4>1 DEF Terminal
    <3>5. CASE j > k + 2
      <4>1. c.members[j] = s.members[j] /\ s.members[j] = "Waiting"
        BY <1>3, <1>7, <1>14, <2>1, <2>3, <3>1, <3>2, <3>5 DEF Outcome, From
      <4> QED  BY <2>10, <4>1 DEF Terminal
    <3> QED  BY <3>2, <3>3, <3>4, <3>5
  <2>11. Promised(c, b)  BY <1>9, <1>10, <1>14, <2>5, <2>7, <2>9, PromisedParts
  <2> QED  BY <2>10, <2>11 DEF Accounted, b, c
<1>15. CASE s.mode = "Race"
  <2>1. From(s, 1, "Running")  BY <1>4, <1>15, Unended
  <2>2. L = 0
    <3> SUFFICES ASSUME L # 0 PROVE FALSE  OBVIOUS
    <3>1. 1 \in 1 .. L  BY <1>1
    <3>2. s.members[a[1].member] \in Terminal /\ a[1].member \in 1 .. count
      BY <1>1, <1>5, <1>7, <3>1
    <3> QED  BY <1>7, <2>1, <3>2 DEF From, Terminal
  <2>3. Verified(c, b) = r /\ c.terminal = r
    <3>1. ResultsOf(b)[1] = r  BY <1>13, <2>2
    <3> QED  BY <1>3, <1>9, <1>13, <1>15, <3>1 DEF Verified, Verdict, Outcome
  <2>4. \A n \in DOMAIN b : c.members[b[n].member] = b[n].result  BY <1>2, <1>9, <2>2
  <2>5. Promised(c, b)
    <3>1. c.mode = "Race" /\ Len(b) <= 1 /\ c.terminal = Verified(c, b)
      BY <1>2, <1>9, <1>15, <2>2, <2>3
    <3> QED  BY <1>10, <2>4, <3>1, PromisedParts
  <2> QED  BY <2>3, <2>5 DEF Accounted, b, c, Terminal, None
<1>16. CASE s.mode = "All"
  <2>1. /\ \A j \in 1 .. count : j # i => c.members[j] = s.members[j]
        /\ c.terminal = IF \E j \in 1 .. count : c.members[j] = "Running" THEN None
                        ELSE AllVerdict(ToSet(c.members))
    BY <1>3, <1>7, <1>16 DEF Outcome
  <2>2. \A n \in DOMAIN b : c.members[b[n].member] = b[n].result
    <3> SUFFICES ASSUME NEW n \in 1 .. L + 1 PROVE c.members[b[n].member] = b[n].result
      BY <1>2
    <3>1. CASE n = L + 1  BY <1>2, <1>9, <3>1
    <3>2. CASE n \in 1 .. L
      <4>1. b[n] = a[n] /\ a[n].member \in 1 .. count /\ a[n].member # i
        BY <1>1, <1>2, <1>7, <1>8, <3>2
      <4> QED  BY <1>5, <2>1, <3>2, <4>1
    <3> QED  BY <1>1, <3>1, <3>2
  <2>3. \A j \in 1 .. count : c.members[j] \in Terminal => \E n \in 1 .. L + 1 : b[n].member = j
    <3> SUFFICES ASSUME NEW j \in 1 .. count, c.members[j] \in Terminal
                 PROVE  \E n \in 1 .. L + 1 : b[n].member = j
      OBVIOUS
    <3>1. CASE j = i  BY <1>1, <1>2, <3>1
    <3>2. CASE j # i
      <4>1. s.members[j] \in Terminal  BY <2>1, <3>2
      <4>2. PICK n \in 1 .. L : a[n].member = j  BY <1>6, <1>7, <4>1
      <4> QED  BY <1>1, <1>2, <4>2
    <3> QED  BY <3>1, <3>2
  <2>4. \A j \in 1 .. count : c.members[j] \in Terminal \cup {"Running"}
    <3>1. \A j \in Members(s) : s.members[j] # "Waiting"  BY <1>4, <1>16, Unended
    <3>2. \A j \in Members(s) : s.members[j] \in MemberState  BY DEF Progress, Members
    <3> QED  BY <1>7, <1>9, <2>1, <3>1, <3>2 DEF MemberState
  <2>5. \A n \in 1 .. L + 1 : b[n].member \in 1 .. count /\ b[n].result \in Terminal
    BY <1>2, <1>9, <1>11, ResultsFacts
  <2> DEFINE m == [n \in 1 .. L + 1 |-> b[n].member]
  <2>6. /\ L + 1 <= count
        /\ L + 1 = count <=> \A j \in 1 .. count : \E n \in 1 .. L + 1 : b[n].member = j
    <3>1. m \in [1 .. L + 1 -> 1 .. count]  BY <2>5
    <3>2. \A n, o \in 1 .. L + 1 : m[n] = m[o] => n = o  BY <1>2, <1>10
    <3>3. \A n \in 1 .. L + 1 : m[n] = b[n].member  OBVIOUS
    <3> DEFINE K == L + 1
    <3>4. K \in Nat  BY <1>1
    <3>6. Distinct(m, K, count)  BY <3>1, <3>2 DEF Distinct
    <3> HIDE DEF m, K, count
    <3>5. K <= count /\ (K = count <=> Everyone(m, K, count))  BY <1>7, <3>4, <3>6, AllAccepted
    <3>7. /\ K <= count
          /\ K = count <=> \A j \in 1 .. count : \E n \in 1 .. K : m[n] = j
      BY <3>5 DEF Everyone
    <3> USE DEF K
    <3> QED  BY <3>3, <3>7
  <2>7. CASE \E j \in 1 .. count : c.members[j] = "Running"
    <3>1. L + 1 < count
      <4>1. PICK j \in 1 .. count : c.members[j] = "Running"  BY <2>7
      <4>2. \A n \in 1 .. L + 1 : b[n].member # j
        BY <1>2, <2>2, <2>5, <4>1 DEF Terminal
      <4>3. L + 1 # count  BY <2>6, <4>1, <4>2
      <4> QED  BY <1>1, <1>7, <2>6, <4>3
    <3>2. Verified(c, b) = None  BY <1>9, <1>12, <1>13, <1>16, <3>1 DEF Verified, Verdict
    <3>3. c.terminal = None  BY <2>1, <2>7
    <3> QED  BY <1>9, <1>10, <1>16, <1>2, <2>2, <2>3, <3>2, <3>3, PromisedParts DEF Accounted, b, c
  <2>8. CASE ~ \E j \in 1 .. count : c.members[j] = "Running"
    <3>1. \A j \in 1 .. count : \E n \in 1 .. L + 1 : b[n].member = j  BY <2>3, <2>4, <2>8
    <3>2. L + 1 = count  BY <2>6, <3>1
    <3>3. Verified(c, b) = AllVerdict(ToSet(ResultsOf(b)))
      <4>1. Len(ResultsOf(b)) >= count  BY <1>7, <1>12, <3>2
      <4> QED  BY <1>7, <1>9, <1>12, <1>13, <1>16, <4>1, VerdictOfAll DEF Verified
    <3>4. ToSet(ResultsOf(b)) = ToSet(c.members)
      <4>1. DOMAIN ResultsOf(b) = 1 .. L + 1 /\ DOMAIN c.members = 1 .. count
        BY <1>2, <1>9 DEF ResultsOf, Members
      <4>2. \A n \in 1 .. L + 1 : \E j \in 1 .. count : ResultsOf(b)[n] = c.members[j]
        BY <1>2, <1>12, <2>2, <2>5
      <4>3. \A j \in 1 .. count : \E n \in 1 .. L + 1 : ResultsOf(b)[n] = c.members[j]
        <5> SUFFICES ASSUME NEW j \in 1 .. count
                     PROVE  \E n \in 1 .. L + 1 : ResultsOf(b)[n] = c.members[j]
          OBVIOUS
        <5>1. PICK n \in 1 .. L + 1 : b[n].member = j  BY <3>1
        <5>2. ResultsOf(b)[n] = b[n].result /\ c.members[b[n].member] = b[n].result
          BY <1>2, <1>12, <2>2
        <5> QED  BY <5>1, <5>2
      <4>4. ToSet(ResultsOf(b)) \subseteq ToSet(c.members)  BY <4>1, <4>2 DEF ToSet
      <4>5. ToSet(c.members) \subseteq ToSet(ResultsOf(b))
        <5> SUFFICES ASSUME NEW j \in 1 .. count PROVE c.members[j] \in ToSet(ResultsOf(b))
          BY <4>1 DEF ToSet
        <5>1. PICK n \in 1 .. L + 1 : ResultsOf(b)[n] = c.members[j]  BY <4>3
        <5> QED  BY <4>1, <5>1 DEF ToSet
      <4> QED  BY <4>4, <4>5
    <3>5. c.terminal = Verified(c, b)  BY <2>1, <2>8, <3>3, <3>4
    <3>6. c.terminal # None \/ ~ \E j \in 1 .. count : c.members[j] \notin Terminal
      BY <2>4, <2>8
    <3>7. \A j \in Members(c) : c.members[j] \in Terminal => \E n \in DOMAIN b : b[n].member = j
      BY <1>2, <1>9, <3>1
    <3>8. Promised(c, b)  BY <1>9, <1>10, <1>16, <2>2, <3>5, PromisedParts
    <3> QED  BY <3>7, <3>8 DEF Accounted, b, c
  <2> QED  BY <2>7, <2>8
<1> QED  BY <1>14, <1>15, <1>16 DEF Progress, Mode

AccountsInv == IInv /\ Accounts

LEMMA AccountsStep == AccountsInv /\ [Next]_vars => AccountsInv'
<1> SUFFICES ASSUME IInv, Accounts, [Next]_vars PROVE Accounts'
  BY NextStep DEF AccountsInv
<1>1. /\ Progress(progress) /\ Consistent(progress) /\ Results(accepted, progress)
      /\ Accounted(progress, accepted)
      /\ \A s \in saved : Accounted(s.progress, s.accepted)
  BY DEF IInv, TypeOK, ProgressIsConsistent, Accounts
<1>2. CASE UNCHANGED <<progress, accepted, saved>>  BY <1>1, <1>2 DEF Accounts
<1>3. ASSUME NEW h \in handles, NEW r \in Terminal, CompleteHandle(h, r) PROVE Accounts'
  <2>1. /\ CanComplete(progress, h[2]) /\ progress' = Complete(progress, h[2], r)
        /\ accepted' = Append(accepted, [member |-> h[2], result |-> r])
        /\ saved' = saved
    BY <1>3 DEF CompleteHandle
  <2>2. Accounted(progress', accepted')  BY <1>1, <2>1, CompleteIsAccounted
  <2> QED  BY <1>1, <2>1, <2>2 DEF Accounts
<1>4. CASE CancelGroup
  <2>1. progress' = CancelProgress(progress) /\ UNCHANGED <<accepted, saved>>
    BY <1>4 DEF CancelGroup
  <2>2. Accounted(progress', accepted')  BY <1>1, <2>1, CancelIsAccounted
  <2> QED  BY <1>1, <2>1, <2>2 DEF Accounts
<1>5. CASE Save
  <2>1. saved' = {[progress |-> Snapshot, accepted |-> accepted]}
        /\ UNCHANGED <<progress, accepted>>
    BY <1>5 DEF Save
  <2>2. Accounted(Snapshot, accepted)  BY <1>1, CancelIsAccounted DEF Snapshot
  <2> HIDE DEF Snapshot
  <2> QED  BY <1>1, <2>1, <2>2 DEF Accounts
<1>6. ASSUME NEW s \in saved, NEW fresh \in BOOLEAN, Restore(s, fresh) PROVE Accounts'
  <2>1. progress' = s.progress /\ accepted' = s.accepted /\ saved' = saved
    BY <1>6 DEF Restore
  <2> QED  BY <1>1, <2>1 DEF Accounts
<1>7. ASSUME NEW i \in 1 .. MaxMembers, GiveHandle(i) PROVE UNCHANGED <<progress, accepted, saved>>
  BY <1>7 DEF GiveHandle
<1>8. ASSUME CancelParent \/ DropGroup \/ \E h \in handles : CancelMember(h)
      PROVE  UNCHANGED <<progress, accepted, saved>>
  BY <1>8 DEF CancelParent, DropGroup, CancelMember
<1>9. ASSUME UNCHANGED vars PROVE UNCHANGED <<progress, accepted, saved>>
  BY <1>9 DEF vars
<1> QED  BY <1>2, <1>3, <1>4, <1>5, <1>6, <1>7, <1>8, <1>9 DEF Next

(* The results that complete_handle accepted decide how a group ended, as  *)
(* its mode promises: the last of a sequence or its first failure, the     *)
(* first of a race, the worst of all.                                      *)
THEOREM ResultsAsPromised == Spec => []AcceptedAsPromised
<1>1. Init => AccountsInv
  <2> SUFFICES ASSUME Init PROVE Accounts  BY InitIInv DEF AccountsInv
  <2>1. Accounted(progress, accepted)  BY NewIsAccounted DEF Init
  <2> QED  BY <2>1 DEF Init, Accounts
<1>2. AccountsInv /\ [Next]_vars => AccountsInv'  BY AccountsStep
<1>3. AccountsInv => AcceptedAsPromised
  BY DEF AccountsInv, Accounts, Accounted, AcceptedAsPromised
<1> QED  BY <1>1, <1>2, <1>3, PTL DEF Spec
===============================================================================
