-------------------------- MODULE RuntimeWorldProofs --------------------------
(* TLAPS proofs about RuntimeWorld, for every set of tokens, every tree of *)
(* scopes and every value of the bounds.                                   *)
EXTENDS RuntimeWorld, FiniteSetTheorems, TLAPS

USE DEF Handle, NoHandle, Step, NoTimeout, Scope, DropTasks

-------------------------------------------------------------------------------
(* Lemmas about the operators *)

(* A set whose elements are all equal counts as nothing or one. *)
LEMMA UniqueCount ==
  ASSUME NEW S, \A x, y \in S : x = y
  PROVE  Cardinality(S) = (IF S = {} THEN 0 ELSE 1)
<1>1. CASE S = {}  BY <1>1, FS_EmptySet
<1>2. CASE S # {}
  <2>1. PICK x \in S : TRUE  BY <1>2
  <2>2. S = {x}  BY <2>1
  <2> QED  BY <1>2, <2>2, FS_Singleton
<1> QED  BY <1>1, <1>2

(* What load and restore can be given is a snapshot. *)
LEMMA SnapshotType ==
  ASSUME TypeOK, saved # NoSave
  PROVE  /\ saved \in Snapshot
         /\ Candidates \subseteq Snapshot
<1>1. saved \in Snapshot  BY DEF TypeOK
<1>2. \A r \in [token : TokenId, at : Step, by : {NoHandle}] :
        [saved EXCEPT !.completed = @ \cup {r}] \in Snapshot
  BY <1>1 DEF Snapshot, Result
<1>3. ASSUME NEW k \in Token \ saved.pending
      PROVE  [saved EXCEPT !.pending = @ \cup {k}, !.owed[k.id] = @ + 1] \in Snapshot
  <2>1. k.id \in TokenId  BY DEF Token
  <2>2. /\ saved.owed \in [TokenId -> Int] /\ saved.pending \subseteq Token
        /\ saved.step \in 0 .. MaxStep /\ saved.completed \subseteq Result
    BY <1>1 DEF Snapshot
  <2>3. [saved.owed EXCEPT ![k.id] = @ + 1] \in [TokenId -> Int]  BY <2>1, <2>2
  <2> QED  BY <1>1, <2>2, <2>3 DEF Snapshot
<1> QED  BY <1>1, <1>2, <1>3 DEF Candidates

(* Storing a terminal status keeps every pending handle tracked and every  *)
(* tracked handle without a terminal status.                               *)
LEMMA FinishTracked ==
  ASSUME IInv, NEW T \in SUBSET TokenId, NEW terminal \in {"Completed", "Cancelled"},
         Finish(T, terminal)
  PROVE  /\ owner' \in [TokenId -> Handle \cup {NoHandle}]
         /\ status' \in [1 .. issued -> {"Pending", "Completed", "Cancelled"}]
         /\ \A t \in TokenId : owner'[t] = IF t \in T THEN NoHandle ELSE owner[t]
         /\ \A t \in TokenId : owner'[t] # NoHandle =>
              owner'[t] = owner[t] /\ status'[owner[t]] = "Pending"
         /\ \A h \in 1 .. issued : status'[h] = "Pending" =>
              status[h] = "Pending" /\ \A t \in T : owner[t] # h
<1>1. owner \in [TokenId -> Handle \cup {NoHandle}] /\ issued \in 0 .. MaxHandle
      /\ status \in [1 .. issued -> {"Pending", "Completed", "Cancelled"}]
  BY DEF IInv, TypeOK
<1>2. owner' \in [TokenId -> Handle \cup {NoHandle}]  BY <1>1 DEF Finish
<1>3. status' \in [1 .. issued -> {"Pending", "Completed", "Cancelled"}]
  BY <1>1 DEF Finish
<1>4. \A t \in TokenId : owner'[t] = IF t \in T THEN NoHandle ELSE owner[t]
  BY <1>1 DEF Finish
<1>5. \A h \in 1 .. issued : status'[h] = "Pending" =>
        status[h] = "Pending" /\ \A t \in T : owner[t] # h
  BY <1>1 DEF Finish
<1>6. ASSUME NEW t \in TokenId, owner'[t] # NoHandle
      PROVE  owner'[t] = owner[t] /\ status'[owner[t]] = "Pending"
  <2>1. t \notin T /\ owner'[t] = owner[t]  BY <1>4, <1>6
  <2>2. owner[t] \in 1 .. issued /\ handles[owner[t]].token = t
        /\ status[owner[t]] = "Pending"
    BY <1>1, <1>6, <2>1 DEF IInv, TrackedHandleHasWait
  <2>3. \A u \in T : owner[u] # owner[t]
    <3>1. ASSUME NEW u \in T, owner[u] = owner[t] PROVE FALSE
      <4>1. owner[u] # NoHandle /\ u \in TokenId  BY <1>6, <2>1, <3>1
      <4>2. handles[owner[u]].token = u  BY <4>1 DEF IInv, TrackedHandleHasWait
      <4> QED  BY <2>1, <2>2, <3>1, <4>2
    <3> QED  BY <3>1
  <2>4. status'[owner[t]] = status[owner[t]]  BY <2>2, <2>3 DEF Finish
  <2> QED  BY <2>1, <2>2, <2>4
<1> QED  BY <1>2, <1>3, <1>4, <1>5, <1>6

(* Both ways of cancelling waits, cancel_await and the sweep of a tick.    *)
LEMMA CancelKeepsInv ==
  ASSUME IInv, NEW T \in SUBSET TokenId,
         Finish(T, "Cancelled"), CancelTokens(T \cap TokenIds(pending)),
         phase' \in Phase \ {"dropped"}, phase # "dropped",
         scan' \subseteq TokenId, swept' \subseteq TokenId,
         UNCHANGED <<step, required_tick_mode, failed, diagnostics, generation, issued,
                     handles, cancelled, saved, fault, doomed>>
  PROVE  IInv'
<1>1. /\ owner' \in [TokenId -> Handle \cup {NoHandle}]
      /\ status' \in [1 .. issued -> {"Pending", "Completed", "Cancelled"}]
      /\ \A t \in TokenId : owner'[t] = IF t \in T THEN NoHandle ELSE owner[t]
      /\ \A t \in TokenId : owner'[t] # NoHandle =>
           owner'[t] = owner[t] /\ status'[owner[t]] = "Pending"
      /\ \A h \in 1 .. issued : status'[h] = "Pending" =>
           status[h] = "Pending" /\ \A t \in T : owner[t] # h
  BY FinishTracked
<1>2. /\ pending' = {k \in pending : k.id \notin T}
      /\ completed' = {r \in completed : r.token \notin T}
  <2>1. pending' = {k \in pending : k.id \notin T}  BY DEF CancelTokens, TokenIds
  <2>2. \A r \in completed : r.token \in TokenIds(pending)
    BY DEF IInv, QueuedResultFromTrackedHandle, HostToken, TokenIds
  <2> QED  BY <2>1, <2>2 DEF CancelTokens
<1>3. \A t \in TokenId : owed'[t] = owed[t] - (IF t \in T /\ t \in TokenIds(pending) THEN 1 ELSE 0)
  <2> TAKE t \in TokenId
  <2> DEFINE S == {k \in pending : k.id = t /\ t \in T \cap TokenIds(pending)}
  <2>1. owed'[t] = owed[t] - Cardinality(S)  BY DEF CancelTokens
  <2>2. \A x, y \in S : x = y  BY DEF IInv, OneTokenOneResult
  <2>3. (S # {}) <=> (t \in T /\ t \in TokenIds(pending))  BY DEF TokenIds
  <2> QED  BY <2>1, <2>2, <2>3, UniqueCount
<1>4. \A t \in TokenId : HostToken(pending', t) <=> HostToken(pending, t) /\ t \notin T
  BY <1>2 DEF HostToken
<1>5. OneTerminalEventPerWait' /\ owed' \in [TokenId -> Int]
  <2>1. \A t \in TokenId : owed[t] = (IF t \in TokenIds(pending) THEN 1 ELSE 0)
    BY DEF IInv, OneTerminalEventPerWait
  <2>2. \A t \in TokenId : t \in TokenIds(pending') <=> t \in TokenIds(pending) /\ t \notin T
    BY <1>2 DEF TokenIds
  <2>3. \A t \in TokenId : owed'[t] = (IF t \in TokenIds(pending') THEN 1 ELSE 0)
    BY <1>3, <2>1, <2>2
  <2>4. owed' = [t \in TokenId |-> owed'[t]]  BY DEF CancelTokens
  <2>5. owed' \in [TokenId -> Int]  BY <2>3, <2>4
  <2> QED  BY <2>3, <2>5 DEF OneTerminalEventPerWait, TokenIds
<1>6. TypeOK'
  BY <1>1, <1>2, <1>5 DEF IInv, TypeOK
<1>7. PendingHandleIsTracked'
  <2> SUFFICES ASSUME NEW h \in 1 .. issued, Status(h)' = "Pending"
               PROVE  /\ ~ failed /\ phase' # "dropped"
                      /\ handles[h].scope[1] = generation
                      /\ owner'[handles[h].token] = h
    BY DEF PendingHandleIsTracked
  <2>1. status'[h] = "Pending" /\ ~ IsCancelled(handles[h].scope)
    BY DEF Status, IsCancelled
  <2>2. Status(h) = "Pending" /\ \A t \in T : owner[t] # h  BY <1>1, <2>1 DEF Status
  <2>3. /\ ~ failed /\ handles[h].scope[1] = generation
        /\ owner[handles[h].token] = h
    BY <2>2 DEF IInv, PendingHandleIsTracked
  <2>4. handles[h].token \in TokenId  BY DEF IInv, TypeOK, HandleRecord
  <2> QED  BY <1>1, <2>2, <2>3, <2>4
<1>8. TrackedHandleHasWait'
  BY <1>1, <1>4 DEF IInv, TrackedHandleHasWait, HostToken
<1>9. QueuedResultFromTrackedHandle'
  <2> SUFFICES ASSUME NEW r \in completed'
               PROVE  HostToken(pending', r.token) /\ owner'[r.token] = r.by
    BY DEF QueuedResultFromTrackedHandle, HostToken
  <2>1. r \in completed /\ r.token \notin T /\ r.token \in TokenId
    BY <1>2 DEF IInv, TypeOK, Result
  <2> QED  BY <1>1, <1>4, <2>1 DEF IInv, QueuedResultFromTrackedHandle
<1>10. OneTokenOneResult' /\ (\A k \in pending : ValidToken(k))'
  BY <1>2 DEF IInv, OneTokenOneResult, ValidToken
<1>11. HandlesBelongToWorld' /\ AcceptedCompletionMeetsItsToken' /\ SavedIsConsistent'
  BY DEF IInv, HandlesBelongToWorld, AcceptedCompletionMeetsItsToken, SavedIsConsistent,
         ValidQueue, HostToken, TokenIds, ValidToken
<1> QED  BY <1>5, <1>6, <1>7, <1>8, <1>9, <1>10, <1>11 DEF IInv

(* A drain delivers at most one result or timeout for each token it removes. *)
LEMMA DrainKeepsInv == ASSUME IInv, DrainResults PROVE IInv'
<1> DEFINE readyTokens == {r.token : r \in Ready}
           gone == readyTokens \cup TokenIds(TimedOut)
<1>0. gone \subseteq TokenId
  BY DEF IInv, TypeOK, Ready, TimedOut, TokenIds, Token, Result
<1>1. /\ owner' \in [TokenId -> Handle \cup {NoHandle}]
      /\ status' \in [1 .. issued -> {"Pending", "Completed", "Cancelled"}]
      /\ \A t \in TokenId : owner'[t] = IF t \in gone THEN NoHandle ELSE owner[t]
      /\ \A t \in TokenId : owner'[t] # NoHandle =>
           owner'[t] = owner[t] /\ status'[owner[t]] = "Pending"
      /\ \A h \in 1 .. issued : status'[h] = "Pending" =>
           status[h] = "Pending" /\ \A t \in gone : owner[t] # h
  <2> HIDE DEF gone
  <2>1. Finish(gone, "Completed")  BY DEF DrainResults, gone
  <2> QED  BY <1>0, <2>1, FinishTracked
<1>2. pending' = {k \in pending : k.id \notin gone}
  <2>1. pending' = {k \in pending : k.id \notin readyTokens} \ TimedOut
    BY DEF DrainResults
  <2>2. \A k \in pending : k \in TimedOut <=> k.id \in TokenIds(TimedOut)
    BY DEF TokenIds, TimedOut, IInv, OneTokenOneResult
  <2> QED  BY <2>1, <2>2
<1>3. completed' = {r \in completed : r.token \notin gone}
  <2>1. completed' = completed \ Ready  BY DEF DrainResults
  <2>2. \A r \in completed : r.token \in readyTokens <=> r \in Ready
    BY DEF Ready, IInv, OneTokenOneResult
  <2>3. \A r \in completed : r.token \notin TokenIds(TimedOut)
    BY DEF TokenIds, TimedOut, IInv, OneTokenOneResult, QueuedResultFromTrackedHandle, HostToken
  <2> QED  BY <2>1, <2>2, <2>3
<1>4. \A t \in TokenId : HostToken(pending', t) <=> HostToken(pending, t) /\ t \notin gone
  BY <1>2 DEF HostToken
<1>5. \A t \in TokenId :
        owed'[t] = owed[t] - (IF t \in gone THEN 1 ELSE 0)
  <2> TAKE t \in TokenId
  <2> DEFINE R == {r \in Ready : r.token = t}
             K == {k \in TimedOut : k.id = t}
  <2>1. owed'[t] = owed[t] - Cardinality(R) - Cardinality(K)  BY DEF DrainResults
  <2>2. (\A x, y \in R : x = y) /\ (\A x, y \in K : x = y)
    BY DEF IInv, OneTokenOneResult, Ready, TimedOut
  <2>3. (R # {} <=> t \in readyTokens) /\ (K # {} <=> t \in TokenIds(TimedOut))
    BY DEF TokenIds
  <2>4. ~ (R # {} /\ K # {})  BY DEF TimedOut
  <2>5. owed[t] \in Int  BY DEF IInv, TypeOK
  <2>6. Cardinality(R) = (IF R = {} THEN 0 ELSE 1) /\ Cardinality(K) = (IF K = {} THEN 0 ELSE 1)
    BY <2>2, UniqueCount
  <2> HIDE DEF R, K
  <2> QED  BY <2>1, <2>3, <2>4, <2>5, <2>6
<1>6. gone \subseteq TokenIds(pending)
  BY DEF IInv, QueuedResultFromTrackedHandle, HostToken, Ready, TimedOut, TokenIds
<1> HIDE DEF gone, readyTokens
<1>7. OneTerminalEventPerWait' /\ owed' \in [TokenId -> Int]
  <2>1. \A t \in TokenId : owed[t] = (IF t \in TokenIds(pending) THEN 1 ELSE 0)
    BY DEF IInv, OneTerminalEventPerWait
  <2>2. \A t \in TokenId : t \in TokenIds(pending') <=> t \in TokenIds(pending) /\ t \notin gone
    BY <1>2 DEF TokenIds
  <2>3. \A t \in TokenId : owed'[t] = (IF t \in TokenIds(pending') THEN 1 ELSE 0)
    BY <1>5, <1>6, <2>1, <2>2
  <2>4. owed' = [t \in TokenId |-> owed'[t]]  BY DEF DrainResults
  <2>5. owed' \in [TokenId -> Int]  BY <2>3, <2>4
  <2> QED  BY <2>3, <2>5 DEF OneTerminalEventPerWait, TokenIds
<1>8. TypeOK'
  BY <1>1, <1>2, <1>3, <1>7 DEF DrainResults, IInv, TypeOK, Phase
<1>9. PendingHandleIsTracked'
  <2> SUFFICES ASSUME NEW h \in 1 .. issued, Status(h)' = "Pending"
               PROVE  /\ ~ failed /\ phase' # "dropped"
                      /\ handles[h].scope[1] = generation
                      /\ owner'[handles[h].token] = h
    BY DEF PendingHandleIsTracked, DrainResults
  <2>1. status'[h] = "Pending" /\ ~ IsCancelled(handles[h].scope)
    BY DEF Status, IsCancelled, DrainResults
  <2>2. Status(h) = "Pending" /\ \A t \in gone : owner[t] # h  BY <1>1, <2>1 DEF Status
  <2>3. /\ ~ failed /\ handles[h].scope[1] = generation
        /\ owner[handles[h].token] = h
    BY <2>2 DEF IInv, PendingHandleIsTracked
  <2>4. handles[h].token \in TokenId  BY DEF IInv, TypeOK, HandleRecord
  <2> QED  BY <1>1, <2>2, <2>3, <2>4 DEF DrainResults
<1>10. TrackedHandleHasWait'
  BY <1>1, <1>4 DEF IInv, TrackedHandleHasWait, HostToken, DrainResults
<1>11. QueuedResultFromTrackedHandle'
  <2> SUFFICES ASSUME NEW r \in completed'
               PROVE  HostToken(pending', r.token) /\ owner'[r.token] = r.by
    BY DEF QueuedResultFromTrackedHandle, HostToken
  <2>1. r \in completed /\ r.token \notin gone /\ r.token \in TokenId
    BY <1>3 DEF IInv, TypeOK, Result
  <2> QED  BY <1>1, <1>4, <2>1 DEF IInv, QueuedResultFromTrackedHandle
<1>12. OneTokenOneResult' /\ (\A k \in pending : ValidToken(k))'
  BY <1>2, <1>3 DEF IInv, OneTokenOneResult, ValidToken
<1>13. HandlesBelongToWorld' /\ AcceptedCompletionMeetsItsToken' /\ SavedIsConsistent'
  BY DEF IInv, HandlesBelongToWorld, AcceptedCompletionMeetsItsToken, SavedIsConsistent,
         ValidQueue, HostToken, TokenIds, ValidToken, DrainResults
<1> QED  BY <1>7, <1>8, <1>9, <1>10, <1>11, <1>12, <1>13 DEF IInv

(* restore_snapshot of any consistent snapshot, whatever handles are about. *)
LEMMA RestoreKeepsInv ==
  ASSUME IInv, NEW s \in Snapshot, RestoreSnapshot(s),
         ValidQueue(s.pending, s.completed),
         \A t \in TokenId : s.owed[t] = (IF t \in TokenIds(s.pending) THEN 1 ELSE 0),
         required_tick_mode' \in {"Live", "RestoreContinuation"}
  PROVE  IInv'
<1>1. TypeOK'
  <2>1. completed' \subseteq Result  BY DEF RestoreSnapshot, Snapshot, Result
  <2>2. generation \in 1 .. MaxGeneration /\ generation < MaxGeneration /\ Root \in ScopeName
    BY ScopeAssumption DEF IInv, TypeOK, RestoreSnapshot
  <2>3. generation' \in 1 .. MaxGeneration /\ RootScope \in Scope
    BY <2>2, BoundAssumption DEF RestoreSnapshot, RootScope
  <2>4. cancelled' \subseteq Scope /\ owner' \in [TokenId -> Handle \cup {NoHandle}]
    BY <2>3 DEF RestoreSnapshot, IInv, TypeOK
  <2>5. step' \in 0 .. MaxStep /\ pending' \subseteq Token /\ owed' \in [TokenId -> Int]
    BY DEF RestoreSnapshot, Snapshot
  <2>6. diagnostics' \subseteq Code /\ failed' \in BOOLEAN  BY DEF RestoreSnapshot
  <2>7. UNCHANGED <<issued, handles, status, tickVars, saved>>  BY DEF RestoreSnapshot
  <2> QED  BY <2>1, <2>3, <2>4, <2>5, <2>6, <2>7 DEF IInv, TypeOK, tickVars
<1>2. HandlesBelongToWorld'
  BY DEF IInv, TypeOK, HandlesBelongToWorld, RestoreSnapshot, HandleRecord
<1>3. \A h \in 1 .. issued : Status(h)' # "Pending"
  <2> SUFFICES ASSUME NEW h \in 1 .. issued, Status(h)' = "Pending" PROVE FALSE
    OBVIOUS
  <2>1. status[h] = "Pending" /\ ~ (\E a \in Ancestors[handles[h].scope[2]] :
                                     <<handles[h].scope[1], a>> \in cancelled \cup {RootScope})
    BY DEF Status, IsCancelled, RestoreSnapshot
  <2>2. Status(h) = "Pending"  BY <2>1 DEF Status, IsCancelled
  <2>3. handles[h].scope[1] = generation  BY <2>2 DEF IInv, PendingHandleIsTracked
  <2>4. Root \in Ancestors[handles[h].scope[2]]  BY DEF IInv, HandlesBelongToWorld
  <2> QED  BY <2>1, <2>3, <2>4 DEF RootScope
<1>4. PendingHandleIsTracked' /\ TrackedHandleHasWait'
  BY <1>3 DEF PendingHandleIsTracked, TrackedHandleHasWait, RestoreSnapshot
<1>5. QueuedResultFromTrackedHandle'
  <2> SUFFICES ASSUME NEW r \in completed'
               PROVE  HostToken(pending', r.token) /\ owner'[r.token] = r.by
    BY DEF QueuedResultFromTrackedHandle, HostToken
  <2>1. PICK q \in s.completed : r = [q EXCEPT !.by = NoHandle]  BY DEF RestoreSnapshot
  <2>2. q \in Result  BY DEF Snapshot
  <2>3. r.token = q.token /\ r.by = NoHandle /\ q.token \in TokenId  BY <2>1, <2>2 DEF Result
  <2> QED  BY <2>3 DEF RestoreSnapshot, ValidQueue
<1>6. OneTokenOneResult'
  <2>1. \A k, l \in pending' : k.id = l.id => k = l  BY DEF RestoreSnapshot, ValidQueue
  <2>2. ASSUME NEW r1 \in completed', NEW r2 \in completed', r1.token = r2.token
        PROVE  r1 = r2
    <3>1. PICK q1 \in s.completed : r1 = [q1 EXCEPT !.by = NoHandle]  BY DEF RestoreSnapshot
    <3>2. PICK q2 \in s.completed : r2 = [q2 EXCEPT !.by = NoHandle]  BY DEF RestoreSnapshot
    <3>3. q1 \in Result /\ q2 \in Result  BY DEF Snapshot
    <3>4. q1.token = q2.token  BY <2>2, <3>1, <3>2, <3>3 DEF Result
    <3>5. q1 = q2  BY <3>4 DEF ValidQueue
    <3> QED  BY <3>1, <3>2, <3>5
  <2> QED  BY <2>1, <2>2 DEF OneTokenOneResult
<1>7. /\ AcceptedCompletionMeetsItsToken' /\ (\A k \in pending : ValidToken(k))'
      /\ OneTerminalEventPerWait' /\ SavedIsConsistent'
  BY DEF IInv, AcceptedCompletionMeetsItsToken, ValidQueue, ValidToken, SavedIsConsistent,
         OneTerminalEventPerWait, TokenIds, HostToken, RestoreSnapshot
<1> QED  BY <1>1, <1>2, <1>4, <1>5, <1>6, <1>7 DEF IInv

-------------------------------------------------------------------------------
(* The remaining actions *)

LEMMA CancelScopeKeepsInv == ASSUME IInv, NEW s \in Scope, CancelScope(s) PROVE IInv'
<1> USE DEF CancelScope, worldVars, taskVars, tickVars
<1>1. TypeOK'  BY DEF IInv, TypeOK
<1>2. PendingHandleIsTracked'
  BY DEF IInv, PendingHandleIsTracked, Status, IsCancelled
<1>3. /\ HandlesBelongToWorld' /\ TrackedHandleHasWait' /\ QueuedResultFromTrackedHandle'
      /\ OneTokenOneResult' /\ AcceptedCompletionMeetsItsToken'
      /\ (\A k \in pending : ValidToken(k))' /\ OneTerminalEventPerWait' /\ SavedIsConsistent'
  BY DEF IInv, HandlesBelongToWorld, TrackedHandleHasWait, QueuedResultFromTrackedHandle,
         OneTokenOneResult, AcceptedCompletionMeetsItsToken, ValidToken,
         OneTerminalEventPerWait, SavedIsConsistent, ValidQueue, HostToken, TokenIds
<1> QED  BY <1>1, <1>2, <1>3 DEF IInv

(* Inserting a set of new tokens: insert_await_token and machine outputs. *)
LEMMA InsertKeepsInv ==
  ASSUME IInv, NEW K \in SUBSET Token,
         \A k \in K : CanInsert(k), \A k, l \in K : k.id = l.id => k = l,
         pending' = pending \cup K,
         owed' = [t \in TokenId |-> owed[t] + (IF t \in TokenIds(K) THEN 1 ELSE 0)],
         failed' \in BOOLEAN, phase' = "idle", phase # "dropped", fault' \in BOOLEAN,
         required_tick_mode' \in {"Live", "RestoreContinuation"},
         cancelled \subseteq cancelled', cancelled' \subseteq Scope,
         failed' = failed \/ RootScope \in cancelled',
         UNCHANGED <<step, completed, diagnostics, taskVars, scan, swept, doomed, saved>>
  PROVE  IInv'
<1> USE DEF taskVars
<1>1. \A t \in TokenId : HostToken(pending, t) => HostToken(pending', t)  BY DEF HostToken
<1>2. OneTokenOneResult' /\ (\A k \in pending : ValidToken(k))'
  BY DEF IInv, OneTokenOneResult, ValidToken, CanInsert, TokenIds
<1>3. OneTerminalEventPerWait' /\ owed' \in [TokenId -> Int]
  <2> DEFINE old == TokenIds(pending)
             added == TokenIds(K)
             new == TokenIds(pending)'
  <2>1. new = old \cup added  BY DEF TokenIds
  <2>2. \A t \in added : t \notin old  BY DEF CanInsert, TokenIds
  <2>3. \A t \in TokenId : owed[t] = (IF t \in old THEN 1 ELSE 0)
    BY DEF IInv, OneTerminalEventPerWait
  <2>4. \A t \in TokenId : owed'[t] = owed[t] + (IF t \in added THEN 1 ELSE 0)  OBVIOUS
  <2>5. owed' = [t \in TokenId |-> owed'[t]]  OBVIOUS
  <2> HIDE DEF old, added, new
  <2>6. \A t \in TokenId : owed'[t] = (IF t \in new THEN 1 ELSE 0)
    BY <2>1, <2>2, <2>3, <2>4
  <2>7. owed' \in [TokenId -> Int]  BY <2>5, <2>6
  <2> QED  BY <2>6, <2>7 DEF OneTerminalEventPerWait, new
<1>4. TypeOK'  BY <1>3 DEF IInv, TypeOK, Phase
<1>5. PendingHandleIsTracked'
  <2> SUFFICES ASSUME NEW h \in 1 .. issued, Status(h)' = "Pending"
               PROVE  /\ ~ failed' /\ handles[h].scope[1] = generation
                      /\ owner[handles[h].token] = h
    BY DEF PendingHandleIsTracked
  <2>1. status[h] = "Pending"
        /\ \A a \in Ancestors[handles[h].scope[2]] : <<handles[h].scope[1], a>> \notin cancelled'
    BY DEF Status, IsCancelled
  <2>2. Status(h) = "Pending"  BY <2>1 DEF Status, IsCancelled
  <2>3. ~ failed /\ handles[h].scope[1] = generation /\ owner[handles[h].token] = h
    BY <2>2 DEF IInv, PendingHandleIsTracked
  <2>4. Root \in Ancestors[handles[h].scope[2]]  BY DEF IInv, HandlesBelongToWorld
  <2> QED  BY <2>1, <2>3, <2>4 DEF RootScope
<1>6. TrackedHandleHasWait' /\ QueuedResultFromTrackedHandle'
  BY <1>1 DEF IInv, TypeOK, Result, TrackedHandleHasWait, QueuedResultFromTrackedHandle, HostToken
<1>7. HandlesBelongToWorld' /\ AcceptedCompletionMeetsItsToken' /\ SavedIsConsistent'
  BY DEF IInv, HandlesBelongToWorld, AcceptedCompletionMeetsItsToken, SavedIsConsistent,
         ValidQueue, HostToken, TokenIds, ValidToken
<1> QED  BY <1>2, <1>3, <1>4, <1>5, <1>6, <1>7 DEF IInv

LEMMA AwaitHandleKeepsInv ==
  ASSUME IInv, NEW t \in TokenId, NEW s \in Scope, AwaitHandle(t, s) PROVE IInv'
<1> USE DEF AwaitHandle, worldVars, tickVars
<1>1. TypeOK'
  <2>1. issued \in 0 .. MaxHandle /\ MaxHandle \in Nat  BY BoundAssumption DEF IInv, TypeOK
  <2>2. issued' \in 0 .. MaxHandle /\ issued' \in Handle  BY <2>1
  <2>3. handles' \in [1 .. issued' -> HandleRecord]  BY <2>1 DEF IInv, TypeOK, HandleRecord
  <2>4. status' \in [1 .. issued' -> {"Pending", "Completed", "Cancelled"}]
    BY <2>1 DEF IInv, TypeOK
  <2>5. owner' \in [TokenId -> Handle \cup {NoHandle}]  BY <2>2 DEF IInv, TypeOK
  <2> QED  BY <2>2, <2>3, <2>4, <2>5 DEF IInv, TypeOK
<1>2. issued \in Nat /\ issued' = issued + 1 /\ (\A h \in 1 .. issued : h # issued + 1)
  BY DEF IInv, TypeOK
<1>3. \A h \in 1 .. issued : handles'[h] = handles[h] /\ status'[h] = status[h]  BY <1>2
<1>4. handles'[issued + 1] = [token |-> t, scope |-> s] /\ status'[issued + 1] = "Pending"
  BY <1>2
<1>5. \A u \in TokenId : owner'[u] = IF u = t THEN issued + 1 ELSE owner[u]
  BY DEF IInv, TypeOK
<1>6. HandlesBelongToWorld'
  BY <1>2, <1>3, <1>4 DEF IInv, TypeOK, HandlesBelongToWorld, BelongsTo, RootScope
<1>7. PendingHandleIsTracked'
  <2> SUFFICES ASSUME NEW h \in 1 .. issued + 1, Status(h)' = "Pending"
               PROVE  /\ ~ failed /\ phase # "dropped"
                      /\ handles'[h].scope[1] = generation
                      /\ owner'[handles'[h].token] = h
    BY DEF PendingHandleIsTracked
  <2>1. CASE h = issued + 1
    BY <2>1, <1>4, <1>5 DEF Active, BelongsTo, RootScope
  <2>2. CASE h \in 1 .. issued
    <3>0. handles'[h] = handles[h] /\ status'[h] = status[h] /\ cancelled' = cancelled
      BY <1>3, <2>2
    <3>1. Status(h) = "Pending"
      <4>1. status'[h] = "Pending" /\ ~ IsCancelled(handles[h].scope)'
        BY DEF Status
      <4> QED  BY <3>0, <4>1 DEF Status, IsCancelled
    <3>2. handles[h].token \in TokenId /\ owner[handles[h].token] = h
          /\ handles[h].scope[1] = generation
      BY <2>2, <3>1 DEF IInv, TypeOK, HandleRecord, PendingHandleIsTracked
    <3>3. handles[h].token # t  BY <1>2, <2>2, <3>2
    <3> QED  BY <1>3, <1>5, <2>2, <3>2, <3>3 DEF Active
  <2> QED  BY <1>2, <2>1, <2>2
<1>8. TrackedHandleHasWait'
  <2> SUFFICES ASSUME NEW u \in TokenId, owner'[u] # NoHandle
               PROVE  /\ owner'[u] <= issued + 1
                      /\ handles'[owner'[u]].token = u
                      /\ status'[owner'[u]] = "Pending"
                      /\ HostToken(pending, u)
    BY DEF TrackedHandleHasWait, HostToken
  <2>1. CASE u = t  BY <1>2, <1>4, <1>5, <2>1
  <2>2. CASE u # t
    <3>1. owner'[u] = owner[u] /\ owner[u] \in 1 .. issued
      BY <1>2, <1>5, <2>2 DEF IInv, TypeOK, TrackedHandleHasWait
    <3> QED  BY <1>2, <1>3, <3>1 DEF IInv, TrackedHandleHasWait
  <2> QED  BY <2>1, <2>2
<1>9. QueuedResultFromTrackedHandle'
  BY <1>5 DEF IInv, TypeOK, Result, QueuedResultFromTrackedHandle, HasResult, HostToken
<1>10. /\ OneTokenOneResult' /\ AcceptedCompletionMeetsItsToken'
       /\ (\A k \in pending : ValidToken(k))' /\ OneTerminalEventPerWait' /\ SavedIsConsistent'
  BY DEF IInv, OneTokenOneResult, AcceptedCompletionMeetsItsToken, ValidToken,
         OneTerminalEventPerWait, SavedIsConsistent, ValidQueue, HostToken, TokenIds
<1> QED  BY <1>1, <1>6, <1>7, <1>8, <1>9, <1>10 DEF IInv

(* A completion of the tick's ingress: accepts has established that the    *)
(* handle is tracked, so its token is pending and waits for the host.      *)
LEMMA SubmitKeepsInv ==
  ASSUME IInv, NEW h \in 1 .. issued, NEW at \in Step, SubmitAwaitResult(h, at)
  PROVE  IInv'
<1> DEFINE r == [token |-> handles[h].token, at |-> at, by |-> h]
<1> USE DEF SubmitAwaitResult, taskVars, tickVars
<1>1. /\ h \in Handle /\ handles[h].token \in TokenId
      /\ owner[handles[h].token] = h /\ Status(h) = "Pending"
  BY BoundAssumption DEF IInv, TypeOK, HandleRecord, Accepts
<1>2. HostToken(pending, handles[h].token)
  BY <1>1 DEF IInv, TrackedHandleHasWait
<1>3. r \in Result  BY <1>1 DEF Result
<1>4. \A k \in pending : k.id = r.token => k.policy = "HostResult"
  BY <1>2 DEF HostToken, IInv, OneTokenOneResult
<1>5. /\ diagnostics' = diagnostics
      /\ \/ completed' = completed
         \/ completed' = completed \cup {r} /\ ~ HasResult(completed, r.token)
  BY <1>2, <1>4 DEF SubmitResult, HostToken, TokenIds
<1>6. TypeOK'  BY <1>3, <1>5 DEF IInv, TypeOK
<1>7. QueuedResultFromTrackedHandle'
  BY <1>1, <1>2, <1>5 DEF IInv, QueuedResultFromTrackedHandle, HostToken
<1>8. OneTokenOneResult'  BY <1>5 DEF IInv, OneTokenOneResult, HasResult
<1> HIDE DEF r
<1>9. /\ HandlesBelongToWorld' /\ TrackedHandleHasWait' /\ AcceptedCompletionMeetsItsToken'
      /\ (\A k \in pending : ValidToken(k))' /\ OneTerminalEventPerWait' /\ SavedIsConsistent'
  BY <1>5 DEF IInv, HandlesBelongToWorld, TrackedHandleHasWait, AcceptedCompletionMeetsItsToken,
         ValidToken, OneTerminalEventPerWait, SavedIsConsistent, ValidQueue, HostToken, TokenIds
<1>10. PendingHandleIsTracked'
  BY DEF IInv, PendingHandleIsTracked, Status, IsCancelled
<1> QED  BY <1>6, <1>7, <1>8, <1>9, <1>10 DEF IInv

(* Steps that touch neither the queue, nor the handles, nor the scopes.    *)
LEMMA QuietKeepsInv ==
  ASSUME IInv, TypeOK', SavedIsConsistent', phase' # "dropped" \/ RootScope \in cancelled',
         cancelled \subseteq cancelled',
         UNCHANGED <<failed, pending, completed, diagnostics, owed, taskVars>>
  PROVE  IInv'
<1> USE DEF taskVars
<1>1. PendingHandleIsTracked'
  <2> SUFFICES ASSUME NEW h \in 1 .. issued, Status(h)' = "Pending"
               PROVE  /\ ~ failed /\ phase' # "dropped"
                      /\ handles[h].scope[1] = generation
                      /\ owner[handles[h].token] = h
    BY DEF PendingHandleIsTracked
  <2>1. status[h] = "Pending"
        /\ \A a \in Ancestors[handles[h].scope[2]] : <<handles[h].scope[1], a>> \notin cancelled'
    BY DEF Status, IsCancelled
  <2>2. Status(h) = "Pending"  BY <2>1 DEF Status, IsCancelled
  <2>3. ~ failed /\ handles[h].scope[1] = generation /\ owner[handles[h].token] = h
    BY <2>2 DEF IInv, PendingHandleIsTracked
  <2>4. Root \in Ancestors[handles[h].scope[2]]  BY DEF IInv, HandlesBelongToWorld
  <2> QED  BY <2>1, <2>3, <2>4 DEF RootScope
<1>2. /\ HandlesBelongToWorld' /\ TrackedHandleHasWait' /\ QueuedResultFromTrackedHandle'
      /\ OneTokenOneResult' /\ AcceptedCompletionMeetsItsToken'
      /\ (\A k \in pending : ValidToken(k))' /\ OneTerminalEventPerWait'
  BY DEF IInv, HandlesBelongToWorld, TrackedHandleHasWait, QueuedResultFromTrackedHandle,
         OneTokenOneResult, AcceptedCompletionMeetsItsToken, ValidToken,
         OneTerminalEventPerWait, HostToken, TokenIds
<1> QED  BY <1>1, <1>2 DEF IInv

(* Whatever load accepts is consistent: the saved queue, one result more,  *)
(* or one token more, which the validation has found to be new.            *)
LEMMA LoadedIsConsistent ==
  ASSUME IInv, saved # NoSave, NEW s \in Candidates, ValidQueue(s.pending, s.completed)
  PROVE  \A t \in TokenId : s.owed[t] = (IF t \in TokenIds(s.pending) THEN 1 ELSE 0)
<1>1. saved \in Snapshot  BY SnapshotType DEF IInv
<1>2. \A t \in TokenId : saved.owed[t] = (IF t \in TokenIds(saved.pending) THEN 1 ELSE 0)
  BY DEF IInv, SavedIsConsistent
<1>3. CASE s = saved  BY <1>2, <1>3
<1>4. ASSUME NEW r, s = [saved EXCEPT !.completed = @ \cup {r}]
      PROVE  s.owed = saved.owed /\ s.pending = saved.pending
  BY <1>1, <1>4 DEF Snapshot
<1>5. ASSUME NEW k \in Token \ saved.pending,
             s = [saved EXCEPT !.pending = @ \cup {k}, !.owed[k.id] = @ + 1]
      PROVE  \A t \in TokenId : s.owed[t] = (IF t \in TokenIds(s.pending) THEN 1 ELSE 0)
  <2>1. s.pending = saved.pending \cup {k}  BY <1>1, <1>5 DEF Snapshot
  <2>2. \A t \in TokenId : s.owed[t] = IF t = k.id THEN saved.owed[t] + 1 ELSE saved.owed[t]
    BY <1>1, <1>5 DEF Snapshot
  <2>3. k.id \notin TokenIds(saved.pending)
    BY <2>1 DEF ValidQueue, TokenIds
  <2> DEFINE old == TokenIds(saved.pending)
             new == TokenIds(s.pending)
  <2>4. new = old \cup {k.id}  BY <2>1 DEF TokenIds
  <2> HIDE DEF old, new
  <2>5. \A t \in TokenId : saved.owed[t] = (IF t \in old THEN 1 ELSE 0)  BY <1>2 DEF old
  <2>6. k.id \notin old  BY <2>3 DEF old
  <2>7. \A t \in TokenId : s.owed[t] = (IF t \in new THEN 1 ELSE 0)
    BY <2>2, <2>4, <2>5, <2>6
  <2> QED  BY <2>7 DEF new
<1>6. \/ s = saved
      \/ \E r \in [token : TokenId, at : Step, by : {NoHandle}] :
           s = [saved EXCEPT !.completed = @ \cup {r}]
      \/ \E k \in Token \ saved.pending :
           s = [saved EXCEPT !.pending = @ \cup {k}, !.owed[k.id] = @ + 1]
  BY ZenonT(30) DEF Candidates
<1>7. CASE \E r \in [token : TokenId, at : Step, by : {NoHandle}] :
             s = [saved EXCEPT !.completed = @ \cup {r}]
  <2>1. s.owed = saved.owed /\ s.pending = saved.pending  BY <1>4, <1>7, Zenon
  <2> QED  BY <1>2, <2>1
<1> QED  BY <1>3, <1>5, <1>6, <1>7, Zenon

-------------------------------------------------------------------------------
(* The invariant *)

LEMMA InitInv == Init => IInv
<1> SUFFICES ASSUME Init PROVE IInv  OBVIOUS
<1> USE DEF Init
<1>0. 0 \in 0 .. MaxStep /\ 1 \in 1 .. MaxGeneration /\ 0 \in 0 .. MaxHandle
  BY BoundAssumption
<1>1. handles \in [1 .. issued -> HandleRecord]
      /\ status \in [1 .. issued -> {"Pending", "Completed", "Cancelled"}]
  <2>1. issued = 0 /\ 1 .. issued = {}  BY DEF Init
  <2>2. handles = << >> /\ status = << >>  BY DEF Init
  <2>3. << >> \in [{} -> HandleRecord] /\ << >> \in [{} -> {"Pending", "Completed", "Cancelled"}]
    OBVIOUS
  <2> QED  BY <2>1, <2>2, <2>3
<1>2. owner \in [TokenId -> Handle \cup {NoHandle}] /\ owed \in [TokenId -> Int]
  OBVIOUS
<1>3. pending \subseteq Token /\ completed \subseteq Result /\ cancelled \subseteq Scope
  OBVIOUS
<1>4. TypeOK  BY <1>0, <1>1, <1>2, <1>3 DEF TypeOK, Phase
<1>5. /\ HandlesBelongToWorld /\ PendingHandleIsTracked /\ TrackedHandleHasWait
      /\ QueuedResultFromTrackedHandle /\ OneTokenOneResult /\ AcceptedCompletionMeetsItsToken
      /\ (\A k \in pending : ValidToken(k)) /\ SavedIsConsistent
  BY DEF HandlesBelongToWorld, PendingHandleIsTracked, TrackedHandleHasWait,
         QueuedResultFromTrackedHandle, OneTokenOneResult, AcceptedCompletionMeetsItsToken,
         SavedIsConsistent
<1>6. OneTerminalEventPerWait  BY DEF OneTerminalEventPerWait, TokenIds
<1> QED  BY <1>4, <1>5, <1>6 DEF IInv

LEMMA OwnerStepKeepsInv == ASSUME IInv, OwnerStep PROVE IInv'
<1>1. ASSUME NEW k \in Token, InsertAwaitToken(k) PROVE IInv'
  <2>1. TokenIds({k}) = {k.id} /\ k.id \in TokenId  BY DEF TokenIds, Token
  <2>2. owed' = [t \in TokenId |-> owed[t] + (IF t \in TokenIds({k}) THEN 1 ELSE 0)]
    <3>1. owed' = [owed EXCEPT ![k.id] = @ + 1]  BY <1>1 DEF InsertAwaitToken
    <3>2. owed \in [TokenId -> Int]  BY DEF IInv, TypeOK
    <3>3. owed' = [t \in TokenId |-> IF t = k.id THEN owed[t] + 1 ELSE owed[t]]
      BY <2>1, <3>1, <3>2
    <3>4. \A t \in TokenId : t \in TokenIds({k}) <=> t = k.id  BY <2>1
    <3>5. \A t \in TokenId : owed[t] + 0 = owed[t]  BY <3>2
    <3> QED  BY <3>3, <3>4, <3>5
  <2>3. phase = "idle"  BY <1>1 DEF InsertAwaitToken, Active
  <2>4. cancelled \subseteq Scope /\ fault \in BOOLEAN /\ failed \in BOOLEAN
        /\ required_tick_mode \in {"Live", "RestoreContinuation"}
    BY DEF IInv, TypeOK
  <2>5. /\ CanInsert(k) /\ pending' = pending \cup {k}
        /\ UNCHANGED <<phase, fault, failed, required_tick_mode, cancelled>>
        /\ UNCHANGED <<step, completed, diagnostics, taskVars, scan, swept, doomed, saved>>
    BY <1>1 DEF InsertAwaitToken, tickVars
  <2>6. {k} \in SUBSET Token /\ (\A l \in {k} : CanInsert(l))
        /\ (\A l, m \in {k} : l.id = m.id => l = m)
    BY <2>5
  <2> QED  BY <2>2, <2>3, <2>4, <2>5, <2>6, InsertKeepsInv
<1>2. ASSUME NEW t \in TokenId, NEW s \in Scope, AwaitHandle(t, s) PROVE IInv'
  BY <1>2, AwaitHandleKeepsInv
<1>3. ASSUME NEW t \in TokenId, CancelAwait(t) PROVE IInv'
  <2>1. phase = "idle" /\ phase' = phase /\ scan' \subseteq TokenId /\ swept' \subseteq TokenId
    BY <1>3 DEF CancelAwait, Active, tickVars, IInv, TypeOK
  <2>2. phase' \in Phase \ {"dropped"}  BY <2>1 DEF Phase
  <2> QED  BY <1>3, <2>1, <2>2, CancelKeepsInv DEF CancelAwait, tickVars
<1>4. ASSUME Save PROVE IInv'
  <2> USE <1>4 DEF Save, worldVars, taskVars, tickVars
  <2>1. saved' \in Snapshot  BY DEF Snapshot, IInv, TypeOK
  <2>2. TypeOK'  BY <2>1 DEF IInv, TypeOK
  <2>3. ValidQueue(pending, completed)
    BY DEF ValidQueue, IInv, OneTokenOneResult, QueuedResultFromTrackedHandle
  <2>4. \A t \in TokenId : owed[t] = (IF t \in TokenIds(pending) THEN 1 ELSE 0)
    BY DEF IInv, OneTerminalEventPerWait
  <2>5. SavedIsConsistent'
    BY <2>3, <2>4 DEF SavedIsConsistent, ValidQueue, TokenIds, ValidToken, HostToken
  <2> QED  BY <2>2, <2>5, QuietKeepsInv DEF Active
<1>5. ASSUME Restore PROVE IInv'
  <2>1. saved # NoSave /\ RestoreSnapshot(saved) /\ saved \in Snapshot
    BY <1>5, SnapshotType DEF Restore, IInv
  <2>2. /\ ValidQueue(saved.pending, saved.completed)
        /\ \A t \in TokenId : saved.owed[t] = (IF t \in TokenIds(saved.pending) THEN 1 ELSE 0)
    BY <2>1 DEF IInv, SavedIsConsistent
  <2>3. required_tick_mode' \in {"Live", "RestoreContinuation"}
    BY <1>5 DEF Restore, IInv, TypeOK
  <2> QED  BY <2>1, <2>2, <2>3, RestoreKeepsInv
<1>6. ASSUME Load PROVE IInv'
  <2>1. PICK s \in Candidates : ValidQueue(s.pending, s.completed) /\ RestoreSnapshot(s)
    BY <1>6 DEF Load
  <2>2. saved # NoSave /\ required_tick_mode' = "RestoreContinuation"  BY <1>6 DEF Load
  <2>3. s \in Snapshot  BY <2>2, SnapshotType DEF IInv
  <2>4. \A t \in TokenId : s.owed[t] = (IF t \in TokenIds(s.pending) THEN 1 ELSE 0)
    BY <2>1, <2>2, LoadedIsConsistent
  <2> QED  BY <2>1, <2>2, <2>3, <2>4, RestoreKeepsInv
<1>7. ASSUME DropWorld PROVE IInv'
  <2> USE <1>7 DEF DropWorld, worldVars, taskVars
  <2>1. RootScope \in Scope  BY ScopeAssumption DEF IInv, TypeOK, RootScope
  <2>2. TypeOK'  BY <2>1 DEF IInv, TypeOK, Phase
  <2>3. SavedIsConsistent'
    BY DEF IInv, SavedIsConsistent, ValidQueue, TokenIds, ValidToken, HostToken
  <2> QED  BY <2>2, <2>3, QuietKeepsInv
<1> QED  BY <1>1, <1>2, <1>3, <1>4, <1>5, <1>6, <1>7 DEF OwnerStep

LEMMA TickStepKeepsInv == ASSUME IInv, TickStep PROVE IInv'
<1>0. SavedIsConsistent /\ TypeOK  BY DEF IInv
<1>1. CASE StartSweep
  <2> USE <1>1 DEF StartSweep, taskVars
  <2>1. step' \in 0 .. MaxStep  BY BoundAssumption DEF IInv, TypeOK, NextStep
  <2>2. scan' \subseteq TokenId /\ doomed' \subseteq TokenId  OBVIOUS
  <2>3. TypeOK'  BY <2>1, <2>2 DEF IInv, TypeOK, Phase
  <2>4. SavedIsConsistent'
    BY <1>0 DEF SavedIsConsistent, ValidQueue, TokenIds, ValidToken, HostToken
  <2> QED  BY <2>3, <2>4, QuietKeepsInv
<1>2. ASSUME NEW t \in TokenId, ScanHandle(t) PROVE IInv'
  <2> USE <1>2 DEF ScanHandle, taskVars, worldVars
  <2>1. TypeOK'  BY DEF IInv, TypeOK
  <2>2. SavedIsConsistent'
    BY <1>0 DEF SavedIsConsistent, ValidQueue, TokenIds, ValidToken, HostToken
  <2> QED  BY <2>1, <2>2, QuietKeepsInv
<1>3. CASE CancelSwept
  <2>1. swept \subseteq TokenId /\ scan' \subseteq TokenId /\ swept' \subseteq TokenId
        /\ phase # "dropped" /\ phase' \in Phase \ {"dropped"}
    BY <1>3 DEF CancelSwept, IInv, TypeOK, Phase
  <2> QED  BY <1>3, <2>1, CancelKeepsInv DEF CancelSwept
<1>4. CASE DrainResults  BY <1>4, DrainKeepsInv
<1>5. ASSUME NEW K \in MachineOutput, TickSucceeds(K) \/ TickFails(K) PROVE IInv'
  <2>1. K \in SUBSET Token /\ \A k, l \in K : k.id = l.id => k = l
    BY DEF MachineOutput
  <2>2. RootScope \in Scope /\ cancelled \subseteq Scope
    BY ScopeAssumption DEF IInv, TypeOK, RootScope
  <2>3. failed \in BOOLEAN /\ fault \in BOOLEAN
        /\ required_tick_mode \in {"Live", "RestoreContinuation"}
    BY <1>0 DEF TypeOK
  <2>4. CASE TickSucceeds(K)
    BY <2>1, <2>2, <2>3, <2>4, InsertKeepsInv DEF TickSucceeds, InsertOutputs
  <2>5. CASE TickFails(K)
    BY <2>1, <2>2, <2>3, <2>5, InsertKeepsInv DEF TickFails, InsertOutputs
  <2> QED  BY <1>5, <2>4, <2>5
<1> QED  BY <1>1, <1>2, <1>3, <1>4, <1>5 DEF TickStep

(* Nothing the World, its machines or another thread does breaks IInv.     *)
LEMMA NextKeepsInv == ASSUME IInv, [Next]_vars PROVE IInv'
<1>1. ASSUME NEW s \in Scope, CancelScope(s) PROVE IInv'  BY <1>1, CancelScopeKeepsInv
<1>2. CASE OwnerStep  BY <1>2, OwnerStepKeepsInv
<1>3. ASSUME NEW mode \in {"Live", "RestoreContinuation"}, BeginTick(mode) PROVE IInv'
  <2> USE <1>3 DEF BeginTick, worldVars, taskVars
  <2>1. TypeOK'  BY DEF IInv, TypeOK, Phase
  <2>2. SavedIsConsistent'
    BY DEF IInv, SavedIsConsistent, ValidQueue, TokenIds, ValidToken, HostToken
  <2> QED  BY <2>1, <2>2, QuietKeepsInv
<1>4. ASSUME NEW h \in 1 .. issued, NEW at \in Step, SubmitAwaitResult(h, at) PROVE IInv'
  BY <1>4, SubmitKeepsInv
<1>5. CASE TickStep  BY <1>5, TickStepKeepsInv
<1>6. CASE UNCHANGED vars
  <2> USE <1>6 DEF vars, worldVars, taskVars, tickVars
  <2>1. TypeOK'  BY DEF IInv, TypeOK
  <2>2. SavedIsConsistent'
    BY DEF IInv, SavedIsConsistent, ValidQueue, TokenIds, ValidToken, HostToken
  <2>3. CASE phase # "dropped"  BY <2>1, <2>2, <2>3, QuietKeepsInv
  <2>4. CASE phase = "dropped"
    <3>1. PendingHandleIsTracked'
      BY DEF IInv, PendingHandleIsTracked, Status, IsCancelled
    <3>2. /\ HandlesBelongToWorld' /\ TrackedHandleHasWait' /\ QueuedResultFromTrackedHandle'
          /\ OneTokenOneResult' /\ AcceptedCompletionMeetsItsToken'
          /\ (\A k \in pending : ValidToken(k))' /\ OneTerminalEventPerWait'
      BY DEF IInv, HandlesBelongToWorld, TrackedHandleHasWait, QueuedResultFromTrackedHandle,
             OneTokenOneResult, AcceptedCompletionMeetsItsToken, ValidToken,
             OneTerminalEventPerWait, HostToken, TokenIds
    <3> QED  BY <2>1, <2>2, <3>1, <3>2 DEF IInv
  <2> QED  BY <2>3, <2>4
<1> QED  BY <1>1, <1>2, <1>3, <1>4, <1>5, <1>6 DEF Next

(* IInv holds in every reachable state, for every set of tokens, every     *)
(* scope tree and every bound.                                             *)
THEOREM WorldInvariant == Spec => []IInv
BY InitInv, NextKeepsInv, PTL DEF Spec

(* The state of a World always has its type.                               *)
THEOREM TypeCorrect == Spec => []TypeOK
<1>1. IInv => TypeOK  BY DEF IInv
<1> QED  BY <1>1, WorldInvariant, PTL

(* A handle a worker sees as Pending is always the one the live World      *)
(* tracks: TaskRuntime::accepts can rely on it after any restore.          *)
THEOREM NoStalePendingHandle == Spec => []PendingHandleIsTracked
<1>1. IInv => PendingHandleIsTracked  BY DEF IInv
<1> QED  BY <1>1, WorldInvariant, PTL

(* TaskRuntime and AwaitQueue agree: tracked handles have pending waits,   *)
(* queued results have tracked handles, ids are unique.                    *)
THEOREM TasksAndQueueAgree ==
  Spec => [](TrackedHandleHasWait /\ QueuedResultFromTrackedHandle /\ OneTokenOneResult)
<1>1. IInv => TrackedHandleHasWait /\ QueuedResultFromTrackedHandle /\ OneTokenOneResult
  BY DEF IInv
<1> QED  BY <1>1, WorldInvariant, PTL

(* An accepted completion never produces a diagnostic that fails the World. *)
THEOREM AcceptedCompletionIsHarmless == Spec => []AcceptedCompletionMeetsItsToken
<1>1. IInv => AcceptedCompletionMeetsItsToken  BY DEF IInv
<1> QED  BY <1>1, WorldInvariant, PTL

(* Every wait gets exactly one terminal event or is still pending          *)
(* (AwaitQueue: submit_result, cancel, drain_ordered_results).             *)
THEOREM ExactlyOneTerminalEvent == Spec => []OneTerminalEventPerWait
<1>1. IInv => OneTerminalEventPerWait  BY DEF IInv
<1> QED  BY <1>1, WorldInvariant, PTL

(* What save writes, load accepts (AwaitQueue::validate).                  *)
THEOREM OwnSaveLoads == Spec => []SavedQueueLoads
<1>1. IInv => SavedQueueLoads
  BY DEF IInv, SavedQueueLoads, ValidQueue, OneTokenOneResult, QueuedResultFromTrackedHandle
<1> QED  BY <1>1, WorldInvariant, PTL

(* A step that stores no status and only adds cancelled scopes.            *)
LEMMA QuietStatusStep ==
  ASSUME IInv, cancelled \subseteq cancelled',
         \A h \in 1 .. issued : handles'[h] = handles[h] /\ status'[h] = status[h]
  PROVE  StatusStep
<1> SUFFICES ASSUME NEW h \in 1 .. issued
             PROVE  /\ Status(h) = "Completed" => Status(h)' = "Completed"
                    /\ Status(h) = "Cancelled" => Status(h)' = "Cancelled"
  BY DEF StatusStep
<1>1. handles'[h] = handles[h] /\ status'[h] = status[h]  OBVIOUS
<1>2. IsCancelled(handles[h].scope) => IsCancelled(handles[h].scope)'
  BY <1>1 DEF IsCancelled
<1> QED  BY <1>1, <1>2 DEF Status

(* Cancelling waits stores Cancelled, and only where nothing was stored.   *)
LEMMA CancelStatusStep ==
  ASSUME IInv, NEW T \in SUBSET TokenId, Finish(T, "Cancelled"),
         UNCHANGED <<handles, cancelled, issued>>
  PROVE  StatusStep
<1> SUFFICES ASSUME NEW h \in 1 .. issued
             PROVE  /\ Status(h) = "Completed" => Status(h)' = "Completed"
                    /\ Status(h) = "Cancelled" => Status(h)' = "Cancelled"
  BY DEF StatusStep
<1>1. status'[h] = IF \E t \in T : owner[t] = h THEN "Cancelled" ELSE status[h]
  BY DEF Finish
<1>2. (\E t \in T : owner[t] = h) => status[h] = "Pending"
  BY DEF IInv, TypeOK, TrackedHandleHasWait
<1>3. IsCancelled(handles[h].scope)' = IsCancelled(handles[h].scope)  BY DEF IsCancelled
<1> QED  BY <1>1, <1>2, <1>3 DEF Status

(* A drain completes a handle only with its own queued result.             *)
LEMMA DrainStatusStep == ASSUME IInv, DrainResults PROVE StatusStep
<1> DEFINE gone == {r.token : r \in Ready} \cup TokenIds(TimedOut)
<1> SUFFICES ASSUME NEW h \in 1 .. issued
             PROVE  /\ Status(h) = "Completed" => Status(h)' = "Completed"
                    /\ Status(h) = "Cancelled" /\ Status(h)' # "Cancelled" =>
                         \E r \in Ready : r.by = h
  BY DEF StatusStep, DrainResults
<1>1. status'[h] = IF \E t \in gone : owner[t] = h THEN "Completed" ELSE status[h]
  BY DEF DrainResults, Finish
<1>2. gone \subseteq TokenId
  BY DEF IInv, TypeOK, Ready, TimedOut, TokenIds, Token, Result
<1>3. IsCancelled(handles[h].scope)' = IsCancelled(handles[h].scope)
  BY DEF IsCancelled, DrainResults
<1>4. ASSUME NEW t \in gone, owner[t] = h
      PROVE  status[h] = "Pending" /\ \E r \in Ready : r.by = h
  <2>1. status[h] = "Pending" /\ HostToken(pending, t)
    BY <1>2, <1>4 DEF IInv, TypeOK, TrackedHandleHasWait
  <2>2. t \notin TokenIds(TimedOut)
    BY <2>1 DEF TokenIds, TimedOut, HostToken, IInv, OneTokenOneResult
  <2>3. PICK r \in Ready : r.token = t  BY <2>2
  <2>4. r.by = h  BY <1>4, <2>3 DEF Ready, IInv, QueuedResultFromTrackedHandle
  <2> QED  BY <2>1, <2>4
<1> HIDE DEF gone
<1>5. status'[h] # "Pending" => Status(h)' = status'[h]  BY DEF Status
<1> QED  BY <1>1, <1>3, <1>4, <1>5 DEF Status, DrainResults

(* No handle ever leaves Completed, and none leaves Cancelled except by a  *)
(* drain whose sweep it escaped: TaskRuntime::finish and TaskScope::cancel *)
(* race, and this is all the race can do to what a worker observes.        *)
THEOREM StatusIsFinal == Spec => TerminalStatusIsFinal
<1>1. ASSUME IInv, [Next]_vars PROVE [StatusStep]_vars
  <2> USE DEF worldVars, taskVars, tickVars
  <2>1. ASSUME NEW s \in Scope, CancelScope(s) PROVE StatusStep
    BY <1>1, <2>1, QuietStatusStep DEF CancelScope
  <2>2. ASSUME OwnerStep PROVE StatusStep
    <3>1. ASSUME NEW k \in Token, InsertAwaitToken(k) PROVE StatusStep
      BY <1>1, <3>1, QuietStatusStep DEF InsertAwaitToken
    <3>2. ASSUME NEW t \in TokenId, NEW s \in Scope, AwaitHandle(t, s) PROVE StatusStep
      <4>1. issued \in Nat  BY <1>1 DEF IInv, TypeOK
      <4>2. \A h \in 1 .. issued : handles'[h] = handles[h] /\ status'[h] = status[h]
        BY <3>2, <4>1 DEF AwaitHandle
      <4> QED  BY <1>1, <3>2, <4>2, QuietStatusStep DEF AwaitHandle
    <3>3. ASSUME NEW t \in TokenId, CancelAwait(t) PROVE StatusStep
      BY <1>1, <3>3, CancelStatusStep DEF CancelAwait
    <3>4. ASSUME Save \/ DropWorld PROVE StatusStep
      BY <1>1, <3>4, QuietStatusStep DEF Save, DropWorld
    <3>5. ASSUME NEW s, RestoreSnapshot(s) PROVE StatusStep
      BY <1>1, <3>5, QuietStatusStep DEF RestoreSnapshot
    <3>6. ASSUME Restore \/ Load PROVE StatusStep
      BY <3>5, <3>6 DEF Restore, Load
    <3> QED  BY <2>2, <3>1, <3>2, <3>3, <3>4, <3>6 DEF OwnerStep
  <2>3. ASSUME NEW mode \in {"Live", "RestoreContinuation"}, BeginTick(mode) PROVE StatusStep
    BY <1>1, <2>3, QuietStatusStep DEF BeginTick
  <2>4. ASSUME NEW h \in 1 .. issued, NEW at \in Step, SubmitAwaitResult(h, at)
        PROVE  StatusStep
    BY <1>1, <2>4, QuietStatusStep DEF SubmitAwaitResult
  <2>5. ASSUME TickStep PROVE StatusStep
    <3>1. ASSUME StartSweep \/ (\E t \in TokenId : ScanHandle(t)) PROVE StatusStep
      BY <1>1, <3>1, QuietStatusStep DEF StartSweep, ScanHandle
    <3>2. ASSUME CancelSwept PROVE StatusStep
      BY <1>1, <3>2, CancelStatusStep DEF CancelSwept, IInv, TypeOK
    <3>3. ASSUME DrainResults PROVE StatusStep  BY <1>1, <3>3, DrainStatusStep
    <3>4. ASSUME NEW K \in MachineOutput, TickSucceeds(K) \/ TickFails(K) PROVE StatusStep
      BY <1>1, <3>4, QuietStatusStep DEF TickSucceeds, TickFails
    <3> QED  BY <2>5, <3>1, <3>2, <3>3, <3>4 DEF TickStep
  <2> QED  BY <1>1, <2>1, <2>2, <2>3, <2>4, <2>5 DEF Next
<1> QED  BY <1>1, WorldInvariant, PTL DEF Spec, TerminalStatusIsFinal
-------------------------------------------------------------------------------
(* The queue: what one token and one result mean to the sweep *)

(* A token id is inserted once at a time and one result waits for it       *)
(* (AwaitQueue::insert, submit_result), through re-insertion and loads.    *)
THEOREM OneOfEach == Spec => []OneTokenOneResult
<1>1. IInv => OneTokenOneResult  BY DEF IInv
<1> QED  BY <1>1, WorldInvariant, PTL

(* A queued result is always that of the handle tracked now or one from a  *)
(* save without a handle (submit_await_result, await_handle): no result of *)
(* an earlier wait for the same token is delivered.                        *)
THEOREM ResultsComeFromTheirHandle == Spec => []QueuedResultFromTrackedHandle
<1>1. IInv => QueuedResultFromTrackedHandle  BY DEF IInv
<1> QED  BY <1>1, WorldInvariant, PTL

(* During the sweep a token found cancelled at its start is still to be    *)
(* scanned, with a handle that reads Cancelled, or has been swept.         *)
DoomedIsSwept ==
  phase = "sweep" =>
    \A t \in doomed :
      \/ t \in swept
      \/ t \in scan /\ owner[t] # NoHandle /\ Status(owner[t]) = "Cancelled"

(* A worker may cancel more scopes, and a cancelled handle stays so. *)
LEMMA CancelScopeKeepsDoomed ==
  ASSUME IInv, DoomedIsSwept, NEW s \in Scope, CancelScope(s)
  PROVE  DoomedIsSwept'
<1>1. \A h \in 1 .. issued : Status(h) = "Cancelled" => Status(h)' = "Cancelled"
  BY DEF CancelScope, Status, IsCancelled, taskVars
<1>2. \A t \in doomed : owner[t] # NoHandle => owner[t] \in 1 .. issued
  BY DEF IInv, TypeOK, TrackedHandleHasWait
<1> QED  BY <1>1, <1>2 DEF CancelScope, DoomedIsSwept, taskVars, tickVars

LEMMA ScanKeepsDoomed ==
  ASSUME DoomedIsSwept, NEW t \in TokenId, ScanHandle(t)
  PROVE  DoomedIsSwept'
<1>1. \A u \in TokenId : Status(owner[u])' = Status(owner[u])
  BY DEF ScanHandle, Status, IsCancelled, taskVars
<1>2. /\ phase' = phase /\ doomed' = doomed /\ owner' = owner
      /\ scan' = scan \ {t}
      /\ swept' = IF Status(owner[t]) = "Cancelled" THEN swept \cup {t} ELSE swept
  BY DEF ScanHandle, taskVars
<1>3. SUFFICES ASSUME phase = "sweep", NEW u \in doomed
               PROVE  \/ u \in swept'
                      \/ u \in scan' /\ owner[u] # NoHandle /\ Status(owner[u])' = "Cancelled"
  BY <1>2 DEF DoomedIsSwept
<1>4. CASE u \in swept  BY <1>2, <1>4
<1>5. CASE u \notin swept
  <2>1. u \in scan /\ owner[u] # NoHandle /\ Status(owner[u]) = "Cancelled"
    BY <1>3, <1>5 DEF DoomedIsSwept
  <2>2. CASE u = t  BY <1>2, <2>1, <2>2
  <2>3. CASE u # t
    <3>1. Status(owner[u])' = Status(owner[u])
      BY DEF ScanHandle, Status, IsCancelled, taskVars
    <3> QED  BY <1>2, <2>1, <2>3, <3>1
  <2> QED  BY <2>2, <2>3
<1> QED  BY <1>4, <1>5

(* What was swept has lost its wait and its queued result. *)
LEMMA SweptIsGone ==
  ASSUME IInv, DoomedIsSwept, CancelSwept
  PROVE  CancelledBeforeSweepIsGone'
<1> SUFFICES ASSUME NEW t \in doomed
             PROVE  t \notin TokenIds(pending') /\ ~ HasResult(completed', t)
  BY DEF CancelledBeforeSweepIsGone, CancelSwept
<1>1. t \in swept  BY DEF CancelSwept, DoomedIsSwept
<1>2. t \in TokenIds(pending) =>
        t \notin TokenIds(pending') /\ ~ HasResult(completed', t)
  BY <1>1 DEF CancelSwept, CancelTokens, TokenIds, HasResult
<1>3. t \notin TokenIds(pending) =>
        t \notin TokenIds(pending') /\ ~ HasResult(completed', t)
  <2> SUFFICES ASSUME t \notin TokenIds(pending)
               PROVE  t \notin TokenIds(pending') /\ ~ HasResult(completed', t)
    OBVIOUS
  <2>1. ~ HasResult(completed, t)
    BY DEF IInv, QueuedResultFromTrackedHandle, HostToken, HasResult, TokenIds
  <2> QED  BY <2>1 DEF CancelSwept, CancelTokens, TokenIds, HasResult
<1> QED  BY <1>2, <1>3

(* A scope cancelled before the sweep of a tick takes its wait and the     *)
(* wait's result away in that tick (TaskRuntime::cancelled, cancel_swept), *)
(* whatever other threads cancel while the handles are read one by one.    *)
THEOREM CancelledBeforeSweepGoes == Spec => []CancelledBeforeSweepIsGone
<1> DEFINE Inv == DoomedIsSwept /\ CancelledBeforeSweepIsGone
<1>1. Init => Inv  BY DEF Init, DoomedIsSwept, CancelledBeforeSweepIsGone
<1>2. IInv /\ Inv /\ [Next]_vars => Inv'
  <2> SUFFICES ASSUME IInv, Inv, [Next]_vars PROVE Inv'  OBVIOUS
  <2> USE DEF worldVars, taskVars, tickVars
  <2>1. ASSUME NEW s \in Scope, CancelScope(s) PROVE Inv'
    <3>1. DoomedIsSwept'  BY <2>1, CancelScopeKeepsDoomed
    <3>2. CancelledBeforeSweepIsGone'
      BY <2>1 DEF CancelScope, CancelledBeforeSweepIsGone
    <3> QED  BY <3>1, <3>2
  <2>2. ASSUME phase' \notin {"sweep", "drain"} PROVE Inv'
    BY <2>2 DEF DoomedIsSwept, CancelledBeforeSweepIsGone
  <2>3. ASSUME OwnerStep PROVE Inv'
    <3>1. phase' \in {"idle", "dropped"}
      BY <2>3 DEF OwnerStep, InsertAwaitToken, AwaitHandle, CancelAwait, Save, Restore, Load,
                  RestoreSnapshot, DropWorld, Active
    <3> QED  BY <2>2, <3>1
  <2>4. ASSUME NEW mode \in {"Live", "RestoreContinuation"}, BeginTick(mode) PROVE Inv'
    BY <2>2, <2>4 DEF BeginTick
  <2>5. ASSUME NEW h \in 1 .. issued, NEW at \in Step, SubmitAwaitResult(h, at) PROVE Inv'
    BY <2>2, <2>5 DEF SubmitAwaitResult
  <2>6. CASE StartSweep
    <3>1. \A t \in TokenId : Status(owner[t])' = Status(owner[t]) /\ owner'[t] = owner[t]
      BY <2>6 DEF StartSweep, Status, IsCancelled
    <3>2. \A t \in doomed' : t \in TokenId /\ owner[t] # NoHandle /\ Status(owner[t]) = "Cancelled" /\ t \in scan'
      BY <2>6 DEF StartSweep
    <3> QED  BY <2>6, <3>1, <3>2 DEF StartSweep, DoomedIsSwept, CancelledBeforeSweepIsGone
  <2>7. ASSUME NEW t \in TokenId, ScanHandle(t) PROVE Inv'
    <3>1. DoomedIsSwept'  BY <2>7, ScanKeepsDoomed
    <3>2. phase' = "sweep"  BY <2>7 DEF ScanHandle
    <3> QED  BY <3>1, <3>2 DEF CancelledBeforeSweepIsGone
  <2>8. CASE CancelSwept
    <3>1. phase' = "drain"  BY <2>8 DEF CancelSwept
    <3> QED  BY <2>8, <3>1, SweptIsGone DEF DoomedIsSwept
  <2>9. CASE DrainResults  BY <2>2, <2>9 DEF DrainResults
  <2>10. ASSUME NEW K \in MachineOutput, TickSucceeds(K) \/ TickFails(K) PROVE Inv'
    BY <2>2, <2>10 DEF TickSucceeds, TickFails
  <2>11. CASE UNCHANGED vars
    BY <2>11 DEF vars, DoomedIsSwept, CancelledBeforeSweepIsGone, Status, IsCancelled
  <2> QED  BY <2>1, <2>3, <2>4, <2>5, <2>6, <2>7, <2>8, <2>9, <2>10, <2>11 DEF Next, TickStep
<1>3. Inv => CancelledBeforeSweepIsGone  OBVIOUS
<1> QED  BY <1>1, <1>2, <1>3, WorldInvariant, PTL DEF Spec
===============================================================================
