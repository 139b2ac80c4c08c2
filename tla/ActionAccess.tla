----------------------------- MODULE ActionAccess -----------------------------
(***************************************************************************)
(* What actions declare that they read and write, and when two             *)
(* declarations overlap.  Blackboard keys stand for all data: the actor    *)
(* store and its component schemas overlap in the same way.                *)
(***************************************************************************)
EXTENDS Integers

CONSTANTS
  Key,       \* keys of the blackboard
  Provider   \* providers of actions

(* A key is not mistaken for all of them, nor for the source of ids. *)
ASSUME KeysAreNoClass == Key \cap {"Blackboard", "StableIdSource"} = {}

Resource == Key \cup {"Blackboard", "StableIdSource"}

(* resource_keys_overlap: symmetric, so a part overlaps its whole. *)
Overlap(l, r) ==
  \/ l = r
  \/ l = "Blackboard" /\ r \in Key
  \/ l \in Key /\ r = "Blackboard"

SetsConflict(left, right) == \E l \in left, r \in right : Overlap(l, r)

(* resource_is_declared uses the same relation. *)
IsDeclared(declared, observed) == \E d \in declared : Overlap(d, observed)

(* A registered action: its provider, what its descriptor declares (class, *)
(* reads, writes, reservation) and what it does: the keys its result       *)
(* depends on, the keys it sets, the ids it draws, whether it fails.       *)
RegisteredAction ==
  [provider : Provider,
   class : {"serial", "parallel_pure", "parallel_transactional"},
   reads : SUBSET Resource, writes : SUBSET Resource, reservation : 0 .. 1,
   uses : SUBSET Key, sets : SUBSET Key, ids : 0 .. 1, fails : BOOLEAN]

(* What register_with_provider accepts *)
ValidDescriptor(a) ==
  /\ a.class = "parallel_pure" => a.writes = {} /\ a.reservation = 0
  /\ (a.reservation > 0) <=> ("StableIdSource" \in a.writes)

(* The plan of a machine: whether it must run alone, and its access. *)
AccessPlan == [serial : BOOLEAN, reads : SUBSET Resource, writes : SUBSET Resource]

(* Mutants: one of the clauses forgotten. *)
AccessConflictsNoWriteWrite(left, right) ==
  \/ left.serial
  \/ right.serial
  \/ SetsConflict(left.writes, right.reads)
  \/ SetsConflict(left.reads, right.writes)

AccessConflictsNoReadWrite(left, right) ==
  \/ left.serial
  \/ right.serial
  \/ SetsConflict(left.writes, right.writes)
  \/ SetsConflict(left.writes, right.reads)

AccessConflicts(left, right) ==
  \/ left.serial
  \/ right.serial
  \/ SetsConflict(left.writes, right.writes)
  \/ SetsConflict(left.writes, right.reads)
  \/ SetsConflict(left.reads, right.writes)
===============================================================================
