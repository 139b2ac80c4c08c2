\* Groups of up to three members, restored once.
SPECIFICATION Spec
CONSTANTS
  MaxMembers = 3
  MaxGroups = 2
INVARIANTS
  ProgressIsConsistent
  OwnSnapshotRestores
  DamageIsRefused
  AcceptedAsPromised
  EndedMembersAreCancelled
