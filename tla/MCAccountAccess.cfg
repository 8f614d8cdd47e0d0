CONSTANTS
  w1 = w1
  w2 = w2
  alice = alice
  n1 = n1
  n2 = n2
  p = p
  q = q
  Workers = {w1, w2}
  Accounts = {alice}
  Names = {n1, n2}
  PermissionSets <- Permissions
  Perm = p
  MaxGroups = 2
SPECIFICATION Spec
SYMMETRY Symmetry
INVARIANTS
  TypeOK
PROPERTIES
  OnlyOvertakenMisses
  OnlyRenamedRefuses
  RolesLostOnlyByEmptying
  AllowedOnlyIfGiven
