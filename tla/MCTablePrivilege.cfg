CONSTANTS
  Models = {"a", "b"}
  Named = {"a"}
  Fields = {"f"}
  MaxMigrations = 2
  MaxOps = 4
  MaxIrregular = 1
SPECIFICATION Spec
INVARIANTS
  GrantsMatchTables
  RunningAgainLocksNothing
  OneFaultOneTable
CHECK_DEADLOCK FALSE
