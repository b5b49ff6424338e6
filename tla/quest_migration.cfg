SPECIFICATION FairSpec
CONSTANTS
  NFiles = 2
  Moved = {2}
  Roots = {a, b}
  First = a
  Nobody = Nobody
  MaxFaults = 1
  MaxChanges = 1
INVARIANTS ContentKept ReturnsMigrated
PROPERTIES MigrationConverges
CHECK_DEADLOCK FALSE
