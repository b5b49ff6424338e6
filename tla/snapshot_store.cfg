SPECIFICATION FairSpec
CONSTANTS
  Actors = {"update", "retention"}
  NFiles = 2
  MaxFaults = 3
INVARIANTS ArchiveIsDurable DataIsWhole Exclusive
PROPERTIES RestoreConverges PruneConverges
CHECK_DEADLOCK FALSE
