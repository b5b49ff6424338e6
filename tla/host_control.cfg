SPECIFICATION FairSpecUpToExchange
CONSTANTS
  r1 = r1
  r2 = r2
  r3 = r3
  Releases <- ThreeReleases
  Corpus <- TwoCorpora
  NoRelease = none
  NoTree = absent
  MaxItems = 1
  MaxArchives = 2
  MaxCheckouts = 1
  MaxRollbacks = 1
  MaxFaults = 2
INVARIANTS EarnedIsKept MarkerIsProven BackupIsFresh RunsWhatIsMarked
PROPERTIES QuestsProtected UnresolvedIsAlone CommandsEnd
CHECK_DEADLOCK FALSE
