SPECIFICATION Spec
CONSTANTS
  Runs = {r1, r2}
  Checkouts = {c1, c2}
  None = None
  MaxOddities = 2
  MaxFaults = 1
  Packs <- SomePacks
  Drafts <- SomeDrafts
INVARIANTS OkIsThisRun RefusalIsEarned EvidenceIsOwn
SYMMETRY Symmetry
CHECK_DEADLOCK FALSE
