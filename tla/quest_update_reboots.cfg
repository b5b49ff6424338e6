SPECIFICATION Spec
CONSTANTS
  Prior = prior
  Candidate = candidate
  MaxProgress = 1
  MaxKills = 1
  MaxReboots = 2
  MaxErrors = 1
INVARIANTS IngressClosed QuarantineHolds UnmutatedIsPrior
CHECK_DEADLOCK FALSE
