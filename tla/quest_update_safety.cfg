SPECIFICATION FairSpec
CONSTANTS
  Prior = prior
  Candidate = candidate
  MaxProgress = 2
  MaxKills = 1
  MaxReboots = 0
  MaxErrors = 1
INVARIANTS WayBack TerminalIsProven
PROPERTIES GateOpensOnProvenWorld Implements EveryTransactionResolves
CHECK_DEADLOCK FALSE
