SPECIFICATION Spec
CONSTANTS
  Files <- FileNames
  Suffix <- SuffixOf
  ItemAudit = "audit"
  Trees <- AllTrees
  Drafts <- AllDrafts
  Metas <- MetaSets
  Authentic <- AuthenticCode
  Duplicates <- ReviewedDuplicates
  None = None
  MaxDepth = 3
  MaxMembers = 2
  MaxTotalMembers = 3
  MaxSize = 2
  MaxExpanded = 3
  MaxTotalExpanded = 4
  MaxOccurrences = 4
  MaxCode = 2
  MaxWrites = 2
INVARIANTS AcceptedAsReviewed RefusedForCause
CHECK_DEADLOCK FALSE
