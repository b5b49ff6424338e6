SPECIFICATION Spec
CONSTANTS
  Workers = {1}
  MaxOddities = 1
INVARIANTS OnlyReviewedBoots ReviewedBootsPass
CHECK_DEADLOCK FALSE
