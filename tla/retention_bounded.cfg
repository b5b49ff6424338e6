SPECIFICATION Spec
CONSTANTS
  MaxRetained = 2
  WritesFail = TRUE
INVARIANT RetentionBounded
