SPECIFICATION Spec
CONSTANTS
  MaxRetained = 2
  WritesFail = FALSE
INVARIANTS RetentionBounded Deletable
