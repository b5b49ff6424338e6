SPECIFICATION Spec
CONSTANTS
  N = 2
  Edits = {e1, e2}
  e1 = e1
  e2 = e2
  MaxErrors = 1
  MaxInterrupts = 1
  Corrections = 8
SYMMETRY EditSymmetry
INVARIANTS NoEditHidden AllOrNothing TornIsVisible InterruptedIsVisible
CHECK_DEADLOCK FALSE
