SPECIFICATION Spec
CONSTANTS
  Roots = {A, B}
  MaxOps = 1
  MaxPlans = 1
  MaxAttempts = 1
  MaxEdits = 1
  MaxHands = 0
  MaxVersion = 1
SYMMETRY RootSymmetry
INVARIANTS CancelledWasNotApplied
CHECK_DEADLOCK FALSE
