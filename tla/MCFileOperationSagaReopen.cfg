SPECIFICATION Spec
CONSTANTS
  Roots = {A, B}
  MaxOps = 2
  MaxPlans = 2
  MaxAttempts = 1
  MaxEdits = 1
  MaxHands = 0
  MaxVersion = 1
SYMMETRY RootSymmetry
INVARIANTS ReopenLeavesArchive
CHECK_DEADLOCK FALSE
