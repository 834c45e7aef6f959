SPECIFICATION Spec
CONSTANTS
  Roots = {A, B}
  MaxOps = 2
  MaxPlans = 2
  MaxAttempts = 2
  MaxEdits = 1
  MaxHands = 0
  MaxVersion = 1
SYMMETRY RootSymmetry
INVARIANTS TypeOK OneAtATime PlanFollowsOperation JobServesOperation LocationHoldsFolder CopyLeavesNoSource
CHECK_DEADLOCK FALSE
