SPECIFICATION Spec
CONSTANTS
  Cases = {c, d}
  Agents = {a, b}
  Person = Person
  Nobody = Nobody
  MaxPath = 2
  MaxSub = 1
  MaxAttempts = 1
  MaxHands = 1
SYMMETRY Symmetry
INVARIANTS TypeOK OneOwner PlanFollowsJob PublishesOwnFolder
PROPERTIES AssignmentWins
CHECK_DEADLOCK FALSE
