SPECIFICATION Spec
CONSTANTS
  Agents = {a, b}
  NoAgent = NoAgent
  MaxAttempts = 2
  MaxEdits = 2
SYMMETRY AgentSymmetry
INVARIANTS TypeOK NothingLost NeverHalfPublished EditsReachDestination
PROPERTIES SwitchesToTheFolder
CHECK_DEADLOCK FALSE
