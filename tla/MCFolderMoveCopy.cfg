SPECIFICATION Spec
CONSTANTS
  Agents = {a}
  NoAgent = NoAgent
  MaxAttempts = 2
  MaxEdits = 1
SYMMETRY AgentSymmetry
INVARIANTS ReadyLeavesNoSource
CHECK_DEADLOCK FALSE
