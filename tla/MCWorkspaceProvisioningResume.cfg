SPECIFICATION Spec
CONSTANTS
  Cases = {c}
  Agents = {a}
  Person = Person
  Nobody = Nobody
  MaxPath = 1
  MaxSub = 1
  MaxAttempts = 1
  MaxHands = 0
INVARIANTS PartialFolderIsResumable
CHECK_DEADLOCK FALSE
