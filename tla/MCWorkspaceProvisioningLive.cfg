SPECIFICATION FairSpec
CONSTANTS
  Cases = {c}
  Agents = {a, b}
  Person = Person
  Nobody = Nobody
  MaxPath = 2
  MaxSub = 1
  MaxAttempts = 2
  MaxHands = 2
INVARIANTS MarkersOnlyInOwn
PROPERTIES ProvisioningEnds
CHECK_DEADLOCK FALSE
