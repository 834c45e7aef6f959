SPECIFICATION FairSpec
CONSTANTS
  Roots = {A, B}
  MaxOps = 1
  MaxPlans = 1
  MaxAttempts = 2
  MaxEdits = 2
  MaxHands = 1
  MaxVersion = 2
INVARIANT AssignmentsStand
PROPERTIES StatusFollowsFolder ApprovedPlanEnds
CHECK_DEADLOCK FALSE
