SPECIFICATION FairSpec
CONSTANTS
  Agents = {a1}
  Documents = {d1}
  Locations = {l1}
  MaxAttempts = 2
  MaxVersion = 2
  MaxReports = 2
  Nobody = Nobody
INVARIANTS TypeOK SettleTogether VerifiedWasObserved
PROPERTIES SettledForGood EveryJobSettles
CHECK_DEADLOCK FALSE
