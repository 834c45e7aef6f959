CONSTANTS
  r1 = r1  c1 = c1  c2 = c2  a1 = a1  u1 = u1
  Analyses = {a1}
  Documents = {"d1"}
  Runs = {r1}
  Candidates = {c1, c2}
  SourceOf <- Bundles
  Disputes <- Pairs
  Users = {u1}
  Drafts <- Disputed
  MaxVersions = 2
  MaxReviews = 1
SPECIFICATION Spec
INVARIANT ResolvedVersionAwaitsApproval
CHECK_DEADLOCK FALSE
