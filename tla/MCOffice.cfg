CONSTANTS
  Parts = {"text", "analysis", "ai", "accounts", "fees", "mail", "loss", "registry", "duplicates", "photos", "tramer", "tracking"}
  Agents = {ag}
  Nobody = Nobody
  Documents <- PdfsRead
  MaxAttempts = 2
  MaxFaults = 2
  a1 = a1  a2 = a2  r1 = r1  c1 = c1  c2 = c2  c3 = c3  u1 = u1  u2 = u2
  p1 = p1  e1 = e1  q1 = q1  q2 = q2  s1 = s1  f1 = f1  f2 = f2  f3 = f3
  k1 = k1  k2 = k2  k3 = k3  d1 = d1  x1 = x1  m1 = m1  w1 = w1  w2 = w2  Nothing = Nothing
  Users = {u1, u2}  Requests = {q1, q2}  Cases = {c1}  FileAgents = {a1, a2}  Places = {p1, q1}
  MaxVersions = 2  MaxMoves = 1
  Analyses = {a1, a2}  Policies = {"d1"}  Reviewed = {r1}  Candidates <- Pair
  SourceOf <- OneSource  Disputes <- OneDispute  Approvers = {u1}  Written <- CompleteDraft  MaxReviews = 1
  Runs = {p1, e1}  ModuleOf <- Modules  Estimate <- OneEach  Budget = 1  Months = 2
  Addresses = {u1}  Subjects = {s1}  Flows = {f1}  MaxFailed = 2  MaxPasswords = 2
  Reports = {d1}  Keys = {k1, k2, k3}  MaxFeeVersions = 3
  Attachments = {x1}  Drafts = {m1}  MaxHandoffs = 1  MaxRuns = 1  MaxEdits = 1  MaxFacts = 1
  KnownCases = {c1, c2, c3}  Folders = {f1, f2, f3}  Paths = {p1, k1, e1}  Kapali = {k1}  MaxHands = 2
  Uploads = {w1, w2}  Image <- Pictures  Pieces = 1  MaxName = 3  MaxUploads = 1  MaxForeign = 1
  Inquiries = {q1, q2}  Numbers = {k1}  Messages = {m1, x1}  Contents <- Answers
  Rows = {d1, x1}  Hashes = {f1, f2}  MaxFileEdits = 1  MaxRev = 2
SPECIFICATION MCSpec
INVARIANT OfficeTypeOK RowFollowsJob ActivePolicyIsCurrent CallsArePaidOnce RecordsAreTrue SessionsAreEarned
PROPERTY SettlesAsOneAttempt DecidedAsShown LockRunsItsTime AnsweredAsBefore ValueStaysInForce CasesFollowFolders MovesAreFollowed MissingWasAway
CHECK_DEADLOCK FALSE
