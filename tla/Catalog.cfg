SPECIFICATION CatalogSpec
CONSTANTS
  a = a
  u1 = u1
  s1 = s1
  s2 = s2
  Cases = {a, b}
  Users = {u1}
  Sessions = {s1, s2}
  User <- SameUser
  Keys = {k1, k2, k3}
  LegacyCase = a
  MaxReviews = 3
  MaxExpected = 1
  Nothing = Nothing
  Executors = {e1, e2}
  StepCount = 2
  Gated = {1}
  MaxRuns = 1
SYMMETRY CatalogSymmetry
\* The rows and the runs are bounded, and an upgraded row closes a workbench.
CHECK_DEADLOCK FALSE
INVARIANTS
  ReviewsApplyOnce
  SealWasApproved
  LockHasOneHolder
  EvidenceValidates
