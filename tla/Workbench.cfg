SPECIFICATION WorkbenchSpec
CONSTANTS
  a = a
  b = b
  u1 = u1
  s1 = s1
  s2 = s2
  Cases = {a, b}
  Users = {u1}
  Sessions = {s1, s2}
  User <- SameUser
  Keys = {k1, k2, k3}
  LegacyCase = a
  CaseOrder <- AThenB
  MaxReviews = 3
  MaxExpected = 2
  Nothing = Nothing
\* The rows are bounded, and so are the keys.
CHECK_DEADLOCK FALSE
INVARIANTS
  EachCaseIsAcknowledged
