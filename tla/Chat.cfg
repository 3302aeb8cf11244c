SPECIFICATION ChatSpec
CONSTANTS
  Requests = {c1, c2}
  MaxCalls = 3
  MaxFaults = 2
  Budget = 5
  Tokens <- TokensOf
  Limit = 3
  Facts = {"os"}
  Values = {v1, v2}
  Runs = {r1, r2}
  User = User
  MaxRows = 4
\* The bounds on requests and faults are used up.
CHECK_DEADLOCK FALSE
SYMMETRY Interchangeable
INVARIANTS
  RecallIsConfirmed
  NothingForgotten
  PromptWithinBudget
