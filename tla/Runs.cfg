SPECIFICATION Spec
CONSTANTS
  Requests = {r1, r2}
  Commands = {c1, c2}
  MaxIterations = 5
  Timeout = 1
  MaxTime = 2
  MaxFaults = 1
  None = None
SYMMETRY RequestSymmetry
\* The clock and the faults are bounded, and nobody has to send a request.
CHECK_DEADLOCK FALSE
INVARIANTS
  ResumeAppliesOnce
  AckedIsOver
  PausesAreFree
  NobodyGivesUp
PROPERTIES
  LifecycleKept
