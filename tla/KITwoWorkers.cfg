SPECIFICATION FairSpec
CONSTANTS
  d1 = d1
  Docs = {d1}
  MaxVersion = 1
  Workers = {w1, w2}
  MaxAttempts = 2
  MaxCopies = 3
  MaxFaults = 1
  BadContent <- NoneIsBad
  NoJob = NoJob
\* Everything requested may be finished: the system then waits for requests.
CHECK_DEADLOCK FALSE
INVARIANTS
  NoSilentLoss
PROPERTIES
  EventuallySettledOrDead
