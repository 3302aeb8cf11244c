SPECIFICATION FairSpec
CONSTANTS
  d1 = d1
  Docs = {d1}
  MaxVersion = 3
  Workers = {w1}
  MaxAttempts = 2
  MaxCopies = 3
  MaxFaults = 2
  BadContent <- ThirdIsBad
  NoJob = NoJob
\* Everything requested may be finished: the system then waits for requests.
CHECK_DEADLOCK FALSE
INVARIANTS
  ActiveIsServed
  DeletedIsErased
PROPERTIES
  CurrentNeverRegresses
  IndexImplemented
  EventuallySettledOrDead
