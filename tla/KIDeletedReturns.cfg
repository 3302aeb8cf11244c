SPECIFICATION Spec
CONSTANTS
  d1 = d1
  Docs = {d1}
  MaxVersion = 1
  Workers = {w1}
  MaxAttempts = 3
  MaxCopies = 2
  MaxFaults = 1
  BadContent <- NoneIsBad
  NoJob = NoJob
\* Everything requested may be finished: the system then waits for requests.
CHECK_DEADLOCK FALSE
PROPERTIES
  DeletedStaysDeleted
