SPECIFICATION FeedbackSpec
CONSTANTS
  t = t
  f = f
  a = a
  i = i
  e1 = e1
  e2 = e2
  x1 = x1
  x2 = x2
  Samples = {t, f, a}
  Incidents = {i}
  Handlers = {e1, e2, x1, x2}
  Serves <- Queues
  MaxAttempts = 2
  MaxFaults = 3
  MaxJobs = 1
  NoJob = NoJob
  Origin <- Origins
  Buffer = 1
  Reason <- ReasonOf
  Miners = {m1}
  MaxCycles = 2
  NoCycle = NoCycle
  Clients = {c1, c2}
  Keys = {k1, k2}
  Hypotheses = {h1, h2}
  Nothing = Nothing
\* Everything was reported, evaluated and mined.
CHECK_DEADLOCK FALSE
INVARIANTS
  NothingStranded
  MinedIsFinal
  ConfirmedIsStored
PROPERTY
  WorkSettles
