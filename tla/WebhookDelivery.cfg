SPECIFICATION DetectionFair
CHECK_DEADLOCK FALSE
CONSTANTS
  k1 = k1
  d1 = d1 d2 = d2
  Keys = {k1}
  Dispatchers = {d1, d2}
  MaxAttempts = 3
  MaxBatch = 7
  MaxEnabled = 0
  MaxFixture = 2
  MaxFaults = 1
  Fixture = Fixture
  Nothing = Nothing
  Values = {0, 2, 3}
  Sparse = {3}
  Warning = 2
  Critical = 1
  Consecutive = 2
  MinWindow = 2
  WindowSize = 2
  ZThreshold = 3
INVARIANTS
  QueueTellsIncident
  DeliveredIsReceived
  AttemptsBounded
  SilenceIsNotRecovery
PROPERTIES
  FinalIsFinal
  EverythingEnds
