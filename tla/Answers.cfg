SPECIFICATION Spec
CONSTANTS
  Documents = {d1, d2}
  MaxVersion = 2
  plain = plain
  mixed = mixed
  low = low
  high = high
  Contents = {plain, mixed}
  OldContent = plain
  Clients = {c1, c2}
  NoContent = NoContent
  Earlier = Earlier
  MaxFaults = 1
  DeepMaxRetrievalQueries = 2
  MaxTopK = 2
  TextsOf <- Chunking
  ValuesIn <- Stated
SYMMETRY Interchangeable
\* Requests and versions are bounded, and nobody has to ask.
CHECK_DEADLOCK FALSE
INVARIANTS
  ArtifactsKept
  NothingLeaks
  FoundOnce
  EvidenceWasActive
PROPERTIES
  ResolvedIsUncontradicted
