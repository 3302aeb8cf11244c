SPECIFICATION CollaborationSpec
CONSTANTS
  plain = plain
  dirty = dirty
  void = void
  signal = signal
  Documents = {plain, dirty, void}
  Reports = {signal}
  Void = {void}
  Cleanings <- CleaningsOf
  Objectives = {"ask"}
  MaxRounds = 4
  MaxDelegations = 3
INVARIANTS
  AnswerIsEarned
  EvidenceCountedOnce
  AdmittedIsAnswered
