SPECIFICATION Spec
CONSTANTS
  Signals <- MCSignals
  ScopeOf <- MCScopeOf
  Values = {lo, hi}
  Scopes <- MCScopes
  FlushInterval = 3
  Limits = {0, 32}
  MaxTime = 1
  MaxSynchs = 3
  MaxTasks = 2
INVARIANTS TimesInOrder RepeatedBySynch LastRecorded MarkedIsScheduled BufferBounded
PROPERTIES Kept NothingWhilePaused
SYMMETRY MCSymmetry
CHECK_DEADLOCK FALSE
