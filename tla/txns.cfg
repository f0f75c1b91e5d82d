SPECIFICATION TraceSpec
CHECK_DEADLOCK FALSE
CONSTANTS
  Enc = {bit}
  DefaultEnc = bit
  DerivedEncs = {bit}
  Strings = {a, bytesplit}
  Names = {a}
  SplitName = bytesplit
  Codecs = {}
  Streams = {s1, s2}
  Mixed = mixed
  BlockStreams = {s1, s2}
  TxnIds = {1}
  AuxKeys <- MCNoKeys
  MaxTime = 1
  ScopeGrouped = FALSE
  CanSeek = TRUE
  SetupFirst = TRUE
  MaxOpen = 1
  MaxBlocks = 2
  MaxRecs = 2
  MaxTypes = 0
  MaxSchemas = 0
  MaxHiers = 0
  MaxVars = 0
  MaxScopes = 0
  MaxAux = 0
  MaxDerived = 0
  MaxMeta = 0
  MaxFlushes = 1
  MaxEarly = 0
  MaxExt = 0
  Unread = unread
INVARIANTS StreamComplete TxnIndexCovers
PROPERTY ImplementsStore
