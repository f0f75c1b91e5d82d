SPECIFICATION TraceSpec
CHECK_DEADLOCK FALSE
CONSTANTS
  Enc = {bit}
  DefaultEnc = bit
  DerivedEncs = {bit}
  Strings = {a, b, bytesplit}
  Names = {a, b}
  SplitName = bytesplit
  Codecs = {}
  Streams = {}
  Mixed = mixed
  BlockStreams = {}
  TxnIds = {}
  AuxKeys <- MCNoKeys
  MaxTime = 1
  ScopeGrouped = FALSE
  CanSeek = TRUE
  SetupFirst = TRUE
  MaxOpen = 1
  MaxBlocks = 0
  MaxRecs = 0
  MaxTypes = 1
  MaxSchemas = 0
  MaxHiers = 1
  MaxVars = 1
  MaxScopes = 0
  MaxAux = 0
  MaxDerived = 0
  MaxMeta = 0
  MaxFlushes = 2
  MaxEarly = 0
  MaxExt = 0
  Unread = unread
INVARIANTS StringsResolve
