SPECIFICATION TraceSpec
CHECK_DEADLOCK FALSE
CONSTANTS
  Enc = {bit}
  DefaultEnc = bit
  DerivedEncs = {bit}
  Strings = {a, bytesplit}
  Names = {a}
  SplitName = bytesplit
  Codecs = {}
  Streams = {}
  Mixed = mixed
  BlockStreams = {}
  TxnIds = {}
  AuxKeys <- MCTwoKeys
  MaxTime = 1
  ScopeGrouped = FALSE
  CanSeek = TRUE
  SetupFirst = TRUE
  MaxOpen = 1
  MaxBlocks = 0
  MaxRecs = 0
  MaxTypes = 1
  MaxSchemas = 1
  MaxHiers = 2
  MaxVars = 1
  MaxScopes = 0
  MaxAux = 2
  MaxDerived = 1
  MaxMeta = 1
  MaxFlushes = 0
  MaxEarly = 0
  MaxExt = 1
  Unread = unread
INVARIANTS StringsResolve PathsAgree AuxReadsBack HeaderPoints
