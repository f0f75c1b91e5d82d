SPECIFICATION TraceSpec
CHECK_DEADLOCK FALSE
CONSTANTS
  Enc = {bit}
  DefaultEnc = bit
  DerivedEncs = {bit}
  Strings = {a, bytesplit}
  Names = {a}
  SplitName = bytesplit
  Codecs = {"core"}
  Streams = {}
  Mixed = mixed
  BlockStreams = {}
  TxnIds = {}
  AuxKeys <- MCNoKeys
  MaxTime = 1
  ScopeGrouped = FALSE
  CanSeek = TRUE
  SetupFirst = TRUE
  MaxOpen = 2
  MaxBlocks = 2
  MaxRecs = 2
  MaxTypes = 1
  MaxSchemas = 0
  MaxHiers = 1
  MaxVars = 1
  MaxScopes = 0
  MaxAux = 0
  MaxDerived = 0
  MaxMeta = 0
  MaxFlushes = 0
  MaxEarly = 0
  MaxExt = 0
  Unread = unread
INVARIANTS NothingLost
