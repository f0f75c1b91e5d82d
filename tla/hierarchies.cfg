SPECIFICATION TraceSpec
CHECK_DEADLOCK FALSE
CONSTANTS
  Enc = {bit, byte}
  DefaultEnc = bit
  DerivedEncs = {bit}
  Strings = {a, bytesplit}
  Names = {a}
  SplitName = bytesplit
  Codecs = {"core"}
  Streams = {}
  Mixed = mixed
  BlockStreams = {}
  TxnIds = {}
  AuxKeys <- MCNoKeys
  MaxTime = 1
  ScopeGrouped = FALSE
  CanSeek = TRUE
  SetupFirst = TRUE
  MaxOpen = 1
  MaxBlocks = 1
  MaxRecs = 1
  MaxTypes = 2
  MaxSchemas = 0
  MaxHiers = 2
  MaxVars = 1
  MaxScopes = 0
  MaxAux = 0
  MaxDerived = 0
  MaxMeta = 0
  MaxFlushes = 0
  MaxEarly = 0
  MaxExt = 0
  Unread = unread
INVARIANTS TypesAgree
