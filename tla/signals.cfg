SPECIFICATION TraceSpec
CHECK_DEADLOCK FALSE
CONSTANTS
  Enc = {bit, byte}
  DefaultEnc = bit
  DerivedEncs = {bit}
  Strings = {a, bytesplit}
  Names = {a}
  SplitName = bytesplit
  Codecs = {"core"}
  Streams = {}
  Mixed = mixed
  BlockStreams = {}
  TxnIds = {}
  AuxKeys <- MCNoKeys
  MaxTime = 0
  ScopeGrouped = TRUE
  CanSeek = TRUE
  SetupFirst = TRUE
  MaxOpen = 1
  MaxBlocks = 1
  MaxRecs = 2
  MaxTypes = 2
  MaxSchemas = 0
  MaxHiers = 1
  MaxVars = 2
  MaxScopes = 1
  MaxAux = 0
  MaxDerived = 1
  MaxMeta = 0
  MaxFlushes = 0
  MaxEarly = 0
  MaxExt = 0
  Unread = unread
INVARIANTS TypeOK TypesAgree StringsResolve
PROPERTY ImplementsStore
