SPECIFICATION PayloadSpec
CHECK_DEADLOCK FALSE
CONSTANTS
  Parts = {"txn"}
  Half = 4
  Layouts = {"row", "auto", "adaptive"}
  AutoMin = 2
  FieldLists <- MCFieldLists
  TxnTypes = {1}
  RecIds = {1, 3}
  Spans <- MCSpans
  AttrLists <- MCSparseAttrs
  MaxTxnRecs = 2
  MaxTxnTypes = 1
  Signatures <- MCSignatures
  ArgValues <- MCArgValues
  CallTimes = {0, 2}
  WindowSize = 2
  MaxEvents = 4
  NoReturn = 99
  Returns <- MCReturns
  WaveTypes <- MCWaveTypes
  WaveValues <- MCWaveValues
  WaveTimes = {0, 1, 2, 3}
  WaveStart = 1
  WaveCodecs = {"core", "split"}
  ByteBits = 2
  MaxWaveChanges = 3
  HierNames = {1}
  HierAttrs = {1}
  MaxHierNodes = 4
  MaxHierAttrs = 2
  Inputs = 2
  Constants <- MCConstants
  Amounts = {1}
  OutWidths = {0, 2}
  InputValues <- MCInputValues
  InputTimes = {0, 1}
  TopBit = 8
  WordBits = 8
  MaxExprNodes = 3
  MaxInputChanges = 3
  MetaKeys = {1, 2}
  ProfileKey = 1
  MetaValues <- MCMetaValues
  Profiles = {5, 6}
  StreamCodecs <- MCStreamCodecs
  EnumValues <- MCEnumValues
  MaxRegCalls = 4
INVARIANTS AttrsReadBack
