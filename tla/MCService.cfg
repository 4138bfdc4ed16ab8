CONSTANTS
  a = a
  b = b
  x = x
  Var = {a, b}
  NoVar = NoVar
  NameLen <- MCNameLen
  NameRank <- MCNameRank
  TaNameSize <- MCTaNameSize
  Tag = {0}
  StoreMax = 2
  Fault <- MCFault
  PcdMaxSize = 13
  Word = 256
  HalfWord = 64
  HookVar = {b}
  SessionId = {s1}
  NoSession = NoSession
  Size <- FewSizes
  AttrSet <- MCServiceAttrs
  NullPointer = {"None"}
  NextNull = {"None", "Size"}
SPECIFICATION Spec
PROPERTIES
  RetryFits
  ServiceSpec
