CONSTANTS
  a = a
  b = b
  x = x
  Var = {a, b, x}
  NoVar = NoVar
  NameLen <- MCNameLen
  NameRank <- MCNameRank
  TaNameSize <- MCTaNameSize
  Tag = {0}
  StoreMax = 2
  Fault <- MCFault
  PcdMaxSize = 13
  Word = 256
  HalfWord = 64
  HookVar = {b}
  SessionId = {s1, s2}
  NoSession = NoSession
  Size <- MCSize
  AttrSet <- MCFewAttrs
  NullPointer <- MCNullPointer
  NextNull <- MCNextNull
SPECIFICATION SpecCareless
INVARIANTS
  TypeOK
  TransportBounds
  CallerBounds
  NameAsSent
  ServicesUsable
  ReadableBack
SYMMETRY Sessions
