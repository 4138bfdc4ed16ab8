CONSTANTS
  a = a
  b = b
  c = c
  d = d
  Var = {a, b, c, d}
  NoVar = NoVar
  CHAR16_SIZE = 4
  NameLen <- MCNameLen
  NameRank <- MCNameRank
  TaNameSize <- MCTaNameSize
  Tag = {0}
  StoreMax = 1
  Fault <- MCFault
  PcdMaxSize = 40
  Word = 256
  HalfWord = 128
  HookVar = {}
  SessionId = {s1}
  NoSession = NoSession
  Size = {}
  AttrSet = {}
  NullPointer = {"None"}
  NextNull = {"None"}
SPECIFICATION SpecE
INVARIANTS
  FoundIfStored
  AllVisited
  NameFitsBuffer
PROPERTIES
  NoneTwice
  EnumerationEnds
CHECK_DEADLOCK FALSE
