CONSTANTS
  a = a
  bin = bin
  h = h
  Var = {a, bin, h}
  NoVar = NoVar
  TestBinVar = bin
  HelloWorld <- MCHelloWorld
  CHAR16_SIZE = 4
  NameLen <- MCNameLen
  NameRank <- MCNameRank
  TaNameSize <- MCTaNameSize
  Tag = {0}
  StoreMax = 4
  Fault <- MCFault
  PcdMaxSize = 40
  Word = 256
  HalfWord = 128
  HookVar = {h}
  SessionId = {s1}
  NoSession = NoSession
  Size = {1, 4}
  AttrSet <- MCAttrSet
  NullPointer = {"None"}
  NextNull = {"None"}
SPECIFICATION SpecT
INVARIANTS
  TypeOKC
  WithinBlock
  SuccessIsDone
  BinReadsBack
  ChainVisitsAll
PROPERTIES
  CommandEnds
CHECK_DEADLOCK FALSE
