CONSTANTS
  PK = PK
  SetupModeVar = SetupMode
  SecureBootEnableVar = SecureBootEnable
  SecureBootVar = SecureBoot
  CustomModeVar = CustomMode
  Var = {PK, SetupMode, SecureBootEnable, SecureBoot, CustomMode}
  NoVar = NoVar
  PcdSecureBootEnable = 0
  NameLen <- MCNameLen
  NameRank <- MCNameRank
  TaNameSize <- MCTaNameSize
  Tag = {0, 1}
  StoreMax = 2
  Fault <- MCFault
  PcdMaxSize = 10
  Word = 256
  HalfWord = 64
  HookVar = {}
  SessionId = {s1}
  NoSession = NoSession
  Size <- MCSize
  AttrSet <- MCAttrSet
  NullPointer = {"None"}
  NextNull = {"None"}
SPECIFICATION SpecI
INVARIANTS
  TypeOKI
  PublishedIsUsable
PROPERTIES
  SecureBootStateAgrees
  SetupModeFollowsPk
  EnableIsKept
