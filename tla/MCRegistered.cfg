CONSTANTS
  flag = flag
  var1 = var1
  var2 = var2
  var3 = var3
  sized1 = sized1
  sized2 = sized2
  name = name
  long = long
  ref = ref
  list1 = list1
  list2 = list2
  query = query
  over1 = over1
  over2 = over2
  db = db
  kek = kek
  pk = pk
  Var <- MCVar
  NoVar = NoVar
  NameLen <- MCNameLen
  NameRank <- MCNameRank
  TaNameSize <- MCTaNameSize
  Tag <- MCTag
  Room = {}
  AttrSet = {}
  Payload = {}
  PersistanceTestFlag = flag
  TestVariableName1 = var1
  TestVariableName2 = var2
  TestVariableName3 = var3
  SizedVariable <- MCSized
  BufferSizes <- MCBufferSizes
  NameTestVariable = name
  LongString = long
  Reference = ref
  TestVariableNameList <- MCNameList
  QueryVariableName = query
  QueryOverflowVariableName1 = over1
  QueryOverflowVariableName2 = over2
  mSecureBootVariables <- MCSecureBoot
  Word = 1000
  PK = pk
  TEST_METADATA_MAX = 7
  Capacity = 24
  MaxRun = 1
  MaxTrouble = 2
SPECIFICATION SpecT
INVARIANTS
  RegisteredTestsRun
CHECK_DEADLOCK FALSE
