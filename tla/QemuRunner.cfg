SPECIFICATION SpecR
INVARIANTS
  TypeOKR
  SelfTestTwice
  VerdictExact
  NoJobLeft
PROPERTIES
  RunnerEnds
CHECK_DEADLOCK FALSE
