CONSTANTS
  Short = 4
  Wide <- MCWide
  Stale = {0, 1}
  N = 4
SPECIFICATION SpecW
INVARIANTS
  TypeOKW
  WithinName
  NameKept
  SameNameAsked
