SPECIFICATION Spec
CONSTANTS
  NULL = NULL
  sa_table_growth = 2
  Entry = {e1, e2, e3}
  MaxIndex = 4
INVARIANTS
  TypeOK
  TailIsNull
  NoDangling
  EnumerationComplete
  LoopFindsRank
PROPERTY ImplementsIndexMap
