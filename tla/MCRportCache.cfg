SPECIFICATION MCSpec
CONSTANTS
  NULL = NULL
  sa_table_growth = 1
  Rport <- FourRports
  Port <- TwoPorts
INVARIANTS
  TypeOK
  NoDuplicates
  Ownership
  SlotFree
  Delivered
PROPERTIES
  EnumerationStable
  CallReturns
