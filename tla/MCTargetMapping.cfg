SPECIFICATION Spec
CONSTANTS
  NULL = NULL
  Lun <- MCLun
  SgName = {sg0, sg1}
  Rport <- MCRport
  ad_kern_index = 0
  IntRange = 3
  MaxLimit = 2
SYMMETRY Symmetry
INVARIANTS
  MappingComplete
  RetryFits
  EntryConsistent
  SgNameOfLun
