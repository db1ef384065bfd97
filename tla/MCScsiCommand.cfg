SPECIFICATION CmdSpec
CONSTANTS
  NULL = NULL
  Lun <- MCLun
  SgName = {sg0, sg1}
  Rport <- MCRport
  ad_kern_index = 0
  IntRange = 3
  MaxLimit = 1
  ByteRange = 4
SYMMETRY Symmetry
INVARIANTS
  ReachesRequestedLun
  CheckConditionIsReal
