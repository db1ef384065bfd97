SPECIFICATION Spec
CONSTANTS
  NULL = NULL
  onEth = onEth
  onVlan = onVlan
  onPci = onPci
  card1 = card1
  card2 = card2
  Host = {onEth, onVlan, onPci}
  Ifname <- MCIfname
  Interface <- MCInterface
  boot <- MCBoot
  over <- MCOver
  pci_link <- MCPciLink
  MaxFails = 2
  MaxChanges = 2
INVARIANTS
  OwnOrUnset
  CleanScan
  RightCard
  SkippedForReason
