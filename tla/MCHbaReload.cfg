SPECIFICATION MCLibSpec
CONSTANTS
  NULL = NULL
  sa_table_growth = 1
  Host <- TwoHosts
  MaxLoads = 2
  Port <- MCPort
  Rport <- FourRports
  ifname <- SharedInterface
  Wwn = {"node", "port1", "disk"}
  node_wwn <- Nodes
  port_wwn <- Ports
  rport_wwn <- RportNames
INVARIANT AllDiscoveredAfterReload
CHECK_DEADLOCK FALSE
