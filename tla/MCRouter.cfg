SPECIFICATION RouterSpec
CONSTANTS
  d1 = d1
  d2 = d2
  d3 = d3
  n1 = n1
  n2 = n2
  h1 = h1
  h2 = h2
  Device <- MCDevices
  NetId <- MCNetIds
  Host <- MCHosts
  NUM_PORTS_MAX = 2
  MaxConnections = 2
SYMMETRY MCSymmetry
INVARIANTS NothingDangles RefCountIsDevices PortsAreOwned
PROPERTIES RecoveryReconnects
CHECK_DEADLOCK FALSE
