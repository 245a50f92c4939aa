CONSTANTS
  h1 = h1  h2 = h2  g1 = g1  d1 = d1  d2 = d2  d3 = d3  p1 = p1  p2 = p2
  Heap = {1, 2, 3}
  Null = Null
  NoData = NoData
  Keys <- MCKeys
  Buckets = {1, 2}
  Bucket <- MCBucket
  IPs <- MCIPs
  Ports <- MCPorts
  AnyPort = AnyPort
  Groups <- MCGroups
  Destinations <- MCDestinations
  Room = 3
  PipeRoom = 1
SPECIFICATION TSpec
SYMMETRY MCSymmetry
INVARIANTS TransmitterInv
PROPERTIES FilterAsAsked PolledIfAccepted
