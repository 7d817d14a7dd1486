\* Any order of configuration calls, one Install (of server 0, server 5,
\* or both as a container).
CONSTANTS
  Links <- MCLinks
  Servers = {0, 5}
  Containers = {{3}, {3, 4}}
  AttrNames = {a1}
  AdrTypes = {"ns3::AdrComponent", "ns3::OtherAdr"}
  MaxInstalls = 1
SPECIFICATION Spec
INVARIANTS
  GatewaysAreLinkedPeers
  EveryServerReceives
