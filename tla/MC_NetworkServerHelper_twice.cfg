\* Two Install calls: the same server node installed twice.
CONSTANTS
  Links <- MCLinks
  Servers = {0, 5}
  Containers = {{3}, {3, 4}}
  AttrNames = {a1}
  AdrTypes = {"ns3::AdrComponent", "ns3::OtherAdr"}
  MaxInstalls = 2
SPECIFICATION Spec
INVARIANT
  EveryServerReceives
