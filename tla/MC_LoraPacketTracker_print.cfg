\* One uplink heard by two gateways, sent once; three simulated seconds.
CONSTANTS
  Packets = {u1}
  Uplinks = {u1}
  Gateways = {1, 2}
  Nodes = {1, 2, 10, 11}
  MaxTime = 2
  MaxAttempts = 1
  Sender <- MCSender
  PacketSize <- MCPacketSize
  PacketSf <- MCPacketSf
SPECIFICATION Spec
CHECK_DEADLOCK FALSE
INVARIANT PrintMatchesCount
