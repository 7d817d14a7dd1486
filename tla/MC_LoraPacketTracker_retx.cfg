\* One uplink object sent up to twice, heard by two gateways; four
\* simulated seconds (0..3).
CONSTANTS
  Packets = {u1}
  Uplinks = {u1}
  Gateways = {1, 2}
  Nodes = {1, 2, 10, 11}
  MaxTime = 3
  MaxAttempts = 2
  Sender <- MCSender
  PacketSize <- MCPacketSize
  PacketSf <- MCPacketSf
SPECIFICATION Spec
CHECK_DEADLOCK FALSE
INVARIANT MacReceptionMatchesPhy
