\* One uplink object sent up to twice (a retransmission of the same packet
\* object), heard by two gateways, and one downlink from gateway 1 heard by
\* gateway 2; four simulated seconds (0..3).
CONSTANTS
  Packets = {u1, d1}
  Uplinks = {u1}
  Gateways = {1, 2}
  Nodes = {1, 2, 10, 11}
  MaxTime = 3
  MaxAttempts = 2
  Sender <- MCSender
  PacketSize <- MCPacketSize
  PacketSf <- MCPacketSf
SPECIFICATION Spec
\* The simulation ends once every packet's cycle is over and time is up.
CHECK_DEADLOCK FALSE
INVARIANT TypeOK
INVARIANT EarliestReceivedIsMin
INVARIANT CpsrWithinMacDelivery
INVARIANT ClassifyMatchesPriority
PROPERTY LogRefinement
