\* Two gateways hearing the device with equal power.
CONSTANTS
  Packets <- MCPackets
  Uplinks <- MCUplinks
  Commands <- MCCommands
  CommandFor <- MCCommandFor
  Confirmed <- MCConfirmed
  DataReply <- MCDataReply
  Powers <- MCPowers
  Gateways = {g1, g2}
  Handles = {1, 2, 3}
  MaxCancels = 1
  NoPacket = NoPacket
  NoEvent = NoEvent
SPECIFICATION Spec
\* The device's last uplink has been answered: the run ends.
CHECK_DEADLOCK FALSE
INVARIANT
  PowerMapCoversGateways
