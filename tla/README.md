# TLA+ models of elora (ns-3 LoRaWAN): packet tracker, PHY timing, server device state, server installation, the complete network

This directory holds TLA+ modules and TLC configurations for the parts of
the repository that keep state or compute results, checked with TLC.

## The system and its parts

| Part | Source | Role | Model |
|---|---|---|---|
| PHY Timing Model | `src/model/lora-phy.cc` | GetTSym and GetOnAirTime: symbol and on-air time from the LoRa modulation parameters. RxPowerToSNR. | `LoraPhy`, `MC_LoraPhy` (partly: RxPowerToSNR is not modelled) |
| Packet Outcome Tracker | `src/helper/lora-packet-tracker.cc` | Trace sinks for the MAC/PHY events of every packet. Per-window counting queries. The network statistics. | `LoraPacketTracker`, `MC_LoraPacketTracker`, abstract `PacketOutcomeLog` (modelled) |
| End-Device Status Store | `src/model/app/server/end-device-status.h` | Network-server record per device: receive windows, reply staging, MAC commands, reception list, gateway ranking. | `EndDeviceStatus`, `MC_EndDeviceStatus` (partly: the header is the only source; operations follow the spec) |
| Network Server Helper | `src/helper/network-server-helper.{h,cc}` | Installation-time wiring of the server application: receive callbacks, gateway registration, end devices, components. | `NetworkServerHelper`, `MC_NetworkServerHelper` (modelled) |
| Bike mobility helper | `src/helper/bike-mobility-helper.cc`, run by `src/examples/Mobility_Examples/test_ex.cc` | Turns a CSV of bike trips into per-node waypoints. | `BikeMobilityHelper`, `MC_BikeMobilityHelper` (partly: `PrintNodePosition` is not modelled) |
| Example scenarios | `src/examples/complete-network-example.cc`, `rl-example.cc`, `Mobility_Examples/test_ex.cc` | Scenario scripts: build a topology, install the components, run. | `MC_CompleteNetwork` composes the complete network (partly); `test_ex.cc` is in `BikeMobilityHelper`; `rl-example.cc` is not modelled |

How they interact:
- The ns-3 LoRa MAC and PHY layers, which are not in this repository, fire trace sources.
- The tracker's callbacks are connected to them:
  - `MacTransmissionCallback` is fired when an end device's MAC sends.
  - `TransmissionCallback` is fired when the PHY starts sending.
  - One of the five outcome callbacks is fired per gateway: received, interfered, no more receivers, under sensitivity, or lost because the gateway was transmitting.
  - `MacGwReceptionCallback` is fired when a gateway's MAC passes the packet up.
  - `RequiredTransmissionsCallback` is fired when the device's retransmission cycle ends.
- A retransmission resends **the same packet object**. Every tracker map is keyed by `Ptr<Packet>` and filled with `std::map::insert`, which never overwrites. So a retransmission reaches the same records.
- Gateways also see downlinks, so the callbacks filter on `IsUplink`.
- The tracker calls the PHY timing model to compute offered traffic.
- Before the simulation, the example scripts link each gateway to the server node with point-to-point links. `NetworkServerHelper::Install` then creates the NetworkServer application. That application receives everything the server's net devices receive, and it keeps one `EndDeviceStatus` per end device.

## Modules

### `LoraPhy` (pure operators)

| TLA+ | Code | Notes |
|---|---|---|
| `GetTSym(txParams)` | `LoraPhy::GetTSym` | The exact rational 2^sf / bandwidthHz. |
| `PayloadSymbNb` | `LoraPhy::GetOnAirTime` | Translates the code's `num / den` formula. |
| `GetOnAirTime` | `LoraPhy::GetOnAirTime` | Returns preamble quarter-symbols, payload symbols and tSym. |

Durations are exact: they are counted in (quarter) symbols of tSym.

The code computes `8 * pl - 4 * sf + 28` with `pl` of type `uint32_t`, so the expression wraps modulo 2^32. The model keeps that wrap:
- TLC's integers are 32-bit, so 2^32 is written as 4 * 2^30.
- The ceiling of the wrapped quotient is computed piece by piece.

### `LoraPacketTracker` (the component)

State: `now` and the three maps `packetTracker`, `macPacketTracker` and `reTransmissionTracker`. Each is a TLA+ function from packet to a record with the fields of the C++ structs.

Operations (one action per callback):
- `MacTransmissionCallback` and `TransmissionCallback`: an insert that keeps an existing record.
- `RequiredTransmissionsCallback`: there is no uplink filter. `reqTx` is stored as `uint8_t`.
- `MacGwReceptionCallback`:
  - It has the code's abort when the packet was never MAC-sent.
  - The per-gateway insert keeps the first time at each gateway.
  - It updates `receivedTime` to the minimum.
- Five outcome callbacks, each a `RecordOutcome`. They keep the code's order of `find`, then insert into the outcome map.

Queries (operators over the state):
- `CountPhyPacketsPerGw`
- `PrintPhyPacketsPerGw`, with its own switch
- `CountMacPacketsGlobally`
- `CountMacPacketsGloballyCpsr`
- `PrintDevicePackets`
- `PrintSimulationStatistics` (the per-packet loop is `OutcomeLoop`/`ClassifyPacket`; percentages, throughput and offered traffic are exact fractions)

Output strings are abstracted to the numbers they print, in the order they are printed.

### `MC_LoraPacketTracker` (environment and properties)

It drives the callbacks the way the ns-3 LoRa layers fire them:
- `MacSend` precedes `PhySend`.
- Every gateway other than the sender gets exactly one `PhyOutcome` per attempt, in any order and interleaved with other packets.
- `GwMacReceive` is possible only after a RECEIVED outcome.
- `EndAttempt` either retransmits the same packet object or, for uplinks, ends the cycle with `RequiredTransmissionsCallback`. It reports success only if some gateway delivered the packet.
- `Tick` advances simulated time.
- Downlinks are sent by a gateway. They go through the PHY callbacks at the other gateways, and `IsUplink` filters them out.

The simulation stops when time reaches MaxTime, so deadlock checking is off.

No fairness is assumed in the tracker model, whose properties are all safety properties: the tracker only reacts to events, and whether events come is the scheduler's business.

### `PacketOutcomeLog` (what the tracker promises) and the refinement

`PacketOutcomeLog` is the abstract specification: a log of first observations.
- Each packet's PHY send and MAC send, each (packet, gateway) PHY outcome and MAC reception, and each packet's retransmission-cycle report is written at most once.
- Each entry is stamped with the time of the observation, and entries never change.
- An outcome or a MAC reception is logged only for a packet whose send was logged.
- A repeated observation leaves the log unchanged.

`MC_LoraPacketTracker` instantiates the log (`Log == INSTANCE PacketOutcomeLog WITH ...`) with the refinement mapping:
- `phySent` and `macSent` are the send fields of the two send maps.
- `outcome` and `macRx` flatten the per-gateway inner maps into (packet, gateway) pairs.
- `cycle` is `reTransmissionTracker`.

`receivedTime` is derived state, covered by `EarliestReceivedIsMin`. `LogRefinement == Log!Spec` is checked as a temporal property.

### `EndDeviceStatus` (one device's record at the network server)

State comes from the header's members:
- `reply` is the `Reply` struct. Its ACK is the uplink acknowledged, its payload the uplink answered, and its MAC commands a sequence.
- `receivedPacketList` holds one entry per packet, with a gateway map of reception powers.
- `receiveWindowEvent` is a handle, or `NoEvent`.

The header has no bodies (the `.cc` is not in the repository), so each operation is written from the spec's description:
- `InsertReceivedPacket` merges a new gateway into an existing entry.
- `InitializeReply` resets the reply.
- The `SetReply*` setters and `AddMACCommand` stage the reply.
- `NeedsReply` tests the reply's headers and payload.
- `SetReceiveWindowOpportunity` refuses while a window is pending.
- `RemoveReceiveWindowOpportunity` clears the window.
- `GetPowerGatewayMap` keeps the header's return type `std::map<double, Address>`.

Each operation runs to completion inside one simulator event. They are therefore operators on the record, which the caller composes inside one step.

### `MC_EndDeviceStatus` (server and simulator around one device)

- `GwReceive`: a gateway's copy of the current uplink arrives. The server inserts it. On the first copy it stages the ACK for a confirmed uplink, the payload, and the MAC commands. On every copy it asks for a window opportunity, and the simulator event exists only if the store accepts it.
- `WindowFires`: the window event fires. The reply is sent if needed, reset, and the opportunity removed.
- `CancelWindow`: the server cancels the window, at most `MaxCancels` times.
- `NextUplink`: a class A device sends its next uplink only after the server's window for the previous one is over.

No fairness is assumed, because no run checks a liveness property of the store. Only the header of the store is in the repository, so a property of these spec-written operators alone would check the specification against itself. The module is checked where repository code meets it: in `status_power_map_ties`, where the map's key type comes from the header, and as the server side of `MC_CompleteNetwork`.

One device is enough, because device records share nothing.

### `NetworkServerHelper` (installation of the server application)

State: the helper's members and what `Install` produces.
- Members: the factory's attributes, `m_endDevices`, `m_adrEnabled` and the ADR type.
- `apps`: the applications created, in order.
- `rxCallback`: the application each net device's receive callback calls. `SetReceiveCallback` holds one callback, so the last install wins.

The topology is a constant: `Links` is the sequence of `PointToPointHelper::Install (a, b)` calls, and a device is a pair (link, channel index).

Actions and operators:
- The constructor is `HelperInit`. `SetAttribute`, `SetEndDevices`, `EnableAdr` and `SetAdr` are one action each.
- `Install` folds `InstallPriv` over the container.
- `InstallPriv` does three things:
  - it points every device of the node at the new application;
  - it registers, per device, the first node of the channel that is not the server itself (`PeerOf`, with the loop's `break`);
  - it snapshots the end devices and the components, and ADR only when enabled (`InstallComponents`).

`MC_NetworkServerHelper` lets configuration calls and installs (of one node, or of all servers) come in any order, up to `MaxInstalls` installs. Configuration calls are always possible, so deadlock is checked.

### `BikeMobilityHelper` (trip dataset to waypoints)

The module follows `test_ex.cc`'s main, one action per step:
- `ReadDataset`: any file of up to `MaxRows` rows. The parse is abstracted to the rows it yields, and a file that does not open gives no rows.
- `CreateMap` is `createBikeNumberMap`. Its key assignment (`key++` over the `std::set<std::string>`) is a fold over the constant `BikeOrder`, which lists the bike numbers in string order.
- `CreateNodes` creates one node and one waypoint model per key.
- `SaveWaypoints` is `BeginSave`, then one `SaveRow` per outer-loop iteration, then `EndSave`. Each row either is skipped as faulty or appends its start and end waypoints to its bike's node. The row counter advances either way.

Positions are abstracted to the row and the end of the trip.

### `MC_CompleteNetwork` (the complete network example, composed)

This module composes the component models with named `INSTANCE ... WITH`. Each component's variables are the variables of the same name here.
- `Trk` is `MC_LoraPacketTracker`: the tracker with its PHY and MAC environment. It stands for the radio network the script builds at lines 108-135: log-distance loss, optional shadowing and building loss, constant-speed delay, and the `LoraChannel`. The channel enters the model as the nondeterministic PHY outcome at each gateway.
- `Hlp` is `NetworkServerHelper`, with `Links` set to `ExampleLinks`, the example's `p2p.Install (networkServer.Get (0), gw)` loop.
- `Sts` is `MC_EndDeviceStatus`: the server's record of the one device, with the server's window events.

It follows `main` in the order of the script:
- `Init` is the state after the helpers are created and packet tracking is enabled.
- The nodes are created: device 0, gateways 1 and 2, then server 3.
- `SetEndDevicesStep` and `InstallStep` are `nsHelper.SetEndDevices` and `nsHelper.Install`. They run before `Simulator::Run`, and `phase` orders them.
- In the run phase:
  - `DeviceSend` is the periodic application handing its next uplink to the MAC.
  - The tracker's PHY steps and `Tick` run unchanged (`RadioStep`).
  - `GwForward` is a gateway MAC reception. It is recorded by the tracker and forwarded in the same event by the gateway's forwarder, onto its p2p link (`inflight`).
  - `ServerReceive` takes a copy off the link. It calls the receive callback of the server's device on that link. That callback is the NetworkServer the helper installed, which is `Sts!GwReceive` (insert, stage the reply, ask for a window). Without such a callback, Node's default callback drops the copy.
  - `WindowFires` is the server's receive-window event.
  - `DeviceNextUplink` is the next period. It requires the previous cycle to be over and its copies delivered: 2 ms links against 1 s and 2 s receive windows.
  - `DeviceEndAttempt` reports success only for an acknowledged uplink.

This scenario leaves out window cancellation. Cancelling is a decision of the NetworkServer's components, whose code is not in this repository.

No fairness is assumed. The one property checked here is an invariant. Whether the server eventually acknowledges an uplink depends on the receive-window operators of the store, and those are written from the specification, not from code of this repository.

## Runs

| Run | Config | Expect | What it shows |
|---|---|---|---|
| phy_airtime_monotone | `MC_LoraPhy.cfg` | pass | For frames of 8 to 260 bytes, every SF 7-12, every coding rate, header, CRC and LDRO setting: one more byte never shortens the on-air time (`AirtimeMonotone`). |
| phy_airtime_tiny_frames | `MC_LoraPhy_tiny.cfg` | violation | For 0 to 2 byte frames at high SF the `uint32_t` numerator wraps, and the on-air time jumps to weeks. |
| tracker_retransmission | `MC_LoraPacketTracker.cfg` | pass | See the list below this table. |
| tracker_print_columns | `MC_LoraPacketTracker_print.cfg` | violation | `PrintPhyPacketsPerGw` swaps the underSensitivity and lostBecauseTx columns. |
| tracker_stats_no_traffic | `MC_LoraPacketTracker_stats.cfg` | violation | `PrintSimulationStatistics` on an empty window yields 0/0 (NaN), not NoTraffic. |
| status_power_map_ties | `MC_EndDeviceStatus_power.cfg` | violation | `GetPowerGatewayMap` is keyed by power, so two equal-power gateways collapse into one entry. The spec breaks ties by address. |
| server_helper_install | `MC_NetworkServerHelper.cfg` | pass | After any configuration calls, one install registers exactly the gateways linked to each server node: never the server itself, no duplicates, each through a device of its own node (`GatewaysAreLinkedPeers`). Every registered gateway's device delivers to the application that registered it (`EveryServerReceives`). |
| server_helper_double_install | `MC_NetworkServerHelper_twice.cfg` | violation | A second install on the same node takes over the receive callbacks. The first NetworkServer keeps its gateways but never hears from them. |
| bike_waypoints | `MC_BikeMobilityHelper.cfg` | pass | For every dataset of up to three rows of two bikes, each bike gets a node of its own. That node's waypoints are exactly the bike's non-faulty trips, in dataset order (`TripsPerBike`, checked against a per-bike reference definition). |
| tracker_phy_mac_conflation | `MC_LoraPacketTracker_retx.cfg` | violation | A retransmission's MAC reception at a gateway is recorded while that gateway's PHY record keeps the first attempt's failure. The per-gateway PHY counts and the MAC counts then disagree. |
| complete_network | `MC_CompleteNetwork.cfg` | pass | In the example's network, the server's received-packet list for each uplink has one entry. Its gateways are exactly the gateways whose MAC reception the tracker recorded, less the copies still on a link (`GatewayViewsAgree`). |

The tracker_retransmission run checks four things, with retransmissions, downlinks and gateways reporting in any order:
- `receivedTime` is the earliest gateway reception (`EarliestReceivedIsMin`).
- Retransmission-based delivery never exceeds MAC delivery (`CpsrWithinMacDelivery`).
- The statistics loop classifies by the spec's priority order (`ClassifyMatchesPriority`).
- The tracker refines `PacketOutcomeLog` (`LogRefinement`). No record is ever rewritten, every entry carries the time of its callback, and nothing is recorded for an unsent packet.

Each property of a passing run has a mutant in `PROJECT.json`: a plausible bug in the modelled code that TLC shows breaks it. The mutant operators (`...NoMin`, `...Overwrite`, `...Append`, `...NowFirst`, `...Swapped`, `...Unset`, `...FirstOnly`, `PeerOfFirst`, `GetOnAirTimeU8`) sit in the modules next to the definitions they replace.

## Bounds

MC_LoraPhy:
- All spreading factors 7-12 and all header, CRC, LDRO and coding-rate settings at 125 kHz.
- Payloads of 8 to 260 bytes. A LoRaWAN frame carries at least a 7-byte MHDR, FHDR and MIC, and at most 255 bytes of PHY payload plus headers.
- The tiny configuration covers 0 to 16 bytes, where the wrap happens.

MC_LoraPacketTracker:
- One uplink and one downlink packet, two gateways, up to two transmission attempts, and times 0 to 3.
- This is the smallest setting in which each of these happens:
  - a retransmission meets outcomes from both gateways in both orders;
  - a MAC reception at the second gateway comes after one at the first;
  - a downlink is seen by a gateway;
  - a window closes while another packet is still on air.
- A larger time bound only shifts the same interleavings.
- The violation configurations use one uplink, which is enough to show each disagreement.

For the refinement, each second-attempt outcome at a gateway that already reported is exactly the step an overwriting insert would turn into a rewrite of the log.

MC_NetworkServerHelper:
- The links are created as the example scripts create them, with `p2p.Install (server, gw)`: server 0 to gateway 1, server 0 to gateway 2, then a second server node 5 to gateway 1.
- The server is therefore the first device of every channel, and the loop must skip it.
- Gateway 1 has two devices, so its devices and the servers' devices interleave in the numbering.
- Two candidate end-device containers, one attribute name, and two ADR types.
- The passing run allows one install (of node 0, of node 5, or of both). The violation run allows two.

MC_BikeMobilityHelper:
- Two bikes, "12" and "7". As strings, "12" sorts first; as numbers it would sort second.
- Trip times 0 and 1, every dataset of 0 to 3 rows, and the second data row faulty.
- Three rows are enough for a faulty row to sit between two rows of the same bike, and for the bikes' rows to interleave.

MC_EndDeviceStatus (`MC_EndDeviceStatus_power.cfg`):
- Two uplinks, both confirmed. The first carries a MAC command and the second gets a payload. Two gateways, two power levels, three event handles.
- Two gateways and two power levels are enough for two gateways to hear the device at the same power.

MC_CompleteNetwork:
- One end device, two gateways, one server, and two confirmed 23-byte uplinks sent one after the other, each sent once. Times run from 0 to 3.
- The example itself has one gateway (`nGateways = 1`). The model uses two, because the link loop, the helper and the forwarders are written for any number. Two gateways are what make copies arrive in either order, and let one copy reach the server while the other is still on its link.
- Two uplinks make the second uplink's copies meet a list that already holds the first uplink's entry.
- The run has no cancellation.

## Not modelled, and why

- End-Device Status Store, not yet modelled:
  - the receive-window data-rate and frequency setters, which are plain stores that nothing else reads;
  - the reception time in `PacketInfoPerGw`, which no property distinguishes;
  - `Register`, which belongs to NetworkStatus and is outside the repository.
- Further work the repository does not yet support:
  - A stranded reply after a cancelled window, and two devices in the composed network. Both turn on what the NetworkServer does: whether it cancels windows, how it dispatches uplinks to device records, and how `InsertReceivedPacket` recognises a retransmitted copy. Its code, and the body of `end-device-status.h`, are not in the repository.
  - Retransmissions in the composed network, for the same reason. In isolation, the tracker run covers them.
- The tracker refines a log of first observations (`LogRefinement`, checked in tracker_retransmission). A log with one record per attempt, as the spec's design notes ask, would not be refined: the conflation finding is that disagreement.
- A tracker configuration with two uplinks from two devices, for `PrintSimulationStatistics` over mixed windows.
- Packets without a LoraTag: a default spreading factor in the offered-traffic computation. The tag's default is ns-3's.
- Packets with no outcome when `PrintSimulationStatistics` is called: on the air, or not yet reported. The code counts them as UNDER_SENSITIVITY, and the model's `ClassifyPacket` does too. The spec's priority order names no category for that case, so no property can tell right from wrong. It is listed as a hazard.
- `RxPowerToSNR` uses `log10` over doubles, so it has no exact integer model.
- The helper's `EnableCongestionControl`, `AssignClusters` and `AssignSingleFrequency` are declared in the header but defined nowhere, so they have no behaviour to model.
- `PrintNodePosition` (bike helper) is called only from a commented-out line of `test_ex.cc`, and its branches depend on the internal state of ns-3's `WaypointMobilityModel`, which is not in the repository. `AddWaypoint`'s rule that times ascend is also ns-3's, so the model does not check waypoint order against it.
- `complete-network-example.cc` is modelled in `MC_CompleteNetwork`, apart from what it only configures: the mobility and building layout, the propagation model, and `SetSpreadingFactorsUp`. These enter only as the tracker's nondeterministic PHY outcomes and a fixed SF 7. The NetworkServer and the forwarder are ns-3 classes outside the repository, so the model composes them from what the status store and helper models state.
- The uplinks' message type (confirmed or not) is the ns-3 MAC's default, which is not in the repository. The composed run takes both uplinks as confirmed. That is the case in which the `ConfirmedMessagesComponent`, installed unconditionally by `InstallComponents` (`network-server-helper.cc:143-146`), stages an ACK.
- `rl-example.cc` does not build, so it has no behaviour to model:
  - it includes `utilities.cc`, which is not in the repository (`ParseClusterInfo`, `sirMap` and `PrintConfigSetup` come from it);
  - it calls `NetworkServerHelper::EnableRl`, which is declared nowhere;
  - it calls `AssignClusters`, which is declared but never defined.
