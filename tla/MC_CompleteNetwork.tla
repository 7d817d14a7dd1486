------------------------- MODULE MC_CompleteNetwork -------------------------
(***************************************************************************)
(* The network of src/examples/complete-network-example.cc, composed from  *)
(* the component models.  The script creates the end devices, then the     *)
(* gateways, then the network server node; links every gateway to the      *)
(* server with p2p.Install (server, gw); sets the helper's end devices and *)
(* installs the NetworkServer on the server node; installs a forwarder on  *)
(* each gateway; and runs the simulation with packet tracking enabled.     *)
(*                                                                         *)
(* Trk is the packet tracker with the PHY and MAC that drive it, Hlp the   *)
(* NetworkServerHelper, Sts the server's EndDeviceStatus of the device     *)
(* with the server around it.  A gateway MAC reception is handed by the    *)
(* gateway's forwarder to its point-to-point device (in the same event);   *)
(* the copy is in flight on the link until the server's device receives it *)
(* and calls its receive callback: the NetworkServer application the       *)
(* helper set, or, when none was set, the node's own callback, which has   *)
(* no handler for it and drops it.                                         *)
(*                                                                         *)
(* One end device (node 0) with two gateways (nodes 1, 2) and the server   *)
(* (node 3); the device's periodic application sends two confirmed         *)
(* uplinks, one after the other, each sent once.                           *)
(***************************************************************************)
EXTENDS Integers, FiniteSets, Sequences, SequencesExt

VARIABLES
  now, packetTracker, macPacketTracker, reTransmissionTracker,
  stage, attempts, firstTx, txTime, phyPending, macPending, delivered,
  status, cur, heard, pending, cancels, sentLog,
  factoryAttrs, endDevices, adrEnabled, adrType, apps, rxCallback,
  inflight,    \* <<packet, gateway>>: forwarded copies on the gateway's link
  phase        \* "setup", "install" (before Simulator::Run), then "run"

trkVars == <<now, packetTracker, macPacketTracker, reTransmissionTracker,
             stage, attempts, firstTx, txTime, phyPending, macPending, delivered>>
stsVars == <<status, cur, heard, pending, cancels, sentLog>>
hlpVars == <<factoryAttrs, endDevices, adrEnabled, adrType, apps, rxCallback>>
vars == <<trkVars, stsVars, hlpVars, inflight, phase>>

\* endDevices.Create (1), gateways.Create (2), networkServer.Create (1):
\* node ids in creation order.
EndDeviceNode == 0
GatewayNodes == {1, 2}
ServerNode == 3

\* The device's uplinks, in sending order.
UplinkSeq == <<"u1", "u2">>
UplinkSet == Range(UplinkSeq)

\* for (gw : gateways) p2p.Install (networkServer.Get (0), *gw).
ExampleLinks == [i \in 1..Cardinality(GatewayNodes) |-> <<ServerNode, i>>]

\* The server's device on gateway g's link (the first device of the link).
ServerDeviceOf(g) == <<CHOOSE l \in DOMAIN ExampleLinks : ExampleLinks[l][2] = g, 0>>

Trk == INSTANCE MC_LoraPacketTracker WITH
  Packets <- UplinkSet, Uplinks <- UplinkSet, Gateways <- GatewayNodes,
  Nodes <- GatewayNodes \cup {EndDeviceNode, ServerNode}, MaxTime <- 3,
  PacketSize <- [p \in UplinkSet |-> 23], PacketSf <- [p \in UplinkSet |-> 7],
  Sender <- [p \in UplinkSet |-> EndDeviceNode], MaxAttempts <- 1

Sts == INSTANCE MC_EndDeviceStatus WITH
  Packets <- UplinkSet, Gateways <- GatewayNodes, Commands <- {},
  Powers <- {-80}, NoPacket <- "noPacket", NoEvent <- 0,
  Uplinks <- UplinkSeq, Confirmed <- UplinkSet, DataReply <- {},
  CommandFor <- [p \in UplinkSet |-> <<>>], Handles <- {1, 2}, MaxCancels <- 0

Hlp == INSTANCE NetworkServerHelper WITH
  Links <- ExampleLinks, AttrNames <- {}, AdrTypes <- {"ns3::AdrComponent"}

AckSent(p) == \E i \in 1..Len(sentLog) : sentLog[i].ack = p

Init ==
  /\ Trk!Init /\ Sts!Init /\ Hlp!HelperInit
  /\ inflight = {}
  /\ phase = "setup"

\* nsHelper.SetEndDevices (endDevices).
SetEndDevicesStep ==
  /\ phase = "setup"
  /\ Hlp!SetEndDevices({EndDeviceNode})
  /\ phase' = "install"
  /\ UNCHANGED <<trkVars, stsVars, inflight>>

\* nsHelper.Install (networkServer); Simulator::Run follows.
InstallStep ==
  /\ phase = "install"
  /\ Hlp!Install(<<ServerNode>>)
  /\ phase' = "run"
  /\ UNCHANGED <<trkVars, stsVars, inflight>>

\* A step of the radio side: the tracker and its PHY and MAC layers.
RadioStep(A) == phase = "run" /\ A /\ UNCHANGED <<stsVars, hlpVars, inflight, phase>>

\* The periodic application's next uplink goes to the MAC.
DeviceSend == RadioStep(Trk!MacSend(UplinkSeq[cur]))

\* The device reports a finished cycle as successful only when an ACK for
\* it was sent.
DeviceEndAttempt(p) ==
  /\ RadioStep(Trk!EndAttempt(p))
  /\ (p \in DOMAIN reTransmissionTracker' /\ reTransmissionTracker'[p].successful)
       => AckSent(p)

\* Gateway g's MAC gets the packet and its forwarder sends it to the server.
GwForward(p, g) ==
  /\ phase = "run"
  /\ Trk!GwMacReceive(p, g)
  /\ inflight' = inflight \cup {<<p, g>>}
  /\ UNCHANGED <<stsVars, hlpVars, phase>>

\* The server's device on g's link receives the copy and calls its receive
\* callback: the NetworkServer, which records the copy in the device's
\* status and asks for a window, or the node's own callback, which drops it.
ServerReceive(p, g) ==
  /\ phase = "run"
  /\ <<p, g>> \in inflight
  /\ inflight' = inflight \ {<<p, g>>}
  /\ IF rxCallback[ServerDeviceOf(g)] # 0
       THEN \E v \in {-80}, h \in {1, 2} : Sts!GwReceive(g, v, h)
       ELSE UNCHANGED stsVars
  /\ UNCHANGED <<trkVars, hlpVars, phase>>

\* The server's receive-window event fires.
WindowFires(h) ==
  /\ phase = "run"
  /\ Sts!WindowFires(h)
  /\ UNCHANGED <<trkVars, hlpVars, inflight, phase>>

\* The device's next uplink, once its cycle is over, its copies reached the
\* server (2 ms links against 1 s and 2 s receive windows) and its windows
\* have passed.
DeviceNextUplink ==
  /\ phase = "run"
  /\ stage[UplinkSeq[cur]] = "done"
  /\ \A g \in GatewayNodes : <<UplinkSeq[cur], g>> \notin inflight
  /\ Sts!NextUplink
  /\ UNCHANGED <<trkVars, hlpVars, inflight, phase>>

Next ==
  \/ SetEndDevicesStep \/ InstallStep
  \/ RadioStep(Trk!Tick) \/ DeviceSend \/ DeviceNextUplink
  \/ \E p \in UplinkSet :
       \/ RadioStep(Trk!PhySend(p)) \/ DeviceEndAttempt(p)
       \/ \E g \in GatewayNodes :
            \/ RadioStep(Trk!PhyOutcome(p, g))
            \/ GwForward(p, g)
            \/ ServerReceive(p, g)
  \/ \E h \in {1, 2} : WindowFires(h)

Spec == Init /\ [][Next]_vars

-----------------------------------------------------------------------------

\* The server's view and the tracker's agree on every uplink: the gateways
\* in the device's received-packet list are exactly the gateways whose MAC
\* reception the tracker recorded, less the copies still on their link, and
\* the uplink has one list entry.  This rests on the helper making the
\* NetworkServer the receive callback of every device of the server node,
\* and on InsertReceivedPacket merging copies.
GatewayViewsAgree ==
  \A p \in UplinkSet :
    LET L          == status.receivedPacketList
        I          == {i \in 1..Len(L) : L[i].packet = p}
        atServer   == UNION {DOMAIN L[i].gwList : i \in I}
        onLink     == {g \in GatewayNodes : <<p, g>> \in inflight}
        atGateways == IF p \in DOMAIN macPacketTracker
                      THEN DOMAIN macPacketTracker[p].receptionTimes ELSE {}
    IN  /\ Cardinality(I) <= 1
        /\ atServer \cap onLink = {}
        /\ atServer \cup onLink = atGateways

=============================================================================
