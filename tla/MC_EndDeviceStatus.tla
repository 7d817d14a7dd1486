------------------------- MODULE MC_EndDeviceStatus -------------------------
(***************************************************************************)
(* One device's EndDeviceStatus driven by the network server around it:    *)
(* gateway copies of the device's uplinks reaching the server (in any      *)
(* order, possibly after the reply window already fired), the server       *)
(* staging a reply and asking for a receive-window opportunity on every    *)
(* copy, the simulator firing the window event, and the server cancelling  *)
(* a pending window.  A class A device sends its next uplink only after    *)
(* the windows that answer the previous one are over.                      *)
(*                                                                         *)
(* Records of different devices share nothing, so one device suffices.    *)
(***************************************************************************)
EXTENDS EndDeviceStatus, FiniteSets

CONSTANTS
  Uplinks,     \* the device's uplinks, in sending order (a sequence of Packets)
  Confirmed,   \* uplinks sent as confirmed: the server stages an ACK
  DataReply,   \* uplinks the application answers with a payload
  CommandFor,  \* CommandFor[p]: MAC commands queued when p arrives
  Handles,     \* EventIds the simulator may hand out
  MaxCancels   \* bound on window cancellations by the server

VARIABLES
  status,      \* the EndDeviceStatus record
  cur,         \* index in Uplinks of the uplink on the air
  heard,       \* heard[p]: gateways whose copy of p reached the server
  pending,     \* receive-window events pending in the simulator
  cancels,     \* cancellations so far
  sentLog      \* downlinks sent, in order

vars == <<status, cur, heard, pending, cancels, sentLog>>

Init ==
  /\ status = InitStatus
  /\ cur = 1
  /\ heard = [p \in Packets |-> {}]
  /\ pending = {}
  /\ cancels = 0
  /\ sentLog = <<>>

\* The server's processing of the first copy of p: the ACK, the
\* application payload and the MAC commands are staged.
StageReply(st, p) ==
  LET acked == IF p \in Confirmed THEN SetReplyFrameHeader(SetReplyMacHeader(st), p)
               ELSE st
      data  == IF p \in DataReply THEN SetReplyPayload(acked, p) ELSE acked
  IN  FoldLeft(LAMBDA s, c : AddMACCommand(s, c), data, CommandFor[p])

\* Gateway g's copy of the current uplink reaches the server with power v.
\* The reception is recorded, the reply staged if the copy is the first,
\* and a window opportunity requested with a fresh EventId h; the
\* simulator event exists only if the store accepted h.
GwReceive(g, v, h) ==
  LET p   == Uplinks[cur]
      st1 == InsertReceivedPacket(status, p, g, v)
      st2 == IF heard[p] = {} THEN StageReply(st1, p) ELSE st1
      st3 == SetReceiveWindowOpportunity(st2, h)
  IN  /\ g \notin heard[p]
      /\ h \notin pending \cup {status.receiveWindowEvent}
      /\ status' = st3
      /\ heard' = [heard EXCEPT ![p] = @ \cup {g}]
      /\ pending' = IF st3.receiveWindowEvent = h THEN pending \cup {h} ELSE pending
      /\ UNCHANGED <<cur, cancels, sentLog>>

\* The window event h fires: the staged reply, if any, is sent, then the
\* reply is reset and the opportunity removed.
WindowFires(h) ==
  /\ h \in pending
  /\ pending' = pending \ {h}
  /\ sentLog' = IF NeedsReply(status)
                THEN Append(sentLog, GetCompleteReplyPacket(status)
                                  @@ [to |-> GetLastReceivedPacketInfo(status).packet])
                ELSE sentLog
  /\ status' = RemoveReceiveWindowOpportunity(InitializeReply(status))
  /\ UNCHANGED <<cur, heard, cancels>>

\* The server cancels the pending window event h and clears the
\* opportunity; the staged reply is left for the next window.
CancelWindow(h) ==
  /\ h \in pending
  /\ cancels < MaxCancels
  /\ cancels' = cancels + 1
  /\ pending' = pending \ {h}
  /\ status' = RemoveReceiveWindowOpportunity(status)
  /\ UNCHANGED <<cur, heard, sentLog>>

\* The device sends its next uplink once no window for it is pending.
NextUplink ==
  /\ cur < Len(Uplinks)
  /\ pending = {}
  /\ cur' = cur + 1
  /\ UNCHANGED <<status, heard, pending, cancels, sentLog>>

Next ==
  \/ \E g \in Gateways, v \in Powers, h \in Handles : GwReceive(g, v, h)
  \/ \E h \in Handles : WindowFires(h)
  \/ \E h \in Handles : CancelWindow(h)
  \/ NextUplink

Spec == Init /\ [][Next]_vars

-----------------------------------------------------------------------------
MCPackets == {"p1", "p2"}
MCUplinks == <<"p1", "p2">>
MCCommands == {"linkCheckAns"}
MCCommandFor == [p \in Packets |-> IF p = "p1" THEN <<"linkCheckAns">> ELSE <<>>]
MCConfirmed == {"p1", "p2"}
MCDataReply == {"p2"}
MCPowers == {-80, -90}

\* The map GetPowerGatewayMap returns names every gateway that received a
\* packet of the device, so the downlink gateway is chosen among all of
\* them (the specification: built from the union of the receptions).
PowerMapCoversGateways ==
  LET L == status.receivedPacketList
  IN  Range(GetPowerGatewayMap(status)) =
        UNION {DOMAIN L[i].gwList : i \in 1..Len(L)}

=============================================================================
