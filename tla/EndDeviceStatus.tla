--------------------------- MODULE EndDeviceStatus ---------------------------
(***************************************************************************)
(* The network server's record of one end device                           *)
(* (src/model/app/server/end-device-status.h): the reply staged for the    *)
(* device, the list of its received packets with the gateways that heard  *)
(* them, and the pending receive-window opportunity.                       *)
(*                                                                         *)
(* The header is the only part of EndDeviceStatus in the repository.  The  *)
(* state below is its members and structs; the operations, whose bodies    *)
(* are not in the repository, follow the behaviour the specification gives *)
(* them.  Every operation runs to completion inside one simulator event,   *)
(* so each is an operator from a status record to a new status record and  *)
(* the caller (the network server) composes them inside one step.          *)
(*                                                                         *)
(* Data is abstracted: a MAC command is a model value; the ACK bit of the  *)
(* frame header is the uplink it acknowledges; a payload is the uplink it  *)
(* answers; the receive-window EventId is a handle number.                 *)
(***************************************************************************)
EXTENDS Integers, Sequences, SequencesExt

CONSTANTS
  Packets,     \* uplink packets received from the device
  Gateways,    \* gateway addresses
  Commands,    \* MAC commands the server may queue for the device
  Powers,      \* reception powers (dBm), a small set of integers
  NoPacket,    \* model value: no ACK / no payload
  NoEvent      \* model value: the default (expired) EventId

\* Reply: the reply the server will send at the device's next window;
\* needsReply defaults to false.
EmptyReply ==
  [macHeader |-> FALSE, ack |-> NoPacket, payload |-> NoPacket,
   commands |-> <<>>, needsReply |-> FALSE]

\* The members of a freshly constructed EndDeviceStatus.
InitStatus ==
  [reply |-> EmptyReply, receivedPacketList |-> <<>>,
   receiveWindowEvent |-> NoEvent]

(***************************************************************************)
(* Received packet list management.                                        *)
(***************************************************************************)

\* Mutant: every gateway report appends a new list entry.
InsertReceivedPacketAppend(st, p, gw, power) ==
  [st EXCEPT !.receivedPacketList =
     Append(@, [packet |-> p, gwList |-> (gw :> [rxPower |-> power])])]

\* InsertReceivedPacket: a packet already in the list gets the new gateway
\* merged into its gateway list (a gateway that already reported it keeps
\* its first report); a new packet is appended.
InsertReceivedPacket(st, p, gw, power) ==
  LET L   == st.receivedPacketList
      idx == {i \in 1..Len(L) : L[i].packet = p}
  IN  IF idx = {}
      THEN [st EXCEPT !.receivedPacketList =
              Append(@, [packet |-> p, gwList |-> (gw :> [rxPower |-> power])])]
      ELSE LET i == CHOOSE i \in idx : TRUE
           IN  IF gw \in DOMAIN L[i].gwList THEN st
               ELSE [st EXCEPT !.receivedPacketList[i].gwList =
                       @ @@ (gw :> [rxPower |-> power])]

\* GetLastReceivedPacketInfo: the tail of the list (NoPacketsYet when
\* empty, which callers check first).
GetLastReceivedPacketInfo(st) == Last(st.receivedPacketList)

\* GetPowerGatewayMap returns std::map<double, Address>: keyed by power,
\* one gateway per power value over all the device's receptions.  Which of
\* several equal-power gateways survives depends on insertion order, which
\* the model leaves as an arbitrary choice.
GetPowerGatewayMap(st) ==
  LET L      == st.receivedPacketList
      heard  == UNION {{<<g, L[i].gwList[g].rxPower>> : g \in DOMAIN L[i].gwList} :
                         i \in 1..Len(L)}
      powers == {h[2] : h \in heard}
  IN  [v \in powers |-> CHOOSE g \in Gateways : <<g, v>> \in heard]

(***************************************************************************)
(* Reply management.                                                       *)
(***************************************************************************)

\* InitializeReply: the staged reply is reset to an empty Reply.
InitializeReply(st) == [st EXCEPT !.reply = EmptyReply]

\* The setters: each stores its part and marks the reply as needed.
SetReplyMacHeader(st) ==
  [st EXCEPT !.reply.macHeader = TRUE, !.reply.needsReply = TRUE]
SetReplyFrameHeader(st, ackOf) ==
  [st EXCEPT !.reply.ack = ackOf, !.reply.needsReply = TRUE]
SetReplyPayload(st, p) ==
  [st EXCEPT !.reply.payload = p, !.reply.needsReply = TRUE]

\* AddMACCommand: the command is queued in the reply's frame header.
AddMACCommand(st, c) == [st EXCEPT !.reply.commands = Append(@, c)]

\* NeedsReply: decided from the headers and payload of the staged reply.
NeedsReply(st) ==
  \/ st.reply.macHeader
  \/ st.reply.ack # NoPacket
  \/ st.reply.payload # NoPacket
  \/ st.reply.commands # <<>>

\* GetCompleteReplyPacket: the downlink built from the staged reply.
GetCompleteReplyPacket(st) ==
  [ack |-> st.reply.ack, payload |-> st.reply.payload,
   commands |-> st.reply.commands]

(***************************************************************************)
(* Receive-window opportunity.                                             *)
(***************************************************************************)

HasReceiveWindowOpportunityScheduled(st) == st.receiveWindowEvent # NoEvent

\* SetReceiveWindowOpportunity (the specification's
\* ScheduleReceiveWindowOnce): refused, leaving the record unchanged, while
\* a window is pending (AlreadyScheduled).
SetReceiveWindowOpportunity(st, h) ==
  IF HasReceiveWindowOpportunityScheduled(st) THEN st
  ELSE [st EXCEPT !.receiveWindowEvent = h]

\* RemoveReceiveWindowOpportunity: unconditional, idempotent clear.
RemoveReceiveWindowOpportunity(st) == [st EXCEPT !.receiveWindowEvent = NoEvent]

=============================================================================
