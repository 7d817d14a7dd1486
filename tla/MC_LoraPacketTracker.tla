------------------------- MODULE MC_LoraPacketTracker -------------------------
(***************************************************************************)
(* LoraPacketTracker driven by the layers whose trace sources call it.     *)
(*                                                                         *)
(* The environment is the end devices' and gateways' PHY and MAC and the   *)
(* scheduler.  For every packet object it follows one cycle per            *)
(* transmission attempt: the sender's MAC sends it (MacTransmission-       *)
(* Callback), its PHY starts sending it (TransmissionCallback), each       *)
(* gateway that hears it reports one PHY outcome, in any order and at a    *)
(* later time, each gateway that received it passes it to its MAC          *)
(* (MacGwReceptionCallback), and then the end device either retransmits    *)
(* the same packet object (no acknowledgement) or ends the cycle and       *)
(* reports it (RequiredTransmissionsCallback).  Gateways also send         *)
(* downlinks, which other gateways hear; the tracker filters them out.     *)
(***************************************************************************)
EXTENDS LoraPacketTracker

CONSTANTS
  Sender,      \* packet -> node id of the node that sends it
  MaxAttempts  \* transmissions per uplink allowed by the retransmission budget

ASSUME Sender \in [Packets -> Nodes]
ASSUME \A p \in Packets : ~IsUplink(p) <=> Sender[p] \in Gateways
ASSUME MaxAttempts \in Nat \ {0}

VARIABLES
  stage,       \* packet -> where its current transmission attempt is
  attempts,    \* packet -> transmissions made
  firstTx,     \* packet -> time of the first transmission
  txTime,      \* packet -> time of the current transmission
  phyPending,  \* packet -> gateways that have not yet reported a PHY outcome
  macPending,  \* packet -> gateways that received it and have not told the MAC
  delivered    \* packet -> some gateway MAC received it (the server has it)

envVars == <<stage, attempts, firstTx, txTime, phyPending, macPending, delivered>>
vars == <<now, trackerVars, envVars>>

Stages == {"idle", "macSent", "onAir", "done"}

\* The gateways that hear a transmission: all of them, but the sender.
Hearers(p) == Gateways \ {Sender[p]}

Budget(p) == IF IsUplink(p) THEN MaxAttempts ELSE 1

Init ==
  /\ now = 0
  /\ packetTracker = EmptyMap /\ macPacketTracker = EmptyMap
  /\ reTransmissionTracker = EmptyMap
  /\ stage = [p \in Packets |-> "idle"]
  /\ attempts = [p \in Packets |-> 0]
  /\ firstTx = [p \in Packets |-> 0]
  /\ txTime = [p \in Packets |-> 0]
  /\ phyPending = [p \in Packets |-> {}]
  /\ macPending = [p \in Packets |-> {}]
  /\ delivered = [p \in Packets |-> FALSE]

\* The scheduler advances simulated time.
Tick == now < MaxTime /\ now' = now + 1 /\ UNCHANGED <<trackerVars, envVars>>

\* The sender's MAC sends (or resends) the packet.
MacSend(p) ==
  /\ stage[p] = "idle" /\ attempts[p] < Budget(p)
  /\ MacTransmissionCallback(p, Sender[p])
  /\ stage' = [stage EXCEPT ![p] = "macSent"]
  /\ attempts' = [attempts EXCEPT ![p] = @ + 1]
  /\ firstTx' = [firstTx EXCEPT ![p] = IF attempts[p] = 0 THEN now ELSE @]
  /\ UNCHANGED <<txTime, phyPending, macPending, delivered>>

\* The sender's PHY starts the transmission.
PhySend(p) ==
  /\ stage[p] = "macSent"
  /\ TransmissionCallback(p, Sender[p])
  /\ stage' = [stage EXCEPT ![p] = "onAir"]
  /\ txTime' = [txTime EXCEPT ![p] = now]
  /\ phyPending' = [phyPending EXCEPT ![p] = Hearers(p)]
  /\ UNCHANGED <<attempts, firstTx, macPending, delivered>>

\* Gateway g's PHY ends the reception with one of the five outcomes.
PhyOutcome(p, g) ==
  /\ stage[p] = "onAir" /\ g \in phyPending[p] /\ now > txTime[p]
  /\ phyPending' = [phyPending EXCEPT ![p] = @ \ {g}]
  /\ \/ /\ PacketReceptionCallback(p, g)
        /\ macPending' = [macPending EXCEPT ![p] = IF IsUplink(p) THEN @ \cup {g} ELSE @]
     \/ InterferenceCallback(p, g) /\ UNCHANGED macPending
     \/ NoMoreReceiversCallback(p, g) /\ UNCHANGED macPending
     \/ UnderSensitivityCallback(p, g) /\ UNCHANGED macPending
     \/ LostBecauseTxCallback(p, g) /\ UNCHANGED macPending
  /\ UNCHANGED <<stage, attempts, firstTx, txTime, delivered>>

\* Gateway g's MAC gets the packet its PHY received.
GwMacReceive(p, g) ==
  /\ g \in macPending[p]
  /\ MacGwReceptionCallback(p, g)
  /\ macPending' = [macPending EXCEPT ![p] = @ \ {g}]
  /\ delivered' = [delivered EXCEPT ![p] = TRUE]
  /\ UNCHANGED <<stage, attempts, firstTx, txTime, phyPending>>

\* The attempt is over.  An uplink is resent while no acknowledgement came
\* back and the budget allows; otherwise the cycle is reported, successful
\* only if the server got the packet and its acknowledgement arrived.
EndAttempt(p) ==
  /\ stage[p] = "onAir" /\ phyPending[p] = {} /\ macPending[p] = {}
  /\ \/ /\ IsUplink(p) /\ attempts[p] < MaxAttempts
        /\ stage' = [stage EXCEPT ![p] = "idle"]
        /\ UNCHANGED <<now, trackerVars>>
     \/ /\ IsUplink(p)
        /\ \E success \in IF delivered[p] THEN BOOLEAN ELSE {FALSE} :
              /\ success \/ attempts[p] = MaxAttempts
              /\ RequiredTransmissionsCallback(attempts[p], success, firstTx[p], p)
        /\ stage' = [stage EXCEPT ![p] = "done"]
     \/ /\ ~IsUplink(p)
        /\ stage' = [stage EXCEPT ![p] = "done"]
        /\ UNCHANGED <<now, trackerVars>>
  /\ UNCHANGED <<attempts, firstTx, txTime, phyPending, macPending, delivered>>

Next ==
  \/ Tick
  \/ \E p \in Packets :
       \/ MacSend(p) \/ PhySend(p) \/ EndAttempt(p)
       \/ \E g \in Gateways : PhyOutcome(p, g) \/ GwMacReceive(p, g)

Spec == Init /\ [][Next]_vars

\* Constant values for the cfg files: uplinks come from end devices 10,
\* 11, ..., downlinks from the first gateway; 23-byte application payloads
\* in MAC frames of 36 bytes, spreading factors 7 and 12 alternating.
MCSender ==
  LET ups == SetToSeq(Uplinks)
  IN  [p \in Packets |-> IF IsUplink(p) THEN 9 + CHOOSE i \in 1..Len(ups) : ups[i] = p
                                       ELSE Min(Gateways)]
MCPacketSize == [p \in Packets |-> 36]
MCPacketSf == [p \in Packets |-> IF MCSender[p] % 2 = 0 THEN 7 ELSE 12]

-----------------------------------------------------------------------------

TypeOK ==
  /\ now \in Times
  /\ DOMAIN packetTracker \subseteq Packets
  /\ \A p \in DOMAIN packetTracker :
       /\ packetTracker[p].sendTime \in Times /\ packetTracker[p].senderId \in Nodes
       /\ DOMAIN packetTracker[p].outcomes \subseteq Gateways
       /\ \A g \in DOMAIN packetTracker[p].outcomes : packetTracker[p].outcomes[g] \in Outcomes
  /\ DOMAIN macPacketTracker \subseteq Packets
  /\ \A p \in DOMAIN macPacketTracker :
       /\ macPacketTracker[p].sendTime \in Times /\ macPacketTracker[p].senderId \in Nodes
       /\ macPacketTracker[p].receivedTime \in Times \cup {TimeMax}
       /\ DOMAIN macPacketTracker[p].receptionTimes \subseteq Gateways
       /\ \A g \in DOMAIN macPacketTracker[p].receptionTimes :
            macPacketTracker[p].receptionTimes[g] \in Times
  /\ DOMAIN reTransmissionTracker \subseteq Packets
  /\ \A p \in DOMAIN reTransmissionTracker :
       reTransmissionTracker[p] \in [firstAttempt : Times, finishTime : Times,
                                     reTxAttempts : 0..255, successful : BOOLEAN]
  /\ stage \in [Packets -> Stages] /\ attempts \in [Packets -> 0..MaxAttempts]
  /\ phyPending \in [Packets -> SUBSET Gateways] /\ macPending \in [Packets -> SUBSET Gateways]

\* MacGwReceptionCallback keeps receivedTime, the time the packet first
\* reached the server, equal to the earliest reception time of any gateway
\* (Time::Max while none), across gateways reporting in any order and across
\* retransmissions of the same packet object.
EarliestReceivedIsMin ==
  \A p \in DOMAIN macPacketTracker :
    LET st == macPacketTracker[p]
    IN  st.receivedTime = IF DOMAIN st.receptionTimes = {} THEN TimeMax
                          ELSE Min(Range(st.receptionTimes))

\* The retransmission statistics never report more successful messages in
\* a window than the MAC statistics report delivered ones: a cycle ends in
\* success only after the server got the packet, and both counts window
\* the packet on its first transmission (CountMacPacketsGloballyCpsr on
\* firstAttempt, CountMacPacketsGlobally on the sendTime its first
\* MacTransmissionCallback recorded).
CpsrWithinMacDelivery ==
  \A s, e \in Times : s <= e =>
    CountMacPacketsGloballyCpsr(s, e)[2] <= CountMacPacketsGlobally(s, e)[2]

\* The classification the spec gives PrintSimulationStatistics: over all the
\* gateways' outcomes, the first of RECEIVED, INTERFERED, NO_MORE_RECEIVERS,
\* LOST_BECAUSE_TX present wins, and anything else is UNDER_SENSITIVITY.
PriorityClass(S) ==
  CASE "RECEIVED" \in S          -> "RECEIVED"
    [] "INTERFERED" \in S        -> "INTERFERED"
    [] "NO_MORE_RECEIVERS" \in S -> "NO_MORE_RECEIVERS"
    [] "LOST_BECAUSE_TX" \in S   -> "LOST_BECAUSE_TX"
    [] OTHER                     -> "UNDER_SENSITIVITY"

\* PrintSimulationStatistics's loop over the gateway outcomes (with its
\* break, its already-set flags and the if-else chain after it) puts every
\* recorded packet in the category of the priority order, whatever the
\* gateways reported and whichever gateway id comes first.
ClassifyMatchesPriority ==
  \A p \in DOMAIN packetTracker :
    ClassifyPacket(packetTracker[p].outcomes) = PriorityClass(Range(packetTracker[p].outcomes))

-----------------------------------------------------------------------------
(***************************************************************************)
(* What the spec and the code's comments say, checked against the code.    *)
(***************************************************************************)

\* PrintPhyPacketsPerGw prints the counts CountPhyPacketsPerGw returns, in
\* the order both functions' comments give: sent, received, interfered,
\* noMoreGw, underSensitivity, lostBecauseTx.
PrintMatchesCount ==
  \A s, e \in Times, g \in Gateways :
    PrintPhyPacketsPerGw(s, e, g) = CountPhyPacketsPerGw(s, e, g)

\* A gateway that delivered the packet to the server (MAC reception) is a
\* gateway whose PHY outcome for it is RECEIVED: the per-gateway PHY
\* counts and the MAC delivery counts describe the same receptions.
MacReceptionMatchesPhy ==
  \A p \in DOMAIN macPacketTracker :
    \A g \in DOMAIN macPacketTracker[p].receptionTimes :
      /\ p \in DOMAIN packetTracker
      /\ g \in DOMAIN packetTracker[p].outcomes
      /\ packetTracker[p].outcomes[g] = "RECEIVED"

\* PrintSimulationStatistics (startTime) with startTime < now reports
\* defined percentages; with no packet in range the spec wants NoTraffic,
\* never a NaN from 0 / 0.
StatisticsDefined ==
  \A s \in Times : s < now => PrintSimulationStatistics(s).pctReceived # "NaN"


-----------------------------------------------------------------------------
(***************************************************************************)
(* Refinement: the tracker's three maps, read as the log of first          *)
(* observations that PacketOutcomeLog specifies.                           *)
(***************************************************************************)

\* The (packet, gateway) pairs of a map of per-gateway maps.
PairsOf(m, field) == UNION {{<<p, g>> : g \in DOMAIN m[p][field]} : p \in DOMAIN m}

Log == INSTANCE PacketOutcomeLog WITH
  phySent <- [p \in DOMAIN packetTracker |->
                [sendTime |-> packetTracker[p].sendTime,
                 senderId |-> packetTracker[p].senderId]],
  outcome <- [pg \in PairsOf(packetTracker, "outcomes") |->
                packetTracker[pg[1]].outcomes[pg[2]]],
  macSent <- [p \in DOMAIN macPacketTracker |->
                [sendTime |-> macPacketTracker[p].sendTime,
                 senderId |-> macPacketTracker[p].senderId]],
  macRx   <- [pg \in PairsOf(macPacketTracker, "receptionTimes") |->
                macPacketTracker[pg[1]].receptionTimes[pg[2]]],
  cycle   <- reTransmissionTracker

\* Every behaviour of the tracker, driven by the PHY and MAC layers with
\* retransmissions of the same packet object, late and repeated gateway
\* reports and filtered downlinks, is a behaviour of the write-once log:
\* no callback changes a record once written, each record carries the
\* time of the callback that wrote it, and an outcome or a MAC reception
\* is recorded only for a packet whose send was recorded.
LogRefinement == Log!Spec

=============================================================================
