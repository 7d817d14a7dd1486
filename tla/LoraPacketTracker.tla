--------------------------- MODULE LoraPacketTracker ---------------------------
(***************************************************************************)
(* The packet outcome tracker of src/helper/lora-packet-tracker.cc.        *)
(*                                                                         *)
(* The tracker is a set of trace callbacks wired to the PHY and MAC layers *)
(* of end devices and gateways, and of query functions run after (or       *)
(* during) the simulation.  Its state is three std::maps keyed by the      *)
(* packet object (Ptr<Packet const>): m_packetTracker (PHY outcomes per    *)
(* gateway), m_macPacketTracker (MAC receptions per gateway) and           *)
(* m_reTransmissionTracker (one record per finished retransmission cycle). *)
(* Every insertion is std::map::insert, which leaves an existing entry     *)
(* untouched; MapInsert below is that operation.                           *)
(*                                                                         *)
(* Each callback is one action.  Simulator::Now () is the variable now,    *)
(* which the scheduler (the environment, see MC_LoraPacketTracker) moves;  *)
(* Simulator::GetContext () is passed in as the node id of the caller.     *)
(* Queries are operators over the state.                                   *)
(***************************************************************************)
EXTENDS Integers, FiniteSets, Sequences, SequencesExt, TLC

CONSTANTS
  Packets,   \* packet objects (model values)
  Uplinks,   \* the packets whose LorawanMacHeader says uplink
  Gateways,  \* gateway node ids (integers: the outcome maps are ordered by them)
  Nodes,     \* node ids of the senders (end devices and gateways)
  MaxTime,   \* last simulated second
  PacketSize,\* packet -> packet->GetSize () in bytes
  PacketSf   \* packet -> spreading factor in its LoraTag

ASSUME Uplinks \subseteq Packets
ASSUME Gateways \subseteq Nat /\ Gateways # {}
ASSUME MaxTime \in Nat
ASSUME PacketSize \in [Packets -> Nat] /\ PacketSf \in [Packets -> 7..12]

Phy == INSTANCE LoraPhy

VARIABLES
  now,                  \* Simulator::Now (), in seconds
  packetTracker,        \* m_packetTracker
  macPacketTracker,     \* m_macPacketTracker
  reTransmissionTracker \* m_reTransmissionTracker

trackerVars == <<packetTracker, macPacketTracker, reTransmissionTracker>>

\* enum PhyPacketOutcome (UNSET is never recorded by any callback).
Outcomes == {"RECEIVED", "INTERFERED", "NO_MORE_RECEIVERS",
             "UNDER_SENSITIVITY", "LOST_BECAUSE_TX"}

Times == 0..MaxTime

\* Time::Max (): later than any simulated time.
TimeMax == MaxTime + 1

\* The empty std::map.
EmptyMap == [x \in {} |-> 0]

\* std::map::insert (std::pair (k, v)): no effect when k is already a key.
MapInsert(m, k, v) == IF k \in DOMAIN m THEN m ELSE m @@ (k :> v)

\* IsUplink: the copy's LorawanMacHeader says uplink.
IsUplink(packet) == packet \in Uplinks

-----------------------------------------------------------------------------
(***************************************************************************)
(* MAC metrics                                                             *)
(***************************************************************************)

\* MacTransmissionCallback, run in the context of the sending node.
MacTransmissionCallback(packet, context) ==
  /\ IF IsUplink(packet)
       THEN macPacketTracker' =
              MapInsert(macPacketTracker, packet,
                        [sendTime |-> now, senderId |-> context,
                         receivedTime |-> TimeMax, receptionTimes |-> EmptyMap])
       ELSE UNCHANGED macPacketTracker
  /\ UNCHANGED <<now, packetTracker, reTransmissionTracker>>

\* Mutant: the finish time stored as the first attempt.
RequiredTransmissionsCallbackNowFirst(reqTx, success, firstAttempt, packet) ==
  /\ reTransmissionTracker' =
       MapInsert(reTransmissionTracker, packet,
                 [firstAttempt |-> now, finishTime |-> now,
                  reTxAttempts |-> reqTx % 256, successful |-> success])
  /\ UNCHANGED <<now, packetTracker, macPacketTracker>>

\* RequiredTransmissionsCallback: no IsUplink filter.
RequiredTransmissionsCallback(reqTx, success, firstAttempt, packet) ==
  /\ reTransmissionTracker' =
       MapInsert(reTransmissionTracker, packet,
                 [firstAttempt |-> firstAttempt, finishTime |-> now,
                  reTxAttempts |-> reqTx % 256, successful |-> success])
  /\ UNCHANGED <<now, packetTracker, macPacketTracker>>

\* Mutant: receivedTime set to now without the comparison.
MacGwReceptionCallbackNoMin(packet, context) ==
  /\ IF IsUplink(packet)
       THEN /\ packet \in DOMAIN macPacketTracker
            /\ macPacketTracker' =
                 [macPacketTracker EXCEPT ![packet].receptionTimes = MapInsert(@, context, now),
                                          ![packet].receivedTime = now]
       ELSE UNCHANGED macPacketTracker
  /\ UNCHANGED <<now, packetTracker, reTransmissionTracker>>

\* MacGwReceptionCallback, run in the context of the receiving gateway.  A
\* packet missing from m_macPacketTracker hits NS_ABORT_MSG, which ends
\* the simulation: no step follows, so the action is not enabled.
MacGwReceptionCallback(packet, context) ==
  /\ IF IsUplink(packet)
       THEN /\ packet \in DOMAIN macPacketTracker
            /\ LET st == macPacketTracker[packet]
               IN  macPacketTracker' =
                     [macPacketTracker EXCEPT ![packet] =
                        [st EXCEPT !.receptionTimes = MapInsert(@, context, now),
                                   !.receivedTime = IF now < @ THEN now ELSE @]]
       ELSE UNCHANGED macPacketTracker
  /\ UNCHANGED <<now, packetTracker, reTransmissionTracker>>

-----------------------------------------------------------------------------
(***************************************************************************)
(* PHY metrics                                                             *)
(***************************************************************************)

\* TransmissionCallback (packet, edId).
TransmissionCallback(packet, edId) ==
  /\ IF IsUplink(packet)
       THEN packetTracker' =
              MapInsert(packetTracker, packet,
                        [sendTime |-> now, senderId |-> edId, outcomes |-> EmptyMap])
       ELSE UNCHANGED packetTracker
  /\ UNCHANGED <<now, macPacketTracker, reTransmissionTracker>>

\* Mutant: the outcome written with operator[], replacing an earlier one.
RecordOutcomeOverwrite(packet, gwId, outcome) ==
  /\ IF IsUplink(packet)
       THEN /\ packet \in DOMAIN packetTracker
            /\ packetTracker' =
                 [packetTracker EXCEPT ![packet].outcomes = (gwId :> outcome) @@ @]
       ELSE UNCHANGED packetTracker
  /\ UNCHANGED <<now, macPacketTracker, reTransmissionTracker>>

\* The body shared by the five outcome callbacks:
\* m_packetTracker.find (packet)->second.outcomes.insert (gwId, outcome).
\* The iterator is dereferenced unchecked; every packet reaching a gateway
\* was first recorded by TransmissionCallback, so find succeeds.
RecordOutcome(packet, gwId, outcome) ==
  /\ IF IsUplink(packet)
       THEN /\ packet \in DOMAIN packetTracker
            /\ packetTracker' =
                 [packetTracker EXCEPT ![packet].outcomes = MapInsert(@, gwId, outcome)]
       ELSE UNCHANGED packetTracker
  /\ UNCHANGED <<now, macPacketTracker, reTransmissionTracker>>

\* Mutant: the reception recorded with the enum's default, UNSET.
PacketReceptionCallbackUnset(packet, gwId) == RecordOutcome(packet, gwId, "UNSET")

PacketReceptionCallback(packet, gwId)  == RecordOutcome(packet, gwId, "RECEIVED")
InterferenceCallback(packet, gwId)     == RecordOutcome(packet, gwId, "INTERFERED")
NoMoreReceiversCallback(packet, gwId)  == RecordOutcome(packet, gwId, "NO_MORE_RECEIVERS")
UnderSensitivityCallback(packet, gwId) == RecordOutcome(packet, gwId, "UNDER_SENSITIVITY")
LostBecauseTxCallback(packet, gwId)    == RecordOutcome(packet, gwId, "LOST_BECAUSE_TX")

-----------------------------------------------------------------------------
(***************************************************************************)
(* Counting functions (read-only).  The std::string results are the        *)
(* numbers they print, in the order printed.                               *)
(***************************************************************************)

InWindow(t, startTime, stopTime) == t >= startTime /\ t <= stopTime

\* The PHY records in the window whose outcome at gwId is outcome.
PhyWithOutcome(startTime, stopTime, gwId, outcome) ==
  {p \in DOMAIN packetTracker :
     /\ InWindow(packetTracker[p].sendTime, startTime, stopTime)
     /\ gwId \in DOMAIN packetTracker[p].outcomes
     /\ packetTracker[p].outcomes[gwId] = outcome}

PhySentIn(startTime, stopTime) ==
  {p \in DOMAIN packetTracker : InWindow(packetTracker[p].sendTime, startTime, stopTime)}

\* CountPhyPacketsPerGw: <<sent, received, interfered, noMoreGw,
\* underSensitivity, lostBecauseTx>>, as its comment lists them.
CountPhyPacketsPerGw(startTime, stopTime, gwId) ==
  LET n(o) == Cardinality(PhyWithOutcome(startTime, stopTime, gwId, o))
  IN  <<Cardinality(PhySentIn(startTime, stopTime)), n("RECEIVED"), n("INTERFERED"),
        n("NO_MORE_RECEIVERS"), n("UNDER_SENSITIVITY"), n("LOST_BECAUSE_TX")>>

\* PrintPhyPacketsPerGw: the same loop, whose switch puts LOST_BECAUSE_TX
\* in slot 4 and UNDER_SENSITIVITY in slot 5.
PrintPhyPacketsPerGw(startTime, stopTime, gwId) ==
  LET n(o) == Cardinality(PhyWithOutcome(startTime, stopTime, gwId, o))
  IN  <<Cardinality(PhySentIn(startTime, stopTime)), n("RECEIVED"), n("INTERFERED"),
        n("NO_MORE_RECEIVERS"), n("LOST_BECAUSE_TX"), n("UNDER_SENSITIVITY")>>

\* The MAC records sent in the window, optionally by one sender.
MacSentIn(startTime, stopTime) ==
  {p \in DOMAIN macPacketTracker : InWindow(macPacketTracker[p].sendTime, startTime, stopTime)}

MacDelivered(S) == {p \in S : DOMAIN macPacketTracker[p].receptionTimes # {}}

\* CountMacPacketsGlobally: "sent received".
CountMacPacketsGlobally(startTime, stopTime) ==
  LET S == MacSentIn(startTime, stopTime)
  IN  <<Cardinality(S), Cardinality(MacDelivered(S))>>

\* CountMacPacketsGloballyCpsr: windows on the first attempt, counts the
\* successful retransmission cycles.
CountMacPacketsGloballyCpsr(startTime, stopTime) ==
  LET S == {p \in DOMAIN reTransmissionTracker :
              InWindow(reTransmissionTracker[p].firstAttempt, startTime, stopTime)}
  IN  <<Cardinality(S), Cardinality({p \in S : reTransmissionTracker[p].successful})>>

\* PrintDevicePackets: CountMacPacketsGlobally restricted to one sender.
PrintDevicePackets(startTime, stopTime, devId) ==
  LET S == {p \in MacSentIn(startTime, stopTime) : macPacketTracker[p].senderId = devId}
  IN  <<Cardinality(S), Cardinality(MacDelivered(S))>>

-----------------------------------------------------------------------------
(***************************************************************************)
(* PrintSimulationStatistics                                               *)
(***************************************************************************)

NoFlags == [received |-> FALSE, interfered |-> FALSE, noPaths |-> FALSE, busyGw |-> FALSE]

\* The inner loop over pd.second.outcomes, in ascending gateway order:
\* RECEIVED sets received and breaks; the else-if chain sets the first
\* flag that matches and is still clear.
RECURSIVE OutcomeLoop(_, _, _)
OutcomeLoop(outcomes, gws, flags) ==
  IF gws = <<>> THEN flags
  ELSE LET o == outcomes[Head(gws)]
       IN  IF o = "RECEIVED" THEN [flags EXCEPT !.received = TRUE]
           ELSE OutcomeLoop(outcomes, Tail(gws),
                  CASE ~flags.interfered /\ o = "INTERFERED" -> [flags EXCEPT !.interfered = TRUE]
                    [] ~flags.noPaths /\ o = "NO_MORE_RECEIVERS" -> [flags EXCEPT !.noPaths = TRUE]
                    [] ~flags.busyGw /\ o = "LOST_BECAUSE_TX" -> [flags EXCEPT !.busyGw = TRUE]
                    [] OTHER -> flags)

\* Mutant: LOST_BECAUSE_TX tested before NO_MORE_RECEIVERS in the chain.
ClassifyPacketSwapped(outcomes) ==
  LET f == OutcomeLoop(outcomes, SetToSortSeq(DOMAIN outcomes, <), NoFlags)
  IN  CASE f.received   -> "RECEIVED"
        [] f.interfered -> "INTERFERED"
        [] f.busyGw     -> "LOST_BECAUSE_TX"
        [] f.noPaths    -> "NO_MORE_RECEIVERS"
        [] OTHER        -> "UNDER_SENSITIVITY"

\* The category a packet is counted in: the loop, then the if-else chain
\* over its flags.
ClassifyPacket(outcomes) ==
  LET f == OutcomeLoop(outcomes, SetToSortSeq(DOMAIN outcomes, <), NoFlags)
  IN  CASE f.received   -> "RECEIVED"
        [] f.interfered -> "INTERFERED"
        [] f.noPaths    -> "NO_MORE_RECEIVERS"
        [] f.busyGw     -> "LOST_BECAUSE_TX"
        [] OTHER        -> "UNDER_SENSITIVITY"

\* The LoraTxParameters used for the offered traffic: the tag's spreading
\* factor, the default profile otherwise, and the low data rate flag set
\* when GetTSym exceeds 16 ms.
StatsTxParams(packet) ==
  LET base == [sf |-> PacketSf[packet], headerDisabled |-> FALSE, codingRate |-> 1,
               bandwidthHz |-> 125000, nPreamble |-> 8, crcEnabled |-> TRUE,
               lowDataRateOptimizationEnabled |-> FALSE]
      tSym == Phy!GetTSym(base)
  IN  [base EXCEPT !.lowDataRateOptimizationEnabled = tSym.num * 1000 > 16 * tSym.den]

\* On-air time of a packet in units of 1 / (4 * 125000) s.
StatsAirtime(packet) ==
  LET t == Phy!GetOnAirTime(PacketSize[packet], StatsTxParams(packet))
  IN  (t.preambleQuarters + 4 * t.payloadSymbols) * t.tSym.num

\* totX / total * 100 as a double: 0 / 0 is NaN.
Percent(x, total) == IF total = 0 THEN "NaN" ELSE [num |-> 100 * x, den |-> total]

\* PrintSimulationStatistics (startTime), caller asserts startTime < now.
\* Packets sent before startTime - 5 s are skipped; the others are
\* classified, and their bytes and on-air time summed.
PrintSimulationStatistics(startTime) ==
  LET S       == {p \in DOMAIN packetTracker : ~(packetTracker[p].sendTime < startTime - 5)}
      cat(p)  == ClassifyPacket(packetTracker[p].outcomes)
      n(c)    == Cardinality({p \in S : cat(p) = c})
      total   == Cardinality(S)
      totTime == now - startTime
  IN  [total            |-> total,
       received         |-> n("RECEIVED"),
       pctReceived      |-> Percent(n("RECEIVED"), total),
       pctInterfered    |-> Percent(n("INTERFERED"), total),
       pctNoMorePaths   |-> Percent(n("NO_MORE_RECEIVERS"), total),
       pctBusyGw        |-> Percent(n("LOST_BECAUSE_TX"), total),
       pctUnderSens     |-> Percent(n("UNDER_SENSITIVITY"), total),
       inputTraffic     |-> [num |-> 8 * MapThenSumSet(LAMBDA p : PacketSize[p], S),
                             den |-> totTime],
       throughput       |-> [num |-> 8 * MapThenSumSet(LAMBDA p : PacketSize[p],
                                                        {p \in S : cat(p) = "RECEIVED"}),
                             den |-> totTime],
       offeredTraffic   |-> [num |-> MapThenSumSet(StatsAirtime, S),
                             den |-> 4 * 125000 * totTime]]

=============================================================================
