--------------------------- MODULE PacketOutcomeLog ---------------------------
(***************************************************************************)
(* What the packet outcome tracker promises, without its data structures:  *)
(* a log of first observations.  Each packet's PHY and MAC send, each      *)
(* (packet, gateway) PHY outcome and MAC reception, and each packet's      *)
(* retransmission-cycle report is recorded at most once, stamped with the  *)
(* simulated time at which it was observed, and never changed afterwards;  *)
(* an observation of a packet whose send was not logged is not logged.    *)
(* A repeated observation leaves the log as it is (the specification's     *)
(* DuplicateOutcome: rejected, not fatal).                                 *)
(***************************************************************************)
EXTENDS Integers

CONSTANTS Packets, Gateways, Nodes, Outcomes, Times

VARIABLES
  now,      \* simulated time
  phySent,  \* packet -> [sendTime, senderId]
  outcome,  \* <<packet, gateway>> -> PHY outcome
  macSent,  \* packet -> [sendTime, senderId]
  macRx,    \* <<packet, gateway>> -> reception time
  cycle     \* packet -> [firstAttempt, finishTime, reTxAttempts, successful]

vars == <<now, phySent, outcome, macSent, macRx, cycle>>

Write(log, k, v) == [x \in DOMAIN log \cup {k} |-> IF x = k THEN v ELSE log[x]]

Init ==
  /\ now \in Times
  /\ phySent = <<>> /\ outcome = <<>> /\ macSent = <<>>
  /\ macRx = <<>> /\ cycle = <<>>

AdvanceTime == \E t \in Times : t > now /\ now' = t /\ UNCHANGED <<phySent, outcome, macSent, macRx, cycle>>

LogPhySend(p, s) ==
  /\ p \notin DOMAIN phySent
  /\ phySent' = Write(phySent, p, [sendTime |-> now, senderId |-> s])
  /\ UNCHANGED <<now, outcome, macSent, macRx, cycle>>

LogOutcome(p, g, o) ==
  /\ p \in DOMAIN phySent /\ <<p, g>> \notin DOMAIN outcome
  /\ outcome' = Write(outcome, <<p, g>>, o)
  /\ UNCHANGED <<now, phySent, macSent, macRx, cycle>>

LogMacSend(p, s) ==
  /\ p \notin DOMAIN macSent
  /\ macSent' = Write(macSent, p, [sendTime |-> now, senderId |-> s])
  /\ UNCHANGED <<now, phySent, outcome, macRx, cycle>>

LogMacReception(p, g) ==
  /\ p \in DOMAIN macSent /\ <<p, g>> \notin DOMAIN macRx
  /\ macRx' = Write(macRx, <<p, g>>, now)
  /\ UNCHANGED <<now, phySent, outcome, macSent, cycle>>

\* The cycle report is any record finishing now (the attempt count is the
\* MAC's uint8_t); stated by membership rather than by choice, so that the
\* 256 attempt counts are not enumerated when a step is checked.
CycleRecord == [firstAttempt : {t \in Times : t <= now}, finishTime : {now},
                reTxAttempts : 0..255, successful : BOOLEAN]

LogCycle(p) ==
  /\ p \notin DOMAIN cycle
  /\ DOMAIN cycle' = DOMAIN cycle \cup {p}
  /\ cycle'[p] \in CycleRecord
  /\ \A q \in DOMAIN cycle : cycle'[q] = cycle[q]
  /\ UNCHANGED <<now, phySent, outcome, macSent, macRx>>

Next ==
  \/ AdvanceTime
  \/ \E p \in Packets, s \in Nodes : LogPhySend(p, s) \/ LogMacSend(p, s)
  \/ \E p \in Packets, g \in Gateways :
       \/ \E o \in Outcomes : LogOutcome(p, g, o)
       \/ LogMacReception(p, g)
  \/ \E p \in Packets : LogCycle(p)

Spec == Init /\ [][Next]_vars

=============================================================================
