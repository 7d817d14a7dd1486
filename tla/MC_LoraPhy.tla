------------------------------ MODULE MC_LoraPhy ------------------------------
(***************************************************************************)
(* Drives LoraPhy!GetOnAirTime over bounded inputs.  A state is one call   *)
(* of GetOnAirTime: a LoraTxParameters value and the frame size in bytes   *)
(* (packet->GetSize ()).  A step either grows the frame by one byte or     *)
(* switches to other parameters, so the model checker compares the on-air  *)
(* time of every size with that of the next size for every parameter set.  *)
(***************************************************************************)
EXTENDS LoraPhy

CONSTANTS
  MinSize,          \* smallest frame size in bytes
  MaxSize,          \* largest frame size in bytes
  SpreadingFactors, \* spreading factors used
  Bandwidths        \* bandwidths in Hz

ASSUME MinSize \in Nat /\ MaxSize \in Nat /\ MinSize < MaxSize
ASSUME SpreadingFactors \subseteq 6..12

\* The parameter sets enumerated: every flag and coding rate, the default
\* preamble of 8 symbols.
Params ==
  {p \in TxParamsType : p.sf \in SpreadingFactors /\ p.bandwidthHz \in Bandwidths
                        /\ p.nPreamble = 8}

VARIABLES txParams, pl

vars == <<txParams, pl>>

Init == txParams \in Params /\ pl = MinSize

AddByte == pl < MaxSize /\ pl' = pl + 1 /\ UNCHANGED txParams

SetParams == \E p \in Params : txParams' = p /\ pl' = MinSize

Next == AddByte \/ SetParams

Spec == Init /\ [][Next]_vars

\* GetOnAirTime is monotonic in the frame size: with the parameters held,
\* one more byte never gives a shorter on-air time (spec section 8).  The
\* uint32_t arithmetic of GetOnAirTime's numerator is what can break it.
AirtimeMonotone ==
  [][txParams' = txParams /\ pl' > pl
       => AirtimeLeq(GetOnAirTime(pl, txParams), GetOnAirTime(pl', txParams))]_vars

=============================================================================
