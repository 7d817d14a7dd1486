------------------------------- MODULE LoraPhy -------------------------------
(***************************************************************************)
(* The timing model of src/model/lora-phy.cc: symbol duration and on-air   *)
(* time of a LoRa frame (SX1272 modem designer's guide formula).           *)
(*                                                                         *)
(* A duration is kept exact, as a number of quarter symbols of the frame's *)
(* symbol time tSym = 2^sf / bandwidthHz, so the model adds no rounding.   *)
(* The one place where the C++ arithmetic is not the real-number formula   *)
(* is kept: in GetOnAirTime, 8 * pl - 4 * sf + 28 has type uint32_t (pl is *)
(* uint32_t) and wraps modulo 2^32 before the double conversion.  TLC      *)
(* integers are 32-bit signed, so 2^32 is written as 4 * 2^30 and the      *)
(* ceiling of the wrapped quotient is computed piece by piece.             *)
(***************************************************************************)
EXTENDS Integers

\* The fields of LoraTxParameters that GetTSym and GetOnAirTime read.
TxParamsType ==
  [sf : 6..12, headerDisabled : BOOLEAN, codingRate : 1..4,
   bandwidthHz : {125000, 250000, 500000}, nPreamble : 6..10,
   crcEnabled : BOOLEAN, lowDataRateOptimizationEnabled : BOOLEAN]

B2I(b) == IF b THEN 1 ELSE 0

MaxOf(a, b) == IF a >= b THEN a ELSE b

\* std::ceil (a / b) for b > 0 (\div is floor division).
Ceil(a, b) == -((-a) \div b)

\* GetTSym: 2^sf / bandwidthHz seconds.
GetTSym(txParams) == [num |-> 2^txParams.sf, den |-> txParams.bandwidthHz]

\* payloadSymbNb = 8 + max (ceil (num / den) * (codingRate + 4), 0) with
\* num = (uint32_t)(8 * pl - 4 * sf + 28) + 16 * crc - 20 * h.
\* The two double terms are added after the wrap, as the code does.
PayloadSymbNb(pl, txParams) ==
  LET u   == 8 * pl - 4 * txParams.sf + 28
      tail == 16 * B2I(txParams.crcEnabled) - 20 * B2I(txParams.headerDisabled)
      den == 4 * (txParams.sf - 2 * B2I(txParams.lowDataRateOptimizationEnabled))
      \* 2^32 = den * (4 * (2^30 \div den)) + 4 * (2^30 % den)
      q   == IF u >= 0 THEN Ceil(u + tail, den)
                       ELSE 4 * (2^30 \div den) + Ceil(4 * (2^30 % den) + u + tail, den)
  IN  8 + MaxOf(q * (txParams.codingRate + 4), 0)

\* Mutant: the frame size held in a uint8_t.
GetOnAirTimeU8(pl, txParams) ==
  [preambleQuarters |-> 4 * txParams.nPreamble + 17,
   payloadSymbols   |-> PayloadSymbNb(pl % 256, txParams),
   tSym             |-> GetTSym(txParams)]

\* GetOnAirTime: (nPreamble + 4.25) * tSym + payloadSymbNb * tSym, as
\* quarter symbols of preamble and whole symbols of payload.
GetOnAirTime(pl, txParams) ==
  [preambleQuarters |-> 4 * txParams.nPreamble + 17,
   payloadSymbols   |-> PayloadSymbNb(pl, txParams),
   tSym             |-> GetTSym(txParams)]

\* For two frames sent with the same parameters, a is no longer than b.
AirtimeLeq(a, b) ==
  /\ a.tSym = b.tSym /\ a.preambleQuarters = b.preambleQuarters
  /\ a.payloadSymbols <= b.payloadSymbols

=============================================================================
