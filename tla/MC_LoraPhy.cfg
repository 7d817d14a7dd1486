\* Frames from the smallest LoRaWAN MAC frame (MHDR 1 byte + FHDR 7 bytes)
\* up to past the 255-byte LoRa payload limit, which the simulator does not
\* enforce.
CONSTANTS
  MinSize = 8
  MaxSize = 260
  SpreadingFactors = {7, 8, 9, 10, 11, 12}
  Bandwidths = {125000}
SPECIFICATION Spec
PROPERTY AirtimeMonotone
