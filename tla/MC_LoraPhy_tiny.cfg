\* Frames of every size from 0 bytes: what GetOnAirTime does for frames
\* shorter than a MAC header.
CONSTANTS
  MinSize = 0
  MaxSize = 16
  SpreadingFactors = {7, 8, 9, 10, 11, 12}
  Bandwidths = {125000}
SPECIFICATION Spec
PROPERTY AirtimeMonotone
