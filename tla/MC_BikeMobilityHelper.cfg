\* Two bikes, trip times 0..1, datasets of up to three rows, row 1 faulty.
CONSTANTS
  BikeOrder <- MCBikeOrder
  Times = {0, 1}
  FaultyRows = {1}
  MaxRows = 3
SPECIFICATION Spec
\* main returns once SaveWaypoints has returned.
CHECK_DEADLOCK FALSE
INVARIANT TripsPerBike
