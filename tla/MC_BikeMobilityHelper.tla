------------------------ MODULE MC_BikeMobilityHelper ------------------------
(***************************************************************************)
(* The mobility example's set-up over every dataset of up to MaxRows trip  *)
(* rows of two bikes whose numbers sort differently as strings and as      *)
(* numbers, with the second data row faulty.                               *)
(***************************************************************************)
EXTENDS BikeMobilityHelper

MCBikeOrder == <<"12", "7">>

\* The waypoints the trips of bike b should give its node: the start and
\* end of each of its rows, in dataset order, leaving out the rows whose
\* 0-based index is faulty.
TripWaypoints(b) ==
  FoldLeft(LAMBDA w, i : w \o RowWaypoints(dataset, i), <<>>,
           SelectSeq([i \in 1..Len(dataset) |-> i],
                     LAMBDA i : dataset[i].bikeNumber = b /\ (i - 1) \notin FaultyRows))

\* When SaveWaypoints returns, every bike has a node of its own among the
\* nodes created (one per map entry), and that node's waypoints are
\* exactly its bike's non-faulty trips in dataset order: the keys of
\* createBikeNumberMap index the node container, and the row counter
\* stays the dataset index across skipped rows.
TripsPerBike ==
  pc = "done" =>
    \A b \in UniqueBikeNumbers(dataset) :
      /\ myMap[b] \in DOMAIN waypoints
      /\ waypoints[myMap[b]] = TripWaypoints(b)

=============================================================================
