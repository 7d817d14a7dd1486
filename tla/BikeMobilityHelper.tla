-------------------------- MODULE BikeMobilityHelper --------------------------
(***************************************************************************)
(* src/helper/bike-mobility-helper.cc, as the mobility example             *)
(* (src/examples/Mobility_Examples/test_ex.cc) runs it: read the trip      *)
(* dataset, give every distinct bike number a key (createBikeNumberMap),   *)
(* create one node per key with a WaypointMobilityModel, and turn every    *)
(* trip row into a start and an end waypoint of its bike's node            *)
(* (SaveWaypoints), skipping the rows known to be faulty.                  *)
(*                                                                         *)
(* Data is abstracted: a row keeps the bike number and the start and end   *)
(* times; a waypoint's position (the row's longitude and latitude) is the  *)
(* row index with "start" or "end".  Bike numbers are strings, so the      *)
(* order std::set<std::string> iterates them in is the constant BikeOrder. *)
(***************************************************************************)
EXTENDS Integers, Sequences, SequencesExt, FiniteSets

CONSTANTS
  BikeOrder,   \* every bike number, in std::string order
  Times,       \* trip start and end times (seconds)
  FaultyRows,  \* the data-row indices (0-based) SaveWaypoints skips
  MaxRows      \* bound on the rows of the dataset file

VARIABLES
  pc,          \* where test_ex's main is: "read", "map", "create", "callSave", "save", "done"
  dataset,     \* std::vector<BikeData>
  myMap,       \* std::map<std::string, int>: bike number -> key
  waypoints,   \* node index -> the waypoints added to its WaypointMobilityModel
  idx,         \* SaveWaypoints: position of the outer loop in dataset (1-based)
  row          \* SaveWaypoints: the row counter

vars == <<pc, dataset, myMap, waypoints, idx, row>>

Bikes == Range(BikeOrder)

\* BikeData: the fields SaveWaypoints reads.
BikeData == [bikeNumber : Bikes, time_started : Times, time_ended : Times]

\* Collect unique bike numbers.
UniqueBikeNumbers(ds) == {ds[i].bikeNumber : i \in DOMAIN ds}

\* Mutant: the key pre-incremented (myMap[bikeNumber] = ++key).
CreateBikeNumberMapPreInc(ds) ==
  LET ordered == SelectSeq(BikeOrder, LAMBDA b : b \in UniqueBikeNumbers(ds))
  IN  FoldLeft(LAMBDA acc, b : [map |-> acc.map @@ (b :> acc.key + 1), key |-> acc.key + 1],
               [map |-> <<>>, key |-> 0], ordered).map

\* createBikeNumberMap: the unique bike numbers, in set order, get the keys
\* 0, 1, ... (myMap[bikeNumber] = key++).
CreateBikeNumberMap(ds) ==
  LET ordered == SelectSeq(BikeOrder, LAMBDA b : b \in UniqueBikeNumbers(ds))
  IN  FoldLeft(LAMBDA acc, b : [map |-> acc.map @@ (b :> acc.key), key |-> acc.key + 1],
               [map |-> <<>>, key |-> 0], ordered).map

\* The two waypoints of row i: Waypoint 1 at the start, Waypoint 2 at the end.
RowWaypoints(ds, i) ==
  << [time |-> ds[i].time_started, pos |-> <<i, "start">>],
     [time |-> ds[i].time_ended,   pos |-> <<i, "end">>] >>

Init ==
  /\ pc = "read"
  /\ dataset = <<>> /\ myMap = <<>> /\ waypoints = <<>>
  /\ idx = 0 /\ row = 0

\* readDataset: the rows of the file after its header line, one BikeData
\* each, in file order; the empty vector when the file does not open.
ReadDataset ==
  /\ pc = "read"
  /\ \E n \in 0..MaxRows : \E ds \in [1..n -> BikeData] : dataset' = ds
  /\ pc' = "map"
  /\ UNCHANGED <<myMap, waypoints, idx, row>>

CreateMap ==
  /\ pc = "map"
  /\ myMap' = CreateBikeNumberMap(dataset)
  /\ pc' = "create"
  /\ UNCHANGED <<dataset, waypoints, idx, row>>

\* nodes.Create (myMap.size ()) and a WaypointMobilityModel, with no
\* waypoint yet, on each node.
CreateNodes ==
  /\ pc = "create"
  /\ waypoints' = [n \in 0..Cardinality(DOMAIN myMap) - 1 |-> <<>>]
  /\ pc' = "callSave"
  /\ UNCHANGED <<dataset, myMap, idx, row>>

\* SaveWaypoints is entered: row = 0, the loop starts at the first row.
BeginSave ==
  /\ pc = "callSave"
  /\ row' = 0 /\ idx' = 1
  /\ pc' = "save"
  /\ UNCHANGED <<dataset, myMap, waypoints>>

\* Mutant: the faulty-row branch forgets row++.
SaveRowNoSkipIncrement ==
  /\ pc = "save" /\ idx <= Len(dataset)
  /\ idx' = idx + 1
  /\ row' = IF row \in FaultyRows THEN row ELSE row + 1
  /\ LET key == myMap[dataset[idx].bikeNumber]
     IN  waypoints' = IF row \in FaultyRows THEN waypoints
                      ELSE [waypoints EXCEPT ![key] = @ \o RowWaypoints(dataset, idx)]
  /\ UNCHANGED <<pc, dataset, myMap>>

\* One iteration of the outer loop.  The inner loop over myMap finds the
\* row's bike number exactly once, the map being built from the same
\* dataset.  Both branches count the row: a faulty row is skipped, any
\* other adds its two waypoints to node nodes.Get (myMap[bike]).
SaveRow ==
  /\ pc = "save" /\ idx <= Len(dataset)
  /\ idx' = idx + 1
  /\ row' = row + 1
  /\ LET key == myMap[dataset[idx].bikeNumber]
     IN  waypoints' = IF row \in FaultyRows THEN waypoints
                      ELSE [waypoints EXCEPT ![key] = @ \o RowWaypoints(dataset, idx)]
  /\ UNCHANGED <<pc, dataset, myMap>>

\* The loop is over; SaveWaypoints returns.
EndSave ==
  /\ pc = "save" /\ idx > Len(dataset)
  /\ pc' = "done"
  /\ UNCHANGED <<dataset, myMap, waypoints, idx, row>>

Next ==
  \/ ReadDataset \/ CreateMap \/ CreateNodes \/ BeginSave \/ SaveRow \/ EndSave

Spec == Init /\ [][Next]_vars

=============================================================================
