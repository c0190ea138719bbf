----------------------------- MODULE MCPipeline -----------------------------
(* The instance of Pipeline that TLC checks.                               *)
EXTENDS Pipeline

CONSTANTS e1, e2, v1

\* Two events of a vehicle; the one with the greater id is the older one, so
\* that it is late when it comes second.
MCIdOrder == [e \in EventIds |-> IF e = e1 THEN 1 ELSE 2]
MCEventTs == [e \in EventIds |-> IF e = e1 THEN 2 ELSE 1]
MCVehicleOf == [e \in EventIds |-> v1]
MCPayloads ==
    {[kind |-> "position", id |-> e, vehicle |-> v1, ts |-> MCEventTs[e]]
        : e \in EventIds}

MCPartitionOf == [k \in Vehicles \cup LetterIds |-> CHOOSE p \in Partitions : TRUE]
=============================================================================
