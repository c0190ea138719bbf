------------------------------ MODULE MCIngest ------------------------------
(* The instance of Ingest that TLC checks.                                 *)
EXTENDS Ingest

CONSTANTS a, b, e1, e2, e3, v1, v2

\* Two vehicles on a partition each; one caller's batches may hold reports
\* with and without an id, one that is refused and two of one vehicle, or be
\* too large, and another caller appends to one of the partitions.
MCReports ==
    [c \in Callers |->
        IF c = a
        THEN <<[vehicle |-> v1, id |-> e1,   valid |-> TRUE],
               [vehicle |-> v2, id |-> NoId, valid |-> TRUE],
               [vehicle |-> v1, id |-> NoId, valid |-> FALSE],
               [vehicle |-> v1, id |-> e2,   valid |-> TRUE]>>
        ELSE <<[vehicle |-> v2, id |-> e3,   valid |-> TRUE]>>]

MCPartitionOf == [k \in Keys |-> IF k \in {v1, e1} THEN 0 ELSE 1]
=============================================================================
