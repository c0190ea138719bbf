------------------------------ MODULE MCReplay ------------------------------
(* The instances of Replay that TLC checks.                                *)
EXTENDS Replay

CONSTANTS e1, v1

\* An event that only an outage can have refused.
Outage == {[kind |-> "position", id |-> e1, vehicle |-> v1, ts |-> 1]}

\* An event the database will refuse every time.
Poison == {[kind |-> "unstorable", id |-> e1, vehicle |-> v1, ts |-> 1]}

\* Besides the outage: other bytes under the same event id, which are refused
\* every time, and a record that can be neither applied nor refused.
Mixed == Outage \cup
    {[kind |-> "invalid", id |-> e1, vehicle |-> v1, ts |-> 1],
     [kind |-> "null",    id |-> e1, vehicle |-> v1, ts |-> 1]}

\* A vehicle key and an event-id key hash to different partitions when there
\* are two.
MCPartitionOf ==
    [k \in Vehicles \cup LetterIds |->
        IF k = v1 THEN CHOOSE p \in Partitions : \A q \in Partitions : p <= q
                  ELSE CHOOSE p \in Partitions : \A q \in Partitions : p >= q]
=============================================================================
