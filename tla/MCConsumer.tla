----------------------------- MODULE MCConsumer -----------------------------
(* The instances of Consumer that TLC checks.                              *)
EXTENDS Consumer, TLC

CONSTANTS e1, e2, v1

\* An event that may be delivered twice, and one that arrives late or on time
\* depending on the order: nothing but an outage refuses them.
Positions ==
    {[kind |-> "position", id |-> e1, vehicle |-> v1, ts |-> 2],
     [kind |-> "position", id |-> e2, vehicle |-> v1, ts |-> 1]}

\* Besides them one payload for each way of being refused, by the database, by
\* its type and for lack of an envelope, and one that cannot even be refused.
MCPayloads ==
    Positions \cup
      {[kind |-> "unstorable", id |-> e2, vehicle |-> v1, ts |-> 2],
       [kind |-> "unknown",    id |-> e2, vehicle |-> v1, ts |-> 1],
       [kind |-> "garbled",    id |-> e1, vehicle |-> v1, ts |-> 1],
       [kind |-> "null",       id |-> e1, vehicle |-> v1, ts |-> 1]}

\* With one partition every key goes there.
MCPartitionOf == [k \in Vehicles \cup LetterIds |-> CHOOSE p \in Partitions : TRUE]

MemberSymmetry == Permutations(Members)
=============================================================================
