----------------------------- MODULE MCGateway -----------------------------
(* The instances of Gateway that TLC checks.                               *)
EXTENDS Gateway

\* Two events share a second, which is what the resume's tiebreak is for; any
\* event may be applied, and published, before or after any other.
MCIdOrder == [e \in EventIds |-> e]
MCEventTs == [e \in EventIds |-> IF e \in {1, 2} THEN 1 ELSE e]
=============================================================================
