------------------------------ MODULE MCSinkTx ------------------------------
(* The instance of SinkTx that TLC checks.                                 *)
EXTENDS SinkTx, TLC

CONSTANTS e1, e2, v1, v2

\* Deliveries of the same event, and events of one vehicle in either order of
\* time, meet on every lock; one event reuses an identity for another vehicle,
\* and the last payload fails after it has taken the event's lock.
MCPayloads ==
    {[kind |-> "position",   id |-> e1, vehicle |-> v1, ts |-> 1],
     [kind |-> "position",   id |-> e2, vehicle |-> v1, ts |-> 2],
     [kind |-> "position",   id |-> e2, vehicle |-> v2, ts |-> 1],
     [kind |-> "unstorable", id |-> e1, vehicle |-> v1, ts |-> 1]}
=============================================================================
