------------------------------- MODULE Event -------------------------------
(***************************************************************************)
(* The event contract (internal/event) as the rest of the platform sees    *)
(* it.  A record's bytes are abstracted to what the code that reads them   *)
(* tells apart: which of the successive checks they pass, the identity and *)
(* the vehicle they name, and the event time.                              *)
(***************************************************************************)
EXTENDS Integers

CONSTANTS EventIds,   \* values of the envelope's event_id
          Vehicles,   \* values of vehicle_id, the ingest partition key
          Times,      \* values of event_ts
          Payloads    \* the record values that producers may put on the log

\* What happens to a record's bytes, in the order the consumer finds out:
\*   null        the record has no value at all
\*   blank       a value of no bytes
\*   garbled     Decode fails, so no event_id can be read from them
\*   unknown     an envelope of an event_type this build does not implement
\*   invalid     a vehicle.position that AsVehiclePosition refuses
\*   unstorable  valid to Go, refused by Postgres with a class 22 or 23 error
\*   position    a vehicle position the database stores
Kinds == {"null", "blank", "garbled", "unknown", "invalid", "unstorable", "position"}

PayloadType == [kind : Kinds, id : EventIds, vehicle : Vehicles, ts : Times]

\* The fields of a payload that does not decode only keep its bytes apart
\* from others'; no definition reads them.
ASSUME EventAssumption ==
    /\ Times \subseteq Int
    /\ Payloads \subseteq PayloadType

\* Decode and validateHeader accept the envelope.
Decodes(v) == v.kind \notin {"null", "blank", "garbled"}

IsKnownEventType(v) == v.kind \in {"invalid", "unstorable", "position"}

\* The payload parses and Validate finds every field in range.
AsVehiclePosition(v) == v.kind \in {"unstorable", "position"}
=============================================================================
