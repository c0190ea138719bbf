-------------------------------- MODULE Sink --------------------------------
(***************************************************************************)
(* The Postgres sink (internal/sink, the schema under platform/migrations) *)
(* as its callers see it: every call is one atomic step on the tables,     *)
(* followed by the caller reading the call's result.  SinkTx shows that    *)
(* the statements Apply really runs implement this specification.          *)
(*                                                                         *)
(* A table is a set of rows, so that primary-key uniqueness is a theorem   *)
(* about the statements and not a consequence of the representation.       *)
(***************************************************************************)
EXTENDS Event, FiniteSets

CONSTANTS Workers,     \* the processes that call the sink
          Partitions,  \* partitions of the raw topic
          MaxLog       \* bound: records one partition may hold

ASSUME SinkAssumption ==
    /\ Partitions \subseteq Nat
    /\ MaxLog \in Nat

Offsets == 0 .. MaxLog - 1

VARIABLES processed,    \* processed_events
          positions,    \* vehicle_positions
          current,      \* vehicle_current
          eventCount,   \* schema_versions.event_count of (v1, vehicle.position)
          deadLetters,  \* dead_letters
          outcome       \* result of each worker's last call, until it is read

tables == <<processed, positions, current, eventCount, deadLetters>>
sinkVars == <<processed, positions, current, eventCount, deadLetters, outcome>>

\* A refused record is filed under its event_id; one that has no readable
\* envelope gets an id derived from its place in the log (positionID).
LetterIds == EventIds \cup (Partitions \X Offsets)
LetterId(v, p, o) == IF Decodes(v) THEN v.id ELSE <<p, o>>

Reasons == {"decode", "unknown_version", "retries_exhausted"}
States  == {"dead", "replayed"}

\* "transient" and "permanent" are errors as isPermanent classifies them.
Results == {"none", "applied", "late", "duplicate", "recorded", "marked",
            "unmarked", "transient", "permanent"}

ProcessedRows ==
    [id : EventIds, consumer : Workers, partition : Partitions, offset : Offsets]
PositionRows ==
    [id : EventIds, vehicle : Vehicles, ts : Times, partition : Partitions,
     offset : Offsets]
CurrentRows == [vehicle : Vehicles, ts : Times, id : EventIds]
LetterRows ==
    [id : LetterIds, payload : Payloads, reason : Reasons, state : States]

SinkInit ==
    /\ processed = {}
    /\ positions = {}
    /\ current = {}
    /\ eventCount = 0
    /\ deadLetters = {}
    /\ outcome = [w \in Workers |-> "none"]
-----------------------------------------------------------------------------
\* The database refuses a value of the row (classes 22 and 23).
Storable(v) == v.kind = "position"

\* (mutant) The gate is dropped: every delivery is taken for a new event.
DuplicateNever(v) == FALSE

\* The deduplication gate: the insert into processed_events conflicts.
Duplicate(v) == \E r \in processed : r.id = v.id

\* (mutant) The upsert lost its WHERE clause: the last writer wins.
NewerAlways(v) == TRUE

\* The late-data rule, EXCLUDED.last_event_ts > vehicle_current.last_event_ts.
Newer(v) == \A c \in current : c.vehicle = v.vehicle => v.ts > c.ts

ProcessedWith(w, v, p, o) ==
    processed \cup
      {[id |-> v.id, consumer |-> w, partition |-> p, offset |-> o]}

\* ON CONFLICT (event_id) DO NOTHING.
PositionsWith(v, p, o) ==
    IF \E r \in positions : r.id = v.id
    THEN positions
    ELSE positions \cup
           {[id |-> v.id, vehicle |-> v.vehicle, ts |-> v.ts,
             partition |-> p, offset |-> o]}

\* ON CONFLICT (vehicle_id) DO UPDATE, for an event the guard lets through.
CurrentWith(v) ==
    {c \in current : c.vehicle # v.vehicle} \cup
      {[vehicle |-> v.vehicle, ts |-> v.ts, id |-> v.id]}

Returns(w, res) == outcome' = [outcome EXCEPT ![w] = res]

\* The four writes of Apply's transaction for an event not seen before.
Effect(w, v, p, o) ==
    /\ processed' = ProcessedWith(w, v, p, o)
    /\ positions' = PositionsWith(v, p, o)
    /\ current' = IF Newer(v) THEN CurrentWith(v) ELSE current
    /\ eventCount' = eventCount + 1
    /\ UNCHANGED deadLetters

\* Apply: an error after COMMIT was sent leaves the caller not knowing that
\* the transaction is in, hence "transient" with the effect.
Apply(w, v, p, o) ==
    /\ outcome[w] = "none"
    /\ \/ /\ Duplicate(v)
          /\ Returns(w, "duplicate")
          /\ UNCHANGED tables
       \/ /\ ~Duplicate(v)
          /\ ~Storable(v)
          /\ Returns(w, "permanent")
          /\ UNCHANGED tables
       \/ /\ ~Duplicate(v)
          /\ Storable(v)
          /\ Effect(w, v, p, o)
          /\ \/ Returns(w, IF Newer(v) THEN "applied" ELSE "late")
             \/ Returns(w, "transient")

\* (mutant) The conflict clause replaces the whole row, payload included.
LettersReplaced(id, v, reason) ==
    {d \in deadLetters : d.id # id} \cup
      {[id |-> id, payload |-> v, reason |-> reason, state |-> "dead"]}

\* RecordDeadLetter: a row that is there already keeps its payload, takes the
\* new reason and is 'dead' again, whatever its state was.
LettersWith(id, v, reason) ==
    IF \E d \in deadLetters : d.id = id
    THEN {IF d.id = id THEN [d EXCEPT !.reason = reason, !.state = "dead"] ELSE d
            : d \in deadLetters}
    ELSE deadLetters \cup
           {[id |-> id, payload |-> v, reason |-> reason, state |-> "dead"]}

RecordDeadLetter(w, id, v, reason) ==
    /\ outcome[w] = "none"
    /\ deadLetters' = LettersWith(id, v, reason)
    /\ \/ Returns(w, "recorded")
       \/ Returns(w, "transient")
    /\ UNCHANGED <<processed, positions, current, eventCount>>

\* MarkReplayed: UPDATE ... WHERE event_id = $1 AND state = 'dead'.
MarkReplayed(w, id) ==
    /\ outcome[w] = "none"
    /\ deadLetters' =
         {IF d.id = id /\ d.state = "dead" THEN [d EXCEPT !.state = "replayed"] ELSE d
            : d \in deadLetters}
    /\ \/ Returns(w, IF \E d \in deadLetters : d.id = id /\ d.state = "dead"
                     THEN "marked" ELSE "unmarked")
       \/ Returns(w, "transient")
    /\ UNCHANGED <<processed, positions, current, eventCount>>

\* A call that fails before anything is committed: InTx rolls back.
CallFails(w) ==
    /\ outcome[w] = "none"
    /\ Returns(w, "transient")
    /\ UNCHANGED tables

\* The caller reads the result; a caller that dies drops it.
Return(w) ==
    /\ outcome[w] # "none"
    /\ Returns(w, "none")
    /\ UNCHANGED tables

SinkNext ==
    \E w \in Workers :
       \/ \E v \in Payloads, p \in Partitions, o \in Offsets :
             \/ AsVehiclePosition(v) /\ Apply(w, v, p, o)
             \/ \E reason \in Reasons :
                   RecordDeadLetter(w, LetterId(v, p, o), v, reason)
       \/ \E id \in LetterIds : MarkReplayed(w, id)
       \/ CallFails(w)
       \/ Return(w)

SinkSpec == SinkInit /\ [][SinkNext]_sinkVars
-----------------------------------------------------------------------------
\* Every table holds rows of its schema and every result is one Apply,
\* RecordDeadLetter or MarkReplayed can return.
SinkTypeOK ==
    /\ processed \subseteq ProcessedRows
    /\ positions \subseteq PositionRows
    /\ current \subseteq CurrentRows
    /\ eventCount \in Nat
    /\ deadLetters \subseteq LetterRows
    /\ outcome \in [Workers -> Results]

\* No key occurs twice: the conflict clauses of Apply and RecordDeadLetter
\* never let a second row for an event, a vehicle or a dead letter in.
PrimaryKeys ==
    /\ \A r, s \in processed : r.id = s.id => r = s
    /\ \A r, s \in positions : r.id = s.id => r = s
    /\ \A c, d \in current : c.vehicle = d.vehicle => c = d
    /\ \A d, e \in deadLetters : d.id = e.id => d = e

\* Apply's effect is whole: an event has its dedup record exactly when it has
\* its history row, both from the same log position, and the schema-version
\* counter has counted each of them once however often it was delivered.
EffectWhole ==
    /\ \A r \in processed :
          \E s \in positions :
             s.id = r.id /\ s.partition = r.partition /\ s.offset = r.offset
    /\ \A s \in positions :
          \E r \in processed :
             s.id = r.id /\ s.partition = r.partition /\ s.offset = r.offset
    /\ IsFiniteSet(positions)
    /\ eventCount = Cardinality(positions)

\* The view vehicle_state_drift is empty: a vehicle on the map is in the
\* history and the map shows its newest event, whatever order they came in.
NoDrift ==
    /\ \A c \in current :
          \E r \in positions : r.id = c.id /\ r.vehicle = c.vehicle /\ r.ts = c.ts
    /\ \A r \in positions :
          \E c \in current : c.vehicle = r.vehicle /\ c.ts >= r.ts

SinkInv == SinkTypeOK /\ PrimaryKeys /\ EffectWhole /\ NoDrift

\* No call rewrites the record: history and dedup rows stay for ever, a
\* vehicle's current row is only replaced by one of a later event time, and a
\* dead letter keeps the bytes it was first recorded with.
RecordKept ==
    [][ /\ processed \subseteq processed'
        /\ positions \subseteq positions'
        /\ \A c \in current :
              \E d \in current' :
                 d.vehicle = c.vehicle /\ (d = c \/ d.ts > c.ts)
        /\ \A d \in deadLetters :
              \E e \in deadLetters' : e.id = d.id /\ e.payload = d.payload
      ]_sinkVars
=============================================================================
