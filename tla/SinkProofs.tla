----------------------------- MODULE SinkProofs -----------------------------
(***************************************************************************)
(* The sink's safety for every set of workers, events, vehicles, times,    *)
(* payloads and partitions.  SinkInv is inductive as it stands: the gate   *)
(* on processed_events keeps the history's keys unique only because every  *)
(* history row has its dedup row (EffectWhole), and the counter equals the *)
(* size of the history only because the gate lets no row in twice.         *)
(***************************************************************************)
EXTENDS Sink, FiniteSetTheorems, TLAPS

LEMMA LetterIdType ==
    ASSUME NEW v \in Payloads, NEW p \in Partitions, NEW o \in Offsets
    PROVE  LetterId(v, p, o) \in LetterIds
BY EventAssumption DEF LetterId, LetterIds, PayloadType

\* A dead letter recorded again keeps its row's type, and no id gets a second
\* row.
LEMMA LettersWithKeeps ==
    ASSUME SinkTypeOK, PrimaryKeys,
           NEW id \in LetterIds, NEW v \in Payloads, NEW reason \in Reasons
    PROVE  /\ LettersWith(id, v, reason) \subseteq LetterRows
           /\ \A d, e \in LettersWith(id, v, reason) : d.id = e.id => d = e
           /\ \A d \in deadLetters :
                 \E e \in LettersWith(id, v, reason) :
                    e.id = d.id /\ e.payload = d.payload
<1> DEFINE Upd(d) == IF d.id = id THEN [d EXCEPT !.reason = reason, !.state = "dead"]
                                  ELSE d
<1>1. \A d \in deadLetters :
         Upd(d) \in LetterRows /\ Upd(d).id = d.id /\ Upd(d).payload = d.payload
  BY DEF SinkTypeOK, LetterRows, States
<1>2. CASE \E d \in deadLetters : d.id = id
  <2>1. LettersWith(id, v, reason) = {Upd(d) : d \in deadLetters}
    BY <1>2 DEF LettersWith
  <2> HIDE DEF Upd
  <2>2. LettersWith(id, v, reason) \subseteq LetterRows
    BY <1>1, <2>1
  <2>3. \A d, e \in LettersWith(id, v, reason) : d.id = e.id => d = e
    <3> SUFFICES ASSUME NEW d \in deadLetters, NEW e \in deadLetters,
                        Upd(d).id = Upd(e).id
                 PROVE  Upd(d) = Upd(e)
      BY <2>1
    <3> QED
      BY <1>1 DEF PrimaryKeys
  <2>4. \A d \in deadLetters : Upd(d) \in LettersWith(id, v, reason)
    BY <2>1
  <2> QED
    BY <1>1, <2>2, <2>3, <2>4
<1>3. CASE ~\E d \in deadLetters : d.id = id
  BY <1>3 DEF LettersWith, SinkTypeOK, PrimaryKeys, LetterRows, States
<1> QED
  BY <1>2, <1>3

\* MarkReplayed changes a row's state and nothing else.
LEMMA MarkKeeps ==
    ASSUME SinkTypeOK, PrimaryKeys, NEW w \in Workers, NEW id \in LetterIds,
           MarkReplayed(w, id)
    PROVE  /\ deadLetters' \subseteq LetterRows
           /\ \A d, e \in deadLetters' : d.id = e.id => d = e
           /\ \A d \in deadLetters :
                 \E e \in deadLetters' : e.id = d.id /\ e.payload = d.payload
<1> DEFINE Upd(d) == IF d.id = id /\ d.state = "dead"
                     THEN [d EXCEPT !.state = "replayed"] ELSE d
<1>1. \A d \in deadLetters :
         Upd(d) \in LetterRows /\ Upd(d).id = d.id /\ Upd(d).payload = d.payload
  BY DEF SinkTypeOK, LetterRows, States
<1>2. deadLetters' = {Upd(d) : d \in deadLetters}
  BY DEF MarkReplayed
<1> HIDE DEF Upd
<1>3. deadLetters' \subseteq LetterRows
  BY <1>1, <1>2
<1>4. \A d, e \in deadLetters' : d.id = e.id => d = e
  <2> SUFFICES ASSUME NEW d \in deadLetters, NEW e \in deadLetters,
                      Upd(d).id = Upd(e).id
               PROVE  Upd(d) = Upd(e)
    BY <1>2
  <2> QED
    BY <1>1 DEF PrimaryKeys
<1>5. \A d \in deadLetters : Upd(d) \in deadLetters'
  BY <1>2
<1> QED
  BY <1>1, <1>3, <1>4, <1>5

\* The effect of a new event on the four tables of Apply.
LEMMA EffectKeeps ==
    ASSUME SinkInv,
           NEW w \in Workers, NEW v \in Payloads,
           NEW p \in Partitions, NEW o \in Offsets,
           ~Duplicate(v), Effect(w, v, p, o)
    PROVE  /\ processed' \subseteq ProcessedRows
           /\ positions' \subseteq PositionRows
           /\ current' \subseteq CurrentRows
           /\ eventCount' \in Nat
           /\ \A r, s \in processed' : r.id = s.id => r = s
           /\ \A r, s \in positions' : r.id = s.id => r = s
           /\ \A c, d \in current' : c.vehicle = d.vehicle => c = d
           /\ EffectWhole'
           /\ NoDrift'
           /\ \A c \in current :
                 \E d \in current' : d.vehicle = c.vehicle /\ (d = c \/ d.ts > c.ts)
<1> DEFINE pr == [id |-> v.id, consumer |-> w, partition |-> p, offset |-> o]
           hr == [id |-> v.id, vehicle |-> v.vehicle, ts |-> v.ts,
                  partition |-> p, offset |-> o]
           cr == [vehicle |-> v.vehicle, ts |-> v.ts, id |-> v.id]
<1>1. v.id \in EventIds /\ v.vehicle \in Vehicles /\ v.ts \in Times /\ v.ts \in Int
  BY EventAssumption DEF PayloadType
<1>2. ~\E r \in positions : r.id = v.id
  BY DEF SinkInv, EffectWhole, Duplicate
<1>3. processed' = processed \cup {pr} /\ positions' = positions \cup {hr}
  BY <1>2 DEF Effect, ProcessedWith, PositionsWith
<1>4. pr \in ProcessedRows /\ hr \in PositionRows /\ cr \in CurrentRows
  BY <1>1 DEF ProcessedRows, PositionRows, CurrentRows
<1>5. /\ processed \subseteq ProcessedRows
      /\ positions \subseteq PositionRows
      /\ current \subseteq CurrentRows
      /\ eventCount \in Nat
  BY DEF SinkInv, SinkTypeOK
<1>6. current' = IF Newer(v) THEN {c \in current : c.vehicle # v.vehicle} \cup {cr}
                             ELSE current
  BY DEF Effect, CurrentWith
<1>7. eventCount' = eventCount + 1
  BY DEF Effect
<1>8. \A r, s \in processed' : r.id = s.id => r = s
  BY <1>3 DEF SinkInv, PrimaryKeys, Duplicate
<1>9. \A r, s \in positions' : r.id = s.id => r = s
  BY <1>2, <1>3 DEF SinkInv, PrimaryKeys
<1>10. \A c, d \in current' : c.vehicle = d.vehicle => c = d
  BY <1>6 DEF SinkInv, PrimaryKeys
<1>11. /\ pr.id = v.id /\ pr.partition = p /\ pr.offset = o
       /\ hr.id = v.id /\ hr.partition = p /\ hr.offset = o
       /\ hr.vehicle = v.vehicle /\ hr.ts = v.ts
       /\ cr.id = v.id /\ cr.vehicle = v.vehicle /\ cr.ts = v.ts
  OBVIOUS
<1> HIDE DEF pr, hr, cr
<1>12. EffectWhole'
  <2>1. \A r \in processed' :
           \E s \in positions' :
              s.id = r.id /\ s.partition = r.partition /\ s.offset = r.offset
    <3>1. \A r \in processed :
             \E s \in positions' :
                s.id = r.id /\ s.partition = r.partition /\ s.offset = r.offset
      BY <1>3 DEF SinkInv, EffectWhole
    <3> QED
      BY <1>3, <1>11, <3>1
  <2>2. \A s \in positions' :
           \E r \in processed' :
              s.id = r.id /\ s.partition = r.partition /\ s.offset = r.offset
    <3>1. \A s \in positions :
             \E r \in processed' :
                s.id = r.id /\ s.partition = r.partition /\ s.offset = r.offset
      BY <1>3 DEF SinkInv, EffectWhole
    <3> QED
      BY <1>3, <1>11, <3>1
  <2>3. hr \notin positions
    BY <1>2, <1>11
  <2>4. IsFiniteSet(positions) /\ eventCount = Cardinality(positions)
    BY DEF SinkInv, EffectWhole
  <2>5. /\ IsFiniteSet(positions \cup {hr})
        /\ Cardinality(positions \cup {hr}) = Cardinality(positions) + 1
    BY <2>3, <2>4, FS_AddElement
  <2> QED
    BY <1>3, <1>7, <2>1, <2>2, <2>4, <2>5 DEF EffectWhole
<1>13. \A c \in current : c.ts \in Int
  BY <1>5, EventAssumption DEF CurrentRows
<1>14. \A r \in positions : r.ts \in Int
  BY <1>5, EventAssumption DEF PositionRows
<1>15. \A c \in current :
          \E d \in current' : d.vehicle = c.vehicle /\ (d = c \/ d.ts > c.ts)
  <2> SUFFICES ASSUME NEW c \in current
               PROVE  \E d \in current' :
                         d.vehicle = c.vehicle /\ (d = c \/ d.ts > c.ts)
    OBVIOUS
  <2>1. CASE c \in current'
    BY <2>1
  <2>2. CASE c \notin current'
    <3>1. Newer(v) /\ c.vehicle = v.vehicle /\ cr \in current'
      BY <1>6, <2>2
    <3>2. cr.ts > c.ts
      BY <1>11, <3>1 DEF Newer
    <3> QED
      BY <1>11, <3>1, <3>2
  <2> QED
    BY <2>1, <2>2
<1>16. NoDrift'
  <2>1. \A c \in current' :
           \E r \in positions' : r.id = c.id /\ r.vehicle = c.vehicle /\ r.ts = c.ts
    <3>1. \A c \in current :
             \E r \in positions' : r.id = c.id /\ r.vehicle = c.vehicle /\ r.ts = c.ts
      BY <1>3 DEF SinkInv, NoDrift
    <3>2. current' \subseteq current \cup {cr}
      BY <1>6
    <3> QED
      BY <1>3, <1>11, <3>1, <3>2
  <2>2. \A r \in positions : \E c \in current' : c.vehicle = r.vehicle /\ c.ts >= r.ts
    <3> SUFFICES ASSUME NEW r \in positions
                 PROVE  \E c \in current' : c.vehicle = r.vehicle /\ c.ts >= r.ts
      OBVIOUS
    <3>1. PICK c \in current : c.vehicle = r.vehicle /\ c.ts >= r.ts
      BY DEF SinkInv, NoDrift
    <3>2. PICK d \in current' : d.vehicle = c.vehicle /\ (d = c \/ d.ts > c.ts)
      BY <1>15
    <3>3. d.ts \in Int
      BY <1>1, <1>6, <1>11, <1>13
    <3> QED
      BY <1>13, <1>14, <3>1, <3>2, <3>3
  <2>3. \E c \in current' : c.vehicle = v.vehicle /\ c.ts >= v.ts
    <3>1. CASE Newer(v)
      <4>1. cr \in current'
        BY <1>6, <3>1
      <4> QED
        BY <1>1, <1>11, <4>1
    <3>2. CASE ~Newer(v)
      <4>1. PICK c \in current : c.vehicle = v.vehicle /\ ~(v.ts > c.ts)
        BY <3>2 DEF Newer
      <4>2. c \in current'
        BY <1>6, <3>2
      <4>3. c.ts >= v.ts
        BY <1>1, <1>13, <4>1
      <4> QED
        BY <4>1, <4>2, <4>3
    <3> QED
      BY <3>1, <3>2
  <2> QED
    BY <1>3, <1>11, <2>1, <2>2, <2>3 DEF NoDrift
<1>17. current' \subseteq CurrentRows
  BY <1>4, <1>5, <1>6
<1> QED
  BY <1>3, <1>4, <1>5, <1>7, <1>8, <1>9, <1>10, <1>12, <1>15, <1>16, <1>17

LEMMA SinkInitInv == SinkInit => SinkInv
<1> SUFFICES ASSUME SinkInit PROVE SinkInv
  OBVIOUS
<1>1. IsFiniteSet(positions) /\ Cardinality(positions) = 0
  BY FS_EmptySet DEF SinkInit
<1>2. EffectWhole /\ NoDrift /\ PrimaryKeys
  BY <1>1 DEF SinkInit, EffectWhole, NoDrift, PrimaryKeys
<1>3. SinkTypeOK
  BY DEF SinkInit, SinkTypeOK, Results
<1> QED
  BY <1>2, <1>3 DEF SinkInv

\* What a call that leaves the tables alone keeps.
LEMMA SameTables ==
    ASSUME SinkInv, UNCHANGED tables, outcome' \in [Workers -> Results]
    PROVE  /\ SinkInv'
           /\ processed \subseteq processed'
           /\ positions \subseteq positions'
           /\ \A c \in current :
                 \E d \in current' : d.vehicle = c.vehicle /\ (d = c \/ d.ts > c.ts)
           /\ \A d \in deadLetters :
                 \E e \in deadLetters' : e.id = d.id /\ e.payload = d.payload
<1>1. /\ processed' = processed /\ positions' = positions /\ current' = current
      /\ eventCount' = eventCount /\ deadLetters' = deadLetters
  BY DEF tables
<1>2. SinkTypeOK'
  BY <1>1 DEF SinkInv, SinkTypeOK
<1>3. PrimaryKeys' /\ EffectWhole' /\ NoDrift'
  BY <1>1 DEF SinkInv, PrimaryKeys, EffectWhole, NoDrift
<1> QED
  BY <1>1, <1>2, <1>3 DEF SinkInv

\* What a call that writes only dead letters keeps.
LEMMA SameHistory ==
    ASSUME SinkInv, UNCHANGED <<processed, positions, current, eventCount>>,
           outcome' \in [Workers -> Results],
           deadLetters' \subseteq LetterRows,
           \A d, e \in deadLetters' : d.id = e.id => d = e
    PROVE  /\ SinkInv'
           /\ processed \subseteq processed'
           /\ positions \subseteq positions'
           /\ \A c \in current :
                 \E d \in current' : d.vehicle = c.vehicle /\ (d = c \/ d.ts > c.ts)
<1>1. SinkTypeOK'
  BY DEF SinkInv, SinkTypeOK
<1>2. PrimaryKeys' /\ EffectWhole' /\ NoDrift'
  BY DEF SinkInv, PrimaryKeys, EffectWhole, NoDrift
<1> QED
  BY <1>1, <1>2 DEF SinkInv

LEMMA ReturnsType ==
    ASSUME SinkTypeOK, NEW w \in Workers, NEW res \in Results, Returns(w, res)
    PROVE  outcome' \in [Workers -> Results]
BY DEF SinkTypeOK, Returns

\* One step of the sink: the invariant is kept and nothing is rewritten.
LEMMA SinkStep ==
    ASSUME SinkInv, SinkNext
    PROVE  /\ SinkInv'
           /\ processed \subseteq processed'
           /\ positions \subseteq positions'
           /\ \A c \in current :
                 \E d \in current' : d.vehicle = c.vehicle /\ (d = c \/ d.ts > c.ts)
           /\ \A d \in deadLetters :
                 \E e \in deadLetters' : e.id = d.id /\ e.payload = d.payload
<1> DEFINE Kept == /\ SinkInv'
                   /\ processed \subseteq processed'
                   /\ positions \subseteq positions'
                   /\ \A c \in current :
                         \E d \in current' :
                            d.vehicle = c.vehicle /\ (d = c \/ d.ts > c.ts)
                   /\ \A d \in deadLetters :
                         \E e \in deadLetters' : e.id = d.id /\ e.payload = d.payload
<1>0. SinkTypeOK /\ PrimaryKeys
  BY DEF SinkInv
<1>1. ASSUME NEW w \in Workers, NEW v \in Payloads, NEW p \in Partitions,
             NEW o \in Offsets, Apply(w, v, p, o)
      PROVE  Kept
  <2>1. outcome' \in [Workers -> Results]
    <3>1. PICK res \in Results : Returns(w, res)
      BY <1>1 DEF Apply, Results
    <3> QED
      BY <1>0, <3>1, ReturnsType
  <2>2. CASE UNCHANGED tables
    BY <2>1, <2>2, SameTables
  <2>3. CASE ~Duplicate(v) /\ Effect(w, v, p, o)
    <3>1. UNCHANGED deadLetters
      BY <2>3 DEF Effect
    <3>2. processed \subseteq processed' /\ positions \subseteq positions'
      BY <2>3 DEF Effect, ProcessedWith, PositionsWith
    <3>3. /\ processed' \subseteq ProcessedRows
          /\ positions' \subseteq PositionRows
          /\ current' \subseteq CurrentRows
          /\ eventCount' \in Nat
          /\ \A r, s \in processed' : r.id = s.id => r = s
          /\ \A r, s \in positions' : r.id = s.id => r = s
          /\ \A c, d \in current' : c.vehicle = d.vehicle => c = d
          /\ EffectWhole'
          /\ NoDrift'
          /\ \A c \in current :
                \E d \in current' : d.vehicle = c.vehicle /\ (d = c \/ d.ts > c.ts)
      BY <2>3, EffectKeeps
    <3>4. SinkTypeOK'
      BY <1>0, <2>1, <3>1, <3>3 DEF SinkTypeOK
    <3>5. PrimaryKeys'
      BY <1>0, <3>1, <3>3 DEF PrimaryKeys
    <3> QED
      BY <3>1, <3>2, <3>3, <3>4, <3>5 DEF SinkInv
  <2> QED
    BY <1>1, <2>2, <2>3 DEF Apply
<1>2. ASSUME NEW w \in Workers, NEW v \in Payloads, NEW p \in Partitions,
             NEW o \in Offsets, NEW reason \in Reasons,
             RecordDeadLetter(w, LetterId(v, p, o), v, reason)
      PROVE  Kept
  <2>1. outcome' \in [Workers -> Results]
    <3>1. PICK res \in Results : Returns(w, res)
      BY <1>2 DEF RecordDeadLetter, Results
    <3> QED
      BY <1>0, <3>1, ReturnsType
  <2>2. LetterId(v, p, o) \in LetterIds
    BY LetterIdType
  <2>3. /\ UNCHANGED <<processed, positions, current, eventCount>>
        /\ deadLetters' = LettersWith(LetterId(v, p, o), v, reason)
    BY <1>2 DEF RecordDeadLetter
  <2>4. /\ deadLetters' \subseteq LetterRows
        /\ \A d, e \in deadLetters' : d.id = e.id => d = e
        /\ \A d \in deadLetters :
              \E e \in deadLetters' : e.id = d.id /\ e.payload = d.payload
    BY <1>0, <2>2, <2>3, LettersWithKeeps
  <2> QED
    BY <2>1, <2>3, <2>4, SameHistory
<1>3. ASSUME NEW w \in Workers, NEW id \in LetterIds, MarkReplayed(w, id)
      PROVE  Kept
  <2>1. outcome' \in [Workers -> Results]
    <3>1. PICK res \in Results : Returns(w, res)
      BY <1>3 DEF MarkReplayed, Results
    <3> QED
      BY <1>0, <3>1, ReturnsType
  <2>2. UNCHANGED <<processed, positions, current, eventCount>>
    BY <1>3 DEF MarkReplayed
  <2>3. /\ deadLetters' \subseteq LetterRows
        /\ \A d, e \in deadLetters' : d.id = e.id => d = e
        /\ \A d \in deadLetters :
              \E e \in deadLetters' : e.id = d.id /\ e.payload = d.payload
    BY <1>0, <1>3, MarkKeeps
  <2> QED
    BY <2>1, <2>2, <2>3, SameHistory
<1>4. ASSUME NEW w \in Workers, CallFails(w) \/ Return(w)
      PROVE  Kept
  <2>1. PICK res \in Results : Returns(w, res)
    BY <1>4 DEF CallFails, Return, Results
  <2>2. outcome' \in [Workers -> Results]
    BY <1>0, <2>1, ReturnsType
  <2>3. UNCHANGED tables
    BY <1>4 DEF CallFails, Return
  <2> QED
    BY <2>2, <2>3, SameTables
<1> QED
  BY <1>1, <1>2, <1>3, <1>4 DEF SinkNext

\* Whatever calls the sink's callers make, in whatever order and with
\* whatever results lost: the tables keep their types and keys, Apply's
\* effect is whole and happens once, and the map never drifts from the
\* history (Store.Apply, RecordDeadLetter, MarkReplayed).
THEOREM SinkSafety == SinkSpec => [](SinkTypeOK /\ PrimaryKeys /\ EffectWhole /\ NoDrift)
<1>1. SinkInit => SinkInv
  BY SinkInitInv
<1>2. SinkInv /\ [SinkNext]_sinkVars => SinkInv'
  <2> SUFFICES ASSUME SinkInv, [SinkNext]_sinkVars PROVE SinkInv'
    OBVIOUS
  <2>1. CASE SinkNext
    BY <2>1, SinkStep
  <2>2. CASE UNCHANGED sinkVars
    <3>1. UNCHANGED tables /\ outcome' = outcome
      BY <2>2 DEF sinkVars, tables
    <3>2. outcome' \in [Workers -> Results]
      BY <3>1 DEF SinkInv, SinkTypeOK
    <3> QED
      BY <3>1, <3>2, SameTables
  <2> QED
    BY <2>1, <2>2
<1>3. SinkInv => SinkTypeOK /\ PrimaryKeys /\ EffectWhole /\ NoDrift
  BY DEF SinkInv
<1> QED
  BY <1>1, <1>2, <1>3, PTL DEF SinkSpec

\* No call of Apply, RecordDeadLetter or MarkReplayed rewrites the record.
THEOREM SinkRecordKept == SinkSpec => RecordKept
<1>1. SinkSpec => []SinkInv
  <2>1. SinkInv <=> SinkTypeOK /\ PrimaryKeys /\ EffectWhole /\ NoDrift
    BY DEF SinkInv
  <2> QED
    BY <2>1, SinkSafety, PTL
<1>2. SinkInv /\ [SinkNext]_sinkVars =>
        [ /\ processed \subseteq processed'
          /\ positions \subseteq positions'
          /\ \A c \in current :
                \E d \in current' : d.vehicle = c.vehicle /\ (d = c \/ d.ts > c.ts)
          /\ \A d \in deadLetters :
                \E e \in deadLetters' : e.id = d.id /\ e.payload = d.payload
        ]_sinkVars
  BY SinkStep
<1> QED
  BY <1>1, <1>2, PTL DEF SinkSpec, RecordKept
=============================================================================
