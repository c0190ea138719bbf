------------------------- MODULE CompositionProofs -------------------------
(***************************************************************************)
(* The consumer group in company, for every number of members: beside the  *)
(* operators of the replay tool (Replay), and in front of the gateway and  *)
(* its pages (Pipeline).                                                   *)
(*                                                                         *)
(* Replay.  A dead letter is marked replayed only when its bytes are back  *)
(* on the log, and nothing the operators do disturbs what ConsumerProofs   *)
(* shows of the group.  An operator holds a copy of the row it read, and   *)
(* the row may be refused again, marked by another operator or read by a   *)
(* member meanwhile.  What it may rely on is that a row keeps its id and   *)
(* its bytes (Held) and that the log keeps what was put back (BackOnLog).  *)
(*                                                                         *)
(* Pipeline.  The consumers keep to what the gateway takes for granted of  *)
(* them, and the page agrees with the store.  The one thing the gateway    *)
(* cannot see for itself is that an event is published once.  Of all the   *)
(* members that are given an event, one finds it new and owns its row in   *)
(* processed_events from then on; it is the only one that may show it, and *)
(* it has not yet (ShowOnce).                                              *)
(***************************************************************************)
EXTENDS Replay, Pipeline, ConsumerProofs

OperatorTypes ==
    /\ rpc \in [Operators -> {"get", "publish", "mark", "marked"}]
    /\ queue \in [Operators -> SUBSET LetterIds]
    /\ entry \in [Operators -> SUBSET LetterRows]
    /\ replays \subseteq [id : LetterIds, partition : Partitions, offset : Offsets]

\* A replayed record of the letter, with the letter's bytes, is on the log.
BackOnLog(d) ==
    \E r \in replays :
       /\ r.id = d.id
       /\ r.offset < Len(log[r.partition])
       /\ log[r.partition][r.offset + 1] = d.payload

\* The table has a row of the letter's id and bytes.
Held(d) == \E e \in deadLetters : e.id = d.id /\ e.payload = d.payload

ReplayInv ==
    /\ ConsumerInv
    /\ OperatorTypes
    /\ \A a \in Operators : \A d \in entry[a] :
          /\ Held(d) /\ (rpc[a] = "mark" => BackOnLog(d))
          /\ \A e \in entry[a] : e = d
    /\ MarkedAfterRepublish
-----------------------------------------------------------------------------
\* No row is lost, and none has other bytes than before.
LettersKept ==
    /\ \A d \in deadLetters : Held(d)'
    /\ \A e \in deadLetters' : e.state = "replayed" =>
          \E d \in deadLetters :
             /\ d.id = e.id /\ d.payload = e.payload
             /\ d.state = "replayed" \/ BackOnLog(d)

LEMMA BackStays ==
    ASSUME SharedTypes, OperatorTypes, Grown, replays \subseteq replays',
           NEW d, BackOnLog(d)
    PROVE  BackOnLog(d)'
<1>1. PICK r \in replays :
         /\ r.id = d.id
         /\ r.offset < Len(log[r.partition])
         /\ log[r.partition][r.offset + 1] = d.payload
  BY DEF BackOnLog
<1>2. r.partition \in Partitions /\ r.offset \in Nat
  BY DEF OperatorTypes, Offsets
<1>3. /\ r.offset + 1 \in 1 .. Len(log[r.partition])
      /\ Len(log[r.partition]) <= Len(log'[r.partition])
      /\ Len(log[r.partition]) \in Int
  BY <1>1, <1>2, LogFacts DEF Grown
<1>4. log'[r.partition][r.offset + 1] = d.payload
  BY <1>1, <1>2, <1>3 DEF Grown
<1>5. r.offset < Len(log'[r.partition])
  <2>1. SUFFICES ASSUME NEW x, x = Len(log'[r.partition]), Len(log[r.partition]) <= x
                 PROVE  r.offset < x
    BY <1>3
  <2> QED
    BY <1>1, <1>2, <1>3, <2>1
<1> QED
  BY <1>1, <1>4, <1>5 DEF BackOnLog

\* What every step has to show.
LEMMA ReplayKeeps ==
    ASSUME ReplayInv, ConsumerInv', OperatorTypes', Grown, LettersKept,
           replays \subseteq replays',
           \A a \in Operators : \A d \in entry'[a] :
              /\ d \in entry[a] \/ d \in deadLetters
              /\ rpc'[a] = "mark" => BackOnLog(d)' \/ (rpc[a] = "mark" /\ d \in entry[a])
              /\ \A e \in entry'[a] : e = d
    PROVE  ReplayInv'
<1>1. SharedTypes /\ OperatorTypes
  BY DEF ReplayInv, ConsumerInv
<1>2. \A d : BackOnLog(d) => BackOnLog(d)'
  BY <1>1, BackStays
<1>3. \A d : Held(d) => Held(d)'
  <2> SUFFICES ASSUME NEW d, Held(d) PROVE Held(d)'
    OBVIOUS
  <2>1. PICK e \in deadLetters : e.id = d.id /\ e.payload = d.payload
    BY DEF Held
  <2>2. Held(e)'
    BY DEF LettersKept
  <2> QED
    BY <2>1, <2>2 DEF Held
<1>4. ASSUME NEW a \in Operators, NEW d \in entry'[a]
      PROVE  Held(d)' /\ (rpc'[a] = "mark" => BackOnLog(d)')
  <2>1. Held(d)
    BY <1>4 DEF ReplayInv, Held
  <2> QED
    BY <1>2, <1>3, <1>4, <2>1 DEF ReplayInv
<1>5. MarkedAfterRepublish'
  <2> SUFFICES ASSUME NEW e \in deadLetters', e.state = "replayed" PROVE BackOnLog(e)'
    BY DEF MarkedAfterRepublish, BackOnLog
  <2>1. PICK d \in deadLetters :
           /\ d.id = e.id /\ d.payload = e.payload
           /\ d.state = "replayed" \/ BackOnLog(d)
    BY DEF LettersKept
  <2>2. BackOnLog(d)
    BY <2>1 DEF ReplayInv, MarkedAfterRepublish, BackOnLog
  <2>3. BackOnLog(e)
    BY <2>1, <2>2 DEF BackOnLog
  <2> QED
    BY <1>2, <2>3
<1> QED
  BY <1>4, <1>5 DEF ReplayInv
-----------------------------------------------------------------------------
\* A step of an operator seen from the group: the tables and the log may
\* change, the members do not.
LEMMA OperatorBeside ==
    ASSUME ConsumerInv, SinkInv', SinkGrown, Grown, SharedTypes',
           \A m \in Members : outcome'[m] = outcome[m],
           UNCHANGED <<committed, owner, memberVars, positions>>,
           LetterHasCopy'
    PROVE  ConsumerInv'
<1>1. /\ published' = published /\ pc' = pc /\ stopping' = stopping /\ has' = has
      /\ pos' = pos /\ nxt' = nxt /\ todo' = todo /\ lastOK' = lastOK
      /\ attempts' = attempts /\ reason' = reason /\ committed' = committed
      /\ owner' = owner /\ positions' = positions
  BY DEF memberVars
<1>2. MemberTypes'
  BY <1>1 DEF ConsumerInv, MemberTypes
<1>3. \A m \in Members : Same(m) /\ \A p \in Partitions : Leased(m, p)
  BY <1>1 DEF Same, Leased
<1>4. SharedInv'
  BY <1>1, SharedStays DEF SharedInv
<1> QED
  BY <1>2, <1>3, <1>4, BesideMembers

\* The steps of an operator that leave the group's variables alone.
LEMMA OperatorReads ==
    ASSUME ReplayInv, UNCHANGED <<sinkVars, brokerVars, memberVars>>,
           faults' = faults \/ Fault,
           OperatorTypes', replays \subseteq replays',
           \A a \in Operators : \A d \in entry'[a] :
              /\ d \in entry[a] \/ d \in deadLetters
              /\ rpc'[a] = "mark" => rpc[a] = "mark" /\ d \in entry[a]
              /\ \A e \in entry'[a] : e = d
    PROVE  ReplayInv'
<1>1. ConsumerInv /\ SharedTypes /\ SharedInv /\ SinkInv
  BY DEF ReplayInv, ConsumerInv
<1>2. /\ log' = log /\ dlqTopic' = dlqTopic /\ abandoned' = abandoned
      /\ committed' = committed /\ owner' = owner /\ published' = published
      /\ deadLetters' = deadLetters /\ positions' = positions /\ outcome' = outcome
  BY DEF sinkVars, brokerVars, memberVars
<1>3. SinkInv' /\ SinkGrown
  BY <1>1, SinkSide
<1>4. SharedTypes' /\ Grown
  <2>1. faults' \in 0 .. MaxFaults
    BY <1>1, ConsumerAssumption DEF Fault, SharedTypes
  <2>2. SharedTypes'
    BY <1>1, <1>2, <2>1 DEF SharedTypes
  <2> QED
    BY <1>1, <1>2, <1>3, <2>2, QuietGrown
<1>5. LettersKept
  BY <1>2 DEF LettersKept, Held
<1>6. ConsumerInv'
  BY <1>1, <1>2, <1>3, <1>4, OperatorBeside DEF SharedInv, LetterHasCopy
<1> QED
  BY <1>4, <1>5, <1>6, ReplayKeeps

LEMMA OperatorOutcome ==
    ASSUME SinkInv, NEW a \in Operators, NEW res, Returns(a, res)
    PROVE  \A m \in Members : outcome'[m] = outcome[m]
<1>1. a \in Workers /\ \A m \in Members : m \in Workers \ {a}
  BY ReplayAssumption, ConsumerAssumption
<1> QED
  BY <1>1, ReturnsMoves

LEMMA QueueKeeps ==
    ASSUME ReplayInv, NEW a \in Operators,
           ReplayAll(a) \/ \E id \in LetterIds : ReplayId(a, id)
    PROVE  ReplayInv'
<1>1. SinkTypeOK /\ OperatorTypes
  BY DEF ReplayInv, ConsumerInv, SinkInv
<1>2. DeadIds \subseteq LetterIds
  BY <1>1 DEF DeadIds, SinkTypeOK, LetterRows
<1>3. PICK ids \in SUBSET LetterIds : queue' = [queue EXCEPT ![a] = ids]
  BY <1>2 DEF ReplayAll, ReplayId
<1>4. /\ rpc' = rpc /\ entry' = entry /\ replays' = replays
      /\ UNCHANGED <<sinkVars, brokerVars, memberVars, faults>>
  BY DEF ReplayAll, ReplayId
<1>5. OperatorTypes'
  BY <1>1, <1>3, <1>4 DEF OperatorTypes
<1> QED
  BY <1>4, <1>5, OperatorReads DEF ReplayInv

LEMMA GetEntryKeeps ==
    ASSUME ReplayInv, NEW a \in Operators, NEW id \in LetterIds, GetEntry(a, id)
    PROVE  ReplayInv'
<1>1. SinkTypeOK /\ OperatorTypes
  BY DEF ReplayInv, ConsumerInv, SinkInv
<1>2. /\ queue' = [queue EXCEPT ![a] = @ \ {id}] /\ replays' = replays
      /\ UNCHANGED <<sinkVars, brokerVars, memberVars>>
      /\ faults' = faults \/ Fault
  BY DEF GetEntry, NoFault
<1>3. PICK ds \in SUBSET deadLetters, l \in {"publish", "get"} :
         /\ entry' = [entry EXCEPT ![a] = ds] /\ rpc' = [rpc EXCEPT ![a] = l]
         /\ \A d, e \in ds : d = e
  <2>1. CASE \E d \in deadLetters :
                entry' = [entry EXCEPT ![a] = {d}] /\ rpc' = [rpc EXCEPT ![a] = "publish"]
    <3>1. PICK d \in deadLetters :
             entry' = [entry EXCEPT ![a] = {d}] /\ rpc' = [rpc EXCEPT ![a] = "publish"]
      BY <2>1
    <3>2. {d} \in SUBSET deadLetters /\ \A x, y \in {d} : x = y
      OBVIOUS
    <3> QED
      BY <3>1, <3>2
  <2>2. CASE NextEntry(a)
    <3>1. {} \in SUBSET deadLetters /\ \A x, y \in {} : x = y
      OBVIOUS
    <3> QED
      BY <2>2, <3>1 DEF NextEntry
  <2> QED
    BY <2>1, <2>2 DEF GetEntry
<1>4. /\ OperatorTypes'
      /\ entry'[a] = ds /\ rpc'[a] = l
      /\ \A b \in Operators \ {a} : entry'[b] = entry[b] /\ rpc'[b] = rpc[b]
  BY <1>1, <1>2, <1>3 DEF OperatorTypes, SinkTypeOK
<1> QED
  BY <1>2, <1>3, <1>4, OperatorReads DEF ReplayInv

LEMMA RepublishKeeps ==
    ASSUME ReplayInv, NEW a \in Operators, Republish(a)
    PROVE  ReplayInv'
<1>1. ConsumerInv /\ SharedTypes /\ OperatorTypes /\ SharedInv
  BY DEF ReplayInv, ConsumerInv
<1>2. /\ UNCHANGED sinkVars /\ dlqTopic' = dlqTopic /\ committed' = committed
      /\ owner' = owner /\ UNCHANGED memberVars /\ queue' = queue
      /\ deadLetters' = deadLetters /\ positions' = positions /\ outcome' = outcome
      /\ abandoned' = abandoned /\ published' = published /\ processed' = processed
  BY DEF Republish, sinkVars, memberVars
<1>3. SinkInv' /\ SinkGrown
  BY <1>1, <1>2, SinkSide DEF ConsumerInv
<1>4. PICK d \in entry[a] :
         /\ PutBack(d) \/ UNCHANGED <<log, replays>>
         /\ \/ PutBack(d) /\ rpc' = [rpc EXCEPT ![a] = "mark"] /\ entry' = entry
            \/ NextEntry(a)
         /\ faults' = faults \/ Fault
  BY DEF Republish, NoFault
<1>5. d \in LetterRows /\ PartitionOf[d.id] \in Partitions /\ d.payload \in Payloads
  BY <1>1, ConsumerAssumption DEF OperatorTypes, LetterRows
<1>6. /\ log' \in [Partitions -> Seq(Payloads)]
      /\ \A q \in Partitions :
            /\ Len(log'[q]) <= MaxLog
            /\ Len(log[q]) <= Len(log'[q])
            /\ \A i \in 1 .. Len(log[q]) : log'[q][i] = log[q][i]
      /\ replays \subseteq replays'
      /\ replays' \subseteq [id : LetterIds, partition : Partitions, offset : Offsets]
      /\ PutBack(d) => BackOnLog(d)'
  <2>1. CASE PutBack(d)
    <3> DEFINE p == PartitionOf[d.id]
               r == [id |-> d.id, partition |-> p, offset |-> Len(log[p])]
    <3>1. /\ Len(log[p]) < MaxLog /\ log' = [log EXCEPT ![p] = Append(@, d.payload)]
          /\ replays' = replays \cup {r}
      BY <2>1 DEF PutBack
    <3>2. p \in Partitions /\ Len(log[p]) \in Nat
      BY <1>1, <1>5, LogFacts
    <3> HIDE DEF p
    <3>3. /\ log' \in [Partitions -> Seq(Payloads)]
          /\ \A q \in Partitions :
                /\ Len(log'[q]) <= MaxLog
                /\ Len(log[q]) <= Len(log'[q])
                /\ \A i \in 1 .. Len(log[q]) : log'[q][i] = log[q][i]
          /\ Len(log'[p]) = Len(log[p]) + 1
          /\ log'[p][Len(log[p]) + 1] = d.payload
      BY <1>1, <1>5, <3>1, <3>2, AppendGrows
    <3>4. /\ r.id = d.id /\ r.partition = p /\ r.offset = Len(log[p])
          /\ r \in [id : LetterIds, partition : Partitions, offset : Offsets]
      BY <1>5, <3>1, <3>2, SinkAssumption DEF Offsets, LetterRows
    <3>5. r.offset < Len(log'[p])
      BY <3>2, <3>3, <3>4
    <3> HIDE DEF r
    <3>6. BackOnLog(d)'
      BY <3>1, <3>3, <3>4, <3>5 DEF BackOnLog
    <3> QED
      BY <1>1, <3>1, <3>3, <3>4, <3>6 DEF OperatorTypes
  <2>2. CASE UNCHANGED <<log, replays>> /\ ~PutBack(d)
    BY <1>1, <2>2, LogFacts DEF OperatorTypes, SharedTypes
  <2> QED
    BY <1>4, <2>1, <2>2
<1>7. SharedTypes' /\ Grown
  <2>1. faults' \in 0 .. MaxFaults
    BY <1>1, <1>4, ConsumerAssumption DEF SharedTypes, Fault
  <2>2. SharedTypes'
    BY <1>1, <1>2, <1>6, <2>1 DEF SharedTypes
  <2> QED
    BY <1>2, <1>3, <1>6, <2>2 DEF Grown, SinkGrown
<1>8. ConsumerInv'
  BY <1>1, <1>2, <1>3, <1>7, OperatorBeside DEF SharedInv, LetterHasCopy
<1>9. LettersKept
  BY <1>2 DEF LettersKept, Held
<1>10. PICK l \in {"mark", "get"} :
          /\ rpc' = [rpc EXCEPT ![a] = l]
          /\ \/ entry' = entry /\ l = "mark" /\ PutBack(d)
             \/ entry' = [entry EXCEPT ![a] = {}]
  BY <1>4 DEF NextEntry
<1>11. OperatorTypes'
  BY <1>1, <1>2, <1>6, <1>10 DEF OperatorTypes
<1>12. ASSUME NEW b \in Operators, NEW e \in entry'[b]
       PROVE  /\ e \in entry[b]
              /\ rpc'[b] = "mark" => BackOnLog(e)' \/ (rpc[b] = "mark" /\ e \in entry[b])
              /\ \A x \in entry'[b] : x = e
  <2>1. \A x, y \in entry[b] : x = y
    BY DEF ReplayInv
  <2>2. CASE b # a
    BY <1>1, <1>10, <1>12, <2>1, <2>2 DEF OperatorTypes
  <2>3. CASE b = a
    <3>1. entry'[a] = {} \/ (entry' = entry /\ PutBack(d))
      BY <1>1, <1>10 DEF OperatorTypes
    <3>2. e \in entry[a] /\ e = d /\ PutBack(d) /\ entry' = entry
      BY <1>12, <2>1, <2>3, <3>1
    <3> QED
      BY <1>6, <2>1, <2>3, <3>2
  <2> QED
    BY <2>2, <2>3
<1> QED
  BY <1>6, <1>7, <1>8, <1>9, <1>11, <1>12, ReplayKeeps

\* MarkReplayed keeps every row's id and bytes, and marks only the one row.
LEMMA MarkedRows ==
    ASSUME SinkTypeOK, NEW w \in Workers, NEW id \in LetterIds, MarkReplayed(w, id)
    PROVE  /\ \A d \in deadLetters : Held(d)'
           /\ \A e \in deadLetters' :
                 \E d \in deadLetters :
                    /\ d.id = e.id /\ d.payload = e.payload
                    /\ e.state = "replayed" => d.state = "replayed" \/ d.id = id
<1> DEFINE Upd(d) == IF d.id = id /\ d.state = "dead"
                     THEN [d EXCEPT !.state = "replayed"] ELSE d
<1>1. \A d \in deadLetters :
         /\ Upd(d).id = d.id /\ Upd(d).payload = d.payload
         /\ Upd(d).state = "replayed" => d.state = "replayed" \/ d.id = id
  BY DEF SinkTypeOK, LetterRows
<1>2. deadLetters' = {Upd(d) : d \in deadLetters}
  BY DEF MarkReplayed
<1> HIDE DEF Upd
<1>3. \A d \in deadLetters : Upd(d) \in deadLetters'
  BY <1>2
<1> QED
  BY <1>1, <1>2, <1>3 DEF Held

LEMMA CallMarkKeeps ==
    ASSUME ReplayInv, NEW a \in Operators, CallMark(a)
    PROVE  ReplayInv'
<1>1. ConsumerInv /\ SharedTypes /\ OperatorTypes /\ SharedInv /\ SinkInv /\ SinkTypeOK
  BY DEF ReplayInv, ConsumerInv, SinkInv
<1>2. /\ log' = log /\ dlqTopic' = dlqTopic /\ committed' = committed
      /\ owner' = owner /\ UNCHANGED memberVars /\ queue' = queue
      /\ entry' = entry /\ replays' = replays
      /\ abandoned' = abandoned /\ published' = published
      /\ rpc' = [rpc EXCEPT ![a] = "marked"] /\ rpc[a] = "mark"
  BY DEF CallMark, brokerVars, memberVars
<1>3. PICK d \in entry[a] : MarkReplayed(a, d.id) \/ CallFails(a)
  BY DEF CallMark
<1>4. a \in Workers /\ d.id \in LetterIds /\ Held(d) /\ BackOnLog(d)
  BY <1>1, <1>2, ReplayAssumption DEF OperatorTypes, LetterRows, ReplayInv
<1>5. SinkInv' /\ SinkGrown
  <2>1. SinkNext
    BY <1>3, <1>4 DEF SinkNext
  <2> QED
    BY <1>1, <2>1, SinkSide
<1>6. /\ positions' = positions
      /\ \A m \in Members : outcome'[m] = outcome[m]
  <2>1. PICK res : Returns(a, res)
    BY <1>3 DEF MarkReplayed, CallFails
  <2>2. positions' = positions
    BY <1>3 DEF MarkReplayed, CallFails, tables
  <2> QED
    BY <1>1, <2>1, <2>2, OperatorOutcome
<1>7. /\ \A e \in deadLetters : Held(e)'
      /\ \A e \in deadLetters' :
            \E f \in deadLetters :
               /\ f.id = e.id /\ f.payload = e.payload
               /\ e.state = "replayed" => f.state = "replayed" \/ f.id = d.id
  <2>1. CASE MarkReplayed(a, d.id)
    BY <1>1, <1>4, <2>1, MarkedRows
  <2>2. CASE CallFails(a)
    <3>1. deadLetters' = deadLetters
      BY <2>2 DEF CallFails, tables
    <3> QED
      BY <3>1 DEF Held
  <2> QED
    BY <1>3, <2>1, <2>2
<1>8. LettersKept
  <2> SUFFICES ASSUME NEW f \in deadLetters, f.id = d.id
               PROVE  BackOnLog(f)
    BY <1>7 DEF LettersKept
  <2>1. PICK e \in deadLetters : e.id = d.id /\ e.payload = d.payload
    BY <1>4 DEF Held
  <2>2. e = f
    BY <1>1, <2>1 DEF SinkInv, PrimaryKeys
  <2> QED
    BY <1>4, <2>1, <2>2 DEF BackOnLog
<1>9. SharedTypes' /\ Grown
  <2>1. faults' \in 0 .. MaxFaults
    BY <1>1, ConsumerAssumption DEF CallMark, Fault, NoFault, SharedTypes
  <2>2. SharedTypes'
    BY <1>1, <1>2, <2>1 DEF SharedTypes
  <2> QED
    BY <1>1, <1>2, <1>5, <2>2, QuietGrown
<1>10. LetterHasCopy'
  BY <1>1, <1>2, <1>7 DEF SharedInv, LetterHasCopy
<1>11. ConsumerInv'
  BY <1>1, <1>2, <1>5, <1>6, <1>9, <1>10, OperatorBeside
<1>12. /\ OperatorTypes' /\ rpc'[a] = "marked"
       /\ \A b \in Operators \ {a} : rpc'[b] = rpc[b]
  BY <1>1, <1>2 DEF OperatorTypes
<1> QED
  BY <1>2, <1>8, <1>9, <1>11, <1>12, ReplayKeeps DEF ReplayInv

\* An operator that reads its result, or is killed.
LEMMA EndsKeeps ==
    ASSUME ReplayInv, NEW a \in Operators, ReadMark(a) \/ Interrupt(a)
    PROVE  ReplayInv'
<1>1. ConsumerInv /\ SharedTypes /\ OperatorTypes /\ SharedInv /\ SinkInv
  BY DEF ReplayInv, ConsumerInv
<1>2. /\ log' = log /\ dlqTopic' = dlqTopic /\ committed' = committed
      /\ owner' = owner /\ UNCHANGED memberVars /\ replays' = replays
      /\ abandoned' = abandoned /\ published' = published
      /\ NextEntry(a)
      /\ faults' = faults \/ Fault
      /\ queue' = queue \/ queue' = [queue EXCEPT ![a] = {}]
      /\ Return(a) \/ UNCHANGED sinkVars
  BY DEF ReadMark, Interrupt, brokerVars, memberVars
<1>3. /\ SinkInv' /\ SinkGrown
      /\ positions' = positions /\ deadLetters' = deadLetters
      /\ \A m \in Members : outcome'[m] = outcome[m]
  <2>1. CASE Return(a)
    <3>1. a \in Workers
      BY ReplayAssumption
    <3>2. SinkNext
      BY <2>1, <3>1 DEF SinkNext
    <3>3. UNCHANGED tables /\ Returns(a, "none")
      BY <2>1 DEF Return
    <3> QED
      BY <1>1, <3>2, <3>3, SinkSide, OperatorOutcome DEF tables
  <2>2. CASE UNCHANGED sinkVars
    BY <1>1, <2>2, SinkSide DEF sinkVars
  <2> QED
    BY <1>2, <2>1, <2>2
<1>4. SharedTypes' /\ Grown
  <2>1. faults' \in 0 .. MaxFaults
    BY <1>1, <1>2, ConsumerAssumption DEF Fault, SharedTypes
  <2>2. SharedTypes'
    BY <1>1, <1>2, <2>1 DEF SharedTypes
  <2> QED
    BY <1>1, <1>2, <1>3, <2>2, QuietGrown
<1>5. ConsumerInv'
  BY <1>1, <1>2, <1>3, <1>4, OperatorBeside DEF SharedInv, LetterHasCopy
<1>6. LettersKept
  BY <1>3 DEF LettersKept, Held
<1>7. /\ OperatorTypes' /\ rpc'[a] = "get" /\ entry'[a] = {}
      /\ \A b \in Operators \ {a} : rpc'[b] = rpc[b] /\ entry'[b] = entry[b]
  <2>1. queue' \in [Operators -> SUBSET LetterIds]
    BY <1>1, <1>2 DEF OperatorTypes
  <2>2. /\ rpc' = [rpc EXCEPT ![a] = "get"] /\ entry' = [entry EXCEPT ![a] = {}]
        /\ replays' = replays
    BY <1>2 DEF NextEntry
  <2>3. /\ rpc' \in [Operators -> {"get", "publish", "mark", "marked"}]
        /\ entry' \in [Operators -> SUBSET LetterRows]
        /\ rpc'[a] = "get" /\ entry'[a] = {}
        /\ \A b \in Operators \ {a} : rpc'[b] = rpc[b] /\ entry'[b] = entry[b]
    BY <1>1, <2>2 DEF OperatorTypes
  <2> QED
    BY <1>1, <2>1, <2>2, <2>3 DEF OperatorTypes
<1> QED
  BY <1>2, <1>4, <1>5, <1>6, <1>7, ReplayKeeps DEF ReplayInv
-----------------------------------------------------------------------------
\* A row that is recorded again is dead, and no other row changes.
LEMMA RecordedRows ==
    ASSUME SinkTypeOK, PrimaryKeys, NEW id \in LetterIds, NEW v \in Payloads,
           NEW why \in Reasons, deadLetters' = LettersWith(id, v, why)
    PROVE  LettersKept
<1>1. \A d \in deadLetters : Held(d)'
  BY LettersWithKeeps DEF Held
<1>2. ASSUME NEW e \in LettersWith(id, v, why), e.state = "replayed"
      PROVE  e \in deadLetters
  <2>1. CASE \E d \in deadLetters : d.id = id
    <3>1. PICK d \in deadLetters :
             e = IF d.id = id THEN [d EXCEPT !.reason = why, !.state = "dead"] ELSE d
      BY <1>2, <2>1 DEF LettersWith
    <3>2. d \in LetterRows
      BY DEF SinkTypeOK
    <3>3. d.id # id
      BY <1>2, <3>1, <3>2 DEF LetterRows
    <3> QED
      BY <3>1, <3>3
  <2>2. CASE ~\E d \in deadLetters : d.id = id
    BY <1>2, <2>2 DEF LettersWith
  <2> QED
    BY <2>1, <2>2
<1> QED
  BY <1>1, <1>2 DEF LettersKept

LEMMA GroupKeeps ==
    ASSUME ReplayInv, ConsumerNext, UNCHANGED replayVars
    PROVE  ReplayInv'
<1>1. ConsumerInv /\ OperatorTypes /\ SinkTypeOK /\ PrimaryKeys
  BY DEF ReplayInv, ConsumerInv, SinkInv
<1>2. ConsumerInv'
  BY <1>1, ConsumerKeeps
<1>3. rpc' = rpc /\ queue' = queue /\ entry' = entry /\ replays' = replays
  BY DEF replayVars
<1>4. OperatorTypes'
  BY <1>1, <1>3 DEF OperatorTypes
<1>5. LettersKept
  <2>1. CASE deadLetters' = deadLetters
    BY <2>1 DEF LettersKept, Held
  <2> QED
    BY <1>1, <2>1, GroupGrows, RecordedRows
<1> QED
  BY <1>1, <1>2, <1>3, <1>4, <1>5, GroupGrows, ReplayKeeps DEF ReplayInv

LEMMA ReplayStutter ==
    ASSUME ReplayInv, UNCHANGED allVars
    PROVE  ReplayInv'
<1>1. OperatorTypes' /\ UNCHANGED <<sinkVars, brokerVars, memberVars, faults>>
  BY DEF allVars, ReplayInv, OperatorTypes, sinkVars, brokerVars, memberVars
<1>2. rpc' = rpc /\ entry' = entry /\ replays' = replays
  BY DEF allVars
<1> QED
  BY <1>1, <1>2, OperatorReads DEF ReplayInv

LEMMA ReplayStep ==
    ASSUME ReplayInv, ReplayNext
    PROVE  ReplayInv'
<1>1. ASSUME NEW a \in Operators, Operator(a) PROVE ReplayInv'
  BY <1>1, QueueKeeps, GetEntryKeeps, RepublishKeeps, CallMarkKeeps, EndsKeeps DEF Operator, Replaying
<1> QED
  BY <1>1, GroupKeeps DEF ReplayNext

LEMMA ReplayInitInv == ReplayInit => ReplayInv
<1> SUFFICES ASSUME ReplayInit PROVE ReplayInv
  OBVIOUS
<1>1. ConsumerInv
  BY ConsumerInitInv DEF ReplayInit
<1>2. OperatorTypes
  BY DEF ReplayInit, OperatorTypes
<1>3. MarkedAfterRepublish
  BY DEF ReplayInit, ConsumerInit, SinkInit, MarkedAfterRepublish
<1> QED
  BY <1>1, <1>2, <1>3 DEF ReplayInv, ReplayInit

LEMMA ReplayInvariant == ReplaySpec => []ReplayInv
<1>1. ReplayInv /\ [ReplayNext]_allVars => ReplayInv'
  BY ReplayStep, ReplayStutter
<1> QED
  BY <1>1, ReplayInitInv, PTL DEF ReplaySpec

\* Publish, then mark, whoever dies in between and whoever else refuses, marks
\* or replays the same row: a row is 'replayed' only when its exact bytes are
\* back on the log.  Operators at work do not weaken what the group commits
\* (Replayer.Replay, cmd/replay).
THEOREM ReplaySafety ==
    ReplaySpec => [](/\ ReplayTypeOK /\ MarkedAfterRepublish
                     /\ CommittedSettled /\ AppliedInOrder /\ Traceable
                     /\ NoPhantomFrame /\ LetterHasCopy)
<1>1. ReplayInv => /\ ReplayTypeOK /\ MarkedAfterRepublish
                   /\ CommittedSettled /\ AppliedInOrder /\ Traceable
                   /\ NoPhantomFrame /\ LetterHasCopy
  BY TypesSplit DEF ReplayInv, ReplayTypeOK, OperatorTypes, ConsumerInv, SinkInv, SharedInv
<1> QED
  BY <1>1, ReplayInvariant, PTL

\* Members and operators together call the sink as its specification allows.
THEOREM ReplayImplementsSink == ReplaySpec => SinkSpec
<1>1. ReplayInit => SinkInit
  BY DEF ReplayInit, ConsumerInit
<1>2. ASSUME ReplayInv, ReplayNext PROVE SinkNext \/ UNCHANGED sinkVars
  <2>1. CASE ConsumerNext
    BY <1>2, <2>1, ConsumerCallsSink DEF ReplayInv
  <2>2. ASSUME NEW a \in Operators, Operator(a) PROVE SinkNext \/ UNCHANGED sinkVars
    <3>0. a \in Workers
      BY ReplayAssumption
    <3>1. CASE CallMark(a)
      <4>1. PICK d \in entry[a] : MarkReplayed(a, d.id) \/ CallFails(a)
        BY <3>1 DEF CallMark
      <4>2. d.id \in LetterIds
        BY <1>2 DEF ReplayInv, OperatorTypes, LetterRows
      <4> QED
        BY <3>0, <4>1, <4>2 DEF SinkNext
    <3>2. CASE ReadMark(a) \/ Interrupt(a)
      BY <3>0, <3>2 DEF ReadMark, Interrupt, SinkNext
    <3>3. CASE ReplayAll(a) \/ Republish(a)
      BY <3>3 DEF ReplayAll, Republish
    <3>4. ASSUME NEW id \in LetterIds, ReplayId(a, id) \/ GetEntry(a, id)
          PROVE  UNCHANGED sinkVars
      BY <3>4 DEF ReplayId, GetEntry
    <3> QED
      BY <2>2, <3>1, <3>2, <3>3, <3>4 DEF Operator, Replaying
  <2> QED
    BY <1>2, <2>1, <2>2 DEF ReplayNext
<1>3. ReplayInv /\ [ReplayNext]_allVars => [SinkNext]_sinkVars
  BY <1>2 DEF allVars, sinkVars
<1> QED
  BY <1>1, <1>3, ReplayInvariant, PTL DEF ReplaySpec, SinkSpec

\* So no row of the history is ever rewritten, and no dead letter changes its
\* bytes, with operators at work too.
THEOREM ReplayKeepsRecord == ReplaySpec => RecordKept
BY ReplayImplementsSink, SinkRecordKept, PTL
-----------------------------------------------------------------------------
\* The member has found the record under its cursor new, and will publish it.
AboutToShow(m, p) ==
    /\ First(m, p)
    /\ pc[m] = "publish" \/ (pc[m] = "result" /\ Shown(outcome[m]))

\* The event is the member's: its row says so, and nobody has shown it.
Claimed(m, p) ==
    /\ Rec(m, p).id \notin published
    /\ \E r \in processed : r.id = Rec(m, p).id /\ r.consumer = m

ShowOnce(m) == \A p \in Partitions : AboutToShow(m, p) => Claimed(m, p)

GroupInv == ConsumerInv /\ \A m \in Members : ShowOnce(m)
-----------------------------------------------------------------------------
\* The member is where it was, with the same record and the same result.
Still(m) ==
    /\ pc'[m] = pc[m] /\ nxt'[m] = nxt[m] /\ todo'[m] = todo[m]
    /\ outcome'[m] = outcome[m]

\* Nobody shows a record in this step, or finds out whether it is new.
Quiet ==
    /\ published' = published
    /\ \A u \in Members : Still(u) \/ pc'[u] \notin {"publish", "result"}

LEMMA ClaimIsOne ==
    ASSUME GroupInv, NEW m \in Members, NEW u \in Members \ {m},
           NEW p \in Partitions, NEW q \in Partitions,
           AboutToShow(m, p), AboutToShow(u, q)
    PROVE  Rec(m, p).id # Rec(u, q).id
<1>1. PICK r \in processed : r.id = Rec(m, p).id /\ r.consumer = m
  BY DEF GroupInv, ShowOnce, Claimed
<1>2. PICK s \in processed : s.id = Rec(u, q).id /\ s.consumer = u
  BY DEF GroupInv, ShowOnce, Claimed
<1>3. r # s
  BY <1>1, <1>2
<1> QED
  BY <1>1, <1>2, <1>3 DEF GroupInv, ConsumerInv, SinkInv, PrimaryKeys

\* A claim outlasts what others do, unless they show an event of its id.
LEMMA ShowStays ==
    ASSUME GroupInv, Grown, NEW m \in Members, Still(m),
           \A id \in published' \ published :
              \A p \in Partitions : AboutToShow(m, p) => Rec(m, p).id # id
    PROVE  ShowOnce(m)'
<1> SUFFICES ASSUME NEW p \in Partitions, AboutToShow(m, p)'
             PROVE  Claimed(m, p)'
  BY DEF ShowOnce
<1>1. AboutToShow(m, p)
  BY DEF AboutToShow, First, Still
<1>2. First(m, p) /\ pc[m] \in Working /\ nxt'[m][p] = nxt[m][p]
  BY <1>1 DEF AboutToShow, Working, Still
<1>3. nxt[m][p] < pos[m][p] /\ Cursor(m, p) /\ SharedTypes /\ MemberTypes
  BY <1>2, AtHead DEF AtRecord, GroupInv
<1>4. Rec(m, p)' = Rec(m, p)
  BY <1>2, <1>3, RecStays
<1>5. Claimed(m, p)
  BY <1>1 DEF GroupInv, ShowOnce
<1> QED
  BY <1>1, <1>4, <1>5 DEF Claimed, Grown

\* What the other members notice of a member's step.
LEMMA MovesAlone ==
    ASSUME ConsumerInv, NEW m \in Members, NEW p \in Partitions,
           Publish(m, p) \/ CallApply(m, p) \/ HandleResult(m, p)
    PROVE  \A u \in Members \ {m} : Still(u)
<1>1. MemberTypes /\ outcome \in [Workers -> Results] /\ Members \subseteq Workers
  BY ConsumerAssumption DEF ConsumerInv, SinkInv, SinkTypeOK
<1>2. CASE Publish(m, p)
  BY <1>1, <1>2 DEF Publish, Done, Goto, sinkVars, MemberTypes, Still
<1>3. CASE CallApply(m, p)
  BY <1>1, <1>3 DEF CallApply, Apply, CallFails, Returns, Goto, clientVars, loopVars,
                    MemberTypes, Still
<1>4. CASE HandleResult(m, p)
  BY <1>1, <1>4 DEF HandleResult, Return, Returns, Goto, Done, Refuse, loopVars,
                    MemberTypes, Still
<1> QED
  BY <1>2, <1>3, <1>4

\* A member that finds an event new claims it: nobody was given it before, and
\* what nobody was given nobody has shown.
LEMMA ApplyClaims ==
    ASSUME ConsumerInv, SinkInv', NEW m \in Members, NEW p \in Partitions,
           CallApply(m, p), Shown(outcome'[m])
    PROVE  /\ Rec(m, p)' = Rec(m, p)
           /\ Claimed(m, p)'
<1>1. /\ m \in Workers /\ outcome \in [Workers -> Results]
      /\ Rec(m, p)' = Rec(m, p) /\ published' = published
  BY ConsumerAssumption
     DEF CallApply, ConsumerInv, SinkInv, SinkTypeOK, Rec, brokerVars, clientVars
<1>2. /\ ~Duplicate(Rec(m, p))
      /\ processed' = ProcessedWith(m, Rec(m, p), p, nxt[m][p])
  BY <1>1 DEF CallApply, Apply, CallFails, Returns, Effect, Shown
<1>3. Rec(m, p).id \notin published
  <2> SUFFICES ASSUME NEW r \in positions, r.id = Rec(m, p).id PROVE FALSE
    BY DEF ConsumerInv, SharedInv, NoPhantomFrame
  <2> QED
    BY <1>2 DEF Duplicate, ConsumerInv, SinkInv, EffectWhole
<1>4. \E r \in processed' : r.id = Rec(m, p).id /\ r.consumer = m
  <2> DEFINE row == [id |-> Rec(m, p).id, consumer |-> m, partition |-> p,
                     offset |-> nxt[m][p]]
  <2>1. row \in processed' /\ row.id = Rec(m, p).id /\ row.consumer = m
    BY <1>2 DEF ProcessedWith
  <2> HIDE DEF row
  <2> QED
    BY <2>1
<1> QED
  BY <1>1, <1>3, <1>4 DEF Claimed

LEMMA CallApplyShows ==
    ASSUME GroupInv, SinkInv', Grown, NEW m \in Members, NEW p \in Partitions,
           CallApply(m, p)
    PROVE  \A u \in Members : ShowOnce(u)'
<1>1. ConsumerInv /\ published' = published /\ pc'[m] = "result" /\ First(m, p)
  BY DEF GroupInv, CallApply, ConsumerInv, MemberTypes, Goto
<1>2. ASSUME NEW u \in Members \ {m} PROVE ShowOnce(u)'
  BY <1>1, <1>2, MovesAlone, ShowStays
<1>3. ASSUME NEW q \in Partitions, AboutToShow(m, q)' PROVE Claimed(m, q)'
  <2>1. First(m, q) /\ Shown(outcome'[m])
    BY <1>1, <1>3 DEF AboutToShow, First, CallApply, loopVars
  <2>2. q = p
    BY <1>1, <2>1, FirstIsOne
  <2> QED
    BY <1>1, <2>1, <2>2, ApplyClaims
<1> QED
  BY <1>2, <1>3 DEF ShowOnce

LEMMA HandleResultShows ==
    ASSUME GroupInv, Grown, NEW m \in Members, NEW p \in Partitions,
           HandleResult(m, p)
    PROVE  \A u \in Members : ShowOnce(u)'
<1>1. /\ ConsumerInv /\ published' = published /\ processed' = processed
      /\ log' = log /\ First(m, p) /\ pc[m] = "result" /\ MemberTypes
  BY DEF GroupInv, ConsumerInv, HandleResult, Return, tables, brokerVars
<1>2. ASSUME NEW u \in Members \ {m} PROVE ShowOnce(u)'
  BY <1>1, <1>2, MovesAlone, ShowStays
<1>3. ASSUME NEW q \in Partitions, AboutToShow(m, q)' PROVE Claimed(m, q)'
  <2>1. Shown(outcome[m]) /\ nxt' = nxt /\ todo' = todo
    BY <1>1, <1>3 DEF AboutToShow, HandleResult, Goto, Done, Refuse, MemberTypes, loopVars
  <2>2. Claimed(m, q)
    BY <1>1, <1>3, <2>1 DEF GroupInv, ShowOnce, AboutToShow, First
  <2> QED
    BY <1>1, <2>1, <2>2 DEF Claimed, Rec
<1> QED
  BY <1>2, <1>3 DEF ShowOnce

LEMMA PublishShows ==
    ASSUME GroupInv, Grown, NEW m \in Members, NEW p \in Partitions, Publish(m, p)
    PROVE  \A u \in Members : ShowOnce(u)'
<1>1. ConsumerInv /\ First(m, p) /\ pc[m] = "publish" /\ pc'[m] = "next"
  BY DEF GroupInv, ConsumerInv, Publish, Done, Goto, MemberTypes
<1>2. published' \ published \subseteq {Rec(m, p).id} /\ AboutToShow(m, p)
  BY <1>1 DEF Publish, AboutToShow
<1>3. ASSUME NEW u \in Members \ {m} PROVE ShowOnce(u)'
  <2>1. Still(u)
    BY <1>1, <1>3, MovesAlone
  <2> QED
    BY <1>2, <1>3, <2>1, ShowStays, ClaimIsOne
<1>4. ShowOnce(m)'
  BY <1>1 DEF ShowOnce, AboutToShow
<1> QED
  BY <1>3, <1>4

\* All other steps.
LEMMA QuietShows ==
    ASSUME GroupInv, Grown, Quiet
    PROVE  \A u \in Members : ShowOnce(u)'
<1> SUFFICES ASSUME NEW u \in Members PROVE ShowOnce(u)'
  OBVIOUS
<1>1. CASE Still(u)
  BY <1>1, ShowStays DEF Quiet
<1>2. CASE ~Still(u)
  BY <1>2 DEF Quiet, ShowOnce, AboutToShow
<1> QED
  BY <1>1, <1>2

LEMMA WorkIsQuiet ==
    ASSUME ConsumerInv, NEW m \in Members, NEW p \in Partitions, Work(m, p),
           ~Publish(m, p), ~CallApply(m, p), ~HandleResult(m, p)
    PROVE  Quiet
<1>1. MemberTypes /\ outcome \in [Workers -> Results] /\ Members \subseteq Workers
  BY ConsumerAssumption DEF ConsumerInv, SinkInv, SinkTypeOK
<1>2. CASE ProcessOne(m, p)
  BY <1>1, <1>2 DEF ProcessOne, Refuse, Goto, sinkVars, clientVars, MemberTypes, Quiet, Still
<1>3. CASE Cancelled(m, p) \/ EndOfGroup(m, p)
  BY <1>1, <1>3 DEF Cancelled, EndOfGroup, Failed, Goto, sinkVars, clientVars, loopVars,
                    MemberTypes, Quiet, Still
<1>4. CASE ProduceDLQ(m, p)
  BY <1>1, <1>4 DEF ProduceDLQ, Failed, Goto, sinkVars, loopVars, MemberTypes, Quiet, Still
<1>5. CASE CallRecord(m, p)
  BY <1>1, <1>5 DEF CallRecord, RecordDeadLetter, CallFails, Returns, Goto, clientVars,
                    loopVars, MemberTypes, Quiet, Still
<1>6. CASE HandleRefusal(m, p)
  BY <1>1, <1>6 DEF HandleRefusal, Return, Returns, Done, Failed, Goto, loopVars,
                    MemberTypes, Quiet, Still
<1>7. CASE CommitPrefix(m, p)
  BY <1>1, <1>7 DEF CommitPrefix, NextPartition, Goto, sinkVars, clientVars, MemberTypes,
                    Quiet, Still
<1> QED
  BY <1>2, <1>3, <1>4, <1>5, <1>6, <1>7 DEF Work

LEMMA ProcessIsQuiet ==
    ASSUME ConsumerInv, NEW m \in Members,
           Start(m) \/ Exit(m) \/ Poll(m) \/ Retry(m) \/ Sigterm(m) \/ Crash(m)
    PROVE  Quiet
<1>1. MemberTypes /\ outcome \in [Workers -> Results] /\ Members \subseteq Workers
  BY ConsumerAssumption DEF ConsumerInv, SinkInv, SinkTypeOK
<1>2. CASE Start(m) \/ Sigterm(m) \/ Retry(m)
  BY <1>1, <1>2 DEF Start, Sigterm, Retry, Goto, sinkVars, clientVars, loopVars,
                    MemberTypes, Quiet, Still
<1>3. CASE Exit(m)
  BY <1>1, <1>3 DEF Exit, Forget, sinkVars, MemberTypes, Quiet, Still
<1>4. CASE Crash(m)
  BY <1>1, <1>4 DEF Crash, Forget, Return, Returns, sinkVars, MemberTypes, Quiet, Still
<1>5. CASE Poll(m)
  BY <1>1, <1>5 DEF Poll, Goto, sinkVars, MemberTypes, Quiet, Still
<1> QED
  BY <1>2, <1>3, <1>4, <1>5

LEMMA BesideIsQuiet ==
    ASSUME ConsumerInv, NEW p \in Partitions,
           \/ \E m \in Members : Coordinator(m, p)
           \/ \E v \in Payloads : Produce(p, v)
    PROVE  Quiet
<1>1. MemberTypes
  BY DEF ConsumerInv
<1>2. ASSUME NEW m \in Members, Assign(m, p) \/ Revoke(m, p) \/ NoticeLost(m, p)
      PROVE  Quiet
  BY <1>1, <1>2 DEF Assign, Revoke, NoticeLost, Drop, Rebalancing, sinkVars, loopVars,
                    MemberTypes, Quiet, Still
<1>3. ASSUME NEW m \in Members, Expire(m, p) PROVE Quiet
  BY <1>3 DEF Expire, sinkVars, clientVars, loopVars, Quiet, Still
<1>4. ASSUME NEW v \in Payloads, Produce(p, v) PROVE Quiet
  BY <1>4 DEF Produce, sinkVars, clientVars, loopVars, Quiet, Still
<1> QED
  BY <1>2, <1>3, <1>4 DEF Coordinator

LEMMA GroupShows ==
    ASSUME GroupInv, ConsumerNext
    PROVE  GroupInv'
<1>1. ConsumerInv /\ ConsumerInv' /\ SinkInv' /\ Grown
  BY ConsumerKeeps, GroupGrows DEF GroupInv, ConsumerInv
<1>2. ASSUME NEW m \in Members, NEW p \in Partitions, Work(m, p)
      PROVE  \A u \in Members : ShowOnce(u)'
  BY <1>1, <1>2, PublishShows, CallApplyShows, HandleResultShows, WorkIsQuiet, QuietShows
<1>3. ASSUME NEW m \in Members, Loop(m) PROVE \A u \in Members : ShowOnce(u)'
  BY <1>1, <1>2, <1>3, ProcessIsQuiet, QuietShows DEF Loop
<1>4. ASSUME NEW m \in Members,
             Sigterm(m) \/ Crash(m) \/ \E p \in Partitions : Coordinator(m, p)
      PROVE  \A u \in Members : ShowOnce(u)'
  BY <1>1, <1>4, ProcessIsQuiet, BesideIsQuiet, QuietShows
<1>5. ASSUME NEW p \in Partitions, NEW v \in Payloads, Produce(p, v)
      PROVE  \A u \in Members : ShowOnce(u)'
  BY <1>1, <1>5, BesideIsQuiet, QuietShows
<1> QED
  BY <1>1, <1>3, <1>4, <1>5 DEF ConsumerNext, GroupInv

LEMMA GroupRests ==
    ASSUME GroupInv, UNCHANGED consumerVars
    PROVE  GroupInv'
<1>1. ConsumerInv'
  BY ConsumerStutter DEF GroupInv
<1> QED
  BY <1>1 DEF GroupInv, ShowOnce, AboutToShow, Claimed, First, Rec, consumerVars

LEMMA GroupStarts == ConsumerInit => GroupInv
BY ConsumerInitInv DEF ConsumerInit, GroupInv, ShowOnce, AboutToShow

\* A step of the pipeline is one of the group, or leaves the group alone.
LEMMA PipelineGroup ==
    ASSUME PipelineNext \/ UNCHANGED pipelineVars
    PROVE  ConsumerNext \/ UNCHANGED consumerVars
<1>1. ASSUME NEW m \in Members, NEW p \in Partitions, PublishFrame(m, p)
      PROVE  ConsumerNext
  BY <1>1 DEF PublishFrame, ConsumerNext, Loop, Work
<1>2. UNCHANGED pipelineVars => UNCHANGED consumerVars
  BY DEF pipelineVars, consumerVars
<1> QED
  BY <1>1, <1>2 DEF PipelineNext, ConsumerStep, Show

LEMMA PipelineGroupInv == PipelineSpec => []GroupInv
<1>1. PipelineInit => GroupInv
  BY GroupStarts DEF PipelineInit
<1>2. GroupInv /\ [PipelineNext]_pipelineVars => GroupInv'
  BY PipelineGroup, GroupShows, GroupRests
<1> QED
  BY <1>1, <1>2, PTL DEF PipelineSpec
-----------------------------------------------------------------------------
Ids == {r.id : r \in positions}

\* An event enters the history once, and nothing leaves it.
LEMMA HistoryGrows ==
    ASSUME SinkInv, SinkNext
    PROVE  Ids' = Ids \/ \E e \in EventIds \ Ids : Ids' = Ids \cup {e}
<1>1. ASSUME NEW w \in Workers, NEW v \in Payloads, NEW p \in Partitions,
             NEW o \in Offsets, Apply(w, v, p, o)
      PROVE  positions' = positions \/ positions' = PositionsWith(v, p, o)
  BY <1>1 DEF Apply, Effect, tables
<1>2. ASSUME NEW v \in Payloads, NEW p \in Partitions, NEW o \in Offsets,
             positions' = PositionsWith(v, p, o)
      PROVE  Ids' = Ids \/ \E e \in EventIds \ Ids : Ids' = Ids \cup {e}
  <2>1. v.id \in EventIds
    BY EventAssumption DEF PayloadType
  <2>2. CASE v.id \in Ids
    BY <1>2, <2>2 DEF PositionsWith, Ids
  <2>3. CASE v.id \notin Ids
    <3> DEFINE row == [id |-> v.id, vehicle |-> v.vehicle, ts |-> v.ts,
                       partition |-> p, offset |-> o]
    <3>1. positions' = positions \cup {row} /\ row.id = v.id
      BY <1>2, <2>3 DEF PositionsWith, Ids
    <3> HIDE DEF row
    <3>2. Ids' = Ids \cup {v.id}
      BY <3>1 DEF Ids
    <3> QED
      BY <2>1, <2>3, <3>2
  <2> QED
    BY <2>2, <2>3
<1>3. positions' = positions => Ids' = Ids
  BY DEF Ids
<1>4. ASSUME NEW w \in Workers, NEW id, NEW v, NEW why,
             RecordDeadLetter(w, id, v, why) \/ MarkReplayed(w, id)
      PROVE  positions' = positions
  BY <1>4 DEF RecordDeadLetter, MarkReplayed
<1>5. ASSUME NEW w \in Workers, CallFails(w) \/ Return(w)
      PROVE  positions' = positions
  BY <1>5 DEF CallFails, Return, tables
<1> QED
  BY <1>1, <1>2, <1>3, <1>4, <1>5 DEF SinkNext

\* A member publishes what is in the history and was not published before.
LEMMA PublishMaps ==
    ASSUME GroupInv, NEW m \in Members, NEW p \in Partitions, PublishFrame(m, p)
    PROVE  GW!GatewayNext \/ UNCHANGED GW!gatewayVars
<1> DEFINE e == Rec(m, p).id
<1>1. ConsumerInv /\ First(m, p) /\ pc[m] = "publish" /\ positions' = positions
  BY DEF GroupInv, PublishFrame, Publish, sinkVars
<1>2. e \in Ids /\ e \in EventIds
  <2>1. Duplicate(Rec(m, p)) /\ SinkTypeOK
    BY <1>1, AtHead DEF AtRecord
  <2> QED
    BY <1>1, <2>1 DEF Duplicate, ConsumerInv, SinkInv, EffectWhole, Ids, SinkTypeOK,
                      ProcessedRows
<1>3. e \notin published
  BY <1>1 DEF GroupInv, ShowOnce, AboutToShow, Claimed
<1>4. /\ Ids' = Ids
      /\ UNCHANGED <<running, phase, clients, others, buf, closed, handler, resume,
                     frames, cut, gone, lastId, seen, since>>
  BY <1>1 DEF PublishFrame, Ids
<1>5. \/ /\ published' = published \cup {e}
         /\ \/ /\ Len(feed) < BusBuffer
               /\ feed' = Append(feed, e)
               /\ bused' = bused \cup {e}
            \/ UNCHANGED <<feed, bused>>
      \/ UNCHANGED <<published, feed, bused>>
  BY <1>3 DEF PublishFrame, Publish
<1> HIDE DEF e
<1>6. CASE published' = published \cup {e}
  <2>1. \/ /\ Len(feed) < BusBuffer
           /\ feed' = Append(feed, e)
           /\ bused' = bused \cup {e}
        \/ UNCHANGED <<feed, bused>>
    BY <1>2, <1>3, <1>5, <1>6
  <2>2. GW!Publish(e)
    BY <1>2, <1>3, <1>4, <1>6, <2>1 DEF GW!Publish, GW!streamVars, GW!browserVars, Ids
  <2> QED
    BY <1>2, <2>2 DEF GW!GatewayNext
<1>7. CASE UNCHANGED <<published, feed, bused>>
  BY <1>4, <1>7 DEF GW!gatewayVars, Ids
<1> QED
  BY <1>5, <1>6, <1>7

LEMMA ConsumerMaps ==
    ASSUME GroupInv, ConsumerStep
    PROVE  GW!GatewayNext \/ UNCHANGED GW!gatewayVars
<1>1. SinkInv /\ (SinkNext \/ UNCHANGED sinkVars)
  BY ConsumerCallsSink DEF GroupInv, ConsumerInv, ConsumerStep
<1>2. /\ published' = published
      /\ UNCHANGED <<bused, feed, running, phase, clients, others, buf, closed, handler,
                     resume, frames, cut, gone, lastId, seen, since>>
  BY DEF ConsumerStep, gatewayVars
<1>3. Ids' = Ids \/ \E e \in EventIds \ Ids : Ids' = Ids \cup {e}
  BY <1>1, HistoryGrows DEF sinkVars, Ids
<1>4. CASE Ids' = Ids
  BY <1>2, <1>4 DEF GW!gatewayVars, Ids
<1>5. ASSUME NEW e \in EventIds \ Ids, Ids' = Ids \cup {e} PROVE GW!Applied(e)
  BY <1>2, <1>5 DEF GW!Applied, GW!streamVars, GW!browserVars, Ids
<1> QED
  BY <1>3, <1>4, <1>5 DEF GW!GatewayNext

LEMMA PipelineMaps ==
    ASSUME GroupInv, PipelineNext \/ UNCHANGED pipelineVars
    PROVE  GW!GatewayNext \/ UNCHANGED GW!gatewayVars
<1>1. CASE Show
  BY <1>1 DEF Show, GW!GatewayNext
<1>2. CASE UNCHANGED pipelineVars
  BY <1>2 DEF pipelineVars, GW!gatewayVars
<1> QED
  BY <1>1, <1>2, PublishMaps, ConsumerMaps DEF PipelineNext

\* The consumers are the environment the gateway is written for, for any
\* number of members that crash, retry and take over from each other: an event
\* enters the history once and for good, and is published at most once and
\* only after that (Consumer.processOne, Consumer.publish).
THEOREM PipelineServesGateway == PipelineSpec => GatewayServed
<1>1. PipelineInit => GW!GatewayInit
  BY DEF PipelineInit
<1>2. GroupInv /\ [PipelineNext]_pipelineVars => [GW!GatewayNext]_(GW!gatewayVars)
  BY PipelineMaps
<1> QED
  BY <1>1, <1>2, PipelineGroupInv, PTL DEF PipelineSpec, GatewayServed, GW!GatewaySpec
-----------------------------------------------------------------------------
\* Whatever is on its way to a page, or was sent to it, is in the history.
OnTheWay ==
    /\ feed \in Seq(Ids)
    /\ buf \in [Browsers -> Seq(Ids)]
    /\ frames \in [Browsers -> SUBSET Ids]
    /\ seen \in [Browsers -> SUBSET Ids]
    /\ lastId \in [Browsers -> Ids \cup {NoId}]

\* A map drawn from a set of events shows of each vehicle one of the newest.
Drawn(drawn, es) ==
    /\ \A v \in Vehicles :
          drawn[v] # NoId => drawn[v] \in es /\ VehicleOf[drawn[v]] = v
    /\ \A e \in es :
          /\ drawn[VehicleOf[e]] # NoId
          /\ EventTs[e] <= EventTs[drawn[VehicleOf[e]]]

\* The page has drawn what it was sent, the last id included.
PageInv(b) ==
    /\ lastId[b] # NoId => lastId[b] \in seen[b]
    /\ Drawn(shown[b], seen[b])

PipelineInv ==
    /\ GroupInv
    /\ OnTheWay
    /\ shown \in [Browsers -> [Vehicles -> EventIds \cup {NoId}]]
    /\ \A b \in Browsers : PageInv(b)

LEMMA NoIdIsNone == NoId \notin EventIds
BY GatewayConstants DEF GW!GatewayAssumption

LEMMA TimesAreInts ==
    /\ EventTs \in [EventIds -> Int]
    /\ VehicleOf \in [EventIds -> Vehicles]
BY GatewayConstants, PipelineAssumption DEF GW!GatewayAssumption

LEMMA IdsAreEvents == SinkTypeOK => Ids \subseteq EventIds
BY DEF SinkTypeOK, PositionRows, Ids

LEMMA SeqWider ==
    ASSUME NEW S, NEW T, S \subseteq T
    PROVE  Seq(S) \subseteq Seq(T)
BY SeqDef

LEMMA WayWidens ==
    ASSUME OnTheWay, Ids \subseteq Ids', UNCHANGED <<feed, buf, frames, seen, lastId>>
    PROVE  OnTheWay'
<1>1. Seq(Ids) \subseteq Seq(Ids')
  BY SeqWider
<1> QED
  BY <1>1 DEF OnTheWay

\* Upsert keeps the map right, in whatever order events come.
LEMMA UpsertDraws ==
    ASSUME NEW drawn \in [Vehicles -> EventIds \cup {NoId}],
           NEW es \in SUBSET EventIds, Drawn(drawn, es), NEW e \in EventIds
    PROVE  /\ Upsert(drawn, e) \in [Vehicles -> EventIds \cup {NoId}]
           /\ Drawn(Upsert(drawn, e), es \cup {e})
<1>1. e # NoId /\ VehicleOf[e] \in Vehicles /\ EventTs[e] \in Int
  BY NoIdIsNone, TimesAreInts
<1>2. \A f \in es : f # NoId /\ VehicleOf[f] \in Vehicles /\ EventTs[f] \in Int
  BY NoIdIsNone, TimesAreInts
<1>3. CASE drawn[VehicleOf[e]] = NoId \/ EventTs[e] >= EventTs[drawn[VehicleOf[e]]]
  <2>1. Upsert(drawn, e) = [drawn EXCEPT ![VehicleOf[e]] = e]
    BY <1>3 DEF Upsert
  <2>2. ASSUME NEW f \in es, VehicleOf[f] = VehicleOf[e] PROVE EventTs[f] <= EventTs[e]
    <3>1. /\ drawn[VehicleOf[e]] \in es
          /\ EventTs[f] <= EventTs[drawn[VehicleOf[e]]]
      BY <1>1, <2>2 DEF Drawn
    <3> QED
      BY <1>1, <1>2, <1>3, <3>1
  <2> QED
    BY <1>1, <1>2, <2>1, <2>2 DEF Drawn
<1>4. CASE ~(drawn[VehicleOf[e]] = NoId \/ EventTs[e] >= EventTs[drawn[VehicleOf[e]]])
  <2>1. Upsert(drawn, e) = drawn
    BY <1>4 DEF Upsert
  <2>2. drawn[VehicleOf[e]] \in es
    BY <1>1, <1>4 DEF Drawn
  <2>3. EventTs[e] <= EventTs[drawn[VehicleOf[e]]]
    BY <1>1, <1>2, <1>4, <2>2
  <2> QED
    BY <1>1, <1>4, <2>1, <2>3 DEF Drawn
<1> QED
  BY <1>3, <1>4

\* What the gateway did to the browser: nothing, or it sent a frame.
Sent(b) ==
    \/ lastId'[b] = lastId[b] /\ seen'[b] = seen[b]
    \/ lastId'[b] \in Ids /\ seen'[b] = seen[b] \cup {lastId'[b]}

LEMMA QueueFacts ==
    ASSUME NEW S, NEW s \in Seq(S), s # <<>>
    PROVE  Head(s) \in S /\ Tail(s) \in Seq(S)
BY HeadTailProperties, EmptySeq

LEMMA WriteSends ==
    ASSUME OnTheWay, NEW b \in Browsers, NEW e \in Ids, GW!WritePosition(b, e)
    PROVE  /\ seen' \in [Browsers -> SUBSET Ids]
           /\ lastId' \in [Browsers -> Ids \cup {NoId}]
           /\ \A c \in Browsers : Sent(c)
BY DEF OnTheWay, GW!WritePosition, Sent

LEMMA BroadcastSends ==
    ASSUME OnTheWay, Ids' = Ids, GW!Broadcast
    PROVE  OnTheWay' /\ \A b \in Browsers : Sent(b)
<1>1. /\ UNCHANGED <<frames, seen, lastId>> /\ feed # <<>> /\ feed' = Tail(feed)
  BY DEF GW!Broadcast, GW!browserVars
<1>2. Head(feed) \in Ids /\ feed' \in Seq(Ids)
  BY <1>1, QueueFacts DEF OnTheWay
<1>3. PICK full : buf' = [b \in Browsers |-> IF b \in clients \ full
                                             THEN Append(buf[b], Head(feed)) ELSE buf[b]]
  BY DEF GW!Broadcast
<1>4. ASSUME NEW b \in Browsers PROVE Append(buf[b], Head(feed)) \in Seq(Ids)
  BY <1>2, AppendProperties DEF OnTheWay
<1>5. buf' \in [Browsers -> Seq(Ids)]
  BY <1>3, <1>4 DEF OnTheWay
<1> QED
  BY <1>1, <1>2, <1>5 DEF OnTheWay, Sent

\* What touches neither the buffers nor the browsers.
LEMMA BesideStreams ==
    ASSUME OnTheWay, Ids' = Ids,
           \/ GW!OthersComeAndGo \/ GW!Sigterm \/ GW!LoopEnds \/ GW!Shutdown
           \/ GW!CloseListener
           \/ \E b \in Browsers :
                 GW!Register(b) \/ GW!PositionTime(b) \/ GW!Resumed(b) \/ GW!HangUp(b)
    PROVE  OnTheWay' /\ \A b \in Browsers : Sent(b)
<1>1. UNCHANGED <<feed, buf, frames, seen, lastId>>
  <2>1. CASE GW!OthersComeAndGo \/ GW!Sigterm \/ GW!LoopEnds \/ GW!Shutdown \/ GW!CloseListener
    BY <2>1 DEF GW!OthersComeAndGo, GW!Sigterm, GW!LoopEnds, GW!Shutdown,
                GW!CloseListener, GW!streamVars, GW!browserVars
  <2>2. ASSUME NEW b \in Browsers, GW!Register(b) \/ GW!Resumed(b) \/ GW!HangUp(b)
        PROVE  UNCHANGED <<feed, buf, frames, seen, lastId>>
    BY <2>2 DEF GW!Register, GW!Resumed, GW!HangUp, GW!browserVars
  <2>3. ASSUME NEW b \in Browsers, GW!PositionTime(b)
        PROVE  UNCHANGED <<feed, buf, frames, seen, lastId>>
    BY <2>3 DEF GW!PositionTime, GW!StartFresh
  <2> QED
    BY <2>1, <2>2, <2>3
<1> QED
  BY <1>1 DEF OnTheWay, Sent

LEMMA RestartSends ==
    ASSUME OnTheWay, Ids' = Ids, GW!Restart
    PROVE  OnTheWay' /\ \A b \in Browsers : Sent(b)
<1>1. /\ feed' = <<>> /\ buf' = [b \in Browsers |-> <<>>]
      /\ frames' = [b \in Browsers |-> {}] /\ UNCHANGED <<seen, lastId>>
  BY DEF GW!Restart, GW!browserVars
<1>2. <<>> \in Seq(Ids)
  BY EmptySeq
<1> QED
  BY <1>1, <1>2 DEF OnTheWay, Sent

\* The second read of a resume takes what it will send from the history.
LEMMA PositionsSinceSends ==
    ASSUME OnTheWay, Ids' = Ids, NEW b \in Browsers, GW!PositionsSince(b)
    PROVE  OnTheWay' /\ \A c \in Browsers : Sent(c)
<1>1. UNCHANGED <<feed, buf, seen, lastId>>
  BY DEF GW!PositionsSince
<1>2. frames' = frames \/ \E es \in SUBSET Ids : frames' = [frames EXCEPT ![b] = es]
  BY DEF GW!PositionsSince, GW!StartFresh, GW!Oldest, Ids
<1> QED
  BY <1>1, <1>2 DEF OnTheWay, Sent

LEMMA WriteMissedSends ==
    ASSUME OnTheWay, Ids' = Ids, NEW b \in Browsers, GW!WriteMissed(b)
    PROVE  OnTheWay' /\ \A c \in Browsers : Sent(c)
<1>1. UNCHANGED <<feed, buf>>
  BY DEF GW!WriteMissed
<1>2. \/ \E e \in frames[b] :
            GW!WritePosition(b, e) /\ frames' = [frames EXCEPT ![b] = @ \ {e}]
      \/ UNCHANGED <<seen, lastId>> /\ frames' = [frames EXCEPT ![b] = {}]
  BY DEF GW!WriteMissed, GW!browserVars
<1>3. frames[b] \subseteq Ids /\ frames' \in [Browsers -> SUBSET Ids]
  BY <1>2 DEF OnTheWay
<1>4. CASE \E e \in frames[b] : GW!WritePosition(b, e)
  BY <1>1, <1>3, <1>4, WriteSends DEF OnTheWay
<1>5. CASE UNCHANGED <<seen, lastId>>
  BY <1>1, <1>3, <1>5 DEF OnTheWay, Sent
<1> QED
  BY <1>2, <1>4, <1>5

LEMMA StreamSends ==
    ASSUME OnTheWay, Ids' = Ids, NEW b \in Browsers,
           GW!Stream(b) \/ GW!Shed(b) \/ GW!EndStream(b)
    PROVE  OnTheWay' /\ \A c \in Browsers : Sent(c)
<1>1. UNCHANGED <<feed, frames>>
  BY DEF GW!Stream, GW!Shed, GW!EndStream
<1>2. \/ /\ buf[b] # <<>> /\ GW!WritePosition(b, Head(buf[b]))
         /\ buf' = [buf EXCEPT ![b] = Tail(@)]
      \/ UNCHANGED <<seen, lastId>> /\ buf' = [buf EXCEPT ![b] = <<>>]
  BY DEF GW!Stream, GW!Shed, GW!EndStream, GW!Unregister, GW!browserVars
<1>3. buf[b] \in Seq(Ids)
  BY DEF OnTheWay
<1>4. CASE buf[b] # <<>> /\ GW!WritePosition(b, Head(buf[b])) /\ buf' = [buf EXCEPT ![b] = Tail(@)]
  <2>1. Head(buf[b]) \in Ids /\ Tail(buf[b]) \in Seq(Ids)
    BY <1>3, <1>4, QueueFacts
  <2> QED
    BY <1>1, <1>4, <2>1, WriteSends DEF OnTheWay
<1>5. CASE UNCHANGED <<seen, lastId>> /\ buf' = [buf EXCEPT ![b] = <<>>]
  <2>1. <<>> \in Seq(Ids)
    BY EmptySeq
  <2> QED
    BY <1>1, <1>5, <2>1 DEF OnTheWay, Sent
<1> QED
  BY <1>2, <1>4, <1>5

LEMMA GatewaySends ==
    ASSUME OnTheWay, Ids' = Ids, GW!GatewayStep
    PROVE  OnTheWay' /\ \A b \in Browsers : Sent(b)
BY BroadcastSends, BesideStreams, RestartSends, PositionsSinceSends, WriteMissedSends,
   StreamSends DEF GW!GatewayStep, GW!Handle
-----------------------------------------------------------------------------
LEMMA PageKeeps ==
    ASSUME PipelineInv, Show
    PROVE  PipelineInv'
<1>1. /\ GroupInv' /\ Ids' = Ids /\ Ids \subseteq EventIds
  BY GroupRests, IdsAreEvents
     DEF PipelineInv, Show, consumerVars, Ids, GroupInv, ConsumerInv, SinkInv
<1>2. OnTheWay' /\ \A b \in Browsers : Sent(b)
  BY <1>1, GatewaySends DEF PipelineInv, Show
<1>3. ASSUME NEW b \in Browsers
      PROVE  shown'[b] \in [Vehicles -> EventIds \cup {NoId}] /\ PageInv(b)'
  <2>1. /\ shown'[b] = IF lastId'[b] = lastId[b] THEN shown[b]
                                                 ELSE Upsert(shown[b], lastId'[b])
        /\ shown[b] \in [Vehicles -> EventIds \cup {NoId}]
        /\ PageInv(b) /\ seen[b] \subseteq EventIds
    BY <1>1 DEF Show, PipelineInv, OnTheWay
  <2>2. CASE lastId'[b] = lastId[b]
    <3>1. seen'[b] = seen[b]
      <4>1. CASE lastId[b] = NoId
        BY <1>1, <1>2, <2>2, <4>1, NoIdIsNone DEF Sent
      <4>2. CASE lastId[b] # NoId
        BY <1>2, <2>1, <2>2, <4>2 DEF Sent, PageInv
      <4> QED
        BY <4>1, <4>2
    <3> QED
      BY <2>1, <2>2, <3>1 DEF PageInv
  <2>3. CASE lastId'[b] # lastId[b]
    <3>1. lastId'[b] \in EventIds /\ seen'[b] = seen[b] \cup {lastId'[b]}
      BY <1>1, <1>2, <2>3 DEF Sent
    <3>2. /\ Upsert(shown[b], lastId'[b]) \in [Vehicles -> EventIds \cup {NoId}]
          /\ Drawn(Upsert(shown[b], lastId'[b]), seen[b] \cup {lastId'[b]})
      <4>1. PICK e \in EventIds : e = lastId'[b]
        BY <3>1
      <4> QED
        BY <2>1, <4>1, UpsertDraws DEF PageInv
    <3> QED
      BY <2>1, <2>3, <3>1, <3>2 DEF PageInv
  <2> QED
    BY <2>2, <2>3
<1>4. shown' \in [Browsers -> [Vehicles -> EventIds \cup {NoId}]]
  BY <1>3 DEF Show
<1> QED
  BY <1>1, <1>2, <1>3, <1>4 DEF PipelineInv

LEMMA HistoryStays ==
    ASSUME ConsumerInv, ConsumerNext \/ UNCHANGED consumerVars
    PROVE  Ids \subseteq Ids'
<1>1. positions \subseteq positions'
  BY ConsumerCallsSink, SinkSide DEF ConsumerInv, SinkGrown, consumerVars
<1> QED
  BY <1>1 DEF Ids

\* A step of a member; only its publish puts a frame in the gateway's way.
LEMMA MembersKeep ==
    ASSUME PipelineInv, ConsumerStep \/ UNCHANGED pipelineVars
    PROVE  PipelineInv'
<1>1. UNCHANGED <<feed, buf, frames, seen, lastId, shown>>
  BY DEF ConsumerStep, gatewayVars, pipelineVars
<1>2. GroupInv' /\ Ids \subseteq Ids'
  BY GroupShows, GroupRests, PipelineGroup, HistoryStays
     DEF PipelineInv, GroupInv, ConsumerStep, PipelineNext
<1>3. OnTheWay'
  BY <1>1, <1>2, WayWidens DEF PipelineInv
<1> QED
  BY <1>1, <1>2, <1>3 DEF PipelineInv, PageInv

LEMMA PublishFrameKeeps ==
    ASSUME PipelineInv, NEW m \in Members, NEW p \in Partitions, PublishFrame(m, p)
    PROVE  PipelineInv'
<1> DEFINE e == Rec(m, p).id
<1>1. /\ UNCHANGED <<buf, frames, seen, lastId, shown>> /\ Ids' = Ids
      /\ feed' = feed \/ feed' = Append(feed, e)
  BY DEF PublishFrame, Publish, sinkVars, Ids
<1>2. GroupInv'
  BY GroupShows, GroupRests, PipelineGroup DEF PipelineInv, PipelineNext
<1>3. e \in Ids
  <2>1. ConsumerInv /\ First(m, p) /\ pc[m] = "publish"
    BY DEF PipelineInv, GroupInv, PublishFrame, Publish
  <2>2. Duplicate(Rec(m, p))
    BY <2>1, AtHead DEF AtRecord
  <2> QED
    BY <2>1, <2>2 DEF Duplicate, ConsumerInv, SinkInv, EffectWhole, Ids
<1> HIDE DEF e
<1>4. Append(feed, e) \in Seq(Ids)
  BY <1>3, AppendProperties DEF PipelineInv, OnTheWay
<1>5. OnTheWay'
  BY <1>1, <1>4 DEF PipelineInv, OnTheWay
<1> QED
  BY <1>1, <1>2, <1>5 DEF PipelineInv, PageInv

LEMMA PipelineStarts == PipelineInit => PipelineInv
<1> SUFFICES ASSUME PipelineInit PROVE PipelineInv
  OBVIOUS
<1>1. GroupInv
  BY GroupStarts DEF PipelineInit
<1>2. /\ feed = <<>> /\ buf = [b \in Browsers |-> <<>>]
      /\ frames = [b \in Browsers |-> {}] /\ seen = [b \in Browsers |-> {}]
      /\ lastId \in [Browsers -> {NoId}]
  BY DEF PipelineInit, GW!GatewayInit
<1>3. <<>> \in Seq(Ids)
  BY EmptySeq
<1>4. OnTheWay
  BY <1>2, <1>3 DEF OnTheWay
<1>5. shown = [b \in Browsers |-> [v \in Vehicles |-> NoId]]
  BY DEF PipelineInit
<1>6. \A b \in Browsers : PageInv(b)
  BY <1>2, <1>5 DEF PageInv, Drawn
<1> QED
  BY <1>1, <1>4, <1>5, <1>6 DEF PipelineInv

LEMMA PipelineInvariant == PipelineSpec => []PipelineInv
<1>1. PipelineInv /\ [PipelineNext]_pipelineVars => PipelineInv'
  BY PageKeeps, MembersKeep, PublishFrameKeeps DEF PipelineNext
<1> QED
  BY <1>1, PipelineStarts, PTL DEF PipelineSpec

\* A history row has the vehicle and the time its event id stands for.
LEMMA RowsAsNamed ==
    ASSUME ConsumerInv, NEW r \in positions
    PROVE  /\ r.id \in Ids /\ r.id \in EventIds
           /\ r.vehicle = VehicleOf[r.id] /\ r.ts = EventTs[r.id] /\ r.ts \in Int
<1>1. /\ r.partition \in Partitions /\ r.offset \in Nat /\ r.id \in EventIds
      /\ r.ts \in Int /\ r.id \in Ids
  BY EventAssumption
     DEF ConsumerInv, SinkInv, SinkTypeOK, PositionRows, Offsets, Ids
<1>2. PICK v : /\ r.offset < Len(log[r.partition])
               /\ v = log[r.partition][r.offset + 1]
               /\ v.id = r.id /\ v.vehicle = r.vehicle /\ v.ts = r.ts /\ Storable(v)
  BY DEF ConsumerInv, SharedInv, Traceable
<1>3. v \in Payloads
  <2>1. r.offset + 1 \in 1 .. Len(log[r.partition])
    BY <1>1, <1>2, LogFacts DEF ConsumerInv
  <2> QED
    BY <1>1, <1>2, <2>1, LogFacts DEF ConsumerInv
<1>4. AsVehiclePosition(v)
  BY <1>2 DEF Storable, AsVehiclePosition
<1> QED
  BY <1>1, <1>2, <1>3, <1>4, PipelineAssumption

\* The page never runs ahead of vehicle_current, and agrees with it once it
\* was sent everything, whatever order events were applied, published, lost
\* and resumed in (Store.Apply, Gateway, viewer.html's onFrame).
THEOREM PipelineTracksStore == PipelineSpec => []MapTracksStore
<1>1. PipelineInv => MapTracksStore
  <2> SUFFICES ASSUME PipelineInv, NEW b \in Browsers, NEW v \in Vehicles,
                      shown[b][v] # NoId
               PROVE  LET rows == {r \in positions : r.vehicle = v}
                      IN  /\ \E r \in rows : r.id = shown[b][v]
                          /\ \E c \in current :
                                /\ c.vehicle = v
                                /\ EventTs[shown[b][v]] <= c.ts
                                /\ {r.id : r \in rows} \subseteq seen[b] =>
                                      EventTs[shown[b][v]] = c.ts
    BY DEF MapTracksStore
  <2>1. ConsumerInv /\ NoDrift /\ SinkTypeOK
    BY DEF PipelineInv, GroupInv, ConsumerInv, SinkInv
  <2>2. /\ shown[b][v] \in seen[b] /\ VehicleOf[shown[b][v]] = v
        /\ shown[b][v] \in Ids
    BY DEF PipelineInv, PageInv, Drawn, OnTheWay
  <2>3. PICK r \in positions : r.id = shown[b][v]
    BY <2>2 DEF Ids
  <2>4. r.vehicle = v /\ r.ts = EventTs[shown[b][v]] /\ r.ts \in Int
    BY <2>1, <2>2, <2>3, RowsAsNamed
  <2>5. PICK c \in current : c.vehicle = v /\ c.ts >= r.ts
    BY <2>1, <2>4 DEF NoDrift
  <2>6. PICK s \in positions : s.id = c.id /\ s.vehicle = v /\ s.ts = c.ts
    BY <2>1, <2>5 DEF NoDrift
  <2>7. VehicleOf[s.id] = v /\ c.ts = EventTs[s.id] /\ c.ts \in Int
    BY <2>1, <2>6, RowsAsNamed
  <2>8. s.id \in seen[b] => c.ts <= EventTs[shown[b][v]]
    BY <2>7 DEF PipelineInv, PageInv, Drawn
  <2> QED
    BY <2>3, <2>4, <2>5, <2>6, <2>7, <2>8
<1> QED
  BY <1>1, PipelineInvariant, PTL
=============================================================================
