--------------------------- MODULE ConsumerProofs ---------------------------
(***************************************************************************)
(* The consumer group's safety for every number of members, partitions and *)
(* records: whatever crashes, stops, loses its session or is taken over,   *)
(* an offset is committed only when everything below it is handled.        *)
(*                                                                         *)
(* A member knows nothing of the others, so the invariant is one of each   *)
(* member (MemberInv): everything below its cursor is handled, and where   *)
(* it stands in the loop says what it has done for the record under the    *)
(* cursor.  Nobody can take that away, because what members share only     *)
(* grows (Grown): that is MemberStays, and every action then only has to   *)
(* account for the member that takes it.                                   *)
(***************************************************************************)
EXTENDS Consumer, SinkProofs, SequenceTheorems

\* ConsumerTypeOK is the types of the tables, of what is shared and of what
\* belongs to a member.
Places == {"down", "poll"} \cup InBatch

SharedTypes ==
    /\ log \in [Partitions -> Seq(Payloads)]
    /\ \A p \in Partitions : Len(log[p]) <= MaxLog
    /\ dlqTopic \subseteq Payloads
    /\ committed \in [Partitions -> 0 .. MaxLog]
    /\ owner \in [Partitions -> Members \cup {None}]
    /\ published \subseteq EventIds
    /\ faults \in 0 .. MaxFaults
    /\ abandoned \subseteq Partitions \X Offsets

MemberTypes ==
    /\ pc \in [Members -> Places]
    /\ stopping \in [Members -> BOOLEAN]
    /\ has \in [Members -> SUBSET Partitions]
    /\ pos \in [Members -> [Partitions -> 0 .. MaxLog]]
    /\ nxt \in [Members -> [Partitions -> 0 .. MaxLog]]
    /\ todo \in [Members -> SUBSET Partitions]
    /\ lastOK \in [Members -> Offsets \cup {-1}]
    /\ attempts \in [Members -> 0 .. MaxRetries + 1]
    /\ reason \in [Members -> Reasons]
-----------------------------------------------------------------------------
\* A member's cursor in a partition: everything below it is handled, and the
\* member that owns the partition is never behind what is committed.
Cursor(m, p) ==
    /\ nxt[m][p] <= pos[m][p]
    /\ pos[m][p] <= Len(log[p])
    /\ p \notin has[m] => pos[m][p] = 0
    /\ \A o \in Offsets : o < nxt[m][p] => Handled(p, o)
    /\ owner[p] = m /\ p \in has[m] => committed[p] <= nxt[m][p]

\* Where the loop works on the record under the cursor.
Working == {"apply", "result", "backoff", "publish", "dlq", "record", "refused"}

\* What the loop knows of that record, by where it is.
AtRecord(m, p) ==
    /\ lastOK[m] # -1 => lastOK[m] + 1 = nxt[m][p]
    /\ pc[m] \in Working => nxt[m][p] < pos[m][p]
    /\ pc[m] \in {"apply", "result", "backoff", "publish"} =>
          AsVehiclePosition(Rec(m, p))
    /\ pc[m] = "result" /\ outcome[m] \in {"applied", "late", "duplicate"} =>
          Duplicate(Rec(m, p))
    /\ pc[m] = "publish" => Duplicate(Rec(m, p))
    /\ pc[m] = "record" => Rec(m, p) \in dlqTopic
    /\ pc[m] = "refused" /\ outcome[m] = "recorded" =>
          \E d \in deadLetters : d.id = LetterId(Rec(m, p), p, nxt[m][p])

\* Between batches there is nothing to do; a batch is of the member's own
\* partitions, and the retries are counted.
Batch(m) ==
    /\ pc[m] \in {"down", "poll"} => todo[m] = {} /\ lastOK[m] = -1
    /\ todo[m] \subseteq has[m]
    /\ pc[m] = "backoff" => attempts[m] <= MaxRetries

MemberInv(m) ==
    /\ Batch(m)
    /\ \A p \in Partitions : Cursor(m, p)
    /\ \A p \in Partitions : First(m, p) => AtRecord(m, p)

SharedInv ==
    /\ CommittedSettled
    /\ AppliedInOrder
    /\ Traceable
    /\ NoPhantomFrame
    /\ LetterHasCopy

ConsumerInv ==
    /\ SinkInv
    /\ SharedTypes
    /\ MemberTypes
    /\ \A m \in Members : MemberInv(m)
    /\ SharedInv
-----------------------------------------------------------------------------
\* What members share only grows.
Grown ==
    /\ \A p \in Partitions :
          /\ Len(log[p]) <= Len(log'[p])
          /\ \A i \in 1 .. Len(log[p]) : log'[p][i] = log[p][i]
    /\ processed \subseteq processed'
    /\ positions \subseteq positions'
    /\ dlqTopic \subseteq dlqTopic'
    /\ abandoned \subseteq abandoned'
    /\ \A d \in deadLetters : \E e \in deadLetters' : e.id = d.id

\* A step in which the member takes no part.
Same(m) ==
    /\ pc'[m] = pc[m] /\ has'[m] = has[m] /\ pos'[m] = pos[m] /\ nxt'[m] = nxt[m]
    /\ todo'[m] = todo[m] /\ lastOK'[m] = lastOK[m] /\ attempts'[m] = attempts[m]
    /\ outcome'[m] = outcome[m]

\* It gives the member no partition, and commits nothing in one it owns.
Leased(m, p) == owner'[p] = m => owner[p] = m /\ committed'[p] = committed[p]

LEMMA TypesSplit == ConsumerTypeOK <=> SinkTypeOK /\ SharedTypes /\ MemberTypes
BY DEF ConsumerTypeOK, SharedTypes, MemberTypes, Places

LEMMA LogFacts ==
    ASSUME SharedTypes, NEW p \in Partitions
    PROVE  /\ log[p] \in Seq(Payloads)
           /\ Len(log[p]) \in Nat
           /\ Len(log[p]) <= MaxLog
           /\ \A i \in 1 .. Len(log[p]) : log[p][i] \in Payloads
BY DEF SharedTypes

\* A record that is handled stays handled.
LEMMA HandledStays ==
    ASSUME SharedTypes, Grown,
           NEW p \in Partitions, NEW o \in Offsets, o < Len(log[p]), Handled(p, o)
    PROVE  Handled(p, o)'
<1>1. o + 1 \in 1 .. Len(log[p])
  BY LogFacts DEF Offsets
<1>2. log'[p][o + 1] = log[p][o + 1]
  BY <1>1 DEF Grown
<1> QED
  BY <1>2 DEF Handled, Settled, Grown

LEMMA CursorStays ==
    ASSUME SharedTypes, SharedTypes', MemberTypes, Grown,
           NEW m \in Members, NEW p \in Partitions, Cursor(m, p),
           nxt'[m][p] = nxt[m][p], pos'[m][p] = pos[m][p],
           p \in has'[m] <=> p \in has[m], Leased(m, p)
    PROVE  Cursor(m, p)'
<1>1. /\ nxt[m][p] \in Nat /\ pos[m][p] \in Nat
      /\ Len(log[p]) \in Nat /\ Len(log'[p]) \in Nat
      /\ Len(log[p]) <= Len(log'[p])
  BY LogFacts DEF MemberTypes, SharedTypes, Grown
<1>2. \A o \in Offsets : o < nxt'[m][p] => Handled(p, o)'
  <2> SUFFICES ASSUME NEW o \in Offsets, o < nxt[m][p]
               PROVE  Handled(p, o)'
    OBVIOUS
  <2>1. o < Len(log[p]) /\ Handled(p, o)
    BY <1>1 DEF Cursor, Offsets
  <2> QED
    BY <2>1, HandledStays
<1> QED
  BY <1>1, <1>2 DEF Cursor, Leased

LEMMA RecStays ==
    ASSUME SharedTypes, MemberTypes, Grown,
           NEW m \in Members, NEW p \in Partitions, Cursor(m, p),
           nxt[m][p] < pos[m][p], nxt'[m][p] = nxt[m][p]
    PROVE  Rec(m, p)' = Rec(m, p) /\ Rec(m, p) \in Payloads
<1>1. /\ nxt[m][p] \in Nat /\ pos[m][p] \in Nat /\ pos[m][p] <= Len(log[p])
      /\ Len(log[p]) \in Nat
  BY LogFacts DEF MemberTypes, Cursor
<1>2. nxt[m][p] + 1 \in 1 .. Len(log[p])
  BY <1>1
<1> QED
  BY <1>2, LogFacts DEF Grown, Rec

LEMMA MemberStays ==
    ASSUME SharedTypes, SharedTypes', MemberTypes, Grown,
           NEW m \in Members, MemberInv(m), Same(m),
           \A p \in Partitions : Leased(m, p)
    PROVE  MemberInv(m)'
<1>1. Batch(m)'
  BY DEF MemberInv, Batch, Same
<1>2. \A p \in Partitions : Cursor(m, p)'
  BY CursorStays DEF MemberInv, Same
<1>3. ASSUME NEW p \in Partitions, First(m, p)' PROVE AtRecord(m, p)'
  <2>1. First(m, p)
    BY <1>3 DEF First, Same
  <2>2. AtRecord(m, p) /\ Cursor(m, p)
    BY <2>1 DEF MemberInv
  <2>3. CASE pc[m] \in Working
    <3>1. Rec(m, p)' = Rec(m, p)
      BY <2>2, <2>3, RecStays DEF AtRecord, Same
    <3>2. nxt'[m][p] = nxt[m][p] /\ pos'[m][p] = pos[m][p]
      BY DEF Same
    <3> QED
      BY <2>2, <3>1, <3>2 DEF AtRecord, Same, Grown, Duplicate
  <2>4. CASE pc[m] \notin Working
    BY <2>2, <2>4 DEF AtRecord, Same, Working
  <2> QED
    BY <2>3, <2>4
<1> QED
  BY <1>1, <1>2, <1>3 DEF MemberInv

\* What is committed, applied, shown and refused is in order after a step that
\* changes nothing of the kind.
LEMMA SharedStays ==
    ASSUME ConsumerInv, SharedTypes', Grown
    PROVE  /\ committed' = committed => CommittedSettled'
           /\ positions' = positions => AppliedInOrder' /\ Traceable'
           /\ published' = published => NoPhantomFrame'
           /\ deadLetters' = deadLetters => LetterHasCopy'
<1>1. SharedTypes /\ SharedInv /\ SinkTypeOK
  BY DEF ConsumerInv, SinkInv
<1>2. ASSUME committed' = committed PROVE CommittedSettled'
  <2> SUFFICES ASSUME NEW p \in Partitions, NEW o \in Offsets, o < committed[p]
               PROVE  o < Len(log'[p]) /\ Handled(p, o)'
    BY <1>2 DEF CommittedSettled
  <2>1. o < Len(log[p]) /\ Handled(p, o)
    BY <1>1 DEF SharedInv, CommittedSettled
  <2>2. Len(log[p]) \in Nat /\ Len(log'[p]) \in Nat /\ Len(log[p]) <= Len(log'[p])
    BY <1>1, LogFacts DEF Grown, SharedTypes
  <2> QED
    BY <1>1, <2>1, <2>2, HandledStays DEF Offsets
<1>3. ASSUME positions' = positions PROVE AppliedInOrder' /\ Traceable'
  <2> SUFFICES ASSUME NEW r \in positions
               PROVE  /\ \A o \in Offsets : o < r.offset => Handled(r.partition, o)'
                      /\ r.offset < Len(log'[r.partition])
                      /\ log'[r.partition][r.offset + 1] = log[r.partition][r.offset + 1]
    BY <1>1, <1>3 DEF SharedInv, AppliedInOrder, Traceable
  <2>1. r.partition \in Partitions /\ r.offset \in Offsets /\ r.offset \in Nat
    BY <1>1 DEF SinkTypeOK, PositionRows, Offsets
  <2>2. r.offset < Len(log[r.partition])
    BY <1>1 DEF SharedInv, Traceable
  <2>3. /\ Len(log[r.partition]) \in Nat /\ Len(log'[r.partition]) \in Nat
        /\ Len(log[r.partition]) <= Len(log'[r.partition])
    BY <1>1, <2>1, LogFacts DEF Grown, SharedTypes
  <2>4. r.offset + 1 \in 1 .. Len(log[r.partition])
    BY <2>1, <2>2, <2>3
  <2>5. ASSUME NEW o \in Offsets, o < r.offset PROVE Handled(r.partition, o)'
    <3>1. Handled(r.partition, o) /\ o < Len(log[r.partition])
      BY <1>1, <2>1, <2>2, <2>3, <2>5 DEF SharedInv, AppliedInOrder, Offsets
    <3> QED
      BY <1>1, <2>1, <3>1, HandledStays
  <2> QED
    BY <2>1, <2>2, <2>3, <2>4, <2>5 DEF Grown
<1>4. published' = published => NoPhantomFrame'
  BY <1>1 DEF SharedInv, NoPhantomFrame, Grown
<1>5. deadLetters' = deadLetters => LetterHasCopy'
  BY <1>1 DEF SharedInv, LetterHasCopy, Grown
<1> QED
  BY <1>2, <1>3, <1>4, <1>5
-----------------------------------------------------------------------------
SinkGrown ==
    /\ processed \subseteq processed'
    /\ positions \subseteq positions'
    /\ \A d \in deadLetters : \E e \in deadLetters' : e.id = d.id

LEMMA QuietGrown ==
    ASSUME SharedTypes, SinkGrown, log' = log, dlqTopic \subseteq dlqTopic',
           abandoned \subseteq abandoned'
    PROVE  Grown
BY LogFacts DEF SinkGrown, Grown

\* A step of one member.
LEMMA MemberStep ==
    ASSUME ConsumerInv, SinkInv', SharedTypes', MemberTypes', Grown,
           NEW m \in Members, \A u \in Members \ {m} : Same(u),
           \A u \in Members \ {m} : \A p \in Partitions : Leased(u, p),
           MemberInv(m)', SharedInv'
    PROVE  ConsumerInv'
<1>1. ASSUME NEW u \in Members \ {m} PROVE MemberInv(u)'
  BY MemberStays DEF ConsumerInv
<1> QED
  BY <1>1 DEF ConsumerInv

LEMMA FirstIsOne ==
    ASSUME NEW m \in Members, NEW p \in Partitions, NEW q \in Partitions,
           First(m, p), First(m, q)
    PROVE  p = q
BY SinkAssumption DEF First

\* Goto and Returns, at a member and at the others.
LEMMA GotoMoves ==
    ASSUME MemberTypes, NEW m \in Members, NEW l \in Places, Goto(m, l)
    PROVE  /\ pc' \in [Members -> Places] /\ pc'[m] = l
           /\ \A u \in Members \ {m} : pc'[u] = pc[u]
BY DEF MemberTypes, Goto

LEMMA ReturnsMoves ==
    ASSUME SinkInv, NEW m \in Workers, NEW res, Returns(m, res)
    PROVE  outcome'[m] = res /\ \A u \in Workers \ {m} : outcome'[u] = outcome[u]
BY DEF SinkInv, SinkTypeOK, Returns

\* What a member's step at a record leaves alone.
LoopStep(m) ==
    /\ UNCHANGED <<log, committed, owner, abandoned, stopping, has, pos>>
    /\ dlqTopic \subseteq dlqTopic' /\ dlqTopic' \subseteq Payloads
    /\ published' \subseteq EventIds
    /\ faults' \in 0 .. MaxFaults
    /\ \A u \in Members \ {m} : outcome'[u] = outcome[u]

LEMMA LoopGrown ==
    ASSUME ConsumerInv, SinkGrown, NEW m \in Members, LoopStep(m)
    PROVE  SharedTypes' /\ Grown
<1>1. SharedTypes
  BY DEF ConsumerInv
<1>2. SharedTypes'
  BY <1>1 DEF SharedTypes, LoopStep
<1> QED
  BY <1>1, <1>2, QuietGrown DEF LoopStep

\* A step that leaves the loop at the same record.
LEMMA StaysInBatch ==
    ASSUME ConsumerInv, SinkInv', SinkGrown, NEW m \in Members, LoopStep(m),
           NEW l \in InBatch, Goto(m, l),
           UNCHANGED <<nxt, todo, lastOK>>,
           attempts' \in [Members -> 0 .. MaxRetries + 1],
           l = "backoff" => attempts'[m] <= MaxRetries,
           reason' \in [Members -> Reasons],
           \A u \in Members \ {m} : attempts'[u] = attempts[u],
           \A p \in Partitions : First(m, p) => AtRecord(m, p)',
           SharedInv'
    PROVE  ConsumerInv'
<1>1. SharedTypes /\ MemberTypes /\ MemberInv(m)
  BY DEF ConsumerInv
<1>2. SharedTypes' /\ Grown
  BY LoopGrown
<1>3. pc' \in [Members -> Places] /\ pc'[m] = l /\ \A u \in Members \ {m} : pc'[u] = pc[u]
  BY <1>1, GotoMoves DEF Places
<1>4. UNCHANGED <<committed, owner, has, pos, stopping>>
  BY DEF LoopStep
<1>5. MemberTypes'
  BY <1>1, <1>3, <1>4 DEF MemberTypes
<1>6. \A u \in Members : \A q \in Partitions : Leased(u, q)
  BY <1>4 DEF Leased
<1>7. \A q \in Partitions : Cursor(m, q)'
  BY <1>1, <1>2, <1>4, <1>6, CursorStays DEF MemberInv
<1>8. Batch(m)'
  BY <1>1, <1>3, <1>4 DEF MemberInv, Batch, InBatch
<1>9. \A u \in Members \ {m} : Same(u)
  BY <1>3, <1>4 DEF Same, LoopStep
<1>10. \A q \in Partitions : First(m, q)' => AtRecord(m, q)'
  BY DEF First
<1> QED
  BY <1>2, <1>5, <1>6, <1>7, <1>8, <1>9, <1>10, MemberStep DEF MemberInv

LEMMA StaysAtRecord ==
    ASSUME ConsumerInv, SinkInv', SinkGrown, NEW m \in Members, LoopStep(m),
           NEW l \in InBatch, Goto(m, l),
           UNCHANGED <<nxt, todo, lastOK>>,
           attempts' \in [Members -> 0 .. MaxRetries + 1],
           l = "backoff" => attempts'[m] <= MaxRetries,
           reason' \in [Members -> Reasons],
           \A u \in Members \ {m} : attempts'[u] = attempts[u],
           NEW p \in Partitions, First(m, p), AtRecord(m, p)',
           SharedInv'
    PROVE  ConsumerInv'
<1>1. ASSUME NEW q \in Partitions, First(m, q) PROVE AtRecord(m, q)'
  <2>1. q = p
    BY <1>1, FirstIsOne
  <2> QED
    BY <2>1
<1> QED
  BY <1>1, StaysInBatch

\* A step that finishes with the record.
LEMMA FinishesRecord ==
    ASSUME ConsumerInv, SinkInv', SinkGrown, NEW m \in Members, LoopStep(m),
           NEW p \in Partitions, First(m, p), pc[m] \in Working, Done(m, p),
           \A o \in Offsets : o = nxt[m][p] => Handled(p, o)', SharedInv'
    PROVE  ConsumerInv'
<1>1. /\ SharedTypes /\ MemberTypes /\ MemberInv(m) /\ SharedTypes' /\ Grown
      /\ committed' = committed /\ owner' = owner /\ has' = has /\ pos' = pos
      /\ stopping' = stopping /\ \A u \in Members \ {m} : outcome'[u] = outcome[u]
  BY LoopGrown DEF ConsumerInv, LoopStep
<1>2. Cursor(m, p) /\ AtRecord(m, p)
  BY <1>1 DEF MemberInv
<1>3. /\ nxt[m][p] \in Nat /\ pos[m][p] \in Nat /\ pos[m][p] <= MaxLog
      /\ nxt[m][p] < pos[m][p]
      /\ nxt[m][p] \in Offsets /\ nxt[m][p] + 1 \in 0 .. MaxLog
  BY <1>1, <1>2, SinkAssumption DEF MemberTypes, AtRecord, Offsets
<1>4. /\ nxt' \in [Members -> [Partitions -> 0 .. MaxLog]]
      /\ nxt'[m][p] = nxt[m][p] + 1
      /\ \A q \in Partitions \ {p} : nxt'[m][q] = nxt[m][q]
      /\ \A u \in Members \ {m} : nxt'[u] = nxt[u]
  BY <1>1, <1>3 DEF Done, MemberTypes
<1>5. /\ pc' \in [Members -> Places] /\ pc'[m] = "next"
      /\ lastOK' \in [Members -> Offsets \cup {-1}] /\ lastOK'[m] = nxt[m][p]
      /\ attempts' \in [Members -> 0 .. MaxRetries + 1]
      /\ reason' \in [Members -> Reasons]
      /\ \A u \in Members \ {m} :
            pc'[u] = pc[u] /\ lastOK'[u] = lastOK[u] /\ attempts'[u] = attempts[u]
  BY <1>1, <1>3, ConsumerAssumption DEF Done, Goto, MemberTypes, Places, InBatch, Reasons
<1>6. MemberTypes' /\ todo' = todo
  BY <1>1, <1>4, <1>5 DEF Done, MemberTypes
<1>7. \A u \in Members : \A q \in Partitions : Leased(u, q)
  BY <1>1 DEF Leased
<1>8. ASSUME NEW q \in Partitions PROVE Cursor(m, q)'
  <2>1. CASE q # p
    BY <1>1, <1>4, <1>7, <2>1, CursorStays DEF MemberInv
  <2>2. CASE q = p
    <3>1. ASSUME NEW o \in Offsets, o < nxt'[m][p] PROVE Handled(p, o)'
      <4>1. CASE o < nxt[m][p]
        <5>1. Handled(p, o) /\ o < Len(log[p])
          BY <1>1, <1>2, <1>3, <4>1, LogFacts DEF Cursor, Offsets
        <5> QED
          BY <1>1, <5>1, HandledStays
      <4>2. CASE o = nxt[m][p]
        BY <4>2
      <4>3. o \in Int /\ nxt[m][p] \in Int /\ o < nxt[m][p] + 1
        BY <1>3, <1>4, <3>1, SinkAssumption DEF Offsets
      <4>4. o < nxt[m][p] \/ o = nxt[m][p]
        BY <4>3
      <4> QED
        BY <4>1, <4>2, <4>4
    <3>2. pos'[m][p] <= Len(log'[p])
      <4>1. Len(log[p]) \in Nat
        BY <1>1, LogFacts
      <4>2. Len(log'[p]) \in Nat
        BY <1>1 DEF SharedTypes
      <4>3. pos[m][p] <= Len(log[p]) /\ Len(log[p]) <= Len(log'[p])
        BY <1>1, <1>2 DEF Cursor, Grown
      <4> QED
        BY <1>1, <1>3, <4>1, <4>2, <4>3
    <3>3. owner'[p] = m /\ p \in has'[m] => committed'[p] <= nxt'[m][p]
      BY <1>1, <1>2, <1>3, <1>4 DEF Cursor, SharedTypes
    <3>4. p \in has[m]
      BY <1>1 DEF MemberInv, Batch, First
    <3> QED
      BY <1>1, <1>3, <1>4, <2>2, <3>1, <3>2, <3>3, <3>4 DEF Cursor
  <2> QED
    BY <2>1, <2>2
<1>9. ASSUME NEW q \in Partitions, First(m, q)' PROVE AtRecord(m, q)'
  <2>1. q = p
    BY <1>6, <1>9, FirstIsOne DEF First
  <2> QED
    BY <1>4, <1>5, <2>1 DEF AtRecord, Working
<1>10. Batch(m)'
  BY <1>1, <1>5, <1>6 DEF MemberInv, Batch
<1>11. \A u \in Members \ {m} : Same(u)
  BY <1>1, <1>4, <1>5, <1>6 DEF Same
<1> QED
  BY <1>1, <1>6, <1>7, <1>8, <1>9, <1>10, <1>11, MemberStep DEF MemberInv

\* What the record at the head of the batch is known to be.
LEMMA AtHead ==
    ASSUME ConsumerInv, NEW m \in Members, NEW p \in Partitions, First(m, p)
    PROVE  /\ SharedTypes /\ MemberTypes /\ Batch(m) /\ AtRecord(m, p) /\ Cursor(m, p)
           /\ SinkTypeOK /\ SharedInv
           /\ nxt[m][p] < pos[m][p] =>
                 /\ Rec(m, p) \in Payloads
                 /\ nxt[m][p] \in Offsets
                 /\ nxt[m][p] + 1 \in 1 .. Len(log[p])
<1>1. /\ SharedTypes /\ MemberTypes /\ Batch(m) /\ AtRecord(m, p) /\ Cursor(m, p)
      /\ SinkTypeOK /\ SharedInv
  BY DEF ConsumerInv, MemberInv, SinkInv
<1>2. /\ nxt[m][p] \in Nat /\ pos[m][p] \in Nat /\ pos[m][p] <= Len(log[p])
      /\ Len(log[p]) \in Nat /\ Len(log[p]) <= MaxLog
  BY <1>1, LogFacts DEF MemberTypes, Cursor
<1> QED
  BY <1>1, <1>2, LogFacts, SinkAssumption DEF Rec, Offsets

\* Nothing is committed, applied, shown or refused in this step.
LEMMA NothingShared ==
    ASSUME ConsumerInv, SinkGrown, NEW m \in Members, LoopStep(m),
           UNCHANGED <<positions, published, deadLetters>>
    PROVE  SharedInv'
<1>1. SharedTypes' /\ Grown /\ committed' = committed
  BY LoopGrown DEF LoopStep
<1> QED
  BY <1>1, SharedStays DEF SharedInv

LEMMA ProcessOneKeeps ==
    ASSUME ConsumerInv, SinkInv', SinkGrown,
           NEW m \in Members, NEW p \in Partitions, ProcessOne(m, p)
    PROVE  ConsumerInv'
<1>1. First(m, p) /\ pc[m] = "next" /\ nxt[m][p] < pos[m][p]
  BY DEF ProcessOne
<1>2. /\ SharedTypes /\ MemberTypes /\ AtRecord(m, p)
      /\ nxt' = nxt /\ todo' = todo /\ lastOK' = lastOK /\ log' = log /\ pos' = pos
  BY <1>1, AtHead DEF ProcessOne, brokerVars, clientVars
<1>3. LoopStep(m) /\ UNCHANGED <<positions, published, deadLetters>>
  BY <1>2 DEF ProcessOne, LoopStep, SharedTypes, sinkVars, brokerVars, clientVars
<1>4. PICK l \in {"dlq", "apply"} : Goto(m, l) /\ (l = "apply" => AsVehiclePosition(Rec(m, p)))
  BY DEF ProcessOne, Refuse
<1>5. pc'[m] = l
  BY <1>2, <1>4, GotoMoves DEF Places, InBatch
<1>6. /\ attempts' \in [Members -> 0 .. MaxRetries + 1]
      /\ reason' \in [Members -> Reasons]
      /\ \A u \in Members \ {m} : attempts'[u] = attempts[u]
  <2>1. attempts' = attempts \/ attempts' = [attempts EXCEPT ![m] = 1]
    BY DEF ProcessOne, Refuse
  <2>2. reason' = reason \/ \E why \in Reasons : reason' = [reason EXCEPT ![m] = why]
    BY DEF ProcessOne, Refuse, Reasons
  <2>3. 1 \in 0 .. MaxRetries + 1
    BY ConsumerAssumption
  <2> QED
    BY <1>2, <2>1, <2>2, <2>3 DEF MemberTypes
<1>7. AtRecord(m, p)'
  BY <1>1, <1>2, <1>4, <1>5 DEF AtRecord, Rec
<1>8. SharedInv'
  BY <1>3, NothingShared
<1> QED
  BY <1>1, <1>2, <1>3, <1>4, <1>6, <1>7, <1>8, StaysAtRecord DEF InBatch

LEMMA CallApplyKeeps ==
    ASSUME ConsumerInv, SinkInv', SinkGrown,
           NEW m \in Members, NEW p \in Partitions, CallApply(m, p)
    PROVE  ConsumerInv'
<1>1. First(m, p) /\ pc[m] = "apply" /\ Goto(m, "result")
  BY DEF CallApply
<1>2. /\ nxt' = nxt /\ todo' = todo /\ lastOK' = lastOK /\ attempts' = attempts
      /\ reason' = reason /\ log' = log /\ dlqTopic' = dlqTopic
      /\ committed' = committed /\ owner' = owner /\ published' = published
      /\ stopping' = stopping /\ has' = has /\ pos' = pos /\ abandoned' = abandoned
  BY DEF CallApply, brokerVars, clientVars, loopVars
<1>3. /\ SharedTypes /\ MemberTypes /\ AtRecord(m, p) /\ Cursor(m, p) /\ SharedInv
      /\ nxt[m][p] < pos[m][p] /\ AsVehiclePosition(Rec(m, p))
      /\ nxt[m][p] \in Offsets /\ Rec(m, p) \in Payloads
      /\ nxt[m][p] + 1 \in 1 .. Len(log[p])
  BY <1>1, AtHead DEF AtRecord, Working
<1>4. PICK res \in Results :
         /\ Returns(m, res)
         /\ \/ /\ UNCHANGED tables
               /\ res \in {"applied", "late", "duplicate"} => Duplicate(Rec(m, p))
            \/ /\ Storable(Rec(m, p))
               /\ Effect(m, Rec(m, p), p, nxt[m][p])
  BY DEF CallApply, Apply, CallFails, Results
<1>5. m \in Workers /\ \A u \in Members : u \in Workers
  BY ConsumerAssumption
<1>6. outcome'[m] = res /\ \A u \in Members \ {m} : outcome'[u] = outcome[u]
  BY <1>4, <1>5, ReturnsMoves DEF ConsumerInv
<1>7. faults' \in 0 .. MaxFaults
  BY <1>3, ConsumerAssumption
     DEF CallApply, Charged, CallFailed, CallOK, Fault, NoFault, SharedTypes
<1>8. LoopStep(m)
  BY <1>2, <1>3, <1>6, <1>7 DEF LoopStep, SharedTypes
<1>9. SharedTypes' /\ Grown
  BY <1>8, LoopGrown
<1>10. CASE UNCHANGED tables /\ (res \in {"applied", "late", "duplicate"} => Duplicate(Rec(m, p)))
  <2>1. positions' = positions /\ deadLetters' = deadLetters /\ processed' = processed
    BY <1>10 DEF tables
  <2>2. AtRecord(m, p)'
    <3>1. pc'[m] = "result"
      BY <1>1, <1>3, GotoMoves DEF Places, InBatch
    <3> QED
      BY <1>2, <1>3, <1>6, <1>10, <2>1, <3>1 DEF AtRecord, Rec, Duplicate
  <2>3. SharedInv'
    BY <1>2, <1>8, <2>1, NothingShared
  <2> QED
    BY <1>1, <1>2, <1>3, <1>8, <2>2, <2>3, StaysAtRecord DEF InBatch, MemberTypes
<1>11. CASE Storable(Rec(m, p)) /\ Effect(m, Rec(m, p), p, nxt[m][p])
  <2> DEFINE v == Rec(m, p)
             row == [id |-> v.id, vehicle |-> v.vehicle, ts |-> v.ts,
                     partition |-> p, offset |-> nxt[m][p]]
  <2>1. /\ deadLetters' = deadLetters
        /\ processed' = processed \cup
              {[id |-> v.id, consumer |-> m, partition |-> p, offset |-> nxt[m][p]]}
        /\ positions' \subseteq positions \cup {row}
    BY <1>11 DEF Effect, ProcessedWith, PositionsWith
  <2>2. \E r \in processed' : r.id = v.id
    <3> DEFINE r == [id |-> v.id, consumer |-> m, partition |-> p, offset |-> nxt[m][p]]
    <3>1. r \in processed' /\ r.id = v.id
      BY <2>1
    <3> QED
      BY <3>1
  <2>3. AtRecord(m, p)'
    <3>1. pc'[m] = "result"
      BY <1>1, <1>3, GotoMoves DEF Places, InBatch
    <3> QED
      BY <1>2, <1>3, <2>2, <3>1 DEF AtRecord, Rec, Duplicate
  <2>4. CommittedSettled' /\ NoPhantomFrame' /\ LetterHasCopy'
    <3>1. NoPhantomFrame'
      BY <1>2, <1>3, <1>9 DEF SharedInv, NoPhantomFrame, Grown
    <3> QED
      BY <1>2, <1>9, <2>1, <3>1, SharedStays
  <2>5. ASSUME NEW r \in positions, NEW o \in Offsets, o < r.offset
        PROVE  Handled(r.partition, o)'
    <3>1. r.partition \in Partitions /\ r.offset \in Nat
      BY AtHead, <1>1 DEF SinkTypeOK, PositionRows, Offsets
    <3>2. r.offset < Len(log[r.partition]) /\ Handled(r.partition, o)
      BY <1>3, <2>5 DEF SharedInv, Traceable, AppliedInOrder
    <3>3. o < Len(log[r.partition])
      BY <1>3, <2>5, <3>1, <3>2, LogFacts DEF Offsets
    <3> QED
      BY <1>3, <1>9, <3>1, <3>2, <3>3, HandledStays
  <2>6. Cursor(m, p)'
    BY <1>2, <1>3, <1>9, CursorStays DEF Leased
  <2>7. AppliedInOrder'
    BY <1>2, <2>1, <2>5, <2>6 DEF AppliedInOrder, Cursor
  <2>8. Traceable'
    <3>1. nxt[m][p] < Len(log[p]) /\ log[p][nxt[m][p] + 1] = v
      BY <1>3, LogFacts DEF Rec, Offsets
    <3> QED
      BY <1>2, <1>3, <1>11, <2>1, <3>1 DEF SharedInv, Traceable
  <2>9. SharedInv'
    BY <2>4, <2>7, <2>8 DEF SharedInv
  <2> QED
    BY <1>1, <1>2, <1>3, <1>8, <2>3, <2>9, StaysAtRecord DEF InBatch, MemberTypes
<1> QED
  BY <1>4, <1>10, <1>11

\* Reading a result changes no table.
LEMMA ReturnMoves ==
    ASSUME SinkInv, NEW m \in Members, Return(m)
    PROVE  /\ processed' = processed /\ positions' = positions
           /\ deadLetters' = deadLetters
           /\ outcome'[m] = "none"
           /\ \A u \in Members \ {m} : outcome'[u] = outcome[u]
<1>1. m \in Workers /\ \A u \in Members : u \in Workers
  BY ConsumerAssumption
<1>2. Returns(m, "none") /\ UNCHANGED tables
  BY DEF Return
<1> QED
  BY <1>1, <1>2, ReturnsMoves DEF tables

\* A member finishes with a record that is durable.
LEMMA FinishesDurable ==
    ASSUME ConsumerInv, SinkInv', SinkGrown, NEW m \in Members, LoopStep(m),
           NEW p \in Partitions, First(m, p), pc[m] \in {"result", "publish"},
           Done(m, p), Duplicate(Rec(m, p)), SharedInv'
    PROVE  ConsumerInv'
<1>1. nxt[m][p] < pos[m][p] /\ AsVehiclePosition(Rec(m, p)) /\ log' = log
  BY AtHead DEF AtRecord, Working, LoopStep
<1>2. Decodes(Rec(m, p))
  BY <1>1 DEF AsVehiclePosition, Decodes
<1>3. ASSUME NEW o \in Offsets, o = nxt[m][p] PROVE Handled(p, o)'
  BY <1>1, <1>2, <1>3 DEF Rec, Duplicate, Handled, Settled, SinkGrown
<1> QED
  BY <1>3, FinishesRecord DEF Working

LEMMA HandleResultKeeps ==
    ASSUME ConsumerInv, SinkInv', SinkGrown,
           NEW m \in Members, NEW p \in Partitions, HandleResult(m, p)
    PROVE  ConsumerInv'
<1>1. First(m, p) /\ pc[m] = "result" /\ Return(m)
  BY DEF HandleResult
<1>2. /\ log' = log /\ dlqTopic' = dlqTopic /\ committed' = committed
      /\ owner' = owner /\ published' = published /\ stopping' = stopping
      /\ has' = has /\ pos' = pos /\ faults' = faults /\ abandoned' = abandoned
  BY DEF HandleResult, brokerVars
<1>3. /\ SharedTypes /\ MemberTypes /\ AtRecord(m, p)
      /\ nxt[m][p] < pos[m][p] /\ AsVehiclePosition(Rec(m, p))
  BY <1>1, AtHead DEF AtRecord, Working
<1>4. /\ processed' = processed /\ positions' = positions /\ deadLetters' = deadLetters
      /\ \A u \in Members \ {m} : outcome'[u] = outcome[u]
  BY <1>1, ReturnMoves DEF ConsumerInv
<1>5. LoopStep(m)
  BY <1>2, <1>3, <1>4 DEF LoopStep, SharedTypes
<1>6. SharedInv'
  BY <1>2, <1>4, <1>5, NothingShared
<1>7. CASE Done(m, p) /\ outcome[m] = "duplicate"
  <2>1. Duplicate(Rec(m, p))
    BY <1>1, <1>3, <1>7 DEF AtRecord
  <2> QED
    BY <1>1, <1>5, <1>6, <1>7, <2>1, FinishesDurable
<1>8. CASE \E l \in {"publish", "backoff", "dlq"} :
              /\ Goto(m, l) /\ UNCHANGED <<nxt, todo, lastOK, attempts>>
              /\ l = "publish" => Shown(outcome[m])
              /\ l = "backoff" => ~Exhausted(m)
              /\ reason' = reason \/ \E why \in Reasons : reason' = [reason EXCEPT ![m] = why]
  <2>1. PICK l \in {"publish", "backoff", "dlq"} :
              /\ Goto(m, l) /\ UNCHANGED <<nxt, todo, lastOK, attempts>>
              /\ l = "publish" => Shown(outcome[m])
              /\ l = "backoff" => ~Exhausted(m)
              /\ reason' = reason \/ \E why \in Reasons : reason' = [reason EXCEPT ![m] = why]
    BY <1>8
  <2>2. pc'[m] = l
    BY <1>3, <2>1, GotoMoves DEF Places, InBatch
  <2>3. /\ attempts' \in [Members -> 0 .. MaxRetries + 1]
        /\ reason' \in [Members -> Reasons]
        /\ l = "backoff" => attempts'[m] <= MaxRetries
    <3>1. attempts' \in [Members -> 0 .. MaxRetries + 1] /\ attempts' = attempts
      BY <1>3, <2>1 DEF MemberTypes
    <3>2. reason' \in [Members -> Reasons]
      BY <1>3, <2>1 DEF MemberTypes
    <3>3. attempts[m] \in Int /\ MaxRetries \in Int
      BY <1>3, ConsumerAssumption DEF MemberTypes
    <3>4. l = "backoff" => attempts[m] <= MaxRetries
      BY <2>1, <3>3 DEF Exhausted
    <3> QED
      BY <3>1, <3>2, <3>4
  <2>4. l = "publish" => Duplicate(Rec(m, p))
    BY <1>1, <1>3, <2>1 DEF AtRecord, Shown
  <2>5. AtRecord(m, p)'
    BY <1>2, <1>3, <1>4, <2>1, <2>2, <2>4 DEF AtRecord, Rec, Duplicate
  <2> QED
    BY <1>1, <1>5, <1>6, <2>1, <2>3, <2>5, StaysAtRecord DEF InBatch
<1> QED
  BY <1>7, <1>8 DEF HandleResult, Refuse, loopVars, Reasons

LEMMA RetryKeeps ==
    ASSUME ConsumerInv, SinkInv', SinkGrown, NEW m \in Members, Retry(m)
    PROVE  ConsumerInv'
<1>1. /\ pc[m] = "backoff" /\ Goto(m, "apply")
      /\ attempts' = [attempts EXCEPT ![m] = @ + 1]
      /\ UNCHANGED <<nxt, todo, lastOK, reason, log, pos>>
      /\ UNCHANGED <<positions, published, deadLetters>>
  BY DEF Retry, clientVars, brokerVars, sinkVars
<1>2. SharedTypes /\ MemberTypes /\ MemberInv(m)
  BY DEF ConsumerInv
<1>3. LoopStep(m)
  BY <1>2 DEF LoopStep, Retry, SharedTypes, sinkVars, brokerVars, clientVars
<1>4. SharedInv'
  BY <1>1, <1>3, NothingShared
<1>5. /\ attempts' \in [Members -> 0 .. MaxRetries + 1]
      /\ \A u \in Members \ {m} : attempts'[u] = attempts[u]
  BY <1>1, <1>2, ConsumerAssumption DEF MemberTypes, MemberInv, Batch
<1>6. pc'[m] = "apply"
  BY <1>1, <1>2, GotoMoves DEF Places, InBatch
<1>7. ASSUME NEW p \in Partitions, First(m, p) PROVE AtRecord(m, p)'
  <2>1. AtRecord(m, p)
    BY <1>2, <1>7 DEF MemberInv
  <2> QED
    BY <1>1, <1>6, <2>1 DEF AtRecord, Rec, Working
<1>8. reason' \in [Members -> Reasons]
  BY <1>1, <1>2 DEF MemberTypes
<1> QED
  BY <1>1, <1>3, <1>4, <1>5, <1>7, <1>8, StaysInBatch DEF InBatch

\* The group of the partition ends here.
LEMMA StopsHere ==
    ASSUME ConsumerInv, SinkInv', SinkGrown, NEW m \in Members, LoopStep(m),
           NEW p \in Partitions, First(m, p), Goto(m, "commit"),
           UNCHANGED <<nxt, todo, lastOK, attempts, reason>>,
           UNCHANGED <<positions, published, deadLetters>>
    PROVE  ConsumerInv'
<1>1. SharedTypes /\ MemberTypes /\ AtRecord(m, p)
  BY AtHead
<1>2. SharedInv'
  BY NothingShared
<1>3. pc'[m] = "commit"
  BY <1>1, GotoMoves DEF Places, InBatch
<1>4. AtRecord(m, p)'
  BY <1>1, <1>3 DEF AtRecord, Working
<1> QED
  BY <1>1, <1>2, <1>4, StaysAtRecord DEF InBatch, MemberTypes

LEMMA CancelledKeeps ==
    ASSUME ConsumerInv, SinkInv', SinkGrown,
           NEW m \in Members, NEW p \in Partitions, Cancelled(m, p)
    PROVE  ConsumerInv'
<1>1. SharedTypes
  BY DEF ConsumerInv
<1>2. LoopStep(m)
  BY <1>1 DEF LoopStep, Cancelled, SharedTypes, sinkVars, brokerVars
<1> QED
  BY <1>2, StopsHere DEF Cancelled, Failed, loopVars, sinkVars

LEMMA EndOfGroupKeeps ==
    ASSUME ConsumerInv, SinkInv', SinkGrown,
           NEW m \in Members, NEW p \in Partitions, EndOfGroup(m, p)
    PROVE  ConsumerInv'
<1>1. SharedTypes
  BY DEF ConsumerInv
<1>2. LoopStep(m)
  BY <1>1 DEF LoopStep, EndOfGroup, SharedTypes, sinkVars, brokerVars, clientVars
<1> QED
  BY <1>2, StopsHere DEF EndOfGroup, loopVars, sinkVars, clientVars

LEMMA PublishKeeps ==
    ASSUME ConsumerInv, SinkInv', SinkGrown,
           NEW m \in Members, NEW p \in Partitions, Publish(m, p)
    PROVE  ConsumerInv'
<1>1. /\ First(m, p) /\ pc[m] = "publish" /\ Done(m, p)
      /\ published' \subseteq published \cup {Rec(m, p).id}
      /\ UNCHANGED <<positions, deadLetters, processed>>
  BY DEF Publish, sinkVars
<1>2. /\ SharedTypes /\ AtRecord(m, p) /\ SharedInv
      /\ Duplicate(Rec(m, p)) /\ Rec(m, p) \in Payloads
  BY <1>1, AtHead DEF AtRecord, Working
<1>3. LoopStep(m)
  <2>1. Rec(m, p).id \in EventIds
    BY <1>2, EventAssumption DEF PayloadType
  <2> QED
    BY <1>1, <1>2, <2>1 DEF Publish, LoopStep, SharedTypes, sinkVars, brokerVars
<1>4. SharedInv'
  <2>1. SharedTypes' /\ Grown /\ committed' = committed
    BY <1>3, LoopGrown DEF LoopStep
  <2>2. \E r \in positions : r.id = Rec(m, p).id
    BY <1>2 DEF ConsumerInv, SinkInv, EffectWhole, Duplicate
  <2>3. NoPhantomFrame'
    BY <1>1, <1>2, <2>2 DEF SharedInv, NoPhantomFrame
  <2> QED
    BY <1>1, <2>1, <2>3, SharedStays DEF SharedInv
<1> QED
  BY <1>1, <1>2, <1>3, <1>4, FinishesDurable

LEMMA ProduceDLQKeeps ==
    ASSUME ConsumerInv, SinkInv', SinkGrown,
           NEW m \in Members, NEW p \in Partitions, ProduceDLQ(m, p)
    PROVE  ConsumerInv'
<1>1. /\ First(m, p) /\ pc[m] = "dlq"
      /\ UNCHANGED <<positions, deadLetters, published, nxt, todo, lastOK, attempts,
                     reason, log, pos>>
  BY DEF ProduceDLQ, sinkVars, Failed, loopVars
<1>2. /\ SharedTypes /\ MemberTypes /\ AtRecord(m, p)
      /\ nxt[m][p] < pos[m][p] /\ Rec(m, p) \in Payloads
  BY <1>1, AtHead DEF AtRecord, Working
<1>3. /\ faults' \in 0 .. MaxFaults
      /\ dlqTopic' = dlqTopic \/ dlqTopic' = dlqTopic \cup {Rec(m, p)}
  BY <1>2, ConsumerAssumption
     DEF ProduceDLQ, CallFailed, CallOK, Fault, NoFault, SharedTypes
<1>4. LoopStep(m)
  BY <1>1, <1>2, <1>3 DEF ProduceDLQ, LoopStep, SharedTypes, sinkVars
<1>5. CASE Goto(m, "commit")
  BY <1>1, <1>4, <1>5, StopsHere
<1>6. CASE Goto(m, "record") /\ dlqTopic' = dlqTopic \cup {Rec(m, p)}
  <2>1. pc'[m] = "record"
    BY <1>2, <1>6, GotoMoves DEF Places, InBatch
  <2>2. AtRecord(m, p)'
    BY <1>1, <1>2, <1>6, <2>1 DEF AtRecord, Rec
  <2>3. SharedInv'
    BY <1>1, <1>4, NothingShared
  <2>4. /\ attempts' \in [Members -> 0 .. MaxRetries + 1]
        /\ reason' \in [Members -> Reasons]
        /\ \A u \in Members \ {m} : attempts'[u] = attempts[u]
    BY <1>1, <1>2 DEF MemberTypes
  <2> QED
    BY <1>1, <1>4, <1>6, <2>2, <2>3, <2>4, StaysAtRecord DEF InBatch
<1> QED
  BY <1>5, <1>6 DEF ProduceDLQ, Failed

\* A letter is there after it is recorded, and every letter's bytes are either
\* those of a letter there was or the new ones.
LEMMA LettersWithPayload ==
    ASSUME SinkTypeOK, NEW id \in LetterIds, NEW v \in Payloads, NEW why \in Reasons
    PROVE  /\ \E d \in LettersWith(id, v, why) : d.id = id
           /\ \A e \in LettersWith(id, v, why) :
                 e.payload = v \/ \E d \in deadLetters : d.payload = e.payload
<1> DEFINE Upd(d) == IF d.id = id THEN [d EXCEPT !.reason = why, !.state = "dead"]
                                  ELSE d
           new == [id |-> id, payload |-> v, reason |-> why, state |-> "dead"]
<1>1. \A d \in deadLetters : Upd(d).id = d.id /\ Upd(d).payload = d.payload
  BY DEF SinkTypeOK, LetterRows
<1>2. CASE \E d \in deadLetters : d.id = id
  <2>1. LettersWith(id, v, why) = {Upd(d) : d \in deadLetters}
    BY <1>2 DEF LettersWith
  <2> HIDE DEF Upd
  <2> QED
    BY <1>1, <1>2, <2>1
<1>3. CASE ~\E d \in deadLetters : d.id = id
  <2>1. LettersWith(id, v, why) = deadLetters \cup {new}
    BY <1>3 DEF LettersWith
  <2>2. new.id = id /\ new.payload = v
    OBVIOUS
  <2> HIDE DEF new
  <2> QED
    BY <2>1, <2>2
<1> QED
  BY <1>2, <1>3

LEMMA CallRecordKeeps ==
    ASSUME ConsumerInv, SinkInv', SinkGrown,
           NEW m \in Members, NEW p \in Partitions, CallRecord(m, p)
    PROVE  ConsumerInv'
<1> DEFINE id == LetterId(Rec(m, p), p, nxt[m][p])
<1>1. First(m, p) /\ pc[m] = "record" /\ Goto(m, "refused")
  BY DEF CallRecord
<1>2. /\ nxt' = nxt /\ todo' = todo /\ lastOK' = lastOK /\ attempts' = attempts
      /\ reason' = reason /\ log' = log /\ dlqTopic' = dlqTopic
      /\ committed' = committed /\ owner' = owner /\ published' = published
      /\ stopping' = stopping /\ has' = has /\ pos' = pos /\ abandoned' = abandoned
      /\ positions' = positions
  BY DEF CallRecord, RecordDeadLetter, CallFails, tables, brokerVars, clientVars, loopVars
<1>3. /\ SharedTypes /\ MemberTypes /\ AtRecord(m, p) /\ SharedInv /\ SinkTypeOK
      /\ nxt[m][p] < pos[m][p] /\ Rec(m, p) \in dlqTopic
      /\ nxt[m][p] \in Offsets /\ Rec(m, p) \in Payloads
  BY <1>1, AtHead DEF AtRecord, Working
<1>4. PICK res \in Results :
         /\ Returns(m, res)
         /\ \/ deadLetters' = deadLetters /\ res = "transient"
            \/ deadLetters' = LettersWith(id, Rec(m, p), reason[m])
  BY DEF CallRecord, RecordDeadLetter, CallFails, tables, Results
<1>5. outcome'[m] = res /\ \A u \in Members \ {m} : outcome'[u] = outcome[u]
  <2>1. m \in Workers /\ \A u \in Members : u \in Workers
    BY ConsumerAssumption
  <2> QED
    BY <1>4, <2>1, ReturnsMoves DEF ConsumerInv
<1>6. faults' \in 0 .. MaxFaults
  BY <1>3, ConsumerAssumption
     DEF CallRecord, Charged, CallFailed, CallOK, Fault, NoFault, SharedTypes
<1>7. LoopStep(m)
  BY <1>2, <1>3, <1>5, <1>6 DEF LoopStep, SharedTypes
<1>8. /\ id \in LetterIds /\ reason[m] \in Reasons
      /\ \E d \in LettersWith(id, Rec(m, p), reason[m]) : d.id = id
      /\ \A e \in LettersWith(id, Rec(m, p), reason[m]) :
            e.payload = Rec(m, p) \/ \E d \in deadLetters : d.payload = e.payload
  <2>1. id \in LetterIds /\ reason[m] \in Reasons
    BY <1>3, LetterIdType DEF MemberTypes
  <2> QED
    BY <1>3, <2>1, LettersWithPayload
<1>9. pc'[m] = "refused"
  BY <1>1, <1>3, GotoMoves DEF Places, InBatch
<1>10. AtRecord(m, p)'
  BY <1>2, <1>3, <1>4, <1>5, <1>8, <1>9 DEF AtRecord, Rec
<1>11. SharedInv'
  <2>1. SharedTypes' /\ Grown
    BY <1>7, LoopGrown
  <2>2. LetterHasCopy'
    BY <1>2, <1>3, <1>4, <1>8 DEF SharedInv, LetterHasCopy
  <2> QED
    BY <1>2, <2>1, <2>2, SharedStays DEF SharedInv
<1> QED
  BY <1>1, <1>2, <1>3, <1>7, <1>10, <1>11, StaysAtRecord DEF InBatch, MemberTypes

LEMMA HandleRefusalKeeps ==
    ASSUME ConsumerInv, SinkInv', SinkGrown,
           NEW m \in Members, NEW p \in Partitions, HandleRefusal(m, p)
    PROVE  ConsumerInv'
<1>1. First(m, p) /\ pc[m] = "refused" /\ Return(m)
  BY DEF HandleRefusal
<1>2. /\ log' = log /\ dlqTopic' = dlqTopic /\ committed' = committed
      /\ owner' = owner /\ published' = published /\ stopping' = stopping
      /\ has' = has /\ pos' = pos /\ faults' = faults /\ abandoned' = abandoned
  BY DEF HandleRefusal, brokerVars
<1>3. SharedTypes /\ AtRecord(m, p) /\ nxt[m][p] < pos[m][p]
  BY <1>1, AtHead DEF AtRecord, Working
<1>4. /\ processed' = processed /\ positions' = positions /\ deadLetters' = deadLetters
      /\ \A u \in Members \ {m} : outcome'[u] = outcome[u]
  BY <1>1, ReturnMoves DEF ConsumerInv
<1>5. LoopStep(m)
  BY <1>2, <1>3, <1>4 DEF LoopStep, SharedTypes
<1>6. SharedInv'
  BY <1>2, <1>4, <1>5, NothingShared
<1>7. CASE outcome[m] = "recorded"
  <2>1. PICK d \in deadLetters : d.id = LetterId(Rec(m, p), p, nxt[m][p])
    BY <1>1, <1>3, <1>7 DEF AtRecord
  <2>2. ASSUME NEW o \in Offsets, o = nxt[m][p] PROVE Handled(p, o)'
    BY <1>2, <1>4, <2>1, <2>2 DEF Rec, Handled, Settled
  <2>3. Done(m, p)
    BY <1>7 DEF HandleRefusal
  <2> QED
    BY <1>1, <1>5, <1>6, <2>2, <2>3, FinishesRecord DEF Working
<1>8. CASE outcome[m] # "recorded"
  BY <1>1, <1>2, <1>4, <1>5, <1>8, StopsHere DEF HandleRefusal, Failed, loopVars
<1> QED
  BY <1>7, <1>8
-----------------------------------------------------------------------------
\* A step that no member takes part in.
LEMMA BesideMembers ==
    ASSUME ConsumerInv, SinkInv', SharedTypes', MemberTypes', Grown,
           \A m \in Members : Same(m),
           \A m \in Members : \A p \in Partitions : Leased(m, p),
           SharedInv'
    PROVE  ConsumerInv'
<1>1. ASSUME NEW m \in Members PROVE MemberInv(m)'
  BY MemberStays DEF ConsumerInv
<1> QED
  BY <1>1 DEF ConsumerInv

\* Nothing is committed, applied, shown, refused or produced in this step.
LEMMA QuietShared ==
    ASSUME ConsumerInv, SinkGrown, SharedTypes', Grown,
           UNCHANGED <<committed, positions, published, deadLetters>>
    PROVE  SharedInv'
BY SharedStays DEF SharedInv

\* A record appended to a partition leaves what is there where it is.
LEMMA AppendGrows ==
    ASSUME SharedTypes, NEW p \in Partitions, NEW v \in Payloads,
           Len(log[p]) < MaxLog, log' = [log EXCEPT ![p] = Append(@, v)]
    PROVE  /\ log' \in [Partitions -> Seq(Payloads)]
           /\ \A q \in Partitions :
                 /\ Len(log'[q]) <= MaxLog
                 /\ Len(log[q]) <= Len(log'[q])
                 /\ \A i \in 1 .. Len(log[q]) : log'[q][i] = log[q][i]
           /\ Len(log'[p]) = Len(log[p]) + 1
           /\ log'[p][Len(log[p]) + 1] = v
<1>1. log' = [log EXCEPT ![p] = Append(log[p], v)]
  OBVIOUS
<1>2. log[p] \in Seq(Payloads)
  BY DEF SharedTypes
<1>3. /\ Append(log[p], v) \in Seq(Payloads)
      /\ Len(Append(log[p], v)) = Len(log[p]) + 1
      /\ \A i \in 1 .. Len(log[p]) : Append(log[p], v)[i] = log[p][i]
      /\ Append(log[p], v)[Len(log[p]) + 1] = v
  BY <1>2, AppendProperties
<1>4. log' \in [Partitions -> Seq(Payloads)]
  BY <1>1, <1>3 DEF SharedTypes
<1>5. log'[p] = Append(log[p], v) /\ \A q \in Partitions \ {p} : log'[q] = log[q]
  BY <1>1 DEF SharedTypes
<1>6. ASSUME NEW q \in Partitions
      PROVE  /\ Len(log'[q]) <= MaxLog
             /\ Len(log[q]) <= Len(log'[q])
             /\ \A i \in 1 .. Len(log[q]) : log'[q][i] = log[q][i]
  <2>1. CASE q = p
    <3>1. Len(log[p]) \in Int /\ MaxLog \in Int
      BY LogFacts, SinkAssumption
    <3> QED
      BY <1>1, <1>3, <1>5, <2>1, <3>1
  <2>2. CASE q # p
    BY <1>5, <2>2, LogFacts
  <2> QED
    BY <2>1, <2>2
<1> QED
  BY <1>3, <1>4, <1>5, <1>6

LEMMA ProduceKeeps ==
    ASSUME ConsumerInv, SinkInv', SinkGrown,
           NEW p \in Partitions, NEW v \in Payloads, Produce(p, v)
    PROVE  ConsumerInv'
<1>1. SharedTypes /\ MemberTypes
  BY DEF ConsumerInv
<1>2. /\ committed' = committed /\ positions' = positions /\ published' = published
      /\ deadLetters' = deadLetters /\ owner' = owner /\ abandoned' = abandoned
      /\ dlqTopic' = dlqTopic /\ faults' = faults
  BY DEF Produce, sinkVars
<1>3. /\ pc' = pc /\ stopping' = stopping /\ has' = has /\ pos' = pos /\ nxt' = nxt
      /\ todo' = todo /\ lastOK' = lastOK /\ attempts' = attempts
      /\ reason' = reason /\ outcome' = outcome
  BY DEF Produce, sinkVars, clientVars, loopVars
<1>4. /\ log' \in [Partitions -> Seq(Payloads)]
      /\ \A q \in Partitions :
            /\ Len(log'[q]) <= MaxLog
            /\ Len(log[q]) <= Len(log'[q])
            /\ \A i \in 1 .. Len(log[q]) : log'[q][i] = log[q][i]
  BY <1>1, AppendGrows DEF Produce
<1>5. SharedTypes'
  BY <1>1, <1>2, <1>4 DEF SharedTypes
<1>6. Grown
  BY <1>2, <1>4 DEF Grown, SinkGrown
<1>7. MemberTypes'
  BY <1>1, <1>3 DEF MemberTypes
<1>8. \A m \in Members : Same(m) /\ \A q \in Partitions : Leased(m, q)
  BY <1>2, <1>3 DEF Same, Leased
<1>9. SharedInv'
  BY <1>2, <1>5, <1>6, QuietShared
<1> QED
  BY <1>5, <1>6, <1>7, <1>8, <1>9, BesideMembers

\* What the coordinator, a signal, a start or a death leave alone.
ClientStep ==
    /\ UNCHANGED <<log, dlqTopic, committed, published>>
    /\ UNCHANGED <<processed, positions, deadLetters>>
    /\ abandoned \subseteq abandoned'
    /\ abandoned' \subseteq Partitions \X Offsets
    /\ owner' \in [Partitions -> Members \cup {None}]
    /\ faults' \in 0 .. MaxFaults

LEMMA ClientGrown ==
    ASSUME ConsumerInv, SinkGrown, ClientStep
    PROVE  SharedTypes' /\ Grown /\ SharedInv'
<1>1. SharedTypes
  BY DEF ConsumerInv
<1>2. SharedTypes'
  BY <1>1 DEF SharedTypes, ClientStep
<1>3. Grown
  BY <1>1, QuietGrown DEF ClientStep
<1>4. SharedInv'
  BY <1>2, <1>3, QuietShared DEF ClientStep
<1> QED
  BY <1>2, <1>3, <1>4

LEMMA ExpireKeeps ==
    ASSUME ConsumerInv, SinkInv', SinkGrown,
           NEW m \in Members, NEW p \in Partitions, Expire(m, p)
    PROVE  ConsumerInv'
<1>1. SharedTypes /\ MemberTypes
  BY DEF ConsumerInv
<1>2. /\ pc' = pc /\ stopping' = stopping /\ has' = has /\ pos' = pos /\ nxt' = nxt
      /\ todo' = todo /\ lastOK' = lastOK /\ attempts' = attempts
      /\ reason' = reason /\ outcome' = outcome /\ committed' = committed
      /\ owner' = [owner EXCEPT ![p] = None]
  BY DEF Expire, sinkVars, clientVars, loopVars
<1>3. ClientStep
  BY <1>1, ConsumerAssumption
     DEF Expire, ClientStep, sinkVars, SharedTypes, Fault, NoFault
<1>4. MemberTypes'
  BY <1>1, <1>2 DEF MemberTypes
<1>5. \A u \in Members : Same(u)
  BY <1>2 DEF Same
<1>6. \A u \in Members : \A q \in Partitions : Leased(u, q)
  BY <1>1, <1>2, ConsumerAssumption DEF Leased, SharedTypes
<1> QED
  BY <1>3, <1>4, <1>5, <1>6, ClientGrown, BesideMembers

LEMMA SigtermKeeps ==
    ASSUME ConsumerInv, SinkInv', SinkGrown, NEW m \in Members, Sigterm(m)
    PROVE  ConsumerInv'
<1>1. SharedTypes /\ MemberTypes
  BY DEF ConsumerInv
<1>2. /\ pc' = pc /\ has' = has /\ pos' = pos /\ nxt' = nxt /\ owner' = owner
      /\ todo' = todo /\ lastOK' = lastOK /\ attempts' = attempts
      /\ reason' = reason /\ outcome' = outcome /\ committed' = committed
      /\ stopping' = [stopping EXCEPT ![m] = TRUE]
  BY DEF Sigterm, sinkVars, clientVars, loopVars, brokerVars
<1>3. ClientStep
  BY <1>1, ConsumerAssumption DEF Sigterm, ClientStep, sinkVars, brokerVars, SharedTypes, Fault
<1>4. MemberTypes'
  BY <1>1, <1>2 DEF MemberTypes
<1>5. \A u \in Members : Same(u) /\ \A q \in Partitions : Leased(u, q)
  BY <1>2 DEF Same, Leased
<1> QED
  BY <1>3, <1>4, <1>5, ClientGrown, BesideMembers

\* A step of one client that is at its poll, or down.
LEMMA BetweenBatches ==
    ASSUME ConsumerInv, SinkInv', SinkGrown, ClientStep, MemberTypes',
           NEW m \in Members,
           \A u \in Members \ {m} : Same(u) /\ \A p \in Partitions : Leased(u, p),
           pc'[m] \in {"down", "poll"}, todo'[m] = {}, lastOK'[m] = -1,
           \A p \in Partitions : Cursor(m, p)'
    PROVE  ConsumerInv'
<1>1. SharedTypes' /\ Grown /\ SharedInv'
  BY ClientGrown
<1>2. MemberInv(m)'
  BY DEF MemberInv, Batch, First
<1> QED
  BY <1>1, <1>2, MemberStep

LEMMA StartKeeps ==
    ASSUME ConsumerInv, SinkInv', SinkGrown, NEW m \in Members, Start(m)
    PROVE  ConsumerInv'
<1>1. SharedTypes /\ MemberTypes /\ MemberInv(m)
  BY DEF ConsumerInv
<1>2. /\ has' = has /\ pos' = pos /\ nxt' = nxt /\ owner' = owner
      /\ todo' = todo /\ lastOK' = lastOK /\ attempts' = attempts
      /\ reason' = reason /\ outcome' = outcome /\ committed' = committed
      /\ stopping' = [stopping EXCEPT ![m] = FALSE]
  BY DEF Start, sinkVars, clientVars, loopVars, brokerVars
<1>3. /\ pc' \in [Members -> Places] /\ pc'[m] = "poll" /\ pc[m] = "down"
      /\ \A u \in Members \ {m} : pc'[u] = pc[u]
  BY <1>1, GotoMoves DEF Start, Places
<1>4. ClientStep
  BY <1>1 DEF Start, ClientStep, sinkVars, brokerVars, SharedTypes
<1>5. MemberTypes'
  BY <1>1, <1>2, <1>3 DEF MemberTypes
<1>6. \A u \in Members : \A q \in Partitions : Leased(u, q)
  BY <1>2 DEF Leased
<1>7. \A u \in Members \ {m} : Same(u)
  BY <1>2, <1>3 DEF Same
<1>8. todo'[m] = {} /\ lastOK'[m] = -1
  BY <1>1, <1>2, <1>3 DEF MemberInv, Batch
<1>9. \A p \in Partitions : Cursor(m, p)'
  BY <1>1, <1>2, <1>4, <1>6, ClientGrown, CursorStays DEF MemberInv
<1> QED
  BY <1>3, <1>4, <1>5, <1>6, <1>7, <1>8, <1>9, BetweenBatches

\* A process that is gone knows nothing.
LEMMA ForgetKeeps ==
    ASSUME ConsumerInv, SinkInv', SinkGrown, ClientStep, NEW m \in Members,
           Forget(m), \A u \in Members \ {m} : outcome'[u] = outcome[u],
           \A u \in Members \ {m} : \A p \in Partitions : Leased(u, p)
    PROVE  ConsumerInv'
<1>1. SharedTypes /\ MemberTypes
  BY DEF ConsumerInv
<1>2. /\ pc'[m] = "down" /\ has'[m] = {} /\ todo'[m] = {} /\ lastOK'[m] = -1
      /\ \A p \in Partitions : pos'[m][p] = 0 /\ nxt'[m][p] = 0
      /\ \A u \in Members \ {m} :
            /\ pc'[u] = pc[u] /\ has'[u] = has[u] /\ pos'[u] = pos[u]
            /\ nxt'[u] = nxt[u] /\ todo'[u] = todo[u] /\ lastOK'[u] = lastOK[u]
            /\ attempts'[u] = attempts[u]
  BY <1>1 DEF Forget, MemberTypes
<1>3. MemberTypes'
  <2>1. /\ pc' \in [Members -> Places] /\ stopping' \in [Members -> BOOLEAN]
        /\ has' \in [Members -> SUBSET Partitions]
        /\ todo' \in [Members -> SUBSET Partitions]
        /\ lastOK' \in [Members -> Offsets \cup {-1}]
    BY <1>1 DEF Forget, MemberTypes, Places
  <2>2. [p \in Partitions |-> 0] \in [Partitions -> 0 .. MaxLog]
    BY SinkAssumption
  <2>3. /\ pos' \in [Members -> [Partitions -> 0 .. MaxLog]]
        /\ nxt' \in [Members -> [Partitions -> 0 .. MaxLog]]
    BY <1>1, <2>2 DEF Forget, MemberTypes
  <2>4. 0 \in 0 .. MaxRetries + 1 /\ "decode" \in Reasons
    BY ConsumerAssumption DEF Reasons
  <2>5. /\ attempts' \in [Members -> 0 .. MaxRetries + 1]
        /\ reason' \in [Members -> Reasons]
    BY <1>1, <2>4 DEF Forget, MemberTypes
  <2> QED
    BY <2>1, <2>3, <2>5 DEF MemberTypes
<1>4. ASSUME NEW p \in Partitions PROVE Cursor(m, p)'
  <2>1. SharedTypes'
    BY ClientGrown
  <2>2. Len(log'[p]) \in Nat
    BY <2>1 DEF SharedTypes
  <2>3. \A o \in Offsets : ~(o < 0)
    BY DEF Offsets
  <2> QED
    BY <1>2, <2>2, <2>3 DEF Cursor
<1>5. \A u \in Members \ {m} : Same(u)
  BY <1>2 DEF Same
<1> QED
  BY <1>2, <1>3, <1>4, <1>5, BetweenBatches

LEMMA ExitKeeps ==
    ASSUME ConsumerInv, SinkInv', SinkGrown, NEW m \in Members, Exit(m)
    PROVE  ConsumerInv'
<1>1. SharedTypes
  BY DEF ConsumerInv
<1>2. /\ owner' = [p \in Partitions |-> IF owner[p] = m THEN None ELSE owner[p]]
      /\ Forget(m) /\ outcome' = outcome /\ committed' = committed
  BY DEF Exit, sinkVars
<1>3. ClientStep
  <2>1. owner' \in [Partitions -> Members \cup {None}]
    BY <1>1, <1>2 DEF SharedTypes
  <2> QED
    BY <1>1, <2>1 DEF Exit, ClientStep, sinkVars, SharedTypes
<1>4. \A u \in Members \ {m} : \A p \in Partitions : Leased(u, p)
  BY <1>2, ConsumerAssumption DEF Leased
<1> QED
  BY <1>2, <1>3, <1>4, ForgetKeeps

LEMMA CrashKeeps ==
    ASSUME ConsumerInv, SinkInv', SinkGrown, NEW m \in Members, Crash(m)
    PROVE  ConsumerInv'
<1>1. SharedTypes /\ Forget(m) /\ owner' = owner /\ committed' = committed
  BY DEF ConsumerInv, Crash, brokerVars
<1>2. /\ processed' = processed /\ positions' = positions /\ deadLetters' = deadLetters
      /\ \A u \in Members \ {m} : outcome'[u] = outcome[u]
  <2>1. CASE Return(m)
    BY <2>1, ReturnMoves DEF ConsumerInv
  <2>2. CASE UNCHANGED sinkVars
    BY <2>2 DEF sinkVars
  <2> QED
    BY <2>1, <2>2 DEF Crash
<1>3. ClientStep
  BY <1>1, <1>2, ConsumerAssumption
     DEF Crash, ClientStep, brokerVars, SharedTypes, Fault
<1>4. \A u \in Members \ {m} : \A p \in Partitions : Leased(u, p)
  BY <1>1 DEF Leased
<1> QED
  BY <1>1, <1>2, <1>3, <1>4, ForgetKeeps

\* A client that is given or loses a partition between batches: the cursor is
\* put at q0, below which everything is handled.
LEMMA CursorPut ==
    ASSUME ConsumerInv, SinkInv', SinkGrown, ClientStep, NEW m \in Members,
           NEW p \in Partitions, NEW q0 \in 0 .. MaxLog,
           pc[m] = "poll",
           UNCHANGED <<pc, stopping, todo, lastOK, attempts, reason, outcome>>,
           pos' = [pos EXCEPT ![m][p] = q0], nxt' = [nxt EXCEPT ![m][p] = q0],
           \/ has' = [has EXCEPT ![m] = @ \cup {p}] /\ q0 = committed[p]
           \/ has' = [has EXCEPT ![m] = @ \ {p}] /\ q0 = 0,
           \A u \in Members : \A q \in Partitions :
              (u = m /\ q = p) \/ Leased(u, q)
    PROVE  ConsumerInv'
<1>1. SharedTypes /\ MemberTypes /\ MemberInv(m) /\ CommittedSettled /\ committed' = committed
  BY DEF ConsumerInv, SharedInv, ClientStep
<1>2. SharedTypes' /\ Grown /\ log' = log
  BY ClientGrown DEF ClientStep
<1>3. /\ pos'[m][p] = q0 /\ nxt'[m][p] = q0
      /\ \A q \in Partitions \ {p} :
            pos'[m][q] = pos[m][q] /\ nxt'[m][q] = nxt[m][q]
      /\ \A u \in Members \ {m} : pos'[u] = pos[u] /\ nxt'[u] = nxt[u]
  BY <1>1 DEF MemberTypes
<1>4. /\ p \in has'[m] => q0 = committed[p]
      /\ p \notin has'[m] => q0 = 0
      /\ q0 = 0 \/ q0 = committed[p]
      /\ \A q \in Partitions \ {p} : q \in has'[m] <=> q \in has[m]
      /\ \A u \in Members \ {m} : has'[u] = has[u]
  BY <1>1 DEF MemberTypes
<1>5. MemberTypes'
  <2>1. /\ pos' \in [Members -> [Partitions -> 0 .. MaxLog]]
        /\ nxt' \in [Members -> [Partitions -> 0 .. MaxLog]]
    BY <1>1 DEF MemberTypes
  <2>2. has' \in [Members -> SUBSET Partitions]
    <3>1. CASE has' = [has EXCEPT ![m] = @ \cup {p}]
      BY <1>1, <3>1 DEF MemberTypes
    <3>2. CASE has' = [has EXCEPT ![m] = @ \ {p}]
      BY <1>1, <3>2 DEF MemberTypes
    <3> QED
      BY <3>1, <3>2
  <2> QED
    BY <1>1, <2>1, <2>2 DEF MemberTypes
<1>6. ASSUME NEW q \in Partitions PROVE Cursor(m, q)'
  <2>1. CASE q # p
    BY <1>1, <1>2, <1>3, <1>4, <2>1, CursorStays DEF MemberInv
  <2>2. CASE q = p
    <3>1. /\ committed[p] \in Nat /\ committed[p] <= MaxLog
          /\ Len(log[p]) \in Nat /\ MaxLog \in Nat
      BY <1>1, LogFacts, SinkAssumption DEF SharedTypes
    <3>2. committed[p] <= Len(log[p])
      <4>1. CASE committed[p] = 0
        BY <3>1, <4>1
      <4>2. CASE committed[p] # 0
        <5>1. committed[p] - 1 \in Offsets /\ committed[p] - 1 < committed[p]
          BY <3>1, <4>2 DEF Offsets
        <5>2. committed[p] - 1 < Len(log[p])
          BY <1>1, <5>1 DEF CommittedSettled
        <5> QED
          BY <3>1, <5>2
      <4> QED
        BY <4>1, <4>2
    <3>3. ASSUME NEW o \in Offsets, o < q0 PROVE Handled(p, o)'
      <4>1. o < committed[p]
        BY <1>4, <3>1, <3>3 DEF Offsets
      <4>2. o < Len(log[p]) /\ Handled(p, o)
        BY <1>1, <4>1 DEF CommittedSettled
      <4> QED
        BY <1>1, <1>2, <4>2, HandledStays
    <3> QED
      BY <1>1, <1>2, <1>3, <1>4, <2>2, <3>1, <3>2, <3>3 DEF Cursor
  <2> QED
    BY <2>1, <2>2
<1>7. \A u \in Members \ {m} : Same(u)
  BY <1>3, <1>4 DEF Same
<1>8. pc'[m] = "poll" /\ todo'[m] = {} /\ lastOK'[m] = -1
  BY <1>1 DEF MemberInv, Batch
<1> QED
  BY <1>5, <1>6, <1>7, <1>8, BetweenBatches

LEMMA AssignKeeps ==
    ASSUME ConsumerInv, SinkInv', SinkGrown,
           NEW m \in Members, NEW p \in Partitions, Assign(m, p)
    PROVE  ConsumerInv'
<1>1. SharedTypes
  BY DEF ConsumerInv
<1>2. /\ pc[m] = "poll" /\ owner[p] = None /\ owner' = [owner EXCEPT ![p] = m]
      /\ UNCHANGED <<pc, stopping, todo, lastOK, attempts, reason, outcome>>
      /\ committed' = committed
      /\ has' = [has EXCEPT ![m] = @ \cup {p}]
      /\ pos' = [pos EXCEPT ![m][p] = committed[p]]
      /\ nxt' = [nxt EXCEPT ![m][p] = committed[p]]
  BY DEF Assign, Rebalancing, ResumeAt, sinkVars, loopVars
<1>3. ClientStep
  BY <1>1, <1>2 DEF Assign, ClientStep, sinkVars, SharedTypes
<1>4. \A u \in Members : \A q \in Partitions : (u = m /\ q = p) \/ Leased(u, q)
  BY <1>1, <1>2 DEF Leased, SharedTypes
<1>5. committed[p] \in 0 .. MaxLog
  BY <1>1 DEF SharedTypes
<1> QED
  BY <1>2, <1>3, <1>4, <1>5, CursorPut

LEMMA RevokeKeeps ==
    ASSUME ConsumerInv, SinkInv', SinkGrown,
           NEW m \in Members, NEW p \in Partitions, Revoke(m, p)
    PROVE  ConsumerInv'
<1>1. SharedTypes
  BY DEF ConsumerInv
<1>2. /\ pc[m] = "poll" /\ owner' = [owner EXCEPT ![p] = None]
      /\ UNCHANGED <<pc, stopping, todo, lastOK, attempts, reason, outcome>>
      /\ committed' = committed
      /\ has' = [has EXCEPT ![m] = @ \ {p}]
      /\ pos' = [pos EXCEPT ![m][p] = 0]
      /\ nxt' = [nxt EXCEPT ![m][p] = 0]
  BY DEF Revoke, Drop, Rebalancing, sinkVars, loopVars
<1>3. ClientStep
  BY <1>1, <1>2, ConsumerAssumption DEF Revoke, ClientStep, sinkVars, SharedTypes, Fault
<1>4. \A u \in Members : \A q \in Partitions : (u = m /\ q = p) \/ Leased(u, q)
  BY <1>1, <1>2, ConsumerAssumption DEF Leased, SharedTypes
<1>5. 0 \in 0 .. MaxLog
  BY SinkAssumption
<1> QED
  BY <1>2, <1>3, <1>4, <1>5, CursorPut

LEMMA NoticeLostKeeps ==
    ASSUME ConsumerInv, SinkInv', SinkGrown,
           NEW m \in Members, NEW p \in Partitions, NoticeLost(m, p)
    PROVE  ConsumerInv'
<1>1. SharedTypes
  BY DEF ConsumerInv
<1>2. /\ pc[m] = "poll" /\ owner' = owner /\ committed' = committed
      /\ UNCHANGED <<pc, stopping, todo, lastOK, attempts, reason, outcome>>
      /\ has' = [has EXCEPT ![m] = @ \ {p}]
      /\ pos' = [pos EXCEPT ![m][p] = 0]
      /\ nxt' = [nxt EXCEPT ![m][p] = 0]
  BY DEF NoticeLost, Drop, Rebalancing, sinkVars, loopVars, brokerVars
<1>3. ClientStep
  BY <1>1, <1>2 DEF NoticeLost, ClientStep, sinkVars, brokerVars, SharedTypes
<1>4. \A u \in Members : \A q \in Partitions : (u = m /\ q = p) \/ Leased(u, q)
  BY <1>2 DEF Leased
<1>5. 0 \in 0 .. MaxLog
  BY SinkAssumption
<1> QED
  BY <1>2, <1>3, <1>4, <1>5, CursorPut

\* A poll puts the cursor where the last one ended: what it leaves behind is
\* accounted for as abandoned.
LEMMA PollKeeps ==
    ASSUME ConsumerInv, SinkInv', SinkGrown, NEW m \in Members, Poll(m)
    PROVE  ConsumerInv'
<1> DEFINE left == UNION {Between(p, nxt[m][p], pos[m][p]) : p \in has[m]}
           fetched(to) == UNION {Between(p, pos[m][p], to[p]) : p \in Partitions}
<1>1. SharedTypes /\ MemberTypes /\ MemberInv(m)
  BY DEF ConsumerInv
<1>2. /\ pc[m] = "poll" /\ owner' = owner /\ committed' = committed /\ log' = log
      /\ stopping' = stopping /\ has' = has /\ lastOK' = lastOK
      /\ attempts' = attempts /\ reason' = reason /\ outcome' = outcome
      /\ UNCHANGED <<dlqTopic, published, processed, positions, deadLetters, faults>>
  BY DEF Poll, sinkVars, brokerVars
<1>3. PICK to \in [Partitions -> 0 .. MaxLog] :
         /\ \A p \in Partitions :
               /\ pos[m][p] <= to[p]
               /\ p \in has[m] => to[p] <= Len(log[p])
               /\ p \notin has[m] => to[p] = pos[m][p]
         /\ pos' = [pos EXCEPT ![m] = to]
         /\ nxt' = [nxt EXCEPT ![m] = pos[m]]
         /\ todo' = [todo EXCEPT ![m] = {p \in Partitions : pos[m][p] < to[p]}]
         /\ Goto(m, IF fetched(to) = {} THEN "poll" ELSE "next")
         /\ abandoned' = abandoned \cup left
  BY DEF Poll
<1>4. /\ pos'[m] = to /\ nxt'[m] = pos[m]
      /\ todo'[m] = {p \in Partitions : pos[m][p] < to[p]}
      /\ pos' \in [Members -> [Partitions -> 0 .. MaxLog]]
      /\ nxt' \in [Members -> [Partitions -> 0 .. MaxLog]]
      /\ todo' \in [Members -> SUBSET Partitions]
      /\ \A u \in Members \ {m} : pos'[u] = pos[u] /\ nxt'[u] = nxt[u] /\ todo'[u] = todo[u]
  BY <1>1, <1>3 DEF MemberTypes
<1>5. PICK l \in {"poll", "next"} : Goto(m, l) /\ (l = "poll" => fetched(to) = {})
  BY <1>3
<1> HIDE DEF fetched, left
<1>6. /\ pc' \in [Members -> Places] /\ pc'[m] = l
      /\ \A u \in Members \ {m} : pc'[u] = pc[u]
  BY <1>1, <1>5, GotoMoves DEF Places, InBatch
<1>7. MemberTypes'
  BY <1>1, <1>2, <1>4, <1>6 DEF MemberTypes
<1>8. left \subseteq Partitions \X Offsets
  BY <1>1 DEF left, Between, MemberTypes
<1>9. ClientStep
  BY <1>1, <1>2, <1>3, <1>8 DEF ClientStep, SharedTypes
<1>10. SharedTypes' /\ Grown /\ SharedInv'
  BY <1>9, ClientGrown
<1>11. \A u \in Members : \A p \in Partitions : Leased(u, p)
  BY <1>2 DEF Leased
<1>12. \A u \in Members \ {m} : Same(u)
  BY <1>2, <1>4, <1>6 DEF Same
<1>13. ASSUME NEW p \in Partitions
       PROVE  /\ nxt[m][p] \in Nat /\ pos[m][p] \in Nat /\ to[p] \in Nat
              /\ Cursor(m, p)
              /\ to[p] <= MaxLog /\ Len(log[p]) \in Nat
  BY <1>1, LogFacts DEF MemberTypes, MemberInv
<1>14. ASSUME NEW p \in Partitions PROVE Cursor(m, p)'
  <2>1. ASSUME NEW o \in Offsets, o < pos[m][p] PROVE Handled(p, o)'
    <3>1. o \in Nat
      BY DEF Offsets
    <3>2. CASE o < nxt[m][p]
      <4>1. o < Len(log[p]) /\ Handled(p, o)
        BY <1>13, <2>1, <3>1, <3>2 DEF Cursor
      <4> QED
        BY <1>1, <1>10, <4>1, HandledStays
    <3>3. CASE nxt[m][p] <= o
      <4>1. p \in has[m]
        BY <1>13, <2>1, <3>1 DEF Cursor
      <4>2. <<p, o>> \in Between(p, nxt[m][p], pos[m][p])
        BY <2>1, <3>3 DEF Between
      <4>3. <<p, o>> \in abandoned'
        BY <1>3, <4>1, <4>2 DEF left
      <4> QED
        BY <4>3 DEF Handled
    <3> QED
      BY <1>13, <3>1, <3>2, <3>3
  <2>2. to[p] <= Len(log[p]) /\ (p \notin has[m] => to[p] = 0)
    BY <1>3, <1>13 DEF Cursor
  <2>3. owner[p] = m /\ p \in has[m] => committed[p] <= pos[m][p]
    <3>1. committed[p] \in Int
      BY <1>1 DEF SharedTypes
    <3> QED
      BY <1>13, <3>1 DEF Cursor
  <2> QED
    BY <1>2, <1>3, <1>4, <2>1, <2>2, <2>3 DEF Cursor
<1>15. Batch(m)'
  <2>1. todo'[m] \subseteq has'[m]
    BY <1>2, <1>3, <1>4, <1>13
  <2>2. lastOK'[m] = -1
    BY <1>1, <1>2 DEF MemberInv, Batch
  <2>3. ASSUME l = "poll" PROVE todo'[m] = {}
    <3> SUFFICES ASSUME NEW p \in Partitions, pos[m][p] < to[p] PROVE FALSE
      BY <1>4
    <3>1. pos[m][p] \in Offsets
      BY <1>13, SinkAssumption DEF Offsets
    <3>2. <<p, pos[m][p]>> \in Between(p, pos[m][p], to[p])
      BY <1>13, <3>1 DEF Between
    <3> QED
      BY <1>5, <2>3, <3>2 DEF fetched
  <2> QED
    BY <1>6, <2>1, <2>2, <2>3 DEF Batch
<1>16. ASSUME NEW p \in Partitions PROVE AtRecord(m, p)'
  <2>1. lastOK'[m] = -1
    BY <1>1, <1>2 DEF MemberInv, Batch
  <2> QED
    BY <1>6, <2>1 DEF AtRecord, Working
<1> QED
  BY <1>7, <1>10, <1>11, <1>12, <1>14, <1>15, <1>16, MemberStep DEF MemberInv

\* What is committed is the cursor of a member that owns the partition.
LEMMA CommitPoint ==
    ASSUME ConsumerInv, NEW m \in Members, NEW p \in Partitions, CommitPrefix(m, p)
    PROVE  \/ committed' = committed
           \/ /\ owner[p] = m
              /\ committed' = [committed EXCEPT ![p] = nxt[m][p]]
              /\ committed[p] <= nxt[m][p]
<1>1. First(m, p) /\ Batch(m) /\ AtRecord(m, p) /\ Cursor(m, p)
  BY AtHead DEF CommitPrefix
<1>2. p \in has[m]
  BY <1>1 DEF First, Batch
<1> QED
  BY <1>1, <1>2 DEF CommitPrefix, AtRecord, Cursor

LEMMA CommitPrefixKeeps ==
    ASSUME ConsumerInv, SinkInv', SinkGrown,
           NEW m \in Members, NEW p \in Partitions, CommitPrefix(m, p)
    PROVE  ConsumerInv'
<1>1. SharedTypes /\ MemberTypes /\ MemberInv(m) /\ SharedInv
  BY DEF ConsumerInv
<1>2. /\ First(m, p) /\ log' = log /\ dlqTopic' = dlqTopic /\ owner' = owner
      /\ published' = published /\ stopping' = stopping /\ has' = has /\ pos' = pos
      /\ nxt' = nxt /\ abandoned' = abandoned /\ positions' = positions
      /\ deadLetters' = deadLetters /\ outcome' = outcome
  BY DEF CommitPrefix, sinkVars, clientVars
<1>3. /\ todo' = [todo EXCEPT ![m] = @ \ {p}]
      /\ lastOK' = [lastOK EXCEPT ![m] = -1]
      /\ attempts' = [attempts EXCEPT ![m] = 0]
      /\ reason' = [reason EXCEPT ![m] = "decode"]
  BY DEF CommitPrefix, NextPartition
<1>4. PICK l \in {"poll", "next"} : Goto(m, l) /\ (l = "poll" => todo[m] = {p})
  BY DEF CommitPrefix, NextPartition
<1>5. /\ pc' \in [Members -> Places] /\ pc'[m] = l
      /\ \A u \in Members \ {m} : pc'[u] = pc[u]
  BY <1>1, <1>4, GotoMoves DEF Places, InBatch
<1>6. /\ todo'[m] = todo[m] \ {p} /\ lastOK'[m] = -1
      /\ \A u \in Members \ {m} :
            todo'[u] = todo[u] /\ lastOK'[u] = lastOK[u] /\ attempts'[u] = attempts[u]
  BY <1>1, <1>3 DEF MemberTypes
<1>7. MemberTypes'
  <2>1. 0 \in 0 .. MaxRetries + 1 /\ "decode" \in Reasons
    BY ConsumerAssumption DEF Reasons
  <2>2. /\ todo' \in [Members -> SUBSET Partitions]
        /\ lastOK' \in [Members -> Offsets \cup {-1}]
        /\ attempts' \in [Members -> 0 .. MaxRetries + 1]
        /\ reason' \in [Members -> Reasons]
    BY <1>1, <1>3, <2>1 DEF MemberTypes
  <2> QED
    BY <1>1, <1>2, <1>5, <2>2 DEF MemberTypes
<1>8. \/ committed' = committed
      \/ owner[p] = m /\ committed' = [committed EXCEPT ![p] = nxt[m][p]]
  BY CommitPoint
<1>9. /\ nxt[m][p] \in 0 .. MaxLog /\ pos[m][p] \in Nat /\ Cursor(m, p)
      /\ Len(log[p]) \in Nat
  BY <1>1, LogFacts DEF MemberTypes, MemberInv
<1>10. SharedTypes' /\ Grown
  <2>1. faults' \in 0 .. MaxFaults
    BY <1>1, ConsumerAssumption
       DEF CommitPrefix, CallFailed, CallOK, Fault, NoFault, SharedTypes
  <2>2. committed' \in [Partitions -> 0 .. MaxLog]
    BY <1>1, <1>8, <1>9 DEF SharedTypes
  <2>3. SharedTypes'
    BY <1>1, <1>2, <2>1, <2>2 DEF SharedTypes
  <2> QED
    BY <1>1, <1>2, <2>3, QuietGrown
<1>11. \A q \in Partitions \ {p} : committed'[q] = committed[q]
  BY <1>1, <1>8 DEF SharedTypes
<1>12. CommittedSettled'
  <2>1. CASE committed' = committed
    BY <1>10, <2>1, SharedStays
  <2>2. CASE committed' = [committed EXCEPT ![p] = nxt[m][p]]
    <3>1. committed'[p] = nxt[m][p]
      BY <1>1, <2>2 DEF SharedTypes
    <3>2. ASSUME NEW q \in Partitions, NEW o \in Offsets, o < committed'[q]
          PROVE  o < Len(log[q]) /\ Handled(q, o)
      <4>1. CASE q = p
        BY <1>9, <3>1, <3>2, <4>1 DEF Cursor, Offsets
      <4>2. CASE q # p
        BY <1>1, <1>11, <3>2, <4>2 DEF SharedInv, CommittedSettled
      <4> QED
        BY <4>1, <4>2
    <3> QED
      BY <1>1, <1>2, <1>10, <3>2, HandledStays DEF CommittedSettled
  <2> QED
    BY <1>8, <2>1, <2>2
<1>13. SharedInv'
  BY <1>2, <1>10, <1>12, SharedStays DEF SharedInv
<1>14. \A u \in Members \ {m} : \A q \in Partitions : Leased(u, q)
  BY <1>2, <1>8, <1>11 DEF Leased
<1>15. ASSUME NEW q \in Partitions PROVE Cursor(m, q)'
  <2>1. CASE q # p \/ committed' = committed
    <3>1. Leased(m, q)
      BY <1>2, <1>11, <2>1 DEF Leased
    <3> QED
      BY <1>1, <1>2, <1>10, <3>1, CursorStays DEF MemberInv
  <2>2. CASE q = p /\ committed' = [committed EXCEPT ![p] = nxt[m][p]]
    <3>1. committed'[p] = nxt[m][p]
      BY <1>1, <2>2 DEF SharedTypes
    <3>2. ASSUME NEW o \in Offsets, o < nxt[m][p] PROVE Handled(p, o)'
      <4>1. o < Len(log[p]) /\ Handled(p, o)
        BY <1>9, <3>2 DEF Cursor, Offsets
      <4> QED
        BY <1>1, <1>10, <4>1, HandledStays
    <3> QED
      BY <1>2, <1>9, <2>2, <3>1, <3>2 DEF Cursor
  <2> QED
    BY <1>8, <2>1, <2>2
<1>16. Batch(m)'
  BY <1>1, <1>2, <1>4, <1>5, <1>6 DEF MemberInv, Batch
<1>17. ASSUME NEW q \in Partitions PROVE AtRecord(m, q)'
  BY <1>5, <1>6 DEF AtRecord, Working
<1>18. \A u \in Members \ {m} : Same(u)
  BY <1>2, <1>5, <1>6 DEF Same
<1> QED
  BY <1>7, <1>10, <1>13, <1>14, <1>15, <1>16, <1>17, <1>18, MemberStep DEF MemberInv
-----------------------------------------------------------------------------
\* What the group does to the tables is calls of the sink, on records the sink
\* may be called with.
LEMMA WorkCallsSink ==
    ASSUME ConsumerInv, NEW m \in Members, NEW p \in Partitions, Work(m, p)
    PROVE  SinkNext \/ UNCHANGED sinkVars
<1>0. m \in Workers
  BY ConsumerAssumption
<1>1. CASE CallApply(m, p)
  <2>1. /\ Rec(m, p) \in Payloads /\ nxt[m][p] \in Offsets
        /\ AsVehiclePosition(Rec(m, p))
    BY <1>1, AtHead DEF CallApply, AtRecord, Working
  <2>2. Apply(m, Rec(m, p), p, nxt[m][p]) \/ CallFails(m)
    BY <1>1 DEF CallApply
  <2> QED
    BY <1>0, <2>1, <2>2 DEF SinkNext
<1>2. CASE CallRecord(m, p)
  <2>1. Rec(m, p) \in Payloads /\ nxt[m][p] \in Offsets /\ reason[m] \in Reasons
    BY <1>2, AtHead DEF CallRecord, AtRecord, Working, MemberTypes
  <2>2. \/ RecordDeadLetter(m, LetterId(Rec(m, p), p, nxt[m][p]), Rec(m, p), reason[m])
        \/ CallFails(m)
    BY <1>2 DEF CallRecord
  <2> QED
    BY <1>0, <2>1, <2>2 DEF SinkNext
<1>3. CASE HandleResult(m, p) \/ HandleRefusal(m, p)
  BY <1>0, <1>3 DEF HandleResult, HandleRefusal, SinkNext
<1>4. CASE ProcessOne(m, p) \/ Cancelled(m, p) \/ Publish(m, p)
  BY <1>4 DEF ProcessOne, Cancelled, Publish
<1>5. CASE ProduceDLQ(m, p) \/ EndOfGroup(m, p) \/ CommitPrefix(m, p)
  BY <1>5 DEF ProduceDLQ, EndOfGroup, CommitPrefix
<1> QED
  BY <1>1, <1>2, <1>3, <1>4, <1>5 DEF Work

LEMMA ConsumerCallsSink ==
    ASSUME ConsumerInv, ConsumerNext
    PROVE  SinkNext \/ UNCHANGED sinkVars
<1>1. ASSUME NEW p \in Partitions, NEW v \in Payloads, Produce(p, v)
      PROVE  UNCHANGED sinkVars
  BY <1>1 DEF Produce
<1>2. ASSUME NEW m \in Members, Loop(m) PROVE SinkNext \/ UNCHANGED sinkVars
  <2>1. CASE Start(m) \/ Exit(m) \/ Poll(m) \/ Retry(m)
    BY <2>1 DEF Start, Exit, Poll, Retry
  <2> QED
    BY <1>2, <2>1, WorkCallsSink DEF Loop
<1>3. ASSUME NEW m \in Members, Sigterm(m) PROVE UNCHANGED sinkVars
  BY <1>3 DEF Sigterm
<1>4. ASSUME NEW m \in Members, Crash(m) PROVE SinkNext \/ UNCHANGED sinkVars
  BY <1>4, ConsumerAssumption DEF Crash, SinkNext
<1>5. ASSUME NEW m \in Members, NEW p \in Partitions, Coordinator(m, p)
      PROVE  UNCHANGED sinkVars
  BY <1>5 DEF Coordinator, Assign, Revoke, NoticeLost, Expire
<1> QED
  BY <1>1, <1>2, <1>3, <1>4, <1>5 DEF ConsumerNext

LEMMA SinkSide ==
    ASSUME SinkInv, SinkNext \/ UNCHANGED sinkVars
    PROVE  SinkInv' /\ SinkGrown
<1>1. CASE SinkNext
  BY <1>1, SinkStep DEF SinkGrown
<1>2. CASE UNCHANGED sinkVars
  <2>1. UNCHANGED tables /\ outcome' = outcome
    BY <1>2 DEF sinkVars, tables
  <2>2. outcome' \in [Workers -> Results]
    BY <2>1 DEF SinkInv, SinkTypeOK
  <2> QED
    BY <2>1, <2>2, SameTables DEF SinkGrown, tables
<1> QED
  BY <1>1, <1>2

LEMMA ConsumerKeeps ==
    ASSUME ConsumerInv, ConsumerNext
    PROVE  ConsumerInv'
<1>1. SinkInv' /\ SinkGrown
  BY ConsumerCallsSink, SinkSide DEF ConsumerInv
<1>2. ASSUME NEW m \in Members, NEW p \in Partitions, Work(m, p) PROVE ConsumerInv'
  <2>1. CASE \/ ProcessOne(m, p) \/ CallApply(m, p) \/ HandleResult(m, p)
             \/ Cancelled(m, p) \/ Publish(m, p)
    BY <1>1, <2>1, ProcessOneKeeps, CallApplyKeeps, HandleResultKeeps,
       CancelledKeeps, PublishKeeps
  <2>2. CASE \/ ProduceDLQ(m, p) \/ CallRecord(m, p) \/ HandleRefusal(m, p)
             \/ EndOfGroup(m, p) \/ CommitPrefix(m, p)
    BY <1>1, <2>2, ProduceDLQKeeps, CallRecordKeeps, HandleRefusalKeeps,
       EndOfGroupKeeps, CommitPrefixKeeps
  <2> QED
    BY <1>2, <2>1, <2>2 DEF Work
<1>3. ASSUME NEW m \in Members, Loop(m) PROVE ConsumerInv'
  BY <1>1, <1>2, <1>3, StartKeeps, ExitKeeps, PollKeeps, RetryKeeps DEF Loop
<1>4. ASSUME NEW m \in Members, NEW p \in Partitions, Coordinator(m, p)
      PROVE  ConsumerInv'
  BY <1>1, <1>4, AssignKeeps, RevokeKeeps, NoticeLostKeeps, ExpireKeeps DEF Coordinator
<1>5. ASSUME NEW m \in Members, Sigterm(m) \/ Crash(m) PROVE ConsumerInv'
  BY <1>1, <1>5, SigtermKeeps, CrashKeeps
<1>6. ASSUME NEW p \in Partitions, NEW v \in Payloads, Produce(p, v) PROVE ConsumerInv'
  BY <1>1, <1>6, ProduceKeeps
<1> QED
  BY <1>3, <1>4, <1>5, <1>6 DEF ConsumerNext

\* What a step of the group does to the log and to the letters.
LEMMA GroupGrows ==
    ASSUME ConsumerInv, ConsumerNext
    PROVE  /\ Grown
           /\ \/ deadLetters' = deadLetters
              \/ \E id \in LetterIds, v \in Payloads, why \in Reasons :
                    deadLetters' = LettersWith(id, v, why)
<1>1. SharedTypes /\ SinkInv
  BY DEF ConsumerInv
<1>2. SinkGrown
  BY <1>1, ConsumerCallsSink, SinkSide
<1> DEFINE Letters == \/ deadLetters' = deadLetters
                      \/ \E id \in LetterIds, v \in Payloads, why \in Reasons :
                            deadLetters' = LettersWith(id, v, why)
           Topics == /\ log' = log /\ dlqTopic \subseteq dlqTopic'
                     /\ abandoned \subseteq abandoned'
<1>3. ASSUME NEW p \in Partitions, NEW v \in Payloads, Produce(p, v)
      PROVE  Grown /\ Letters
  <2>1. /\ Len(log[p]) < MaxLog /\ log' = [log EXCEPT ![p] = Append(@, v)]
        /\ dlqTopic' = dlqTopic /\ abandoned' = abandoned /\ deadLetters' = deadLetters
    BY <1>3 DEF Produce, sinkVars
  <2> QED
    BY <1>1, <1>2, <2>1, AppendGrows DEF Grown, SinkGrown
<1>4. ASSUME NEW m \in Members, NEW p \in Partitions, CallRecord(m, p)
      PROVE  Topics /\ Letters
  <2>1. /\ Rec(m, p) \in Payloads /\ nxt[m][p] \in Offsets /\ reason[m] \in Reasons
    BY <1>4, AtHead DEF CallRecord, AtRecord, Working, MemberTypes
  <2>2. LetterId(Rec(m, p), p, nxt[m][p]) \in LetterIds
    BY <2>1, LetterIdType
  <2>3. \/ deadLetters' = deadLetters
        \/ deadLetters' = LettersWith(LetterId(Rec(m, p), p, nxt[m][p]), Rec(m, p), reason[m])
    BY <1>4 DEF CallRecord, RecordDeadLetter, CallFails, tables
  <2>4. Topics
    BY <1>4 DEF CallRecord, brokerVars
  <2> QED
    BY <2>1, <2>2, <2>3, <2>4
<1>5. ASSUME NEW m \in Members, NEW p \in Partitions, Work(m, p), ~CallRecord(m, p)
      PROVE  Topics /\ deadLetters' = deadLetters
  <2>1. CASE CallApply(m, p)
    BY <2>1 DEF CallApply, Apply, Effect, CallFails, tables, brokerVars
  <2>2. CASE HandleResult(m, p) \/ HandleRefusal(m, p)
    BY <2>2 DEF HandleResult, HandleRefusal, Return, tables, brokerVars
  <2>3. CASE ProcessOne(m, p) \/ Cancelled(m, p) \/ Publish(m, p) \/ EndOfGroup(m, p)
    BY <2>3 DEF ProcessOne, Cancelled, Publish, EndOfGroup, sinkVars, brokerVars
  <2>4. CASE ProduceDLQ(m, p) \/ CommitPrefix(m, p)
    BY <2>4 DEF ProduceDLQ, CommitPrefix, sinkVars
  <2> QED
    BY <1>5, <2>1, <2>2, <2>3, <2>4 DEF Work
<1>6. ASSUME NEW m \in Members,
             Start(m) \/ Exit(m) \/ Poll(m) \/ Retry(m) \/ Sigterm(m) \/ Crash(m)
      PROVE  Topics /\ deadLetters' = deadLetters
  BY <1>6 DEF Start, Exit, Poll, Retry, Sigterm, Crash, Return, tables, sinkVars, brokerVars
<1>7. ASSUME NEW m \in Members, NEW p \in Partitions, Coordinator(m, p)
      PROVE  Topics /\ deadLetters' = deadLetters
  BY <1>7 DEF Coordinator, Assign, Revoke, NoticeLost, Expire, sinkVars, brokerVars
<1>8. Topics => Grown
  BY <1>1, <1>2, QuietGrown
<1> HIDE DEF Topics
<1>9. deadLetters' = deadLetters => Letters
  OBVIOUS
<1> HIDE DEF Letters
<1>10. Grown /\ Letters
  BY <1>3, <1>4, <1>5, <1>6, <1>7, <1>8, <1>9 DEF ConsumerNext, Loop
<1> QED
  BY <1>10 DEF Letters

LEMMA ConsumerStutter ==
    ASSUME ConsumerInv, UNCHANGED consumerVars
    PROVE  ConsumerInv'
<1>1. /\ SinkInv' /\ SharedTypes' /\ MemberTypes' /\ Grown
      /\ committed' = committed /\ positions' = positions
      /\ published' = published /\ deadLetters' = deadLetters
      /\ \A m \in Members : Same(m) /\ \A p \in Partitions : Leased(m, p)
  <2>1. UNCHANGED sinkVars /\ SharedTypes /\ MemberTypes
    BY DEF consumerVars, sinkVars, ConsumerInv
  <2>2. SinkInv' /\ SinkGrown
    BY <2>1, SinkSide DEF ConsumerInv
  <2>3. /\ SharedTypes' /\ MemberTypes' /\ log' = log /\ dlqTopic' = dlqTopic
        /\ abandoned' = abandoned
    BY <2>1 DEF consumerVars, SharedTypes, MemberTypes
  <2>4. Grown
    BY <2>1, <2>2, <2>3, QuietGrown
  <2> QED
    BY <2>2, <2>3, <2>4 DEF consumerVars, Same, Leased
<1>2. SharedInv'
  BY <1>1, SharedStays DEF SharedInv
<1> QED
  BY <1>1, <1>2, BesideMembers

LEMMA ConsumerInitInv == ConsumerInit => ConsumerInv
<1> SUFFICES ASSUME ConsumerInit PROVE ConsumerInv
  OBVIOUS
<1>1. SinkInv
  BY SinkInitInv DEF ConsumerInit
<1>2. SharedTypes
  <2>1. /\ log \in [Partitions -> Seq(Payloads)]
        /\ \A p \in Partitions : Len(log[p]) = 0
    BY EmptySeq DEF ConsumerInit
  <2>2. 0 \in 0 .. MaxLog /\ 0 \in 0 .. MaxFaults
    BY SinkAssumption, ConsumerAssumption
  <2> QED
    BY <2>1, <2>2 DEF ConsumerInit, SharedTypes
<1>3. MemberTypes
  <2>1. 0 \in 0 .. MaxLog /\ 0 \in 0 .. MaxRetries + 1 /\ "decode" \in Reasons
    BY SinkAssumption, ConsumerAssumption DEF Reasons
  <2> QED
    BY <2>1 DEF ConsumerInit, MemberTypes, Places
<1>4. ASSUME NEW m \in Members PROVE MemberInv(m)
  <2>1. /\ todo[m] = {} /\ lastOK[m] = -1 /\ has[m] = {} /\ pc[m] = "down"
        /\ \A p \in Partitions : nxt[m][p] = 0 /\ pos[m][p] = 0
    BY DEF ConsumerInit
  <2>2. ASSUME NEW p \in Partitions PROVE Cursor(m, p)
    <3>1. Len(log[p]) \in Nat
      BY <1>2, LogFacts
    <3>2. \A o \in Offsets : ~(o < 0)
      BY DEF Offsets
    <3> QED
      BY <2>1, <3>1, <3>2 DEF Cursor
  <2> QED
    BY <2>1, <2>2 DEF MemberInv, Batch, First
<1>5. SharedInv
  <2>1. \A o \in Offsets : ~(o < 0)
    BY DEF Offsets
  <2> QED
    BY <2>1 DEF ConsumerInit, SinkInit, SharedInv, CommittedSettled, AppliedInOrder,
                Traceable, NoPhantomFrame, LetterHasCopy
<1> QED
  BY <1>1, <1>2, <1>3, <1>4, <1>5 DEF ConsumerInv

LEMMA ConsumerInvariant == ConsumerSpec => []ConsumerInv
<1>1. ConsumerInv /\ [ConsumerNext]_consumerVars => ConsumerInv'
  BY ConsumerKeeps, ConsumerStutter
<1> QED
  BY <1>1, ConsumerInitInv, PTL DEF ConsumerSpec

\* Whatever members crash, stop, lose their session or take over from each
\* other, wherever they are in the loop: what is committed is applied, refused
\* or accounted for; a partition's records enter the history in order and can
\* be traced to the log; nothing is shown that is not in the history; and a
\* dead letter's bytes are on the dead-letter topic (Consumer.Run, DLQSink).
THEOREM ConsumerSafety ==
    ConsumerSpec => [](/\ ConsumerTypeOK /\ CommittedSettled /\ AppliedInOrder
                       /\ Traceable /\ NoPhantomFrame /\ LetterHasCopy)
<1>1. ConsumerInv => /\ ConsumerTypeOK /\ CommittedSettled /\ AppliedInOrder
                     /\ Traceable /\ NoPhantomFrame /\ LetterHasCopy
  BY TypesSplit DEF ConsumerInv, SinkInv, SharedInv
<1> QED
  BY <1>1, ConsumerInvariant, PTL

\* A member that the broker still takes for the owner never commits an offset
\* below the one that is committed (Consumer.commitPrefix).
LEMMA CommitsForward ==
    ASSUME ConsumerInv, ConsumerNext
    PROVE  \A p \in Partitions : committed[p] <= committed'[p]
<1>1. committed \in [Partitions -> 0 .. MaxLog]
  BY DEF ConsumerInv, SharedTypes
<1>2. ASSUME committed' = committed
      PROVE  \A p \in Partitions : committed[p] <= committed'[p]
  BY <1>1, <1>2
<1>3. ASSUME NEW m \in Members, NEW q \in Partitions, CommitPrefix(m, q)
      PROVE  \A p \in Partitions : committed[p] <= committed'[p]
  BY <1>1, <1>2, <1>3, CommitPoint
<1>4. ASSUME NEW m \in Members, NEW q \in Partitions, Work(m, q), ~CommitPrefix(m, q)
      PROVE  committed' = committed
  BY <1>4 DEF Work, ProcessOne, CallApply, HandleResult, Cancelled, Publish,
              ProduceDLQ, CallRecord, HandleRefusal, EndOfGroup, brokerVars
<1>5. ASSUME NEW m \in Members,
             Start(m) \/ Exit(m) \/ Poll(m) \/ Retry(m) \/ Sigterm(m) \/ Crash(m)
      PROVE  committed' = committed
  BY <1>5 DEF Start, Exit, Poll, Retry, Sigterm, Crash, brokerVars
<1>6. ASSUME NEW m \in Members, NEW q \in Partitions, Coordinator(m, q)
      PROVE  committed' = committed
  BY <1>6 DEF Coordinator, Assign, Revoke, NoticeLost, Expire, brokerVars
<1>7. ASSUME NEW q \in Partitions, NEW v \in Payloads, Produce(q, v)
      PROVE  committed' = committed
  BY <1>7 DEF Produce
<1> QED
  BY <1>2, <1>3, <1>4, <1>5, <1>6, <1>7 DEF ConsumerNext, Loop

\* No commit moves a partition's offset back, in every behaviour of the group.
THEOREM ConsumerCommitsAdvance == ConsumerSpec => CommitsAdvance
<1>1. ConsumerInv /\ [ConsumerNext]_consumerVars =>
        [\A p \in Partitions : committed[p] <= committed'[p]]_consumerVars
  BY CommitsForward
<1> QED
  BY <1>1, ConsumerInvariant, PTL DEF ConsumerSpec, CommitsAdvance

\* The consumer group implements the sink's specification: it calls the sink
\* only with records Apply and RecordDeadLetter may be called with.
THEOREM ConsumerImplementsSink == ConsumerSpec => SinkSpec
<1>1. ConsumerInit => SinkInit
  BY DEF ConsumerInit
<1>2. ConsumerInv /\ [ConsumerNext]_consumerVars => [SinkNext]_sinkVars
  BY ConsumerCallsSink DEF consumerVars, sinkVars
<1> QED
  BY <1>1, <1>2, ConsumerInvariant, PTL DEF ConsumerSpec, SinkSpec
=============================================================================
