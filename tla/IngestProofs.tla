---------------------------- MODULE IngestProofs ----------------------------
(***************************************************************************)
(* What the ingest API promises its callers, for any callers and reports,  *)
(* any partitioner and any number of faults: what a 202 accepted is in the *)
(* log, the copies a retry leaves are recognisable, and no vehicle's       *)
(* reports are out of order.                                               *)
(*                                                                         *)
(* The order needs the state of a batch that is posted again: whatever of  *)
(* the caller's current batch is in the log stands behind the same         *)
(* vehicle's earlier reports of that batch (RunInv), so that a copy that   *)
(* is appended late is never a first one.                                  *)
(***************************************************************************)
EXTENDS Ingest, SequenceTheorems, TLAPS

Logged == UNION {{log[p][i] : i \in DOMAIN log[p]} : p \in Partitions}

Produces(c, n) == \E r \in todo[c] : r.nr = n
HasLogged(c, n) == \E r \in Logged : r.caller = c /\ r.nr = n

\* The report a record carries.
Origin(r) == Reports[r.caller][r.nr]

Faithful(r) ==
    /\ r.nr \in DOMAIN Reports[r.caller] /\ Valid(Origin(r))
    /\ r.key = Origin(r).vehicle
    /\ r.nr < next[r.caller] + size[r.caller]
    /\ Origin(r).id # NoId => r.id = Origin(r).id
    /\ Origin(r).id = NoId => r.id \in Nat /\ r.id <= minted

Copies == Logged \cup UNION {todo[c] : c \in Callers}

RecordsInv ==
    /\ \A r \in Copies : Faithful(r)
    /\ \A r, s \in Copies : r.id = s.id => SameReport(r, s)
    /\ \A c \in Callers : \A r \in todo[c] : r.caller = c /\ next[c] <= r.nr

\* Nothing of a batch that is being produced, or is accepted, is forgotten.
BatchInv(c) ==
    /\ call[c] = "idle" => size[c] = 0
    /\ call[c] \in {"produce", "202"} =>
          \A n \in Batch(c) : Valid(Reports[c][n]) => Produces(c, n) \/ HasLogged(c, n)

Before(p, j, c, n) ==
    \E i \in DOMAIN log[p] : i < j /\ log[p][i].caller = c /\ log[p][i].nr = n

\* What is logged of a caller's batch stands behind what the batch has of the
\* vehicle before it.
RunInv ==
    \A p \in Partitions : \A j \in DOMAIN log[p] :
       /\ PartitionOf[log[p][j].key] = p
       /\ \A n \in DOMAIN Reports[log[p][j].caller] :
             /\ next[log[p][j].caller] <= n /\ n < log[p][j].nr
             /\ Valid(Reports[log[p][j].caller][n])
             /\ Reports[log[p][j].caller][n].vehicle = log[p][j].key
             => Before(p, j, log[p][j].caller, n)

OrderInv ==
    \A p \in Partitions : \A i, j \in DOMAIN log[p] :
       /\ log[p][i].caller = log[p][j].caller /\ log[p][i].key = log[p][j].key
       /\ log[p][i].nr < log[p][j].nr
       => Before(p, j, log[p][i].caller, log[p][i].nr)

AcceptedInv == \A a \in accepted : HasLogged(a[1], a[2])

IngestInv ==
    /\ IngestTypeOK /\ RecordsInv
    /\ \A c \in Callers : BatchInv(c)
    /\ RunInv /\ OrderInv /\ AcceptedInv
-----------------------------------------------------------------------------
LEMMA ReportsAre ==
    ASSUME NEW c \in Callers
    PROVE  /\ Len(Reports[c]) \in Nat /\ DOMAIN Reports[c] = 1 .. Len(Reports[c])
           /\ \A n \in DOMAIN Reports[c] :
                 /\ Reports[c][n].vehicle \in Keys
                 /\ Reports[c][n].id # NoId => Reports[c][n].id \in Ids
<1>1. Reports[c] \in Seq(Report)
  BY IngestAssumption
<1>2. /\ Len(Reports[c]) \in Nat /\ DOMAIN Reports[c] = 1 .. Len(Reports[c])
      /\ \A n \in DOMAIN Reports[c] : Reports[c][n] \in Report
  BY <1>1, LenProperties, ElementOfSeq
<1> QED
  BY <1>2 DEF Report

LEMMA BatchIs ==
    ASSUME IngestTypeOK, NEW c \in Callers, NEW n \in Batch(c)
    PROVE  /\ n \in Nat /\ n \in DOMAIN Reports[c]
           /\ next[c] <= n /\ n < next[c] + size[c]
           /\ n - next[c] + 1 \in 1 .. size[c]
<1>1. /\ next[c] \in Nat /\ size[c] \in Nat /\ 1 <= next[c]
      /\ next[c] + size[c] <= Len(Reports[c]) + 1
  BY DEF IngestTypeOK
<1>2. n \in Int /\ next[c] <= n /\ n <= next[c] + size[c] - 1
  BY <1>1 DEF Batch
<1> QED
  BY <1>1, <1>2, ReportsAre

LEMMA LogIs ==
    ASSUME log \in [Partitions -> Seq(Record)], NEW p \in Partitions
    PROVE  /\ Len(log[p]) \in Nat /\ DOMAIN log[p] = 1 .. Len(log[p])
           /\ \A i \in DOMAIN log[p] :
                 /\ log[p][i] \in Logged /\ log[p][i] \in Record
                 /\ log[p][i].caller \in Callers /\ log[p][i].nr \in Nat
<1>1. log[p] \in Seq(Record)
  OBVIOUS
<1>2. /\ Len(log[p]) \in Nat /\ DOMAIN log[p] = 1 .. Len(log[p])
      /\ \A i \in DOMAIN log[p] : log[p][i] \in Record
  BY <1>1, LenProperties, ElementOfSeq
<1> QED
  BY <1>2 DEF Record, Logged

LEMMA CopiesAre ==
    ASSUME IngestTypeOK, NEW r \in Copies
    PROVE  r \in Record /\ r.caller \in Callers /\ r.nr \in Nat
<1>1. CASE r \in Logged
  <2>1. PICK p \in Partitions : \E i \in DOMAIN log[p] : r = log[p][i]
    BY <1>1 DEF Logged
  <2>2. log \in [Partitions -> Seq(Record)]
    BY DEF IngestTypeOK
  <2> QED
    BY <2>1, <2>2, LogIs
<1>2. CASE \E c \in Callers : r \in todo[c]
  BY <1>2 DEF IngestTypeOK, Record
<1> QED
  BY <1>1, <1>2 DEF Copies

\* A step that appends nothing and drops records at most, and after which no
\* caller goes back.
LEMMA LogStays ==
    ASSUME IngestInv, log' = log, minted' = minted, todo' \in [Callers -> SUBSET Record],
           next' \in [Callers -> Nat], size' \in [Callers -> Nat],
           \A c \in Callers :
              /\ todo'[c] \subseteq todo[c]
              /\ next[c] <= next'[c] /\ next[c] + size[c] <= next'[c] + size'[c]
              /\ todo'[c] # {} => next'[c] = next[c]
    PROVE  RecordsInv' /\ RunInv' /\ OrderInv' /\ Logged' = Logged
<1>1. IngestTypeOK /\ next \in [Callers -> Nat] /\ size \in [Callers -> Nat]
  BY DEF IngestInv, IngestTypeOK
<1>2. Logged' = Logged /\ Copies' \subseteq Copies
  BY DEF Logged, Copies
<1>3. RecordsInv'
  <2>1. ASSUME NEW r \in Copies' PROVE Faithful(r)'
    <3>1. Faithful(r) /\ r.caller \in Callers /\ r.nr \in Nat
      BY <1>1, <1>2, <2>1, CopiesAre DEF IngestInv, RecordsInv
    <3>2. r.nr < next'[r.caller] + size'[r.caller]
      BY <1>1, <3>1 DEF Faithful
    <3> QED
      BY <3>1, <3>2 DEF Faithful, Origin
  <2>2. \A r, s \in Copies' : r.id = s.id => SameReport(r, s)
    BY <1>2 DEF IngestInv, RecordsInv
  <2>3. \A c \in Callers : \A r \in todo'[c] : r.caller = c /\ next'[c] <= r.nr
    BY DEF IngestInv, RecordsInv
  <2> QED
    BY <2>1, <2>2, <2>3 DEF RecordsInv, SameReport
<1>4. RunInv'
  <2> SUFFICES ASSUME NEW p \in Partitions, NEW j \in DOMAIN log[p]
               PROVE  /\ PartitionOf[log[p][j].key] = p
                      /\ \A n \in DOMAIN Reports[log[p][j].caller] :
                            /\ next'[log[p][j].caller] <= n /\ n < log[p][j].nr
                            /\ Valid(Reports[log[p][j].caller][n])
                            /\ Reports[log[p][j].caller][n].vehicle = log[p][j].key
                            => Before(p, j, log[p][j].caller, n)
    BY DEF RunInv, Before, Valid
  <2>1. log[p][j].caller \in Callers
    BY <1>1, LogIs DEF IngestTypeOK
  <2>2. \A n \in DOMAIN Reports[log[p][j].caller] :
           next'[log[p][j].caller] <= n => next[log[p][j].caller] <= n
    BY <1>1, <2>1, ReportsAre
  <2> QED
    BY <2>2 DEF IngestInv, RunInv
<1>5. OrderInv'
  BY DEF IngestInv, OrderInv, Before
<1> QED
  BY <1>2, <1>3, <1>4, <1>5

Calls == {"idle", "failed"} \cup InFlight

RestTypes ==
    /\ minted \in Nat /\ accepted \subseteq Callers \X Nat
    /\ phase \in {"up", "draining"} /\ faults \in 0 .. MaxFaults

\* A step of one caller's request that appends nothing.
LEMMA CallKeeps ==
    ASSUME IngestInv, NEW c \in Callers, NEW n \in Nat, NEW k \in Nat, NEW l \in Calls,
           NEW t \in SUBSET todo[c],
           next' = [next EXCEPT ![c] = n], size' = [size EXCEPT ![c] = k],
           call' = [call EXCEPT ![c] = l], todo' = [todo EXCEPT ![c] = t],
           log' = log, minted' = minted,
           next[c] <= n, next[c] + size[c] <= n + k, n + k <= Len(Reports[c]) + 1,
           t # {} => t = todo[c] /\ n = next[c] /\ k = size[c] /\ l = "produce",
           l = "idle" => k = 0,
           l \in {"produce", "202"} =>
              call[c] = "produce" /\ n = next[c] /\ k = size[c] /\ t = todo[c],
           RestTypes', Logged' = Logged => AcceptedInv'
    PROVE  IngestInv'
<1>1. /\ IngestTypeOK /\ log \in [Partitions -> Seq(Record)]
      /\ next \in [Callers -> Nat] /\ size \in [Callers -> Nat]
      /\ call \in [Callers -> Calls] /\ todo \in [Callers -> SUBSET Record]
      /\ \A u \in Callers :
            /\ 1 <= next[u] /\ next[u] + size[u] <= Len(Reports[u]) + 1
            /\ todo[u] # {} => call[u] = "produce" /\ size[u] <= MaxBatchSize
  BY DEF IngestInv, IngestTypeOK, Calls
<1>2. /\ next'[c] = n /\ size'[c] = k /\ call'[c] = l /\ todo'[c] = t
      /\ \A u \in Callers \ {c} :
            /\ next'[u] = next[u] /\ size'[u] = size[u]
            /\ call'[u] = call[u] /\ todo'[u] = todo[u]
  BY <1>1
<1>3. /\ next' \in [Callers -> Nat] /\ size' \in [Callers -> Nat]
      /\ call' \in [Callers -> Calls] /\ todo' \in [Callers -> SUBSET Record]
  BY <1>1
<1>4. \A u \in Callers :
         /\ todo'[u] \subseteq todo[u]
         /\ next[u] <= next'[u] /\ next[u] + size[u] <= next'[u] + size'[u]
         /\ todo'[u] # {} => next'[u] = next[u]
  BY <1>1, <1>2
<1>5. RecordsInv' /\ RunInv' /\ OrderInv' /\ Logged' = Logged
  BY <1>3, <1>4, LogStays
<1>6. IngestTypeOK'
  <2>1. \A u \in Callers :
           /\ 1 <= next'[u] /\ next'[u] + size'[u] <= Len(Reports[u]) + 1
           /\ todo'[u] # {} => call'[u] = "produce" /\ size'[u] <= MaxBatchSize
    BY <1>1, <1>2
  <2> QED
    BY <1>1, <1>3, <2>1 DEF IngestTypeOK, RestTypes, Calls
<1>7. ASSUME NEW u \in Callers PROVE BatchInv(u)'
  <2>1. BatchInv(u)
    BY DEF IngestInv
  <2>2. CASE u # c
    <3>1. /\ next'[u] = next[u] /\ size'[u] = size[u]
          /\ call'[u] = call[u] /\ todo'[u] = todo[u]
      BY <1>2, <2>2
    <3> QED
      BY <1>5, <2>1, <3>1 DEF BatchInv, Batch, Produces, HasLogged, Valid
  <2>3. CASE u = c
    <3>1. call'[u] = "idle" => size'[u] = 0
      BY <1>2, <2>3
    <3>2. call'[u] \in {"produce", "202"} =>
             /\ call[u] = "produce" /\ next'[u] = next[u] /\ size'[u] = size[u]
             /\ todo'[u] = todo[u]
      BY <1>2, <2>3
    <3> QED
      BY <1>5, <2>1, <3>1, <3>2 DEF BatchInv, Batch, Produces, HasLogged, Valid
  <2> QED
    BY <2>2, <2>3
<1> QED
  BY <1>5, <1>6, <1>7 DEF IngestInv

LEMMA AcceptedStays ==
    ASSUME IngestInv, accepted' = accepted, Logged \subseteq Logged'
    PROVE  AcceptedInv'
BY DEF IngestInv, AcceptedInv, HasLogged

\* What a caller's part of the state is when a step leaves it alone.
LEMMA Itself ==
    ASSUME IngestInv, NEW c \in Callers
    PROVE  /\ next = [next EXCEPT ![c] = next[c]] /\ size = [size EXCEPT ![c] = size[c]]
           /\ call = [call EXCEPT ![c] = call[c]] /\ todo = [todo EXCEPT ![c] = todo[c]]
           /\ next[c] \in Nat /\ size[c] \in Nat /\ call[c] \in Calls
           /\ 1 <= next[c] /\ next[c] + size[c] <= Len(Reports[c]) + 1
           /\ todo[c] # {} => call[c] = "produce"
           /\ call[c] = "idle" => size[c] = 0
           /\ next[c] <= next[c] + size[c] /\ next[c] + size[c] + 0 = next[c] + size[c]
           /\ RestTypes
BY DEF IngestInv, IngestTypeOK, BatchInv, Calls, RestTypes

LEMMA PostKeeps ==
    ASSUME IngestInv, NEW c \in Callers, Post(c)
    PROVE  IngestInv'
<1>1. PICK k \in 1 .. Len(Reports[c]) - next[c] + 1 : size' = [size EXCEPT ![c] = k]
  BY DEF Post
<1>2. /\ call[c] = "idle" /\ call' = [call EXCEPT ![c] = "posted"]
      /\ log' = log /\ next' = next /\ todo' = todo /\ minted' = minted
      /\ accepted' = accepted /\ phase' = phase /\ faults' = faults
  BY DEF Post
<1>3. /\ size[c] = 0 /\ todo[c] = {} /\ RestTypes
      /\ next' = [next EXCEPT ![c] = next[c]] /\ todo' = [todo EXCEPT ![c] = todo[c]]
      /\ next[c] \in Nat /\ next[c] + size[c] <= Len(Reports[c]) + 1
  BY <1>2, Itself
<1>4. /\ k \in Nat /\ next[c] <= next[c] /\ next[c] + size[c] <= next[c] + k
      /\ next[c] + k <= Len(Reports[c]) + 1
  BY <1>1, <1>3, ReportsAre
<1>5. RestTypes' /\ "posted" \in Calls /\ (Logged' = Logged => AcceptedInv')
  BY <1>2, <1>3, AcceptedStays DEF RestTypes, Calls, InFlight
<1> QED
  BY <1>1, <1>2, <1>3, <1>4, <1>5, CallKeeps

LEMMA PostAgainKeeps ==
    ASSUME IngestInv, NEW c \in Callers, PostAgain(c)
    PROVE  IngestInv'
<1>1. /\ call[c] = "failed" /\ call' = [call EXCEPT ![c] = "posted"]
      /\ log' = log /\ next' = next /\ size' = size /\ todo' = todo /\ minted' = minted
      /\ accepted' = accepted /\ phase' = phase /\ faults' = faults
  BY DEF PostAgain
<1>2. /\ next' = [next EXCEPT ![c] = next[c]] /\ size' = [size EXCEPT ![c] = size[c]]
      /\ todo' = [todo EXCEPT ![c] = todo[c]] /\ todo[c] = {}
      /\ next[c] \in Nat /\ size[c] \in Nat
      /\ next[c] + size[c] <= Len(Reports[c]) + 1 /\ RestTypes
  BY <1>1, Itself
<1>3. next[c] <= next[c] /\ next[c] + size[c] <= next[c] + size[c]
  BY <1>2
<1>4. RestTypes' /\ "posted" \in Calls /\ (Logged' = Logged => AcceptedInv')
  BY <1>1, <1>2, AcceptedStays DEF RestTypes, Calls, InFlight
<1> QED
  BY <1>1, <1>2, <1>3, <1>4, CallKeeps

LEMMA GiveUpKeeps ==
    ASSUME IngestInv, NEW c \in Callers, GiveUp(c)
    PROVE  IngestInv'
<1>1. /\ call[c] = "failed" /\ call' = [call EXCEPT ![c] = "idle"]
      /\ next' = [next EXCEPT ![c] = next[c] + size[c]] /\ size' = [size EXCEPT ![c] = 0]
      /\ log' = log /\ todo' = todo /\ minted' = minted
      /\ accepted' = accepted /\ phase' = phase /\ faults' = faults
  BY DEF GiveUp, MoveOn
<1>2. /\ todo' = [todo EXCEPT ![c] = todo[c]] /\ todo[c] = {}
      /\ next[c] + size[c] \in Nat /\ RestTypes
      /\ next[c] <= next[c] + size[c] /\ next[c] + size[c] <= next[c] + size[c] + 0
      /\ next[c] + size[c] + 0 <= Len(Reports[c]) + 1
  BY <1>1, Itself
<1>3. RestTypes' /\ "idle" \in Calls /\ (Logged' = Logged => AcceptedInv')
  BY <1>1, <1>2, AcceptedStays DEF RestTypes, Calls
<1> QED
  BY <1>1, <1>2, <1>3, CallKeeps

LEMMA ProducedKeeps ==
    ASSUME IngestInv, NEW c \in Callers, Produced(c)
    PROVE  IngestInv'
<1>1. /\ call[c] = "produce" /\ todo[c] = {} /\ call' = [call EXCEPT ![c] = "202"]
      /\ log' = log /\ next' = next /\ size' = size /\ todo' = todo /\ minted' = minted
      /\ accepted' = accepted /\ phase' = phase /\ faults' = faults
  BY DEF Produced
<1>2. /\ next' = [next EXCEPT ![c] = next[c]] /\ size' = [size EXCEPT ![c] = size[c]]
      /\ todo' = [todo EXCEPT ![c] = todo[c]]
      /\ next[c] \in Nat /\ size[c] \in Nat
      /\ next[c] + size[c] <= Len(Reports[c]) + 1 /\ RestTypes
  BY <1>1, Itself
<1>3. next[c] <= next[c] /\ next[c] + size[c] <= next[c] + size[c]
  BY <1>2
<1>4. RestTypes' /\ "202" \in Calls /\ (Logged' = Logged => AcceptedInv')
  BY <1>1, <1>2, AcceptedStays DEF RestTypes, Calls, InFlight
<1> QED
  BY <1>1, <1>2, <1>3, <1>4, CallKeeps

\* A request that ends without a 202, its records acknowledged or not, or an
\* answer that never reaches the caller.
LEMMA FailedKeeps ==
    ASSUME IngestInv, NEW c \in Callers, NEW l \in {"503", "failed"},
           call' = [call EXCEPT ![c] = l], todo' = [todo EXCEPT ![c] = {}],
           UNCHANGED <<log, next, size, minted, accepted, phase>>,
           faults' = faults \/ Fault
    PROVE  IngestInv'
<1>1. /\ log' = log /\ next' = next /\ size' = size /\ minted' = minted
      /\ accepted' = accepted /\ phase' = phase
  OBVIOUS
<1>2. /\ next' = [next EXCEPT ![c] = next[c]] /\ size' = [size EXCEPT ![c] = size[c]]
      /\ next[c] \in Nat /\ size[c] \in Nat
      /\ next[c] + size[c] <= Len(Reports[c]) + 1 /\ RestTypes
  BY <1>1, Itself
<1>3. /\ next[c] <= next[c] /\ next[c] + size[c] <= next[c] + size[c]
      /\ {} \in SUBSET todo[c]
  BY <1>2
<1>4. faults' \in 0 .. MaxFaults
  BY <1>2, IngestAssumption DEF RestTypes, Fault
<1>5. RestTypes' /\ l \in Calls /\ (Logged' = Logged => AcceptedInv')
  BY <1>1, <1>2, <1>4, AcceptedStays DEF RestTypes, Calls, InFlight
<1>6. l # "produce" /\ l # "idle" /\ l # "202"
  OBVIOUS
<1> QED
  BY <1>1, <1>2, <1>3, <1>5, <1>6, CallKeeps

LEMMA ReadAnswerKeeps ==
    ASSUME IngestInv, NEW c \in Callers, ReadAnswer(c)
    PROVE  IngestInv'
<1>1. CASE call[c] = "503"
  <2>1. /\ call' = [call EXCEPT ![c] = "failed"]
        /\ UNCHANGED <<log, next, size, minted, accepted, phase>> /\ faults' = faults
        /\ todo' = todo
    BY <1>1 DEF ReadAnswer
  <2>2. todo' = [todo EXCEPT ![c] = {}]
    BY <1>1, <2>1, Itself
  <2> QED
    BY <2>1, <2>2, FailedKeeps
<1>2. CASE call[c] = "202"
  <2>1. /\ call' = [call EXCEPT ![c] = "idle"]
        /\ next' = [next EXCEPT ![c] = next[c] + size[c]] /\ size' = [size EXCEPT ![c] = 0]
        /\ log' = log /\ todo' = todo /\ minted' = minted
        /\ phase' = phase /\ faults' = faults
        /\ accepted' = accepted \cup
              {<<c, n>> : n \in {i \in Batch(c) : Valid(Reports[c][i])}}
    BY <1>2 DEF ReadAnswer, MoveOn
  <2>2. /\ todo' = [todo EXCEPT ![c] = todo[c]] /\ todo[c] = {}
        /\ next[c] + size[c] \in Nat /\ RestTypes
        /\ next[c] <= next[c] + size[c] /\ next[c] + size[c] <= next[c] + size[c] + 0
        /\ next[c] + size[c] + 0 <= Len(Reports[c]) + 1
    BY <1>2, <2>1, Itself
  <2>3. \A n \in Batch(c) : n \in Nat
    BY BatchIs DEF IngestInv
  <2>4. RestTypes' /\ "idle" \in Calls
    BY <2>1, <2>2, <2>3 DEF RestTypes, Calls
  <2>5. \A n \in Batch(c) : Valid(Reports[c][n]) => HasLogged(c, n)
    BY <1>2, <2>2 DEF IngestInv, BatchInv, Produces
  <2>6. ASSUME Logged' = Logged PROVE AcceptedInv'
    <3> SUFFICES ASSUME NEW a \in accepted' PROVE HasLogged(a[1], a[2])
      BY <2>6 DEF AcceptedInv, HasLogged
    <3>1. CASE a \in accepted
      BY <3>1 DEF IngestInv, AcceptedInv
    <3>2. CASE a \notin accepted
      <4>1. PICK n \in Batch(c) : Valid(Reports[c][n]) /\ a = <<c, n>>
        BY <2>1, <3>2
      <4> QED
        BY <2>5, <4>1
    <3> QED
      BY <3>1, <3>2
  <2> QED
    BY <2>1, <2>2, <2>4, <2>6, CallKeeps
<1> QED
  BY <1>1, <1>2 DEF ReadAnswer

\* SIGTERM, and a step that changes nothing.
LEMMA DrainKeeps ==
    ASSUME IngestInv, phase' \in {"up", "draining"},
           UNCHANGED <<log, next, size, call, todo, minted, accepted, faults>>
    PROVE  IngestInv'
<1>1. /\ log' = log /\ next' = next /\ size' = size /\ call' = call /\ todo' = todo
      /\ minted' = minted /\ accepted' = accepted /\ faults' = faults
  OBVIOUS
<1>2. IngestTypeOK'
  BY <1>1 DEF IngestInv, IngestTypeOK
<1>3. RecordsInv' /\ RunInv' /\ OrderInv' /\ AcceptedInv'
  BY <1>1 DEF IngestInv, RecordsInv, Copies, Faithful, Origin, Logged, SameReport,
              Valid, RunInv, OrderInv, Before, AcceptedInv, HasLogged
<1>4. \A c \in Callers : BatchInv(c)'
  BY <1>1 DEF IngestInv, BatchInv, Batch, Valid, Produces, HasLogged, Logged
<1> QED
  BY <1>2, <1>3, <1>4 DEF IngestInv

LEMMA RestartKeeps ==
    ASSUME IngestInv, Restart
    PROVE  IngestInv'
<1>1. /\ log' = log /\ next' = next /\ size' = size /\ minted' = minted
      /\ accepted' = accepted /\ phase' = "up"
      /\ call' = [c \in Callers |-> IF call[c] \in InFlight THEN "failed" ELSE call[c]]
      /\ todo' = [c \in Callers |-> {}]
      /\ faults' = faults \/ Fault
  BY DEF Restart
<1>2. /\ IngestTypeOK /\ next \in [Callers -> Nat] /\ size \in [Callers -> Nat]
      /\ call \in [Callers -> Calls]
      /\ \A c \in Callers : next[c] <= next[c] /\ next[c] + size[c] <= next[c] + size[c]
  BY DEF IngestInv, IngestTypeOK, Calls
<1>3. /\ todo' \in [Callers -> SUBSET Record] /\ call' \in [Callers -> Calls]
      /\ \A c \in Callers : todo'[c] = {}
  BY <1>1, <1>2 DEF Calls
<1>4. RecordsInv' /\ RunInv' /\ OrderInv' /\ Logged' = Logged
  BY <1>1, <1>2, <1>3, LogStays
<1>5. faults' \in 0 .. MaxFaults
  BY <1>1, <1>2, IngestAssumption DEF IngestTypeOK, Fault
<1>6. IngestTypeOK'
  BY <1>1, <1>2, <1>3, <1>5 DEF IngestTypeOK, Calls
<1>7. ASSUME NEW c \in Callers PROVE BatchInv(c)'
  <2>1. /\ call'[c] \notin InFlight /\ (call'[c] = "idle" => call[c] = "idle")
    BY <1>1 DEF InFlight
  <2> QED
    BY <1>1, <2>1 DEF IngestInv, BatchInv, InFlight
<1> QED
  BY <1>1, <1>4, <1>6, <1>7, AcceptedStays DEF IngestInv

\* The records a batch becomes carry their reports, under the supplied ids or
\* under ids that nobody has had before.
LEMMA RecordsAre ==
    ASSUME IngestTypeOK, NEW c \in Callers, NEW r \in Records(c)
    PROVE  /\ r \in Record /\ r.caller = c
           /\ r.nr \in Batch(c) /\ r.nr \in Nat /\ r.nr \in DOMAIN Reports[c]
           /\ next[c] <= r.nr /\ r.nr < next[c] + size[c]
           /\ Valid(Reports[c][r.nr]) /\ r.key = Reports[c][r.nr].vehicle
           /\ Reports[c][r.nr].id # NoId =>
                 r.id = Reports[c][r.nr].id /\ r.id \in Ids
           /\ Reports[c][r.nr].id = NoId =>
                 /\ r.id \in Nat /\ minted < r.id /\ r.id <= minted + size[c]
                 /\ r.id = minted + (r.nr - next[c] + 1)
<1>1. PICK n \in Batch(c) :
         /\ Valid(Reports[c][n])
         /\ r = [id |-> Identity(Reports[c][n], n - next[c] + 1),
                 key |-> KeyOf(Reports[c][n]), caller |-> c, nr |-> n]
  BY DEF Records
<1>2. /\ n \in Nat /\ n \in DOMAIN Reports[c] /\ next[c] <= n /\ n < next[c] + size[c]
      /\ n - next[c] + 1 \in 1 .. size[c]
      /\ size[c] \in Nat /\ minted \in Nat
  BY BatchIs DEF IngestTypeOK
<1>3. /\ Reports[c][n].vehicle \in Keys
      /\ Reports[c][n].id # NoId => Reports[c][n].id \in Ids
  BY <1>2, ReportsAre
<1>4. /\ r.caller = c /\ r.nr = n /\ r.key = Reports[c][n].vehicle
      /\ r.id = IF Reports[c][n].id = NoId THEN minted + (n - next[c] + 1)
                                           ELSE Reports[c][n].id
  BY <1>1 DEF Identity, KeyOf
<1>5. Reports[c][n].id = NoId =>
         /\ r.id \in Nat /\ minted < r.id /\ r.id <= minted + size[c]
         /\ r.id = minted + (n - next[c] + 1)
  BY <1>2, <1>4
<1>6. r \in Record
  <2>1. r.id \in Ids \cup Nat
    BY <1>3, <1>4, <1>5
  <2> QED
    BY <1>1, <1>2, <1>3, <1>4, <2>1 DEF Record
<1> QED
  BY <1>1, <1>2, <1>3, <1>4, <1>5, <1>6

\* No id of the new records belongs to another report's record.
LEMMA NewIds ==
    ASSUME IngestInv, NEW c \in Callers, NEW r \in Records(c),
           NEW s \in Copies \cup Records(c), r.id = s.id
    PROVE  SameReport(r, s)
<1>1. IngestTypeOK /\ minted \in Nat
  BY DEF IngestInv, IngestTypeOK
<1>2. /\ r.caller = c /\ r.nr \in DOMAIN Reports[c] /\ r.nr \in Nat
      /\ Reports[c][r.nr].id # NoId => r.id = Reports[c][r.nr].id /\ r.id \in Ids
      /\ Reports[c][r.nr].id = NoId =>
            /\ r.id \in Nat /\ minted < r.id
            /\ r.id = minted + (r.nr - next[c] + 1)
  BY <1>1, RecordsAre
<1>3. next[c] \in Nat
  BY <1>1 DEF IngestTypeOK
<1>4. CASE s \in Records(c)
  <2>1. /\ s.caller = c /\ s.nr \in DOMAIN Reports[c] /\ s.nr \in Nat
        /\ Reports[c][s.nr].id # NoId => s.id = Reports[c][s.nr].id /\ s.id \in Ids
        /\ Reports[c][s.nr].id = NoId =>
              /\ s.id \in Nat /\ minted < s.id
              /\ s.id = minted + (s.nr - next[c] + 1)
    BY <1>1, <1>4, RecordsAre
  <2>2. CASE Reports[c][r.nr].id = NoId
    <3>1. Reports[c][s.nr].id = NoId
      BY <1>2, <2>1, <2>2, IngestAssumption
    <3>2. r.nr = s.nr
      BY <1>1, <1>2, <1>3, <2>1, <2>2, <3>1
    <3> QED
      BY <1>2, <2>1, <3>2 DEF SameReport
  <2>3. CASE Reports[c][r.nr].id # NoId
    <3>1. Reports[c][s.nr].id # NoId
      BY <1>2, <2>1, <2>3, IngestAssumption
    <3>2. r.nr = s.nr
      BY <1>2, <2>1, <2>3, <3>1, IngestAssumption
    <3> QED
      BY <1>2, <2>1, <3>2 DEF SameReport
  <2> QED
    BY <2>2, <2>3
<1>5. CASE s \in Copies
  <2>1. /\ s.caller \in Callers /\ s.nr \in DOMAIN Reports[s.caller]
        /\ Reports[s.caller][s.nr].id # NoId => s.id = Reports[s.caller][s.nr].id
        /\ Reports[s.caller][s.nr].id = NoId => s.id \in Nat /\ s.id <= minted
    BY <1>1, <1>5, CopiesAre DEF IngestInv, RecordsInv, Faithful, Origin
  <2>2. Reports[s.caller][s.nr].id # NoId => s.id \in Ids
    BY <2>1, ReportsAre
  <2>3. CASE Reports[c][r.nr].id = NoId
    <3>1. Reports[s.caller][s.nr].id = NoId
      BY <1>2, <2>2, <2>3, IngestAssumption
    <3> QED
      BY <1>1, <1>2, <2>1, <2>3, <3>1
  <2>4. CASE Reports[c][r.nr].id # NoId
    <3>1. Reports[s.caller][s.nr].id # NoId
      BY <1>2, <2>1, <2>4, IngestAssumption
    <3>2. s.caller = c /\ s.nr = r.nr
      BY <1>2, <2>1, <2>4, <3>1, IngestAssumption
    <3> QED
      BY <1>2, <3>2 DEF SameReport
  <2> QED
    BY <2>3, <2>4
<1> QED
  BY <1>4, <1>5

LEMMA HandleSubmitKeeps ==
    ASSUME IngestInv, NEW c \in Callers, HandleSubmit(c)
    PROVE  IngestInv'
<1>1. /\ call[c] = "posted" /\ log' = log /\ next' = next /\ size' = size
      /\ accepted' = accepted /\ phase' = phase /\ faults' = faults
  BY DEF HandleSubmit
<1>2. CASE TooLarge(c)
  <2>1. /\ call' = [call EXCEPT ![c] = "failed"] /\ minted' = minted
        /\ todo' = [todo EXCEPT ![c] = {}]
    BY <1>1, <1>2, Itself DEF HandleSubmit
  <2> QED
    BY <1>1, <2>1, FailedKeeps
<1>3. CASE ~TooLarge(c)
  <2>1. /\ todo' = [todo EXCEPT ![c] = Records(c)] /\ minted' = minted + size[c]
        /\ call' = [call EXCEPT ![c] = "produce"]
    BY <1>3 DEF HandleSubmit
  <2>2. /\ IngestTypeOK /\ size[c] \in Nat /\ minted \in Nat
        /\ todo[c] = {} /\ size[c] <= MaxBatchSize
        /\ call \in [Callers -> Calls] /\ todo \in [Callers -> SUBSET Record]
    <3>1. /\ IngestTypeOK /\ size[c] \in Nat /\ minted \in Nat
          /\ todo[c] # {} => call[c] = "produce"
          /\ call \in [Callers -> Calls] /\ todo \in [Callers -> SUBSET Record]
      BY DEF IngestInv, IngestTypeOK, Calls
    <3>2. size[c] <= MaxBatchSize
      BY <1>3, <3>1, IngestAssumption DEF TooLarge
    <3> QED
      BY <1>1, <3>1, <3>2
  <2>3. Records(c) \in SUBSET Record
    BY <2>2, RecordsAre
  <2>4. /\ call'[c] = "produce" /\ todo'[c] = Records(c)
        /\ \A u \in Callers \ {c} : call'[u] = call[u] /\ todo'[u] = todo[u]
        /\ call' \in [Callers -> Calls] /\ todo' \in [Callers -> SUBSET Record]
        /\ minted' \in Nat /\ minted <= minted'
    BY <2>1, <2>2, <2>3 DEF Calls, InFlight
  <2>5. IngestTypeOK'
    <3>1. \A u \in Callers :
             /\ 1 <= next[u] /\ next[u] + size[u] <= Len(Reports[u]) + 1
             /\ todo'[u] # {} => call'[u] = "produce" /\ size[u] <= MaxBatchSize
      BY <2>2, <2>4 DEF IngestTypeOK
    <3> QED
      BY <1>1, <2>2, <2>4, <3>1 DEF IngestTypeOK, Calls
  <2>6. Logged' = Logged /\ Copies' \subseteq Copies \cup Records(c)
    BY <1>1, <2>4 DEF Logged, Copies
  <2>7. RecordsInv'
    <3>1. ASSUME NEW r \in Copies' PROVE Faithful(r)'
      <4>1. CASE r \in Copies
        <5>1. Faithful(r)
          BY <4>1 DEF IngestInv, RecordsInv
        <5> QED
          BY <1>1, <2>2, <2>4, <5>1 DEF Faithful, Origin, Valid
      <4>2. CASE r \in Records(c)
        BY <1>1, <2>1, <2>2, <4>2, RecordsAre DEF Faithful, Origin, Valid
      <4> QED
        BY <2>6, <4>1, <4>2
    <3>2. ASSUME NEW r \in Copies', NEW s \in Copies', r.id = s.id
          PROVE  SameReport(r, s)
      <4>1. CASE r \in Records(c)
        BY <2>6, <3>2, <4>1, NewIds
      <4>2. CASE s \in Records(c)
        BY <2>6, <3>2, <4>2, NewIds DEF SameReport
      <4>3. CASE r \in Copies /\ s \in Copies
        BY <3>2, <4>3 DEF IngestInv, RecordsInv
      <4> QED
        BY <2>6, <4>1, <4>2, <4>3
    <3>3. \A u \in Callers : \A r \in todo'[u] : r.caller = u /\ next'[u] <= r.nr
      BY <1>1, <2>2, <2>4, RecordsAre DEF IngestInv, RecordsInv
    <3> QED
      BY <3>1, <3>2, <3>3 DEF RecordsInv, SameReport
  <2>8. RunInv' /\ OrderInv' /\ AcceptedInv'
    BY <1>1, <2>6 DEF IngestInv, RunInv, OrderInv, AcceptedInv, Before, HasLogged, Valid
  <2>9. ASSUME NEW u \in Callers PROVE BatchInv(u)'
    <3>1. CASE u = c
      <4> SUFFICES ASSUME NEW n \in Batch(c), Valid(Reports[c][n])
                   PROVE  \E r \in todo'[c] : r.nr = n
        BY <1>1, <2>4, <3>1 DEF BatchInv, Batch, Produces, Valid
      <4> DEFINE r == [id |-> Identity(Reports[c][n], n - next[c] + 1),
                       key |-> KeyOf(Reports[c][n]), caller |-> c, nr |-> n]
      <4>1. r \in Records(c) /\ r.nr = n
        BY DEF Records
      <4> QED
        BY <2>4, <4>1
    <3>2. CASE u # c
      <4>1. call'[u] = call[u] /\ todo'[u] = todo[u] /\ BatchInv(u)
        BY <2>4, <3>2 DEF IngestInv
      <4> QED
        BY <1>1, <2>6, <4>1 DEF BatchInv, Batch, Produces, HasLogged, Valid
    <3> QED
      BY <3>1, <3>2
  <2> QED
    BY <2>5, <2>7, <2>8, <2>9 DEF IngestInv
<1> QED
  BY <1>2, <1>3

LEMMA DeliverKeeps ==
    ASSUME IngestInv, NEW c \in Callers, Deliver(c)
    PROVE  IngestInv'
<1>1. /\ call[c] = "produce" /\ next' = next /\ size' = size /\ call' = call
      /\ minted' = minted /\ accepted' = accepted /\ phase' = phase /\ faults' = faults
  BY DEF Deliver
<1>2. PICK r \in todo[c] :
         /\ \A q \in todo[c] : q.nr < r.nr => PartitionOf[q.key] # PartitionOf[r.key]
         /\ log' = [log EXCEPT ![PartitionOf[r.key]] = Append(@, r)]
         /\ todo' = [todo EXCEPT ![c] = @ \ {r}]
  BY DEF Deliver
<1>3. /\ IngestTypeOK /\ log \in [Partitions -> Seq(Record)]
      /\ todo \in [Callers -> SUBSET Record]
      /\ r \in Record /\ r.key \in Keys /\ r \in Copies
  <2>1. /\ IngestTypeOK /\ log \in [Partitions -> Seq(Record)]
        /\ todo \in [Callers -> SUBSET Record]
    BY DEF IngestInv, IngestTypeOK
  <2>2. r \in Record /\ r \in Copies
    BY <2>1 DEF Copies
  <2> QED
    BY <2>1, <2>2 DEF Record
<1>4. PICK p \in Partitions : p = PartitionOf[r.key]
  BY <1>3, IngestAssumption
<1>b. PICK last : last = Len(log[p]) + 1
  OBVIOUS
<1>5. /\ r.caller = c /\ next[c] <= r.nr /\ r.nr < next[c] + size[c]
      /\ r.nr \in Nat /\ r.nr \in DOMAIN Reports[c]
      /\ Valid(Reports[c][r.nr]) /\ r.key = Reports[c][r.nr].vehicle
  BY <1>3, CopiesAre DEF IngestInv, RecordsInv, Faithful, Origin
<1>6. /\ log'[p] = Append(log[p], r) /\ log' \in [Partitions -> Seq(Record)]
      /\ \A q \in Partitions \ {p} : log'[q] = log[q]
  <2>1. log' = [log EXCEPT ![p] = Append(@, r)]
    BY <1>2, <1>4
  <2>2. log[p] \in Seq(Record) /\ Append(log[p], r) \in Seq(Record)
    BY <1>3, <1>4, AppendProperties
  <2> QED
    BY <1>3, <1>4, <2>1, <2>2
<1>7. /\ Len(log[p]) \in Nat /\ DOMAIN log[p] = 1 .. Len(log[p])
      /\ DOMAIN log'[p] = DOMAIN log[p] \cup {last} /\ last \notin DOMAIN log[p]
      /\ log'[p][last] = r /\ \A i \in DOMAIN log[p] : log'[p][i] = log[p][i] /\ i < last
  <2>1. log[p] \in Seq(Record)
    BY <1>3, <1>4
  <2>2. /\ Len(log[p]) \in Nat /\ DOMAIN log[p] = 1 .. Len(log[p])
        /\ Append(log[p], r) \in Seq(Record)
        /\ Len(Append(log[p], r)) = Len(log[p]) + 1
        /\ \A i \in 1 .. Len(log[p]) : Append(log[p], r)[i] = log[p][i]
        /\ Append(log[p], r)[Len(log[p]) + 1] = r
    BY <1>3, <2>1, AppendProperties, LenProperties
  <2>3. DOMAIN Append(log[p], r) = 1 .. (Len(log[p]) + 1)
    BY <2>2, LenProperties
  <2> QED
    BY <1>6, <1>b, <2>2, <2>3
<1>8. /\ todo'[c] = todo[c] \ {r} /\ \A u \in Callers \ {c} : todo'[u] = todo[u]
      /\ todo' \in [Callers -> SUBSET Record]
  BY <1>2, <1>3
<1>9. /\ \A q \in Partitions : \A i \in DOMAIN log[q] :
            i \in DOMAIN log'[q] /\ log'[q][i] = log[q][i]
      /\ \A q \in Partitions : \A i \in DOMAIN log'[q] \ DOMAIN log[q] :
            q = p /\ i = last
  BY <1>6, <1>7
<1>10. Logged' = Logged \cup {r} /\ Copies' \subseteq Copies
  <2>1. r \in Logged'
    BY <1>4, <1>7 DEF Logged
  <2>2. Logged \subseteq Logged'
    BY <1>9 DEF Logged
  <2>3. Logged' \subseteq Logged \cup {r}
    <3> SUFFICES ASSUME NEW q \in Partitions, NEW i \in DOMAIN log'[q]
                 PROVE  log'[q][i] \in Logged \cup {r}
      BY DEF Logged
    <3> QED
      BY <1>7, <1>9 DEF Logged
  <2>4. UNION {todo'[u] : u \in Callers} \subseteq UNION {todo[u] : u \in Callers}
    BY <1>8
  <2> QED
    BY <1>3, <2>1, <2>2, <2>3, <2>4 DEF Copies
<1>11. IngestTypeOK'
  <2>1. \A u \in Callers : todo'[u] # {} => todo[u] # {}
    BY <1>8
  <2> QED
    BY <1>1, <1>3, <1>6, <1>8, <2>1 DEF IngestTypeOK
<1>12. RecordsInv'
  <2>1. \A x \in Copies' : Faithful(x)'
    BY <1>1, <1>10 DEF IngestInv, RecordsInv, Faithful, Origin, Valid
  <2>2. \A x, y \in Copies' : x.id = y.id => SameReport(x, y)
    BY <1>10 DEF IngestInv, RecordsInv
  <2>3. \A u \in Callers : \A x \in todo'[u] : x.caller = u /\ next'[u] <= x.nr
    BY <1>1, <1>8 DEF IngestInv, RecordsInv
  <2> QED
    BY <2>1, <2>2, <2>3 DEF RecordsInv, SameReport
<1>13. ASSUME NEW u \in Callers PROVE BatchInv(u)'
  <2>1. BatchInv(u)
    BY DEF IngestInv
  <2>2. \A n : HasLogged(u, n) => HasLogged(u, n)'
    BY <1>10 DEF HasLogged
  <2>3. \A n : Produces(u, n) => Produces(u, n)' \/ HasLogged(u, n)'
    BY <1>5, <1>8, <1>10 DEF Produces, HasLogged
  <2> QED
    BY <1>1, <2>1, <2>2, <2>3 DEF BatchInv, Batch, Valid
<1>14. \A q \in Partitions : \A j \in DOMAIN log[q] : \A u, n :
          Before(q, j, u, n) => Before(q, j, u, n)'
  BY <1>9 DEF Before
\* The record is appended behind whatever the batch has of its vehicle.
<1>15. ASSUME NEW n \in DOMAIN Reports[c], next[c] <= n, n < r.nr,
              Valid(Reports[c][n]), Reports[c][n].vehicle = r.key
       PROVE  Before(p, last, c, n)'
  <2>1. n \in Batch(c)
    <3>1. n \in Nat /\ next[c] \in Nat /\ size[c] \in Nat
      BY <1>3, ReportsAre DEF IngestTypeOK
    <3> QED
      BY <1>5, <1>15, <3>1 DEF Batch
  <2>2. ~Produces(c, n)
    <3> SUFFICES ASSUME NEW q \in todo[c], q.nr = n PROVE FALSE
      BY DEF Produces
    <3>1. q \in Copies /\ q.caller = c
      BY DEF Copies, IngestInv, RecordsInv
    <3>2. q.key = r.key
      BY <1>15, <3>1 DEF IngestInv, RecordsInv, Faithful, Origin
    <3> QED
      BY <1>2, <1>15, <3>2
  <2>3. HasLogged(c, n)
    BY <1>1, <1>15, <2>1, <2>2 DEF IngestInv, BatchInv
  <2>a. PICK q \in Partitions : \E i \in DOMAIN log[q] :
           log[q][i].caller = c /\ log[q][i].nr = n
    BY <2>3 DEF HasLogged, Logged
  <2>4. PICK i \in DOMAIN log[q] : log[q][i].caller = c /\ log[q][i].nr = n
    BY <2>a
  <2>5. log[q][i] \in Copies
    BY DEF Copies, Logged
  <2>6. log[q][i].key = r.key
    BY <1>15, <2>4, <2>5 DEF IngestInv, RecordsInv, Faithful, Origin
  <2>7. q = p
    BY <1>4, <2>6 DEF IngestInv, RunInv
  <2> QED
    BY <1>7, <1>9, <2>4, <2>7 DEF Before
<1>16. RunInv'
  <2> SUFFICES ASSUME NEW q \in Partitions, NEW j \in DOMAIN log'[q], NEW s,
                      s = log'[q][j]
               PROVE  /\ PartitionOf[s.key] = q
                      /\ \A n \in DOMAIN Reports[s.caller] :
                            /\ next[s.caller] <= n /\ n < s.nr
                            /\ Valid(Reports[s.caller][n])
                            /\ Reports[s.caller][n].vehicle = s.key
                            => Before(q, j, s.caller, n)'
    BY <1>1 DEF RunInv, Before, Valid
  <2>1. CASE j \in DOMAIN log[q]
    <3>1. s = log[q][j]
      BY <1>9, <2>1
    <3> QED
      BY <1>14, <2>1, <3>1 DEF IngestInv, RunInv
  <2>2. CASE j \notin DOMAIN log[q]
    <3>1. q = p /\ j = last /\ s = r
      BY <1>7, <1>9, <2>2
    <3> QED
      BY <1>4, <1>5, <1>15, <3>1
  <2> QED
    BY <2>1, <2>2
<1>17. OrderInv'
  <2> SUFFICES ASSUME NEW q \in Partitions, NEW i \in DOMAIN log'[q],
                      NEW j \in DOMAIN log'[q], NEW x, NEW s,
                      x = log'[q][i], s = log'[q][j],
                      x.caller = s.caller, x.key = s.key, x.nr < s.nr
               PROVE  Before(q, j, x.caller, x.nr)'
    BY DEF OrderInv, Before
  <2>1. CASE i \in DOMAIN log[q] /\ j \in DOMAIN log[q]
    <3>1. x = log[q][i] /\ s = log[q][j]
      BY <1>9, <2>1
    <3> QED
      BY <1>14, <2>1, <3>1 DEF IngestInv, OrderInv
  <2>2. CASE i \in DOMAIN log[q] /\ j \notin DOMAIN log[q]
    <3>1. q = p /\ j = last /\ i < j
      BY <1>7, <1>9, <2>2
    <3> QED
      BY <3>1 DEF Before
  <2>3. CASE i \notin DOMAIN log[q] /\ j \in DOMAIN log[q]
    <3>1. x = r /\ s = log[q][j]
      BY <1>7, <1>9, <2>3
    <3>2. Before(q, j, c, r.nr)
      BY <1>5, <2>3, <3>1 DEF IngestInv, RunInv
    <3> QED
      BY <1>5, <1>14, <2>3, <3>1, <3>2
  <2>4. CASE i \notin DOMAIN log[q] /\ j \notin DOMAIN log[q]
    <3>1. x = r /\ s = r
      BY <1>7, <1>9, <2>4
    <3> QED
      BY <1>5, <3>1
  <2> QED
    BY <2>1, <2>2, <2>3, <2>4
<1>18. AcceptedInv'
  BY <1>1, <1>10, AcceptedStays
<1> QED
  BY <1>11, <1>12, <1>13, <1>16, <1>17, <1>18 DEF IngestInv
-----------------------------------------------------------------------------
LEMMA IngestStarts == IngestInit => IngestInv
<1> SUFFICES ASSUME IngestInit PROVE IngestInv
  OBVIOUS
<1>1. /\ log = [p \in Partitions |-> <<>>] /\ next = [c \in Callers |-> 1]
      /\ size = [c \in Callers |-> 0] /\ call = [c \in Callers |-> "idle"]
      /\ todo = [c \in Callers |-> {}] /\ minted = 0 /\ accepted = {}
      /\ phase = "up" /\ faults = 0
  BY DEF IngestInit
<1>2. <<>> \in Seq(Record) /\ DOMAIN <<>> = {}
  BY EmptySeq
<1>3. IngestTypeOK
  <2>1. \A c \in Callers : 1 + 0 <= Len(Reports[c]) + 1
    <3> SUFFICES ASSUME NEW c \in Callers PROVE 1 + 0 <= Len(Reports[c]) + 1
      OBVIOUS
    <3>1. Len(Reports[c]) \in Nat
      BY ReportsAre
    <3> QED
      BY <3>1
  <2>2. 0 \in 0 .. MaxFaults
    BY IngestAssumption
  <2> QED
    BY <1>1, <1>2, <2>1, <2>2 DEF IngestTypeOK
<1>4. Logged = {} /\ Copies = {}
  BY <1>1, <1>2 DEF Logged, Copies
<1>5. RecordsInv /\ RunInv /\ OrderInv /\ AcceptedInv
  BY <1>1, <1>2, <1>4 DEF RecordsInv, RunInv, OrderInv, AcceptedInv
<1>6. \A c \in Callers : BatchInv(c)
  BY <1>1 DEF BatchInv
<1> QED
  BY <1>3, <1>5, <1>6 DEF IngestInv

LEMMA IngestStepKeeps ==
    ASSUME IngestInv, IngestNext
    PROVE  IngestInv'
<1>1. ASSUME NEW c \in Callers, Request(c) PROVE IngestInv'
  <2>1. CASE Unavailable(c)
    BY <2>1, FailedKeeps DEF Unavailable
  <2>2. CASE AnswerLost(c)
    BY <2>2, FailedKeeps DEF AnswerLost
  <2> QED
    BY <1>1, <2>1, <2>2, PostKeeps, PostAgainKeeps, GiveUpKeeps, HandleSubmitKeeps,
       DeliverKeeps, ProducedKeeps, ReadAnswerKeeps
    DEF Request
<1>2. CASE Drain
  BY <1>2, DrainKeeps DEF Drain
<1>3. CASE Restart
  BY <1>3, RestartKeeps
<1> QED
  BY <1>1, <1>2, <1>3 DEF IngestNext

LEMMA IngestInvariant == IngestSpec => []IngestInv
<1>1. ASSUME IngestInv, UNCHANGED ingestVars PROVE IngestInv'
  <2>1. phase' \in {"up", "draining"}
    BY <1>1 DEF IngestInv, IngestTypeOK, ingestVars
  <2> QED
    BY <1>1, <2>1, DrainKeeps DEF ingestVars
<1>2. IngestInv /\ [IngestNext]_ingestVars => IngestInv'
  BY <1>1, IngestStepKeeps
<1> QED
  BY <1>2, IngestStarts, PTL DEF IngestSpec

LEMMA PlacesAre ==
    ASSUME IngestInv, NEW x \in Places
    PROVE  /\ x[1] \in Partitions /\ x[2] \in DOMAIN log[x[1]]
           /\ RecordAt(x) = log[x[1]][x[2]] /\ RecordAt(x) \in Copies
           /\ RecordAt(x).caller \in Callers
           /\ RecordAt(x).key = Origin(RecordAt(x)).vehicle
           /\ PartitionOf[RecordAt(x).key] = x[1]
<1>a. PICK p \in Partitions : \E i \in DOMAIN log[p] : x = <<p, i>>
  BY DEF Places
<1>1. PICK i \in DOMAIN log[p] : x = <<p, i>>
  BY <1>a
<1>2. RecordAt(x) = log[p][i] /\ RecordAt(x) \in Copies
  BY <1>1 DEF RecordAt, Copies, Logged
<1> QED
  BY <1>1, <1>2, CopiesAre DEF IngestInv, RecordsInv, Faithful, RunInv

\* For any callers, reports and partitioner, and through any number of faults
\* and retries: what a 202 accepted is in the log (handleSubmit, Produce),
\* copies of a report are recognisable by their id and no two reports share
\* one (event.Accept), and a vehicle's reports are on one partition with every
\* report's first copy in its place (the record's key).
THEOREM IngestSafety ==
    IngestSpec => [](/\ IngestTypeOK
                     /\ AcceptedIsLogged
                     /\ RetriesAreDuplicates
                     /\ VehicleInOrder)
<1>1. IngestInv => IngestTypeOK
  BY DEF IngestInv
<1>2. IngestInv => AcceptedIsLogged
  <2> SUFFICES ASSUME IngestInv, NEW a \in accepted
               PROVE  \E x \in Places : <<RecordAt(x).caller, RecordAt(x).nr>> = a
    BY DEF AcceptedIsLogged
  <2>1. a \in Callers \X Nat /\ HasLogged(a[1], a[2])
    BY DEF IngestInv, IngestTypeOK, AcceptedInv
  <2>a. PICK p \in Partitions : \E i \in DOMAIN log[p] :
           log[p][i].caller = a[1] /\ log[p][i].nr = a[2]
    BY <2>1 DEF HasLogged, Logged
  <2>2. PICK i \in DOMAIN log[p] : log[p][i].caller = a[1] /\ log[p][i].nr = a[2]
    BY <2>a
  <2>3. <<p, i>> \in Places /\ RecordAt(<<p, i>>) = log[p][i]
    BY DEF Places, RecordAt
  <2> QED
    BY <2>1, <2>2, <2>3
<1>3. IngestInv => RetriesAreDuplicates
  <2> SUFFICES ASSUME IngestInv, NEW x \in Places, NEW y \in Places
               PROVE  /\ RecordAt(x).id = RecordAt(y).id
                           => SameReport(RecordAt(x), RecordAt(y))
                      /\ /\ SameReport(RecordAt(x), RecordAt(y))
                         /\ Origin(RecordAt(x)).id # NoId
                         => RecordAt(x).id = RecordAt(y).id
    BY DEF RetriesAreDuplicates, Origin
  <2>1. RecordAt(x) \in Copies /\ RecordAt(y) \in Copies
    BY PlacesAre
  <2> QED
    BY <2>1 DEF IngestInv, RecordsInv, Faithful, SameReport, Origin
<1>4. IngestInv => VehicleInOrder
  <2> SUFFICES ASSUME IngestInv, NEW x \in Places, NEW y \in Places,
                      RecordAt(x).caller = RecordAt(y).caller,
                      Origin(RecordAt(x)).vehicle = Origin(RecordAt(y)).vehicle,
                      RecordAt(x).nr < RecordAt(y).nr
               PROVE  /\ x[1] = y[1]
                      /\ \E z \in Places :
                            /\ z[1] = y[1] /\ z[2] < y[2]
                            /\ SameReport(RecordAt(z), RecordAt(x))
    BY DEF VehicleInOrder, Origin
  <2>1. /\ x[1] \in Partitions /\ x[2] \in DOMAIN log[x[1]]
        /\ RecordAt(x) = log[x[1]][x[2]] /\ RecordAt(x).key = Origin(RecordAt(x)).vehicle
        /\ PartitionOf[RecordAt(x).key] = x[1]
        /\ y[1] \in Partitions /\ y[2] \in DOMAIN log[y[1]]
        /\ RecordAt(y) = log[y[1]][y[2]] /\ RecordAt(y).key = Origin(RecordAt(y)).vehicle
        /\ PartitionOf[RecordAt(y).key] = y[1]
    BY PlacesAre
  <2>2. x[1] = y[1]
    BY <2>1
  <2>3. Before(y[1], y[2], RecordAt(x).caller, RecordAt(x).nr)
    BY <2>1, <2>2 DEF IngestInv, OrderInv
  <2>4. PICK i \in DOMAIN log[y[1]] :
           /\ i < y[2] /\ log[y[1]][i].caller = RecordAt(x).caller
           /\ log[y[1]][i].nr = RecordAt(x).nr
    BY <2>3 DEF Before
  <2>5. <<y[1], i>> \in Places /\ RecordAt(<<y[1], i>>) = log[y[1]][i]
    BY <2>1 DEF Places, RecordAt
  <2> QED
    BY <2>2, <2>4, <2>5 DEF SameReport
<1> QED
  BY <1>1, <1>2, <1>3, <1>4, IngestInvariant, PTL
=============================================================================
