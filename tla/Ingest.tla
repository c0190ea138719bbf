------------------------------- MODULE Ingest -------------------------------
(***************************************************************************)
(* The ingest API (internal/ingest, event.Accept, cmd/ingest) and those    *)
(* who post to it: batches of vehicle reports are judged report by report, *)
(* the accepted ones are produced to the raw topic, and the answer tells   *)
(* the caller whether all of them are in the log.  A caller that is told   *)
(* otherwise, or nothing, posts the whole batch again or gives it up, as   *)
(* cmd/simulate does.  A caller waits for an answer before it goes on.     *)
(*                                                                         *)
(* The broker client (franz-go) is external: it appends the records of a   *)
(* partition in the order they were produced, and after a failure a prefix *)
(* of each partition's records is in the log.                              *)
(***************************************************************************)
EXTENDS Integers, Sequences

CONSTANTS Callers,       \* the processes that post
          Reports,       \* Reports[c]: what caller c has to report, in order
          Ids,           \* the event_ids they supply
          NoId,          \* a report without an event_id
          Keys,          \* what a record's key may be
          Partitions,
          PartitionOf,   \* the partitioner
          MaxBatchSize,  \* INGEST_MAX_BATCH
          MaxFaults      \* bound: faults in a behaviour

Report == [vehicle : Keys, id : Ids \cup {NoId}, valid : BOOLEAN]
Record == [id : Ids \cup Nat, key : Keys, caller : Callers, nr : Nat]

\* Callers do not reuse an event_id for another report; minted ids are
\* naturals, and no supplied id is one.
ASSUME IngestAssumption ==
    /\ Reports \in [Callers -> Seq(Report)]
    /\ \A e \in Ids \cup {NoId} : e \notin Nat
    /\ NoId \notin Ids
    /\ \A c, d \in Callers : \A i \in DOMAIN Reports[c], j \in DOMAIN Reports[d] :
          (Reports[c][i].id = Reports[d][j].id /\ Reports[c][i].id # NoId)
             => c = d /\ i = j
    /\ PartitionOf \in [Keys -> Partitions]
    /\ MaxBatchSize \in Nat \ {0}
    /\ MaxFaults \in Nat

VARIABLES log,       \* raw topic, per partition
          next,      \* the first report each caller is not done with
          size,      \* how many reports its request carries
          call,      \* where its request is
          todo,      \* records its handler has still to see acknowledged
          minted,    \* ids minted so far
          accepted,  \* reports their caller was told are accepted
          phase,     \* of the process: up, or draining after SIGTERM
          faults

ingestVars == <<log, next, size, call, todo, minted, accepted, phase, faults>>

InFlight == {"posted", "produce", "202", "503"}

IngestInit ==
    /\ log = [p \in Partitions |-> <<>>]
    /\ next = [c \in Callers |-> 1]
    /\ size = [c \in Callers |-> 0]
    /\ call = [c \in Callers |-> "idle"]
    /\ todo = [c \in Callers |-> {}]
    /\ minted = 0
    /\ accepted = {}
    /\ phase = "up"
    /\ faults = 0

Fault == faults < MaxFaults /\ faults' = faults + 1
-----------------------------------------------------------------------------
\* post: the caller's next reports, as many as it likes to put in a batch.
Post(c) ==
    /\ call[c] = "idle"
    /\ phase = "up"
    /\ \E k \in 1 .. Len(Reports[c]) - next[c] + 1 :
          size' = [size EXCEPT ![c] = k]
    /\ call' = [call EXCEPT ![c] = "posted"]
    /\ UNCHANGED <<log, next, todo, minted, accepted, phase, faults>>

\* "The caller retries the batch", the same reports with the same ids.
PostAgain(c) ==
    /\ call[c] = "failed"
    /\ phase = "up"
    /\ call' = [call EXCEPT ![c] = "posted"]
    /\ UNCHANGED <<log, next, size, todo, minted, accepted, phase, faults>>

MoveOn(c) ==
    /\ next' = [next EXCEPT ![c] = @ + size[c]]
    /\ size' = [size EXCEPT ![c] = 0]
    /\ call' = [call EXCEPT ![c] = "idle"]

\* The caller counts the batch as failed and goes on.
GiveUp(c) ==
    /\ call[c] = "failed"
    /\ MoveOn(c)
    /\ UNCHANGED <<log, todo, minted, accepted, phase, faults>>

\* (mutant) The limit is meant for bytes only.
TooLargeNever(c) == FALSE

TooLarge(c) == size[c] > MaxBatchSize

\* Decode without unknown fields, Validate, ValidateClock, and a UUID if any.
Valid(r) == r.valid

\* (mutant) The platform names every event.
MintAlways(r, i) == minted + i

\* Accept keeps the id a producer supplied and mints one otherwise.
Identity(r, i) == IF r.id = NoId THEN minted + i ELSE r.id

\* (mutant) A record is keyed by its event where it can be.
KeyOfEvent(r) == IF r.id = NoId THEN r.vehicle ELSE r.id

\* The record's key is the vehicle, which fixes the partition.
KeyOf(r) == r.vehicle

\* The reports of the request, by their number.
Batch(c) == next[c] .. next[c] + size[c] - 1

\* The records of the batch's valid reports, each with its place in nr.
Records(c) ==
    {[id |-> Identity(Reports[c][n], n - next[c] + 1), key |-> KeyOf(Reports[c][n]),
      caller |-> c, nr |-> n] : n \in {i \in Batch(c) : Valid(Reports[c][i])}}

\* handleSubmit up to the first record: a batch that is too large is refused
\* whole; otherwise every report is judged on its own.
HandleSubmit(c) ==
    /\ call[c] = "posted"
    /\ \/ /\ TooLarge(c)
          /\ call' = [call EXCEPT ![c] = "failed"]
          /\ UNCHANGED <<todo, minted>>
       \/ /\ ~TooLarge(c)
          /\ todo' = [todo EXCEPT ![c] = Records(c)]
          /\ minted' = minted + size[c]
          /\ call' = [call EXCEPT ![c] = "produce"]
    /\ UNCHANGED <<log, next, size, accepted, phase, faults>>

\* A record reaches the log, after those before it in its partition.
Deliver(c) ==
    /\ call[c] = "produce"
    /\ \E r \in todo[c] :
          LET p == PartitionOf[r.key]
          IN  /\ \A q \in todo[c] : q.nr < r.nr => PartitionOf[q.key] # p
              /\ log' = [log EXCEPT ![p] = Append(@, r)]
              /\ todo' = [todo EXCEPT ![c] = @ \ {r}]
    /\ UNCHANGED <<next, size, call, minted, accepted, phase, faults>>

\* Every record is acknowledged.
Produced(c) ==
    /\ call[c] = "produce"
    /\ todo[c] = {}
    /\ call' = [call EXCEPT ![c] = "202"]
    /\ UNCHANGED <<log, next, size, todo, minted, accepted, phase, faults>>

\* (mutant) The handler logs the error and accepts what it has.
UnavailableAccepted(c) ==
    /\ call[c] = "produce"
    /\ Records(c) # {}
    /\ Fault
    /\ call' = [call EXCEPT ![c] = "202"]
    /\ todo' = [todo EXCEPT ![c] = {}]
    /\ UNCHANGED <<log, next, size, minted, accepted, phase>>

\* Some record was not acknowledged; all of them may be in the log all the
\* same.  A batch without a valid report is not produced.
Unavailable(c) ==
    /\ call[c] = "produce"
    /\ Records(c) # {}
    /\ Fault
    /\ call' = [call EXCEPT ![c] = "503"]
    /\ todo' = [todo EXCEPT ![c] = {}]
    /\ UNCHANGED <<log, next, size, minted, accepted, phase>>

\* The caller reads the answer: the valid reports of an accepted batch are
\* accepted, the others are named in it.
ReadAnswer(c) ==
    /\ \/ /\ call[c] = "202"
          /\ accepted' = accepted \cup
               {<<c, n>> : n \in {i \in Batch(c) : Valid(Reports[c][i])}}
          /\ MoveOn(c)
       \/ /\ call[c] = "503"
          /\ call' = [call EXCEPT ![c] = "failed"]
          /\ UNCHANGED <<next, size, accepted>>
    /\ UNCHANGED <<log, todo, minted, phase, faults>>

\* The caller's timeout or a cut connection: the request's context is
\* cancelled.  What the broker client still appends for it comes before
\* anything this caller posts later, so it may be taken as appended already.
AnswerLost(c) ==
    /\ call[c] \in InFlight
    /\ Fault
    /\ call' = [call EXCEPT ![c] = "failed"]
    /\ todo' = [todo EXCEPT ![c] = {}]
    /\ UNCHANGED <<log, next, size, minted, accepted, phase>>
-----------------------------------------------------------------------------
\* SIGTERM closes the listener; requests in flight go on.
Drain ==
    /\ phase = "up"
    /\ phase' = "draining"
    /\ UNCHANGED <<log, next, size, call, todo, minted, accepted, faults>>

\* The process ends, its requests finished or its shutdown timeout passed, or
\* dies at any moment, and is started again.
Restart ==
    /\ \/ /\ phase = "draining"
          /\ \A c \in Callers : call[c] \notin InFlight
          /\ UNCHANGED faults
       \/ Fault
    /\ phase' = "up"
    /\ call' = [c \in Callers |-> IF call[c] \in InFlight THEN "failed" ELSE call[c]]
    /\ todo' = [c \in Callers |-> {}]
    /\ UNCHANGED <<log, next, size, minted, accepted>>

Request(c) ==
    \/ Post(c)
    \/ PostAgain(c)
    \/ GiveUp(c)
    \/ HandleSubmit(c)
    \/ Deliver(c)
    \/ Produced(c)
    \/ Unavailable(c)
    \/ ReadAnswer(c)
    \/ AnswerLost(c)

IngestNext ==
    \/ \E c \in Callers : Request(c)
    \/ Drain
    \/ Restart

IngestSpec == IngestInit /\ [][IngestNext]_ingestVars
-----------------------------------------------------------------------------
IngestTypeOK ==
    /\ log \in [Partitions -> Seq(Record)]
    /\ next \in [Callers -> Nat] /\ size \in [Callers -> Nat]
    /\ call \in [Callers -> {"idle", "failed"} \cup InFlight]
    /\ todo \in [Callers -> SUBSET Record]
    /\ \A c \in Callers :
          /\ 1 <= next[c] /\ next[c] + size[c] <= Len(Reports[c]) + 1
          /\ todo[c] # {} => call[c] = "produce" /\ size[c] <= MaxBatchSize
    /\ minted \in Nat
    /\ accepted \subseteq Callers \X Nat
    /\ phase \in {"up", "draining"}
    /\ faults \in 0 .. MaxFaults

Places == UNION {{p} \X DOMAIN log[p] : p \in Partitions}
RecordAt(x) == log[x[1]][x[2]]
SameReport(r, s) == r.caller = s.caller /\ r.nr = s.nr

\* "A dropped event the client believes was accepted is the one outcome this
\* system must never produce" (handler.go): what a 202 accepted is in the log,
\* though some of the batch's records failed before, or had to be sent twice.
AcceptedIsLogged ==
    \A a \in accepted : \E x \in Places : <<RecordAt(x).caller, RecordAt(x).nr>> = a

\* A retry is safe because it is detectable: copies of a report that has an
\* event_id carry it, so that the sink applies one of them, and no other
\* report's event carries it, minted ones included.  A report without an id
\* gets another one each time, and is excused.
RetriesAreDuplicates ==
    \A x, y \in Places :
       LET r == RecordAt(x)
           s == RecordAt(y)
       IN  /\ r.id = s.id => SameReport(r, s)
           /\ SameReport(r, s) /\ Reports[r.caller][r.nr].id # NoId => r.id = s.id

\* All of a vehicle's events are on one partition in arrival order (ADR-005):
\* no copy of a later report of the vehicle comes before the first copy of an
\* earlier one, through partial failures and retries of whole batches.
VehicleInOrder ==
    \A x, y \in Places :
       LET r == RecordAt(x)
           s == RecordAt(y)
           vehicle(q) == Reports[q.caller][q.nr].vehicle
       IN  r.caller = s.caller /\ vehicle(r) = vehicle(s) /\ r.nr < s.nr =>
              /\ x[1] = y[1]
              /\ \E z \in Places :
                    z[1] = y[1] /\ z[2] < y[2] /\ SameReport(RecordAt(z), r)
=============================================================================
