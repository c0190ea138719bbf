------------------------------ MODULE Consumer ------------------------------
(***************************************************************************)
(* The consumer group (internal/consumer, cmd/consumer): members poll the  *)
(* raw topic, apply each record through the sink, refuse what can never be *)
(* applied to the dead-letter queue, publish what is durable to the        *)
(* fan-out bus and commit offsets.  The broker, its group coordinator, the *)
(* franz-go client and the bus are external: they are modelled from the    *)
(* options cmd/consumer sets and from how the code uses them.              *)
(*                                                                         *)
(* A call on the sink is two steps, the call and the reading of its        *)
(* result, so that a member can die, or another one act, in between.       *)
(***************************************************************************)
EXTENDS Sink, Sequences

CONSTANTS Members,      \* the consumer processes
          None,         \* no owner
          PartitionOf,  \* the partitioner: where a record key is sent
          BatchSize,    \* records per poll, all partitions together
          MaxRetries,   \* retries of a transient failure; New turns 0 into 5
          MaxFaults     \* bound: faults and disruptions in a behaviour

ASSUME ConsumerAssumption ==
    /\ Members \subseteq Workers
    /\ None \notin Members
    /\ PartitionOf \in [Vehicles \cup LetterIds -> Partitions]
    /\ BatchSize \in Nat \ {0}
    /\ MaxRetries \in Nat \ {0}
    /\ MaxFaults \in Nat

VARIABLES
    \* the broker and the bus
    log,        \* raw topic: the record at offset o of p is log[p][o + 1]
    dlqTopic,   \* payloads copied to the dead-letter topic
    committed,  \* committed[p]: the offset the group resumes p from
    owner,      \* owner[p]: the member the coordinator has given p to
    published,  \* event ids that went out on the fan-out bus
    \* each member process
    pc,         \* where its consume loop is
    stopping,   \* its context is cancelled (SIGTERM)
    has,        \* partitions its client believes it owns
    pos,        \* pos[m][p]: the client's fetch position, past the last poll
    nxt,        \* nxt[m][p]: first offset of p not yet finished with
    todo,       \* partitions of the batch still to be processed
    lastOK,     \* last finished offset in this batch's partition, -1 if none
    attempts,   \* attempts at applying the current record
    reason,     \* why the current record is being refused
    \* accounting
    faults,     \* faults and disruptions so far
    abandoned   \* <<p, o>> a client polled past without finishing

brokerVars == <<log, dlqTopic, committed, owner>>
loopVars   == <<todo, lastOK, attempts, reason>>
clientVars == <<has, pos, nxt>>
consumerVars ==
    <<processed, positions, current, eventCount, deadLetters, outcome,
      log, dlqTopic, committed, owner, published, pc, stopping, has, pos, nxt,
      todo, lastOK, attempts, reason, faults, abandoned>>

InBatch == {"next", "apply", "result", "backoff", "publish", "dlq", "record",
            "refused", "commit"}

ConsumerInit ==
    /\ SinkInit
    /\ log = [p \in Partitions |-> <<>>]
    /\ dlqTopic = {}
    /\ committed = [p \in Partitions |-> 0]
    /\ owner = [p \in Partitions |-> None]
    /\ published = {}
    /\ pc = [m \in Members |-> "down"]
    /\ stopping = [m \in Members |-> FALSE]
    /\ has = [m \in Members |-> {}]
    /\ pos = [m \in Members |-> [p \in Partitions |-> 0]]
    /\ nxt = [m \in Members |-> [p \in Partitions |-> 0]]
    /\ todo = [m \in Members |-> {}]
    /\ lastOK = [m \in Members |-> -1]
    /\ attempts = [m \in Members |-> 0]
    /\ reason = [m \in Members |-> "decode"]
    /\ faults = 0
    /\ abandoned = {}
-----------------------------------------------------------------------------
\* A fault uses up the budget; a step that meets none leaves it alone.
Fault   == faults < MaxFaults /\ faults' = faults + 1
NoFault == UNCHANGED faults

Goto(m, l) == pc' = [pc EXCEPT ![m] = l]

\* Partitions of a batch are taken in ascending order.
First(m, p) == p \in todo[m] /\ \A q \in todo[m] : p <= q

\* (mutant) The loop variable is the last record of the batch.
RecLast(m, p) == log[p][pos[m][p]]

\* The record a member is working on.
Rec(m, p) == log[p][nxt[m][p] + 1]

Between(p, lo, hi) == {<<p, o>> : o \in {x \in Offsets : lo <= x /\ x < hi}}

\* Start of the process: the group client is built and joins.
Start(m) ==
    /\ pc[m] = "down"
    /\ Goto(m, "poll")
    /\ stopping' = [stopping EXCEPT ![m] = FALSE]
    /\ UNCHANGED <<sinkVars, brokerVars, published, clientVars, loopVars,
                   faults, abandoned>>

\* SIGTERM cancels the context that every call of the loop runs under.
Sigterm(m) ==
    /\ pc[m] # "down"
    /\ ~stopping[m]
    /\ Fault
    /\ stopping' = [stopping EXCEPT ![m] = TRUE]
    /\ UNCHANGED <<sinkVars, brokerVars, published, pc, clientVars, loopVars,
                   abandoned>>

\* What is left of a member's client and loop when its process is gone.
Forget(m) ==
    /\ pc' = [pc EXCEPT ![m] = "down"]
    /\ has' = [has EXCEPT ![m] = {}]
    /\ pos' = [pos EXCEPT ![m] = [p \in Partitions |-> 0]]
    /\ nxt' = [nxt EXCEPT ![m] = [p \in Partitions |-> 0]]
    /\ todo' = [todo EXCEPT ![m] = {}]
    /\ lastOK' = [lastOK EXCEPT ![m] = -1]
    /\ attempts' = [attempts EXCEPT ![m] = 0]
    /\ reason' = [reason EXCEPT ![m] = "decode"]
    /\ UNCHANGED stopping

\* Run returns once its context is cancelled, and Close leaves the group.
Exit(m) ==
    /\ pc[m] = "poll"
    /\ stopping[m]
    /\ Forget(m)
    /\ owner' = [p \in Partitions |-> IF owner[p] = m THEN None ELSE owner[p]]
    /\ UNCHANGED <<sinkVars, log, dlqTopic, committed, published, faults, abandoned>>

\* The process dies anywhere, a result it has not read included.  This is also
\* the exit after the shutdown window has passed.  The coordinator notices
\* only when the session times out (Expire).
Crash(m) ==
    /\ pc[m] # "down"
    /\ Fault
    /\ Forget(m)
    /\ \/ Return(m)
       \/ outcome[m] = "none" /\ UNCHANGED sinkVars
    /\ UNCHANGED <<brokerVars, published, abandoned>>
-----------------------------------------------------------------------------
\* PollRecords hands out records from the client's fetch position on and moves
\* the position past them.  The position is the client's own: it follows what
\* was handed out, not what was committed or finished.  A record of an earlier
\* poll that the loop broke off at is therefore behind it.
Poll(m) ==
    /\ pc[m] = "poll"
    /\ ~stopping[m]
    /\ \E to \in [Partitions -> 0 .. MaxLog] :
          LET fetched == UNION {Between(p, pos[m][p], to[p]) : p \in Partitions}
              left == UNION {Between(p, nxt[m][p], pos[m][p]) : p \in has[m]}
          IN  /\ \A p \in Partitions :
                    /\ pos[m][p] <= to[p]
                    /\ p \in has[m] => to[p] <= Len(log[p])
                    /\ p \notin has[m] => to[p] = pos[m][p]
              /\ Cardinality(fetched) <= BatchSize
              /\ fetched \cup left # {}
              /\ pos' = [pos EXCEPT ![m] = to]
              /\ nxt' = [nxt EXCEPT ![m] = pos[m]]
              /\ todo' = [todo EXCEPT ![m] = {p \in Partitions : pos[m][p] < to[p]}]
              /\ Goto(m, IF fetched = {} THEN "poll" ELSE "next")
              /\ abandoned' = abandoned \cup left
    /\ UNCHANGED <<sinkVars, brokerVars, published, stopping, has, lastOK,
                   attempts, reason, faults>>

\* processOne returned true: the record is finished with.
Done(m, p) ==
    /\ nxt' = [nxt EXCEPT ![m][p] = @ + 1]
    /\ lastOK' = [lastOK EXCEPT ![m] = nxt[m][p]]
    /\ attempts' = [attempts EXCEPT ![m] = 0]
    /\ reason' = [reason EXCEPT ![m] = "decode"]
    /\ Goto(m, "next")
    /\ UNCHANGED todo

\* (mutant) A failed record is skipped and the next one taken.
FailedSkipped(m, p) ==
    /\ Goto(m, "next")
    /\ nxt' = [nxt EXCEPT ![m][p] = @ + 1]
    /\ UNCHANGED loopVars

\* processOne returned false: the partition stops at this record.
Failed(m, p) ==
    /\ Goto(m, "commit")
    /\ UNCHANGED <<nxt, loopVars>>

Refuse(m, why) ==
    /\ Goto(m, "dlq")
    /\ reason' = [reason EXCEPT ![m] = why]
    /\ UNCHANGED attempts

\* The head of processOne: what can be told from the bytes alone.
ProcessOne(m, p) ==
    /\ pc[m] = "next"
    /\ First(m, p)
    /\ ~stopping[m]
    /\ nxt[m][p] < pos[m][p]
    /\ \/ ~Decodes(Rec(m, p)) /\ Refuse(m, "decode")
       \/ /\ Decodes(Rec(m, p))
          /\ ~IsKnownEventType(Rec(m, p))
          /\ Refuse(m, "unknown_version")
       \/ /\ IsKnownEventType(Rec(m, p))
          /\ ~AsVehiclePosition(Rec(m, p))
          /\ Refuse(m, "decode")
       \/ /\ AsVehiclePosition(Rec(m, p))
          /\ Goto(m, "apply")
          /\ attempts' = [attempts EXCEPT ![m] = 1]
          /\ UNCHANGED reason
    /\ UNCHANGED <<sinkVars, brokerVars, published, stopping, clientVars, todo,
                   lastOK, faults, abandoned>>

\* Every call of the loop runs under the process's context: once that is
\* cancelled a call fails (one that was in flight and still succeeded is one
\* that ended before).  Otherwise a failure is a fault.
CallFailed(m) == IF stopping[m] THEN NoFault ELSE Fault
CallOK(m) == ~stopping[m] /\ NoFault

Charged(m) == IF outcome'[m] = "transient" THEN CallFailed(m) ELSE CallOK(m)

\* store.Apply.
CallApply(m, p) ==
    /\ pc[m] = "apply"
    /\ First(m, p)
    /\ \/ Apply(m, Rec(m, p), p, nxt[m][p])
       \/ CallFails(m)
    /\ Charged(m)
    /\ Goto(m, "result")
    /\ UNCHANGED <<brokerVars, published, stopping, clientVars, loopVars, abandoned>>

\* (mutant) The retry budget is off by one.
ExhaustedLate(m) == attempts[m] > MaxRetries + 1

\* The retry budget is spent.
Exhausted(m) == attempts[m] > MaxRetries

\* (mutant) An event is shown before its transaction is known to be in.
ShownEarly(res) == res \in {"applied", "late", "transient"}

\* (mutant) A redelivered event is shown again.
ShownAgain(res) == res \in {"applied", "late", "duplicate"}

\* The results after which processOne publishes the event.
Shown(res) == res \in {"applied", "late"}

\* processOne's handling of Apply's result.
HandleResult(m, p) ==
    /\ pc[m] = "result"
    /\ First(m, p)
    /\ Return(m)
    /\ \/ /\ Shown(outcome[m])
          /\ Goto(m, "publish")
          /\ UNCHANGED <<nxt, loopVars>>
       \/ /\ outcome[m] = "duplicate"
          /\ Done(m, p)
       \/ /\ outcome[m] = "permanent"
          /\ Refuse(m, "decode")
          /\ UNCHANGED <<nxt, todo, lastOK>>
       \/ /\ outcome[m] = "transient"
          /\ Exhausted(m)
          /\ Refuse(m, "retries_exhausted")
          /\ UNCHANGED <<nxt, todo, lastOK>>
       \/ /\ outcome[m] = "transient"
          /\ ~Exhausted(m)
          /\ Goto(m, "backoff")
          /\ UNCHANGED <<nxt, loopVars>>
    /\ UNCHANGED <<brokerVars, published, stopping, has, pos, faults, abandoned>>

\* The backoff timer fires before a cancellation.
Retry(m) ==
    /\ pc[m] = "backoff"
    /\ ~stopping[m]
    /\ attempts' = [attempts EXCEPT ![m] = @ + 1]
    /\ Goto(m, "apply")
    /\ UNCHANGED <<sinkVars, brokerVars, published, stopping, clientVars, todo,
                   lastOK, reason, faults, abandoned>>

\* The context is cancelled during the backoff.
Cancelled(m, p) ==
    /\ pc[m] = "backoff"
    /\ First(m, p)
    /\ stopping[m]
    /\ Failed(m, p)
    /\ UNCHANGED <<sinkVars, brokerVars, published, stopping, has, pos, faults,
                   abandoned>>

\* publish: best effort, and never a reason not to finish the record.
Publish(m, p) ==
    /\ pc[m] = "publish"
    /\ First(m, p)
    /\ \/ published' = published \cup {Rec(m, p).id}
       \/ UNCHANGED published
    /\ Done(m, p)
    /\ UNCHANGED <<sinkVars, brokerVars, stopping, has, pos, faults, abandoned>>

\* (mutant) An error of the dead-letter topic is logged and ignored.
ProduceDLQIgnored(m, p) ==
    /\ pc[m] = "dlq"
    /\ First(m, p)
    /\ dlqTopic' \in {dlqTopic, dlqTopic \cup {Rec(m, p)}}
    /\ CallOK(m)
    /\ Goto(m, "record")
    /\ UNCHANGED <<nxt, loopVars>>
    /\ UNCHANGED <<sinkVars, log, committed, owner, published, stopping, has, pos,
                   abandoned>>

\* DLQSink.DeadLetter, first half: the copy on the dead-letter topic.  It
\* reports a record without a value as an error, every time; a produce that
\* reports an error may have left its record on the topic.
ProduceDLQ(m, p) ==
    /\ pc[m] = "dlq"
    /\ First(m, p)
    /\ \/ /\ Rec(m, p).kind = "null"
          /\ UNCHANGED dlqTopic
          /\ NoFault
          /\ Failed(m, p)
       \/ /\ Rec(m, p).kind # "null"
          /\ dlqTopic' = dlqTopic \cup {Rec(m, p)}
          /\ CallOK(m)
          /\ Goto(m, "record")
          /\ UNCHANGED <<nxt, loopVars>>
       \/ /\ Rec(m, p).kind # "null"
          /\ dlqTopic' \in {dlqTopic, dlqTopic \cup {Rec(m, p)}}
          /\ CallFailed(m)
          /\ Failed(m, p)
    /\ UNCHANGED <<sinkVars, log, committed, owner, published, stopping, has, pos,
                   abandoned>>

\* (mutant) Every refusal is filed under its log position.
CallRecordByPosition(m, p) ==
    /\ pc[m] = "record"
    /\ First(m, p)
    /\ \/ RecordDeadLetter(m, <<p, nxt[m][p]>>, Rec(m, p), reason[m])
       \/ CallFails(m)
    /\ Charged(m)
    /\ Goto(m, "refused")
    /\ UNCHANGED <<brokerVars, published, stopping, clientVars, loopVars, abandoned>>

\* DLQSink.DeadLetter, second half: the row.
CallRecord(m, p) ==
    /\ pc[m] = "record"
    /\ First(m, p)
    /\ \/ RecordDeadLetter(m, LetterId(Rec(m, p), p, nxt[m][p]), Rec(m, p), reason[m])
       \/ CallFails(m)
    /\ Charged(m)
    /\ Goto(m, "refused")
    /\ UNCHANGED <<brokerVars, published, stopping, clientVars, loopVars, abandoned>>

\* (mutant) refuse logs that it could not record and moves on.
HandleRefusalAlways(m, p) ==
    /\ pc[m] = "refused"
    /\ First(m, p)
    /\ Return(m)
    /\ Done(m, p)
    /\ UNCHANGED <<brokerVars, published, stopping, has, pos, faults, abandoned>>

\* refuse reports whether the refusal was recorded.
HandleRefusal(m, p) ==
    /\ pc[m] = "refused"
    /\ First(m, p)
    /\ Return(m)
    /\ IF outcome[m] = "recorded" THEN Done(m, p) ELSE Failed(m, p)
    /\ UNCHANGED <<brokerVars, published, stopping, has, pos, faults, abandoned>>

\* The group of a partition is at its end, or the loop sees the cancellation.
EndOfGroup(m, p) ==
    /\ pc[m] = "next"
    /\ First(m, p)
    /\ nxt[m][p] = pos[m][p] \/ stopping[m]
    /\ Goto(m, "commit")
    /\ UNCHANGED <<sinkVars, brokerVars, published, stopping, clientVars, loopVars,
                   faults, abandoned>>

\* (mutant) lastOK is declared outside the loop over partitions.
NextPartitionStale(m, p) ==
    /\ todo' = [todo EXCEPT ![m] = @ \ {p}]
    /\ attempts' = [attempts EXCEPT ![m] = 0]
    /\ reason' = [reason EXCEPT ![m] = "decode"]
    /\ Goto(m, IF todo[m] = {p} THEN "poll" ELSE "next")
    /\ UNCHANGED lastOK

\* On to the batch's next partition, or back to the poll.
NextPartition(m, p) ==
    /\ todo' = [todo EXCEPT ![m] = @ \ {p}]
    /\ lastOK' = [lastOK EXCEPT ![m] = -1]
    /\ attempts' = [attempts EXCEPT ![m] = 0]
    /\ reason' = [reason EXCEPT ![m] = "decode"]
    /\ Goto(m, IF todo[m] = {p} THEN "poll" ELSE "next")

\* CommitRecords of the last finished record, if there is one.  The broker
\* refuses a member that no longer owns the partition, and any commit may
\* fail (one that reports an error after it was stored is the second case).
\* Either way the loop goes on with the next partition, and after the last
\* one releases the rebalance block and polls again.
CommitPrefix(m, p) ==
    /\ pc[m] = "commit"
    /\ First(m, p)
    /\ \/ /\ lastOK[m] = -1 \/ owner[p] # m
          /\ UNCHANGED committed
          /\ NoFault
       \/ /\ lastOK[m] # -1
          /\ owner[p] = m
          /\ committed' = [committed EXCEPT ![p] = lastOK[m] + 1]
          /\ CallOK(m)
       \/ /\ lastOK[m] # -1
          /\ owner[p] = m
          /\ UNCHANGED committed
          /\ CallFailed(m)
    /\ NextPartition(m, p)
    /\ UNCHANGED <<sinkVars, log, dlqTopic, owner, published, stopping, clientVars,
                   abandoned>>
-----------------------------------------------------------------------------
\* (mutant) Only a client that never had a batch lets a rebalance through.
RebalancingOnce(m) == pc[m] = "poll" /\ \A p \in Partitions : pos[m][p] = 0

\* BlockRebalanceOnPoll: a client takes part in a rebalance only between
\* batches, after AllowRebalance.
Rebalancing(m) == pc[m] = "poll"

\* (mutant) Every assignment reads the retained log from the beginning.
ResumeAtStart(p) == 0

\* The committed offset, or the start of the log when there is none.
ResumeAt(p) == committed[p]

\* A member is given a partition and starts at ResumeAt.  A client that had
\* lost it without noticing yet drops it first.
Assign(m, p) ==
    /\ Rebalancing(m)
    /\ ~stopping[m]
    /\ owner[p] = None
    /\ owner' = [owner EXCEPT ![p] = m]
    /\ has' = [has EXCEPT ![m] = @ \cup {p}]
    /\ pos' = [pos EXCEPT ![m][p] = ResumeAt(p)]
    /\ nxt' = [nxt EXCEPT ![m][p] = ResumeAt(p)]
    /\ UNCHANGED <<sinkVars, log, dlqTopic, committed, published, pc, stopping,
                   loopVars, faults, abandoned>>

Drop(m, p) ==
    /\ has' = [has EXCEPT ![m] = @ \ {p}]
    /\ pos' = [pos EXCEPT ![m][p] = 0]
    /\ nxt' = [nxt EXCEPT ![m][p] = 0]

\* A rebalance takes the partition from its owner.
Revoke(m, p) ==
    /\ Rebalancing(m)
    /\ p \in has[m]
    /\ owner[p] = m
    /\ Fault
    /\ Drop(m, p)
    /\ owner' = [owner EXCEPT ![p] = None]
    /\ UNCHANGED <<sinkVars, log, dlqTopic, committed, published, pc, stopping,
                   loopVars, abandoned>>

\* The client learns that it lost the partition (OnPartitionsLost).
NoticeLost(m, p) ==
    /\ Rebalancing(m)
    /\ p \in has[m]
    /\ owner[p] # m
    /\ Drop(m, p)
    /\ UNCHANGED <<sinkVars, brokerVars, published, pc, stopping, loopVars, faults,
                   abandoned>>

\* The session of p's owner times out at the coordinator: of a process that
\* is gone, or of one that is alive and slow, in the middle of a batch too.
Expire(m, p) ==
    /\ owner[p] = m
    /\ IF p \in has[m] THEN Fault ELSE NoFault
    /\ owner' = [owner EXCEPT ![p] = None]
    /\ UNCHANGED <<sinkVars, log, dlqTopic, committed, published, pc, stopping,
                   clientVars, loopVars, abandoned>>

\* A producer appends a record.  The ingest API keys events by vehicle; other
\* bytes may come from any client, to any partition.
Produce(p, v) ==
    /\ Len(log[p]) < MaxLog
    /\ AsVehiclePosition(v) => p = PartitionOf[v.vehicle]
    /\ log' = [log EXCEPT ![p] = Append(@, v)]
    /\ UNCHANGED <<sinkVars, dlqTopic, committed, owner, published, pc, stopping,
                   clientVars, loopVars, faults, abandoned>>

\* What a member does by itself for the partition it is working on.
Work(m, p) ==
    \/ ProcessOne(m, p)
    \/ CallApply(m, p)
    \/ HandleResult(m, p)
    \/ Cancelled(m, p)
    \/ Publish(m, p)
    \/ ProduceDLQ(m, p)
    \/ CallRecord(m, p)
    \/ HandleRefusal(m, p)
    \/ EndOfGroup(m, p)
    \/ CommitPrefix(m, p)

Loop(m) ==
    \/ Start(m)
    \/ Exit(m)
    \/ Poll(m)
    \/ Retry(m)
    \/ \E p \in Partitions : Work(m, p)

Coordinator(m, p) ==
    \/ Assign(m, p)
    \/ Revoke(m, p)
    \/ NoticeLost(m, p)
    \/ Expire(m, p)

ConsumerNext ==
    \/ \E m \in Members :
          \/ Loop(m)
          \/ Sigterm(m)
          \/ Crash(m)
          \/ \E p \in Partitions : Coordinator(m, p)
    \/ \E p \in Partitions, v \in Payloads : Produce(p, v)

ConsumerSpec == ConsumerInit /\ [][ConsumerNext]_consumerVars

\* Processes run and are restarted, a session that is dead times out, and an
\* unowned partition that live members could take is given to one of them.
ConsumerFairSpec ==
    /\ ConsumerSpec
    /\ \A m \in Members : WF_consumerVars(Loop(m))
    /\ \A m \in Members, p \in Partitions :
          /\ WF_consumerVars(NoticeLost(m, p))
          /\ WF_consumerVars(p \notin has[m] /\ Expire(m, p))
    /\ \A p \in Partitions : SF_consumerVars(\E m \in Members : Assign(m, p))
-----------------------------------------------------------------------------
ConsumerTypeOK ==
    /\ SinkTypeOK
    /\ log \in [Partitions -> Seq(Payloads)]
    /\ \A p \in Partitions : Len(log[p]) <= MaxLog
    /\ dlqTopic \subseteq Payloads
    /\ committed \in [Partitions -> 0 .. MaxLog]
    /\ owner \in [Partitions -> Members \cup {None}]
    /\ published \subseteq EventIds
    /\ pc \in [Members -> {"down", "poll"} \cup InBatch]
    /\ stopping \in [Members -> BOOLEAN]
    /\ has \in [Members -> SUBSET Partitions]
    /\ pos \in [Members -> [Partitions -> 0 .. MaxLog]]
    /\ nxt \in [Members -> [Partitions -> 0 .. MaxLog]]
    /\ todo \in [Members -> SUBSET Partitions]
    /\ lastOK \in [Members -> Offsets \cup {-1}]
    /\ attempts \in [Members -> 0 .. MaxRetries + 1]
    /\ reason \in [Members -> Reasons]
    /\ faults \in 0 .. MaxFaults
    /\ abandoned \subseteq Partitions \X Offsets

\* The record at offset o of p is applied or durably refused.
Settled(p, o) ==
    \/ \E r \in processed : Decodes(log[p][o + 1]) /\ r.id = log[p][o + 1].id
    \/ \E d \in deadLetters : d.id = LetterId(log[p][o + 1], p, o)

Handled(p, o) == Settled(p, o) \/ <<p, o>> \in abandoned

\* An offset that is committed is settled: applied, or recorded as refused.
\* The one way past processBatch's care is a record it broke off at and the
\* client then polled past; those are in abandoned (see NothingLost).
CommittedSettled ==
    \A p \in Partitions : \A o \in Offsets :
       o < committed[p] => o < Len(log[p]) /\ Handled(p, o)

\* "Committing past a failure would skip it permanently" (consumer.go): what
\* is committed has been applied or recorded as refused, without exception.
NothingLost ==
    \A p \in Partitions : \A o \in Offsets : o < committed[p] => Settled(p, o)

\* Records of a partition enter the history in offset order: when one is
\* applied, every earlier one is finished with, whichever members took turns.
AppliedInOrder ==
    \A r \in positions : \A o \in Offsets :
       o < r.offset => Handled(r.partition, o)

\* Every history row can be traced to the log record that produced it.
Traceable ==
    \A r \in positions :
       /\ r.offset < Len(log[r.partition])
       /\ LET v == log[r.partition][r.offset + 1]
          IN  v.id = r.id /\ v.vehicle = r.vehicle /\ v.ts = r.ts /\ Storable(v)

\* No frame without a row: what is published to viewers is in the history, so
\* a rollback or a retry never leaves an event on the map alone.
NoPhantomFrame == \A id \in published : \E r \in positions : r.id = id

\* Publish first, then record: every dead-letter row has its bytes on the
\* dead-letter topic, whatever failed in between.
LetterHasCopy == \A d \in deadLetters : d.payload \in dlqTopic

\* A commit never moves a partition's offset back, although two members may
\* believe they own it: neither a slow batch nor a lost session rewinds it.
CommitsAdvance ==
    [][\A p \in Partitions : committed[p] <= committed'[p]]_consumerVars

\* Every record on the log is applied, recorded as refused, or polled past
\* after a failure, however members crash, stop and lose their sessions, as
\* long as the disruptions end: again and again there is nothing left to do.
EventuallyHandled ==
    []<>(\A p \in Partitions : \A o \in Offsets : o < Len(log[p]) => Handled(p, o))
=============================================================================
