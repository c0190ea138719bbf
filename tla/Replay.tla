------------------------------- MODULE Replay -------------------------------
(***************************************************************************)
(* The dead-letter replay tool (internal/replay, cmd/replay) at work       *)
(* beside the consumer group: operators put refused records back on the    *)
(* raw topic and mark their rows replayed, while members of the group      *)
(* consume, and perhaps refuse, what they put there.                       *)
(***************************************************************************)
EXTENDS Consumer

CONSTANTS Operators,   \* runs of cmd/replay
          Limit        \* --limit of replay --all

ASSUME ReplayAssumption ==
    /\ Operators \subseteq Workers
    /\ Operators \cap Members = {}
    /\ Limit \in Nat \ {0}

VARIABLES rpc,      \* where an operator's Replay is
          queue,    \* ids it has still to replay
          entry,    \* the rows Get returned for the one it is at: {} or one
          replays   \* the log records that carry the x-replay header

replayVars == <<rpc, queue, entry, replays>>
allVars ==
    <<processed, positions, current, eventCount, deadLetters, outcome,
      log, dlqTopic, committed, owner, published, pc, stopping, has, pos, nxt,
      todo, lastOK, attempts, reason, faults, abandoned,
      rpc, queue, entry, replays>>

memberVars == <<published, pc, stopping, has, pos, nxt, todo, lastOK, attempts,
                reason, abandoned>>

ReplayInit ==
    /\ ConsumerInit
    /\ rpc = [a \in Operators |-> "get"]
    /\ queue = [a \in Operators |-> {}]
    /\ entry = [a \in Operators |-> {}]
    /\ replays = {}

DeadIds == {d.id : d \in {e \in deadLetters : e.state = "dead"}}

\* replay --event-id: any id an operator may type.
ReplayId(a, id) ==
    /\ rpc[a] = "get"
    /\ queue[a] = {}
    /\ queue' = [queue EXCEPT ![a] = {id}]
    /\ UNCHANGED <<sinkVars, brokerVars, memberVars, faults, rpc, entry, replays>>

\* replay --all: List takes a snapshot of the dead rows, at most limit of
\* them; the order of the rows is by failure time and may be any.
ReplayAll(a) ==
    /\ rpc[a] = "get"
    /\ queue[a] = {}
    /\ \E ids \in SUBSET DeadIds :
          /\ ids # {}
          /\ Cardinality(ids) <= Limit
          /\ ids = DeadIds \/ Cardinality(ids) = Limit
          /\ queue' = [queue EXCEPT ![a] = ids]
    /\ UNCHANGED <<sinkVars, brokerVars, memberVars, faults, rpc, entry, replays>>

\* (mutant) The first entry that cannot be replayed ends the run.
LastEntry(a) ==
    /\ rpc' = [rpc EXCEPT ![a] = "stopped"]
    /\ entry' = [entry EXCEPT ![a] = {}]

\* The entry is finished with, replayed or reported as an error; a failure
\* does not stop the run.
NextEntry(a) ==
    /\ rpc' = [rpc EXCEPT ![a] = "get"]
    /\ entry' = [entry EXCEPT ![a] = {}]

\* (mutant) The row is marked before its record is published.
GetEntryMarked(a, id) ==
    /\ rpc[a] = "get"
    /\ id \in queue[a] \cap DeadIds
    /\ queue' = [queue EXCEPT ![a] = @ \ {id}]
    /\ entry' = [entry EXCEPT ![a] = {d \in deadLetters : d.id = id}]
    /\ rpc' = [rpc EXCEPT ![a] = "mark"]
    /\ UNCHANGED <<sinkVars, brokerVars, memberVars, faults, replays>>

\* Get, which may fail, and the checks before anything is published: there is
\* such a row, it is dead and it has bytes to put back.
GetEntry(a, id) ==
    /\ rpc[a] = "get"
    /\ id \in queue[a]
    /\ queue' = [queue EXCEPT ![a] = @ \ {id}]
    /\ \/ \E d \in deadLetters :
             /\ d.id = id
             /\ d.state = "dead"
             /\ d.payload.kind # "blank"
             /\ entry' = [entry EXCEPT ![a] = {d}]
             /\ rpc' = [rpc EXCEPT ![a] = "publish"]
             /\ NoFault
       \/ /\ \A d \in deadLetters :
                d.id = id => d.state # "dead" \/ d.payload.kind = "blank"
          /\ NextEntry(a)
          /\ NoFault
       \/ /\ NextEntry(a)
          /\ Fault
    /\ UNCHANGED <<sinkVars, brokerVars, memberVars, replays>>

\* (mutant) The record goes to a topic nobody reads.
PutAside(d) == UNCHANGED <<log, replays>>

\* The record goes back on the raw topic under the key event_id.
PutBack(d) ==
    LET p == PartitionOf[d.id]
    IN  /\ Len(log[p]) < MaxLog
        /\ log' = [log EXCEPT ![p] = Append(@, d.payload)]
        /\ replays' = replays \cup
             {[id |-> d.id, partition |-> p, offset |-> Len(log[p])]}

\* Produce.  One that reports an error may have appended the record.
Republish(a) ==
    /\ rpc[a] = "publish"
    /\ \E d \in entry[a] :
          \/ /\ PutBack(d)
             /\ rpc' = [rpc EXCEPT ![a] = "mark"]
             /\ NoFault
             /\ UNCHANGED entry
          \/ /\ PutBack(d) \/ UNCHANGED <<log, replays>>
             /\ NextEntry(a)
             /\ Fault
    /\ UNCHANGED <<sinkVars, dlqTopic, committed, owner, memberVars, queue>>

CallMark(a) ==
    /\ rpc[a] = "mark"
    /\ \E d \in entry[a] : MarkReplayed(a, d.id) \/ CallFails(a)
    /\ IF outcome'[a] = "transient" THEN Fault ELSE NoFault
    /\ rpc' = [rpc EXCEPT ![a] = "marked"]
    /\ UNCHANGED <<brokerVars, memberVars, queue, entry, replays>>

\* Result.Marked, or the error that says replaying again is safe.
ReadMark(a) ==
    /\ rpc[a] = "marked"
    /\ Return(a)
    /\ NextEntry(a)
    /\ UNCHANGED <<brokerVars, memberVars, faults, queue, replays>>

\* The tool is killed between two steps.
Interrupt(a) ==
    /\ queue[a] # {} \/ entry[a] # {}
    /\ Fault
    /\ NextEntry(a)
    /\ queue' = [queue EXCEPT ![a] = {}]
    /\ \/ Return(a)
       \/ outcome[a] = "none" /\ UNCHANGED sinkVars
    /\ UNCHANGED <<brokerVars, memberVars, replays>>

\* What the tool does by itself for the ids it has.
Replaying(a) ==
    \/ \E id \in LetterIds : GetEntry(a, id)
    \/ Republish(a)
    \/ CallMark(a)
    \/ ReadMark(a)

Operator(a) ==
    \/ \E id \in LetterIds : ReplayId(a, id)
    \/ ReplayAll(a)
    \/ Replaying(a)
    \/ Interrupt(a)

ReplayNext ==
    \/ \E a \in Operators : Operator(a)
    \/ ConsumerNext /\ UNCHANGED replayVars

ReplaySpec == ReplayInit /\ [][ReplayNext]_allVars

\* The consumer side is fair, and a tool that was started goes on: an operator
\* may never start one.
ReplayFairSpec ==
    /\ ReplaySpec
    /\ \A m \in Members : WF_allVars(Loop(m) /\ UNCHANGED replayVars)
    /\ \A m \in Members, p \in Partitions :
          /\ WF_allVars(NoticeLost(m, p) /\ UNCHANGED replayVars)
          /\ WF_allVars(p \notin has[m] /\ Expire(m, p) /\ UNCHANGED replayVars)
    /\ \A p \in Partitions :
          SF_allVars((\E m \in Members : Assign(m, p)) /\ UNCHANGED replayVars)
    /\ \A a \in Operators : WF_allVars(Replaying(a))
-----------------------------------------------------------------------------
ReplayTypeOK ==
    /\ ConsumerTypeOK
    /\ rpc \in [Operators -> {"get", "publish", "mark", "marked"}]
    /\ queue \in [Operators -> SUBSET LetterIds]
    /\ entry \in [Operators -> SUBSET LetterRows]
    /\ replays \subseteq [id : LetterIds, partition : Partitions, offset : Offsets]

\* Publish, then mark: a row is 'replayed' only once a record with its exact
\* bytes is back on the log, whichever operator put it there and died.
MarkedAfterRepublish ==
    \A d \in deadLetters : d.state = "replayed" =>
       \E r \in replays :
          /\ r.id = d.id
          /\ r.offset < Len(log[r.partition])
          /\ log[r.partition][r.offset + 1] = d.payload

\* An operator's run has the event, a dead letter that can be stored, still
\* before it, and nobody is about to mark it (for that, see ReplayedNotStranded).
ToReplay(a, id) ==
    /\ id \in queue[a]
    /\ \E d \in deadLetters : d.id = id /\ d.state = "dead" /\ Storable(d.payload)
    /\ \A b \in Operators : \A d \in entry[b] :
          d.id = id => rpc[b] \notin {"mark", "marked"}

\* The run has come to the end of the bounded log first.
NoRoom(a, id) ==
    /\ rpc[a] = "publish"
    /\ id \in queue[a] \cup {d.id : d \in entry[a]}
    /\ \E d \in entry[a] : Len(log[PartitionOf[d.id]]) = MaxLog

\* A copy stood in a batch behind a record that failed (see NothingLost).
PolledPast(id) ==
    \E r \in replays : r.id = id /\ <<r.partition, r.offset>> \in abandoned

\* What an outage had refused is applied after all once the outage is over: an
\* event that a run of replay then has on its list is in the sink in the end,
\* however old the list and whatever the group refuses, applies or has handed
\* out meanwhile.  The outage is over when the last fault is spent: from then
\* on nothing fails.
ReplayedIsApplied ==
    \A a \in Operators, id \in EventIds :
       ToReplay(a, id) /\ faults = MaxFaults
         ~> \/ \E r \in processed : r.id = id
            \/ PolledPast(id) \/ NoRoom(a, id)

\* A row in state 'replayed' is not stale: its event was applied, or a
\* replayed record of it is still ahead of the group.  A replayed event that
\* failed again must not report as 'replayed' for ever (sink/deadletter.go).
ReplayedNotStranded ==
    \A d \in deadLetters : d.state = "replayed" =>
       \/ \E r \in processed : r.id = d.id
       \/ \E r \in replays : r.id = d.id /\ r.offset >= committed[r.partition]
=============================================================================
