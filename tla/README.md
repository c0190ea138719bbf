# A verification of the event stream platform

TLA+ modules that model the platform, the TLC runs that check them on
small instances, and TLAPS proofs that the safety properties hold for every value
of the constants. Everything is translated from the Go and SQL under `src/`; paths
below are relative to it.

## 1. The system

Vehicle positions travel one way:

    simulator/devices --HTTP--> ingest --produce--> raw topic --poll--> consumer group
         consumer --one transaction--> Postgres (history, map, dedup, dead letters)
         consumer --publish--> Redis Pub/Sub --> gateway --SSE--> browsers
         consumer --refusals--> DLQ topic and dead_letters --cmd/replay--> raw topic

| component | state it keeps | operations | what makes it correct |
|---|---|---|---|
| event contract (`internal/event`) | none | Decode, IsKnownEventType, AsVehiclePosition, Validate, Build, Accept | the consumer's checks partition all byte strings |
| sink (`internal/sink`, `platform/migrations/*.sql`, `platform/db`) | processed_events, vehicle_positions, vehicle_current, schema_versions, dead_letters | Apply, RecordDeadLetter, MarkReplayed; reads | an event has its whole effect once; the map equals the newest history row; no record is rewritten; concurrent transactions behave as if one at a time |
| consumer (`internal/consumer`, `cmd/consumer`) | fetch position and batch of each member, committed offsets (in the broker) | poll, processOne, publish, refuse, commit; rebalance callbacks; drain | what is committed is applied or recorded as refused; per-partition order; commits never go back; nothing is shown that is not stored |
| dead-letter replay (`internal/replay`, `cmd/replay`) | none beyond the rows and the log | list, show, replay one, replay all | a row says 'replayed' only when its bytes are back on the log; replaying is harmless |
| fan-out bus (`internal/fanout`) | a bounded channel per subscriber | Publish, Frames | best effort, never blocks the consumer |
| gateway (`internal/gateway`, `cmd/gateway`) | the set of clients, a bounded buffer each | register, broadcast, shed, resume, stream, unregister, Shutdown | a stream misses nothing or is ended; no gap at the seam of a resume; one slow browser stalls nobody |
| ingest (`internal/ingest`, `cmd/ingest`) | none | submit a batch | 202 means durable; a retry is harmless |
| broker (`platform/broker`) | the log | Produce, EnsureTopics | a failed batch is reported whole |
| migrations (`platform/migrations`, `cmd/migrate`) | schema_migrations, the topics | Up, Status, ensureTopics | every version takes effect once, in order, with its row; exit code 0 means ready; two runs do not defeat each other |
| http server (`platform/httpserver`) | dependency gauges, prober, listener | Start, /readyz, probe loop, Shutdown | verdicts and gauges follow the dependencies; Shutdown returns and leaves nothing running |
| viewer (`internal/gateway/viewer.html`) | the map, the last id | onFrame, EventSource's reconnect | the page agrees with `vehicle_current` and never runs ahead of it |
| simulator (`internal/simulator`, `cmd/simulate`) | vehicles on routes | tick, post | reports of a vehicle in order |
| configuration, ids, logging, metrics, error bodies | read once, or counters | | no property relates their state |

Interaction is by calls (consumer to sink, gateway to history), by messages that
may be lost or repeated (the log, Pub/Sub, SSE), by shared state under a lock
(the gateway's client set) and by callbacks (the group client's). The behaviours
that are hard to test: two members that both believe they own a partition, an
answer lost after a commit, a refusal half recorded, a batch that stops early, an
operator racing the consumer, a resume racing the bus, a shutdown racing a
connect, two migrations at once, readiness checks that overlap. PROJECT.json lists each at its line under `hazards`.

## 2. The modules

| module | models | extends |
|---|---|---|
| `Event` | payloads by the checks they pass (`internal/event/envelope.go`) | |
| `Sink` | the sink as its callers see it: each call one atomic step on the tables, then the reading of its result | `Event` |
| `SinkTx` | `Store.Apply` statement by statement with Postgres's row locks, rollback and commit | `Sink` |
| `Consumer` | members, group client, coordinator, DLQ, offsets | `Sink` |
| `Replay` | operators running `cmd/replay` beside the group | `Consumer` |
| `Gateway` | fan-out loop, streams, resumes, shutdown | |
| `Ingest` | callers posting and reposting batches, the handler, the produce | |
| `Pipeline` | consumers, bus, gateway and the viewer page together | `Consumer`, instance of `Gateway` |
| `SchemaLadder` | what the migrations runner promises of the database | |
| `Migrate` | several runs of `cmd/migrate` against one database and one broker | instance of `SchemaLadder` |
| `HttpServer` | readiness requests, the prober, the gauges, Shutdown | |
| `SinkProofs`, `SinkTxProofs`, `ConsumerProofs`, `GatewayProofs`, `IngestProofs`, `HttpServerProofs`, `MigrateProofs` | theorems about the module of that name | that module |
| `CompositionProofs` | theorems about `Replay` and `Pipeline` | both, and `ConsumerProofs` |
| `MC*` | payload sets, partitioners, orders and symmetry for TLC | |

Three abstract specifications are implemented by more detailed ones. `Sink` is
implemented by `SinkTx`, and by `Consumer` and `Replay`, which use it only through its
calls (`SinkSpec` as a property). `SchemaLadder` is implemented by `Migrate`
(`ClimbsTheLadder`). And `Gateway`, in which events enter the history and are
published at any time, is implemented by `Pipeline`, in which the consumers decide
(`GatewayServed`): the gateway's results hold of the composition, because the
consumers keep to what it takes for granted. All of these are checked and proved.

**Event and Sink.** A payload is a record of its kind (how far the bytes get:
`null`, `blank`, `garbled`, `unknown`, `invalid`, `unstorable`, `position`), its
event id, vehicle and event time. A table is a set of rows, so that a primary key
is something the statements have to keep. `Apply`, `RecordDeadLetter` and
`MarkReplayed` leave their result in `outcome`; `Return` is the caller reading
it, so that a caller may die with it unread. `transient` with the effect is the
answer lost after COMMIT; `CallFails` is a failure before it. Two facts about
Postgres enter as definitions: `Storable` (classes 22 and 23 are what
`isPermanent` recognises) and, in `SinkTx`, that a conflicting insert waits for
the transaction that holds the row (`HoldsEvent`, `HoldsVehicle`,
`HoldsVersions`).

**Consumer.** One program counter per member follows `Run`, `processBatch`,
`processOne`, `publish` and `refuse`; every call that can fail or be interrupted
is a step. `pos` is the group client's fetch position, which follows what was
handed out and not what was committed: a record the loop broke off at is behind
it, and when the next poll passes it the model puts it in `abandoned`.
`BlockRebalanceOnPoll` is the guard `Rebalancing`; a session may still expire in
the middle of a batch (`Expire`), after which the member works on without owning
the partition and the broker refuses its commits. A cancelled context makes
every later call fail; a call in flight at the signal that still succeeds is one
that ended before it. A rebalance, a crash, a signal and an error each use up one
of `MaxFaults`; an operator or member that only goes on does not.

**Replay.** `ReplayId` and `ReplayAll` choose the ids, the latter `Limit` at most; `GetEntry`, `Republish`,
`CallMark`, `ReadMark` are the steps of `Replay` for each (`Replaying`), and `Interrupt` kills
the tool between any two. `GetEntry` reads the row again, so that a row which was replayed since
the list was read is skipped; an error of any step ends the entry and not the run
(`NextEntry`).

**Gateway.** What holds the mutex is one step (`Register`, `Broadcast` with
`DropLocked`, `Unregister`, `Shutdown`); the two history reads of a resume and
every write are steps of their own. A browser has one stream at a time and
remembers the last id it got. The clock is not modelled: whether an id is inside
the replay window is a free choice (`StartFresh`). `Earlier` are events that were out
before the gateway started, so that a browser may come with an id from then;
`others` counts the streams of viewers that are not followed, which take and give
back slots at any time (`OthersComeAndGo`). `WriteTimeout` is 0 for
streams, so a write to a browser that does not read may take for ever: handlers
have no fairness. The refusal at the cap is answered without any change of state
and is the guard `Room`. `cut` marks a resume that met `ReplayLimit`.

**Ingest.** `Batch` is what a caller posts: reports `next` to `next + size - 1` of its
list, in order. `HandleSubmit` is the handler up to the first record: the batch is
refused whole when it is too large, and otherwise each report is judged on its
own and the valid ones become records (`Records`) under their own or a minted id
(`Identity`), which `todo` holds until they are in the log. A record keeps the number
of its report, and `Deliver` appends the one with the lowest of its partition,
so that whatever ends the request (`Unavailable`, `AnswerLost`, `Restart`) leaves
a prefix of each partition's records in the log. Records that the broker client
still appends for a lost request are taken as appended before the loss, which is
sound because they precede whatever that caller posts next. A caller has one
request at a time; after a failure it posts the same batch again, which is what
the 503 asks for, or gives it up, which is what `cmd/simulate` does. All refusals
that precede the reports (method, body, JSON, size) are one, `TooLarge`.

**Pipeline.** `PublishFrame` is the consumer's publish with what the bus makes of it,
`ConsumerStep` every other step of `Consumer`, `Show` a step of `Gateway` together with
the page's `onFrame` when the step brought a frame. The history of `Gateway` is the set
of ids in `positions`, and what it calls `tried` is `published`. A frame's vehicle and time
are functions of its id (`PipelineAssumption`), as they are when producers do not reuse
ids. `GatewayConstants` says of the composition's constants what `Gateway` assumes of
its own. A page that is loaded anew is another browser.

**Migrate.** A run goes through the topics and then the migrations, as its command
says; every call on the broker and every statement on the database is a step, and
the retry of the topics is bounded by `Attempts`. `ddl` is the committed effect of the
bodies, `recorded` the rows of `schema_migrations`. Of Postgres the model has the table
locks that DDL holds to the end of its transaction (`Altering`), the primary key of
`schema_migrations` (`Record`), and that `CREATE TABLE IF NOT EXISTS` looks first and
creates afterwards, so that one of two may fail (`CreateTable`). Which bodies can run
again without an error is the constant `Rerunnable`: 0001 cannot, 0002 and 0003 can, so
that only the bookkeeping row keeps 0002 from converting a payload twice.

**HttpServer.** A caller is a readiness request or the prober; a round starts one
check per dependency (`RunChecks`), whose answers come in any order (`Answer`) and are
collected one at a time into the shared gauges (`Collect`). Dependencies go down and
come back at any moment (`Flip`); a client that hangs up cancels its checks, which then
fail. `Shutdown`, `Drained`, `Returned` are the steps of Shutdown.

Definitions with a comment that starts with `(mutant)` are plausible bugs, each
placed before the definition it would replace; a property is only worth its run
when its mutant breaks it. They are part of no specification.

## 3. The runs

| run | instance | what it shows |
|---|---|---|
| `sink_tx` | 3 connections, 2 events of 2 vehicles in 3 payloads (one reuses an id for another vehicle), one poison payload | the transaction implements `SinkSpec`; what it read still holds when it commits (`LocksHeld`); an event has its whole effect once (`EffectWhole`) and the map is the newest of the history (`NoDrift`); every call returns (`CallsReturn`), so no cycle of waits |
| `consumer` | 2 members, 1 partition, 2 records, 6 payloads (2 storable, 3 refused, 1 that can be neither), batches of 2, 1 retry, 3 faults | `CommittedSettled`, `AppliedInOrder`, `Traceable`, `NoPhantomFrame`, `LetterHasCopy`, `CommitsAdvance` with crashes, drains, expiries and rebalances |
| `replay` | 1 operator, 1 member, 2 partitions, batches that span both, 3 faults | `MarkedAfterRepublish`; one partition's failure does not leak into another's commit (`CommittedSettled`); the sink is used only through its calls (`SinkSpec`) and no row is rewritten (`RecordKept`); `ReplayedIsApplied`: an event that a run of replay has before it is in the sink in the end once the outage is over; `EventuallyHandled` |
| `gateway` | 1 browser and others for 1 slot, 1 earlier event and 3 new ones, 2 of the same second, resumes of at most 2 | `NoSkippedFrame`, `ResumeGapless`, `CutIsResumable`, `ClientsAreOpen`, and `FeedDrains` though no browser need ever read |
| `ingest` | 2 callers, 5 reports of 2 vehicles on a partition each, batches of 2, 2 faults | `AcceptedIsLogged`, `RetriesAreDuplicates`, `VehicleInOrder` through partial acknowledgement, lost answers, restarts and retries of whole batches |
| `pipeline` | 1 member, 1 partition, 2 events of a vehicle, 1 fault, 1 browser | `GatewayServed`: the consumer is the environment the gateway is written for; `MapTracksStore`: the page never runs ahead of `vehicle_current`, and agrees with it once it was sent everything |
| `migrate` | 2 runs at once, and again, of any command, 3 versions, 2 topics, 2 attempts, 1 fault | `ClimbsTheLadder`, `SuccessMeansReady`, `NoMutualDefeat`, and `RunsEnd` |
| `http_server` | 2 dependencies, a client's readiness requests beside the prober | `VerdictHonest`, `QuietAfterStop`, `GaugeFollows` and `ShutdownReturns` |

Four runs end in a violation, each of one sentence the repository says of itself
(quoted in PROJECT.json under `findings`):

| run | the disagreement |
|---|---|
| `consumer_loss` | a record whose apply fails until the retries are used up, and whose refusal fails as well, is polled past by the same process, and the next commit covers it (`consumer.go:207`) |
| `replay_race` | a replayed record is refused before the operator marks its row, and the mark overwrites the refusal (`replay.go:284`) |
| `gateway_late` | an event that is applied while a browser is away and is older than the last one it saw is never sent to it (`gateway.go:458`) |
| `gateway_shutdown` | a browser that connects between `Gateway.Shutdown` and the closing of the listener gets no closing frame (`cmd/gateway/main.go:193`) |

Smaller disagreements that can be read off the models without a run of their own:

- SIGTERM abandons the batch in flight, commit included, where `docs/DESIGN.md:380`
  has it finished (`Cancelled`, `EndOfGroup`, `CallOK`);
- a replayed event is keyed by its event id (`PutBack`, `replay.go:266`), so it may land
  on another partition than its vehicle's, where ADR-005 has all of a vehicle's events
  on one; `NoDrift` holds whatever the order, so the map does not suffer;
- an undecodable record that is replayed is refused under a new position's id, so
  its first row stays 'replayed' (`LetterId`), without any race; `replay_race` has an
  event with an envelope, and shows the race;
- a record with no value can be neither applied nor refused
  (`consumer/deadletter.go:56`): it ends its batch whenever it is delivered, and is then
  polled past like the record of `consumer_loss`. It is a payload of `consumer` and `replay`;
- what stands in a batch behind a record that failed is polled past with it. If that is
  the copy a replay has put back, the row says 'replayed' and the event is not applied
  (`PolledPast`, which `ReplayedIsApplied` excuses);
- a report without an id gets a new one each time it is posted, where
  `ingest/handler.go:197-199` says of the retry that every event keeps its event_id
  (`Identity`; `RetriesAreDuplicates` excuses it);
- a resume that meets `ReplayLimit` is announced complete (`cut`). What it left out is
  ahead of the browser while the resume is written (`CutIsResumable`), and behind it for
  good after the first live frame;
- a frame that is dropped before the gateway's channel (`fanout.go:176`) is covered by
  "the client's resume path" only when no newer frame follows it: the newer one
  moves the resume point past it;
- a shed stream gives up its slot while its handler may still be blocked in a
  write (`DropLocked`), so sockets are not bounded by `MaxClients`;
- `migrate status` creates `schema_migrations` (`EnsureTable`), where
  `migrations.go:114` and `cmd/migrate/main.go:12` have it change nothing, and
  may make a concurrent first `up` fail on it; `NoMutualDefeat` excuses that end
  (`no_table`), since no version was lost;
- a client that hangs up on `/readyz` cancels its checks, whose failures set the
  gauges to 0 although the dependency is up (`Collect`); `GaugeFollows` therefore only
  says that they come back;
- of two events of a vehicle with the same time the store keeps the first (strict
  `>`), the page the last (`>=`, `viewer.html:129`); `MapTracksStore` compares times.

`consumer` and `replay` hold *because* `CommittedSettled` and `EventuallyHandled` excuse
what is in `abandoned`; `consumer_loss` is the former without the excuse.

`ReplayedIsApplied` and `replay_race` speak of the same event on both sides of a line.
A row that is marked, or about to be, may belong to an event that was refused again
meanwhile, and no operator will replay it any more. Before that point a run will publish
the event, and the group applies it: the formula asks this of every run that has the
event before it (`ToReplay`) when the outage is over, that is when the last fault has been
spent (`faults = MaxFaults`). That is no loss, as an outage with fewer faults is one with a
member restarted first. What it excuses is the end of the bounded log (`NoRoom`) and
`PolledPast`.

**Bounds, and why they are enough.** Every property but the per-vehicle ones
relates at most two records, two actors, or one record at two moments. Two log
records per partition are a prefix, a failure and a successor; two members are
an owner and one that has not noticed; three faults are a failure, its retry and
a disruption (in `consumer_loss`: both attempts and the refusal; in `replay`: the two
that have an event refused, and one more at any step of the replay or of the group); two partitions are one that fails and one that does not. One retry
is a first attempt and a last one. `replay` has one operator, who may be killed and
start over: two would only repeat what a rerun after a kill does to the row and
the log, except for a mark that finds the row marked, which changes nothing.
(`ReplayedIsApplied` was also checked on its own with four faults, with two operators, and
with a list of two entries, one of which is refused again; one instance of each question
is kept.) In
the gateway a buffer of one frame is full after one frame, one slot is contended
by the browser and the others, two events of the same second need the resume's
tiebreak, and three that are newer than an earlier one exceed a limit of two
(`gateway_late` has its own instance without the limit). In `ingest` a batch of two is
one record acknowledged and one not, a batch of three is too large, and the
longer caller has both a report that is refused between two of a vehicle and one
without an id. In `pipeline` two events are one on time and one late, and the one
fault is a crash, a lost answer or an expiry around the publish. In `migrate` three
versions are the ones the binary embeds, two runs are a winner and a loser, and
one fault is a kill, a failed call or a lost commit. In `http_server` two
dependencies are one that fails and one that does not. `MaxLog`, `MaxFaults`,
`BatchSize`, `MaxRetries`, `BusBuffer`, `ClientBuffer`, `ReplayLimit`, `Attempts` and
`MaxBatchSize` are the bounds; only `MaxLog` and `MaxFaults` have no counterpart in the
code.

**Deadlock.** Checked for everything but the consumer and replay runs, where it is
off: an idle group in front of a bounded log that is full and handled has nothing
to do.

**Fairness.** `TxFairSpec`: each connection's next statement, strongly, because
Postgres queues a row's waiters. `ConsumerFairSpec`: a process runs and is
restarted (weak, on the loop), a session that is dead times out and a client
learns that it lost a partition (weak), an unowned partition is given to a live
member (strong, since members are in a batch again and again). Producers,
signals, crashes and rebalances are never fair. `ReplayFairSpec` adds that a tool which was
started goes on (weak, on `Replaying`), since its calls return or fail; starting one is
never fair. `GatewayFairSpec`:
only the fan-out loop. `MigrateFairSpec`: a run that can go on does (weak); nobody
need start another. `HttpFairSpec`: checks end, since they run under a timeout, the
ticker ticks and Shutdown goes on (weak), and the prober's `done` case is taken if it
is ready again and again (strong), because Go's select picks at random.

## 4. The proofs

Every safety invariant and every action property the passing runs check, and every
refinement, is a theorem for all values of the constants.

| theorem | it proves of | |
|---|---|---|
| `SinkProofs!SinkSafety` | `SinkSpec` | `SinkTypeOK`, `PrimaryKeys`, `EffectWhole`, `NoDrift` |
| `SinkProofs!SinkRecordKept` | `SinkSpec` | `RecordKept` |
| `SinkTxProofs!TxLocks` | `TxSpec` | `TxTypeOK`, `LocksHeld` |
| `SinkTxProofs!TxImplementsSink` | `TxSpec` | `SinkSpec` |
| `ConsumerProofs!ConsumerSafety` | `ConsumerSpec` | `ConsumerTypeOK`, `CommittedSettled`, `AppliedInOrder`, `Traceable`, `NoPhantomFrame`, `LetterHasCopy` |
| `ConsumerProofs!ConsumerCommitsAdvance` | `ConsumerSpec` | `CommitsAdvance` |
| `ConsumerProofs!ConsumerImplementsSink` | `ConsumerSpec` | `SinkSpec` |
| `CompositionProofs!ReplaySafety` | `ReplaySpec` | `ReplayTypeOK`, `MarkedAfterRepublish`, and the consumer's five |
| `CompositionProofs!ReplayImplementsSink` | `ReplaySpec` | `SinkSpec` |
| `CompositionProofs!ReplayKeepsRecord` | `ReplaySpec` | `RecordKept` |
| `CompositionProofs!PipelineServesGateway` | `PipelineSpec` | `GatewayServed` |
| `CompositionProofs!PipelineTracksStore` | `PipelineSpec` | `MapTracksStore` |
| `GatewayProofs!GatewaySafety` | `GatewaySpec` | `GatewayTypeOK`, `ClientsAreOpen`, `NoSkippedFrame`, `ResumeGapless`, `CutIsResumable` |
| `IngestProofs!IngestSafety` | `IngestSpec` | `IngestTypeOK`, `AcceptedIsLogged`, `RetriesAreDuplicates`, `VehicleInOrder` |
| `HttpServerProofs!HttpSafety` | `HttpSpec` | `HttpTypeOK`, `VerdictHonest`, `QuietAfterStop` |
| `MigrateProofs!MigrateSafety` | `MigrateSpec` | `MigrateTypeOK`, `SuccessMeansReady`, `NoMutualDefeat` |
| `MigrateProofs!MigrateClimbs` | `MigrateSpec` | `ClimbsTheLadder` |

They assume what the modules state about their constants (the `ASSUME`s, which TLC
evaluates on every run) and nothing else: the sets of events, workers, members,
browsers, vehicles and times may be infinite, partitions, buffers, batches, retries
and faults of any size. The one assumption that is there for a proof is that the
events which were out before the gateway started are finitely many (`Earlier`), as the
rows of a table are; that the history stays finite is needed where a resume counts
what comes before a row.

*The sink.* `SinkInv` is inductive as it stands, but no conjunct is alone: that a
new event's history row is new needs `EffectWhole` (no dedup row, hence no history
row), that the counter stays the number of rows needs the history to be finite,
and that the map stays right after a late event needs `NoDrift` of the state
before. `EffectKeeps` is the one step that writes four tables; all the others
leave the history alone (`SameHistory`) or write dead letters only
(`LettersWithKeeps`, `MarkKeeps`).

*The transaction.* A COMMIT must be an `Apply` of the tables as they are then,
though the transaction read them statements ago. `LocksHeld` carries each
finding forward: the event is still new, the vehicle's row is still the one that
was compared, the counter is still the one that was read, because no other
transaction holds, or can have held, the lock since. It is inductive with the
type invariant (`TxInv`), one lemma per statement, and `TxStepSimulates` then maps
a commit or a failure to a step of `SinkNext` and everything else to a stutter.
With `SinkSafety`, every safety property of the sink holds of the transaction.

*The consumer.* `CommittedSettled` is not inductive: a commit is right because of what
the member did before it, possibly after it lost the partition. `ConsumerInv` says of
each member (`MemberInv`) that below its cursor everything is handled, that an owner's
cursor is not behind what is committed (`Cursor`), and what it has already done for
the record under the cursor, by the call it is at (`AtRecord`). No member can take
this from another, because what they share only grows: log, history, dead letters,
DLQ topic and `abandoned` (`Grown`, `MemberStays`, `SharedStays`). So each
action's lemma speaks of the one member that takes it, and `FinishesRecord` is the
step every way of being done with a record goes through. `CommitsForward` then needs
`Cursor` of the owner, the only one whose commit the broker takes. `ConsumerCallsSink`
maps the steps to the sink's.

*Replay.* An operator works on a copy of a row that may be refused again, marked or
read by others meanwhile. It may rely on the row keeping its id and bytes (`Held`) and on
the log keeping what was put back (`BackOnLog`), which is what the mark
needs. Everything else an operator does is invisible to `ConsumerInv` (`Grown` again),
so what is proved of the group holds beside it.

*The composition.* `Gateway` takes for granted that an event enters the history
before it is published and is published once. The first is `NoPhantomFrame`'s reason;
the second is not a property of any one member, since all that are given an event
may be about to show it. `ShowOnce` has the argument: the one whose `Apply` found the
event new has its name on the dedup row for good, only it can reach the publish,
and it leaves there by the step that publishes. With `GroupInv` every step of
`Pipeline` maps to one of `Gateway` or to a stutter. `PipelineServesGateway` and
`GatewaySafety` together give the streams' promises end to end: `GatewaySafety`'s
assumption, with the composition's constants, is `GatewayConstants`. (The two are
not combined in one formula, since tlapm does not take the theorems of an instance as
facts.) For `PipelineTracksStore`, whatever is on its way to a page is in the history
(`OnTheWay`), and a map drawn from a set of events has one of the newest of each
vehicle (`Drawn`), whatever order they came in; `NoDrift` says the same of
`vehicle_current`.

*The gateway.* A stream that was not shed has every frame sent, buffered, or still to
be broadcast (`Covered`); a resumed one also what its two reads brought (`Missing`). The
delicate part is the limit: what a resume leaves out must come after everything it
still has to write (`LeftOut`), or the id a browser is left with would skip it.
`OldestFirst` is the fact about the query that makes it so.

*Ingest.* That a copy appended late is never a first one needs the state of a
batch that is posted again: whatever of the caller's batch is in the log stands behind the
same vehicle's earlier reports of that batch (`RunInv`), in the partition `PartitionOf`
names. `RecordsInv` says that records are faithful to their reports and that an id, minted
or not, is of one report; `BatchInv` that nothing of a batch in flight is forgotten.

*The http server.* A round of checks does not forget (`Told`): a dependency whose check
is not pending has left an answer to collect, was up, or has made the round fail.
`Stopping` orders the drain and the end of the prober.

*Migrations.* A run applies what its one status query did not find, however long ago
that was. Its commit is the next rung all the same, because it never looks more than
one version past what is recorded (`Rungs`) and of the runs past a version's body
only one is left (`Alone`, which Postgres's table locks give), whose insert of the
bookkeeping row fails if the version is in by then. `NoMutualDefeat` needs `Climbing`:
while no call fails, a ladder that was begun has somebody at its top.

Each inductive invariant was checked by TLC on the run of its module before it was
proved. Only model-checked, for good, is what is temporal with fairness (`CallsReturn`,
`EventuallyHandled`, `ReplayedIsApplied`, `FeedDrains`, `RunsEnd`, `GaugeFollows`,
`ShutdownReturns`): the prover has no ENABLED, so weak and strong fairness are out of its
reach.

## 5. Not modelled

`vehicle_current` and dead-letter queries that only read (`handleCurrent`,
`CurrentPosition`, `DLQDepth`, list, show, the lag reporter); configuration, which is
parsed once at start; logging, metrics other than the dependency gauges, ids and
error bodies; what the page draws besides the map; test support. Of the simulator
only what a worker posts and makes of the answer is in `Ingest`: the routes'
geometry is numeric and random, and its pacing, queue and counters serve a
benchmark's summary. Two things about its workers can be seen without a model: the
context is cancelled before they drain, so what is then queued or in flight fails
uncounted (`cmd/simulate/main.go:153`), and a report's time is taken when a worker
posts it, so concurrent workers may reorder a vehicle (`cmd/simulate/main.go:313`).
The fan-out's silent drop (`fanout.go:176`) is in the model, and the properties are
about frames that entered the gateway's feed.

Three retries and late arrivals below the code are left out, since no property tells
them apart: the Redis client may send a PUBLISH twice after a timeout (what a browser
saw is a set of frames), the fan-out loop also ends when its channel is closed
(`LoopEnds` has the signal; to a browser it is the drop in `Publish`), and a connection
accepted just before a drain may still begin a request (`Request` is in phase `up`; the
drain waits for it or times out as for any other).

## 6. Plan

All components whose state matters are modelled, and what the runs check of safety is
proved. Worth adding:

1. an abstract specification of what ingest promises of the log (a caller's reports in
   order per vehicle, copies under one id), implemented by `Ingest`, with `Consumer`
   reading a log that keeps to it: this would close the way from the device to the page;
2. the operators of `Replay` in `Pipeline`, so that a replayed event's frame is followed
   to the page;
3. the steps of a liveness argument that are themselves safety: a variant that
   every step of the loop decreases (`EventuallyHandled`), under which the fairness
   argument is short enough to be made by hand.
