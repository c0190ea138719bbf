------------------------------ MODULE Migrate ------------------------------
(***************************************************************************)
(* The setup step (cmd/migrate): runs of `migrate`, several at a time and  *)
(* again and again, each of which ensures the broker's topics and applies  *)
(* the pending migrations.  Nothing but Postgres and the broker arbitrates *)
(* between two runs: a migration is one transaction, its DDL takes the     *)
(* table locks it needs until that ends, and its bookkeeping row has the   *)
(* version as primary key.                                                 *)
(***************************************************************************)
EXTENDS Integers, Sequences, FiniteSets

CONSTANTS Runners,      \* processes that run `migrate`
          Topics,       \* the topics of the specification
          Want,         \* the partition count each is configured with
          LastVersion,  \* the embedded migrations are 1 .. LastVersion
          Rerunnable,   \* those whose body succeeds on a schema that has it
          Attempts,     \* attempts at ensuring the topics
          MaxFaults     \* bound: failed calls and killed runs in a behaviour

ASSUME MigrateAssumption ==
    /\ Want \in [Topics -> Nat \ {0}]
    /\ LastVersion \in Nat \ {0}
    /\ Rerunnable \subseteq 1 .. LastVersion
    /\ Attempts \in Nat \ {0}
    /\ MaxFaults \in Nat

Versions == 1 .. LastVersion

VARIABLES
    parts,      \* the broker: partitions of each topic, 0 when it is absent
    table,      \* schema_migrations exists
    recorded,   \* its rows
    ddl,        \* the bodies whose effect is committed, in order
    mpc,        \* where each run is
    cmd,        \* the command it was given
    tries,      \* attempts at the topics so far
    listed,     \* topics its listing found, or it has ensured since
    done,       \* versions its status query found applied
    at,         \* the version it has come to
    faults      \* faults so far

database == <<table, recorded, ddl>>
runVars  == <<tries, listed, done, at>>
migrateVars ==
    <<parts, table, recorded, ddl, mpc, cmd, tries, listed, done, at, faults>>

Commands == {"all", "up", "status", "topics"}

\* How a run may end: with exit code 0, or on the error named.
Ended == {"ok", "no_topics", "no_table", "pending", "failed", "killed"}

Running(r) == mpc[r] \notin Ended

MigrateInit ==
    /\ parts \in [Topics -> UNION {{0, Want[t]} : t \in Topics}]
    /\ table = FALSE
    /\ recorded = {}
    /\ ddl = <<>>
    /\ mpc = [r \in Runners |-> "killed"]
    /\ cmd = [r \in Runners |-> "all"]
    /\ tries = [r \in Runners |-> 0]
    /\ listed = [r \in Runners |-> {}]
    /\ done = [r \in Runners |-> {}]
    /\ at = [r \in Runners |-> 0]
    /\ faults = 0
-----------------------------------------------------------------------------
Fault   == faults < MaxFaults /\ faults' = faults + 1
NoFault == UNCHANGED faults

Goto(r, l) == mpc' = [mpc EXCEPT ![r] = l]

\* `migrate <cmd>`: what it needs decides where it begins.
Run(r, c) ==
    /\ ~Running(r)
    /\ Goto(r, IF c \in {"all", "topics"} THEN "list" ELSE "ensure")
    /\ cmd' = [cmd EXCEPT ![r] = c]
    /\ tries' = [tries EXCEPT ![r] = 1]
    /\ listed' = [listed EXCEPT ![r] = {}]
    /\ done' = [done EXCEPT ![r] = {}]
    /\ at' = [at EXCEPT ![r] = 0]
    /\ UNCHANGED <<parts, database, faults>>

\* SIGTERM, or the process dies; an open transaction is rolled back.
Kill(r) ==
    /\ Running(r)
    /\ Fault
    /\ Goto(r, "killed")
    /\ UNCHANGED <<parts, database, cmd, runVars>>
-----------------------------------------------------------------------------
\* (mutant) The attempt is not counted.
TryAgainForever(r) ==
    /\ Goto(r, "list")
    /\ listed' = [listed EXCEPT ![r] = {}]
    /\ UNCHANGED tries

\* ensureTopics after an attempt that failed, whatever the reason.
TryAgain(r) ==
    /\ listed' = [listed EXCEPT ![r] = {}]
    /\ IF tries[r] < Attempts
       THEN tries' = [tries EXCEPT ![r] = @ + 1] /\ Goto(r, "list")
       ELSE UNCHANGED tries /\ Goto(r, "no_topics")

\* A call on the broker fails: no connection, a timeout, metadata not there.
BrokerFails(r) ==
    /\ mpc[r] \in {"list", "create", "describe"}
    /\ Fault
    /\ TryAgain(r)
    /\ UNCHANGED <<parts, database, cmd, done, at>>

\* EnsureTopics: the topics that exist are left alone.
ListTopics(r) ==
    /\ mpc[r] = "list"
    /\ listed' = [listed EXCEPT ![r] = {t \in Topics : parts[t] # 0}]
    /\ Goto(r, "create")
    /\ UNCHANGED <<parts, database, cmd, tries, done, at, faults>>

\* EnsureTopics: one request for each of the others.  TopicAlreadyExists is
\* the outcome wanted; an error may hide a topic that was created.
CreateTopic(r, t) ==
    /\ mpc[r] = "create"
    /\ t \notin listed[r]
    /\ parts' = [parts EXCEPT ![t] = IF @ = 0 THEN Want[t] ELSE @]
    /\ \/ /\ NoFault
          /\ listed' = [listed EXCEPT ![r] = @ \cup {t}]
          /\ UNCHANGED <<mpc, tries>>
       \/ Fault /\ TryAgain(r)
    /\ UNCHANGED <<database, cmd, done, at>>

TopicsEnsured(r) ==
    /\ mpc[r] = "create"
    /\ listed[r] = Topics
    /\ Goto(r, "describe")
    /\ UNCHANGED <<parts, database, cmd, runVars, faults>>

AfterTopics(r) == IF cmd[r] = "topics" THEN "ok" ELSE "ensure"

\* (mutant) A topic that exists is taken to have the right shape.
DescribeTopicsTrusting(r) ==
    /\ mpc[r] = "describe"
    /\ Goto(r, AfterTopics(r))
    /\ UNCHANGED <<parts, database, cmd, runVars, faults>>

\* DescribeTopics, and the partition counts asserted.
DescribeTopics(r) ==
    /\ mpc[r] = "describe"
    /\ IF parts = Want THEN Goto(r, AfterTopics(r)) /\ UNCHANGED <<tries, listed>>
                       ELSE TryAgain(r)
    /\ UNCHANGED <<parts, database, cmd, done, at, faults>>
-----------------------------------------------------------------------------
\* ensureTable.  CREATE TABLE IF NOT EXISTS looks for the table first and
\* creates it then; of two that both found none, one fails on the catalogue.
EnsureTable(r) ==
    /\ mpc[r] = "ensure"
    /\ Goto(r, IF table THEN "status" ELSE "creating")
    /\ UNCHANGED <<parts, database, cmd, runVars, faults>>

CreateTable(r) ==
    /\ mpc[r] = "creating"
    /\ table' = TRUE
    /\ Goto(r, IF table THEN "no_table" ELSE "status")
    /\ UNCHANGED <<parts, recorded, ddl, cmd, runVars, faults>>

\* Status: what is applied is read once, before anything is applied.
Status(r) ==
    /\ mpc[r] = "status"
    /\ done' = [done EXCEPT ![r] = recorded]
    /\ Goto(r, IF cmd[r] # "status" THEN "up"
               ELSE IF Versions \subseteq recorded THEN "ok" ELSE "pending")
    /\ UNCHANGED <<parts, database, cmd, tries, listed, at, faults>>

Ahead(r) == {v \in Versions \ done[r] : v > at[r]}

\* (mutant) The loop returns after the first version it applied.
NextVersionOnce(r) ==
    /\ mpc[r] = "up"
    /\ IF Ahead(r) = {} \/ at[r] # 0
       THEN Goto(r, "ok") /\ UNCHANGED at
       ELSE \E v \in Ahead(r) :
               /\ \A u \in Ahead(r) : v <= u
               /\ at' = [at EXCEPT ![r] = v]
               /\ Goto(r, "body")
    /\ UNCHANGED <<parts, database, cmd, tries, listed, done, faults>>

\* Up: the loop over the embedded migrations.
NextVersion(r) ==
    /\ mpc[r] = "up"
    /\ IF Ahead(r) = {}
       THEN Goto(r, "ok") /\ UNCHANGED at
       ELSE \E v \in Ahead(r) :
               /\ \A u \in Ahead(r) : v <= u
               /\ at' = [at EXCEPT ![r] = v]
               /\ Goto(r, "body")
    /\ UNCHANGED <<parts, database, cmd, tries, listed, done, faults>>

\* (mutant) A migration that failed is reported and the loop goes on.
FailContinues(r) == Goto(r, "up")

\* Up returns at the first failure; BeginFunc has rolled back.
Fail(r) == Goto(r, "failed")

InDdl(v) == \E i \in DOMAIN ddl : ddl[i] = v

\* A transaction that has run a body keeps others from the tables it altered.
Altering(r, v) == mpc[r] \in {"record", "commit"} /\ at[r] = v

\* tx.Exec(body).  Everything stands on what version 1 creates.
Body(r) ==
    LET v == at[r]
    IN  /\ mpc[r] = "body"
        /\ \A u \in Runners \ {r} : ~Altering(u, v)
        /\ IF (v = 1 \/ InDdl(1)) /\ (InDdl(v) => v \in Rerunnable)
           THEN Goto(r, "record")
           ELSE Fail(r)
        /\ UNCHANGED <<parts, database, cmd, runVars, faults>>

\* (mutant) ON CONFLICT (version) DO NOTHING.
RecordQuietly(r) ==
    /\ mpc[r] = "record"
    /\ Goto(r, "commit")
    /\ UNCHANGED <<parts, database, cmd, runVars, faults>>

\* tx.Exec(INSERT INTO schema_migrations), which fails on a version that is
\* there.
Record(r) ==
    /\ mpc[r] = "record"
    /\ IF at[r] \in recorded THEN Fail(r) ELSE Goto(r, "commit")
    /\ UNCHANGED <<parts, database, cmd, runVars, faults>>

\* COMMIT; when its answer is lost the run fails on a version that is in.
Commit(r) ==
    /\ mpc[r] = "commit"
    /\ ddl' = Append(ddl, at[r])
    /\ recorded' = recorded \cup {at[r]}
    /\ \/ NoFault /\ Goto(r, "up")
       \/ Fault /\ Fail(r)
    /\ UNCHANGED <<parts, table, cmd, runVars>>

\* A call on the database fails, and with it the transaction it is in.
DatabaseFails(r) ==
    /\ Fault
    /\ \/ mpc[r] \in {"ensure", "creating", "status"} /\ Goto(r, "no_table")
       \/ mpc[r] \in {"body", "record", "commit"} /\ Fail(r)
    /\ UNCHANGED <<parts, database, cmd, runVars>>

Topic(r) ==
    \/ ListTopics(r)
    \/ \E t \in Topics : CreateTopic(r, t)
    \/ TopicsEnsured(r)
    \/ DescribeTopics(r)

Up(r) ==
    \/ EnsureTable(r)
    \/ CreateTable(r)
    \/ Status(r)
    \/ NextVersion(r)
    \/ Body(r)
    \/ Record(r)
    \/ Commit(r)

Step(r) == Topic(r) \/ Up(r)

MigrateNext ==
    \E r \in Runners :
       \/ \E c \in Commands : Run(r, c)
       \/ Step(r)
       \/ BrokerFails(r)
       \/ DatabaseFails(r)
       \/ Kill(r)

MigrateSpec == MigrateInit /\ [][MigrateNext]_migrateVars

\* A run that can go on does.  Nobody need ever start another one.
MigrateFairSpec == MigrateSpec /\ \A r \in Runners : WF_migrateVars(Step(r))
-----------------------------------------------------------------------------
MigrateTypeOK ==
    /\ parts \in [Topics -> Nat]
    /\ table \in BOOLEAN
    /\ recorded \subseteq Versions
    /\ ddl \in Seq(Versions)
    /\ mpc \in [Runners -> Ended \cup {"list", "create", "describe", "ensure",
                  "creating", "status", "up", "body", "record", "commit"}]
    /\ cmd \in [Runners -> Commands]
    /\ tries \in [Runners -> 0 .. Attempts]
    /\ listed \in [Runners -> SUBSET Topics]
    /\ done \in [Runners -> SUBSET Versions]
    /\ at \in [Runners -> 0 .. LastVersion]
    /\ faults \in 0 .. MaxFaults

\* "Running it twice is a no-op", twice at once too: the database climbs the
\* ladder, so that no body takes effect twice (0002 would convert payloads
\* that are converted), out of order, or without its bookkeeping row.
Ladder == INSTANCE SchemaLadder WITH schema <- ddl, versions <- recorded
ClimbsTheLadder == Ladder!LadderSpec

\* Exit code 0 is worth waiting for (compose starts the services on it): the
\* schema is at the last version and the topics have their configured shape,
\* whatever other runs did between this one's reading and its applying.
SuccessMeansReady ==
    \A r \in Runners : mpc[r] = "ok" =>
       /\ cmd[r] # "topics" => recorded = Versions
       /\ cmd[r] \in {"all", "topics"} => parts = Want

\* Two runs never defeat each other: when no call failed and nobody was killed
\* but a run gave up at a version, then once all have ended the schema is
\* current, because the version it lost was won by one that went on.
NoMutualDefeat ==
    /\ faults = 0
    /\ \A r \in Runners : ~Running(r)
    /\ \E r \in Runners : mpc[r] = "failed"
    => recorded = Versions

\* Every run ends, so that compose does not wait for ever: the attempts at the
\* topics are bounded though a topic of the wrong shape never gets better, and
\* no run waits for a table that nobody will release.
RunsEnd == \A r \in Runners : Running(r) ~> ~Running(r)
=============================================================================
