------------------------------- MODULE SinkTx -------------------------------
(***************************************************************************)
(* Store.Apply as Postgres runs it: one READ COMMITTED transaction of four *)
(* statements (db.InTx around store.go's closure), with the transactions   *)
(* of several consumers interleaved statement by statement.  What a        *)
(* statement reads is fixed when it runs, what the transaction writes is   *)
(* visible to others when it commits, and between the two only the row     *)
(* locks that the conflict clauses take keep other transactions out.  The  *)
(* locks are Postgres's (external): an insert that would conflict with an  *)
(* uncommitted row waits for that row's transaction to end.                *)
(*                                                                         *)
(* RecordDeadLetter and MarkReplayed are single statements, atomic as Sink *)
(* has them; they touch no table of Apply's and are left out here.         *)
(***************************************************************************)
EXTENDS Sink

VARIABLE tx  \* each worker's open transaction

txVars == <<processed, positions, current, eventCount, deadLetters, outcome, tx>>

\* stmt is the next statement; dup, newer and count are what the statements
\* so far found out.
Stmts == {"dedup", "history", "current", "versions", "commit"}
TxType ==
    [stmt : Stmts, v : Payloads, p : Partitions, o : Offsets,
     dup : BOOLEAN, newer : BOOLEAN, count : Nat]

Idle == [stmt |-> "idle"]

TxInit ==
    /\ SinkInit
    /\ tx = [w \in Workers |-> Idle]
-----------------------------------------------------------------------------
\* The locks a transaction holds until it ends.  A statement that found a
\* duplicate inserted nothing and holds nothing.
After(w, stmts) == tx[w].stmt \in stmts /\ ~tx[w].dup

HoldsEvent(w, id) ==
    After(w, {"history", "current", "versions", "commit"})
      /\ tx[w].v.id = id

\* DO UPDATE locks the vehicle's row even when its WHERE refuses the update.
HoldsVehicle(w, vehicle) ==
    After(w, {"versions", "commit"}) /\ tx[w].v.vehicle = vehicle

HoldsVersions(w) == After(w, {"commit"})

Begin(w, v, p, o) ==
    /\ tx[w].stmt = "idle"
    /\ outcome[w] = "none"
    /\ AsVehiclePosition(v)
    /\ tx' = [tx EXCEPT ![w] = [stmt |-> "dedup", v |-> v, p |-> p, o |-> o,
                                dup |-> FALSE, newer |-> FALSE, count |-> 0]]
    /\ UNCHANGED sinkVars

\* 1. INSERT INTO processed_events ... ON CONFLICT (event_id) DO NOTHING.
InsertProcessed(w) ==
    /\ tx[w].stmt = "dedup"
    /\ \A u \in Workers \ {w} : ~HoldsEvent(u, tx[w].v.id)
    /\ tx' = IF Duplicate(tx[w].v)
             THEN [tx EXCEPT ![w].dup = TRUE, ![w].stmt = "commit"]
             ELSE [tx EXCEPT ![w].stmt = "history"]
    /\ UNCHANGED sinkVars

\* 2. INSERT INTO vehicle_positions.  The event's own dedup row keeps every
\* other inserter of this event_id out; a value the schema refuses ends the
\* transaction with an error isPermanent knows.
InsertPosition(w) ==
    /\ tx[w].stmt = "history"
    /\ \/ /\ Storable(tx[w].v)
          /\ tx' = [tx EXCEPT ![w].stmt = "current"]
          /\ UNCHANGED outcome
       \/ /\ ~Storable(tx[w].v)
          /\ tx' = [tx EXCEPT ![w] = Idle]
          /\ Returns(w, "permanent")
    /\ UNCHANGED tables

\* (mutant) Every dedup row is locked before the map is written.
UpsertCurrentLocksAll(w) ==
    /\ tx[w].stmt = "current"
    /\ \A u \in Workers \ {w} : \A id \in EventIds : ~HoldsEvent(u, id)
    /\ tx' = [tx EXCEPT ![w].newer = Newer(tx[w].v), ![w].stmt = "versions"]
    /\ UNCHANGED sinkVars

\* (mutant) The map is read by a plain SELECT, which waits for nobody.
UpsertCurrentUnlocked(w) ==
    /\ tx[w].stmt = "current"
    /\ tx' = [tx EXCEPT ![w].newer = Newer(tx[w].v), ![w].stmt = "versions"]
    /\ UNCHANGED sinkVars

\* 3. INSERT INTO vehicle_current ... ON CONFLICT DO UPDATE ... WHERE newer.
UpsertCurrent(w) ==
    /\ tx[w].stmt = "current"
    /\ \A u \in Workers \ {w} : ~HoldsVehicle(u, tx[w].v.vehicle)
    /\ tx' = [tx EXCEPT ![w].newer = Newer(tx[w].v), ![w].stmt = "versions"]
    /\ UNCHANGED sinkVars

\* 4. INSERT INTO schema_versions ... event_count + 1.
UpsertVersions(w) ==
    /\ tx[w].stmt = "versions"
    /\ \A u \in Workers \ {w} : ~HoldsVersions(u)
    /\ tx' = [tx EXCEPT ![w].count = eventCount + 1, ![w].stmt = "commit"]
    /\ UNCHANGED sinkVars

\* (mutant) The transaction's own answer about lateness is not used.
CurrentOverwritten(w) == CurrentWith(tx[w].v)

CurrentAfter(w) == IF tx[w].newer THEN CurrentWith(tx[w].v) ELSE current

\* COMMIT publishes the writes.  When only its answer is lost the caller gets
\* an error for a transaction that is in.
Commit(w) ==
    /\ tx[w].stmt = "commit"
    /\ tx' = [tx EXCEPT ![w] = Idle]
    /\ \/ /\ tx[w].dup
          /\ Returns(w, "duplicate")
          /\ UNCHANGED tables
       \/ /\ ~tx[w].dup
          /\ processed' = ProcessedWith(w, tx[w].v, tx[w].p, tx[w].o)
          /\ positions' = PositionsWith(tx[w].v, tx[w].p, tx[w].o)
          /\ current' = CurrentAfter(w)
          /\ eventCount' = tx[w].count
          /\ \/ Returns(w, IF tx[w].newer THEN "applied" ELSE "late")
             \/ Returns(w, "transient")
          /\ UNCHANGED deadLetters

\* Any statement may fail on a lost connection, a timeout or a cancelled
\* context; BeginFunc then rolls back, which releases the locks.
RollBack(w) ==
    /\ tx[w].stmt # "idle"
    /\ tx' = [tx EXCEPT ![w] = Idle]
    /\ Returns(w, "transient")
    /\ UNCHANGED tables

\* The caller reads the result and may call again.
ReadResult(w) ==
    /\ Return(w)
    /\ UNCHANGED tx

Statement(w) ==
    \/ InsertProcessed(w)
    \/ InsertPosition(w)
    \/ UpsertCurrent(w)
    \/ UpsertVersions(w)
    \/ Commit(w)

TxNext ==
    \E w \in Workers :
       \/ \E v \in Payloads, p \in Partitions, o \in Offsets : Begin(w, v, p, o)
       \/ Statement(w)
       \/ RollBack(w)
       \/ ReadResult(w)

TxSpec == TxInit /\ [][TxNext]_txVars

\* A connection that can run its next statement does.  Strong fairness,
\* because Postgres queues the waiters of a row lock in order of arrival: one
\* that is free again and again is granted in the end.
TxFairSpec == TxSpec /\ \A w \in Workers : SF_txVars(Statement(w))
-----------------------------------------------------------------------------
TxTypeOK == tx \in [Workers -> TxType \cup {Idle}]

\* What the row locks secure: what a transaction found out about the tables
\* is still true when it commits, because until then no other transaction of
\* Apply can commit the same event, move the same vehicle or count.
LocksHeld ==
    \A w \in Workers :
       /\ tx[w].stmt # "idle" =>
             /\ outcome[w] = "none"
             /\ AsVehiclePosition(tx[w].v)
             /\ tx[w].dup => tx[w].stmt = "commit" /\ Duplicate(tx[w].v)
       /\ HoldsEvent(w, tx[w].v.id) =>
             /\ ~Duplicate(tx[w].v)
             /\ \A u \in Workers \ {w} : ~HoldsEvent(u, tx[w].v.id)
       /\ After(w, {"current", "versions", "commit"}) => Storable(tx[w].v)
       /\ After(w, {"versions", "commit"}) =>
             /\ tx[w].newer = Newer(tx[w].v)
             /\ \A u \in Workers \ {w} : ~HoldsVehicle(u, tx[w].v.vehicle)
       /\ HoldsVersions(w) =>
             /\ tx[w].count = eventCount + 1
             /\ \A u \in Workers \ {w} : ~HoldsVersions(u)

\* Every call of Apply ends with a result, whatever the other transactions
\* do: waiting on the event, the vehicle and the counter in that order never
\* closes a cycle, and no ended transaction keeps a lock.
CallsReturn ==
    \A w \in Workers : tx[w].stmt = "dedup" ~> outcome[w] # "none"
=============================================================================
