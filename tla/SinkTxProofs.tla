---------------------------- MODULE SinkTxProofs ----------------------------
(***************************************************************************)
(* Store.Apply's transaction implements the atomic sink.  A transaction    *)
(* that commits has to be an Apply of the tables as they are at that       *)
(* moment, though it read them earlier; LocksHeld is what carries its      *)
(* findings from the statements to the COMMIT, and it is inductive with    *)
(* the type invariant.                                                     *)
(***************************************************************************)
EXTENDS SinkTx, TLAPS

TxInv ==
    /\ TxTypeOK
    /\ eventCount \in Nat
    /\ outcome \in [Workers -> Results]
    /\ LocksHeld

\* A transaction that is open has all its fields.
LEMMA OpenTx ==
    ASSUME TxTypeOK, NEW w \in Workers, tx[w].stmt # "idle"
    PROVE  /\ tx[w] \in TxType
           /\ tx[w].v \in Payloads /\ tx[w].p \in Partitions /\ tx[w].o \in Offsets
BY DEF TxTypeOK, TxType, Idle

LEMMA TxInitInv == TxInit => TxInv
BY DEF TxInit, SinkInit, TxInv, TxTypeOK, LocksHeld, HoldsEvent, HoldsVersions, After,
       Idle, Results

LEMMA TxTypeStep ==
    ASSUME TxTypeOK, eventCount \in Nat, [TxNext]_txVars
    PROVE  TxTypeOK'
<1>1. ASSUME NEW w \in Workers, NEW v \in Payloads, NEW p \in Partitions,
             NEW o \in Offsets, Begin(w, v, p, o)
      PROVE  TxTypeOK'
  BY <1>1 DEF Begin, TxTypeOK, TxType, Stmts
<1>2. ASSUME NEW w \in Workers, InsertProcessed(w)
      PROVE  TxTypeOK'
  <2>1. tx[w] \in TxType
    BY <1>2, OpenTx DEF InsertProcessed
  <2> QED
    BY <1>2, <2>1 DEF InsertProcessed, TxTypeOK, TxType, Stmts
<1>3. ASSUME NEW w \in Workers, InsertPosition(w)
      PROVE  TxTypeOK'
  <2>1. tx[w] \in TxType
    BY <1>3, OpenTx DEF InsertPosition
  <2> QED
    BY <1>3, <2>1 DEF InsertPosition, TxTypeOK, TxType, Stmts
<1>4. ASSUME NEW w \in Workers, UpsertCurrent(w)
      PROVE  TxTypeOK'
  <2>1. tx[w] \in TxType /\ Newer(tx[w].v) \in BOOLEAN
    BY <1>4, OpenTx DEF UpsertCurrent, Newer
  <2> QED
    BY <1>4, <2>1 DEF UpsertCurrent, TxTypeOK, TxType, Stmts
<1>5. ASSUME NEW w \in Workers, UpsertVersions(w)
      PROVE  TxTypeOK'
  <2>1. tx[w] \in TxType /\ eventCount + 1 \in Nat
    BY <1>5, OpenTx DEF UpsertVersions
  <2> QED
    BY <1>5, <2>1 DEF UpsertVersions, TxTypeOK, TxType, Stmts
<1>6. ASSUME NEW w \in Workers, Commit(w) \/ RollBack(w)
      PROVE  TxTypeOK'
  BY <1>6 DEF Commit, RollBack, TxTypeOK
<1>7. CASE UNCHANGED tx
  BY <1>7 DEF TxTypeOK
<1> QED
  BY <1>1, <1>2, <1>3, <1>4, <1>5, <1>6, <1>7
     DEF TxNext, Statement, ReadResult, txVars

\* LocksHeld, split into what it says of one transaction and of two.
Found(w) ==
    /\ tx[w].stmt # "idle" =>
          /\ outcome[w] = "none"
          /\ AsVehiclePosition(tx[w].v)
          /\ tx[w].dup => tx[w].stmt = "commit" /\ Duplicate(tx[w].v)
    /\ HoldsEvent(w, tx[w].v.id) => ~Duplicate(tx[w].v)
    /\ After(w, {"current", "versions", "commit"}) => Storable(tx[w].v)
    /\ After(w, {"versions", "commit"}) => tx[w].newer = Newer(tx[w].v)
    /\ HoldsVersions(w) => tx[w].count = eventCount + 1

Apart(w, u) ==
    /\ HoldsEvent(w, tx[w].v.id) => ~HoldsEvent(u, tx[w].v.id)
    /\ After(w, {"versions", "commit"}) => ~HoldsVehicle(u, tx[w].v.vehicle)
    /\ HoldsVersions(w) => ~HoldsVersions(u)

LEMMA LocksSplit ==
    LocksHeld <=> \A w \in Workers : Found(w) /\ \A u \in Workers \ {w} : Apart(w, u)
BY DEF LocksHeld, Found, Apart

\* A step of w alone that leaves the tables as they are keeps LocksHeld if it
\* keeps what LocksHeld says of w.
LEMMA LocksFrame ==
    ASSUME LocksHeld, NEW w \in Workers, UNCHANGED tables,
           \A u \in Workers \ {w} : tx'[u] = tx[u] /\ outcome'[u] = outcome[u],
           Found(w)', \A u \in Workers \ {w} : Apart(w, u)'
    PROVE  LocksHeld'
<1>1. ASSUME NEW x \in Workers \ {w}
      PROVE  Found(x)'
  <2>1. Found(x)
    BY LocksSplit
  <2> QED
    BY <2>1 DEF Found, HoldsEvent, HoldsVersions, After, Duplicate, Newer, tables
<1>2. ASSUME NEW x \in Workers \ {w}, NEW y \in Workers \ {x}
      PROVE  Apart(x, y)'
  <2>1. CASE y = w
    <3>1. Apart(w, x)'
      OBVIOUS
    <3> QED
      BY <2>1, <3>1 DEF Apart, HoldsEvent, HoldsVehicle, HoldsVersions, After
  <2>2. CASE y # w
    <3>1. Apart(x, y)
      BY LocksSplit
    <3> QED
      BY <2>2, <3>1 DEF Apart, HoldsEvent, HoldsVehicle, HoldsVersions, After
  <2> QED
    BY <2>1, <2>2
<1>3. \A x \in Workers : Found(x)' /\ \A u \in Workers \ {x} : Apart(x, u)'
  BY <1>1, <1>2
<1> QED
  BY <1>3 DEF LocksHeld, Found, Apart

\* A worker without a transaction keeps LocksHeld.
LEMMA LocksIdle ==
    ASSUME TxTypeOK, LocksHeld, NEW w \in Workers, UNCHANGED tables,
           \A u \in Workers \ {w} : tx'[u] = tx[u] /\ outcome'[u] = outcome[u],
           tx'[w] = Idle
    PROVE  LocksHeld'
<1>1. Found(w)'
  BY DEF Found, HoldsEvent, HoldsVersions, After, Idle
<1>2. \A u \in Workers \ {w} : Apart(w, u)'
  BY DEF Apart, HoldsEvent, HoldsVersions, After, Idle
<1> QED
  BY <1>1, <1>2, LocksFrame

LEMMA BeginLocks ==
    ASSUME TxTypeOK, LocksHeld, NEW w \in Workers, NEW v \in Payloads,
           NEW p \in Partitions, NEW o \in Offsets, Begin(w, v, p, o)
    PROVE  LocksHeld'
<1>1. /\ UNCHANGED tables /\ outcome' = outcome
      /\ \A u \in Workers \ {w} : tx'[u] = tx[u] /\ outcome'[u] = outcome[u]
      /\ tx'[w].stmt = "dedup" /\ tx'[w].v = v /\ tx'[w].dup = FALSE
  BY DEF Begin, TxTypeOK, sinkVars, tables
<1>2. Found(w)'
  BY <1>1 DEF Begin, Found, HoldsEvent, HoldsVersions, After
<1>3. \A u \in Workers \ {w} : Apart(w, u)'
  BY <1>1 DEF Apart, HoldsEvent, HoldsVersions, After
<1> QED
  BY <1>1, <1>2, <1>3, LocksFrame

LEMMA InsertProcessedLocks ==
    ASSUME TxTypeOK, LocksHeld, NEW w \in Workers, InsertProcessed(w)
    PROVE  LocksHeld'
<1>1. tx[w] \in TxType /\ Found(w) /\ tx[w].stmt = "dedup" /\ tx[w].dup = FALSE
  <2>1. tx[w] \in TxType /\ Found(w)
    BY OpenTx, LocksSplit DEF InsertProcessed
  <2> QED
    BY <2>1 DEF InsertProcessed, Found, TxType
<1>2. /\ UNCHANGED tables /\ outcome' = outcome
      /\ \A u \in Workers \ {w} : tx'[u] = tx[u] /\ outcome'[u] = outcome[u]
  BY DEF InsertProcessed, TxTypeOK, sinkVars, tables
<1>3. /\ tx'[w].v = tx[w].v
      /\ \/ Duplicate(tx[w].v) /\ tx'[w].dup = TRUE /\ tx'[w].stmt = "commit"
         \/ ~Duplicate(tx[w].v) /\ tx'[w].dup = FALSE /\ tx'[w].stmt = "history"
  BY <1>1 DEF InsertProcessed, TxTypeOK, TxType
<1>4. Duplicate(tx[w].v)' <=> Duplicate(tx[w].v)
  BY <1>2, <1>3 DEF Duplicate, tables
<1>5. Found(w)'
  BY <1>1, <1>2, <1>3, <1>4 DEF Found, HoldsEvent, HoldsVersions, After
<1>6. ASSUME NEW u \in Workers \ {w}
      PROVE  Apart(w, u)'
  <2>1. ~HoldsEvent(u, tx[w].v.id)'
    BY <1>2, <1>3, <1>6 DEF InsertProcessed, HoldsEvent, After
  <2> QED
    BY <1>3, <2>1 DEF Apart, HoldsVersions, After
<1> QED
  BY <1>2, <1>5, <1>6, LocksFrame

LEMMA InsertPositionLocks ==
    ASSUME TxTypeOK, outcome \in [Workers -> Results], LocksHeld, NEW w \in Workers, InsertPosition(w)
    PROVE  LocksHeld'
<1>1. tx[w] \in TxType /\ tx[w].stmt = "history"
  BY OpenTx DEF InsertPosition
<1>2. Found(w) /\ \A u \in Workers \ {w} : Apart(w, u)
  BY LocksSplit
<1>3. UNCHANGED tables
  BY DEF InsertPosition
<1>4. CASE ~Storable(tx[w].v)
  <2>1. /\ \A u \in Workers \ {w} : tx'[u] = tx[u] /\ outcome'[u] = outcome[u]
        /\ tx'[w] = Idle
    BY <1>4 DEF InsertPosition, TxTypeOK, Returns
  <2> QED
    BY <1>3, <2>1, LocksIdle
<1>5. CASE Storable(tx[w].v)
  <2>1. /\ \A u \in Workers \ {w} : tx'[u] = tx[u] /\ outcome'[u] = outcome[u]
        /\ outcome' = outcome
        /\ tx'[w].v = tx[w].v /\ tx'[w].dup = tx[w].dup /\ tx'[w].stmt = "current"
    BY <1>1, <1>5 DEF InsertPosition, TxTypeOK, TxType
  <2>2. Duplicate(tx[w].v)' <=> Duplicate(tx[w].v)
    BY <1>3, <2>1 DEF Duplicate, tables
  <2>3. tx[w].dup = FALSE
    BY <1>1, <1>2 DEF Found, TxType
  <2>4. Found(w)'
    BY <1>1, <1>2, <1>5, <2>1, <2>2, <2>3
       DEF Found, HoldsEvent, HoldsVersions, After, Storable
  <2>5. \A u \in Workers \ {w} : Apart(w, u)'
    BY <1>1, <1>2, <2>1, <2>3 DEF Apart, HoldsEvent, HoldsVersions, After
  <2> QED
    BY <1>3, <2>1, <2>4, <2>5, LocksFrame
<1> QED
  BY <1>4, <1>5

LEMMA UpsertCurrentLocks ==
    ASSUME TxTypeOK, LocksHeld, NEW w \in Workers, UpsertCurrent(w)
    PROVE  LocksHeld'
<1>1. tx[w] \in TxType /\ tx[w].stmt = "current"
  BY OpenTx DEF UpsertCurrent
<1>2. Found(w) /\ \A u \in Workers \ {w} : Apart(w, u)
  BY LocksSplit
<1>3. /\ UNCHANGED tables /\ outcome' = outcome
      /\ \A u \in Workers \ {w} : tx'[u] = tx[u] /\ outcome'[u] = outcome[u]
      /\ tx'[w].v = tx[w].v /\ tx'[w].dup = tx[w].dup /\ tx'[w].stmt = "versions"
      /\ tx'[w].newer = Newer(tx[w].v)
  BY <1>1 DEF UpsertCurrent, TxTypeOK, TxType, sinkVars, tables
<1>4. /\ Duplicate(tx[w].v)' <=> Duplicate(tx[w].v)
      /\ Newer(tx[w].v)' = Newer(tx[w].v)
  BY <1>3 DEF Duplicate, Newer, tables
<1>5. tx[w].dup = FALSE
  BY <1>1, <1>2 DEF Found, TxType
<1>6. Found(w)'
  BY <1>1, <1>2, <1>3, <1>4, <1>5
     DEF Found, HoldsEvent, HoldsVersions, After, Storable
<1>7. ASSUME NEW u \in Workers \ {w}
      PROVE  Apart(w, u)'
  <2>1. ~HoldsVehicle(u, tx[w].v.vehicle)'
    BY <1>3, <1>7 DEF UpsertCurrent, HoldsVehicle, After
  <2> QED
    BY <1>1, <1>2, <1>3, <1>5, <1>7, <2>1 DEF Apart, HoldsEvent, HoldsVersions, After
<1> QED
  BY <1>3, <1>6, <1>7, LocksFrame

LEMMA UpsertVersionsLocks ==
    ASSUME TxTypeOK, LocksHeld, NEW w \in Workers, UpsertVersions(w)
    PROVE  LocksHeld'
<1>1. tx[w] \in TxType /\ tx[w].stmt = "versions"
  BY OpenTx DEF UpsertVersions
<1>2. Found(w) /\ \A u \in Workers \ {w} : Apart(w, u)
  BY LocksSplit
<1>3. /\ UNCHANGED tables /\ outcome' = outcome
      /\ \A u \in Workers \ {w} : tx'[u] = tx[u] /\ outcome'[u] = outcome[u]
      /\ tx'[w].v = tx[w].v /\ tx'[w].dup = tx[w].dup /\ tx'[w].stmt = "commit"
      /\ tx'[w].newer = tx[w].newer /\ tx'[w].count = eventCount + 1
  BY <1>1 DEF UpsertVersions, TxTypeOK, TxType, sinkVars, tables
<1>4. /\ Duplicate(tx[w].v)' <=> Duplicate(tx[w].v)
      /\ Newer(tx[w].v)' = Newer(tx[w].v)
      /\ eventCount' = eventCount
  BY <1>3 DEF Duplicate, Newer, tables
<1>5. tx[w].dup = FALSE
  BY <1>1, <1>2 DEF Found, TxType
<1>6. Found(w)'
  BY <1>1, <1>2, <1>3, <1>4, <1>5
     DEF Found, HoldsEvent, HoldsVersions, After, Storable
<1>7. ASSUME NEW u \in Workers \ {w}
      PROVE  Apart(w, u)'
  <2>1. ~HoldsVersions(u)'
    BY <1>3, <1>7 DEF UpsertVersions, HoldsVersions, After
  <2> QED
    BY <1>1, <1>2, <1>3, <1>5, <1>7, <2>1
       DEF Apart, HoldsEvent, HoldsVehicle, HoldsVersions, After
<1> QED
  BY <1>3, <1>6, <1>7, LocksFrame

\* COMMIT: what others found out is about other events and other vehicles, and
\* nobody else has counted.
LEMMA CommitLocks ==
    ASSUME TxTypeOK, outcome \in [Workers -> Results], LocksHeld,
           NEW w \in Workers, Commit(w)
    PROVE  LocksHeld'
<1>1. tx[w] \in TxType /\ tx[w].stmt = "commit"
  BY OpenTx DEF Commit
<1>2. Found(w) /\ \A u \in Workers \ {w} : Found(u) /\ Apart(w, u)
  BY LocksSplit
<1>3. /\ \A u \in Workers \ {w} : tx'[u] = tx[u] /\ outcome'[u] = outcome[u]
      /\ tx'[w] = Idle
  BY DEF Commit, TxTypeOK, Returns
<1>4. CASE tx[w].dup
  <2>1. UNCHANGED tables
    BY <1>4 DEF Commit
  <2> QED
    BY <1>3, <2>1, LocksIdle
<1>5. CASE ~tx[w].dup
  <2>1. /\ processed' = ProcessedWith(w, tx[w].v, tx[w].p, tx[w].o)
        /\ current' = CurrentAfter(w)
    BY <1>5 DEF Commit
  <2>2. ASSUME NEW x \in Workers \ {w}
        PROVE  Found(x)'
    <3>1. Found(x) /\ Apart(w, x) /\ tx'[x] = tx[x] /\ outcome'[x] = outcome[x]
      BY <1>2, <1>3
    <3>2. /\ ~HoldsEvent(x, tx[w].v.id)
          /\ ~HoldsVehicle(x, tx[w].v.vehicle)
          /\ ~HoldsVersions(x)
      BY <1>1, <1>5, <3>1 DEF Apart, HoldsEvent, HoldsVersions, After
    <3>3. Duplicate(tx[x].v) => Duplicate(tx[x].v)'
      BY <2>1, <3>1 DEF Duplicate, ProcessedWith
    <3>4. HoldsEvent(x, tx[x].v.id) => ~Duplicate(tx[x].v)'
      BY <2>1, <3>1, <3>2 DEF Found, HoldsEvent, Duplicate, ProcessedWith
    <3>5. After(x, {"versions", "commit"}) => Newer(tx[x].v)' = Newer(tx[x].v)
      <4> SUFFICES ASSUME tx[x].v.vehicle # tx[w].v.vehicle
                   PROVE  Newer(tx[x].v)' = Newer(tx[x].v)
        BY <3>2 DEF HoldsVehicle
      <4>1. \A c \in current : c.vehicle = tx[x].v.vehicle => c \in current'
        BY <2>1 DEF CurrentAfter, CurrentWith
      <4>2. \A c \in current' : c.vehicle = tx[x].v.vehicle => c \in current
        BY <2>1 DEF CurrentAfter, CurrentWith
      <4> QED
        BY <3>1, <4>1, <4>2 DEF Newer
    <3>6. /\ HoldsEvent(x, tx[x].v.id)' <=> HoldsEvent(x, tx[x].v.id)
          /\ After(x, {"versions", "commit"})' <=> After(x, {"versions", "commit"})
          /\ After(x, {"current", "versions", "commit"})' <=>
                After(x, {"current", "versions", "commit"})
          /\ ~HoldsVersions(x)'
      BY <3>1, <3>2 DEF HoldsEvent, HoldsVersions, After
    <3> QED
      BY <3>1, <3>3, <3>4, <3>5, <3>6 DEF Found, Storable
  <2>3. Found(w)' /\ \A u \in Workers \ {w} : Apart(w, u)'
    BY <1>3 DEF Found, Apart, HoldsEvent, HoldsVersions, After, Idle
  <2>4. ASSUME NEW x \in Workers \ {w}, NEW y \in Workers \ {x}
        PROVE  Apart(x, y)'
    <3>1. CASE y = w
      BY <1>3, <3>1 DEF Apart, HoldsEvent, HoldsVehicle, HoldsVersions, After, Idle
    <3>2. CASE y # w
      <4>1. Apart(x, y)
        BY LocksSplit
      <4> QED
        BY <1>3, <3>2, <4>1 DEF Apart, HoldsEvent, HoldsVehicle, HoldsVersions, After
    <3> QED
      BY <3>1, <3>2
  <2>5. \A x \in Workers : Found(x)' /\ \A u \in Workers \ {x} : Apart(x, u)'
    BY <2>2, <2>3, <2>4
  <2> QED
    BY <2>5 DEF LocksHeld, Found, Apart
<1> QED
  BY <1>4, <1>5

LEMMA RollBackLocks ==
    ASSUME TxTypeOK, outcome \in [Workers -> Results], LocksHeld,
           NEW w \in Workers, RollBack(w)
    PROVE  LocksHeld'
<1>1. /\ UNCHANGED tables
      /\ \A u \in Workers \ {w} : tx'[u] = tx[u] /\ outcome'[u] = outcome[u]
      /\ tx'[w] = Idle
  BY DEF RollBack, TxTypeOK, Returns
<1> QED
  BY <1>1, LocksIdle

LEMMA ReadResultLocks ==
    ASSUME TxTypeOK, outcome \in [Workers -> Results], LocksHeld,
           NEW w \in Workers, ReadResult(w)
    PROVE  LocksHeld'
<1>1. /\ UNCHANGED tables
      /\ tx' = tx
      /\ \A u \in Workers \ {w} : tx'[u] = tx[u] /\ outcome'[u] = outcome[u]
  BY DEF ReadResult, Return, Returns
<1>2. Found(w) /\ outcome[w] # "none"
  BY LocksSplit DEF ReadResult, Return
<1>3. tx'[w] = Idle
  BY <1>1, <1>2 DEF Found, TxTypeOK, TxType, Stmts
<1> QED
  BY <1>1, <1>3, LocksIdle

\* The inductive invariant is kept by every step.
LEMMA TxStep ==
    ASSUME TxInv, [TxNext]_txVars
    PROVE  TxInv'
<1>1. TxTypeOK'
  BY TxTypeStep DEF TxInv
<1>2. eventCount' \in Nat
  <2>1. ASSUME NEW w \in Workers, Commit(w) PROVE eventCount' \in Nat
    <3>1. tx[w] \in TxType
      BY <2>1, OpenTx DEF TxInv, Commit
    <3> QED
      BY <2>1, <3>1 DEF TxInv, Commit, TxType, tables
  <2>2. CASE UNCHANGED eventCount
    BY <2>2 DEF TxInv
  <2> QED
    BY <2>1, <2>2 DEF TxNext, Statement, Begin, InsertProcessed, InsertPosition,
       UpsertCurrent, UpsertVersions, RollBack, ReadResult, Return, sinkVars, tables,
       txVars
<1>3. outcome' \in [Workers -> Results]
  <2>1. ASSUME NEW w \in Workers, NEW res \in Results, Returns(w, res)
        PROVE  outcome' \in [Workers -> Results]
    BY <2>1 DEF TxInv, Returns
  <2>2. CASE UNCHANGED outcome
    BY <2>2 DEF TxInv
  <2>3. \/ UNCHANGED outcome
        \/ \E w \in Workers, res \in Results : Returns(w, res)
    BY DEF TxNext, Statement, Begin, InsertProcessed, InsertPosition, UpsertCurrent,
       UpsertVersions, Commit, RollBack, ReadResult, Return, sinkVars, txVars, Results
  <2> QED
    BY <2>1, <2>2, <2>3
<1>4. LocksHeld'
  <2>1. CASE UNCHANGED txVars
    BY <2>1 DEF txVars, TxInv, LocksHeld, HoldsEvent, HoldsVehicle, HoldsVersions,
                After, Duplicate, Newer
  <2>2. CASE TxNext
    BY <2>2, BeginLocks, InsertProcessedLocks, InsertPositionLocks, UpsertCurrentLocks,
       UpsertVersionsLocks, CommitLocks, RollBackLocks, ReadResultLocks
       DEF TxInv, TxNext, Statement
  <2> QED
    BY <2>1, <2>2
<1> QED
  BY <1>1, <1>2, <1>3, <1>4 DEF TxInv

\* A step of a transaction is a step of the sink, or leaves it alone.
LEMMA TxStepSimulates ==
    ASSUME TxInv, [TxNext]_txVars
    PROVE  [SinkNext]_sinkVars
<1> USE DEF TxInv
<1>1. ASSUME NEW w \in Workers, Commit(w)
      PROVE  SinkNext
  <2>1. /\ tx[w] \in TxType /\ tx[w].stmt = "commit" /\ tx[w].v \in Payloads
        /\ tx[w].p \in Partitions /\ tx[w].o \in Offsets
    BY <1>1, OpenTx DEF Commit
  <2>2. Found(w)
    BY LocksSplit
  <2>3. outcome[w] = "none" /\ AsVehiclePosition(tx[w].v)
    BY <2>1, <2>2 DEF Found
  <2>4. CASE tx[w].dup
    <3>1. Duplicate(tx[w].v)
      BY <2>1, <2>2, <2>4 DEF Found
    <3>2. Apply(w, tx[w].v, tx[w].p, tx[w].o)
      BY <1>1, <2>3, <2>4, <3>1 DEF Commit, Apply
    <3> QED
      BY <2>1, <2>3, <3>2 DEF SinkNext
  <2>5. CASE ~tx[w].dup
    <3>1. /\ ~Duplicate(tx[w].v) /\ Storable(tx[w].v)
          /\ tx[w].newer = Newer(tx[w].v) /\ tx[w].count = eventCount + 1
      BY <2>1, <2>2, <2>5 DEF Found, HoldsEvent, HoldsVersions, After
    <3>2. Effect(w, tx[w].v, tx[w].p, tx[w].o)
      BY <1>1, <2>5, <3>1 DEF Commit, CurrentAfter, Effect
    <3>3. \/ Returns(w, IF Newer(tx[w].v) THEN "applied" ELSE "late")
          \/ Returns(w, "transient")
      BY <1>1, <2>5, <3>1 DEF Commit
    <3>4. Apply(w, tx[w].v, tx[w].p, tx[w].o)
      BY <2>3, <3>1, <3>2, <3>3 DEF Apply
    <3> QED
      BY <2>1, <2>3, <3>4 DEF SinkNext
  <2> QED
    BY <2>4, <2>5
<1>2. ASSUME NEW w \in Workers, InsertPosition(w), ~Storable(tx[w].v)
      PROVE  SinkNext
  <2>1. /\ tx[w] \in TxType /\ tx[w].stmt = "history" /\ tx[w].v \in Payloads
        /\ tx[w].p \in Partitions /\ tx[w].o \in Offsets
    BY <1>2, OpenTx DEF InsertPosition
  <2>2. Found(w)
    BY LocksSplit
  <2>3. outcome[w] = "none" /\ AsVehiclePosition(tx[w].v) /\ ~tx[w].dup
    BY <2>1, <2>2 DEF Found
  <2>4. ~Duplicate(tx[w].v)
    BY <2>1, <2>2, <2>3 DEF Found, HoldsEvent, After
  <2>5. Apply(w, tx[w].v, tx[w].p, tx[w].o)
    BY <1>2, <2>3, <2>4 DEF InsertPosition, Apply
  <2> QED
    BY <2>1, <2>3, <2>5 DEF SinkNext
<1>3. ASSUME NEW w \in Workers, InsertPosition(w), Storable(tx[w].v)
      PROVE  UNCHANGED sinkVars
  BY <1>3 DEF InsertPosition, sinkVars, tables
<1>4. ASSUME NEW w \in Workers, RollBack(w)
      PROVE  SinkNext
  <2>1. Found(w)
    BY LocksSplit
  <2>2. CallFails(w)
    BY <1>4, <2>1 DEF Found, RollBack, CallFails
  <2> QED
    BY <2>2 DEF SinkNext
<1>5. ASSUME NEW w \in Workers, ReadResult(w)
      PROVE  SinkNext
  BY <1>5 DEF ReadResult, SinkNext
<1>6. ASSUME NEW w \in Workers,
             \/ \E v \in Payloads, p \in Partitions, o \in Offsets : Begin(w, v, p, o)
             \/ InsertProcessed(w) \/ UpsertCurrent(w) \/ UpsertVersions(w)
      PROVE  UNCHANGED sinkVars
  BY <1>6 DEF Begin, InsertProcessed, UpsertCurrent, UpsertVersions
<1>7. CASE UNCHANGED txVars
  BY <1>7 DEF txVars, sinkVars
<1> QED
  BY <1>1, <1>2, <1>3, <1>4, <1>5, <1>6, <1>7 DEF TxNext, Statement

\* The row locks that Apply's conflict clauses take are enough: whatever a
\* transaction found out is still so when it commits.
THEOREM TxLocks == TxSpec => [](TxTypeOK /\ LocksHeld)
<1>1. TxInit => TxInv
  BY TxInitInv
<1>2. TxInv /\ [TxNext]_txVars => TxInv'
  BY TxStep
<1>3. TxInv => TxTypeOK /\ LocksHeld
  BY DEF TxInv
<1> QED
  BY <1>1, <1>2, <1>3, PTL DEF TxSpec

\* Apply's four statements, run by any number of connections at READ
\* COMMITTED, implement the atomic sink.
THEOREM TxImplementsSink == TxSpec => SinkSpec
<1>1. TxInit => TxInv /\ SinkInit
  BY TxInitInv DEF TxInit
<1>2. TxInv /\ [TxNext]_txVars => TxInv'
  BY TxStep
<1>3. TxInv /\ [TxNext]_txVars => [SinkNext]_sinkVars
  BY TxStepSimulates
<1> QED
  BY <1>1, <1>2, <1>3, PTL DEF TxSpec, SinkSpec
=============================================================================
