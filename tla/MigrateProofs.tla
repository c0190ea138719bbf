--------------------------- MODULE MigrateProofs ---------------------------
(***************************************************************************)
(* The migrations runner for every set of runs and topics and any number   *)
(* of migrations: the database climbs the ladder, a run that succeeds      *)
(* leaves what it promises, and runs do not defeat each other.             *)
(*                                                                         *)
(* A run applies what its one status query did not find, however long ago  *)
(* that was.  What keeps its commit the next rung all the same is that it  *)
(* never looks more than one version past what is recorded (Rungs), and    *)
(* that of the runs past the body of a version only one is left (Alone).   *)
(***************************************************************************)
EXTENDS Migrate, SequenceTheorems, TLAPS

\* The database is on a rung of the ladder.
OnRung ==
    /\ Len(ddl) <= LastVersion
    /\ \A i \in 1 .. Len(ddl) : ddl[i] = i
    /\ recorded = 1 .. Len(ddl)

Applying == {"body", "record", "commit"}

Places == Ended \cup {"list", "create", "describe", "ensure", "creating", "status",
                      "up", "body", "record", "commit"}

\* How far a run has come, against how far the database has.
Rungs(r) ==
    /\ done[r] \subseteq recorded
    /\ mpc[r] \notin Ended \cup Applying => at[r] <= Len(ddl)
    /\ mpc[r] \in Applying => at[r] \in 1 .. Len(ddl) + 1
    /\ mpc[r] = "commit" => at[r] = Len(ddl) + 1

\* A version's body has one transaction at most.
Alone(r, u) == Altering(r, at[r]) => ~Altering(u, at[r])

\* Topics that were found in shape stay in shape.
Ensured(r) ==
    /\ cmd[r] \in {"all", "topics"}
    /\ mpc[r] \in {"ensure", "creating", "status", "up", "ok"} \cup Applying
    => parts = Want

\* A run ends on code 0 only with the schema at the last version, and fails
\* without a fault only on a ladder that was begun.
Verdict(r) ==
    /\ mpc[r] = "ok" /\ cmd[r] # "topics" => Len(ddl) = LastVersion
    /\ mpc[r] = "failed" /\ faults = 0 => Len(ddl) # 0

RunInv(r) == Rungs(r) /\ Ensured(r) /\ Verdict(r)

\* A run is on the rung the database is on, or on its way to the next.
AtTheTop(r) ==
    \/ mpc[r] = "up" /\ at[r] = Len(ddl)
    \/ mpc[r] \in Applying /\ at[r] = Len(ddl) + 1

\* While no call fails, a ladder that was begun has somebody at its top.
Climbing ==
    faults = 0 /\ Len(ddl) \in 1 .. LastVersion - 1 => \E r \in Runners : AtTheTop(r)

LadderInv ==
    /\ OnRung
    /\ \A r \in Runners : RunInv(r)
    /\ \A r, u \in Runners : r # u => Alone(r, u)
    /\ Climbing

MigrateInv == MigrateTypeOK /\ LadderInv
-----------------------------------------------------------------------------
LEMMA MigrateInitInv == MigrateInit => MigrateInv
<1> SUFFICES ASSUME MigrateInit PROVE MigrateInv
  OBVIOUS
<1>1. parts \in [Topics -> Nat]
  BY MigrateAssumption DEF MigrateInit
<1>2. ddl \in Seq(Versions) /\ Len(ddl) = 0
  BY DEF MigrateInit
<1>3. mpc = [r \in Runners |-> "killed"] /\ at = [r \in Runners |-> 0]
  BY DEF MigrateInit
<1>4. MigrateTypeOK
  <2>1. /\ mpc \in [Runners -> Places]
        /\ cmd \in [Runners -> Commands]
    BY DEF MigrateInit, Places, Ended, Commands
  <2>2. /\ tries \in [Runners -> 0 .. Attempts]
        /\ at \in [Runners -> 0 .. LastVersion]
        /\ faults \in 0 .. MaxFaults
    BY MigrateAssumption DEF MigrateInit
  <2> QED
    BY <1>1, <1>2, <2>1, <2>2 DEF MigrateInit, MigrateTypeOK, Places
<1>5. OnRung
  BY <1>2, MigrateAssumption DEF MigrateInit, OnRung
<1>6. \A r \in Runners : RunInv(r)
  BY <1>3 DEF MigrateInit, RunInv, Rungs, Ensured, Verdict, Applying
<1>7. LadderInv
  BY <1>2, <1>3, <1>5, <1>6 DEF LadderInv, Alone, Altering, Climbing
<1> QED
  BY <1>4, <1>7 DEF MigrateInv

\* What Goto does, pointwise.
LEMMA GotoMoves ==
    ASSUME MigrateTypeOK, NEW r \in Runners, NEW l \in Places, Goto(r, l)
    PROVE  /\ mpc' \in [Runners -> Places]
           /\ mpc'[r] = l
           /\ \A u \in Runners \ {r} : mpc'[u] = mpc[u]
BY DEF Goto, MigrateTypeOK, Places

LEMMA TryAgainMoves ==
    ASSUME MigrateTypeOK, NEW r \in Runners, TryAgain(r)
    PROVE  /\ mpc' \in [Runners -> Places]
           /\ mpc'[r] \in {"list", "no_topics"}
           /\ \A u \in Runners \ {r} : mpc'[u] = mpc[u]
           /\ tries' \in [Runners -> 0 .. Attempts]
           /\ listed' \in [Runners -> SUBSET Topics]
<1>1. listed' \in [Runners -> SUBSET Topics]
  BY DEF TryAgain, MigrateTypeOK
<1>2. "list" \in Places /\ "no_topics" \in Places
  BY DEF Places, Ended
<1>3. CASE tries[r] < Attempts
  <2>1. tries' = [tries EXCEPT ![r] = tries[r] + 1] /\ Goto(r, "list")
    BY <1>3 DEF TryAgain
  <2>2. tries[r] + 1 \in 0 .. Attempts
    BY <1>3, MigrateAssumption DEF MigrateTypeOK
  <2> QED
    BY <1>1, <1>2, <2>1, <2>2, GotoMoves DEF MigrateTypeOK
<1>4. CASE ~(tries[r] < Attempts)
  <2>1. UNCHANGED tries /\ Goto(r, "no_topics")
    BY <1>4 DEF TryAgain
  <2> QED
    BY <1>1, <1>2, <2>1, GotoMoves DEF MigrateTypeOK
<1> QED
  BY <1>3, <1>4

LEMMA FaultCounts ==
    ASSUME MigrateTypeOK, Fault \/ NoFault
    PROVE  faults' \in 0 .. MaxFaults /\ (faults' = 0 => NoFault /\ faults = 0)
BY MigrateAssumption DEF MigrateTypeOK, Fault, NoFault
-----------------------------------------------------------------------------
\* A step of one run that is not a commit keeps the ladder if it keeps what the
\* invariant says of that run and, if it was at the top, leaves it there.
LEMMA LadderFrame ==
    ASSUME LadderInv, NEW r \in Runners,
           UNCHANGED <<recorded, ddl>>,
           parts = Want => parts' = Want,
           faults' = 0 => faults = 0,
           \A u \in Runners \ {r} :
              /\ mpc'[u] = mpc[u] /\ cmd'[u] = cmd[u]
              /\ at'[u] = at[u] /\ done'[u] = done[u],
           RunInv(r)',
           \A u \in Runners \ {r} : Altering(r, at[r])' => ~Altering(u, at'[r]),
           faults' = 0 /\ AtTheTop(r) /\ Len(ddl) \in 1 .. LastVersion - 1 => AtTheTop(r)'
    PROVE  LadderInv'
<1>1. OnRung'
  BY DEF LadderInv, OnRung
<1>2. ASSUME NEW u \in Runners \ {r} PROVE RunInv(u)'
  <2>1. RunInv(u)
    BY DEF LadderInv
  <2> QED
    BY <2>1 DEF RunInv, Rungs, Ensured, Verdict
<1>3. ASSUME NEW u \in Runners, NEW x \in Runners, u # x PROVE Alone(u, x)'
  <2>1. Alone(u, x)
    BY <1>3 DEF LadderInv
  <2>2. CASE u = r
    BY <1>3, <2>2 DEF Alone, Altering
  <2>3. CASE x = r
    BY <1>3, <2>3 DEF Alone, Altering
  <2>4. CASE u # r /\ x # r
    BY <2>1, <2>4 DEF Alone, Altering
  <2> QED
    BY <2>2, <2>3, <2>4
<1>4. ASSUME NEW u \in Runners \ {r}, AtTheTop(u) PROVE AtTheTop(u)'
  BY <1>4 DEF AtTheTop
<1>5. Climbing'
  BY <1>4 DEF LadderInv, Climbing
<1> QED
  BY <1>1, <1>2, <1>3, <1>5 DEF LadderInv

\* A step outside the loop over the migrations only moves the run.
LEMMA LadderMove ==
    ASSUME LadderInv, NEW r \in Runners,
           UNCHANGED <<recorded, ddl, done, at, cmd>>,
           parts = Want => parts' = Want,
           faults' = 0 => faults = 0,
           \A u \in Runners \ {r} : mpc'[u] = mpc[u],
           mpc'[r] \notin Applying, mpc'[r] \in Ended \/ mpc[r] \notin Ended \cup Applying,
           Ensured(r)', Verdict(r)',
           faults' = 0 => ~AtTheTop(r)
    PROVE  LadderInv'
<1>1. RunInv(r)'
  BY DEF LadderInv, RunInv, Rungs, Applying
<1>2. ~Altering(r, at[r])'
  BY DEF Altering, Applying
<1> QED
  BY <1>1, <1>2, LadderFrame
-----------------------------------------------------------------------------
LEMMA RunKeeps ==
    ASSUME MigrateInv, NEW r \in Runners, NEW c \in Commands, Run(r, c)
    PROVE  MigrateInv'
<1> DEFINE l == IF c \in {"all", "topics"} THEN "list" ELSE "ensure"
<1>1. MigrateTypeOK /\ LadderInv
  BY DEF MigrateInv
<1>2. l \in Places /\ Goto(r, l)
  BY DEF Run, Places
<1>3. /\ mpc' \in [Runners -> Places]
      /\ mpc'[r] = l
      /\ \A u \in Runners \ {r} : mpc'[u] = mpc[u]
  BY <1>1, <1>2, GotoMoves
<1>4. /\ cmd' \in [Runners -> Commands] /\ cmd'[r] = c
      /\ tries' \in [Runners -> 0 .. Attempts]
      /\ listed' \in [Runners -> SUBSET Topics]
      /\ done' \in [Runners -> SUBSET Versions] /\ done'[r] = {}
      /\ at' \in [Runners -> 0 .. LastVersion] /\ at'[r] = 0
      /\ \A u \in Runners \ {r} :
            cmd'[u] = cmd[u] /\ done'[u] = done[u] /\ at'[u] = at[u]
  BY <1>1, MigrateAssumption DEF Run, MigrateTypeOK
<1>5. UNCHANGED <<parts, table, recorded, ddl, faults>>
  BY DEF Run, database
<1>6. MigrateTypeOK'
  BY <1>1, <1>3, <1>4, <1>5 DEF MigrateTypeOK, Places
<1>7. RunInv(r)' /\ ~Altering(r, at[r])'
  BY <1>3, <1>4 DEF RunInv, Rungs, Ensured, Verdict, Altering, Applying
<1>8. ~AtTheTop(r)
  BY DEF Run, Running, Ended, AtTheTop, Applying
<1> QED
  BY <1>1, <1>3, <1>4, <1>5, <1>6, <1>7, <1>8, LadderFrame DEF MigrateInv

\* A run that a fault stops, whatever it was doing.
LEMMA FaultKeeps ==
    ASSUME MigrateInv, NEW r \in Runners, Fault,
           NEW l \in {"killed", "no_table", "failed"}, Goto(r, l),
           UNCHANGED <<parts, database, cmd, runVars>>
    PROVE  MigrateInv'
<1>1. MigrateTypeOK /\ LadderInv
  BY DEF MigrateInv
<1>2. faults' \in 0 .. MaxFaults /\ faults' # 0
  BY <1>1, FaultCounts DEF Fault, MigrateTypeOK
<1>3. l \in Places
  BY DEF Places, Ended
<1>4. /\ mpc' \in [Runners -> Places]
      /\ mpc'[r] = l
      /\ \A u \in Runners \ {r} : mpc'[u] = mpc[u]
  BY <1>1, <1>3, GotoMoves
<1>5. UNCHANGED <<parts, table, recorded, ddl, cmd, tries, listed, done, at>>
  BY DEF database, runVars
<1>6. MigrateTypeOK'
  BY <1>1, <1>2, <1>4, <1>5 DEF MigrateTypeOK, Places
<1>7. Ensured(r)' /\ Verdict(r)' /\ mpc'[r] \in Ended \ Applying
  BY <1>2, <1>4 DEF Ensured, Verdict, Ended, Applying
<1> QED
  BY <1>1, <1>2, <1>4, <1>5, <1>6, <1>7, LadderMove DEF MigrateInv

\* The attempt at the topics that fails, for whatever reason.
LEMMA TryAgainKeeps ==
    ASSUME MigrateInv, NEW r \in Runners, TryAgain(r), Fault \/ NoFault,
           mpc[r] \in {"list", "create", "describe"},
           UNCHANGED <<database, cmd, done, at>>,
           parts' \in [Topics -> Nat], parts = Want => parts' = Want
    PROVE  MigrateInv'
<1>1. MigrateTypeOK /\ LadderInv
  BY DEF MigrateInv
<1>2. faults' \in 0 .. MaxFaults /\ (faults' = 0 => faults = 0)
  BY <1>1, FaultCounts
<1>3. /\ mpc' \in [Runners -> Places]
      /\ mpc'[r] \in {"list", "no_topics"}
      /\ \A u \in Runners \ {r} : mpc'[u] = mpc[u]
      /\ tries' \in [Runners -> 0 .. Attempts]
      /\ listed' \in [Runners -> SUBSET Topics]
  BY <1>1, TryAgainMoves
<1>4. UNCHANGED <<table, recorded, ddl>>
  BY DEF database
<1>5. MigrateTypeOK'
  BY <1>1, <1>2, <1>3, <1>4 DEF MigrateTypeOK, Places
<1>6. Ensured(r)' /\ Verdict(r)' /\ mpc'[r] \notin Applying
  BY <1>3 DEF Ensured, Verdict, Applying
<1>7. ~AtTheTop(r) /\ mpc[r] \notin Ended \cup Applying
  BY DEF AtTheTop, Ended, Applying
<1> QED
  BY <1>1, <1>2, <1>3, <1>4, <1>5, <1>6, <1>7, LadderMove DEF MigrateInv

LEMMA TopicKeeps ==
    ASSUME MigrateInv, NEW r \in Runners, Topic(r)
    PROVE  MigrateInv'
<1>1. MigrateTypeOK /\ LadderInv
  BY DEF MigrateInv
<1>2. ASSUME NEW l \in {"create", "describe"}, Goto(r, l),
             UNCHANGED <<parts, database, cmd, tries, done, at, faults>>,
             listed' \in [Runners -> SUBSET Topics],
             mpc[r] \in {"list", "create"}
      PROVE  MigrateInv'
  <2>1. l \in Places
    BY DEF Places
  <2>2. /\ mpc' \in [Runners -> Places]
        /\ mpc'[r] = l
        /\ \A u \in Runners \ {r} : mpc'[u] = mpc[u]
    BY <1>1, <1>2, <2>1, GotoMoves
  <2>3. UNCHANGED <<parts, table, recorded, ddl, cmd, tries, done, at, faults>>
    BY <1>2 DEF database
  <2>4. MigrateTypeOK'
    BY <1>1, <1>2, <2>2, <2>3 DEF MigrateTypeOK, Places
  <2>5. Ensured(r)' /\ Verdict(r)' /\ mpc'[r] \notin Applying
    BY <2>2 DEF Ensured, Verdict, Applying
  <2>6. ~AtTheTop(r) /\ mpc[r] \notin Ended \cup Applying
    BY <1>2 DEF AtTheTop, Ended, Applying
  <2> QED
    BY <1>1, <2>2, <2>3, <2>4, <2>5, <2>6, LadderMove DEF MigrateInv
<1>3. CASE ListTopics(r)
  <2>1. listed' \in [Runners -> SUBSET Topics]
    BY <1>1, <1>3 DEF ListTopics, MigrateTypeOK
  <2> QED
    BY <1>2, <1>3, <2>1 DEF ListTopics
<1>4. ASSUME NEW t \in Topics, CreateTopic(r, t)
      PROVE  MigrateInv'
  <2>1. /\ mpc[r] = "create"
        /\ parts' = [parts EXCEPT ![t] = IF parts[t] = 0 THEN Want[t] ELSE parts[t]]
        /\ UNCHANGED <<database, cmd, done, at>>
    BY <1>4 DEF CreateTopic
  <2>2. parts' \in [Topics -> Nat]
    BY <1>1, <2>1, MigrateAssumption DEF MigrateTypeOK
  <2>3. parts = Want => parts' = Want
    <3> SUFFICES ASSUME parts = Want PROVE parts' = parts
      OBVIOUS
    <3>1. Want[t] # 0
      BY MigrateAssumption
    <3> QED
      BY <1>1, <2>1, <3>1 DEF MigrateTypeOK
  <2>4. CASE Fault /\ TryAgain(r)
    BY <2>1, <2>2, <2>3, <2>4, TryAgainKeeps
  <2>5. CASE /\ NoFault
             /\ listed' = [listed EXCEPT ![r] = @ \cup {t}]
             /\ UNCHANGED <<mpc, tries>>
    <3>1. UNCHANGED <<table, recorded, ddl, cmd, done, at, mpc, tries, faults>>
      BY <2>1, <2>5 DEF database, NoFault
    <3>2. listed' \in [Runners -> SUBSET Topics]
      BY <1>1, <2>5 DEF MigrateTypeOK
    <3>3. MigrateTypeOK'
      BY <1>1, <2>2, <3>1, <3>2 DEF MigrateTypeOK
    <3>4. Ensured(r)' /\ Verdict(r)' /\ mpc'[r] \notin Applying
      BY <2>1, <3>1 DEF Ensured, Verdict, Applying
    <3>5. ~AtTheTop(r) /\ mpc[r] \notin Ended \cup Applying
      BY <2>1 DEF AtTheTop, Ended, Applying
    <3> QED
      BY <1>1, <2>3, <3>1, <3>3, <3>4, <3>5, LadderMove DEF MigrateInv
  <2> QED
    BY <1>4, <2>4, <2>5 DEF CreateTopic
<1>5. CASE TopicsEnsured(r)
  BY <1>1, <1>2, <1>5 DEF TopicsEnsured, runVars, MigrateTypeOK
<1>6. CASE DescribeTopics(r)
  <2>1. mpc[r] = "describe" /\ UNCHANGED <<parts, database, cmd, done, at, faults>>
    BY <1>6 DEF DescribeTopics
  <2>2. CASE parts = Want
    <3>1. Goto(r, AfterTopics(r)) /\ UNCHANGED <<tries, listed>>
      BY <1>6, <2>2 DEF DescribeTopics
    <3>2. /\ AfterTopics(r) \in Places
          /\ AfterTopics(r) \in {"ok", "ensure"}
          /\ AfterTopics(r) = "ok" => cmd[r] = "topics"
      BY DEF AfterTopics, Places, Ended
    <3>3. /\ mpc' \in [Runners -> Places]
          /\ mpc'[r] = AfterTopics(r)
          /\ \A u \in Runners \ {r} : mpc'[u] = mpc[u]
      BY <1>1, <3>1, <3>2, GotoMoves
    <3>4. UNCHANGED <<parts, table, recorded, ddl, cmd, tries, listed, done, at, faults>>
      BY <2>1, <3>1 DEF database
    <3>5. MigrateTypeOK'
      BY <1>1, <3>3, <3>4 DEF MigrateTypeOK, Places
    <3>6. Ensured(r)' /\ Verdict(r)' /\ mpc'[r] \notin Applying
      BY <2>2, <3>2, <3>3, <3>4 DEF Ensured, Verdict, Applying
    <3>7. ~AtTheTop(r) /\ mpc[r] \notin Ended \cup Applying
      BY <2>1 DEF AtTheTop, Ended, Applying
    <3> QED
      BY <1>1, <3>3, <3>4, <3>5, <3>6, <3>7, LadderMove DEF MigrateInv
  <2>3. CASE parts # Want
    <3>1. TryAgain(r)
      BY <1>6, <2>3 DEF DescribeTopics
    <3>2. parts' \in [Topics -> Nat] /\ NoFault
      BY <1>1, <2>1 DEF MigrateTypeOK, NoFault
    <3> QED
      BY <2>1, <2>3, <3>1, <3>2, TryAgainKeeps
  <2> QED
    BY <2>2, <2>3
<1> QED
  BY <1>3, <1>4, <1>5, <1>6 DEF Topic

LEMMA TableKeeps ==
    ASSUME MigrateInv, NEW r \in Runners, EnsureTable(r) \/ CreateTable(r)
    PROVE  MigrateInv'
<1>1. MigrateTypeOK /\ LadderInv
  BY DEF MigrateInv
<1>2. PICK l \in {"status", "creating", "no_table"} : Goto(r, l)
  BY DEF EnsureTable, CreateTable
<1>3. l \in Places
  BY DEF Places, Ended
<1>4. /\ mpc' \in [Runners -> Places]
      /\ mpc'[r] = l
      /\ \A u \in Runners \ {r} : mpc'[u] = mpc[u]
  BY <1>1, <1>2, <1>3, GotoMoves
<1>5. /\ mpc[r] \in {"ensure", "creating"}
      /\ table' \in BOOLEAN
      /\ UNCHANGED <<parts, recorded, ddl, cmd, tries, listed, done, at, faults>>
  BY <1>1 DEF EnsureTable, CreateTable, database, runVars, MigrateTypeOK
<1>6. MigrateTypeOK'
  BY <1>1, <1>4, <1>5 DEF MigrateTypeOK, Places
<1>7. at[r] <= Len(ddl) /\ done[r] \subseteq recorded
  BY <1>1, <1>5 DEF LadderInv, RunInv, Rungs, Ended, Applying
<1>8. RunInv(r)'
  BY <1>1, <1>4, <1>5, <1>7 DEF LadderInv, RunInv, Rungs, Ensured, Verdict, Applying
<1>9. ~AtTheTop(r) /\ ~Altering(r, at[r])'
  BY <1>4, <1>5 DEF AtTheTop, Altering, Applying
<1> QED
  BY <1>1, <1>4, <1>5, <1>6, <1>8, <1>9, LadderFrame DEF MigrateInv

LEMMA StatusKeeps ==
    ASSUME MigrateInv, NEW r \in Runners, Status(r)
    PROVE  MigrateInv'
<1>1. MigrateTypeOK /\ LadderInv
  BY DEF MigrateInv
<1>2. PICK l \in {"up", "ok", "pending"} :
         /\ Goto(r, l)
         /\ l = "ok" => Versions \subseteq recorded
  BY DEF Status
<1>3. l \in Places
  BY DEF Places, Ended
<1>4. /\ mpc' \in [Runners -> Places]
      /\ mpc'[r] = l
      /\ \A u \in Runners \ {r} : mpc'[u] = mpc[u]
  BY <1>1, <1>2, <1>3, GotoMoves
<1>5. /\ mpc[r] = "status"
      /\ done' = [done EXCEPT ![r] = recorded]
      /\ UNCHANGED <<parts, table, recorded, ddl, cmd, tries, listed, at, faults>>
  BY DEF Status, database
<1>6. /\ done' \in [Runners -> SUBSET Versions]
      /\ done'[r] = recorded
      /\ \A u \in Runners \ {r} : done'[u] = done[u]
  BY <1>1, <1>5 DEF MigrateTypeOK
<1>7. MigrateTypeOK'
  BY <1>1, <1>4, <1>5, <1>6 DEF MigrateTypeOK, Places
<1>8. RunInv(r)
  BY <1>1 DEF LadderInv
<1>9. Rungs(r)' /\ Ensured(r)'
  BY <1>4, <1>5, <1>6, <1>8 DEF RunInv, Rungs, Ensured, Ended, Applying
<1>10. Verdict(r)'
  <2>1. l = "ok" => Len(ddl) = LastVersion
    BY <1>1, <1>2, MigrateAssumption DEF LadderInv, OnRung, Versions, MigrateTypeOK
  <2> QED
    BY <1>4, <1>5, <2>1 DEF Verdict
<1>11. ~AtTheTop(r) /\ ~Altering(r, at[r])'
  BY <1>4, <1>5 DEF AtTheTop, Altering, Applying
<1> QED
  BY <1>1, <1>4, <1>5, <1>6, <1>7, <1>9, <1>10, <1>11, LadderFrame DEF MigrateInv, RunInv

\* The loop never looks more than one version past what is recorded: what a
\* run does not find ahead of it is recorded already.
LEMMA NextVersionKeeps ==
    ASSUME MigrateInv, NEW r \in Runners, NextVersion(r)
    PROVE  MigrateInv'
<1>1. /\ MigrateTypeOK /\ LadderInv /\ OnRung
      /\ Rungs(r) /\ Ensured(r) /\ Verdict(r)
  BY DEF MigrateInv, LadderInv, RunInv
<1>2. /\ mpc[r] = "up"
      /\ UNCHANGED <<parts, table, recorded, ddl, cmd, tries, listed, done, faults>>
  BY DEF NextVersion, database
<1>3. /\ at[r] \in 0 .. LastVersion /\ at[r] <= Len(ddl) /\ Len(ddl) \in Nat
      /\ done[r] \subseteq 1 .. Len(ddl) /\ Len(ddl) <= LastVersion
  BY <1>1, <1>2, MigrateAssumption DEF MigrateTypeOK, OnRung, Rungs, Ended, Applying
<1>4. CASE Ahead(r) = {}
  <2>1. Goto(r, "ok") /\ UNCHANGED at
    BY <1>4 DEF NextVersion
  <2>2. "ok" \in Places
    BY DEF Places, Ended
  <2>3. /\ mpc' \in [Runners -> Places]
        /\ mpc'[r] = "ok"
        /\ \A u \in Runners \ {r} : mpc'[u] = mpc[u]
    BY <1>1, <2>1, <2>2, GotoMoves
  <2>4. MigrateTypeOK'
    BY <1>1, <1>2, <2>1, <2>3 DEF MigrateTypeOK, Places
  <2>5. Len(ddl) = LastVersion
    <3> SUFFICES ASSUME Len(ddl) # LastVersion PROVE FALSE
      OBVIOUS
    <3>1. LastVersion \in Versions \ done[r] /\ LastVersion > at[r]
      BY <1>3, MigrateAssumption DEF Versions
    <3> QED
      BY <1>4, <3>1 DEF Ahead
  <2>6. Rungs(r)' /\ Ensured(r)' /\ Verdict(r)'
    BY <1>1, <1>2, <2>1, <2>3, <2>5 DEF Rungs, Ensured, Verdict, Ended, Applying
  <2>7. ~Altering(r, at[r])'
    BY <2>3 DEF Altering
  <2>8. Len(ddl) \notin 1 .. LastVersion - 1
    BY <1>3, <2>5
  <2> QED
    BY <1>1, <1>2, <2>1, <2>3, <2>4, <2>6, <2>7, <2>8, LadderFrame DEF MigrateInv, RunInv
<1>5. CASE Ahead(r) # {}
  <2>1. PICK v \in Ahead(r) : /\ \A u \in Ahead(r) : v <= u
                              /\ at' = [at EXCEPT ![r] = v]
                              /\ Goto(r, "body")
    BY <1>5 DEF NextVersion
  <2>2. "body" \in Places
    BY DEF Places
  <2>3. /\ mpc' \in [Runners -> Places]
        /\ mpc'[r] = "body"
        /\ \A u \in Runners \ {r} : mpc'[u] = mpc[u]
    BY <1>1, <2>1, <2>2, GotoMoves
  <2>4. v \in 1 .. LastVersion
    BY <2>1 DEF Ahead, Versions
  <2>5. /\ at' \in [Runners -> 0 .. LastVersion]
        /\ at'[r] = v
        /\ \A u \in Runners \ {r} : at'[u] = at[u]
    BY <1>1, <2>1, <2>4 DEF MigrateTypeOK
  <2>6. MigrateTypeOK'
    BY <1>1, <1>2, <2>3, <2>5 DEF MigrateTypeOK, Places
  <2>7. v \in 1 .. Len(ddl) + 1
    <3> SUFFICES ASSUME v > Len(ddl) + 1 PROVE FALSE
      BY <1>3, <2>4
    <3>1. Len(ddl) + 1 \in Ahead(r)
      BY <1>3, <2>4, MigrateAssumption DEF Ahead, Versions
    <3> QED
      BY <1>3, <2>1, <2>4, <3>1
  <2>8. at[r] = Len(ddl) => v = Len(ddl) + 1
    BY <1>3, <2>1, <2>7 DEF Ahead
  <2>9. Rungs(r)' /\ Ensured(r)' /\ Verdict(r)'
    BY <1>1, <1>2, <2>3, <2>5, <2>7 DEF Rungs, Ensured, Verdict, Ended, Applying
  <2>10. ~Altering(r, at[r])'
    BY <2>3 DEF Altering
  <2>11. AtTheTop(r) => AtTheTop(r)'
    BY <1>2, <2>3, <2>5, <2>8 DEF AtTheTop, Applying
  <2> QED
    BY <1>1, <1>2, <2>3, <2>5, <2>6, <2>9, <2>10, <2>11, LadderFrame DEF MigrateInv, RunInv
<1> QED
  BY <1>4, <1>5

\* A body that fails, and one that others wait for.
LEMMA BodyKeeps ==
    ASSUME MigrateInv, NEW r \in Runners, Body(r)
    PROVE  MigrateInv'
<1>1. /\ MigrateTypeOK /\ LadderInv /\ OnRung
      /\ Rungs(r) /\ Ensured(r) /\ Verdict(r)
  BY DEF MigrateInv, LadderInv, RunInv
<1>2. /\ mpc[r] = "body"
      /\ \A u \in Runners \ {r} : ~Altering(u, at[r])
      /\ UNCHANGED <<parts, table, recorded, ddl, cmd, tries, listed, done, at, faults>>
  BY DEF Body, database, runVars
<1>3. /\ at[r] \in 1 .. Len(ddl) + 1 /\ Len(ddl) \in Nat
      /\ DOMAIN ddl = 1 .. Len(ddl)
  BY <1>1, <1>2 DEF Rungs, Applying, MigrateTypeOK
<1>4. PICK l \in {"record", "failed"} :
         /\ Goto(r, l)
         /\ l = "failed" => InDdl(at[r]) \/ (at[r] # 1 /\ ~InDdl(1))
  BY DEF Body, Fail
<1>5. l \in Places
  BY DEF Places, Ended
<1>6. /\ mpc' \in [Runners -> Places]
      /\ mpc'[r] = l
      /\ \A u \in Runners \ {r} : mpc'[u] = mpc[u]
  BY <1>1, <1>4, <1>5, GotoMoves
<1>7. MigrateTypeOK'
  BY <1>1, <1>2, <1>6 DEF MigrateTypeOK, Places
<1>8. l = "failed" => at[r] \in 1 .. Len(ddl)
  <2> SUFFICES ASSUME at[r] = Len(ddl) + 1 PROVE l # "failed"
    BY <1>3
  <2>1. ~InDdl(at[r])
    BY <1>1, <1>3 DEF OnRung, InDdl
  <2>2. at[r] = 1 \/ InDdl(1)
    BY <1>1, <1>3 DEF OnRung, InDdl
  <2> QED
    BY <1>4, <2>1, <2>2
<1>9. Rungs(r)' /\ Ensured(r)'
  BY <1>1, <1>2, <1>6 DEF Rungs, Ensured, Ended, Applying
<1>10. Verdict(r)'
  BY <1>2, <1>3, <1>6, <1>8 DEF Verdict
<1>11. \A u \in Runners \ {r} : Altering(r, at[r])' => ~Altering(u, at'[r])
  BY <1>2
<1>12. AtTheTop(r) => AtTheTop(r)'
  BY <1>2, <1>3, <1>6, <1>8 DEF AtTheTop, Applying
<1> QED
  BY <1>1, <1>2, <1>6, <1>7, <1>9, <1>10, <1>11, <1>12, LadderFrame DEF MigrateInv, RunInv

LEMMA RecordKeeps ==
    ASSUME MigrateInv, NEW r \in Runners, Record(r)
    PROVE  MigrateInv'
<1>1. /\ MigrateTypeOK /\ LadderInv /\ OnRung
      /\ Rungs(r) /\ Ensured(r) /\ Verdict(r)
  BY DEF MigrateInv, LadderInv, RunInv
<1>2. /\ mpc[r] = "record"
      /\ UNCHANGED <<parts, table, recorded, ddl, cmd, tries, listed, done, at, faults>>
  BY DEF Record, database, runVars
<1>3. /\ at[r] \in 1 .. Len(ddl) + 1 /\ Len(ddl) \in Nat
      /\ recorded = 1 .. Len(ddl)
  BY <1>1, <1>2 DEF Rungs, OnRung, Applying, MigrateTypeOK
<1>4. PICK l \in {"commit", "failed"} :
         Goto(r, l) /\ (l = "failed" <=> at[r] \in recorded)
  BY DEF Record, Fail
<1>5. l \in Places
  BY DEF Places, Ended
<1>6. /\ mpc' \in [Runners -> Places]
      /\ mpc'[r] = l
      /\ \A u \in Runners \ {r} : mpc'[u] = mpc[u]
  BY <1>1, <1>4, <1>5, GotoMoves
<1>7. MigrateTypeOK'
  BY <1>1, <1>2, <1>6 DEF MigrateTypeOK, Places
<1>8. (l = "failed" <=> at[r] \in 1 .. Len(ddl)) /\ (l = "commit" => at[r] = Len(ddl) + 1)
  BY <1>3, <1>4
<1>9. Rungs(r)' /\ Ensured(r)'
  BY <1>1, <1>2, <1>3, <1>6, <1>8 DEF Rungs, Ensured, Ended, Applying
<1>10. Verdict(r)'
  BY <1>2, <1>3, <1>6, <1>8 DEF Verdict
<1>11. \A u \in Runners \ {r} : Altering(r, at[r])' => ~Altering(u, at'[r])
  BY <1>1, <1>2 DEF LadderInv, Alone, Altering
<1>12. AtTheTop(r) => AtTheTop(r)'
  BY <1>2, <1>3, <1>6, <1>8 DEF AtTheTop, Applying
<1> QED
  BY <1>1, <1>2, <1>6, <1>7, <1>9, <1>10, <1>11, <1>12, LadderFrame DEF MigrateInv, RunInv

\* A commit is the ladder's next rung.
LEMMA CommitClimbs ==
    ASSUME MigrateInv, NEW r \in Runners, Commit(r)
    PROVE  /\ at[r] = Len(ddl) + 1
           /\ at[r] \in Versions
           /\ ddl' = Append(ddl, Len(ddl) + 1)
           /\ recorded' = recorded \cup {Len(ddl) + 1}
           /\ Len(ddl) + 1 <= LastVersion
<1>1. Rungs(r) /\ at[r] \in 0 .. LastVersion /\ Len(ddl) \in Nat
  BY DEF MigrateInv, LadderInv, RunInv, MigrateTypeOK
<1>2. at[r] = Len(ddl) + 1
  BY <1>1 DEF Commit, Rungs
<1> QED
  BY <1>1, <1>2, MigrateAssumption DEF Commit, Versions

LEMMA CommitKeeps ==
    ASSUME MigrateInv, NEW r \in Runners, Commit(r)
    PROVE  MigrateInv'
<1>1. MigrateTypeOK /\ LadderInv /\ OnRung
  BY DEF MigrateInv, LadderInv
<1>2. /\ at[r] = Len(ddl) + 1 /\ at[r] \in Versions
      /\ ddl' = Append(ddl, Len(ddl) + 1)
      /\ recorded' = recorded \cup {Len(ddl) + 1}
      /\ Len(ddl) + 1 <= LastVersion
  BY CommitClimbs
<1>3. /\ mpc[r] = "commit"
      /\ UNCHANGED <<parts, table, cmd, tries, listed, done, at>>
      /\ Fault \/ NoFault
  BY DEF Commit, runVars
<1>4. PICK l \in {"up", "failed"} : Goto(r, l) /\ (l = "failed" => Fault)
  BY DEF Commit, Fail
<1>5. l \in Places
  BY DEF Places, Ended
<1>6. /\ mpc' \in [Runners -> Places]
      /\ mpc'[r] = l
      /\ \A u \in Runners \ {r} : mpc'[u] = mpc[u]
  BY <1>1, <1>4, <1>5, GotoMoves
<1>7. faults' \in 0 .. MaxFaults /\ (faults' = 0 => faults = 0 /\ l = "up")
  BY <1>1, <1>3, <1>4, FaultCounts DEF Fault, NoFault, MigrateTypeOK
<1>8. /\ Len(ddl) \in Nat /\ Len(ddl') = Len(ddl) + 1
      /\ ddl' \in Seq(Versions)
      /\ \A i \in 1 .. Len(ddl) : ddl'[i] = ddl[i]
      /\ ddl'[Len(ddl) + 1] = Len(ddl) + 1
  BY <1>1, <1>2, AppendProperties DEF MigrateTypeOK
<1>9. MigrateTypeOK'
  BY <1>1, <1>2, <1>3, <1>6, <1>7, <1>8 DEF MigrateTypeOK, Places
<1>10. OnRung'
  <2>1. recorded' = 1 .. Len(ddl')
    BY <1>1, <1>2, <1>8 DEF OnRung
  <2>2. ASSUME NEW i \in 1 .. Len(ddl') PROVE ddl'[i] = i
    <3>1. i \in 1 .. Len(ddl) \/ i = Len(ddl) + 1
      BY <1>8
    <3> QED
      BY <1>1, <1>8, <3>1 DEF OnRung
  <2> QED
    BY <1>2, <1>8, <2>1, <2>2 DEF OnRung
<1>12. ASSUME NEW u \in Runners PROVE RunInv(u)'
  <2>1. RunInv(u) /\ at[u] \in Int
    BY <1>1 DEF LadderInv, MigrateTypeOK
  <2>2. CASE u = r
    BY <1>2, <1>3, <1>6, <1>7, <1>8, <2>1, <2>2
       DEF RunInv, Rungs, Ensured, Verdict, Ended, Applying
  <2>3. CASE u # r
    <3>1. mpc[u] # "commit"
      <4> SUFFICES ASSUME mpc[u] = "commit" PROVE FALSE
        OBVIOUS
      <4>1. at[u] = at[r]
        BY <1>2, <2>1 DEF RunInv, Rungs
      <4> QED
        BY <1>1, <1>3, <2>3, <4>1 DEF LadderInv, Alone, Altering
    <3>2. Rungs(u)'
      BY <1>2, <1>3, <1>6, <1>8, <2>1, <2>3, <3>1 DEF RunInv, Rungs, Applying
    <3>3. Ensured(u)'
      BY <1>3, <1>6, <2>1, <2>3 DEF RunInv, Ensured
    <3>4. Verdict(u)'
      BY <1>2, <1>3, <1>6, <1>7, <1>8, <2>1, <2>3, MigrateAssumption DEF RunInv, Verdict
    <3> QED
      BY <3>2, <3>3, <3>4 DEF RunInv
  <2> QED
    BY <2>2, <2>3
<1>13. ASSUME NEW u \in Runners, NEW x \in Runners, u # x PROVE Alone(u, x)'
  <2>1. Alone(u, x)
    BY <1>1, <1>13 DEF LadderInv
  <2> QED
    BY <1>3, <1>6, <1>13, <2>1 DEF Alone, Altering
<1>14. Climbing'
  <2> SUFFICES ASSUME faults' = 0 PROVE AtTheTop(r)'
    BY DEF Climbing
  <2> QED
    BY <1>2, <1>3, <1>6, <1>7, <1>8 DEF AtTheTop
<1> QED
  BY <1>9, <1>10, <1>12, <1>13, <1>14 DEF MigrateInv, LadderInv
-----------------------------------------------------------------------------
LEMMA MigrateStepKeeps ==
    ASSUME MigrateInv, [MigrateNext]_migrateVars
    PROVE  MigrateInv'
<1>1. ASSUME NEW r \in Runners, Up(r) PROVE MigrateInv'
  BY <1>1, TableKeeps, StatusKeeps, NextVersionKeeps, BodyKeeps, RecordKeeps, CommitKeeps
     DEF Up
<1>2. ASSUME NEW r \in Runners, BrokerFails(r) PROVE MigrateInv'
  <2>1. parts' \in [Topics -> Nat] /\ parts' = parts
    BY <1>2 DEF BrokerFails, MigrateInv, MigrateTypeOK
  <2> QED
    BY <1>2, <2>1, TryAgainKeeps DEF BrokerFails
<1>3. ASSUME NEW r \in Runners, DatabaseFails(r) PROVE MigrateInv'
  BY <1>3, FaultKeeps DEF DatabaseFails, Fail
<1>4. ASSUME NEW r \in Runners, Kill(r) PROVE MigrateInv'
  BY <1>4, FaultKeeps DEF Kill
<1>5. CASE UNCHANGED migrateVars
  BY <1>5 DEF migrateVars, MigrateInv, MigrateTypeOK, LadderInv, OnRung, RunInv, Rungs,
              Ensured, Verdict, Alone, Altering, Climbing, AtTheTop
<1> QED
  BY <1>1, <1>2, <1>3, <1>4, <1>5, RunKeeps, TopicKeeps DEF MigrateNext, Step

\* Code 0 means ready, whatever other runs did meanwhile, and two runs never
\* defeat each other (cmd/migrate, migrations.Runner.Up).
THEOREM MigrateSafety ==
    MigrateSpec => [](MigrateTypeOK /\ SuccessMeansReady /\ NoMutualDefeat)
<1>1. MigrateInv => SuccessMeansReady
  BY DEF MigrateInv, LadderInv, RunInv, Verdict, Ensured, OnRung, SuccessMeansReady, Versions
<1>2. MigrateInv => NoMutualDefeat
  <2> SUFFICES ASSUME MigrateInv, faults = 0, \A r \in Runners : ~Running(r),
                      NEW r \in Runners, mpc[r] = "failed"
               PROVE  recorded = Versions
    BY DEF NoMutualDefeat
  <2>1. OnRung /\ Climbing /\ Verdict(r) /\ Len(ddl) \in Nat
    BY DEF MigrateInv, LadderInv, RunInv, MigrateTypeOK
  <2>2. \A u \in Runners : ~AtTheTop(u)
    BY DEF Running, Ended, AtTheTop, Applying
  <2>3. Len(ddl) = LastVersion
    BY <2>1, <2>2, MigrateAssumption DEF Climbing, Verdict, OnRung
  <2> QED
    BY <2>1, <2>3 DEF OnRung, Versions
<1>3. MigrateInv => MigrateTypeOK
  BY DEF MigrateInv
<1> QED
  BY <1>1, <1>2, <1>3, MigrateInitInv, MigrateStepKeeps, PTL DEF MigrateSpec

\* The runner implements the ladder: however many runs there are and whatever
\* fails, a version's body takes effect once, in order and with its row.
THEOREM MigrateClimbs == MigrateSpec => ClimbsTheLadder
<1>1. MigrateInit => Ladder!LadderInit
  BY DEF MigrateInit, Ladder!LadderInit
<1>2. MigrateInv /\ [MigrateNext]_migrateVars => [Ladder!Climb]_(Ladder!ladderVars)
  <2> SUFFICES ASSUME MigrateInv, [MigrateNext]_migrateVars
               PROVE  Ladder!Climb \/ UNCHANGED <<ddl, recorded>>
    BY DEF Ladder!ladderVars
  <2>1. ASSUME NEW r \in Runners, Commit(r) PROVE Ladder!Climb
    BY <2>1, CommitClimbs DEF Ladder!Climb
  <2>2. (\E r \in Runners : Commit(r)) \/ UNCHANGED <<ddl, recorded>>
    BY DEF MigrateNext, Run, Kill, BrokerFails, DatabaseFails, Step, Topic, Up, ListTopics,
           CreateTopic, TopicsEnsured, DescribeTopics, EnsureTable, CreateTable, Status,
           NextVersion, Body, Record, database, migrateVars
  <2> QED
    BY <2>1, <2>2
<1> QED
  BY <1>1, <1>2, MigrateInitInv, MigrateStepKeeps, PTL
     DEF MigrateSpec, ClimbsTheLadder, Ladder!LadderSpec
=============================================================================
