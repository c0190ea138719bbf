-------------------------- MODULE HttpServerProofs --------------------------
(***************************************************************************)
(* The readiness verdict and the clean shutdown of the operational surface *)
(* for any dependencies and any number of clients, whose rounds of checks  *)
(* and the prober's own interleave with the dependencies' failures.        *)
(*                                                                         *)
(* A verdict is honest because a round never forgets (Told): a check that  *)
(* is not pending has left either an answer to collect, or a dependency    *)
(* that was up, or a round that is no longer ok.                           *)
(***************************************************************************)
EXTENDS HttpServer, TLAPS

\* What a client's round so far says of the dependencies.
Told(c) ==
    /\ at[c] = "checking" =>
          /\ \A d \in Deps : IF up[d] THEN d \in wasUp[c] ELSE d \in wasDown[c]
          /\ ok[c] => \A d \in Deps : \/ d \in pending[c]
                                      \/ d \in wasUp[c]
                                      \/ <<d, FALSE>> \in answers[c]
          /\ ~ok[c] => wasDown[c] # {} \/ gone[c]
          /\ \A d \in Deps : <<d, FALSE>> \in answers[c] => d \in wasDown[c] \/ gone[c]
    /\ at[c] = "ready" => wasUp[c] = Deps
    /\ at[c] = "not_ready" => wasDown[c] # {} \/ gone[c]

\* The drain and then the prober are over, in this order.
Stopping ==
    /\ phase \in {"stopping", "stopped"} /\ result = "nil" =>
          \A c \in Clients : at[c] # "checking"
    /\ phase = "stopped" => at[Prober] = "ended"

HttpInv == HttpTypeOK /\ Stopping /\ \A c \in Clients : Told(c)
-----------------------------------------------------------------------------
\* HttpTypeOK in three parts: the server, the rounds, and what is recorded.
ServerTypes ==
    /\ up \in [Deps -> BOOLEAN]
    /\ gauge \in [Deps -> BOOLEAN]
    /\ phase \in {"up", "draining", "stopping", "stopped", "died"}
    /\ result \in {"none", "nil", "timeout", "serve_error"}

RoundTypes ==
    /\ at \in [Callers -> {"idle", "checking", "ready", "not_ready", "ended"}]
    /\ pending \in [Callers -> SUBSET Deps]
    /\ answers \in [Callers -> SUBSET (Deps \X BOOLEAN)]
    /\ \A c \in Callers : at[c] # "checking" => pending[c] \cup answers[c] = {}
    /\ ok \in [Callers -> BOOLEAN]

RecordTypes ==
    /\ gone \in [Clients -> BOOLEAN]
    /\ wasUp \in [Clients -> SUBSET Deps]
    /\ wasDown \in [Clients -> SUBSET Deps]

LEMMA TypeParts == HttpTypeOK <=> ServerTypes /\ RoundTypes /\ RecordTypes
BY DEF HttpTypeOK, ServerTypes, RoundTypes, RecordTypes

LEMMA TypePartsNext ==
    ASSUME ServerTypes', RoundTypes', RecordTypes'
    PROVE  HttpTypeOK'
BY DEF HttpTypeOK, ServerTypes, RoundTypes, RecordTypes

\* A client whose round and whose record do not change.
Same(c) ==
    /\ at'[c] = at[c] /\ pending'[c] = pending[c] /\ answers'[c] = answers[c]
    /\ ok'[c] = ok[c] /\ gone'[c] = gone[c]
    /\ wasUp'[c] = wasUp[c] /\ wasDown'[c] = wasDown[c]

LEMMA ToldStays ==
    ASSUME NEW c \in Clients, Told(c), Same(c), up' = up
    PROVE  Told(c)'
BY DEF Told, Same

LEMMA FlipKeeps ==
    ASSUME HttpInv, NEW d \in Deps, Flip(d)
    PROVE  HttpInv'
<1>1. ServerTypes /\ RoundTypes /\ RecordTypes /\ Stopping
  BY TypeParts DEF HttpInv
<1>2. /\ up' = [up EXCEPT ![d] = ~@]
      /\ wasUp' = [c \in Clients |-> IF up[d] THEN wasUp[c] ELSE wasUp[c] \cup {d}]
      /\ wasDown' = [c \in Clients |-> IF up[d] THEN wasDown[c] \cup {d} ELSE wasDown[c]]
      /\ gauge' = gauge /\ phase' = phase /\ result' = result /\ at' = at
      /\ pending' = pending /\ answers' = answers /\ ok' = ok /\ gone' = gone
  BY DEF Flip, checkVars
<1>3. ServerTypes' /\ RoundTypes' /\ RecordTypes' /\ Stopping'
  BY <1>1, <1>2 DEF ServerTypes, RoundTypes, RecordTypes, Stopping
<1>4. ASSUME NEW c \in Clients PROVE Told(c)'
  <2>1. /\ wasUp[c] \subseteq wasUp'[c] /\ wasUp'[c] \subseteq Deps
        /\ wasDown[c] \subseteq wasDown'[c]
    BY <1>1, <1>2, <1>3 DEF RecordTypes
  <2>2. /\ up'[d] = ~up[d] /\ \A e \in Deps \ {d} : up'[e] = up[e]
        /\ IF up'[d] THEN d \in wasUp'[c] ELSE d \in wasDown'[c]
    BY <1>1, <1>2 DEF ServerTypes
  <2>3. Told(c)
    BY DEF HttpInv
  <2> QED
    BY <1>2, <2>1, <2>2, <2>3 DEF Told
<1> QED
  BY <1>3, <1>4, TypePartsNext DEF HttpInv

\* A step of one caller's round that leaves the server alone.
LEMMA OneRound ==
    ASSUME HttpInv, NEW c \in Callers,
           up' = up, phase' = phase, result' = result, gauge' \in [Deps -> BOOLEAN],
           RoundTypes', RecordTypes',
           at'[c] = "checking" => at[c] = "checking" \/ phase = "up" \/ c = Prober,
           at[Prober] = "ended" => at'[Prober] = "ended",
           \A u \in Clients \ {c} : Same(u),
           c \in Clients => Told(c)'
    PROVE  HttpInv'
<1>1. ServerTypes /\ Stopping /\ \A u \in Clients : Told(u)
  BY TypeParts DEF HttpInv
<1>2. ServerTypes'
  BY <1>1 DEF ServerTypes
<1>3. Stopping'
  <2>1. \A u \in Clients : at'[u] = "checking" => at[u] = "checking" \/ phase = "up"
    BY HttpServerAssumption DEF Same
  <2> QED
    BY <1>1, <2>1 DEF Stopping
<1>4. \A u \in Clients : Told(u)'
  BY <1>1, ToldStays
<1> QED
  BY <1>2, <1>3, <1>4, TypePartsNext DEF HttpInv

LEMMA Distinct ==
    /\ Prober \in Callers /\ Clients \subseteq Callers
    /\ Callers \ {Prober} = Clients
    /\ \A c \in Callers : c \notin Clients => c = Prober
BY HttpServerAssumption DEF Callers

LEMMA RequestKeeps ==
    ASSUME HttpInv, NEW c \in Clients, Request(c)
    PROVE  HttpInv'
<1>1. ServerTypes /\ RoundTypes /\ RecordTypes /\ c \in Callers
  BY TypeParts, Distinct DEF HttpInv
<1>2. /\ phase = "up"
      /\ at' = [at EXCEPT ![c] = "checking"] /\ pending' = [pending EXCEPT ![c] = Deps]
      /\ ok' = [ok EXCEPT ![c] = TRUE] /\ answers' = answers
      /\ gone' = [gone EXCEPT ![c] = FALSE]
      /\ wasUp' = [wasUp EXCEPT ![c] = {d \in Deps : up[d]}]
      /\ wasDown' = [wasDown EXCEPT ![c] = {d \in Deps : ~up[d]}]
      /\ up' = up /\ gauge' = gauge /\ phase' = phase /\ result' = result
      /\ at[c] # "checking"
  BY DEF Request, RunChecks
<1>3. answers[c] = {}
  BY <1>1, <1>2 DEF RoundTypes
<1>4. /\ at'[c] = "checking" /\ pending'[c] = Deps /\ ok'[c] = TRUE
      /\ answers'[c] = {} /\ wasUp'[c] = {d \in Deps : up[d]}
      /\ wasDown'[c] = {d \in Deps : ~up[d]}
      /\ \A u \in Callers \ {c} :
            at'[u] = at[u] /\ pending'[u] = pending[u] /\ ok'[u] = ok[u]
      /\ \A u \in Clients \ {c} :
            gone'[u] = gone[u] /\ wasUp'[u] = wasUp[u] /\ wasDown'[u] = wasDown[u]
  BY <1>1, <1>2, <1>3 DEF RoundTypes, RecordTypes
<1>5. RecordTypes' /\ RoundTypes'
  BY <1>1, <1>2, <1>4 DEF RoundTypes, RecordTypes
<1>6. Told(c)'
  BY <1>2, <1>4 DEF Told
<1>7. /\ \A u \in Clients \ {c} : Same(u)
      /\ at'[Prober] = at[Prober]
  BY <1>2, <1>4, Distinct, HttpServerAssumption DEF Same
<1> QED
  BY <1>1, <1>2, <1>5, <1>6, <1>7, OneRound DEF ServerTypes

LEMMA HangUpKeeps ==
    ASSUME HttpInv, NEW c \in Clients, HangUp(c)
    PROVE  HttpInv'
<1>1. ServerTypes /\ RoundTypes /\ RecordTypes /\ c \in Callers /\ Told(c)
  BY TypeParts, Distinct DEF HttpInv
<1>2. /\ gone' = [gone EXCEPT ![c] = TRUE] /\ at[c] = "checking"
      /\ at' = at /\ pending' = pending /\ answers' = answers /\ ok' = ok
      /\ wasUp' = wasUp /\ wasDown' = wasDown
      /\ up' = up /\ gauge' = gauge /\ phase' = phase /\ result' = result
  BY DEF HangUp, checkVars
<1>3. gone'[c] = TRUE /\ \A u \in Clients \ {c} : Same(u)
  BY <1>1, <1>2 DEF RecordTypes, Same
<1>4. RoundTypes' /\ RecordTypes'
  BY <1>1, <1>2 DEF RoundTypes, RecordTypes
<1>5. Told(c)'
  BY <1>1, <1>2, <1>3 DEF Told
<1> QED
  BY <1>1, <1>2, <1>3, <1>4, <1>5, OneRound DEF ServerTypes

LEMMA AnswerKeeps ==
    ASSUME HttpInv, NEW c \in Callers, NEW d \in Deps, Answer(c, d)
    PROVE  HttpInv'
<1>1. ServerTypes /\ RoundTypes /\ RecordTypes
  BY TypeParts DEF HttpInv
<1>2. /\ d \in pending[c] /\ pending' = [pending EXCEPT ![c] = @ \ {d}]
      /\ at' = at /\ ok' = ok /\ gone' = gone /\ wasUp' = wasUp /\ wasDown' = wasDown
      /\ up' = up /\ gauge' = gauge /\ phase' = phase /\ result' = result
  BY DEF Answer, clientVars
<1>3. PICK passed \in BOOLEAN :
         /\ answers' = [answers EXCEPT ![c] = @ \cup {<<d, passed>>}]
         /\ passed = up[d] \/ (passed = FALSE /\ c \in Clients /\ gone[c])
  BY <1>1 DEF Answer, ServerTypes
<1>4. at[c] = "checking"
  BY <1>1, <1>2 DEF RoundTypes
<1>5. /\ pending'[c] = pending[c] \ {d}
      /\ answers'[c] = answers[c] \cup {<<d, passed>>}
      /\ \A u \in Callers \ {c} : pending'[u] = pending[u] /\ answers'[u] = answers[u]
  BY <1>1, <1>2, <1>3 DEF RoundTypes
<1>6. RoundTypes' /\ RecordTypes'
  <2>1. /\ answers[c] \cup {<<d, passed>>} \in SUBSET (Deps \X BOOLEAN)
        /\ pending[c] \ {d} \in SUBSET Deps
    BY <1>1 DEF RoundTypes
  <2>2. \A u \in Callers : at'[u] # "checking" => pending'[u] \cup answers'[u] = {}
    BY <1>1, <1>2, <1>4, <1>5 DEF RoundTypes
  <2> QED
    BY <1>1, <1>2, <1>3, <2>1, <2>2 DEF RoundTypes, RecordTypes
<1>7. ASSUME c \in Clients PROVE Told(c)'
  <2>1. Told(c)
    BY <1>7 DEF HttpInv
  <2>2. IF up[d] THEN d \in wasUp[c] ELSE d \in wasDown[c]
    BY <1>4, <2>1 DEF Told
  <2>3. ok[c] => \A e \in Deps : \/ e \in pending'[c]
                                 \/ e \in wasUp[c]
                                 \/ <<e, FALSE>> \in answers'[c]
    BY <1>3, <1>4, <1>5, <2>1, <2>2 DEF Told
  <2>4. \A e \in Deps : <<e, FALSE>> \in answers'[c] => e \in wasDown[c] \/ gone[c]
    BY <1>3, <1>4, <1>5, <2>1, <2>2 DEF Told
  <2> QED
    BY <1>2, <1>4, <2>1, <2>3, <2>4 DEF Told
<1>8. \A u \in Clients \ {c} : Same(u)
  BY <1>2, <1>5, Distinct DEF Same
<1> QED
  BY <1>1, <1>2, <1>4, <1>6, <1>7, <1>8, OneRound DEF ServerTypes

LEMMA CollectKeeps ==
    ASSUME HttpInv, NEW c \in Callers, NEW d \in Deps, NEW passed \in BOOLEAN,
           Collect(c, d, passed)
    PROVE  HttpInv'
<1>1. ServerTypes /\ RoundTypes /\ RecordTypes
  BY TypeParts DEF HttpInv
<1>2. /\ <<d, passed>> \in answers[c]
      /\ answers' = [answers EXCEPT ![c] = @ \ {<<d, passed>>}]
      /\ gauge' = [gauge EXCEPT ![d] = passed]
      /\ ok' = [ok EXCEPT ![c] = @ /\ passed]
      /\ at' = at /\ pending' = pending
      /\ gone' = gone /\ wasUp' = wasUp /\ wasDown' = wasDown
      /\ up' = up /\ phase' = phase /\ result' = result
  BY DEF Collect, clientVars
<1>3. at[c] = "checking"
  BY <1>1, <1>2 DEF RoundTypes
<1>4. /\ answers'[c] = answers[c] \ {<<d, passed>>}
      /\ ok'[c] = (ok[c] /\ passed)
      /\ \A u \in Callers \ {c} : answers'[u] = answers[u] /\ ok'[u] = ok[u]
      /\ gauge' \in [Deps -> BOOLEAN]
  BY <1>1, <1>2 DEF RoundTypes, ServerTypes
<1>5. RoundTypes' /\ RecordTypes'
  <2>1. answers[c] \ {<<d, passed>>} \in SUBSET (Deps \X BOOLEAN)
    BY <1>1 DEF RoundTypes
  <2>2. \A u \in Callers : at'[u] # "checking" => pending'[u] \cup answers'[u] = {}
    BY <1>1, <1>2, <1>3, <1>4 DEF RoundTypes
  <2>3. answers' \in [Callers -> SUBSET (Deps \X BOOLEAN)]
    BY <1>1, <1>2, <2>1 DEF RoundTypes
  <2>4. ok' \in [Callers -> BOOLEAN]
    BY <1>1, <1>2 DEF RoundTypes
  <2> QED
    BY <1>1, <1>2, <2>2, <2>3, <2>4 DEF RoundTypes, RecordTypes
<1>6. ASSUME c \in Clients PROVE Told(c)'
  <2>1. Told(c)
    BY <1>6 DEF HttpInv
  <2>2. ok'[c] => \A e \in Deps : \/ e \in pending'[c]
                                  \/ e \in wasUp[c]
                                  \/ <<e, FALSE>> \in answers'[c]
    BY <1>2, <1>3, <1>4, <2>1 DEF Told
  <2>3. ~ok'[c] => wasDown[c] # {} \/ gone[c]
    BY <1>2, <1>3, <1>4, <2>1 DEF Told
  <2> QED
    BY <1>2, <1>3, <1>4, <2>1, <2>2, <2>3 DEF Told
<1>7. \A u \in Clients \ {c} : Same(u)
  BY <1>2, <1>4, Distinct DEF Same
<1> QED
  BY <1>1, <1>2, <1>3, <1>4, <1>5, <1>6, <1>7, OneRound

LEMMA RespondKeeps ==
    ASSUME HttpInv, NEW c \in Clients, Respond(c)
    PROVE  HttpInv'
<1>1. ServerTypes /\ RoundTypes /\ RecordTypes /\ c \in Callers /\ Told(c)
  BY TypeParts, Distinct DEF HttpInv
<1>2. /\ at[c] = "checking" /\ pending[c] = {} /\ answers[c] = {}
      /\ at' = [at EXCEPT ![c] = IF ok[c] THEN "ready" ELSE "not_ready"]
      /\ pending' = pending /\ answers' = answers /\ ok' = ok
      /\ gone' = gone /\ wasUp' = wasUp /\ wasDown' = wasDown
      /\ up' = up /\ gauge' = gauge /\ phase' = phase /\ result' = result
  BY DEF Respond, CollectedAll, clientVars
<1>3. /\ at'[c] = IF ok[c] THEN "ready" ELSE "not_ready"
      /\ \A u \in Callers \ {c} : at'[u] = at[u]
  BY <1>1, <1>2 DEF RoundTypes
<1>4. RoundTypes' /\ RecordTypes'
  BY <1>1, <1>2, <1>3 DEF RoundTypes, RecordTypes
<1>5. Told(c)'
  <2>1. CASE ok[c]
    <3>1. wasUp[c] = Deps
      BY <1>1, <1>2, <2>1 DEF Told, RecordTypes
    <3>2. at'[c] = "ready" /\ wasUp'[c] = Deps
      BY <1>2, <1>3, <2>1, <3>1
    <3> QED
      BY <3>2 DEF Told
  <2>2. CASE ~ok[c]
    <3>1. wasDown[c] # {} \/ gone[c]
      BY <1>1, <1>2, <2>2 DEF Told
    <3>2. at'[c] = "not_ready" /\ (wasDown'[c] # {} \/ gone'[c])
      BY <1>2, <1>3, <2>2, <3>1
    <3> QED
      BY <3>2 DEF Told
  <2> QED
    BY <2>1, <2>2
<1>6. /\ \A u \in Clients \ {c} : Same(u)
      /\ at'[Prober] = at[Prober]
  BY <1>2, <1>3, Distinct, HttpServerAssumption DEF Same
<1> QED
  BY <1>1, <1>2, <1>4, <1>5, <1>6, OneRound DEF ServerTypes

\* A step of probeLoop.
LEMMA ProberKeeps ==
    ASSUME HttpInv, Tick \/ Probed \/ Done
    PROVE  HttpInv'
<1>1. ServerTypes /\ RoundTypes /\ RecordTypes /\ Prober \in Callers
  BY TypeParts, Distinct DEF HttpInv
<1>2. /\ answers' = answers /\ gone' = gone /\ wasUp' = wasUp /\ wasDown' = wasDown
      /\ up' = up /\ gauge' = gauge /\ phase' = phase /\ result' = result
  BY DEF Tick, Probed, Done, RunChecks, clientVars
<1>3. PICK l \in {"idle", "checking", "ended"}, checks \in SUBSET Deps, good \in BOOLEAN :
         /\ at' = [at EXCEPT ![Prober] = l]
         /\ pending' = [pending EXCEPT ![Prober] = checks]
         /\ ok' = [ok EXCEPT ![Prober] = good]
         /\ l # "checking" => checks \cup answers[Prober] = {}
         /\ at[Prober] # "ended"
  <2>1. CASE Tick
    BY <1>1, <2>1 DEF Tick, RunChecks
  <2>2. CASE Probed \/ Done
    <3>1. /\ pending = [pending EXCEPT ![Prober] = pending[Prober]]
          /\ ok = [ok EXCEPT ![Prober] = ok[Prober]]
          /\ pending[Prober] \in SUBSET Deps /\ ok[Prober] \in BOOLEAN
      BY <1>1 DEF RoundTypes
    <3>2. /\ pending' = pending /\ ok' = ok /\ at[Prober] # "ended"
          /\ pending[Prober] \cup answers[Prober] = {}
      BY <1>1, <2>2 DEF Probed, Done, CollectedAll, RoundTypes
    <3> QED
      BY <2>2, <3>1, <3>2 DEF Probed, Done
  <2> QED
    BY <2>1, <2>2
<1>4. /\ at'[Prober] = l /\ pending'[Prober] = checks
      /\ \A u \in Callers \ {Prober} :
            at'[u] = at[u] /\ pending'[u] = pending[u] /\ ok'[u] = ok[u]
  BY <1>1, <1>3 DEF RoundTypes
<1>5. RoundTypes' /\ RecordTypes'
  <2>1. \A u \in Callers : at'[u] # "checking" => pending'[u] \cup answers'[u] = {}
    BY <1>1, <1>2, <1>3, <1>4 DEF RoundTypes
  <2> QED
    BY <1>1, <1>2, <1>3, <2>1 DEF RoundTypes, RecordTypes
<1>6. \A u \in Clients \ {Prober} : Same(u)
  BY <1>2, <1>4, Distinct DEF Same
<1> QED
  BY <1>1, <1>2, <1>3, <1>5, <1>6, HttpServerAssumption, OneRound DEF ServerTypes

\* A step of the server itself, in the order of a shutdown.
LEMMA ServerKeeps ==
    ASSUME HttpInv, Shutdown \/ Drained \/ Returned \/ ServeFails
    PROVE  HttpInv'
<1>1. ServerTypes /\ RoundTypes /\ RecordTypes /\ Stopping
  BY TypeParts DEF HttpInv
<1>2. /\ at' = at /\ pending' = pending /\ answers' = answers /\ ok' = ok
      /\ gone' = gone /\ wasUp' = wasUp /\ wasDown' = wasDown
      /\ up' = up /\ gauge' = gauge
  BY DEF Shutdown, Drained, Returned, ServeFails, checkVars, clientVars
<1>3. ServerTypes' /\ RoundTypes' /\ RecordTypes'
  <2>1. /\ phase' \in {"up", "draining", "stopping", "stopped", "died"}
        /\ result' \in {"none", "nil", "timeout", "serve_error"}
    BY <1>1 DEF Shutdown, Drained, Returned, ServeFails, ServerTypes
  <2> QED
    BY <1>1, <1>2, <2>1 DEF ServerTypes, RoundTypes, RecordTypes
<1>4. Stopping'
  BY <1>1, <1>2 DEF Stopping, Shutdown, Drained, Returned, ServeFails
<1>5. \A c \in Clients : Told(c)'
  BY <1>2, ToldStays DEF HttpInv, Same
<1> QED
  BY <1>3, <1>4, <1>5, TypePartsNext DEF HttpInv

LEMMA RestartKeeps ==
    ASSUME HttpInv, Restart
    PROVE  HttpInv'
<1>1. ServerTypes
  BY TypeParts DEF HttpInv
<1>2. /\ phase' = "up" /\ result' = "none" /\ up' = up
      /\ gauge' = [d \in Deps |-> FALSE] /\ at' = [c \in Callers |-> "idle"]
      /\ pending' = [c \in Callers |-> {}] /\ answers' = [c \in Callers |-> {}]
      /\ ok' = [c \in Callers |-> TRUE] /\ gone' = [c \in Clients |-> FALSE]
      /\ wasUp' = [c \in Clients |-> {}] /\ wasDown' = [c \in Clients |-> {}]
  BY DEF Restart
<1>3. ServerTypes' /\ RoundTypes' /\ RecordTypes'
  BY <1>1, <1>2 DEF ServerTypes, RoundTypes, RecordTypes
<1>4. Stopping' /\ \A c \in Clients : Told(c)'
  BY <1>2, Distinct DEF Stopping, Told
<1> QED
  BY <1>3, <1>4, TypePartsNext DEF HttpInv
-----------------------------------------------------------------------------
LEMMA HttpStarts == HttpInit => HttpInv
<1> SUFFICES ASSUME HttpInit PROVE HttpInv
  OBVIOUS
<1>1. ServerTypes /\ RoundTypes /\ RecordTypes
  BY DEF HttpInit, ServerTypes, RoundTypes, RecordTypes
<1>2. Stopping /\ \A c \in Clients : Told(c)
  BY Distinct DEF HttpInit, Stopping, Told
<1> QED
  BY <1>1, <1>2, TypeParts DEF HttpInv

LEMMA HttpStepKeeps ==
    ASSUME HttpInv, HttpNext
    PROVE  HttpInv'
<1>1. CASE \E d \in Deps : Flip(d)
  BY <1>1, FlipKeeps
<1>2. CASE \E c \in Clients : Request(c) \/ HangUp(c) \/ Respond(c)
  BY <1>2, RequestKeeps, HangUpKeeps, RespondKeeps
<1>3. CASE \E c \in Callers : Evaluate(c)
  BY <1>3, AnswerKeeps, CollectKeeps DEF Evaluate
<1>4. CASE Tick \/ Probed \/ Done
  BY <1>4, ProberKeeps
<1>5. CASE Shutdown \/ Drained \/ Returned \/ ServeFails
  BY <1>5, ServerKeeps
<1>6. CASE Restart
  BY <1>6, RestartKeeps
<1> QED
  BY <1>1, <1>2, <1>3, <1>4, <1>5, <1>6 DEF HttpNext

LEMMA HttpStutterKeeps ==
    ASSUME HttpInv, UNCHANGED httpVars
    PROVE  HttpInv'
<1>1. /\ up' = up /\ gauge' = gauge /\ phase' = phase /\ result' = result
      /\ at' = at /\ pending' = pending /\ answers' = answers /\ ok' = ok
      /\ gone' = gone /\ wasUp' = wasUp /\ wasDown' = wasDown
  BY DEF httpVars
<1>2. ServerTypes' /\ RoundTypes' /\ RecordTypes' /\ Stopping'
  BY <1>1, TypeParts DEF HttpInv, ServerTypes, RoundTypes, RecordTypes, Stopping
<1>3. \A c \in Clients : Told(c)'
  BY <1>1, ToldStays DEF HttpInv, Same
<1> QED
  BY <1>2, <1>3, TypePartsNext DEF HttpInv

LEMMA HttpInvariant == HttpSpec => []HttpInv
<1>1. HttpInv /\ [HttpNext]_httpVars => HttpInv'
  BY HttpStepKeeps, HttpStutterKeeps
<1> QED
  BY <1>1, HttpStarts, PTL DEF HttpSpec

\* For any dependencies and clients: /readyz answers for the time the request
\* was there (runChecks, handleReady), and a Shutdown that returned nil left
\* no check running (Shutdown, probeLoop).
THEOREM HttpSafety == HttpSpec => [](HttpTypeOK /\ VerdictHonest /\ QuietAfterStop)
<1>1. HttpInv => HttpTypeOK /\ VerdictHonest
  BY DEF HttpInv, Told, VerdictHonest
<1>2. HttpInv => QuietAfterStop
  <2> SUFFICES ASSUME HttpInv, phase = "stopped", result = "nil", NEW c \in Callers
               PROVE  at[c] # "checking" /\ pending[c] \cup answers[c] = {}
    BY DEF QuietAfterStop
  <2>1. at[c] # "checking"
    BY Distinct DEF HttpInv, Stopping
  <2> QED
    BY <2>1 DEF HttpInv, HttpTypeOK
<1> QED
  BY <1>1, <1>2, HttpInvariant, PTL
=============================================================================
