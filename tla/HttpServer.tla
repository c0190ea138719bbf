----------------------------- MODULE HttpServer -----------------------------
(***************************************************************************)
(* The operational surface that the long-running binaries share            *)
(* (internal/platform/httpserver): GET /readyz and a background prober     *)
(* both run the dependency checks, concurrently with each other, and every *)
(* result is written to the dependency's gauge as it is collected; a       *)
(* shutdown drains the requests and then stops the prober.                 *)
(*                                                                         *)
(* A dependency that does not answer within ProbeTimeout is down.  The     *)
(* application's own routes are in Gateway and Ingest.                     *)
(***************************************************************************)
EXTENDS FiniteSets

CONSTANTS Deps,     \* the dependencies, one readiness check each
          Clients,  \* who asks /readyz; one request each at a time
          Prober    \* the background goroutine

ASSUME HttpServerAssumption == Prober \notin Clients

Callers == Clients \cup {Prober}  \* of runChecks

VARIABLES
    up,       \* a check of the dependency would pass now
    gauge,    \* the dependency's gauge reads 1
    phase,    \* of the server
    result,   \* what Shutdown returns
    at,       \* where each caller is
    pending,  \* its checks that have not answered
    answers,  \* answers that runChecks has not collected
    ok,       \* no answer collected so far was an error
    gone,     \* the client has hung up
    wasUp,    \* dependencies that were up at some moment of the request
    wasDown   \* and those that were down

checkVars  == <<at, pending, answers, ok>>
clientVars == <<gone, wasUp, wasDown>>
httpVars ==
    <<up, gauge, phase, result, at, pending, answers, ok, gone, wasUp, wasDown>>

HttpInit ==
    /\ up \in [Deps -> BOOLEAN]
    /\ gauge = [d \in Deps |-> FALSE]
    /\ phase = "up"
    /\ result = "none"
    /\ at = [c \in Callers |-> "idle"]
    /\ pending = [c \in Callers |-> {}]
    /\ answers = [c \in Callers |-> {}]
    /\ ok = [c \in Callers |-> TRUE]
    /\ gone = [c \in Clients |-> FALSE]
    /\ wasUp = [c \in Clients |-> {}]
    /\ wasDown = [c \in Clients |-> {}]
-----------------------------------------------------------------------------
\* The dependency fails or recovers.
Flip(d) ==
    /\ up' = [up EXCEPT ![d] = ~@]
    /\ wasUp' = [c \in Clients |-> IF up[d] THEN wasUp[c] ELSE wasUp[c] \cup {d}]
    /\ wasDown' = [c \in Clients |-> IF up[d] THEN wasDown[c] \cup {d} ELSE wasDown[c]]
    /\ UNCHANGED <<gauge, phase, result, checkVars, gone>>

\* runChecks starts one goroutine for each check.
RunChecks(c) ==
    /\ at' = [at EXCEPT ![c] = "checking"]
    /\ pending' = [pending EXCEPT ![c] = Deps]
    /\ ok' = [ok EXCEPT ![c] = TRUE]
    /\ UNCHANGED answers

\* GET /readyz.
Request(c) ==
    /\ phase = "up"
    /\ at[c] # "checking"
    /\ RunChecks(c)
    /\ gone' = [gone EXCEPT ![c] = FALSE]
    /\ wasUp' = [wasUp EXCEPT ![c] = {d \in Deps : up[d]}]
    /\ wasDown' = [wasDown EXCEPT ![c] = {d \in Deps : ~up[d]}]
    /\ UNCHANGED <<up, gauge, phase, result>>

\* The client goes away, and with it the context its checks run under.
HangUp(c) ==
    /\ at[c] = "checking"
    /\ ~gone[c]
    /\ gone' = [gone EXCEPT ![c] = TRUE]
    /\ UNCHANGED <<up, gauge, phase, result, checkVars, wasUp, wasDown>>

\* A check answers, or fails because its context is done.
Answer(c, d) ==
    /\ d \in pending[c]
    /\ pending' = [pending EXCEPT ![c] = @ \ {d}]
    /\ \/ answers' = [answers EXCEPT ![c] = @ \cup {<<d, up[d]>>}]
       \/ /\ c \in Clients /\ gone[c]
          /\ answers' = [answers EXCEPT ![c] = @ \cup {<<d, FALSE>>}]
    /\ UNCHANGED <<up, gauge, phase, result, at, ok, clientVars>>

\* (mutant) The gauges are left to somebody else.
CollectVerdictOnly(c, d, passed) ==
    /\ <<d, passed>> \in answers[c]
    /\ answers' = [answers EXCEPT ![c] = @ \ {<<d, passed>>}]
    /\ ok' = [ok EXCEPT ![c] = @ /\ passed]
    /\ UNCHANGED <<up, gauge, phase, result, at, pending, clientVars>>

\* (mutant) The verdict is the last answer's.
CollectLastWins(c, d, passed) ==
    /\ <<d, passed>> \in answers[c]
    /\ answers' = [answers EXCEPT ![c] = @ \ {<<d, passed>>}]
    /\ gauge' = [gauge EXCEPT ![d] = passed]
    /\ ok' = [ok EXCEPT ![c] = passed]
    /\ UNCHANGED <<up, phase, result, at, pending, clientVars>>

\* runChecks receives an answer, in any order, and sets its gauge.
Collect(c, d, passed) ==
    /\ <<d, passed>> \in answers[c]
    /\ answers' = [answers EXCEPT ![c] = @ \ {<<d, passed>>}]
    /\ gauge' = [gauge EXCEPT ![d] = passed]
    /\ ok' = [ok EXCEPT ![c] = @ /\ passed]
    /\ UNCHANGED <<up, phase, result, at, pending, clientVars>>

\* (mutant) runChecks returns on the first error.
CollectedAllOrError(c) == at[c] = "checking" /\ (~ok[c] \/ pending[c] \cup answers[c] = {})

CollectedAll(c) == at[c] = "checking" /\ pending[c] \cup answers[c] = {}

\* /readyz answers 200 or 503.
Respond(c) ==
    /\ CollectedAll(c)
    /\ at' = [at EXCEPT ![c] = IF ok[c] THEN "ready" ELSE "not_ready"]
    /\ UNCHANGED <<up, gauge, phase, result, pending, answers, ok, clientVars>>
-----------------------------------------------------------------------------
\* probeLoop's select: Go takes either case when both are ready.
Tick ==
    /\ at[Prober] = "idle"
    /\ phase # "died"
    /\ RunChecks(Prober)
    /\ UNCHANGED <<up, gauge, phase, result, clientVars>>

Probed ==
    /\ CollectedAll(Prober)
    /\ at' = [at EXCEPT ![Prober] = "idle"]
    /\ UNCHANGED <<up, gauge, phase, result, pending, answers, ok, clientVars>>

\* (mutant) The loop ranges over the ticker, which a Stop does not close.
DoneUnseen ==
    /\ FALSE
    /\ UNCHANGED httpVars

Done ==
    /\ at[Prober] = "idle"
    /\ phase = "stopping"
    /\ at' = [at EXCEPT ![Prober] = "ended"]
    /\ UNCHANGED <<up, gauge, phase, result, pending, answers, ok, clientVars>>

\* Shutdown is called and the listener closes.
Shutdown ==
    /\ phase = "up"
    /\ phase' = "draining"
    /\ UNCHANGED <<up, gauge, result, checkVars, clientVars>>

\* http.Shutdown returns, its requests finished or its time out; either way
\* the prober is told to stop.
Drained ==
    /\ phase = "draining"
    /\ phase' = "stopping"
    /\ \/ (\A c \in Clients : at[c] # "checking") /\ result' = "nil"
       \/ result' = "timeout"
    /\ UNCHANGED <<up, gauge, checkVars, clientVars>>

\* (mutant) Shutdown returns without waiting for the prober.
ReturnedEarly ==
    /\ phase = "stopping"
    /\ phase' = "stopped"
    /\ UNCHANGED <<up, gauge, result, checkVars, clientVars>>

\* proberWG.Wait.
Returned ==
    /\ phase = "stopping"
    /\ at[Prober] = "ended"
    /\ phase' = "stopped"
    /\ UNCHANGED <<up, gauge, result, checkVars, clientVars>>

\* The listener dies: Start's channel gets the error and the binary exits.
ServeFails ==
    /\ phase = "up"
    /\ phase' = "died"
    /\ result' = "serve_error"
    /\ UNCHANGED <<up, gauge, checkVars, clientVars>>

\* The process has ended and is started again: New, Start.
Restart ==
    /\ phase \in {"stopped", "died"}
    /\ phase' = "up"
    /\ result' = "none"
    /\ gauge' = [d \in Deps |-> FALSE]
    /\ at' = [c \in Callers |-> "idle"]
    /\ pending' = [c \in Callers |-> {}]
    /\ answers' = [c \in Callers |-> {}]
    /\ ok' = [c \in Callers |-> TRUE]
    /\ gone' = [c \in Clients |-> FALSE]
    /\ wasUp' = [c \in Clients |-> {}]
    /\ wasDown' = [c \in Clients |-> {}]
    /\ UNCHANGED up

Evaluate(c) ==
    \E d \in Deps : Answer(c, d) \/ \E passed \in BOOLEAN : Collect(c, d, passed)

HttpNext ==
    \/ \E d \in Deps : Flip(d)
    \/ \E c \in Clients : Request(c) \/ HangUp(c) \/ Respond(c)
    \/ \E c \in Callers : Evaluate(c)
    \/ Tick
    \/ Probed
    \/ Done
    \/ Shutdown
    \/ Drained
    \/ Returned
    \/ ServeFails
    \/ Restart

HttpSpec == HttpInit /\ [][HttpNext]_httpVars

\* Checks end (they run under a timeout), the ticker ticks, and Shutdown and
\* the prober go on.  Done is strong: the select picks at random among the
\* cases that are ready, so a closed channel is not passed over for ever.
HttpFairSpec ==
    /\ HttpSpec
    /\ \A c \in Callers : WF_httpVars(Evaluate(c))
    /\ \A c \in Clients : WF_httpVars(Respond(c))
    /\ WF_httpVars(Tick) /\ WF_httpVars(Probed) /\ SF_httpVars(Done)
    /\ WF_httpVars(Drained) /\ WF_httpVars(Returned)
-----------------------------------------------------------------------------
HttpTypeOK ==
    /\ up \in [Deps -> BOOLEAN]
    /\ gauge \in [Deps -> BOOLEAN]
    /\ phase \in {"up", "draining", "stopping", "stopped", "died"}
    /\ result \in {"none", "nil", "timeout", "serve_error"}
    /\ at \in [Callers -> {"idle", "checking", "ready", "not_ready", "ended"}]
    /\ pending \in [Callers -> SUBSET Deps]
    /\ answers \in [Callers -> SUBSET (Deps \X BOOLEAN)]
    /\ \A c \in Callers : at[c] # "checking" => pending[c] \cup answers[c] = {}
    /\ ok \in [Callers -> BOOLEAN]
    /\ gone \in [Clients -> BOOLEAN]
    /\ wasUp \in [Clients -> SUBSET Deps]
    /\ wasDown \in [Clients -> SUBSET Deps]

\* The readiness verdict is about this request: 200 only if every dependency
\* was up while it was answered, 503 only if one was down or the client had
\* gone, however the answers and the prober's own round interleave.
VerdictHonest ==
    \A c \in Clients :
       /\ at[c] = "ready" => wasUp[c] = Deps
       /\ at[c] = "not_ready" => wasDown[c] # {} \/ gone[c]

\* The gauges follow the dependencies with no traffic at all: one that stays
\* down ends up at 0 for good, though concurrent rounds collect stale answers
\* after newer ones, and one that stays up comes back to 1 again and again (a
\* request whose client hangs up may set it to 0 in between).
GaugeFollows ==
    \A d \in Deps :
       /\ <>[](phase = "up" /\ ~up[d]) => <>[](~gauge[d])
       /\ <>[](phase = "up" /\ up[d]) => []<>(gauge[d])

\* Shutdown returns: neither a request that hangs nor the prober holds it up.
ShutdownReturns == phase = "draining" ~> phase = "stopped"

\* A clean Shutdown leaves nothing behind: when it has returned nil, no check
\* is still running that could touch a gauge or a pool that is being closed.
QuietAfterStop ==
    phase = "stopped" /\ result = "nil" =>
       \A c \in Callers : at[c] # "checking" /\ pending[c] \cup answers[c] = {}
=============================================================================
