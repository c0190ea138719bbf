------------------------------ MODULE Gateway ------------------------------
(***************************************************************************)
(* The SSE gateway (internal/gateway, cmd/gateway) between the fan-out bus *)
(* (internal/fanout on Redis Pub/Sub) and the browsers: one fan-out loop   *)
(* offers every frame to the bounded buffer of every stream and sheds the  *)
(* streams that are full, while each stream's handler resumes its browser  *)
(* from the history in Postgres and then writes what its buffer holds.     *)
(*                                                                         *)
(* Whatever holds the gateway's mutex is one step; the two history reads   *)
(* of a resume and every write to a browser are steps of their own, so     *)
(* that events are applied, frames broadcast and streams shed in between.  *)
(* A browser opens its next stream when the previous one has ended.        *)
(***************************************************************************)
EXTENDS Integers, Sequences, FiniteSets

CONSTANTS EventIds,      \* event ids
          IdOrder,       \* the place of each in Postgres's order of uuids
          EventTs,       \* the event time of each
          Earlier,       \* those that were out before the gateway started
          Browsers,      \* the viewers followed; each has at most one stream
          NoId,          \* no Last-Event-ID
          ClientBuffer,  \* frames a stream may be behind
          MaxClients,    \* streams admitted at a time
          ReplayLimit,   \* frames one resume may send
          BusBuffer      \* frames between the bus and the fan-out loop

ASSUME GatewayAssumption ==
    /\ IdOrder \in [EventIds -> Int]
    /\ \A e, f \in EventIds : IdOrder[e] = IdOrder[f] => e = f
    /\ EventTs \in [EventIds -> Int]
    /\ Earlier \subseteq EventIds /\ IsFiniteSet(Earlier)
    /\ NoId \notin EventIds
    /\ ClientBuffer \in Nat \ {0}
    /\ MaxClients \in Nat \ {0}
    /\ ReplayLimit \in Nat \ {0}
    /\ BusBuffer \in Nat \ {0}

VARIABLES
    history,   \* ids in vehicle_positions
    tried,     \* ids the consumer is done publishing, or will never publish
    bused,     \* ids whose frame reached the gateway's subscription
    feed,      \* the subscription's channel, oldest frame first
    running,   \* the fan-out loop runs
    phase,     \* of the process: up, signalled, closed (streams), draining
    clients,   \* the registered streams, g.clients
    others,    \* how many more are registered, for viewers not followed
    buf,       \* each stream's buffer, c.out
    closed,    \* its channel is closed, or there is none
    handler,   \* where its handleStream is
    resume,    \* the id it was resumed from, NoId if it started fresh
    frames,    \* what its resume has still to write
    cut,       \* its resume left out frames beyond the limit
    gone,      \* its browser has hung up
    lastId,    \* the browser's Last-Event-ID
    seen,      \* ids the browser has been sent
    since      \* ids whose frame was out when the browser started fresh

busVars     == <<history, tried, bused>>
streamVars  == <<buf, closed, handler, resume, frames, cut, gone>>
browserVars == <<lastId, seen, since>>
gatewayVars ==
    <<history, tried, bused, feed, running, phase, clients, others, buf, closed,
      handler, resume, frames, cut, gone, lastId, seen, since>>

In(s) == {s[i] : i \in DOMAIN s}

GatewayInit ==
    /\ history = Earlier /\ tried = Earlier /\ bused = Earlier
    /\ feed = <<>>
    /\ running = TRUE
    /\ phase = "up"
    /\ clients = {}
    /\ others = 0
    /\ buf = [b \in Browsers |-> <<>>]
    /\ closed = [b \in Browsers |-> TRUE]
    /\ handler = [b \in Browsers |-> "off"]
    /\ resume = [b \in Browsers |-> NoId]
    /\ frames = [b \in Browsers |-> {}]
    /\ cut = [b \in Browsers |-> FALSE]
    /\ gone = [b \in Browsers |-> FALSE]
    /\ lastId \in [Browsers -> Earlier \cup {NoId}]
    /\ seen = [b \in Browsers |-> {}]
    /\ since = [b \in Browsers |-> Earlier]
-----------------------------------------------------------------------------
\* A consumer's transaction commits the event to the history.
Applied(e) ==
    /\ e \in EventIds \ history
    /\ history' = history \cup {e}
    /\ UNCHANGED <<tried, bused, feed, running, phase, clients, others,
                   streamVars, browserVars>>

\* The consumer publishes it, once.  The frame is lost when the publish fails,
\* the consumer dies first, Redis is reconnecting or the channel is full.
Publish(e) ==
    /\ e \in history \ tried
    /\ tried' = tried \cup {e}
    /\ \/ /\ Len(feed) < BusBuffer
          /\ feed' = Append(feed, e)
          /\ bused' = bused \cup {e}
       \/ UNCHANGED <<feed, bused>>
    /\ UNCHANGED <<history, running, phase, clients, others, streamVars,
                   browserVars>>

\* (mutant) dropLocked closes the buffer and forgets to delete the client.
DropLockedKeeps(cs) ==
    /\ UNCHANGED clients
    /\ closed' = [b \in Browsers |-> closed[b] \/ b \in cs]

\* dropLocked, for each of a set of clients.
DropLocked(cs) ==
    /\ clients' = clients \ cs
    /\ closed' = [b \in Browsers |-> closed[b] \/ b \in cs]

\* (mutant) A send without a default case: the loop waits for room.
BroadcastWaits ==
    /\ running
    /\ feed # <<>>
    /\ \A b \in clients : Len(buf[b]) < ClientBuffer
    /\ feed' = Tail(feed)
    /\ buf' = [b \in Browsers |-> IF b \in clients THEN Append(buf[b], Head(feed))
                                                   ELSE buf[b]]
    /\ UNCHANGED <<busVars, others, running, phase, clients, closed, handler,
                   resume, frames, cut, gone, browserVars>>

\* (mutant) A client whose buffer is full misses the frame and stays.
BroadcastSkips ==
    /\ running
    /\ feed # <<>>
    /\ feed' = Tail(feed)
    /\ buf' = [b \in Browsers |-> IF b \in clients /\ Len(buf[b]) < ClientBuffer
                                  THEN Append(buf[b], Head(feed)) ELSE buf[b]]
    /\ UNCHANGED <<busVars, others, running, phase, clients, closed, handler,
                   resume, frames, cut, gone, browserVars>>

\* broadcast: a client with room gets the frame, the others are shed.
Broadcast ==
    LET full == {b \in clients : Len(buf[b]) >= ClientBuffer}
    IN  /\ running
        /\ feed # <<>>
        /\ feed' = Tail(feed)
        /\ buf' = [b \in Browsers |-> IF b \in clients \ full
                                      THEN Append(buf[b], Head(feed)) ELSE buf[b]]
        /\ DropLocked(full)
        /\ UNCHANGED <<busVars, others, running, phase, handler, resume,
                       frames, cut, gone, browserVars>>
-----------------------------------------------------------------------------
Listening == phase \in {"up", "signalled", "closed"}

\* (mutant) The cap is tested with > instead of >=.
RoomOffByOne == Cardinality(clients) + others <= MaxClients

Room == Cardinality(clients) + others < MaxClients

\* handleStream up to replay, and replay for a browser without an id.  A
\* browser that finds no room is answered 503 and nothing changes.
Register(b) ==
    /\ handler[b] = "off"
    /\ Listening
    /\ Room
    /\ clients' = clients \cup {b}
    /\ closed' = [closed EXCEPT ![b] = FALSE]
    /\ IF lastId[b] = NoId
       THEN /\ handler' = [handler EXCEPT ![b] = "live"]
            /\ since' = [since EXCEPT ![b] = bused]
       ELSE /\ handler' = [handler EXCEPT ![b] = "resolve"]
            /\ UNCHANGED since
    /\ UNCHANGED <<busVars, others, feed, running, phase, buf, resume, frames,
                   cut, gone, lastId, seen>>

\* Somebody else's stream takes a slot, or gives one back.
OthersComeAndGo ==
    /\ \/ Listening /\ Room /\ others' = others + 1
       \/ others > 0 /\ others' = others - 1
    /\ UNCHANGED <<busVars, feed, running, phase, clients, streamVars,
                   browserVars>>

\* The resume is refused or failed: the browser is told, and gets what is
\* broadcast from now on.
StartFresh(b) ==
    /\ handler' = [handler EXCEPT ![b] = "live"]
    /\ since' = [since EXCEPT ![b] = bused \ (In(buf[b]) \cup In(feed))]
    /\ UNCHANGED <<resume, frames, cut>>

\* replay, first read.  The id resolves, or it is not in the history, it is
\* older than the window, or the database does not answer.
PositionTime(b) ==
    /\ handler[b] = "resolve"
    /\ \/ /\ lastId[b] \in history
          /\ handler' = [handler EXCEPT ![b] = "read"]
          /\ UNCHANGED <<since, resume, frames, cut>>
       \/ StartFresh(b)
    /\ UNCHANGED <<busVars, others, feed, running, phase, clients, buf, closed,
                   gone, lastId, seen>>

\* The order of (event_ts, event_id), in which a resume delivers.
After(e, r) ==
    \/ EventTs[e] > EventTs[r]
    \/ EventTs[e] = EventTs[r] /\ IdOrder[e] > IdOrder[r]

\* (mutant) WHERE event_ts > $1.
MissedByTime(e, r) == EventTs[e] > EventTs[r]

\* WHERE (event_ts, event_id) > ($1, $2).
Missed(e, r) == After(e, r)

\* (mutant) ORDER BY event_ts DESC, event_id DESC LIMIT.
OldestLatest(es) == {e \in es : Cardinality({f \in es : After(f, e)}) < ReplayLimit}

\* ORDER BY event_ts, event_id LIMIT.
Oldest(es) == {e \in es : Cardinality({f \in es : After(e, f)}) < ReplayLimit}

\* replay, second read.
PositionsSince(b) ==
    LET newer == {e \in history : Missed(e, lastId[b])}
        first == Oldest(newer)
    IN  /\ handler[b] = "read"
        /\ \/ /\ handler' = [handler EXCEPT ![b] = "replay"]
              /\ resume' = [resume EXCEPT ![b] = lastId[b]]
              /\ frames' = [frames EXCEPT ![b] = first]
              /\ cut' = [cut EXCEPT ![b] = first # newer]
              /\ UNCHANGED since
           \/ StartFresh(b)
        /\ UNCHANGED <<busVars, others, feed, running, phase, clients, buf,
                       closed, gone, lastId, seen>>

\* writePosition: a write to a browser that is still there reaches it; one to
\* a browser that has hung up may still be accepted by the socket.
WritePosition(b, e) ==
    /\ lastId' = IF gone[b] THEN lastId ELSE [lastId EXCEPT ![b] = e]
    /\ seen' = IF gone[b] THEN seen ELSE [seen EXCEPT ![b] = @ \cup {e}]
    /\ UNCHANGED since

\* replay writes the frames in order.  A write that fails ends the replay and
\* leaves the rest of the handler to find out.
WriteMissed(b) ==
    /\ handler[b] = "replay"
    /\ \E e \in frames[b] :
          /\ \A f \in frames[b] \ {e} : After(f, e)
          /\ \/ /\ WritePosition(b, e)
                /\ frames' = [frames EXCEPT ![b] = @ \ {e}]
                /\ UNCHANGED handler
             \/ /\ gone[b]
                /\ frames' = [frames EXCEPT ![b] = {}]
                /\ handler' = [handler EXCEPT ![b] = "live"]
                /\ UNCHANGED browserVars
    /\ UNCHANGED <<busVars, others, feed, running, phase, clients, buf, closed,
                   resume, cut, gone>>

\* The control frame "resumed".
Resumed(b) ==
    /\ handler[b] = "replay"
    /\ frames[b] = {}
    /\ handler' = [handler EXCEPT ![b] = "live"]
    /\ UNCHANGED <<busVars, others, feed, running, phase, clients, buf, closed,
                   resume, frames, cut, gone, browserVars>>

\* handleStream returns: unregister deletes the client unless it was dropped.
Unregister(b) ==
    /\ clients' = clients \ {b}
    /\ closed' = [closed EXCEPT ![b] = TRUE]
    /\ handler' = [handler EXCEPT ![b] = "off"]
    /\ buf' = [buf EXCEPT ![b] = <<>>]
    /\ resume' = [resume EXCEPT ![b] = NoId]
    /\ cut' = [cut EXCEPT ![b] = FALSE]
    /\ gone' = [gone EXCEPT ![b] = FALSE]

\* The stream loop takes a frame from the buffer; a closed channel still hands
\* out what is in it.
Stream(b) ==
    /\ handler[b] = "live"
    /\ buf[b] # <<>>
    /\ \/ /\ WritePosition(b, Head(buf[b]))
          /\ buf' = [buf EXCEPT ![b] = Tail(@)]
          /\ UNCHANGED <<clients, closed, handler, resume, cut, gone>>
       \/ /\ gone[b]
          /\ Unregister(b)
          /\ UNCHANGED browserVars
    /\ UNCHANGED <<busVars, others, feed, running, phase, frames>>

\* The buffer is closed and empty: the control frame "shed", and return.
Shed(b) ==
    /\ handler[b] = "live"
    /\ closed[b]
    /\ buf[b] = <<>>
    /\ Unregister(b)
    /\ UNCHANGED <<busVars, others, feed, running, phase, frames, browserVars>>

\* The request's context is done, a heartbeat cannot be written, or the stream
\* has reached its maximum duration.
EndStream(b) ==
    /\ handler[b] = "live"
    /\ Unregister(b)
    /\ UNCHANGED <<busVars, others, feed, running, phase, frames, browserVars>>

\* The browser navigates away or its connection dies.
HangUp(b) ==
    /\ handler[b] # "off"
    /\ ~gone[b]
    /\ gone' = [gone EXCEPT ![b] = TRUE]
    /\ UNCHANGED <<busVars, others, feed, running, phase, clients, buf, closed,
                   handler, resume, frames, cut, browserVars>>
-----------------------------------------------------------------------------
Sigterm ==
    /\ phase = "up"
    /\ phase' = "signalled"
    /\ UNCHANGED <<busVars, others, feed, running, clients, streamVars,
                   browserVars>>

\* The fan-out loop sees the cancelled context.
LoopEnds ==
    /\ phase # "up"
    /\ running
    /\ running' = FALSE
    /\ UNCHANGED <<busVars, others, feed, phase, clients, streamVars,
                   browserVars>>

\* Gateway.Shutdown.
Shutdown ==
    /\ phase = "signalled"
    /\ phase' = "closed"
    /\ DropLocked(clients)
    /\ others' = 0
    /\ UNCHANGED <<busVars, feed, running, buf, handler, resume, frames, cut,
                   gone, browserVars>>

\* httpserver.Shutdown closes the listener and waits for the handlers.
CloseListener ==
    /\ phase = "closed"
    /\ phase' = "draining"
    /\ UNCHANGED <<busVars, others, feed, running, clients, streamVars,
                   browserVars>>

\* The process ends, its drain finished or timed out, or dies at any other
\* moment, and is started again.  What was in its channels is lost.
Restart ==
    /\ phase' = "up"
    /\ running' = TRUE
    /\ feed' = <<>>
    /\ clients' = {}
    /\ others' = 0
    /\ closed' = [b \in Browsers |-> TRUE]
    /\ handler' = [b \in Browsers |-> "off"]
    /\ buf' = [b \in Browsers |-> <<>>]
    /\ resume' = [b \in Browsers |-> NoId]
    /\ frames' = [b \in Browsers |-> {}]
    /\ cut' = [b \in Browsers |-> FALSE]
    /\ gone' = [b \in Browsers |-> FALSE]
    /\ UNCHANGED <<busVars, browserVars>>

Handle(b) ==
    \/ PositionTime(b)
    \/ PositionsSince(b)
    \/ WriteMissed(b)
    \/ Resumed(b)
    \/ Stream(b)
    \/ Shed(b)
    \/ EndStream(b)

\* What the gateway and its browsers do, events apart.
GatewayStep ==
    \/ Broadcast
    \/ OthersComeAndGo
    \/ \E b \in Browsers : Register(b) \/ Handle(b) \/ HangUp(b)
    \/ Sigterm
    \/ LoopEnds
    \/ Shutdown
    \/ CloseListener
    \/ Restart

GatewayNext ==
    \/ \E e \in EventIds : Applied(e) \/ Publish(e)
    \/ GatewayStep

GatewaySpec == GatewayInit /\ [][GatewayNext]_gatewayVars

\* Only the fan-out loop is fair.  Handlers are not: WriteTimeout is 0, so a
\* browser that does not read blocks its handler for as long as it likes.
GatewayFairSpec == GatewaySpec /\ WF_gatewayVars(Broadcast)
-----------------------------------------------------------------------------
GatewayTypeOK ==
    /\ bused \subseteq tried /\ tried \subseteq history /\ history \subseteq EventIds
    /\ feed \in Seq(EventIds) /\ Len(feed) <= BusBuffer
    /\ running \in BOOLEAN
    /\ phase \in {"up", "signalled", "closed", "draining"}
    /\ clients \subseteq Browsers
    /\ others \in Nat /\ Cardinality(clients) + others <= MaxClients
    /\ buf \in [Browsers -> Seq(EventIds)]
    /\ \A b \in Browsers : Len(buf[b]) <= ClientBuffer
    /\ closed \in [Browsers -> BOOLEAN]
    /\ handler \in [Browsers -> {"off", "resolve", "read", "replay", "live"}]
    /\ resume \in [Browsers -> EventIds \cup {NoId}]
    /\ frames \in [Browsers -> SUBSET EventIds]
    /\ cut \in [Browsers -> BOOLEAN]
    /\ gone \in [Browsers -> BOOLEAN]
    /\ lastId \in [Browsers -> EventIds \cup {NoId}]
    /\ seen \in [Browsers -> SUBSET EventIds]
    /\ since \in [Browsers -> SUBSET EventIds]

\* The client map holds exactly the running streams that have not been shed:
\* no frame is sent to, and no close done on, a closed channel (a panic), and
\* no ended stream keeps a slot, whichever of drop and unregister comes first.
ClientsAreOpen ==
    clients = {b \in Browsers : handler[b] # "off" /\ ~closed[b]}

Serving(b) == handler[b] \in {"replay", "live"} /\ ~closed[b] /\ ~gone[b]

\* What the browser has, or will be sent on this stream as things stand.
Covered(b) == seen[b] \cup frames[b] \cup In(buf[b]) \cup In(feed)

\* A stream that is not shed misses nothing: every frame since it started is
\* sent or on its way, however slow the browser and however full the buffers.
NoSkippedFrame ==
    \A b \in Browsers :
       Serving(b) /\ resume[b] = NoId => bused \ since[b] \subseteq Covered(b)

\* No gap at the seam of a resume: every event newer than the resume point is
\* in the history the handler read or reaches it over the bus, though events
\* are applied and broadcast between registering, reading and writing.
ResumeGapless ==
    \A b \in Browsers :
       Serving(b) /\ resume[b] # NoId /\ ~cut[b] =>
          {e \in bused : After(e, resume[b])} \subseteq Covered(b)

\* A resume that the limit cuts short is not a loss yet: while it is being
\* written, whatever it left out is after the last id the browser has, so that
\* the next resume starts with it.
CutIsResumable ==
    \A b \in Browsers :
       Serving(b) /\ handler[b] = "replay" =>
          {e \in bused : After(e, resume[b])} \subseteq
             Covered(b) \cup {e \in EventIds : After(e, lastId[b])}

\* "A disconnected one reconnects and resumes from its last event id with no
\* gap at all" (gateway.go): a resumed browser has, or will be sent, every
\* frame since it first connected.
ReconnectGapless ==
    \A b \in Browsers :
       Serving(b) /\ resume[b] # NoId /\ ~cut[b] =>
          bused \ since[b] \subseteq Covered(b)

\* The streams are closed before the listener (cmd/gateway): once it is, no
\* stream is left that has not been told to go.
ClosedBeforeListener == phase = "draining" => clients = {} /\ others = 0

\* A slow browser does not hold up the others: a frame the gateway received
\* is offered to every stream, whether or not any handler ever writes again.
FeedDrains ==
    \A e \in EventIds : e \in In(feed) ~> e \notin In(feed) \/ phase # "up"
=============================================================================
