------------------------------ MODULE Pipeline ------------------------------
(***************************************************************************)
(* From the raw topic to the map in a browser: the consumer group applies  *)
(* events and publishes them (Consumer), the bus carries the frames to the *)
(* gateway, which streams and resumes browsers from the history the        *)
(* consumers write (Gateway), and the viewer page draws what it is sent    *)
(* (internal/gateway/viewer.html).                                         *)
(*                                                                         *)
(* Gateway leaves open when events enter the history and when they are     *)
(* published.  Here the consumers decide, and GatewaySpec becomes a        *)
(* property: members that crash, retry and take over from each other keep  *)
(* to what the gateway takes for granted of them.                          *)
(***************************************************************************)
EXTENDS Consumer

CONSTANTS IdOrder,    \* Postgres's order of the event ids
          EventTs,    \* the event time an event id stands for
          VehicleOf,  \* and its vehicle
          Browsers, NoId, ClientBuffer, MaxClients, ReplayLimit, BusBuffer

ASSUME PipelineAssumption ==
    /\ EventTs \in [EventIds -> Times]
    /\ VehicleOf \in [EventIds -> Vehicles]
    /\ \A v \in Payloads :
          AsVehiclePosition(v) => v.ts = EventTs[v.id] /\ v.vehicle = VehicleOf[v.id]

VARIABLES
    \* the gateway and its browsers, as in Gateway
    bused, feed, running, phase, clients, others, buf, closed, handler, resume,
    frames, cut, gone, lastId, seen, since,
    shown  \* shown[b][v]: the event the page of b has vehicle v at

gatewayVars ==
    <<bused, feed, running, phase, clients, others, buf, closed, handler, resume,
      frames, cut, gone, lastId, seen, since>>
pipelineVars ==
    <<processed, positions, current, eventCount, deadLetters, outcome,
      log, dlqTopic, committed, owner, published, pc, stopping, has, pos, nxt,
      todo, lastOK, attempts, reason, faults, abandoned,
      bused, feed, running, phase, clients, others, buf, closed, handler, resume,
      frames, cut, gone, lastId, seen, since, shown>>

GW == INSTANCE Gateway WITH
         history <- {r.id : r \in positions}, tried <- published, Earlier <- {}

\* The sizes and the order are as the gateway wants them.
ASSUME GatewayConstants == GW!GatewayAssumption

PipelineInit ==
    /\ ConsumerInit
    /\ GW!GatewayInit
    /\ shown = [b \in Browsers |-> [v \in Vehicles |-> NoId]]
-----------------------------------------------------------------------------
\* Publisher.Publish and the subscription: a frame that went out is in the
\* gateway's channel, or it is dropped because the channel is full or Redis
\* was reconnecting.
PublishFrame(m, p) ==
    /\ Publish(m, p)
    /\ \/ /\ Rec(m, p).id \in published'
          /\ Len(feed) < BusBuffer
          /\ feed' = Append(feed, Rec(m, p).id)
          /\ bused' = bused \cup {Rec(m, p).id}
       \/ UNCHANGED <<feed, bused>>
    /\ UNCHANGED <<running, phase, clients, others, buf, closed, handler, resume,
                   frames, cut, gone, lastId, seen, since, shown>>

\* Everything else a member, the broker or a producer does.
ConsumerStep ==
    /\ ConsumerNext
    /\ published' = published
    /\ UNCHANGED <<gatewayVars, shown>>

\* (mutant) The page keeps whatever came last.
UpsertLast(drawn, e) == [drawn EXCEPT ![VehicleOf[e]] = e]

\* onFrame: upsert by vehicle, keeping the newer event.
Upsert(drawn, e) ==
    LET prev == drawn[VehicleOf[e]]
    IN  IF prev = NoId \/ EventTs[e] >= EventTs[prev]
        THEN [drawn EXCEPT ![VehicleOf[e]] = e]
        ELSE drawn

\* A step of the gateway, and the page's handler when it brings a frame.
Show ==
    /\ UNCHANGED consumerVars
    /\ GW!GatewayStep
    /\ shown' = [b \in Browsers |->
                    IF lastId'[b] = lastId[b] THEN shown[b]
                                              ELSE Upsert(shown[b], lastId'[b])]

PipelineNext ==
    \/ \E m \in Members, p \in Partitions : PublishFrame(m, p)
    \/ ConsumerStep
    \/ Show

PipelineSpec == PipelineInit /\ [][PipelineNext]_pipelineVars
-----------------------------------------------------------------------------
\* The consumers are the environment the gateway is written for: an event
\* enters the history once and for good, and is published at most once and
\* only after that, whatever crashed, was retried or was delivered again.
GatewayServed == GW!GatewaySpec

\* The map on the page never runs ahead of the store: a vehicle is where an
\* event of its own in the history put it, no newer than vehicle_current.  And
\* once the page has been sent all of the vehicle's history, live, resumed or
\* both, in whatever order, it agrees with vehicle_current on the time.
MapTracksStore ==
    \A b \in Browsers : \A v \in Vehicles :
       LET rows == {r \in positions : r.vehicle = v}
       IN  shown[b][v] # NoId =>
             /\ \E r \in rows : r.id = shown[b][v]
             /\ \E c \in current :
                   /\ c.vehicle = v
                   /\ EventTs[shown[b][v]] <= c.ts
                   /\ {r.id : r \in rows} \subseteq seen[b] =>
                         EventTs[shown[b][v]] = c.ts
=============================================================================
