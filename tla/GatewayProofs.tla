--------------------------- MODULE GatewayProofs ---------------------------
(***************************************************************************)
(* The gateway's promises to a browser for every number of browsers,       *)
(* events and buffer sizes: the client map holds the open streams and no   *)
(* other, and a stream that is not shed misses nothing, started fresh or   *)
(* resumed, whatever is applied, broadcast and shed between the steps of   *)
(* its resume.                                                             *)
(*                                                                         *)
(* Only the order of a resume needs an argument of its own: what the limit *)
(* leaves out of a resume comes after everything the resume still has to   *)
(* write (LeftOut), so it is after the last id the browser has whenever    *)
(* the stream breaks.                                                      *)
(***************************************************************************)
EXTENDS Gateway, FiniteSetTheorems, SequenceTheorems, TLAPS

\* The event is not on its way, but a browser that resumes from the last id it
\* has, or from any frame it has still to get, is sent it.
LeftOut(b, e) ==
    /\ After(e, lastId[b])
    /\ \A f \in frames[b] : After(e, f)

\* Which of a stream's fields are set, by where its handler is.
Fields(b) ==
    /\ handler[b] \in {"off", "resolve", "read"} => resume[b] = NoId
    /\ handler[b] \in {"resolve", "read"} => lastId[b] # NoId
    /\ handler[b] = "replay" => resume[b] # NoId
    /\ handler[b] # "replay" => frames[b] = {}

Missing(b) ==
    /\ Serving(b) /\ resume[b] = NoId => bused \ since[b] \subseteq Covered(b)
    /\ Serving(b) /\ resume[b] # NoId /\ ~cut[b] =>
          {e \in bused : After(e, resume[b])} \subseteq Covered(b)
    /\ Serving(b) /\ handler[b] = "replay" =>
          \A e \in bused :
             After(e, resume[b]) => e \in Covered(b) \/ LeftOut(b, e)

StreamInv(b) == Fields(b) /\ Missing(b)

GatewayInv ==
    /\ GatewayTypeOK
    /\ IsFiniteSet(clients) /\ IsFiniteSet(history)
    /\ ClientsAreOpen
    /\ \A b \in Browsers : StreamInv(b)
-----------------------------------------------------------------------------
LEMMA InEmpty == In(<<>>) = {}
BY EmptySeq DEF In

LEMMA InAppend ==
    ASSUME NEW s \in Seq(EventIds), NEW e \in EventIds
    PROVE  /\ Append(s, e) \in Seq(EventIds) /\ Len(Append(s, e)) = Len(s) + 1
           /\ In(Append(s, e)) = In(s) \cup {e}
<1>1. /\ Append(s, e) \in Seq(EventIds) /\ Len(Append(s, e)) = Len(s) + 1
      /\ \A i \in 1 .. Len(s) : Append(s, e)[i] = s[i]
      /\ Append(s, e)[Len(s) + 1] = e
      /\ Len(s) \in Nat
  BY AppendProperties, LenProperties
<1>2. DOMAIN s = 1 .. Len(s) /\ DOMAIN Append(s, e) = 1 .. (Len(s) + 1)
  BY <1>1, LenProperties
<1>3. 1 .. (Len(s) + 1) = (1 .. Len(s)) \cup {Len(s) + 1}
  BY <1>1
<1> QED
  BY <1>1, <1>2, <1>3 DEF In

LEMMA InTail ==
    ASSUME NEW s \in Seq(EventIds), s # <<>>
    PROVE  /\ Head(s) \in EventIds /\ Tail(s) \in Seq(EventIds)
           /\ Len(Tail(s)) = Len(s) - 1
           /\ In(s) = {Head(s)} \cup In(Tail(s))
<1>1. /\ Head(s) \in EventIds /\ Tail(s) \in Seq(EventIds)
      /\ Len(s) \in Nat /\ Len(s) # 0
      /\ Len(Tail(s)) = Len(s) - 1
      /\ \A i \in 1 .. Len(Tail(s)) : Tail(s)[i] = s[i + 1]
      /\ Head(s) = s[1]
  BY HeadTailProperties, EmptySeq, LenProperties
<1>2. DOMAIN s = 1 .. Len(s) /\ DOMAIN Tail(s) = 1 .. (Len(s) - 1)
  BY <1>1, LenProperties
<1>3. In(s) \subseteq {Head(s)} \cup In(Tail(s))
  <2> SUFFICES ASSUME NEW i \in 1 .. Len(s), i # 1 PROVE s[i] \in In(Tail(s))
    BY <1>1, <1>2 DEF In
  <2>1. i - 1 \in 1 .. (Len(s) - 1) /\ (i - 1) + 1 = i
    BY <1>1
  <2>2. Tail(s)[i - 1] = s[i]
    BY <1>1, <2>1
  <2> QED
    BY <1>2, <2>1, <2>2 DEF In
<1>4. In(Tail(s)) \subseteq In(s)
  <2> SUFFICES ASSUME NEW i \in 1 .. (Len(s) - 1) PROVE Tail(s)[i] \in In(s)
    BY <1>2 DEF In
  <2>1. i + 1 \in 1 .. Len(s) /\ Tail(s)[i] = s[i + 1]
    BY <1>1
  <2> QED
    BY <1>2, <2>1 DEF In
<1>5. Head(s) \in In(s)
  BY <1>1, <1>2 DEF In
<1> QED
  BY <1>1, <1>3, <1>4, <1>5

\* The order a resume delivers in is a strict total order of the events.
LEMMA AfterIsOrder ==
    /\ \A e, f, g \in EventIds : After(e, f) /\ After(f, g) => After(e, g)
    /\ \A e, f \in EventIds : e # f => After(e, f) \/ After(f, e)
    /\ \A e \in EventIds : ~After(e, e)
BY GatewayAssumption DEF After

\* What the limit leaves out of a resume comes after what it lets in.
LEMMA OldestFirst ==
    ASSUME NEW es \in SUBSET EventIds, IsFiniteSet(es),
           NEW e \in es \ Oldest(es), NEW f \in Oldest(es)
    PROVE  After(e, f)
<1> DEFINE before(x) == {g \in es : After(x, g)}
<1>1. \A x \in es : IsFiniteSet(before(x)) /\ Cardinality(before(x)) \in Nat
  BY FS_Subset, FS_CardinalityType
<1>2. /\ e \in es /\ f \in es
      /\ Cardinality(before(f)) < ReplayLimit
      /\ ~(Cardinality(before(e)) < ReplayLimit)
  BY DEF Oldest
<1>3. ASSUME ~After(e, f) PROVE FALSE
  <2>1. e # f
    BY <1>2
  <2>2. After(f, e)
    BY <1>2, <1>3, <2>1, AfterIsOrder
  <2>3. before(e) \subseteq before(f)
    BY <1>2, <2>2, AfterIsOrder
  <2>4. Cardinality(before(e)) <= Cardinality(before(f))
    BY <1>1, <1>2, <2>3, FS_Subset
  <2>5. ReplayLimit \in Nat
    BY GatewayAssumption
  <2> HIDE DEF before
  <2> QED
    BY <1>1, <1>2, <2>4, <2>5
<1> QED
  BY <1>3
-----------------------------------------------------------------------------
\* A step of the bus or of somebody else leaves a stream as it is, unless it
\* sheds it; what was on its way to the stream still is.
Same(b) ==
    /\ handler'[b] = handler[b] /\ resume'[b] = resume[b] /\ frames'[b] = frames[b]
    /\ cut'[b] = cut[b] /\ gone'[b] = gone[b]
    /\ lastId'[b] = lastId[b] /\ seen'[b] = seen[b] /\ since'[b] = since[b]

Delivers(b) ==
    /\ bused' \subseteq bused \cup In(feed')
    /\ closed[b] => closed'[b]
    /\ closed'[b] \/ In(buf[b]) \cup In(feed) \subseteq In(buf'[b]) \cup In(feed')

LEMMA StreamStays ==
    ASSUME NEW b \in Browsers, StreamInv(b), Same(b), Delivers(b)
    PROVE  StreamInv(b)'
<1>1. Fields(b)'
  BY DEF StreamInv, Fields, Same
<1>2. Missing(b)'
  <2> SUFFICES ASSUME Serving(b)' PROVE Missing(b)'
    BY DEF Missing
  <2>1. Serving(b) /\ Missing(b)
    BY DEF Serving, Same, Delivers, StreamInv
  <2>2. Covered(b) \subseteq Covered(b)' /\ bused' \subseteq bused \cup Covered(b)'
    BY DEF Serving, Same, Delivers, Covered
  <2>3. \A e : LeftOut(b, e) => LeftOut(b, e)'
    BY DEF LeftOut, Same
  <2> QED
    BY <2>1, <2>2, <2>3 DEF Missing, Same
<1> QED
  BY <1>1, <1>2 DEF StreamInv

\* GatewayTypeOK by halves: the bus and the process, and the streams.
BusTypes ==
    /\ bused \subseteq tried /\ tried \subseteq history /\ history \subseteq EventIds
    /\ feed \in Seq(EventIds) /\ Len(feed) <= BusBuffer
    /\ running \in BOOLEAN
    /\ phase \in {"up", "signalled", "closed", "draining"}
    /\ IsFiniteSet(history)

Slots ==
    /\ clients \subseteq Browsers /\ IsFiniteSet(clients)
    /\ others \in Nat /\ Cardinality(clients) + others <= MaxClients

StreamTypes ==
    /\ buf \in [Browsers -> Seq(EventIds)]
    /\ \A b \in Browsers : Len(buf[b]) <= ClientBuffer
    /\ closed \in [Browsers -> BOOLEAN]
    /\ handler \in [Browsers -> {"off", "resolve", "read", "replay", "live"}]
    /\ resume \in [Browsers -> EventIds \cup {NoId}]
    /\ frames \in [Browsers -> SUBSET EventIds]
    /\ cut \in [Browsers -> BOOLEAN]
    /\ gone \in [Browsers -> BOOLEAN]

BrowserTypes ==
    /\ lastId \in [Browsers -> EventIds \cup {NoId}]
    /\ seen \in [Browsers -> SUBSET EventIds]
    /\ since \in [Browsers -> SUBSET EventIds]

LEMMA InvSplit ==
    GatewayInv <=> /\ BusTypes /\ Slots /\ StreamTypes /\ BrowserTypes
                   /\ ClientsAreOpen /\ \A b \in Browsers : StreamInv(b)
BY DEF GatewayInv, GatewayTypeOK, BusTypes, Slots, StreamTypes, BrowserTypes

LEMMA Together ==
    ASSUME BusTypes', Slots', StreamTypes', BrowserTypes', ClientsAreOpen',
           \A b \in Browsers : StreamInv(b)'
    PROVE  GatewayInv'
BY DEF GatewayInv, GatewayTypeOK, BusTypes, Slots, StreamTypes, BrowserTypes

\* Streams are only ever taken away from the slots.
LEMMA FewerClients ==
    ASSUME Slots, NEW cs, clients' = clients \ cs, others' = others \/ others' = 0
    PROVE  Slots'
<1>1. /\ IsFiniteSet(clients \ cs) /\ Cardinality(clients \ cs) \in Nat
      /\ Cardinality(clients \ cs) <= Cardinality(clients)
      /\ Cardinality(clients) \in Nat
  BY FS_Subset, FS_CardinalityType DEF Slots
<1> QED
  BY <1>1, GatewayAssumption DEF Slots

LEMMA AppliedKeeps ==
    ASSUME GatewayInv, NEW e \in EventIds, Applied(e)
    PROVE  GatewayInv'
<1>1. /\ history' = history \cup {e} /\ tried' = tried /\ bused' = bused
      /\ feed' = feed /\ running' = running /\ phase' = phase
      /\ clients' = clients /\ others' = others /\ buf' = buf /\ closed' = closed
      /\ handler' = handler /\ resume' = resume /\ frames' = frames /\ cut' = cut
      /\ gone' = gone /\ lastId' = lastId /\ seen' = seen /\ since' = since
  BY DEF Applied, streamVars, browserVars
<1>2. IsFiniteSet(history')
  BY <1>1, FS_AddElement DEF GatewayInv
<1>3. BusTypes'
  BY <1>1, <1>2, InvSplit DEF BusTypes
<1>4. Slots' /\ StreamTypes' /\ BrowserTypes' /\ ClientsAreOpen'
  BY <1>1, InvSplit DEF Slots, StreamTypes, BrowserTypes, ClientsAreOpen
<1>5. \A b \in Browsers : StreamInv(b)'
  BY <1>1, InvSplit, StreamStays DEF Same, Delivers
<1> QED
  BY <1>3, <1>4, <1>5, Together

LEMMA PublishKeeps ==
    ASSUME GatewayInv, NEW e \in EventIds, Publish(e)
    PROVE  GatewayInv'
<1>1. /\ e \in history /\ tried' = tried \cup {e} /\ history' = history
      /\ running' = running /\ phase' = phase
      /\ clients' = clients /\ others' = others /\ buf' = buf /\ closed' = closed
      /\ handler' = handler /\ resume' = resume /\ frames' = frames /\ cut' = cut
      /\ gone' = gone /\ lastId' = lastId /\ seen' = seen /\ since' = since
  BY DEF Publish, streamVars, browserVars
<1>2. BusTypes
  BY InvSplit
<1>3. /\ feed' \in Seq(EventIds) /\ Len(feed') <= BusBuffer
      /\ bused' \subseteq tried' /\ bused' \subseteq bused \cup In(feed')
      /\ In(feed) \subseteq In(feed')
  <2>1. CASE /\ Len(feed) < BusBuffer /\ feed' = Append(feed, e)
             /\ bused' = bused \cup {e}
    <3>1. /\ feed' \in Seq(EventIds) /\ Len(feed') = Len(feed) + 1
          /\ In(feed') = In(feed) \cup {e}
      BY <1>2, <2>1, InAppend DEF BusTypes
    <3>2. Len(feed) \in Nat /\ BusBuffer \in Nat
      BY <1>2, GatewayAssumption, LenProperties DEF BusTypes
    <3> QED
      BY <1>1, <1>2, <2>1, <3>1, <3>2 DEF BusTypes
  <2>2. CASE UNCHANGED <<feed, bused>>
    BY <1>1, <1>2, <2>2 DEF BusTypes
  <2> QED
    BY <2>1, <2>2 DEF Publish
<1>4. BusTypes'
  BY <1>1, <1>2, <1>3 DEF BusTypes
<1>5. Slots' /\ StreamTypes' /\ BrowserTypes' /\ ClientsAreOpen'
  BY <1>1, InvSplit DEF Slots, StreamTypes, BrowserTypes, ClientsAreOpen
<1>6. \A b \in Browsers : StreamInv(b)'
  BY <1>1, <1>3, InvSplit, StreamStays DEF Same, Delivers
<1> QED
  BY <1>4, <1>5, <1>6, Together

LEMMA BroadcastKeeps ==
    ASSUME GatewayInv, Broadcast
    PROVE  GatewayInv'
<1> DEFINE full == {b \in clients : Len(buf[b]) >= ClientBuffer}
<1>1. /\ BusTypes /\ Slots /\ StreamTypes /\ BrowserTypes /\ ClientsAreOpen
      /\ \A b \in Browsers : StreamInv(b)
  BY InvSplit
<1>2. /\ feed # <<>> /\ feed' = Tail(feed)
      /\ buf' = [b \in Browsers |-> IF b \in clients \ full
                                    THEN Append(buf[b], Head(feed)) ELSE buf[b]]
      /\ clients' = clients \ full
      /\ closed' = [b \in Browsers |-> closed[b] \/ b \in full]
      /\ bused' = bused /\ tried' = tried /\ history' = history
      /\ running' = running /\ phase' = phase /\ others' = others
      /\ handler' = handler /\ resume' = resume /\ frames' = frames /\ cut' = cut
      /\ gone' = gone /\ lastId' = lastId /\ seen' = seen /\ since' = since
  BY DEF Broadcast, DropLocked, busVars, browserVars
<1>3. /\ Head(feed) \in EventIds /\ feed' \in Seq(EventIds)
      /\ Len(feed') = Len(feed) - 1
      /\ In(feed) = {Head(feed)} \cup In(feed')
  BY <1>1, <1>2, InTail DEF BusTypes
<1>4. BusTypes'
  <2>1. Len(feed) \in Nat /\ BusBuffer \in Nat
    BY <1>1, GatewayAssumption, LenProperties DEF BusTypes
  <2> QED
    BY <1>1, <1>2, <1>3, <2>1 DEF BusTypes
<1>5. Slots'
  BY <1>1, <1>2, FewerClients
<1>6. ASSUME NEW b \in Browsers
      PROVE  /\ buf'[b] \in Seq(EventIds) /\ Len(buf'[b]) <= ClientBuffer
             /\ b \in clients \ full => In(buf'[b]) = In(buf[b]) \cup {Head(feed)}
             /\ b \notin clients \ full => buf'[b] = buf[b]
             /\ closed'[b] = (closed[b] \/ b \in full)
  <2>1. buf[b] \in Seq(EventIds) /\ Len(buf[b]) \in Nat /\ ClientBuffer \in Nat
    BY <1>1, GatewayAssumption, LenProperties DEF StreamTypes
  <2>2. CASE b \in clients \ full
    <3>1. buf'[b] = Append(buf[b], Head(feed)) /\ ~(Len(buf[b]) >= ClientBuffer)
      BY <1>2, <2>2
    <3>2. /\ buf'[b] \in Seq(EventIds) /\ Len(buf'[b]) = Len(buf[b]) + 1
          /\ In(buf'[b]) = In(buf[b]) \cup {Head(feed)}
      BY <1>3, <2>1, <3>1, InAppend
    <3> QED
      BY <1>2, <2>1, <2>2, <3>1, <3>2
  <2>3. CASE b \notin clients \ full
    BY <1>1, <1>2, <2>1, <2>3 DEF StreamTypes
  <2> QED
    BY <2>2, <2>3
<1> HIDE DEF full
<1>7. StreamTypes' /\ BrowserTypes'
  BY <1>1, <1>2, <1>6 DEF StreamTypes, BrowserTypes
<1>8. ClientsAreOpen'
  BY <1>1, <1>2, <1>6 DEF ClientsAreOpen
<1>9. ASSUME NEW b \in Browsers PROVE StreamInv(b)'
  <2>1. Same(b)
    BY <1>2 DEF Same
  <2>2. CASE b \in clients
    <3>1. Delivers(b)
      BY <1>2, <1>3, <1>6, <2>2 DEF Delivers
    <3> QED
      BY <1>1, <2>1, <3>1, StreamStays
  <2>3. CASE b \notin clients
    <3>1. ~Serving(b)'
      BY <1>1, <1>2, <1>6, <2>3 DEF Serving, ClientsAreOpen
    <3>2. Fields(b)'
      BY <1>1, <2>1 DEF StreamInv, Fields, Same
    <3> QED
      BY <3>1, <3>2 DEF StreamInv, Missing
  <2> QED
    BY <2>2, <2>3
<1> QED
  BY <1>4, <1>5, <1>7, <1>8, <1>9, Together

\* A step that ends no stream and starts none, and leaves the bus alone.
LEMMA ProcessKeeps ==
    ASSUME GatewayInv, OthersComeAndGo \/ Sigterm \/ LoopEnds \/ CloseListener
    PROVE  GatewayInv'
<1>1. /\ BusTypes /\ Slots /\ StreamTypes /\ BrowserTypes /\ ClientsAreOpen
      /\ \A b \in Browsers : StreamInv(b)
  BY InvSplit
<1>2. /\ bused' = bused /\ tried' = tried /\ history' = history /\ feed' = feed
      /\ clients' = clients /\ buf' = buf /\ closed' = closed
      /\ handler' = handler /\ resume' = resume /\ frames' = frames /\ cut' = cut
      /\ gone' = gone /\ lastId' = lastId /\ seen' = seen /\ since' = since
  BY DEF OthersComeAndGo, Sigterm, LoopEnds, CloseListener, busVars, streamVars, browserVars
<1>3. BusTypes'
  <2>1. running' \in BOOLEAN /\ phase' \in {"up", "signalled", "closed", "draining"}
    BY <1>1 DEF OthersComeAndGo, Sigterm, LoopEnds, CloseListener, BusTypes
  <2> QED
    BY <1>1, <1>2, <2>1 DEF BusTypes
<1>4. Slots'
  <2>1. Cardinality(clients) \in Nat /\ MaxClients \in Nat
    BY <1>1, FS_CardinalityType, GatewayAssumption DEF Slots
  <2>2. CASE OthersComeAndGo
    BY <1>1, <1>2, <2>1, <2>2 DEF Slots, OthersComeAndGo, Room
  <2>3. CASE Sigterm \/ LoopEnds \/ CloseListener
    <3>1. others' = others
      BY <2>3 DEF Sigterm, LoopEnds, CloseListener
    <3> QED
      BY <1>1, <1>2, <3>1 DEF Slots
  <2> QED
    BY <2>2, <2>3
<1>5. StreamTypes' /\ BrowserTypes' /\ ClientsAreOpen'
  BY <1>1, <1>2 DEF StreamTypes, BrowserTypes, ClientsAreOpen
<1>6. \A b \in Browsers : StreamInv(b)'
  BY <1>1, <1>2, StreamStays DEF Same, Delivers
<1> QED
  BY <1>3, <1>4, <1>5, <1>6, Together

LEMMA ShutdownKeeps ==
    ASSUME GatewayInv, Shutdown
    PROVE  GatewayInv'
<1>1. /\ BusTypes /\ Slots /\ StreamTypes /\ BrowserTypes /\ ClientsAreOpen
      /\ \A b \in Browsers : StreamInv(b)
  BY InvSplit
<1>2. /\ bused' = bused /\ tried' = tried /\ history' = history /\ feed' = feed
      /\ clients' = clients \ clients /\ buf' = buf /\ others' = 0
      /\ closed' = [b \in Browsers |-> closed[b] \/ b \in clients]
      /\ running' = running /\ phase' = "closed"
      /\ handler' = handler /\ resume' = resume /\ frames' = frames /\ cut' = cut
      /\ gone' = gone /\ lastId' = lastId /\ seen' = seen /\ since' = since
  BY DEF Shutdown, DropLocked, busVars, browserVars
<1>3. BusTypes' /\ StreamTypes' /\ BrowserTypes'
  BY <1>1, <1>2 DEF BusTypes, StreamTypes, BrowserTypes
<1>4. Slots'
  BY <1>1, <1>2, FewerClients
<1>5. ClientsAreOpen'
  BY <1>1, <1>2 DEF ClientsAreOpen
<1>6. \A b \in Browsers : StreamInv(b)'
  BY <1>1, <1>2, StreamStays DEF Same, Delivers
<1> QED
  BY <1>3, <1>4, <1>5, <1>6, Together

LEMMA RestartKeeps ==
    ASSUME GatewayInv, Restart
    PROVE  GatewayInv'
<1>1. BusTypes /\ Slots /\ BrowserTypes
  BY InvSplit
<1>2. /\ bused' = bused /\ tried' = tried /\ history' = history /\ feed' = <<>>
      /\ running' = TRUE /\ phase' = "up" /\ clients' = {} /\ others' = 0
      /\ buf' = [b \in Browsers |-> <<>>] /\ closed' = [b \in Browsers |-> TRUE]
      /\ handler' = [b \in Browsers |-> "off"] /\ resume' = [b \in Browsers |-> NoId]
      /\ frames' = [b \in Browsers |-> {}] /\ cut' = [b \in Browsers |-> FALSE]
      /\ gone' = [b \in Browsers |-> FALSE]
      /\ lastId' = lastId /\ seen' = seen /\ since' = since
  BY DEF Restart, busVars, browserVars
<1>3. /\ <<>> \in Seq(EventIds) /\ Len(<<>>) = 0
      /\ 0 <= BusBuffer /\ 0 <= ClientBuffer /\ 0 + 0 <= MaxClients
  BY EmptySeq, GatewayAssumption
<1>4. BusTypes' /\ BrowserTypes'
  BY <1>1, <1>2, <1>3 DEF BusTypes, BrowserTypes
<1>5. Slots'
  BY <1>2, <1>3, FS_EmptySet DEF Slots
<1>6. StreamTypes'
  BY <1>2, <1>3 DEF StreamTypes
<1>7. ClientsAreOpen'
  BY <1>2 DEF ClientsAreOpen
<1>8. \A b \in Browsers : StreamInv(b)'
  BY <1>2 DEF StreamInv, Fields, Missing, Serving
<1> QED
  BY <1>4, <1>5, <1>6, <1>7, <1>8, Together
-----------------------------------------------------------------------------
\* A step of one stream.
Apart(b) ==
    \A u \in Browsers \ {b} : Same(u) /\ buf'[u] = buf[u] /\ closed'[u] = closed[u]

LEMMA OneStream ==
    ASSUME GatewayInv, NEW b \in Browsers, Apart(b),
           UNCHANGED <<busVars, feed, running, phase>>,
           Slots', StreamTypes', BrowserTypes', ClientsAreOpen', StreamInv(b)'
    PROVE  GatewayInv'
<1>1. bused' = bused /\ tried' = tried /\ history' = history /\ feed' = feed
  BY DEF busVars
<1>2. BusTypes'
  BY <1>1, InvSplit DEF BusTypes
<1>3. ASSUME NEW u \in Browsers \ {b} PROVE StreamInv(u)'
  BY <1>1, InvSplit, StreamStays DEF Apart, Delivers
<1> QED
  BY <1>2, <1>3, Together

\* A step of one stream that neither opens nor closes it.
LEMMA OpenStream ==
    ASSUME GatewayInv, NEW b \in Browsers, Apart(b),
           UNCHANGED <<busVars, others, feed, running, phase, clients, closed>>,
           handler[b] # "off", handler'[b] # "off",
           StreamTypes', BrowserTypes', StreamInv(b)'
    PROVE  GatewayInv'
<1>1. Slots' /\ ClientsAreOpen'
  BY InvSplit DEF Slots, ClientsAreOpen, Apart, Same
<1> QED
  BY <1>1, OneStream

LEMMA RegisterKeeps ==
    ASSUME GatewayInv, NEW b \in Browsers, Register(b)
    PROVE  GatewayInv'
<1>1. /\ BusTypes /\ Slots /\ StreamTypes /\ BrowserTypes /\ ClientsAreOpen
      /\ StreamInv(b)
  BY InvSplit
<1>2. /\ handler[b] = "off" /\ Room /\ clients' = clients \cup {b}
      /\ closed' = [closed EXCEPT ![b] = FALSE]
      /\ UNCHANGED <<busVars, feed, running, phase>> /\ others' = others
      /\ buf' = buf /\ resume' = resume /\ frames' = frames /\ cut' = cut
      /\ gone' = gone /\ lastId' = lastId /\ seen' = seen /\ bused' = bused
  BY DEF Register, busVars
<1>3. PICK l \in {"live", "resolve"}, new \in SUBSET EventIds :
         /\ handler' = [handler EXCEPT ![b] = l]
         /\ since' = [since EXCEPT ![b] = new]
         /\ l = "live" => new = bused
         /\ l = "resolve" => lastId[b] # NoId
  <2>1. CASE lastId[b] = NoId
    <3>1. bused \in SUBSET EventIds
      BY <1>1 DEF BusTypes
    <3> QED
      BY <2>1, <3>1 DEF Register
  <2>2. CASE lastId[b] # NoId
    <3>1. since = [since EXCEPT ![b] = since[b]] /\ since[b] \in SUBSET EventIds
      BY <1>1 DEF BrowserTypes
    <3> QED
      BY <2>2, <3>1 DEF Register
  <2> QED
    BY <2>1, <2>2
<1>4. /\ handler'[b] = l /\ since'[b] = new /\ closed'[b] = FALSE
      /\ \A u \in Browsers \ {b} :
            handler'[u] = handler[u] /\ since'[u] = since[u] /\ closed'[u] = closed[u]
  BY <1>1, <1>2, <1>3 DEF StreamTypes, BrowserTypes
<1>5. StreamTypes' /\ BrowserTypes'
  BY <1>1, <1>2, <1>3 DEF StreamTypes, BrowserTypes
<1>6. Slots'
  <2>1. /\ IsFiniteSet(clients \cup {b}) /\ Cardinality(clients) \in Nat
        /\ Cardinality(clients \cup {b}) \in {Cardinality(clients), Cardinality(clients) + 1}
    BY <1>1, FS_AddElement, FS_CardinalityType DEF Slots
  <2> QED
    BY <1>1, <1>2, <2>1, GatewayAssumption DEF Slots, Room
<1>7. ClientsAreOpen'
  BY <1>1, <1>2, <1>3, <1>4 DEF ClientsAreOpen
<1>8. Apart(b)
  BY <1>2, <1>4 DEF Apart, Same
<1>9. StreamInv(b)'
  <2>1. Fields(b)'
    BY <1>1, <1>2, <1>3, <1>4 DEF StreamInv, Fields
  <2>2. Missing(b)'
    BY <1>1, <1>2, <1>3, <1>4 DEF StreamInv, Fields, Missing, Serving
  <2> QED
    BY <2>1, <2>2 DEF StreamInv
<1> QED
  BY <1>2, <1>5, <1>6, <1>7, <1>8, <1>9, OneStream

\* A resume that is refused, or fails, leaves the stream as one started fresh.
LEMMA StartFreshKeeps ==
    ASSUME GatewayInv, NEW b \in Browsers, handler[b] \in {"resolve", "read"},
           StartFresh(b),
           UNCHANGED <<busVars, others, feed, running, phase, clients, buf, closed,
                       gone, lastId, seen>>
    PROVE  GatewayInv'
<1>1. /\ BusTypes /\ StreamTypes /\ BrowserTypes /\ StreamInv(b)
  BY InvSplit
<1>2. /\ handler' = [handler EXCEPT ![b] = "live"]
      /\ since' = [since EXCEPT ![b] = bused \ (In(buf[b]) \cup In(feed))]
      /\ resume' = resume /\ frames' = frames /\ cut' = cut /\ bused' = bused
  BY DEF StartFresh, busVars
<1>3. bused \ (In(buf[b]) \cup In(feed)) \in SUBSET EventIds
  BY <1>1 DEF BusTypes
<1>4. /\ handler'[b] = "live"
      /\ since'[b] = bused \ (In(buf[b]) \cup In(feed))
      /\ \A u \in Browsers \ {b} : handler'[u] = handler[u] /\ since'[u] = since[u]
      /\ StreamTypes' /\ BrowserTypes'
  BY <1>1, <1>2, <1>3 DEF StreamTypes, BrowserTypes
<1>5. Apart(b)
  BY <1>2, <1>4 DEF Apart, Same
<1>6. StreamInv(b)'
  BY <1>1, <1>2, <1>4 DEF StreamInv, Fields, Missing, Covered
<1> QED
  BY <1>2, <1>4, <1>5, <1>6, OpenStream

LEMMA PositionTimeKeeps ==
    ASSUME GatewayInv, NEW b \in Browsers, PositionTime(b)
    PROVE  GatewayInv'
<1>1. CASE StartFresh(b)
  BY <1>1, StartFreshKeeps DEF PositionTime
<1>2. CASE /\ handler' = [handler EXCEPT ![b] = "read"]
           /\ UNCHANGED <<since, resume, frames, cut>>
  <2>1. StreamTypes /\ BrowserTypes /\ StreamInv(b)
    BY InvSplit
  <2>2. /\ handler[b] = "resolve" /\ since' = since /\ resume' = resume
        /\ frames' = frames /\ cut' = cut /\ gone' = gone /\ lastId' = lastId
        /\ seen' = seen /\ buf' = buf /\ closed' = closed
        /\ UNCHANGED <<busVars, others, feed, running, phase, clients, closed>>
    BY <1>2 DEF PositionTime
  <2>3. /\ handler'[b] = "read"
        /\ \A u \in Browsers \ {b} : handler'[u] = handler[u]
        /\ StreamTypes' /\ BrowserTypes'
    BY <1>2, <2>1, <2>2 DEF StreamTypes, BrowserTypes
  <2>4. Apart(b)
    BY <2>2, <2>3 DEF Apart, Same
  <2>5. StreamInv(b)'
    BY <2>1, <2>2, <2>3 DEF StreamInv, Fields, Missing, Serving
  <2> QED
    BY <2>2, <2>3, <2>4, <2>5, OpenStream
<1> QED
  BY <1>1, <1>2 DEF PositionTime

LEMMA PositionsSinceKeeps ==
    ASSUME GatewayInv, NEW b \in Browsers, PositionsSince(b)
    PROVE  GatewayInv'
<1> DEFINE newer == {e \in history : Missed(e, lastId[b])}
           first == Oldest(newer)
<1>1. CASE StartFresh(b)
  BY <1>1, StartFreshKeeps DEF PositionsSince
<1>2. CASE /\ handler' = [handler EXCEPT ![b] = "replay"]
           /\ resume' = [resume EXCEPT ![b] = lastId[b]]
           /\ frames' = [frames EXCEPT ![b] = first]
           /\ cut' = [cut EXCEPT ![b] = first # newer]
           /\ UNCHANGED since
  <2>1. BusTypes /\ StreamTypes /\ BrowserTypes /\ StreamInv(b)
    BY InvSplit
  <2>2. /\ handler[b] = "read" /\ since' = since /\ gone' = gone
        /\ lastId' = lastId /\ seen' = seen /\ buf' = buf /\ closed' = closed
        /\ bused' = bused /\ feed' = feed
        /\ UNCHANGED <<busVars, others, feed, running, phase, clients, closed>>
    BY <1>2 DEF PositionsSince, busVars
  <2>3. lastId[b] \in EventIds
    BY <2>1, <2>2 DEF StreamInv, Fields, BrowserTypes
  <2>4. /\ newer \in SUBSET EventIds /\ IsFiniteSet(newer)
        /\ first \subseteq newer
    BY <2>1, FS_Subset DEF BusTypes, Oldest
  <2>5. /\ \A e \in bused : After(e, lastId[b]) => e \in newer
        /\ \A e \in newer : After(e, lastId[b])
    BY <2>1 DEF BusTypes, Missed
  <2>6. \A e \in newer \ first : \A f \in first : After(e, f)
    BY <2>4, OldestFirst
  <2> HIDE DEF newer, first
  <2>7. /\ handler'[b] = "replay" /\ resume'[b] = lastId[b] /\ frames'[b] = first
        /\ cut'[b] = (first # newer)
        /\ \A u \in Browsers \ {b} :
              /\ handler'[u] = handler[u] /\ resume'[u] = resume[u]
              /\ frames'[u] = frames[u] /\ cut'[u] = cut[u]
    BY <1>2, <2>1 DEF StreamTypes
  <2>8. StreamTypes' /\ BrowserTypes'
    BY <1>2, <2>1, <2>2, <2>3, <2>4 DEF StreamTypes, BrowserTypes
  <2>9. Apart(b)
    BY <2>2, <2>7 DEF Apart, Same
  <2>10. StreamInv(b)'
    <3>1. Fields(b)'
      BY <2>2, <2>3, <2>7, GatewayAssumption DEF Fields
    <3>2. first \subseteq Covered(b)'
      BY <2>7 DEF Covered
    <3>3. \A e \in newer \ first : LeftOut(b, e)'
      BY <2>2, <2>5, <2>6, <2>7 DEF LeftOut
    <3>4. Missing(b)'
      BY <2>2, <2>3, <2>5, <2>7, <3>2, <3>3, GatewayAssumption DEF Missing
    <3> QED
      BY <3>1, <3>4 DEF StreamInv
  <2> QED
    BY <2>2, <2>7, <2>8, <2>9, <2>10, OpenStream
<1> QED
  BY <1>1, <1>2 DEF PositionsSince

\* Writing to a browser: it has the event then, and its last id is the event's.
LEMMA Written ==
    ASSUME BrowserTypes, NEW b \in Browsers, NEW e \in EventIds, WritePosition(b, e)
    PROVE  /\ since' = since
           /\ gone[b] => lastId' = lastId /\ seen' = seen
           /\ ~gone[b] => lastId'[b] = e /\ seen'[b] = seen[b] \cup {e}
           /\ \A u \in Browsers \ {b} : lastId'[u] = lastId[u] /\ seen'[u] = seen[u]
           /\ BrowserTypes'
<1>1. CASE gone[b]
  BY <1>1 DEF WritePosition, BrowserTypes
<1>2. CASE ~gone[b]
  <2>1. /\ lastId' = [lastId EXCEPT ![b] = e]
        /\ seen' = [seen EXCEPT ![b] = seen[b] \cup {e}] /\ since' = since
    BY <1>2 DEF WritePosition
  <2>2. seen[b] \cup {e} \in SUBSET EventIds
    BY DEF BrowserTypes
  <2> QED
    BY <1>2, <2>1, <2>2 DEF BrowserTypes
<1> QED
  BY <1>1, <1>2

LEMMA WriteMissedKeeps ==
    ASSUME GatewayInv, NEW b \in Browsers, WriteMissed(b)
    PROVE  GatewayInv'
<1>1. BusTypes /\ StreamTypes /\ BrowserTypes /\ StreamInv(b)
  BY InvSplit
<1>2. /\ handler[b] = "replay" /\ gone' = gone /\ buf' = buf /\ closed' = closed
      /\ resume' = resume /\ cut' = cut /\ bused' = bused /\ feed' = feed
      /\ UNCHANGED <<busVars, others, feed, running, phase, clients, closed>>
  BY DEF WriteMissed, busVars
<1>3. PICK e \in frames[b] :
         /\ \A f \in frames[b] \ {e} : After(f, e)
         /\ \/ /\ WritePosition(b, e)
               /\ frames' = [frames EXCEPT ![b] = @ \ {e}]
               /\ UNCHANGED handler
            \/ /\ gone[b]
               /\ frames' = [frames EXCEPT ![b] = {}]
               /\ handler' = [handler EXCEPT ![b] = "live"]
               /\ UNCHANGED browserVars
  BY DEF WriteMissed
<1>4. CASE /\ WritePosition(b, e)
           /\ frames' = [frames EXCEPT ![b] = @ \ {e}]
           /\ UNCHANGED handler
  <2>1. e \in EventIds /\ frames[b] \ {e} \in SUBSET EventIds
    BY <1>1, <1>3 DEF StreamTypes
  <2>2. /\ frames'[b] = frames[b] \ {e} /\ handler' = handler
        /\ \A u \in Browsers \ {b} : frames'[u] = frames[u]
        /\ StreamTypes'
    BY <1>1, <1>2, <1>4, <2>1 DEF StreamTypes
  <2>3. /\ since' = since
        /\ gone[b] => lastId' = lastId /\ seen' = seen
        /\ ~gone[b] => lastId'[b] = e /\ seen'[b] = seen[b] \cup {e}
        /\ \A u \in Browsers \ {b} : lastId'[u] = lastId[u] /\ seen'[u] = seen[u]
        /\ BrowserTypes'
    BY <1>1, <1>4, <2>1, Written
  <2>4. Apart(b)
    BY <1>2, <2>2, <2>3 DEF Apart, Same
  <2>5. StreamInv(b)'
    <3>1. Fields(b)'
      BY <1>1, <1>2, <2>2 DEF StreamInv, Fields
    <3>2. ASSUME Serving(b)' PROVE Missing(b)'
      <4>1. /\ ~gone[b] /\ Serving(b)
        BY <3>2, <1>2, <2>2 DEF Serving
      <4>2. Missing(b) /\ resume[b] # NoId
        BY <1>1, <1>2 DEF StreamInv, Fields
      <4>3. Covered(b) \subseteq Covered(b)'
        BY <1>2, <2>2, <2>3, <4>1 DEF Covered
      <4>4. \A x : LeftOut(b, x) => LeftOut(b, x)'
        BY <1>3, <2>2, <2>3, <4>1 DEF LeftOut
      <4> QED
        BY <1>2, <2>2, <4>1, <4>2, <4>3, <4>4 DEF Missing
    <3> QED
      BY <3>1, <3>2 DEF StreamInv, Missing
  <2> QED
    BY <1>2, <2>2, <2>3, <2>4, <2>5, OpenStream
<1>5. CASE /\ gone[b]
           /\ frames' = [frames EXCEPT ![b] = {}]
           /\ handler' = [handler EXCEPT ![b] = "live"]
           /\ UNCHANGED browserVars
  <2>1. /\ lastId' = lastId /\ seen' = seen /\ since' = since
    BY <1>5 DEF browserVars
  <2>2. /\ frames'[b] = {} /\ handler'[b] = "live"
        /\ \A u \in Browsers \ {b} : frames'[u] = frames[u] /\ handler'[u] = handler[u]
        /\ StreamTypes' /\ BrowserTypes'
    BY <1>1, <1>2, <1>5, <2>1 DEF StreamTypes, BrowserTypes
  <2>3. Apart(b)
    BY <1>2, <2>1, <2>2 DEF Apart, Same
  <2>4. ~Serving(b)' /\ Fields(b)'
    BY <1>2, <1>5, <2>2 DEF Serving, Fields
  <2>5. StreamInv(b)'
    BY <2>4 DEF StreamInv, Missing
  <2> QED
    BY <1>2, <2>2, <2>3, <2>5, OpenStream
<1> QED
  BY <1>3, <1>4, <1>5

LEMMA ResumedKeeps ==
    ASSUME GatewayInv, NEW b \in Browsers, Resumed(b)
    PROVE  GatewayInv'
<1>1. StreamTypes /\ BrowserTypes /\ StreamInv(b)
  BY InvSplit
<1>2. /\ handler[b] = "replay" /\ frames[b] = {}
      /\ handler' = [handler EXCEPT ![b] = "live"]
      /\ gone' = gone /\ buf' = buf /\ closed' = closed /\ frames' = frames
      /\ resume' = resume /\ cut' = cut /\ bused' = bused /\ feed' = feed
      /\ lastId' = lastId /\ seen' = seen /\ since' = since
      /\ UNCHANGED <<busVars, others, feed, running, phase, clients, closed>>
  BY DEF Resumed, busVars, browserVars
<1>3. /\ handler'[b] = "live"
      /\ \A u \in Browsers \ {b} : handler'[u] = handler[u]
      /\ StreamTypes' /\ BrowserTypes'
  BY <1>1, <1>2 DEF StreamTypes, BrowserTypes
<1>4. Apart(b)
  BY <1>2, <1>3 DEF Apart, Same
<1>5. StreamInv(b)'
  BY <1>1, <1>2, <1>3 DEF StreamInv, Fields, Missing, Serving, Covered
<1> QED
  BY <1>2, <1>3, <1>4, <1>5, OpenStream

\* A handler that returns gives its slot back, whether or not it was shed.
LEMMA UnregisterKeeps ==
    ASSUME GatewayInv, NEW b \in Browsers, handler[b] = "live", Unregister(b),
           UNCHANGED <<busVars, others, feed, running, phase, frames, browserVars>>
    PROVE  GatewayInv'
<1>1. /\ Slots /\ StreamTypes /\ BrowserTypes /\ ClientsAreOpen /\ StreamInv(b)
  BY InvSplit
<1>2. /\ clients' = clients \ {b} /\ closed' = [closed EXCEPT ![b] = TRUE]
      /\ handler' = [handler EXCEPT ![b] = "off"]
      /\ buf' = [buf EXCEPT ![b] = <<>>] /\ resume' = [resume EXCEPT ![b] = NoId]
      /\ cut' = [cut EXCEPT ![b] = FALSE] /\ gone' = [gone EXCEPT ![b] = FALSE]
      /\ others' = others /\ frames' = frames
      /\ lastId' = lastId /\ seen' = seen /\ since' = since
      /\ UNCHANGED <<busVars, feed, running, phase>>
  BY DEF Unregister, browserVars
<1>3. <<>> \in Seq(EventIds) /\ Len(<<>>) <= ClientBuffer
  BY EmptySeq, GatewayAssumption
<1>4. /\ closed'[b] = TRUE /\ handler'[b] = "off" /\ resume'[b] = NoId
      /\ buf'[b] = <<>>
      /\ \A u \in Browsers \ {b} :
            /\ closed'[u] = closed[u] /\ handler'[u] = handler[u]
            /\ buf'[u] = buf[u] /\ resume'[u] = resume[u] /\ cut'[u] = cut[u]
            /\ gone'[u] = gone[u]
  BY <1>1, <1>2 DEF StreamTypes
<1>5. StreamTypes' /\ BrowserTypes'
  <2>1. \A u \in Browsers : Len(buf'[u]) <= ClientBuffer
    BY <1>1, <1>3, <1>4 DEF StreamTypes
  <2> QED
    BY <1>1, <1>2, <1>3, <2>1 DEF StreamTypes, BrowserTypes
<1>6. Slots'
  BY <1>1, <1>2, FewerClients
<1>7. ClientsAreOpen'
  BY <1>1, <1>2, <1>4 DEF ClientsAreOpen
<1>8. Apart(b)
  BY <1>2, <1>4 DEF Apart, Same
<1>9. StreamInv(b)'
  BY <1>1, <1>2, <1>4 DEF StreamInv, Fields, Missing, Serving
<1> QED
  BY <1>2, <1>5, <1>6, <1>7, <1>8, <1>9, OneStream

LEMMA StreamKeeps ==
    ASSUME GatewayInv, NEW b \in Browsers, Stream(b)
    PROVE  GatewayInv'
<1>1. /\ BusTypes /\ StreamTypes /\ BrowserTypes /\ StreamInv(b)
  BY InvSplit
<1>2. /\ handler[b] = "live" /\ buf[b] # <<>> /\ frames' = frames
      /\ bused' = bused /\ feed' = feed
      /\ UNCHANGED <<busVars, others, feed, running, phase, frames>>
  BY DEF Stream, busVars
<1>3. CASE /\ WritePosition(b, Head(buf[b]))
           /\ buf' = [buf EXCEPT ![b] = Tail(@)]
           /\ UNCHANGED <<clients, closed, handler, resume, cut, gone>>
  <2>1. /\ Head(buf[b]) \in EventIds /\ Tail(buf[b]) \in Seq(EventIds)
        /\ Len(Tail(buf[b])) = Len(buf[b]) - 1
        /\ In(buf[b]) = {Head(buf[b])} \cup In(Tail(buf[b]))
    BY <1>1, <1>2, InTail DEF StreamTypes
  <2>2. /\ clients' = clients /\ closed' = closed /\ handler' = handler
        /\ resume' = resume /\ cut' = cut /\ gone' = gone
    BY <1>3
  <2>3. /\ buf'[b] = Tail(buf[b])
        /\ \A u \in Browsers \ {b} : buf'[u] = buf[u]
    BY <1>1, <1>3 DEF StreamTypes
  <2>4. StreamTypes'
    <3>1. Len(buf[b]) \in Nat /\ ClientBuffer \in Nat
      BY <1>1, GatewayAssumption, LenProperties DEF StreamTypes
    <3>2. Len(buf[b]) <= ClientBuffer
      BY <1>1 DEF StreamTypes
    <3>3. Len(buf'[b]) <= ClientBuffer
      BY <2>1, <2>3, <3>1, <3>2
    <3>4. \A u \in Browsers : Len(buf'[u]) <= ClientBuffer
      BY <1>1, <2>3, <3>3 DEF StreamTypes
    <3> QED
      BY <1>1, <1>2, <1>3, <2>1, <2>2, <3>4 DEF StreamTypes
  <2>5. /\ since' = since
        /\ ~gone[b] => seen'[b] = seen[b] \cup {Head(buf[b])}
        /\ \A u \in Browsers \ {b} : lastId'[u] = lastId[u] /\ seen'[u] = seen[u]
        /\ BrowserTypes'
    BY <1>1, <1>3, <2>1, Written
  <2>6. Apart(b)
    BY <1>2, <2>2, <2>3, <2>5 DEF Apart, Same
  <2>7. StreamInv(b)'
    <3>1. Fields(b)'
      BY <1>1, <1>2, <2>2 DEF StreamInv, Fields
    <3>2. ASSUME Serving(b)' PROVE Missing(b)'
      <4>1. ~gone[b] /\ Serving(b) /\ Missing(b)
        BY <1>1, <2>2, <3>2 DEF Serving, StreamInv
      <4>2. Covered(b) \subseteq Covered(b)'
        BY <1>2, <2>1, <2>3, <2>5, <4>1 DEF Covered
      <4> QED
        BY <1>2, <2>2, <2>5, <4>1, <4>2 DEF Missing
    <3> QED
      BY <3>1, <3>2 DEF StreamInv, Missing
  <2> QED
    BY <1>2, <2>2, <2>4, <2>5, <2>6, <2>7, OpenStream
<1>4. CASE Unregister(b) /\ UNCHANGED browserVars
  BY <1>2, <1>4, UnregisterKeeps
<1> QED
  BY <1>3, <1>4 DEF Stream

LEMMA HangUpKeeps ==
    ASSUME GatewayInv, NEW b \in Browsers, HangUp(b)
    PROVE  GatewayInv'
<1>1. StreamTypes /\ BrowserTypes /\ StreamInv(b)
  BY InvSplit
<1>2. /\ handler[b] # "off" /\ gone' = [gone EXCEPT ![b] = TRUE]
      /\ handler' = handler /\ buf' = buf /\ closed' = closed /\ frames' = frames
      /\ resume' = resume /\ cut' = cut
      /\ lastId' = lastId /\ seen' = seen /\ since' = since
      /\ UNCHANGED <<busVars, others, feed, running, phase, clients, closed>>
  BY DEF HangUp, browserVars
<1>3. /\ gone'[b] = TRUE
      /\ \A u \in Browsers \ {b} : gone'[u] = gone[u]
      /\ StreamTypes' /\ BrowserTypes'
  BY <1>1, <1>2 DEF StreamTypes, BrowserTypes
<1>4. Apart(b)
  BY <1>2, <1>3 DEF Apart, Same
<1>5. StreamInv(b)'
  BY <1>1, <1>2, <1>3 DEF StreamInv, Fields, Missing, Serving
<1> QED
  BY <1>2, <1>3, <1>4, <1>5, OpenStream

LEMMA HandleKeeps ==
    ASSUME GatewayInv, NEW b \in Browsers, Handle(b)
    PROVE  GatewayInv'
<1>1. CASE Shed(b)
  BY <1>1, UnregisterKeeps DEF Shed
<1>2. CASE EndStream(b)
  BY <1>2, UnregisterKeeps DEF EndStream
<1> QED
  BY <1>1, <1>2, PositionTimeKeeps, PositionsSinceKeeps, WriteMissedKeeps,
     ResumedKeeps, StreamKeeps
  DEF Handle
-----------------------------------------------------------------------------
LEMMA GatewayStarts == GatewayInit => GatewayInv
<1> SUFFICES ASSUME GatewayInit PROVE GatewayInv
  OBVIOUS
<1>1. /\ history = Earlier /\ tried = Earlier /\ bused = Earlier /\ feed = <<>>
      /\ running = TRUE /\ phase = "up" /\ clients = {} /\ others = 0
      /\ buf = [b \in Browsers |-> <<>>] /\ closed = [b \in Browsers |-> TRUE]
      /\ handler = [b \in Browsers |-> "off"] /\ resume = [b \in Browsers |-> NoId]
      /\ frames = [b \in Browsers |-> {}] /\ cut = [b \in Browsers |-> FALSE]
      /\ gone = [b \in Browsers |-> FALSE]
      /\ lastId \in [Browsers -> Earlier \cup {NoId}]
      /\ seen = [b \in Browsers |-> {}] /\ since = [b \in Browsers |-> Earlier]
  BY DEF GatewayInit
<1>2. /\ <<>> \in Seq(EventIds) /\ Len(<<>>) = 0
      /\ 0 <= BusBuffer /\ 0 <= ClientBuffer /\ 0 + 0 <= MaxClients
      /\ Earlier \subseteq EventIds /\ IsFiniteSet(Earlier)
  BY EmptySeq, GatewayAssumption
<1>3. BusTypes
  BY <1>1, <1>2 DEF BusTypes
<1>4. Slots
  BY <1>1, <1>2, FS_EmptySet DEF Slots
<1>5. StreamTypes
  BY <1>1, <1>2 DEF StreamTypes
<1>6. BrowserTypes
  BY <1>1, <1>2 DEF BrowserTypes
<1>7. ClientsAreOpen /\ \A b \in Browsers : StreamInv(b)
  BY <1>1 DEF ClientsAreOpen, StreamInv, Fields, Missing, Serving
<1> QED
  BY <1>3, <1>4, <1>5, <1>6, <1>7, InvSplit

LEMMA GatewayStepKeeps ==
    ASSUME GatewayInv, GatewayNext
    PROVE  GatewayInv'
<1>1. CASE \E e \in EventIds : Applied(e) \/ Publish(e)
  BY <1>1, AppliedKeeps, PublishKeeps
<1>2. CASE \E b \in Browsers : Register(b) \/ Handle(b) \/ HangUp(b)
  BY <1>2, RegisterKeeps, HandleKeeps, HangUpKeeps
<1>3. CASE Broadcast
  BY <1>3, BroadcastKeeps
<1>4. CASE Shutdown
  BY <1>4, ShutdownKeeps
<1>5. CASE Restart
  BY <1>5, RestartKeeps
<1>6. CASE OthersComeAndGo \/ Sigterm \/ LoopEnds \/ CloseListener
  BY <1>6, ProcessKeeps
<1> QED
  BY <1>1, <1>2, <1>3, <1>4, <1>5, <1>6 DEF GatewayNext, GatewayStep

LEMMA GatewayStutterKeeps ==
    ASSUME GatewayInv, UNCHANGED gatewayVars
    PROVE  GatewayInv'
<1>1. /\ history' = history /\ tried' = tried /\ bused' = bused /\ feed' = feed
      /\ running' = running /\ phase' = phase /\ clients' = clients
      /\ others' = others /\ buf' = buf /\ closed' = closed
      /\ handler' = handler /\ resume' = resume /\ frames' = frames /\ cut' = cut
      /\ gone' = gone /\ lastId' = lastId /\ seen' = seen /\ since' = since
  BY DEF gatewayVars
<1>2. BusTypes' /\ Slots' /\ StreamTypes' /\ BrowserTypes' /\ ClientsAreOpen'
  BY <1>1, InvSplit DEF BusTypes, Slots, StreamTypes, BrowserTypes, ClientsAreOpen
<1>3. \A b \in Browsers : StreamInv(b)'
  BY <1>1, InvSplit, StreamStays DEF Same, Delivers
<1> QED
  BY <1>2, <1>3, Together

LEMMA GatewayInvariant == GatewaySpec => []GatewayInv
<1>1. GatewayInv /\ [GatewayNext]_gatewayVars => GatewayInv'
  BY GatewayStepKeeps, GatewayStutterKeeps
<1> QED
  BY <1>1, GatewayStarts, PTL DEF GatewaySpec

\* Whatever the sizes: nothing is sent to a closed channel and no ended stream
\* keeps a slot (dropLocked, unregister), an open stream misses no frame
\* (broadcast), a resume leaves no gap at its seam, and one the limit cuts short
\* can be resumed again (replay).
THEOREM GatewaySafety ==
    GatewaySpec => [](/\ GatewayTypeOK
                      /\ ClientsAreOpen
                      /\ NoSkippedFrame
                      /\ ResumeGapless
                      /\ CutIsResumable)
<1>1. GatewayInv => /\ GatewayTypeOK /\ ClientsAreOpen
                    /\ NoSkippedFrame /\ ResumeGapless
  BY DEF GatewayInv, StreamInv, Missing, NoSkippedFrame, ResumeGapless
<1>2. GatewayInv => CutIsResumable
  <2>1. GatewayInv => bused \subseteq EventIds
    BY DEF GatewayInv, GatewayTypeOK
  <2> QED
    BY <2>1 DEF GatewayInv, StreamInv, Missing, LeftOut, CutIsResumable
<1> QED
  BY <1>1, <1>2, GatewayInvariant, PTL
=============================================================================
