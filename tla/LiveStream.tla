----------------------------- MODULE LiveStream -----------------------------
(***************************************************************************)
(* The live stream of the local API: StreamManager (aura/api/stream.py),   *)
(* the WebSocket endpoint that feeds one dashboard per connection          *)
(* (stream_endpoint of aura/api/router.py), and the monitoring cycle that  *)
(* publishes (AuraAgentDaemon._execute_cycle). All of it runs on one event *)
(* loop, so an action is what happens between two awaits.                  *)
(***************************************************************************)
EXTENDS Naturals, Sequences, FiniteSets

CONSTANTS Conns,        \* WebSocket connections
          MaxClients,   \* max_clients (10)
          QueueSize,    \* queue_maxsize (100)
          MaxMessages   \* bound: publishing stops when this many were published

ASSUME FiniteConns == IsFiniteSet(Conns)
ASSUME SizesAssumption == MaxClients \in Nat \ {0} /\ QueueSize \in Nat \ {0}
ASSUME MaxMessagesAssumption == MaxMessages \in Nat

Idle == [n |-> 0, kind |-> "none"]
Message == [n : Nat \ {0}, kind : {"tick", "event"}]

VARIABLES
    clients,    \* the keys of _clients
    queue,      \* each client's asyncio.Queue
    sending,    \* the message the send loop has taken and not yet sent, or Idle
    handler,    \* where the coroutine of the endpoint is
    published,  \* history: messages broadcast so far; they are numbered from 1
    lastTick,   \* history: number of the last telemetry tick
    since,      \* history: published when the client registered
    received,   \* history: number of the last message the client was sent
    pressed,    \* history: clients whose queue was full at a broadcast
    evicted     \* history: kinds of the messages removed to make room

vars == <<clients, queue, sending, handler, published, lastTick, since, received,
          pressed, evicted>>

TypeOK ==
    /\ clients \in SUBSET Conns
    /\ Cardinality(clients) <= MaxClients
    /\ queue \in [Conns -> Seq(Message)]
    /\ \A c \in Conns : Len(queue[c]) <= QueueSize
    /\ sending \in [Conns -> Message \cup {Idle}]
    /\ handler \in [Conns -> {"off", "accepting", "streaming", "closing"}]
    /\ published \in Nat
    /\ lastTick \in Nat
    /\ since \in [Conns -> Nat]
    /\ received \in [Conns -> Nat]
    /\ pressed \in SUBSET Conns
    /\ evicted \in SUBSET {"tick", "event"}

Init ==
    /\ clients = {}
    /\ queue = [c \in Conns |-> << >>]
    /\ sending = [c \in Conns |-> Idle]
    /\ handler = [c \in Conns |-> "off"]
    /\ published = 0
    /\ lastTick = 0
    /\ since = [c \in Conns |-> 0]
    /\ received = [c \in Conns |-> 0]
    /\ pressed = {}
    /\ evicted = {}

-----------------------------------------------------------------------------
(* A connection *)

\* The session is valid and register_client finds room (otherwise the socket is
\* closed and nothing is stored). The client is registered before it is accepted.
Connect(c) ==
    /\ handler[c] = "off"
    /\ c \notin clients
    /\ Cardinality(clients) < MaxClients
    /\ clients' = clients \cup {c}
    /\ queue' = [queue EXCEPT ![c] = << >>]
    /\ handler' = [handler EXCEPT ![c] = "accepting"]
    /\ since' = [since EXCEPT ![c] = published]
    /\ pressed' = pressed \ {c}
    /\ UNCHANGED <<sending, published, lastTick, received, evicted>>

\* await websocket.accept() returns and the send and receive loops are started.
Accepted(c) ==
    /\ handler[c] = "accepting"
    /\ handler' = [handler EXCEPT ![c] = "streaming"]
    /\ UNCHANGED <<clients, queue, sending, published, lastTick, since, received,
                   pressed, evicted>>

\* accept() raises because the peer has gone: the exception leaves the endpoint
\* before the try whose finally would remove the client.
AcceptFails(c) ==
    /\ handler[c] = "accepting"
    /\ handler' = [handler EXCEPT ![c] = "off"]
    /\ UNCHANGED <<clients, queue, sending, published, lastTick, since, received,
                   pressed, evicted>>

\* queue.get(): the oldest message
Oldest(q) == q[1]

\* The send loop takes the oldest message and waits for the socket.
SendTakesNewest(c) ==
    /\ handler[c] = "streaming"
    /\ sending[c] = Idle
    /\ queue[c] # << >>
    /\ sending' = [sending EXCEPT ![c] = queue[c][Len(queue[c])]]
    /\ queue' = [queue EXCEPT ![c] = SubSeq(@, 1, Len(@) - 1)]
    /\ UNCHANGED <<clients, handler, published, lastTick, since, received, pressed,
                   evicted>>
SendTakes(c) ==
    /\ handler[c] = "streaming"
    /\ sending[c] = Idle
    /\ queue[c] # << >>
    /\ sending' = [sending EXCEPT ![c] = Oldest(queue[c])]
    /\ queue' = [queue EXCEPT ![c] = Tail(@)]
    /\ UNCHANGED <<clients, handler, published, lastTick, since, received, pressed,
                   evicted>>

SendDone(c) ==
    /\ handler[c] = "streaming"
    /\ sending[c] # Idle
    /\ received' = [received EXCEPT ![c] = sending[c].n]
    /\ sending' = [sending EXCEPT ![c] = Idle]
    /\ UNCHANGED <<clients, queue, handler, published, lastTick, since, pressed,
                   evicted>>

\* The receive loop ends, or send_text raises: the endpoint leaves its wait.
Disconnects(c) ==
    /\ handler[c] = "streaming"
    /\ handler' = [handler EXCEPT ![c] = "closing"]
    /\ UNCHANGED <<clients, queue, sending, published, lastTick, since, received,
                   pressed, evicted>>

\* The other loop is cancelled and the client removed.
Removed(c) ==
    /\ handler[c] = "closing"
    /\ clients' = clients \ {c}
    /\ queue' = [queue EXCEPT ![c] = << >>]
    /\ sending' = [sending EXCEPT ![c] = Idle]
    /\ handler' = [handler EXCEPT ![c] = "off"]
    /\ UNCHANGED <<published, lastTick, since, received, pressed, evicted>>

-----------------------------------------------------------------------------
(* Publishing *)

\* broadcast_sync for one queue: put; when it is full, a tick replaces the oldest
\* message and anything else is dropped.
Unbounded(q, m) == Append(q, m)
TickDropped(q, m) == IF Len(q) < QueueSize THEN Append(q, m) ELSE q
TickAlwaysEvicts(q, m) ==
    IF m.kind = "tick" /\ q # << >> THEN Append(Tail(q), m)
    ELSE IF Len(q) < QueueSize THEN Append(q, m) ELSE q
Put(q, m) ==
    IF Len(q) < QueueSize THEN Append(q, m)
    ELSE IF m.kind = "tick" THEN Append(Tail(q), m)
    ELSE q

\* _execute_cycle publishes its tick, and the event if there is one of MEDIUM
\* severity or above; there is no await between the two broadcasts.
Cycle(withEvent) ==
    LET tick == [n |-> published + 1, kind |-> "tick"]
        event == [n |-> published + 2, kind |-> "event"]
        after(q) == IF withEvent THEN Put(Put(q, tick), event) ELSE Put(q, tick)
        room == IF withEvent THEN 2 ELSE 1
    IN  /\ published + room <= MaxMessages
        /\ queue' = [c \in Conns |-> IF c \in clients THEN after(queue[c]) ELSE queue[c]]
        /\ published' = published + room
        /\ lastTick' = published + 1
        /\ pressed' = pressed \cup {c \in clients : Len(queue[c]) + room > QueueSize}
        /\ evicted' = evicted \cup {queue[c][1].kind : c \in
                                      {d \in clients : Len(queue[d]) >= QueueSize}}
        /\ UNCHANGED <<clients, sending, handler, since, received>>

-----------------------------------------------------------------------------
Connection(c) ==
    \/ Connect(c)
    \/ Accepted(c)
    \/ AcceptFails(c)
    \/ SendTakes(c)
    \/ SendDone(c)
    \/ Disconnects(c)
    \/ Removed(c)

Next ==
    \/ \E c \in Conns : Connection(c)
    \/ \E withEvent \in BOOLEAN : Cycle(withEvent)

Spec == Init /\ [][Next]_vars

\* The event loop runs the send loop when it is ready; a socket that accepts nothing is
\* closed by the server's ping timeout. An idle connection need not end.
FairSpec ==
    /\ Spec
    /\ \A c \in Conns :
          /\ WF_vars(SendTakes(c))
          /\ WF_vars(SendDone(c) \/ (sending[c] # Idle /\ Disconnects(c)))

-----------------------------------------------------------------------------
(* Properties *)

\* What client c was not yet sent: the message in flight, then the queue.
Ahead(c) == (IF sending[c] = Idle THEN << >> ELSE <<sending[c]>>) \o queue[c]

\* What it was sent, or was published before it registered.
Behind(c) == IF received[c] > since[c] THEN received[c] ELSE since[c]

\* A dashboard loses nothing as long as its queue has never been full at a
\* broadcast: everything after the last message it was sent is waiting for it.
NothingLostUnpressed ==
    \A c \in clients \ pressed :
        /\ Behind(c) + Len(Ahead(c)) = published
        /\ \A k \in 1 .. Len(Ahead(c)) : Ahead(c)[k].n = Behind(c) + k

\* Backpressure never costs the newest telemetry: the last tick published since the
\* client registered waits for it, is in flight or was sent.
FreshTickKept ==
    \A c \in clients : lastTick > since[c] =>
        \/ received[c] >= lastTick
        \/ sending[c].n = lastTick
        \/ \E k \in 1 .. Len(queue[c]) : queue[c][k].n = lastTick

\* Queues, slow sockets, reconnections: each connection still receives a selection of
\* what was published, in order: never a message older than one it was sent before.
Promise == INSTANCE LossyStream
ImplementsLossyStream == Promise!Spec

\* A streaming dashboard is sent the newest tick, however busy the others are, or
\* its connection ends.
TicksArrive ==
    \A c \in Conns : \A t \in 1 .. MaxMessages :
        handler[c] = "streaming" /\ lastTick = t /\ since[c] < t
            ~> received[c] >= t \/ handler[c] # "streaming"

\* _clients holds "active WebSocket client connections": each has its endpoint.
RegisteredAreActive == \A c \in clients : handler[c] # "off"

\* "Drop oldest tick": room for a new tick is made by dropping a tick.
OnlyTicksEvicted == "event" \notin evicted
=============================================================================
