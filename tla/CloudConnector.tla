--------------------------- MODULE CloudConnector ---------------------------
(***************************************************************************)
(* aura/agent/cloud_client.py: the task that streams the agent's messages  *)
(* to the cloud. The monitoring cycle queues messages; run() connects,     *)
(* takes one message after the other and sends it, and starts again after  *)
(* a pause when the connection is lost. A step is what happens between two *)
(* awaits. The connections themselves belong to the module that composes   *)
(* this one with the relay.                                                *)
(***************************************************************************)
EXTENDS Naturals, Sequences

CONSTANTS MaxConns,     \* bound: connections made in a behaviour
          QueueSize,    \* maxsize of the outbound queue
          MaxMessages,  \* bound: messages handed to the connector
          Events        \* those that are security events; the others are ticks

ASSUME ConnectorAssumption ==
    /\ MaxConns \in Nat /\ QueueSize \in Nat \ {0} /\ MaxMessages \in Nat
    /\ Events \subseteq 1 .. MaxMessages

Conns == 1 .. MaxConns
Numbers == 1 .. MaxMessages

\* A message: its number in the order of the monitoring cycles, and its type.
Message == [n : Numbers, type : {"tick", "event"}]
MessageNumber(i) == [n |-> i, type |-> IF i \in Events THEN "event" ELSE "tick"]

VARIABLES
    running,    \* _is_running
    task,       \* where the coroutine of run() is suspended
    queue,      \* _queue
    link,       \* the connection in use, 0 for none
    published   \* history: how many messages the cycles have handed over

connectorVars == <<running, task, queue, link, published>>

ConnectorTypeOK ==
    /\ running \in BOOLEAN
    /\ task \in {"off", "connecting", "waiting", "sending", "sleeping", "dead"}
    /\ queue \in Seq(Message) /\ Len(queue) <= QueueSize
    /\ link \in 0 .. MaxConns
    /\ published \in 0 .. MaxMessages

ConnectorInit ==
    /\ running = FALSE
    /\ task = "off"
    /\ queue = << >>
    /\ link = 0
    /\ published = 0

\* run(), started by the daemon for a paired device. The queue keeps what an earlier
\* run left in it.
run ==
    /\ task \in {"off", "dead"} /\ ~ running
    /\ running' = TRUE
    /\ task' = "connecting"
    /\ UNCHANGED <<queue, link, published>>

\* put_nowait of the next message; a full queue drops it. A connector that does not
\* run returns at once and changes nothing.
QueuedUnbounded(m) == Append(queue, m)
Queued(m) == IF Len(queue) < QueueSize THEN Append(queue, m) ELSE queue
enqueue_message ==
    /\ running
    /\ published < MaxMessages
    /\ published' = published + 1
    /\ queue' = Queued(MessageNumber(published + 1))
    /\ UNCHANGED <<running, task, link>>

\* websockets.connect: a connection is opened, and later the handshake completes.
Dials(k) ==
    /\ task = "connecting" /\ link = 0
    /\ link' = k
    /\ UNCHANGED <<running, task, queue, published>>

Connected(k) ==
    /\ task = "connecting" /\ link = k
    /\ task' = IF running THEN "waiting" ELSE "off"
    /\ link' = IF running THEN k ELSE 0
    /\ UNCHANGED <<running, queue, published>>

\* ConnectionClosed or OSError: a pause, unless stop() was called.
Recovers ==
    /\ task' = IF running THEN "sleeping" ELSE "off"
    /\ link' = 0
    /\ UNCHANGED <<running, published>>

\* No server, a handshake that breaks, or one that takes too long.
ConnectionFails ==
    /\ task = "connecting"
    /\ Recovers
    /\ UNCHANGED queue

\* The server answers the handshake with a refusal. That exception is none of those
\* that run() handles: its task ends.
Rejected ==
    /\ task = "connecting" /\ link = 0
    /\ task' = "dead"
    /\ UNCHANGED <<running, queue, link, published>>

Wakes ==
    /\ task = "sleeping"
    /\ task' = IF running THEN "connecting" ELSE "off"
    /\ UNCHANGED <<running, queue, link, published>>

\* _queue.get() returns and ws.send writes the message to an open connection...
RestPeeked == queue
Rest == Tail(queue)
SendStarts ==
    /\ task = "waiting" /\ queue # << >>
    /\ task' = "sending"
    /\ queue' = Rest
    /\ UNCHANGED <<running, link, published>>

\* ... or raises because the connection was lost meanwhile, the message with it.
SendRaises ==
    /\ task = "waiting" /\ queue # << >>
    /\ queue' = Rest
    /\ Recovers

SendReturns ==
    /\ task = "sending"
    /\ task' = IF running THEN "waiting" ELSE "off"
    /\ link' = IF running THEN link ELSE 0
    /\ UNCHANGED <<running, queue, published>>

\* The connection is lost while send() waits for the socket.
SendBreaks ==
    /\ task = "sending"
    /\ Recovers
    /\ UNCHANGED queue

\* stop() of the connector, the first thing stop() of the daemon does.
stop ==
    /\ running
    /\ running' = FALSE
    /\ UNCHANGED <<task, queue, link, published>>

\* The daemon cancels the task a moment later.
Cancelled ==
    /\ ~ running /\ task \notin {"off", "dead"}
    /\ task' = "off"
    /\ link' = 0
    /\ UNCHANGED <<running, queue, published>>
=============================================================================
