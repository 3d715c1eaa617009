----------------------------- MODULE CloudRelay -----------------------------
(***************************************************************************)
(* aura/cloud/relay.py and the two WebSocket endpoints of                  *)
(* aura/cloud/router.py, for one device, with the connector of its agent.  *)
(* Each connection of the agent has an endpoint that hands what it         *)
(* receives to the dashboards one after the other; a connection that ends  *)
(* tells them that the agent is offline. The relay's lock is never held    *)
(* across an await, so its methods are atomic up to the sends.             *)
(***************************************************************************)
EXTENDS CloudConnector

CONSTANT Clients   \* the WebSockets of dashboards that ever connect

VARIABLES
    wire,        \* messages on their way, per connection of the agent
    open,        \* connections neither side has ended
    endpoint,    \* agent_stream_endpoint of each connection
    sending,     \* the message its broadcast sends, while there is one
    todo,        \* the subscribers its broadcast has not reached
    dead,        \* dead_sockets of that broadcast
    agent,       \* _agents[device_id], 0 for none
    subscribers, \* _client_subscribers[device_id]
    latest,      \* number of _latest_ticks[device_id], 0 for none
    online,      \* is_online of the device's row
    valid,       \* the row exists and is not revoked
    client,      \* client_stream_endpoint of each dashboard
    got,         \* history: the last number each dashboard got of each connection
    told,        \* history: what the last message to each dashboard made of the agent
    relayed,     \* history: the last number each endpoint has received
    since        \* history: relayed when the dashboard registered

relayVars == <<wire, open, endpoint, sending, todo, dead, agent, subscribers, latest,
               online, valid, client, got, told, relayed, since>>
vars == <<connectorVars, relayVars>>

Offline == [n |-> 0, type |-> "agent_status_change"]

Init ==
    /\ ConnectorInit
    /\ wire = [k \in Conns |-> << >>]
    /\ open = {}
    /\ endpoint = [k \in Conns |-> "none"]
    /\ sending = [k \in Conns |-> Offline]
    /\ todo = [k \in Conns |-> {}]
    /\ dead = [k \in Conns |-> {}]
    /\ agent = 0
    /\ subscribers = {}
    /\ latest = 0
    /\ online = TRUE           \* consume_pairing_code inserts the row with is_online = 1
    /\ valid = TRUE
    /\ client = [c \in Clients |-> "out"]
    /\ got = [c \in Clients |-> [k \in Conns |-> 0]]
    /\ told = [c \in Clients |-> "nothing"]
    /\ relayed = [k \in Conns |-> 0]
    /\ since = [c \in Clients |-> [k \in Conns |-> 0]]

-----------------------------------------------------------------------------
(* The agent's connections *)

\* The agent ends its connection: what it has sent still arrives.
LinkClosed == open' = IF link' = 0 THEN open \ {link} ELSE open

\* A new connection, whose token get_device_by_token finds.
TokenAccepted == valid
Checked(k) ==
    /\ endpoint[k] = "none" /\ \A j \in Conns : endpoint[j] = "none" => k <= j
    /\ TokenAccepted
    /\ Dials(k)
    /\ endpoint' = [endpoint EXCEPT ![k] = "checked"]
    /\ open' = open \cup {k}
    /\ UNCHANGED <<wire, sending, todo, dead, agent, subscribers, latest, online, valid,
                   client, got, told, relayed, since>>

\* close(1008) before accept(): the handshake is refused.
Refused ==
    /\ ~ TokenAccepted
    /\ Rejected
    /\ UNCHANGED relayVars

\* accept() returns, and the endpoint registers its socket. The agent may have given
\* up meanwhile.
Accepted(k) ==
    /\ endpoint[k] = "checked"
    /\ endpoint' = [endpoint EXCEPT ![k] = "streaming"]
    /\ agent' = k
    /\ online' = TRUE
    /\ \/ k \in open /\ Connected(k) /\ LinkClosed
       \/ k \notin open /\ UNCHANGED <<connectorVars, open>>
    /\ UNCHANGED <<wire, sending, todo, dead, subscribers, latest, valid, client, got,
                   told, relayed, since>>

\* accept() raises: nothing was registered.
AcceptFails(k) ==
    /\ endpoint[k] = "checked" /\ k \notin open
    /\ endpoint' = [endpoint EXCEPT ![k] = "refused"]
    /\ UNCHANGED <<connectorVars, wire, open, sending, todo, dead, agent, subscribers,
                   latest, online, valid, client, got, told, relayed, since>>

\* ws.send on an open connection, and on one that was lost.
ConnectorSends ==
    /\ link \in open
    /\ SendStarts
    /\ wire' = [wire EXCEPT ![link] = Append(@, Head(queue))]
    /\ UNCHANGED <<open, endpoint, sending, todo, dead, agent, subscribers, latest,
                   online, valid, client, got, told, relayed, since>>

ConnectorNotices ==
    /\ link \notin open
    /\ SendRaises \/ SendBreaks
    /\ UNCHANGED relayVars

ConnectorGoesOn ==
    /\ SendReturns \/ Cancelled \/ ConnectionFails
    /\ LinkClosed
    /\ UNCHANGED <<wire, endpoint, sending, todo, dead, agent, subscribers, latest,
                   online, valid, client, got, told, relayed, since>>

ConnectorAlone ==
    /\ run \/ stop \/ Wakes \/ enqueue_message
    /\ UNCHANGED relayVars

\* The network breaks: some of what was sent last is lost.
Breaks(k) ==
    /\ k \in open
    /\ open' = open \ {k}
    /\ \E i \in 0 .. Len(wire[k]) : wire' = [wire EXCEPT ![k] = SubSeq(@, 1, i)]
    /\ UNCHANGED <<connectorVars, endpoint, sending, todo, dead, agent, subscribers,
                   latest, online, valid, client, got, told, relayed, since>>

-----------------------------------------------------------------------------
(* agent_stream_endpoint *)

\* What follows a broadcast: the next receive_text(), or the end of the endpoint.
AfterBroadcast(k) == IF endpoint[k] = "farewell" THEN "done" ELSE "streaming"

\* receive_text() returns: broadcast_to_device_subscribers caches a tick and takes a
\* snapshot of the subscribers.
Receives(k) ==
    /\ endpoint[k] = "streaming" /\ wire[k] # << >>
    /\ LET m == Head(wire[k]) IN
       /\ wire' = [wire EXCEPT ![k] = Tail(@)]
       /\ relayed' = [relayed EXCEPT ![k] = m.n]
       /\ latest' = IF m.type = "tick" THEN m.n ELSE latest
       /\ sending' = [sending EXCEPT ![k] = IF subscribers = {} THEN Offline ELSE m]
    /\ todo' = [todo EXCEPT ![k] = subscribers]
    /\ IF subscribers = {}
       THEN online' = TRUE /\ UNCHANGED endpoint
       ELSE endpoint' = [endpoint EXCEPT ![k] = "relaying"] /\ UNCHANGED online
    /\ UNCHANGED <<connectorVars, open, dead, agent, subscribers, valid, client, got,
                   told, since>>

\* unregister_agent removes the device's entry, whichever socket is in it.
AgentKept(k) == agent
AgentUnregistered(k) == 0

\* What the subscribers are sent when it has.
CachedTick(k) == IF latest = 0 THEN Offline ELSE [n |-> latest, type |-> "tick"]
LastWord(k) == Offline

\* Whom it tells that the agent is offline.
ToldIfRegistered(k) == IF agent = k THEN subscribers ELSE {}
Told(k) == subscribers

\* receive_text() raises: the endpoint leaves its loop and says that the agent is
\* offline.
AgentGone(k) ==
    /\ endpoint[k] = "streaming" /\ wire[k] = << >> /\ k \notin open
    /\ online' = FALSE
    /\ agent' = AgentUnregistered(k)
    /\ sending' = [sending EXCEPT ![k] = LastWord(k)]
    /\ todo' = [todo EXCEPT ![k] = Told(k)]
    /\ endpoint' = [endpoint EXCEPT ![k] = IF Told(k) = {} THEN "done" ELSE "farewell"]
    /\ UNCHANGED <<connectorVars, wire, open, dead, subscribers, latest, valid, client,
                   got, told, relayed, since>>

\* The send to the next subscriber of the snapshot, in the order of a Python set. After
\* the last one, the sockets that raised are unsubscribed.
EveryoneDead(k, c) == subscribers
Undelivered(k, c) == dead[k] \cup {c}
AlwaysHeartbeat(k) == TRUE
HeartbeatAfter(k) == endpoint[k] = "relaying"
SendsTo(k, c) ==
    /\ endpoint[k] \in {"relaying", "farewell"}
    /\ c \in todo[k]
    /\ LET m == sending[k]
           failed == IF client[c] = "in" THEN dead[k] ELSE Undelivered(k, c)
           last == todo[k] = {c}
       IN /\ IF client[c] = "in"
             THEN /\ got' = [got EXCEPT ![c][k] = IF m = Offline THEN @ ELSE m.n]
                  /\ told' = [told EXCEPT ![c] = IF m = Offline THEN "offline" ELSE "live"]
             ELSE UNCHANGED <<got, told>>
          /\ todo' = [todo EXCEPT ![k] = @ \ {c}]
          /\ sending' = [sending EXCEPT ![k] = IF last THEN Offline ELSE @]
          /\ dead' = [dead EXCEPT ![k] = IF last THEN {} ELSE failed]
          /\ subscribers' = IF last THEN subscribers \ failed ELSE subscribers
          /\ endpoint' = [endpoint EXCEPT ![k] = IF last THEN AfterBroadcast(k) ELSE @]
          /\ online' = IF last /\ HeartbeatAfter(k) THEN TRUE ELSE online
    /\ UNCHANGED <<connectorVars, wire, open, agent, latest, valid, client, relayed,
                   since>>

-----------------------------------------------------------------------------
(* client_stream_endpoint, and the requests that touch the device's row *)

\* The session and the device are checked before accept()...
ClientChecked(c) ==
    /\ client[c] = "out" /\ valid
    /\ client' = [client EXCEPT ![c] = "checked"]
    /\ UNCHANGED <<connectorVars, wire, open, endpoint, sending, todo, dead, agent,
                   subscribers, latest, online, valid, got, told, relayed, since>>

\* ... and the socket is registered, and sent the cached tick, after it.
ClientRegisters(c) ==
    /\ client[c] = "checked"
    /\ client' = [client EXCEPT ![c] = "in"]
    /\ subscribers' = subscribers \cup {c}
    /\ told' = [told EXCEPT ![c] = IF latest = 0 THEN "nothing" ELSE "cached"]
    /\ since' = [since EXCEPT ![c] = relayed]
    /\ UNCHANGED <<connectorVars, wire, open, endpoint, sending, todo, dead, agent,
                   latest, online, valid, got, relayed>>

\* The socket ends; sends to it raise from now on.
ClientCloses(c) ==
    /\ client[c] \in {"checked", "in"}
    /\ client' = [client EXCEPT ![c] = IF @ = "in" THEN "closed" ELSE "gone"]
    /\ told' = [told EXCEPT ![c] = "nothing"]
    /\ since' = [since EXCEPT ![c] = [k \in Conns |-> 0]]
    /\ UNCHANGED <<connectorVars, wire, open, endpoint, sending, todo, dead, agent,
                   subscribers, latest, online, valid, got, relayed>>

SubscribersKept(c) == subscribers
SubscribersWithout(c) == subscribers \ {c}
ClientUnregisters(c) ==
    /\ client[c] = "closed"
    /\ client' = [client EXCEPT ![c] = "gone"]
    /\ subscribers' = SubscribersWithout(c)
    /\ UNCHANGED <<connectorVars, wire, open, endpoint, sending, todo, dead, agent,
                   latest, online, valid, got, told, relayed, since>>

\* revoke_device: open connections are left alone.
DeviceRevoked ==
    /\ valid
    /\ valid' = FALSE
    /\ online' = FALSE
    /\ UNCHANGED <<connectorVars, wire, open, endpoint, sending, todo, dead, agent,
                   subscribers, latest, client, got, told, relayed, since>>

-----------------------------------------------------------------------------
AgentStep(k) ==
    \/ Receives(k) \/ AgentGone(k)
    \/ \E c \in Clients : SendsTo(k, c)

Next ==
    \/ ConnectorAlone \/ ConnectorSends \/ ConnectorNotices \/ ConnectorGoesOn
    \/ Refused
    \/ \E k \in Conns : Checked(k) \/ Accepted(k) \/ AcceptFails(k) \/ Breaks(k)
    \/ \E k \in Conns : AgentStep(k)
    \/ \E c \in Clients : \/ ClientChecked(c) \/ ClientRegisters(c)
                          \/ ClientCloses(c) \/ ClientUnregisters(c)
    \/ DeviceRevoked

Spec == Init /\ [][Next]_vars

\* The server runs its coroutines, and a send ends: the socket takes the message or
\* the ping timeout ends it.
FairSpec == Spec /\ \A k \in Conns : WF_vars(AgentStep(k))
                 /\ \A c \in Clients : WF_vars(ClientUnregisters(c))

-----------------------------------------------------------------------------
(* Properties *)

TypeOK ==
    /\ ConnectorTypeOK
    /\ wire \in [Conns -> Seq(Message)]
    /\ open \in SUBSET Conns
    /\ endpoint \in [Conns -> {"none", "checked", "refused", "streaming", "relaying",
                               "farewell", "done"}]
    /\ sending \in [Conns -> Message \cup {Offline}]
    /\ todo \in [Conns -> SUBSET Clients] /\ dead \in [Conns -> SUBSET Clients]
    /\ agent \in 0 .. MaxConns
    /\ subscribers \in SUBSET Clients
    /\ latest \in 0 .. MaxMessages
    /\ online \in BOOLEAN /\ valid \in BOOLEAN
    /\ client \in [Clients -> {"out", "checked", "in", "closed", "gone"}]
    /\ got \in [Clients -> [Conns -> 0 .. MaxMessages]]
    /\ told \in [Clients -> {"nothing", "cached", "live", "offline"}]
    /\ relayed \in [Conns -> 0 .. MaxMessages]
    /\ since \in [Clients -> [Conns -> 0 .. MaxMessages]]

\* However connections replace each other, the agent that the relay lists has an
\* endpoint that serves it.
NoGhostAgent == agent # 0 => endpoint[agent] \in {"streaming", "relaying"}

\* Only dashboards whose endpoint has still to unregister them are subscribed.
NoGhostSubscriber == \A c \in subscribers : client[c] \in {"in", "closed"}

\* Nothing is registered that nobody serves, in whatever order connections end.
NoGhosts == NoGhostAgent /\ NoGhostSubscriber

\* A dashboard that stays connected gets everything the endpoints receive after it
\* registered, whoever else comes, goes or fails during a broadcast.
NothingWithheld ==
    \A c \in Clients : client[c] = "in" =>
        /\ c \in subscribers
        /\ \A k \in Conns : relayed[k] > since[c][k] =>
               got[c][k] = relayed[k] \/ (c \in todo[k] /\ sending[k].n = relayed[k])

\* When the last connection of the agent has ended, no dashboard that was sent live
\* messages is left believing in them.
OfflineIsTold ==
    (\A k \in Conns : endpoint[k] \in {"none", "refused", "done"}) =>
        \A c \in Clients : client[c] = "in" => told[c] # "live"

\* The stored flag agrees in the end: after a connection, and with none left, the
\* device is offline, although every message and the broadcast of another one sets it.
OfflineIsStored ==
    /\ \E k \in Conns : endpoint[k] = "done"
    /\ \A k \in Conns : endpoint[k] \in {"none", "checked", "refused", "done"}
    => ~ online

\* A device whose connections are over is offline for the dashboards and in its row.
OfflineIsKnown == OfflineIsTold /\ OfflineIsStored

\* The numbers of the messages that connection k has brought or still carries.
Brings(k) == ({relayed[k]} \ {0}) \cup {wire[k][i].n : i \in 1 .. Len(wire[k])}

\* A reconnection repeats nothing: the connector has taken a message off its queue when it
\* sends it, so each travels on one connection, a later connection carries newer ones
\* only, and what waits in the queue is newer than all of them. This is the order in which
\* messages are sent. The relay may pass them on in another: see OrderAcrossConnections.
ReconnectionsRepeatNothing ==
    /\ \A j, k \in Conns : j < k => \A a \in Brings(j), b \in Brings(k) : a < b
    /\ \A k \in Conns : \A a \in Brings(k), i \in 1 .. Len(queue) : a < queue[i].n

\* The cached tick is the latest one ("_latest_ticks"). The code does not keep it: the
\* endpoint of a connection that was replaced still has messages to receive, and caches
\* the tick it receives after the newer one of the connection in use.
LatestTickIsNewest == [][latest' >= latest]_vars

\* A dashboard is never sent a message older than one it has been sent. The code does not
\* keep it either: the endpoints of two connections broadcast side by side.
OrderAcrossConnections ==
    [][\A c \in Clients, j, k \in Conns :
           got'[c][k] # got[c][k] => got'[c][k] > got[c][j]]_vars

\* What each dashboard gets of one connection is a selection, in order, of what the
\* agent published: the promise of the local stream, per connection of the agent.
Deliveries == Clients \X Conns
Promise == INSTANCE LossyStream WITH Conns <- Deliveries, published <- published,
                                     received <- [d \in Deliveries |-> got[d[1]][d[2]]]
ImplementsLossyStream == Promise!Spec

\* A connection that was lost is taken down, whatever waits in it or in a broadcast.
LostConnectionsEnd ==
    \A k \in Conns : endpoint[k] = "streaming" /\ k \notin open ~> endpoint[k] = "done"

\* "Exponential backoff with jitter on reconnect": a connector that says it runs has
\* a task that keeps trying.
RunningConnectorIsAlive == running => task # "dead"

\* is_agent_connected answers for the connection in use.
ServedAgentIsListed == \A k \in Conns : endpoint[k] = "streaming" => agent # 0
=============================================================================
