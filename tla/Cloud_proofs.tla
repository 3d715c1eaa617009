---------------------------- MODULE Cloud_proofs ----------------------------
(***************************************************************************)
(* The cloud for any numbers of connections, dashboards, messages, users,  *)
(* codes and devices: what the relay tells the dashboards, in which order, *)
(* and who may shut which device.                                          *)
(***************************************************************************)
EXTENDS CloudRelay, CloudPairing, TLAPS

\* q holds messages after lo and up to hi, in order.
Ascending(q, lo, hi) ==
    /\ \A i \in 1 .. Len(q) : lo < q[i].n /\ q[i].n <= hi
    /\ \A i, j \in 1 .. Len(q) : i < j => q[i].n < q[j].n

\* All that connection k has brought and still brings is older than n.
Older(k, n) ==
    /\ relayed[k] < n
    /\ \A i \in 1 .. Len(wire[k]) : wire[k][i].n < n

\* Connections are dialled in their order, and the connector uses the last one.
DialledInOrder ==
    \A k \in Conns : endpoint[k] = "none" =>
        /\ wire[k] = << >> /\ relayed[k] = 0 /\ k \notin open /\ link # k
        /\ \A j \in Conns : k < j => endpoint[j] = "none"
LinkIsLast == link # 0 => \A k \in Conns : link < k => endpoint[k] = "none"

\* Messages wait in the order of their numbers: first those of a connection, then
\* those of the next one, then the queue of the connector.
QueueInOrder == Ascending(queue, 0, published)
WireInOrder(k) == relayed[k] <= published /\ Ascending(wire[k], relayed[k], published)
WireBeforeQueue(k) == \A i \in 1 .. Len(queue) : Older(k, queue[i].n)
WireBefore(j, k) ==
    /\ relayed[k] # 0 => Older(j, relayed[k])
    /\ \A i \in 1 .. Len(wire[k]) : Older(j, wire[k][i].n)
MessagesInOrder ==
    /\ QueueInOrder
    /\ \A k \in Conns : WireInOrder(k) /\ WireBeforeQueue(k)
    /\ \A j, k \in Conns : j < k => WireBefore(j, k)

\* A broadcast runs while there is somebody to send to, and sends the message that its
\* endpoint received last to those who have not got it.
Broadcast(k) ==
    /\ endpoint[k] \in {"relaying", "farewell"} <=> todo[k] # {}
    /\ IF endpoint[k] = "relaying"
       THEN sending[k] \in Message /\ sending[k].n = relayed[k]
       ELSE sending[k] = Offline
    /\ \A c \in Clients :
           /\ got[c][k] <= relayed[k]
           /\ endpoint[k] = "relaying" /\ c \in todo[k] => got[c][k] < relayed[k]
           /\ c \in todo[k] => client[c] \in {"in", "closed", "gone"}
           /\ c \in dead[k] => client[c] \in {"closed", "gone"}

\* Who was sent live messages is on the list of somebody who will tell.
OfflineWillBeTold ==
    \A c \in Clients : client[c] = "in" /\ told[c] = "live" =>
        \E k \in Conns : \/ endpoint[k] \in {"streaming", "relaying"}
                         \/ endpoint[k] = "farewell" /\ c \in todo[k]

\* The last endpoint that leaves its loop stores it.
OfflineWasStored ==
    /\ \E k \in Conns : endpoint[k] \in {"farewell", "done"}
    /\ \A k \in Conns : endpoint[k] \notin {"streaming", "relaying"}
    => ~ online

RelayInv ==
    /\ TypeOK
    /\ DialledInOrder /\ LinkIsLast
    /\ MessagesInOrder
    /\ \A k \in Conns : Broadcast(k)
    /\ NoGhosts /\ NothingWithheld
    /\ OfflineWillBeTold /\ OfflineWasStored

-----------------------------------------------------------------------------
(* Messages and sequences of them *)

LEMMA OfflineIsNoMessage ==
    Offline \notin Message /\ Offline.n = 0 /\ \A m \in Message : m.n \in Numbers /\ m.n > 0
BY ConnectorAssumption DEF Offline, Message, Numbers

LEMMA MessageTyped ==
    ASSUME NEW i \in Numbers
    PROVE  MessageNumber(i) \in Message /\ MessageNumber(i).n = i
BY DEF MessageNumber, Message

\* The elements of what waits anywhere
LEMMA Elements ==
    ASSUME NEW q \in Seq(Message)
    PROVE  /\ Len(q) \in Nat
           /\ \A i \in 1 .. Len(q) : q[i] \in Message /\ q[i].n \in Nat /\ q[i].n > 0
                                     /\ q[i].n <= MaxMessages
BY OfflineIsNoMessage, ConnectorAssumption DEF Numbers

LEMMA OldestTaken ==
    ASSUME NEW q \in Seq(Message), q # << >>
    PROVE  /\ Tail(q) \in Seq(Message) /\ Len(Tail(q)) = Len(q) - 1
           /\ \A i \in 1 .. Len(Tail(q)) : i + 1 \in 1 .. Len(q) /\ Tail(q)[i] = q[i + 1]
           /\ 1 \in 1 .. Len(q) /\ Head(q) = q[1]
OBVIOUS

\* Taking the oldest message moves the lower bound to it.
LEMMA TakingKeepsOrder ==
    ASSUME NEW q \in Seq(Message), q # << >>, NEW lo, NEW hi, Ascending(q, lo, hi)
    PROVE  Ascending(Tail(q), q[1].n, hi) /\ lo < q[1].n /\ q[1].n <= hi
<1>1. ASSUME NEW i \in 1 .. Len(Tail(q)) PROVE q[1].n < Tail(q)[i].n /\ Tail(q)[i].n <= hi
  <2>1. i + 1 \in 1 .. Len(q) /\ Tail(q)[i] = q[i + 1] /\ 1 < i + 1 /\ 1 \in 1 .. Len(q)
    BY OldestTaken
  <2> QED BY <2>1 DEF Ascending
<1>2. ASSUME NEW i \in 1 .. Len(Tail(q)), NEW j \in 1 .. Len(Tail(q)), i < j
      PROVE  Tail(q)[i].n < Tail(q)[j].n
  <2>1. /\ i + 1 \in 1 .. Len(q) /\ Tail(q)[i] = q[i + 1]
        /\ j + 1 \in 1 .. Len(q) /\ Tail(q)[j] = q[j + 1] /\ i + 1 < j + 1
    BY <1>2, OldestTaken
  <2> QED BY <2>1 DEF Ascending
<1> QED BY <1>1, <1>2, OldestTaken DEF Ascending

\* A newer message at the end keeps the order.
LEMMA AppendKeepsOrder ==
    ASSUME NEW q \in Seq(Message), NEW m \in Message, NEW lo \in Nat, NEW hi \in Nat,
           Ascending(q, lo, hi), lo < m.n, m.n <= hi,
           \A i \in 1 .. Len(q) : q[i].n < m.n
    PROVE  Ascending(Append(q, m), lo, hi)
<1> DEFINE a == Append(q, m)
<1>1. /\ a \in Seq(Message) /\ Len(a) = Len(q) + 1 /\ Len(q) \in Nat
      /\ a[Len(q) + 1] = m /\ \A i \in 1 .. Len(q) : a[i] = q[i]
  OBVIOUS
<1> HIDE DEF a
<1>2. ASSUME NEW i \in 1 .. Len(a) PROVE lo < a[i].n /\ a[i].n <= hi
  <2>1. CASE i \in 1 .. Len(q)
    BY <1>1, <2>1 DEF Ascending
  <2>2. CASE i = Len(q) + 1
    BY <1>1, <2>2
  <2> QED BY <1>1, <2>1, <2>2
<1>3. ASSUME NEW i \in 1 .. Len(a), NEW j \in 1 .. Len(a), i < j PROVE a[i].n < a[j].n
  <2>1. i \in 1 .. Len(q)
    BY <1>1, <1>3
  <2>2. CASE j \in 1 .. Len(q)
    BY <1>1, <1>3, <2>1, <2>2 DEF Ascending
  <2>3. CASE j = Len(q) + 1
    BY <1>1, <2>1, <2>3
  <2> QED BY <1>1, <2>2, <2>3
<1> QED BY <1>2, <1>3 DEF Ascending, a

-----------------------------------------------------------------------------
(* The initial states *)

LEMMA InitRelayInv == Init => RelayInv
<1> SUFFICES ASSUME Init PROVE RelayInv
  OBVIOUS
<1>1. << >> \in Seq(Message) /\ Len(<< >>) = 0 /\ 0 \in 0 .. MaxMessages /\ 0 \in 0 .. MaxConns
      /\ 0 \notin Conns
  BY ConnectorAssumption DEF Conns
<1>2. TypeOK
  <2>1. ConnectorTypeOK
    <3>1. /\ running = FALSE /\ task = "off" /\ queue = << >>
          /\ link = 0 /\ published = 0
      BY DEF Init, ConnectorInit
    <3>2. Len(queue) <= QueueSize
      BY <1>1, <3>1, ConnectorAssumption
    <3> QED BY <1>1, <3>1, <3>2 DEF ConnectorTypeOK
  <2>2. [k \in Conns |-> 0] \in [Conns -> 0 .. MaxMessages]
    BY <1>1
  <2>3. got \in [Clients -> [Conns -> 0 .. MaxMessages]]
        /\ since \in [Clients -> [Conns -> 0 .. MaxMessages]]
    BY <2>2 DEF Init
  <2> QED BY <1>1, <2>1, <2>3 DEF Init, TypeOK
<1>3. DialledInOrder /\ LinkIsLast
  BY <1>1 DEF Init, ConnectorInit, DialledInOrder, LinkIsLast
<1>4. MessagesInOrder
  BY <1>1 DEF Init, ConnectorInit, MessagesInOrder, QueueInOrder, WireInOrder,
              WireBeforeQueue, WireBefore, Ascending
<1>5. ASSUME NEW k \in Conns PROVE Broadcast(k)
  BY DEF Init, Broadcast
<1>6. NoGhosts /\ NothingWithheld /\ OfflineWillBeTold /\ OfflineWasStored
  BY DEF Init, NoGhosts, NoGhostAgent, NoGhostSubscriber, NothingWithheld,
         OfflineWillBeTold, OfflineWasStored
<1> QED BY <1>2, <1>3, <1>4, <1>5, <1>6 DEF RelayInv

-----------------------------------------------------------------------------
(* Types *)

\* The connector's own part of a step
LEMMA ConnectorTyped ==
    ASSUME ConnectorTypeOK,
           \/ run \/ stop \/ Wakes \/ enqueue_message \/ Rejected
           \/ SendStarts \/ SendRaises \/ SendBreaks \/ SendReturns
           \/ Cancelled \/ ConnectionFails
           \/ \E k \in Conns : Dials(k) \/ Connected(k)
    PROVE  ConnectorTypeOK'
<1>1. CASE enqueue_message
  <2>1. MessageNumber(published + 1) \in Message /\ published + 1 \in 0 .. MaxMessages
    BY <1>1, ConnectorAssumption, MessageTyped DEF enqueue_message, ConnectorTypeOK, Numbers
  <2>2. queue' \in Seq(Message) /\ Len(queue') <= QueueSize
    BY <1>1, <2>1, ConnectorAssumption DEF enqueue_message, Queued, ConnectorTypeOK
  <2> QED BY <1>1, <2>1, <2>2 DEF enqueue_message, ConnectorTypeOK
<1>2. CASE SendStarts \/ SendRaises
  <2>1. queue \in Seq(Message) /\ queue # << >> /\ queue' = Tail(queue)
    BY <1>2 DEF SendStarts, SendRaises, Rest, ConnectorTypeOK
  <2>2. queue' \in Seq(Message) /\ Len(queue') <= QueueSize
    BY <2>1, OldestTaken, Elements, ConnectorAssumption DEF ConnectorTypeOK
  <2>3. 0 \in 0 .. MaxConns
    BY ConnectorAssumption
  <2> QED BY <1>2, <2>2, <2>3 DEF SendStarts, SendRaises, Recovers, ConnectorTypeOK
<1>3. CASE run \/ stop \/ Wakes \/ Rejected
  BY <1>3 DEF run, stop, Wakes, Rejected, ConnectorTypeOK
<1>4. CASE SendBreaks \/ SendReturns \/ Cancelled \/ ConnectionFails
  <2>1. 0 \in 0 .. MaxConns
    BY ConnectorAssumption
  <2> QED BY <1>4, <2>1 DEF SendBreaks, SendReturns, Cancelled, ConnectionFails, Recovers,
                            ConnectorTypeOK
<1>5. ASSUME NEW k \in Conns, Dials(k) \/ Connected(k) PROVE ConnectorTypeOK'
  <2>1. 0 \in 0 .. MaxConns /\ k \in 0 .. MaxConns
    BY ConnectorAssumption DEF Conns
  <2> QED BY <1>5, <2>1 DEF Dials, Connected, ConnectorTypeOK
<1> QED BY <1>1, <1>2, <1>3, <1>4, <1>5

LEMMA ConnectorStepTyped ==
    ASSUME TypeOK, ConnectorAlone \/ ConnectorSends \/ ConnectorNotices \/ ConnectorGoesOn
                   \/ Refused \/ DeviceRevoked
    PROVE  TypeOK'
<1>1. CASE ConnectorSends
  <2>1. ConnectorTypeOK'
    BY <1>1, ConnectorTyped DEF ConnectorSends, TypeOK
  <2>2. link \in Conns /\ queue \in Seq(Message) /\ queue # << >>
    BY <1>1 DEF ConnectorSends, SendStarts, TypeOK, ConnectorTypeOK
  <2>3. Head(queue) \in Message
    BY <2>2, OldestTaken, Elements
  <2>4. wire' \in [Conns -> Seq(Message)]
    <3>1. Append(wire[link], Head(queue)) \in Seq(Message)
      BY <2>2, <2>3 DEF TypeOK
    <3> QED BY <1>1, <3>1 DEF ConnectorSends, TypeOK
  <2> QED BY <1>1, <2>1, <2>4 DEF ConnectorSends, TypeOK
<1>2. CASE ConnectorAlone \/ ConnectorNotices \/ Refused
  <2>1. ConnectorTypeOK'
    BY <1>2, ConnectorTyped DEF ConnectorAlone, ConnectorNotices, Refused, TypeOK
  <2> QED BY <1>2, <2>1 DEF ConnectorAlone, ConnectorNotices, Refused, TypeOK, relayVars
<1>3. CASE ConnectorGoesOn
  <2>1. ConnectorTypeOK'
    BY <1>3, ConnectorTyped DEF ConnectorGoesOn, TypeOK
  <2> QED BY <1>3, <2>1 DEF ConnectorGoesOn, LinkClosed, TypeOK
<1>4. CASE DeviceRevoked
  BY <1>4 DEF DeviceRevoked, TypeOK, ConnectorTypeOK, connectorVars
<1> QED BY <1>1, <1>2, <1>3, <1>4

LEMMA ConnectionStepTyped ==
    ASSUME TypeOK, NEW k \in Conns,
           Checked(k) \/ Accepted(k) \/ AcceptFails(k) \/ Breaks(k)
    PROVE  TypeOK'
<1>1. CASE Checked(k)
  <2>1. ConnectorTypeOK'
    BY <1>1, ConnectorTyped DEF Checked, TypeOK
  <2> QED BY <1>1, <2>1 DEF Checked, TypeOK
<1>2. CASE Accepted(k)
  <2>1. ConnectorTypeOK' /\ open' \in SUBSET Conns
    <3>1. CASE Connected(k) /\ LinkClosed
      BY <3>1, ConnectorTyped DEF TypeOK, LinkClosed
    <3>2. CASE UNCHANGED <<connectorVars, open>>
      BY <3>2 DEF TypeOK, ConnectorTypeOK, connectorVars
    <3> QED BY <1>2, <3>1, <3>2 DEF Accepted
  <2>2. agent' \in 0 .. MaxConns
    BY <1>2, ConnectorAssumption DEF Accepted, Conns
  <2> QED BY <1>2, <2>1, <2>2 DEF Accepted, TypeOK
<1>3. CASE AcceptFails(k)
  BY <1>3 DEF AcceptFails, TypeOK, ConnectorTypeOK, connectorVars
<1>4. CASE Breaks(k)
  <2>1. ASSUME NEW i \in 0 .. Len(wire[k]) PROVE SubSeq(wire[k], 1, i) \in Seq(Message)
    BY <2>1 DEF TypeOK
  <2>2. wire' \in [Conns -> Seq(Message)]
    BY <1>4, <2>1 DEF Breaks, TypeOK
  <2> QED BY <1>4, <2>2 DEF Breaks, TypeOK, ConnectorTypeOK, connectorVars
<1> QED BY <1>1, <1>2, <1>3, <1>4

LEMMA EndpointStepTyped ==
    ASSUME TypeOK, NEW k \in Conns, AgentStep(k)
    PROVE  TypeOK'
<1>1. CASE Receives(k)
  <2> DEFINE m == Head(wire[k])
  <2>1. wire[k] \in Seq(Message) /\ wire[k] # << >>
    BY <1>1 DEF Receives, TypeOK
  <2>2. m \in Message /\ m.n \in 0 .. MaxMessages
    BY <2>1, OldestTaken, Elements, ConnectorAssumption
  <2>3. Tail(wire[k]) \in Seq(Message)
    BY <2>1, OldestTaken
  <2>4. /\ wire' = [wire EXCEPT ![k] = Tail(wire[k])]
        /\ relayed' = [relayed EXCEPT ![k] = m.n]
        /\ latest' = IF m.type = "tick" THEN m.n ELSE latest
        /\ sending' = [sending EXCEPT ![k] = IF subscribers = {} THEN Offline ELSE m]
        /\ todo' = [todo EXCEPT ![k] = subscribers]
        /\ endpoint' \in {endpoint, [endpoint EXCEPT ![k] = "relaying"]}
        /\ online' \in {TRUE, online}
    BY <1>1 DEF Receives
  <2> HIDE DEF m
  <2>5. ConnectorTypeOK'
    BY <1>1 DEF Receives, TypeOK, ConnectorTypeOK, connectorVars
  <2>6. /\ wire' \in [Conns -> Seq(Message)]
        /\ relayed' \in [Conns -> 0 .. MaxMessages]
        /\ latest' \in 0 .. MaxMessages
    BY <2>2, <2>3, <2>4 DEF TypeOK
  <2>7. /\ sending' \in [Conns -> Message \cup {Offline}]
        /\ todo' \in [Conns -> SUBSET Clients]
        /\ endpoint' \in [Conns -> {"none", "checked", "refused", "streaming", "relaying",
                                    "farewell", "done"}]
        /\ online' \in BOOLEAN
    BY <2>2, <2>4 DEF TypeOK
  <2> QED BY <1>1, <2>5, <2>6, <2>7 DEF Receives, TypeOK
<1>2. CASE AgentGone(k)
  <2>1. 0 \in 0 .. MaxConns
    BY ConnectorAssumption
  <2> QED BY <1>2, <2>1 DEF AgentGone, LastWord, AgentUnregistered, Told, TypeOK,
                            ConnectorTypeOK, connectorVars
<1>3. ASSUME NEW c \in Clients, SendsTo(k, c) PROVE TypeOK'
  <2>1. sending[k].n \in 0 .. MaxMessages
    BY OfflineIsNoMessage, ConnectorAssumption DEF TypeOK, Numbers
  <2>2. got' \in [Clients -> [Conns -> 0 .. MaxMessages]]
    <3>1. got \in [Clients -> [Conns -> 0 .. MaxMessages]]
      BY DEF TypeOK
    <3>2. got' = got \/ got' = [got EXCEPT ![c] = [got[c] EXCEPT ![k] =
                                   IF sending[k] = Offline THEN got[c][k] ELSE sending[k].n]]
      BY <1>3, <3>1 DEF SendsTo
    <3>3. got[c] \in [Conns -> 0 .. MaxMessages]
      BY <3>1
    <3>4. [got[c] EXCEPT ![k] = IF sending[k] = Offline THEN got[c][k] ELSE sending[k].n]
              \in [Conns -> 0 .. MaxMessages]
      BY <2>1, <3>3
    <3> QED BY <3>1, <3>2, <3>4
  <2>3. told' \in [Clients -> {"nothing", "cached", "live", "offline"}]
    BY <1>3 DEF SendsTo, TypeOK
  <2>4. todo' \in [Conns -> SUBSET Clients] /\ dead' \in [Conns -> SUBSET Clients]
        /\ subscribers' \in SUBSET Clients
    BY <1>3 DEF SendsTo, Undelivered, TypeOK
  <2>5. /\ sending' \in [Conns -> Message \cup {Offline}]
        /\ endpoint' \in [Conns -> {"none", "checked", "refused", "streaming", "relaying",
                                    "farewell", "done"}]
        /\ online' \in BOOLEAN
    BY <1>3 DEF SendsTo, AfterBroadcast, TypeOK
  <2> QED BY <1>3, <2>2, <2>3, <2>4, <2>5 DEF SendsTo, TypeOK, ConnectorTypeOK, connectorVars
<1> QED BY <1>1, <1>2, <1>3 DEF AgentStep

LEMMA ClientStepTyped ==
    ASSUME TypeOK, NEW c \in Clients,
           ClientChecked(c) \/ ClientRegisters(c) \/ ClientCloses(c) \/ ClientUnregisters(c)
    PROVE  TypeOK'
<1>1. ConnectorTypeOK'
  BY DEF ClientChecked, ClientRegisters, ClientCloses, ClientUnregisters, TypeOK,
         ConnectorTypeOK, connectorVars
<1>2. [k \in Conns |-> 0] \in [Conns -> 0 .. MaxMessages]
  BY ConnectorAssumption
<1>3. CASE ClientChecked(c) \/ ClientUnregisters(c)
  BY <1>1, <1>3 DEF ClientChecked, ClientUnregisters, SubscribersWithout, TypeOK
<1>4. CASE ClientRegisters(c)
  BY <1>1, <1>4 DEF ClientRegisters, TypeOK
<1>5. CASE ClientCloses(c)
  BY <1>1, <1>2, <1>5 DEF ClientCloses, TypeOK
<1> QED BY <1>3, <1>4, <1>5

LEMMA TypePreserved == TypeOK /\ [Next]_vars => TypeOK'
<1> SUFFICES ASSUME TypeOK, [Next]_vars PROVE TypeOK'
  OBVIOUS
<1>1. CASE UNCHANGED vars
  BY <1>1 DEF vars, relayVars, connectorVars, TypeOK, ConnectorTypeOK
<1> QED BY <1>1, ConnectorStepTyped, ConnectionStepTyped, EndpointStepTyped,
           ClientStepTyped DEF Next

-----------------------------------------------------------------------------
(* Connections in their order *)

\* Steps that dial nothing keep the order.
LEMMA DialledKept ==
    ASSUME DialledInOrder, LinkIsLast, link' \in {link, 0}, open' \subseteq open,
           \A k \in Conns : endpoint'[k] = "none" <=> endpoint[k] = "none",
           \A k \in Conns : endpoint[k] = "none" =>
               wire'[k] = wire[k] /\ relayed'[k] = relayed[k]
    PROVE  DialledInOrder' /\ LinkIsLast'
<1>1. 0 \notin Conns
  BY DEF Conns
<1>2. DialledInOrder'
  BY <1>1 DEF DialledInOrder
<1>3. LinkIsLast'
  BY DEF LinkIsLast
<1> QED BY <1>2, <1>3

\* An open connection, and the one in use, was dialled.
LEMMA OpenWasDialled ==
    ASSUME DialledInOrder, NEW k \in Conns, k \in open \/ link = k
    PROVE  endpoint[k] # "none"
BY DEF DialledInOrder

LEMMA DialledPreserved ==
    ASSUME TypeOK, DialledInOrder, LinkIsLast, [Next]_vars
    PROVE  DialledInOrder' /\ LinkIsLast'
<1>1. ASSUME NEW k \in Conns, Checked(k) PROVE DialledInOrder' /\ LinkIsLast'
  <2>1. /\ endpoint[k] = "none" /\ \A j \in Conns : endpoint[j] = "none" => k <= j
        /\ link' = k /\ open' = open \cup {k} /\ wire' = wire /\ relayed' = relayed
        /\ \A j \in Conns : endpoint'[j] = IF j = k THEN "checked" ELSE endpoint[j]
    BY <1>1 DEF Checked, Dials, TypeOK
  <2>2. DialledInOrder'
    BY <2>1, ConnectorAssumption DEF DialledInOrder, Conns
  <2>3. \A j \in Conns : k < j => endpoint[j] = "none" /\ j # k
    BY <2>1 DEF DialledInOrder, Conns
  <2>4. LinkIsLast'
    BY <2>1, <2>3 DEF LinkIsLast
  <2> QED BY <2>2, <2>4
<1>2. CASE ConnectorSends
  <2>1. /\ link' = link /\ open' = open /\ endpoint' = endpoint /\ relayed' = relayed
        /\ link \in Conns /\ link \in open
        /\ \A k \in Conns : k # link => wire'[k] = wire[k]
    BY <1>2 DEF ConnectorSends, SendStarts, TypeOK
  <2>2. endpoint[link] # "none"
    BY <2>1, OpenWasDialled
  <2> QED BY <2>1, <2>2, DialledKept
<1>3. CASE ConnectorAlone \/ ConnectorNotices \/ ConnectorGoesOn \/ Refused
  <2>1. link' \in {link, 0}
    BY <1>3 DEF ConnectorAlone, ConnectorNotices, ConnectorGoesOn, Refused, run, stop,
                Wakes, enqueue_message, SendRaises, SendBreaks, Recovers, SendReturns,
                Cancelled, ConnectionFails, Rejected
  <2>2. open' \subseteq open /\ endpoint' = endpoint /\ wire' = wire /\ relayed' = relayed
    BY <1>3 DEF ConnectorAlone, ConnectorNotices, ConnectorGoesOn, Refused, LinkClosed,
                relayVars
  <2> QED BY <2>1, <2>2, DialledKept
<1>4. ASSUME NEW k \in Conns, Accepted(k) PROVE DialledInOrder' /\ LinkIsLast'
  <2>1. /\ endpoint[k] = "checked" /\ wire' = wire /\ relayed' = relayed
        /\ \A j \in Conns : endpoint'[j] = IF j = k THEN "streaming" ELSE endpoint[j]
    BY <1>4 DEF Accepted, TypeOK
  <2>2. link' \in {link, 0} /\ open' \subseteq open
    BY <1>4 DEF Accepted, Connected, LinkClosed, connectorVars
  <2> QED BY <2>1, <2>2, DialledKept
<1>5. ASSUME NEW k \in Conns, AcceptFails(k) \/ AgentGone(k)
      PROVE  DialledInOrder' /\ LinkIsLast'
  <2>1. /\ link' = link /\ open' = open /\ wire' = wire /\ relayed' = relayed
        /\ \A j \in Conns : endpoint'[j] = "none" <=> endpoint[j] = "none"
    BY <1>5 DEF AcceptFails, AgentGone, TypeOK, connectorVars
  <2> QED BY <2>1, DialledKept
<1>6. ASSUME NEW k \in Conns, Breaks(k) PROVE DialledInOrder' /\ LinkIsLast'
  <2>1. /\ link' = link /\ open' \subseteq open /\ endpoint' = endpoint
        /\ relayed' = relayed /\ k \in open /\ \A j \in Conns : j # k => wire'[j] = wire[j]
    BY <1>6 DEF Breaks, TypeOK, connectorVars
  <2> QED BY <2>1, OpenWasDialled, DialledKept
<1>7. ASSUME NEW k \in Conns, Receives(k) PROVE DialledInOrder' /\ LinkIsLast'
  <2>1. /\ link' = link /\ open' = open /\ endpoint[k] = "streaming"
        /\ \A j \in Conns : j # k => wire'[j] = wire[j] /\ relayed'[j] = relayed[j]
        /\ \A j \in Conns : endpoint'[j] = "none" <=> endpoint[j] = "none"
    BY <1>7 DEF Receives, TypeOK, connectorVars
  <2> QED BY <2>1, DialledKept
<1>8. ASSUME NEW k \in Conns, NEW c \in Clients, SendsTo(k, c)
      PROVE  DialledInOrder' /\ LinkIsLast'
  <2>1. /\ link' = link /\ open' = open /\ wire' = wire /\ relayed' = relayed
        /\ \A j \in Conns : endpoint'[j] = "none" <=> endpoint[j] = "none"
    BY <1>8 DEF SendsTo, AfterBroadcast, TypeOK, connectorVars
  <2> QED BY <2>1, DialledKept
<1>9. ASSUME \/ DeviceRevoked \/ UNCHANGED vars
             \/ \E c \in Clients : \/ ClientChecked(c) \/ ClientRegisters(c)
                                   \/ ClientCloses(c) \/ ClientUnregisters(c)
      PROVE  DialledInOrder' /\ LinkIsLast'
  <2>1. /\ link' = link /\ open' = open /\ wire' = wire /\ relayed' = relayed
        /\ endpoint' = endpoint
    BY <1>9 DEF DeviceRevoked, ClientChecked, ClientRegisters, ClientCloses,
                ClientUnregisters, vars, relayVars, connectorVars
  <2> QED BY <2>1, DialledKept
<1> QED BY <1>1, <1>2, <1>3, <1>4, <1>5, <1>6, <1>7, <1>8, <1>9 DEF Next, AgentStep

-----------------------------------------------------------------------------
(* Messages in their order *)

\* What connection k has brought, brings, and what waits for a later one
LEMMA NumbersTyped ==
    ASSUME TypeOK, NEW k \in Conns
    PROVE  /\ wire[k] \in Seq(Message) /\ Len(wire[k]) \in Nat
           /\ \A i \in 1 .. Len(wire[k]) : wire[k][i] \in Message /\ wire[k][i].n \in Nat
           /\ queue \in Seq(Message) /\ Len(queue) \in Nat
           /\ \A i \in 1 .. Len(queue) : queue[i] \in Message /\ queue[i].n \in Nat
           /\ relayed[k] \in Nat /\ published \in Nat
BY Elements, ConnectorAssumption DEF TypeOK, ConnectorTypeOK

\* The cycle's message is newer than all that waits.
LEMMA EnqueueKeepsOrder ==
    ASSUME TypeOK, MessagesInOrder, enqueue_message, UNCHANGED <<wire, relayed>>
    PROVE  MessagesInOrder'
<1> DEFINE m == MessageNumber(published + 1)
<1>1. /\ published' = published + 1 /\ m \in Message /\ m.n = published + 1
      /\ queue' \in {queue, Append(queue, m)}
  <2>1. published + 1 \in Numbers
    BY ConnectorAssumption DEF enqueue_message, TypeOK, ConnectorTypeOK, Numbers
  <2> QED BY <2>1, MessageTyped DEF enqueue_message, Queued
<1> HIDE DEF m
<1>2. queue \in Seq(Message) /\ Len(queue) \in Nat /\ published \in Nat
      /\ \A i \in 1 .. Len(queue) : queue[i].n \in Nat
  BY Elements, ConnectorAssumption DEF TypeOK, ConnectorTypeOK
<1>3. Ascending(queue, 0, published + 1)
  BY <1>2 DEF MessagesInOrder, QueueInOrder, Ascending
<1>4. QueueInOrder'
  <2>1. \A i \in 1 .. Len(queue) : queue[i].n < m.n
    BY <1>1, <1>2 DEF MessagesInOrder, QueueInOrder, Ascending
  <2>2. Ascending(Append(queue, m), 0, published + 1)
    BY <1>1, <1>2, <1>3, <2>1, AppendKeepsOrder
  <2> QED BY <1>1, <1>3, <2>2 DEF QueueInOrder
<1>5. ASSUME NEW k \in Conns PROVE WireInOrder(k)' /\ WireBeforeQueue(k)'
  <2>1. WireInOrder(k) /\ WireBeforeQueue(k)
    BY DEF MessagesInOrder
  <2>2. relayed[k] <= published + 1 /\ Older(k, published + 1)
    BY <1>2, <2>1, NumbersTyped DEF WireInOrder, Ascending, Older
  <2>3. \A i \in 1 .. Len(wire[k]) : wire[k][i].n <= published + 1
    BY <1>2, <2>1, NumbersTyped DEF WireInOrder, Ascending
  <2>4. WireInOrder(k)'
    BY <1>1, <2>1, <2>2, <2>3 DEF WireInOrder, Ascending
  <2>5. ASSUME NEW i \in 1 .. Len(queue') PROVE Older(k, queue'[i].n)
    <3>1. CASE i \in 1 .. Len(queue)
      BY <1>1, <1>2, <2>1, <3>1 DEF WireBeforeQueue
    <3>2. CASE i = Len(queue) + 1
      BY <1>1, <1>2, <2>2, <2>5, <3>2
    <3> QED BY <1>1, <1>2, <2>5, <3>1, <3>2
  <2> QED BY <2>4, <2>5 DEF WireBeforeQueue, Older
<1>6. \A j, k \in Conns : j < k => WireBefore(j, k)'
  BY DEF MessagesInOrder, WireBefore, Older
<1> QED BY <1>4, <1>5, <1>6 DEF MessagesInOrder

\* The queue loses its oldest message: to a socket that raises.
LEMMA DropKeepsOrder ==
    ASSUME TypeOK, MessagesInOrder, queue # << >>, queue' = Tail(queue),
           UNCHANGED <<wire, relayed, published>>
    PROVE  MessagesInOrder'
<1>1. queue \in Seq(Message)
  BY DEF TypeOK, ConnectorTypeOK
<1>2. QueueInOrder'
  <2>1. Ascending(Tail(queue), queue[1].n, published) /\ 0 < queue[1].n /\ queue[1].n \in Nat
    BY <1>1, TakingKeepsOrder, OldestTaken, Elements DEF MessagesInOrder, QueueInOrder
  <2>2. \A i \in 1 .. Len(Tail(queue)) : Tail(queue)[i].n > 0
    BY <1>1, OldestTaken, Elements
  <2> QED BY <2>1, <2>2 DEF QueueInOrder, Ascending
<1>3. ASSUME NEW k \in Conns PROVE WireInOrder(k)' /\ WireBeforeQueue(k)'
  <2>1. WireBeforeQueue(k)'
    BY <1>1, OldestTaken DEF MessagesInOrder, WireBeforeQueue, Older
  <2> QED BY <2>1 DEF MessagesInOrder, WireInOrder
<1> QED BY <1>2, <1>3 DEF MessagesInOrder, WireBefore, Older

\* The oldest message of the queue goes into the connection in use, the last one.
LEMMA SendKeepsOrder ==
    ASSUME TypeOK, DialledInOrder, LinkIsLast, MessagesInOrder, ConnectorSends
    PROVE  MessagesInOrder'
<1> DEFINE m == queue[1]
<1>1. /\ link \in Conns /\ link # 0 /\ queue \in Seq(Message) /\ queue # << >>
      /\ queue' = Tail(queue)
      /\ published' = published /\ relayed' = relayed
      /\ wire' = [wire EXCEPT ![link] = Append(wire[link], m)]
  BY OldestTaken DEF ConnectorSends, SendStarts, Rest, TypeOK, ConnectorTypeOK, Conns
<1>2. /\ m \in Message /\ m.n \in Nat /\ m.n <= published
      /\ \A i \in 1 .. Len(Tail(queue)) : /\ i + 1 \in 1 .. Len(queue)
                                          /\ Tail(queue)[i] = queue[i + 1]
                                          /\ m.n < Tail(queue)[i].n
      /\ QueueInOrder'
  <2>1. Ascending(Tail(queue), m.n, published) /\ 0 < m.n /\ m.n <= published
    BY <1>1, TakingKeepsOrder DEF MessagesInOrder, QueueInOrder
  <2>2. m \in Message /\ m.n \in Nat /\ \A i \in 1 .. Len(Tail(queue)) : Tail(queue)[i].n > 0
    BY <1>1, OldestTaken, Elements
  <2> QED BY <1>1, <2>1, <2>2, OldestTaken DEF QueueInOrder, Ascending
<1>3. \A k \in Conns : Older(k, m.n)
  BY <1>1, OldestTaken DEF MessagesInOrder, WireBeforeQueue
<1> DEFINE w == Append(wire[link], m)
<1>4. /\ wire[link] \in Seq(Message) /\ Len(w) = Len(wire[link]) + 1
      /\ Len(wire[link]) \in Nat /\ w[Len(wire[link]) + 1] = m
      /\ \A i \in 1 .. Len(wire[link]) : w[i] = wire[link][i]
      /\ wire'[link] = w /\ \A k \in Conns : k # link => wire'[k] = wire[k]
  BY <1>1, <1>2 DEF TypeOK
<1> HIDE DEF w, m
<1>5. ASSUME NEW k \in Conns PROVE WireInOrder(k)'
  <2>1. Ascending(wire[k], relayed[k], published) /\ relayed[k] <= published
    BY DEF MessagesInOrder, WireInOrder
  <2>2. CASE k = link
    <3>1. Ascending(w, relayed[k], published)
      BY <1>1, <1>2, <1>3, <2>1, <2>2, AppendKeepsOrder, NumbersTyped DEF Older, w
    <3> QED BY <1>1, <1>4, <2>1, <2>2, <3>1 DEF WireInOrder
  <2>3. CASE k # link
    BY <1>1, <1>4, <2>1, <2>3 DEF WireInOrder
  <2> QED BY <2>2, <2>3
<1>6. ASSUME NEW k \in Conns PROVE WireBeforeQueue(k)'
  <2>1. ASSUME NEW n, Older(k, n), m.n < n
        PROVE  relayed'[k] < n /\ \A i \in 1 .. Len(wire'[k]) : wire'[k][i].n < n
    <3>1. CASE k # link
      BY <1>1, <1>4, <2>1, <3>1 DEF Older
    <3>2. CASE k = link
      BY <1>1, <1>4, <2>1, <3>2 DEF Older
    <3> QED BY <3>1, <3>2
  <2>2. \A i \in 1 .. Len(queue') : Older(k, queue'[i].n) /\ m.n < queue'[i].n
    BY <1>1, <1>2 DEF MessagesInOrder, WireBeforeQueue
  <2> QED BY <2>1, <2>2 DEF WireBeforeQueue, Older
<1>7. ASSUME NEW j \in Conns, NEW k \in Conns, j < k PROVE WireBefore(j, k)'
  <2>1. WireBefore(j, k)
    BY <1>7 DEF MessagesInOrder
  <2>2. CASE j # link /\ k # link
    BY <1>1, <1>4, <2>1, <2>2 DEF WireBefore, Older
  <2>3. CASE k = link
    BY <1>1, <1>3, <1>4, <1>7, <2>1, <2>3 DEF WireBefore, Older, Conns
  <2>4. CASE j = link
    BY <1>1, <1>4, <1>7, <2>4 DEF LinkIsLast, DialledInOrder, WireBefore, Conns
  <2> QED BY <2>2, <2>3, <2>4
<1> QED BY <1>2, <1>5, <1>6, <1>7 DEF MessagesInOrder

\* A prefix of what was on its way arrives after all.
LEMMA BreakKeepsOrder ==
    ASSUME TypeOK, MessagesInOrder, NEW k \in Conns, NEW i \in 0 .. Len(wire[k]),
           wire' = [wire EXCEPT ![k] = SubSeq(wire[k], 1, i)],
           UNCHANGED <<queue, relayed, published>>
    PROVE  MessagesInOrder'
<1> DEFINE w == SubSeq(wire[k], 1, i)
<1>1. /\ Len(w) \in 0 .. Len(wire[k]) /\ wire'[k] = w /\ Len(wire[k]) \in Nat
      /\ \A l \in 1 .. Len(w) : l \in 1 .. Len(wire[k]) /\ w[l] = wire[k][l]
      /\ \A j \in Conns : j # k => wire'[j] = wire[j]
  <2>1. wire[k] \in Seq(Message) /\ Len(wire[k]) \in Nat /\ i \in Nat
    BY NumbersTyped
  <2>2. Len(w) = i /\ \A l \in 1 .. i : w[l] = wire[k][l]
    BY <2>1
  <2> QED BY <2>1, <2>2 DEF TypeOK
<1> HIDE DEF w
<1>2. ASSUME NEW j \in Conns
      PROVE  /\ Len(wire'[j]) \in Nat
             /\ \A l \in 1 .. Len(wire'[j]) : l \in 1 .. Len(wire[j]) /\ wire'[j][l] = wire[j][l]
  <2>1. CASE j = k
    BY <1>1, <2>1
  <2>2. CASE j # k
    BY <1>1, <2>2, NumbersTyped
  <2> QED BY <2>1, <2>2
<1>3. QueueInOrder'
  BY DEF MessagesInOrder, QueueInOrder
<1>4. ASSUME NEW j \in Conns PROVE WireInOrder(j)' /\ WireBeforeQueue(j)'
  BY <1>2 DEF MessagesInOrder, WireInOrder, WireBeforeQueue, Ascending, Older
<1>5. ASSUME NEW j \in Conns, NEW l \in Conns, j < l PROVE WireBefore(j, l)'
  BY <1>2, <1>5 DEF MessagesInOrder, WireBefore, Older
<1> QED BY <1>3, <1>4, <1>5 DEF MessagesInOrder

\* An endpoint receives the oldest message of its connection.
LEMMA ReceiveKeepsOrder ==
    ASSUME TypeOK, MessagesInOrder, NEW k \in Conns, Receives(k)
    PROVE  MessagesInOrder' /\ relayed[k] < relayed'[k]
<1> DEFINE m == Head(wire[k])
<1>1. /\ wire[k] \in Seq(Message) /\ wire[k] # << >>
      /\ wire'[k] = Tail(wire[k]) /\ \A j \in Conns : j # k => wire'[j] = wire[j]
      /\ relayed'[k] = m.n /\ \A j \in Conns : j # k => relayed'[j] = relayed[j]
      /\ queue' = queue /\ published' = published
  BY OldestTaken DEF Receives, TypeOK, connectorVars
<1>2. /\ 1 \in 1 .. Len(wire[k]) /\ m.n \in Nat
      /\ \A i \in 1 .. Len(Tail(wire[k])) : /\ i + 1 \in 1 .. Len(wire[k])
                                            /\ Tail(wire[k])[i] = wire[k][i + 1]
  BY <1>1, OldestTaken, Elements
<1>3. Ascending(Tail(wire[k]), m.n, published) /\ relayed[k] < m.n /\ m.n <= published
  BY <1>1, TakingKeepsOrder DEF MessagesInOrder, WireInOrder
<1> HIDE DEF m
<1>4. ASSUME NEW j \in Conns, NEW n, Older(j, n)
      PROVE  relayed'[j] < n /\ \A i \in 1 .. Len(wire'[j]) : wire'[j][i].n < n
  <2>1. CASE j = k
    <3>1. m.n < n
      BY <1>2, <1>4, <2>1 DEF Older, m
    <3>2. \A i \in 1 .. Len(Tail(wire[k])) : Tail(wire[k])[i].n < n
      BY <1>2, <1>4, <2>1 DEF Older
    <3> QED BY <1>1, <2>1, <3>1, <3>2
  <2>2. CASE j # k
    BY <1>1, <1>4, <2>2 DEF Older
  <2> QED BY <2>1, <2>2
<1>5. QueueInOrder'
  BY <1>1 DEF MessagesInOrder, QueueInOrder
<1>6. ASSUME NEW j \in Conns PROVE WireInOrder(j)' /\ WireBeforeQueue(j)'
  <2>1. j = k => WireInOrder(j)'
    BY <1>1, <1>3 DEF WireInOrder
  <2>2. j # k => WireInOrder(j)'
    BY <1>1 DEF MessagesInOrder, WireInOrder
  <2>3. WireBeforeQueue(j)'
    BY <1>1, <1>4 DEF MessagesInOrder, WireBeforeQueue, Older
  <2> QED BY <2>1, <2>2, <2>3
<1>7. ASSUME NEW j \in Conns, NEW l \in Conns, j < l PROVE WireBefore(j, l)'
  <2>1. WireBefore(j, l)
    BY <1>7 DEF MessagesInOrder
  <2>2. relayed'[l] # 0 => Older(j, relayed'[l])
    <3>1. CASE l = k
      BY <1>1, <1>2, <2>1, <3>1 DEF WireBefore, m
    <3>2. CASE l # k
      BY <1>1, <2>1, <3>2 DEF WireBefore
    <3> QED BY <3>1, <3>2
  <2>3. \A i \in 1 .. Len(wire'[l]) : Older(j, wire'[l][i].n)
    <3>1. CASE l = k
      BY <1>1, <1>2, <2>1, <3>1 DEF WireBefore
    <3>2. CASE l # k
      BY <1>1, <2>1, <3>2 DEF WireBefore
    <3> QED BY <3>1, <3>2
  <2> QED BY <1>4, <2>2, <2>3 DEF WireBefore, Older
<1> QED BY <1>1, <1>3, <1>5, <1>6, <1>7 DEF MessagesInOrder

LEMMA MessagesPreserved ==
    ASSUME TypeOK, DialledInOrder, LinkIsLast, MessagesInOrder, [Next]_vars
    PROVE  MessagesInOrder'
<1>1. CASE enqueue_message /\ UNCHANGED relayVars
  BY <1>1, EnqueueKeepsOrder DEF relayVars
<1>2. CASE ConnectorSends
  BY <1>2, SendKeepsOrder
<1>3. CASE SendRaises /\ UNCHANGED relayVars
  BY <1>3, DropKeepsOrder DEF SendRaises, Recovers, Rest, relayVars
<1>4. ASSUME NEW k \in Conns, Breaks(k) PROVE MessagesInOrder'
  BY <1>4, BreakKeepsOrder DEF Breaks, connectorVars
<1>5. ASSUME NEW k \in Conns, Receives(k) PROVE MessagesInOrder'
  BY <1>5, ReceiveKeepsOrder
<1>6. ASSUME UNCHANGED <<queue, published, wire, relayed>> PROVE MessagesInOrder'
  BY <1>6 DEF MessagesInOrder, QueueInOrder, WireInOrder, WireBeforeQueue, WireBefore, Older
<1>7. ASSUME NEW k \in Conns, Checked(k) \/ Accepted(k) \/ AcceptFails(k) \/ AgentGone(k)
      PROVE  MessagesInOrder'
  BY <1>6, <1>7 DEF Checked, Dials, Accepted, Connected, AcceptFails, AgentGone,
                    connectorVars
<1>8. ASSUME NEW k \in Conns, NEW c \in Clients, SendsTo(k, c) PROVE MessagesInOrder'
  BY <1>6, <1>8 DEF SendsTo, connectorVars
<1>9. CASE \/ (run \/ stop \/ Wakes) /\ UNCHANGED relayVars
           \/ SendBreaks /\ UNCHANGED relayVars
           \/ ConnectorGoesOn \/ Refused
  BY <1>6, <1>9 DEF run, stop, Wakes, SendBreaks, Recovers, ConnectorGoesOn, SendReturns,
                    Cancelled, ConnectionFails, Refused, Rejected, relayVars
<1>10. CASE \/ DeviceRevoked \/ UNCHANGED vars
            \/ \E c \in Clients : \/ ClientChecked(c) \/ ClientRegisters(c)
                                  \/ ClientCloses(c) \/ ClientUnregisters(c)
  BY <1>6, <1>10 DEF DeviceRevoked, ClientChecked, ClientRegisters, ClientCloses,
                     ClientUnregisters, vars, relayVars, connectorVars
<1> QED BY <1>1, <1>2, <1>3, <1>4, <1>5, <1>7, <1>8, <1>9, <1>10
        DEF Next, AgentStep, ConnectorAlone, ConnectorNotices

-----------------------------------------------------------------------------
(* Broadcasts *)

\* The steps that touch neither endpoints nor broadcasts
Elsewhere ==
    \/ ConnectorAlone \/ ConnectorSends \/ ConnectorNotices \/ ConnectorGoesOn
    \/ Refused \/ DeviceRevoked \/ UNCHANGED vars
    \/ \E k \in Conns : Breaks(k)

LEMMA ElsewhereKept ==
    ASSUME Elsewhere
    PROVE  /\ UNCHANGED <<endpoint, sending, todo, dead, agent, subscribers, client, got,
                          told, relayed, since>>
           /\ online' \in {online, FALSE}
BY DEF Elsewhere, ConnectorAlone, ConnectorSends, ConnectorNotices, ConnectorGoesOn, Refused,
       DeviceRevoked, Breaks, vars, relayVars

\* What is not about connection k leaves its broadcast alone.
LEMMA BroadcastKept ==
    ASSUME NEW k \in Conns, Broadcast(k),
           endpoint'[k] = endpoint[k], todo'[k] = todo[k], sending'[k] = sending[k],
           dead'[k] = dead[k], relayed'[k] = relayed[k],
           \A c \in Clients : got'[c][k] = got[c][k],
           \A c \in Clients : client[c] \in {"in", "closed", "gone"} =>
               client'[c] \in {"in", "closed", "gone"},
           \A c \in Clients : client[c] \in {"closed", "gone"} =>
               client'[c] \in {"closed", "gone"}
    PROVE  Broadcast(k)'
BY DEF Broadcast

\* The states in which an endpoint sends nothing
LEMMA NothingSent ==
    ASSUME TypeOK, NEW k \in Conns, Broadcast(k), endpoint[k] \notin {"relaying", "farewell"}
    PROVE  todo[k] = {} /\ sending[k] = Offline
BY DEF Broadcast

\* An endpoint that begins, or never begins, has nothing to send.
LEMMA BeginningKeepsBroadcasts ==
    ASSUME TypeOK, \A k \in Conns : Broadcast(k), NEW k \in Conns,
           endpoint[k] \in {"none", "checked"},
           endpoint' = [endpoint EXCEPT ![k] = "checked"]
               \/ endpoint' = [endpoint EXCEPT ![k] = "streaming"]
               \/ endpoint' = [endpoint EXCEPT ![k] = "refused"],
           UNCHANGED <<sending, todo, dead, client, got, relayed>>
    PROVE  \A j \in Conns : Broadcast(j)'
<1> SUFFICES ASSUME NEW j \in Conns PROVE Broadcast(j)'
  OBVIOUS
<1>1. CASE j = k
  <2>1. endpoint'[k] \in {"checked", "streaming", "refused"}
    BY DEF TypeOK
  <2>2. todo[k] = {} /\ sending[k] = Offline
    BY NothingSent
  <2> QED BY <1>1, <2>1, <2>2 DEF Broadcast
<1>2. CASE j # k
  BY <1>2, BroadcastKept DEF TypeOK
<1> QED BY <1>1, <1>2

LEMMA ReceiveKeepsBroadcasts ==
    ASSUME TypeOK, MessagesInOrder, NoGhosts, \A j \in Conns : Broadcast(j),
           NEW k \in Conns, Receives(k)
    PROVE  \A j \in Conns : Broadcast(j)'
<1> SUFFICES ASSUME NEW j \in Conns PROVE Broadcast(j)'
  OBVIOUS
<1>1. CASE j = k
  <2> DEFINE m == Head(wire[k])
  <2>1. /\ endpoint[k] = "streaming" /\ relayed'[k] = m.n
        /\ sending'[k] = IF subscribers = {} THEN Offline ELSE m
        /\ todo'[k] = subscribers /\ dead' = dead /\ client' = client /\ got' = got
        /\ endpoint'[k] = IF subscribers = {} THEN "streaming" ELSE "relaying"
    BY DEF Receives, TypeOK
  <2>2. wire[k] \in Seq(Message) /\ wire[k] # << >>
    BY DEF Receives, TypeOK
  <2>3. m \in Message /\ m.n \in Nat
    BY <2>2, OldestTaken, Elements
  <2>4. relayed[k] < m.n /\ relayed[k] \in Nat
    BY <2>1, ReceiveKeepsOrder, NumbersTyped
  <2> HIDE DEF m
  <2>5. ASSUME NEW c \in Clients
        PROVE  /\ got[c][k] < m.n
               /\ c \in subscribers => client[c] \in {"in", "closed"}
               /\ c \in dead[k] => client[c] \in {"closed", "gone"}
    <3>1. got[c][k] <= relayed[k] /\ got[c][k] \in Nat
      BY ConnectorAssumption DEF Broadcast, TypeOK
    <3>2. got[c][k] < m.n
      BY <2>3, <2>4, <3>1
    <3> QED BY <3>2 DEF Broadcast, NoGhosts, NoGhostSubscriber
  <2>6. \A c \in Clients : got[c][k] <= m.n
    BY <2>3, <2>5, ConnectorAssumption DEF TypeOK
  <2> QED BY <1>1, <2>1, <2>3, <2>5, <2>6 DEF Broadcast
<1>2. CASE j # k
  <2>1. /\ endpoint'[j] = endpoint[j] /\ todo'[j] = todo[j] /\ sending'[j] = sending[j]
        /\ dead' = dead /\ relayed'[j] = relayed[j] /\ client' = client /\ got' = got
    BY <1>2 DEF Receives, TypeOK
  <2> QED BY <2>1, BroadcastKept
<1> QED BY <1>1, <1>2

LEMMA FarewellKeepsBroadcasts ==
    ASSUME TypeOK, NoGhosts, \A j \in Conns : Broadcast(j), NEW k \in Conns, AgentGone(k)
    PROVE  \A j \in Conns : Broadcast(j)'
<1> SUFFICES ASSUME NEW j \in Conns PROVE Broadcast(j)'
  OBVIOUS
<1>1. CASE j = k
  <2>1. /\ sending'[k] = Offline /\ todo'[k] = subscribers
        /\ endpoint'[k] = IF subscribers = {} THEN "done" ELSE "farewell"
        /\ UNCHANGED <<dead, client, got, relayed>>
    BY DEF AgentGone, LastWord, Told, TypeOK
  <2>2. \A c \in subscribers : client[c] \in {"in", "closed"}
    BY DEF NoGhosts, NoGhostSubscriber
  <2> QED BY <1>1, <2>1, <2>2 DEF Broadcast
<1>2. CASE j # k
  <2>1. /\ endpoint'[j] = endpoint[j] /\ todo'[j] = todo[j] /\ sending'[j] = sending[j]
        /\ UNCHANGED <<dead, relayed, client, got>>
    BY <1>2 DEF AgentGone, TypeOK
  <2> QED BY <2>1, BroadcastKept
<1> QED BY <1>1, <1>2

\* One send: the effects that the invariants are about
Goes(k, c) == client[c] = "in" /\ endpoint[k] = "relaying"
SendEffect(k, c) ==
    /\ endpoint[k] \in {"relaying", "farewell"} /\ c \in todo[k]
    /\ \A j \in Conns : todo'[j] = IF j = k THEN todo[k] \ {c} ELSE todo[j]
    /\ \A j \in Conns : j # k => /\ endpoint'[j] = endpoint[j]
                                 /\ sending'[j] = sending[j] /\ dead'[j] = dead[j]
    /\ todo[k] = {c} => /\ sending'[k] = Offline /\ dead'[k] = {}
                        /\ endpoint'[k] = AfterBroadcast(k)
    /\ todo[k] # {c} => /\ sending'[k] = sending[k] /\ endpoint'[k] = endpoint[k]
                        /\ dead'[k] = IF client[c] = "in" THEN dead[k] ELSE dead[k] \cup {c}
    /\ \A d \in Clients, j \in Conns :
           got'[d][j] = IF d = c /\ j = k /\ Goes(k, c) THEN relayed[k] ELSE got[d][j]
    /\ \A d \in Clients :
           told'[d] = IF d = c /\ client[c] = "in"
                      THEN IF Goes(k, c) THEN "live" ELSE "offline"
                      ELSE told[d]
    /\ subscribers' \subseteq subscribers
    /\ \A d \in subscribers : client[d] = "in" => d \in subscribers'
    /\ online' = IF todo[k] = {c} /\ endpoint[k] = "relaying" THEN TRUE ELSE online
    /\ UNCHANGED <<published, agent, client, relayed, since>>

LEMMA SendEffects ==
    ASSUME TypeOK, NEW k \in Conns, Broadcast(k), NEW c \in Clients, SendsTo(k, c)
    PROVE  SendEffect(k, c)
<1>1. endpoint[k] \in {"relaying", "farewell"} /\ c \in todo[k]
  BY DEF SendsTo
<1>2. IF endpoint[k] = "relaying" THEN sending[k] # Offline /\ sending[k].n = relayed[k]
                                  ELSE sending[k] = Offline
  BY OfflineIsNoMessage DEF Broadcast
<1>3. /\ \A j \in Conns : todo'[j] = IF j = k THEN todo[k] \ {c} ELSE todo[j]
      /\ \A j \in Conns : j # k => /\ endpoint'[j] = endpoint[j]
                                   /\ sending'[j] = sending[j] /\ dead'[j] = dead[j]
  BY DEF SendsTo, TypeOK
<1>4. todo[k] = {c} => /\ sending'[k] = Offline /\ dead'[k] = {}
                       /\ endpoint'[k] = AfterBroadcast(k)
  BY DEF SendsTo, TypeOK
<1>5. todo[k] # {c} => /\ sending'[k] = sending[k] /\ endpoint'[k] = endpoint[k]
                       /\ dead'[k] = IF client[c] = "in" THEN dead[k] ELSE dead[k] \cup {c}
  BY DEF SendsTo, TypeOK, Undelivered
<1>6. ASSUME NEW d \in Clients, NEW j \in Conns
      PROVE  got'[d][j] = IF d = c /\ j = k /\ Goes(k, c) THEN relayed[k] ELSE got[d][j]
  <2>1. got \in [Clients -> [Conns -> 0 .. MaxMessages]]
    BY DEF TypeOK
  <2>2. CASE client[c] = "in"
    <3>1. got' = [got EXCEPT ![c] = [got[c] EXCEPT ![k] =
                      IF sending[k] = Offline THEN got[c][k] ELSE sending[k].n]]
      BY <2>1, <2>2 DEF SendsTo
    <3>2. got[c] \in [Conns -> 0 .. MaxMessages]
      BY <2>1
    <3>3. got'[c][k] = IF sending[k] = Offline THEN got[c][k] ELSE sending[k].n
      BY <2>1, <3>1, <3>2
    <3>4. d # c \/ j # k => got'[d][j] = got[d][j]
      BY <2>1, <3>1, <3>2
    <3> QED BY <1>1, <1>2, <2>2, <3>3, <3>4 DEF Goes
  <2>3. CASE client[c] # "in"
    BY <2>3 DEF SendsTo, Goes
  <2> QED BY <2>2, <2>3
<1>7. ASSUME NEW d \in Clients
      PROVE  told'[d] = IF d = c /\ client[c] = "in"
                        THEN IF Goes(k, c) THEN "live" ELSE "offline"
                        ELSE told[d]
  BY <1>1, <1>2 DEF SendsTo, TypeOK, Goes
<1>8. /\ subscribers' \subseteq subscribers
      /\ \A d \in subscribers : client[d] = "in" => d \in subscribers'
  <2>1. \A d \in dead[k] : d \in Clients /\ client[d] \in {"closed", "gone"}
    BY DEF Broadcast, TypeOK
  <2>2. \/ subscribers' = subscribers
        \/ subscribers' = subscribers \ dead[k]
        \/ client[c] # "in" /\ subscribers' = subscribers \ (dead[k] \cup {c})
    BY DEF SendsTo, Undelivered
  <2> QED BY <2>1, <2>2
<1>9. /\ online' = IF todo[k] = {c} /\ endpoint[k] = "relaying" THEN TRUE ELSE online
      /\ UNCHANGED <<published, agent, client, relayed, since>>
  BY DEF SendsTo, HeartbeatAfter, connectorVars
<1> QED BY <1>1, <1>3, <1>4, <1>5, <1>6, <1>7, <1>8, <1>9 DEF SendEffect

LEMMA SendKeepsBroadcasts ==
    ASSUME TypeOK, \A j \in Conns : Broadcast(j),
           NEW k \in Conns, NEW c \in Clients, SendsTo(k, c)
    PROVE  \A j \in Conns : Broadcast(j)'
<1> SUFFICES ASSUME NEW j \in Conns PROVE Broadcast(j)'
  OBVIOUS
<1>1. SendEffect(k, c) /\ client' = client /\ relayed' = relayed
  <2>1. Broadcast(k)
    OBVIOUS
  <2>2. SendEffect(k, c)
    BY <2>1, SendEffects
  <2> QED BY <2>2 DEF SendEffect
<1>2. CASE j # k
  <2>1. /\ endpoint'[j] = endpoint[j] /\ todo'[j] = todo[j] /\ sending'[j] = sending[j]
        /\ dead'[j] = dead[j] /\ \A d \in Clients : got'[d][j] = got[d][j]
    BY <1>1, <1>2 DEF SendEffect
  <2> QED BY <1>1, <2>1, BroadcastKept
<1>3. CASE j = k
  <2>1. ASSUME NEW d \in Clients
        PROVE  /\ got'[d][k] <= relayed[k]
               /\ d \in todo'[k] => got'[d][k] = got[d][k]
    <3>1. got[d][k] <= relayed[k] /\ relayed[k] \in Nat
      BY NumbersTyped DEF Broadcast
    <3> QED BY <1>1, <3>1 DEF SendEffect
  <2>2. CASE todo[k] = {c}
    <3>1. todo'[k] = {} /\ sending'[k] = Offline /\ dead'[k] = {}
          /\ endpoint'[k] \in {"streaming", "done"}
      BY <1>1, <2>2 DEF SendEffect, AfterBroadcast
    <3> QED BY <1>1, <1>3, <2>1, <3>1 DEF Broadcast
  <2>3. CASE todo[k] # {c}
    <3>1. /\ todo'[k] = todo[k] \ {c} /\ todo'[k] # {}
          /\ sending'[k] = sending[k] /\ endpoint'[k] = endpoint[k]
          /\ endpoint[k] \in {"relaying", "farewell"} /\ c \in todo[k]
          /\ dead'[k] = IF client[c] = "in" THEN dead[k] ELSE dead[k] \cup {c}
      BY <1>1, <2>3 DEF SendEffect
    <3>2. \A d \in Clients : d \in dead'[k] => client[d] \in {"closed", "gone"}
      BY <3>1 DEF Broadcast
    <3> QED BY <1>1, <1>3, <2>1, <3>1, <3>2 DEF Broadcast
  <2> QED BY <2>2, <2>3
<1> QED BY <1>2, <1>3

LEMMA BroadcastsPreserved ==
    ASSUME TypeOK, MessagesInOrder, NoGhosts, \A j \in Conns : Broadcast(j), [Next]_vars
    PROVE  \A j \in Conns : Broadcast(j)'
<1>1. ASSUME NEW k \in Conns, Checked(k) \/ Accepted(k) \/ AcceptFails(k)
      PROVE  \A j \in Conns : Broadcast(j)'
  BY <1>1, BeginningKeepsBroadcasts DEF Checked, Accepted, AcceptFails
<1>2. CASE Elsewhere
  BY <1>2, ElsewhereKept, BroadcastKept
<1>3. ASSUME NEW c \in Clients,
             ClientChecked(c) \/ ClientRegisters(c) \/ ClientCloses(c) \/ ClientUnregisters(c)
      PROVE  \A j \in Conns : Broadcast(j)'
  <2>1. UNCHANGED <<endpoint, todo, sending, dead, relayed, got>>
    BY <1>3 DEF ClientChecked, ClientRegisters, ClientCloses, ClientUnregisters
  <2>2. ASSUME NEW d \in Clients
        PROVE  /\ client[d] \in {"in", "closed", "gone"} => client'[d] \in {"in", "closed", "gone"}
               /\ client[d] \in {"closed", "gone"} => client'[d] \in {"closed", "gone"}
    BY <1>3 DEF ClientChecked, ClientRegisters, ClientCloses, ClientUnregisters, TypeOK
  <2> QED BY <2>1, <2>2, BroadcastKept
<1> QED BY <1>1, <1>2, <1>3, ReceiveKeepsBroadcasts, FarewellKeepsBroadcasts,
           SendKeepsBroadcasts DEF Next, AgentStep, Elsewhere

-----------------------------------------------------------------------------
(* Whoever is registered is served, and nobody is left out. *)

\* An endpoint that begins or fails to begin
Begins(k) == Checked(k) \/ Accepted(k) \/ AcceptFails(k)

LEMMA BeginningKept ==
    ASSUME TypeOK, NEW k \in Conns, Begins(k)
    PROVE  /\ UNCHANGED <<sending, todo, dead, subscribers, client, got, told, relayed, since>>
           /\ endpoint[k] \in {"none", "checked"}
           /\ endpoint'[k] \in {"checked", "streaming", "refused"}
           /\ endpoint'[k] = "streaming" <=> Accepted(k)
           /\ \A j \in Conns : j # k => endpoint'[j] = endpoint[j]
           /\ Accepted(k) => agent' = k
           /\ ~ Accepted(k) => agent' = agent /\ online' = online
BY DEF Begins, Checked, Accepted, AcceptFails, TypeOK

\* What a dashboard does
Acts(c) == ClientChecked(c) \/ ClientRegisters(c) \/ ClientCloses(c) \/ ClientUnregisters(c)

LEMMA ActingKept ==
    ASSUME TypeOK, NEW c \in Clients, Acts(c)
    PROVE  /\ UNCHANGED <<endpoint, sending, todo, dead, agent, online, got, relayed>>
           /\ \A d \in Clients : d # c => /\ client'[d] = client[d] /\ told'[d] = told[d]
                                          /\ since'[d] = since[d]
                                          /\ d \in subscribers' <=> d \in subscribers
           /\ client'[c] = "in" => /\ c \in subscribers' /\ told'[c] # "live"
                                   /\ since'[c] = relayed
           /\ c \in subscribers' /\ (c \in subscribers => client[c] \in {"in", "closed"}) =>
                  client'[c] \in {"in", "closed"}
<1>1. CASE ClientChecked(c)
  BY <1>1 DEF ClientChecked, TypeOK
<1>2. CASE ClientRegisters(c)
  BY <1>2 DEF ClientRegisters, TypeOK
<1>3. CASE ClientCloses(c)
  BY <1>3 DEF ClientCloses, TypeOK
<1>4. CASE ClientUnregisters(c)
  BY <1>4 DEF ClientUnregisters, SubscribersWithout, TypeOK
<1> QED BY <1>1, <1>2, <1>3, <1>4 DEF Acts

\* A step is one of these.
LEMMA StepCases ==
    ASSUME [Next]_vars
    PROVE  \/ Elsewhere
           \/ \E k \in Conns : \/ Begins(k) \/ Receives(k) \/ AgentGone(k)
                               \/ \E c \in Clients : SendsTo(k, c)
           \/ \E c \in Clients : Acts(c)
BY DEF Next, Elsewhere, Begins, AgentStep, Acts

LEMMA NoGhostsPreserved ==
    ASSUME TypeOK, \A j \in Conns : Broadcast(j), NoGhosts, [Next]_vars
    PROVE  NoGhosts'
<1> USE DEF NoGhosts, NoGhostAgent, NoGhostSubscriber
<1>0. agent # 0 => agent \in Conns
  BY ConnectorAssumption DEF TypeOK, Conns
<1>1. CASE Elsewhere
  BY <1>1, ElsewhereKept
<1>2. ASSUME NEW k \in Conns, Begins(k) PROVE NoGhosts'
  <2>1. agent # 0 => agent \in Conns /\ agent # k
    BY <1>0, <1>2, BeginningKept
  <2>2. NoGhostAgent'
    BY <1>2, <2>1, BeginningKept
  <2>3. NoGhostSubscriber'
    BY <1>2, BeginningKept
  <2> QED BY <2>2, <2>3
<1>3. ASSUME NEW k \in Conns, Receives(k) PROVE NoGhosts'
  <2>1. /\ agent' = agent /\ subscribers' = subscribers /\ client' = client
        /\ endpoint'[k] \in {"streaming", "relaying"}
        /\ \A j \in Conns : j # k => endpoint'[j] = endpoint[j]
    BY <1>3 DEF Receives, TypeOK
  <2> QED BY <1>0, <2>1
<1>4. ASSUME NEW k \in Conns, AgentGone(k) PROVE NoGhosts'
  BY <1>4 DEF AgentGone, AgentUnregistered
<1>5. ASSUME NEW k \in Conns, NEW c \in Clients, SendsTo(k, c) PROVE NoGhosts'
  <2>1. Broadcast(k)
    OBVIOUS
  <2>2. SendEffect(k, c)
    BY <1>5, <2>1, SendEffects
  <2>3. /\ agent' = agent /\ client' = client /\ subscribers' \subseteq subscribers
        /\ \A j \in Conns : j # k => endpoint'[j] = endpoint[j]
        /\ endpoint[k] = "relaying" => endpoint'[k] \in {"streaming", "relaying"}
        /\ endpoint[k] \in {"relaying", "farewell"}
    BY <2>2 DEF SendEffect, AfterBroadcast
  <2>4. ASSUME agent # 0 PROVE endpoint'[agent] \in {"streaming", "relaying"}
    <3>1. agent \in Conns /\ endpoint[agent] \in {"streaming", "relaying"}
      BY <1>0, <2>4
    <3>2. CASE agent = k
      BY <2>3, <3>1, <3>2
    <3>3. CASE agent # k
      BY <2>3, <3>1, <3>3
    <3> QED BY <3>2, <3>3
  <2>5. NoGhostAgent'
    BY <2>3, <2>4
  <2>6. NoGhostSubscriber'
    BY <2>3
  <2> QED BY <2>5, <2>6
<1>6. ASSUME NEW c \in Clients, Acts(c) PROVE NoGhosts'
  <2>1. subscribers' \subseteq Clients
    BY <1>6, TypePreserved DEF TypeOK, Acts, ClientChecked, ClientRegisters, ClientCloses,
                               ClientUnregisters, SubscribersWithout
  <2>2. NoGhostAgent'
    BY <1>6, ActingKept
  <2>3. ASSUME NEW d \in subscribers' PROVE client'[d] \in {"in", "closed"}
    <3>1. d \in Clients
      BY <2>1
    <3>2. CASE d = c
      BY <1>6, <2>3, <3>2, ActingKept
    <3>3. CASE d # c
      BY <1>6, <2>3, <3>1, <3>3, ActingKept
    <3> QED BY <3>2, <3>3
  <2> QED BY <2>2, <2>3
<1> QED BY <1>1, <1>2, <1>3, <1>4, <1>5, <1>6, StepCases

LEMMA NothingWithheldPreserved ==
    ASSUME TypeOK, \A j \in Conns : Broadcast(j), NothingWithheld, [Next]_vars
    PROVE  NothingWithheld'
<1> SUFFICES ASSUME NEW d \in Clients, client'[d] = "in"
             PROVE  /\ d \in subscribers'
                    /\ \A j \in Conns : relayed'[j] > since'[d][j] =>
                           \/ got'[d][j] = relayed'[j]
                           \/ d \in todo'[j] /\ sending'[j].n = relayed'[j]
  BY DEF NothingWithheld
<1>1. CASE Elsewhere
  BY <1>1, ElsewhereKept DEF NothingWithheld
<1>2. ASSUME NEW k \in Conns, Begins(k)
      PROVE  UNCHANGED <<client, subscribers, relayed, since, got, todo, sending>>
  BY <1>2, BeginningKept
<1>3. ASSUME NEW k \in Conns, Begins(k)
      PROVE  /\ d \in subscribers'
             /\ \A j \in Conns : relayed'[j] > since'[d][j] =>
                    \/ got'[d][j] = relayed'[j]
                    \/ d \in todo'[j] /\ sending'[j].n = relayed'[j]
  BY <1>2, <1>3 DEF NothingWithheld
<1>4. ASSUME NEW k \in Conns, Receives(k)
      PROVE  /\ d \in subscribers'
             /\ \A j \in Conns : relayed'[j] > since'[d][j] =>
                    \/ got'[d][j] = relayed'[j]
                    \/ d \in todo'[j] /\ sending'[j].n = relayed'[j]
  <2>1. client' = client /\ subscribers' = subscribers /\ since' = since /\ got' = got
    BY <1>4 DEF Receives
  <2>2. d \in subscribers
    BY <2>1 DEF NothingWithheld
  <2>3. d \in todo'[k] /\ sending'[k].n = relayed'[k]
    BY <1>4, <2>2 DEF Receives, TypeOK
  <2>4. \A j \in Conns : j # k => /\ relayed'[j] = relayed[j] /\ todo'[j] = todo[j]
                                  /\ sending'[j] = sending[j]
    BY <1>4 DEF Receives, TypeOK
  <2> QED BY <2>1, <2>2, <2>3, <2>4 DEF NothingWithheld
<1>5. ASSUME NEW k \in Conns, AgentGone(k)
      PROVE  /\ d \in subscribers'
             /\ \A j \in Conns : relayed'[j] > since'[d][j] =>
                    \/ got'[d][j] = relayed'[j]
                    \/ d \in todo'[j] /\ sending'[j].n = relayed'[j]
  <2>1. UNCHANGED <<client, subscribers, since, got, relayed>>
    BY <1>5 DEF AgentGone
  <2>2. todo[k] = {}
    BY <1>5 DEF AgentGone, LastWord, Broadcast
  <2>3. \A j \in Conns : j # k => todo'[j] = todo[j] /\ sending'[j] = sending[j]
    BY <1>5 DEF AgentGone, TypeOK
  <2> QED BY <2>1, <2>2, <2>3 DEF NothingWithheld
<1>6. ASSUME NEW k \in Conns, NEW c \in Clients, SendsTo(k, c)
      PROVE  /\ d \in subscribers'
             /\ \A j \in Conns : relayed'[j] > since'[d][j] =>
                    \/ got'[d][j] = relayed'[j]
                    \/ d \in todo'[j] /\ sending'[j].n = relayed'[j]
  <2>1. SendEffect(k, c)
    <3>1. Broadcast(k)
      OBVIOUS
    <3> QED BY <1>6, <3>1, SendEffects
  <2>2. client' = client /\ relayed' = relayed /\ since' = since
    BY <2>1 DEF SendEffect
  <2>3. d \in subscribers'
    BY <2>1, <2>2 DEF SendEffect, NothingWithheld
  <2>4. ASSUME NEW j \in Conns, relayed[j] > since[d][j]
        PROVE  \/ got'[d][j] = relayed[j]
               \/ d \in todo'[j] /\ sending'[j].n = relayed[j]
    <3>1. \/ got[d][j] = relayed[j]
          \/ d \in todo[j] /\ sending[j].n = relayed[j]
      BY <2>2, <2>4 DEF NothingWithheld
    <3>2. CASE got[d][j] = relayed[j]
      BY <2>1, <3>2 DEF SendEffect
    <3>3. CASE j # k
      BY <2>1, <3>1, <3>3 DEF SendEffect
    <3>4. CASE j = k /\ d \in todo[k] /\ sending[k].n = relayed[k]
      <4>1. sending[k] # Offline
        BY <2>4, <3>4, OfflineIsNoMessage, ConnectorAssumption DEF TypeOK
      <4>2. endpoint[k] = "relaying"
        BY <4>1 DEF Broadcast
      <4>3. CASE d = c
        BY <2>1, <2>2, <3>4, <4>2, <4>3 DEF SendEffect, Goes
      <4>4. CASE d # c
        BY <2>1, <3>4, <4>4 DEF SendEffect
      <4> QED BY <4>3, <4>4
    <3> QED BY <3>1, <3>2, <3>3, <3>4
  <2> QED BY <2>2, <2>3, <2>4
<1>7. ASSUME NEW c \in Clients, Acts(c)
      PROVE  /\ d \in subscribers'
             /\ \A j \in Conns : relayed'[j] > since'[d][j] =>
                    \/ got'[d][j] = relayed'[j]
                    \/ d \in todo'[j] /\ sending'[j].n = relayed'[j]
  <2>1. CASE d = c
    BY <1>7, <2>1, ActingKept, ConnectorAssumption DEF TypeOK
  <2>2. CASE d # c
    BY <1>7, <2>2, ActingKept DEF NothingWithheld
  <2> QED BY <2>1, <2>2
<1> QED BY <1>1, <1>3, <1>4, <1>5, <1>6, <1>7, StepCases

-----------------------------------------------------------------------------
(* The end of the last connection *)

LEMMA OfflineToldPreserved ==
    ASSUME TypeOK, \A j \in Conns : Broadcast(j), NothingWithheld, OfflineWillBeTold,
           [Next]_vars
    PROVE  OfflineWillBeTold'
<1> SUFFICES ASSUME NEW d \in Clients, client'[d] = "in", told'[d] = "live"
             PROVE  \E j \in Conns : \/ endpoint'[j] \in {"streaming", "relaying"}
                                     \/ endpoint'[j] = "farewell" /\ d \in todo'[j]
  BY DEF OfflineWillBeTold
<1> DEFINE Goal == \E j \in Conns : \/ endpoint'[j] \in {"streaming", "relaying"}
                                    \/ endpoint'[j] = "farewell" /\ d \in todo'[j]
           Before == client[d] = "in" /\ told[d] = "live"
<1>1. ASSUME Before
      PROVE  \E j \in Conns : \/ endpoint[j] \in {"streaming", "relaying"}
                              \/ endpoint[j] = "farewell" /\ d \in todo[j]
  BY <1>1 DEF OfflineWillBeTold
<1>2. CASE Elsewhere
  BY <1>1, <1>2, ElsewhereKept
<1>3. ASSUME NEW k \in Conns, Begins(k) PROVE Goal
  BY <1>1, <1>3, BeginningKept
<1>4. ASSUME NEW k \in Conns, Receives(k) PROVE Goal
  BY <1>4 DEF Receives, TypeOK
<1>5. ASSUME NEW k \in Conns, AgentGone(k) PROVE Goal
  <2>1. Before /\ d \in subscribers
    BY <1>5 DEF AgentGone, NothingWithheld
  <2>2. endpoint'[k] = "farewell" /\ todo'[k] = subscribers
    BY <1>5, <2>1 DEF AgentGone, Told, TypeOK
  <2> QED BY <2>1, <2>2
<1>6. ASSUME NEW k \in Conns, NEW c \in Clients, SendsTo(k, c) PROVE Goal
  <2>1. SendEffect(k, c)
    <3>1. Broadcast(k)
      OBVIOUS
    <3> QED BY <1>6, <3>1, SendEffects
  <2>2. CASE endpoint[k] = "relaying"
    <3>1. endpoint'[k] \in {"streaming", "relaying"}
      BY <2>1, <2>2 DEF SendEffect, AfterBroadcast
    <3> QED BY <3>1
  <2>3. CASE endpoint[k] = "farewell"
    <3>1. d # c /\ Before
      BY <2>1, <2>3 DEF SendEffect, Goes
    <3>2. PICK j \in Conns : \/ endpoint[j] \in {"streaming", "relaying"}
                             \/ endpoint[j] = "farewell" /\ d \in todo[j]
      BY <1>1, <3>1
    <3>3. CASE j = k
      <4>1. d \in todo[k] /\ todo[k] # {c}
        BY <2>3, <3>1, <3>2, <3>3
      <4> QED BY <2>1, <2>3, <3>1, <4>1 DEF SendEffect
    <3>4. CASE j # k
      BY <2>1, <3>2, <3>4 DEF SendEffect
    <3> QED BY <3>3, <3>4
  <2> QED BY <2>1, <2>2, <2>3 DEF SendEffect
<1>7. ASSUME NEW c \in Clients, Acts(c) PROVE Goal
  <2>1. d # c
    BY <1>7, ActingKept
  <2> QED BY <1>1, <1>7, <2>1, ActingKept
<1> QED BY <1>2, <1>3, <1>4, <1>5, <1>6, <1>7, StepCases

LEMMA OfflineStoredPreserved ==
    ASSUME TypeOK, \A j \in Conns : Broadcast(j), OfflineWasStored, [Next]_vars
    PROVE  OfflineWasStored'
<1>1. CASE Elsewhere
  BY <1>1, ElsewhereKept DEF OfflineWasStored
<1>2. ASSUME NEW k \in Conns, Begins(k) PROVE OfflineWasStored'
  BY <1>2, BeginningKept DEF OfflineWasStored
<1>3. ASSUME NEW k \in Conns, Receives(k) PROVE OfflineWasStored'
  BY <1>3 DEF Receives, TypeOK, OfflineWasStored
<1>4. ASSUME NEW k \in Conns, AgentGone(k) PROVE OfflineWasStored'
  BY <1>4 DEF AgentGone, OfflineWasStored
<1>5. ASSUME NEW k \in Conns, NEW c \in Clients, SendsTo(k, c) PROVE OfflineWasStored'
  <2>1. SendEffect(k, c)
    <3>1. Broadcast(k)
      OBVIOUS
    <3> QED BY <1>5, <3>1, SendEffects
  <2>2. CASE endpoint[k] = "relaying"
    <3>1. endpoint'[k] \in {"streaming", "relaying"}
      BY <2>1, <2>2 DEF SendEffect, AfterBroadcast
    <3> QED BY <3>1 DEF OfflineWasStored
  <2>3. CASE endpoint[k] = "farewell"
    BY <2>1, <2>3 DEF SendEffect, AfterBroadcast, OfflineWasStored
  <2> QED BY <2>1, <2>2, <2>3 DEF SendEffect
<1>6. ASSUME NEW c \in Clients, Acts(c) PROVE OfflineWasStored'
  BY <1>6, ActingKept DEF OfflineWasStored
<1> QED BY <1>1, <1>2, <1>3, <1>4, <1>5, <1>6, StepCases

-----------------------------------------------------------------------------
(* The relay's theorems *)

LEMMA NextRelayInv == RelayInv /\ [Next]_vars => RelayInv'
<1> SUFFICES ASSUME RelayInv, [Next]_vars PROVE RelayInv'
  OBVIOUS
<1> USE DEF RelayInv
<1>1. TypeOK'
  BY TypePreserved
<1>2. DialledInOrder' /\ LinkIsLast'
  BY DialledPreserved
<1>3. MessagesInOrder'
  BY MessagesPreserved
<1>4. \A k \in Conns : Broadcast(k)'
  BY BroadcastsPreserved
<1>5. NoGhosts'
  BY NoGhostsPreserved
<1>6. NothingWithheld'
  BY NothingWithheldPreserved
<1>7. OfflineWillBeTold' /\ OfflineWasStored'
  BY OfflineToldPreserved, OfflineStoredPreserved
<1> QED BY <1>1, <1>2, <1>3, <1>4, <1>5, <1>6, <1>7

\* What waits, in the queue and on the connections, is in order; a broadcast sends what
\* was received last; whoever has to be told that the agent is gone will be told.
THEOREM RelayInvariance == Spec => []RelayInv
<1> QED BY InitRelayInv, NextRelayInv, PTL DEF Spec

\* The variables keep their types, and the connector's queue its size, for any bounds.
THEOREM RelayTypes == Spec => []TypeOK
<1>1. RelayInv => TypeOK
  BY DEF RelayInv
<1> QED BY <1>1, RelayInvariance, PTL

\* The agent that register_agent listed has a running endpoint, and every subscriber an
\* endpoint that will unregister it.
THEOREM NothingIsRegisteredInVain == Spec => []NoGhosts
<1>1. RelayInv => NoGhosts
  BY DEF RelayInv
<1> QED BY <1>1, RelayInvariance, PTL

\* broadcast_to_device_subscribers reaches every dashboard that stays, from the message
\* after its registration on.
THEOREM BroadcastsAreComplete == Spec => []NothingWithheld
<1>1. RelayInv => NothingWithheld
  BY DEF RelayInv
<1> QED BY <1>1, RelayInvariance, PTL

\* After the last connection of the agent, dashboards and device row say offline.
THEOREM OfflineIsAnnounced == Spec => []OfflineIsKnown
<1>1. RelayInv => OfflineIsKnown
  <2> SUFFICES ASSUME RelayInv PROVE OfflineIsKnown
    OBVIOUS
  <2>1. OfflineIsTold
    BY DEF RelayInv, OfflineWillBeTold, OfflineIsTold
  <2>2. OfflineIsStored
    BY DEF RelayInv, OfflineWasStored, OfflineIsStored
  <2> QED BY <2>1, <2>2 DEF OfflineIsKnown
<1> QED BY <1>1, RelayInvariance, PTL

\* However often the agent reconnects, each message travels on one connection only, and
\* those of a later connection, and of the queue, are newer.
THEOREM EachMessageTravelsOnce == Spec => []ReconnectionsRepeatNothing
<1>1. RelayInv => ReconnectionsRepeatNothing
  <2> SUFFICES ASSUME RelayInv PROVE ReconnectionsRepeatNothing
    OBVIOUS
  <2>1. ASSUME NEW j \in Conns, NEW k \in Conns, j < k, NEW a \in Brings(j), NEW b \in Brings(k)
        PROVE  a < b
    <3>1. Older(j, b)
      BY <2>1 DEF RelayInv, MessagesInOrder, WireBefore, Brings
    <3> QED BY <2>1, <3>1 DEF Older, Brings
  <2>2. ASSUME NEW k \in Conns, NEW a \in Brings(k), NEW i \in 1 .. Len(queue)
        PROVE  a < queue[i].n
    BY <2>2 DEF RelayInv, MessagesInOrder, WireBeforeQueue, Older, Brings
  <2> QED BY <2>1, <2>2 DEF ReconnectionsRepeatNothing
<1> QED BY <1>1, RelayInvariance, PTL

\* The relay keeps the promise of the local stream for each connection of the agent: what a
\* dashboard gets of it is a selection of what was published, in order. Across connections
\* nothing is promised (OrderAcrossConnections).
THEOREM RelayRefinement == Spec => ImplementsLossyStream
<1> DEFINE received == [d \in Deliveries |-> got[d[1]][d[2]]]
<1>1. Init => Promise!Init
  <2> SUFFICES ASSUME Init PROVE Promise!Init
    OBVIOUS
  <2>1. published = 0
    BY DEF Init, ConnectorInit
  <2>2. \A d \in Deliveries : got[d[1]][d[2]] = 0
    BY DEF Init, Deliveries
  <2> QED BY <2>1, <2>2 DEF Promise!Init
<1>2. RelayInv /\ [Next]_vars => [Promise!Next]_<<published, received>>
  <2> SUFFICES ASSUME RelayInv, [Next]_vars
               PROVE  [Promise!Next]_<<published, received>>
    OBVIOUS
  <2>0. TypeOK /\ published \in Nat
    BY ConnectorAssumption DEF RelayInv, TypeOK, ConnectorTypeOK
  <2>1. ASSUME UNCHANGED <<published, got>> PROVE UNCHANGED <<published, received>>
    BY <2>1
  <2>2. CASE enqueue_message /\ UNCHANGED relayVars
    <3>1. published' = published + 1 /\ received' = received
      BY <2>2 DEF enqueue_message, relayVars
    <3> QED BY <2>0, <3>1 DEF Promise!Publish, Promise!Next
  <2>3. ASSUME NEW k \in Conns, NEW c \in Clients, SendsTo(k, c)
        PROVE  [Promise!Next]_<<published, received>>
    <3>1. Broadcast(k) /\ SendEffect(k, c)
      BY <2>0, <2>3, SendEffects DEF RelayInv
    <3>2. published' = published /\ \A d \in Clients, j \in Conns :
              got'[d][j] = IF d = c /\ j = k /\ Goes(k, c) THEN relayed[k] ELSE got[d][j]
      BY <3>1 DEF SendEffect
    <3>3. CASE Goes(k, c)
      <4>1. got[c][k] < relayed[k] /\ relayed[k] <= published
            /\ got[c][k] \in Nat /\ relayed[k] \in Nat
        BY <2>0, <3>1, <3>3, ConnectorAssumption
           DEF Broadcast, SendEffect, Goes, RelayInv, MessagesInOrder, WireInOrder, TypeOK
      <4>2. <<c, k>> \in Deliveries /\ received[<<c, k>>] = got[c][k]
        BY DEF Deliveries
      <4>3. received' = [received EXCEPT ![<<c, k>>] = relayed[k]]
        <5>1. ASSUME NEW d \in Deliveries
              PROVE  received'[d] = IF d = <<c, k>> THEN relayed[k] ELSE received[d]
          BY <3>2, <3>3 DEF Deliveries
        <5> QED BY <5>1
      <4>4. relayed[k] \in received[<<c, k>>] + 1 .. published
        BY <2>0, <4>1, <4>2
      <4>5. \E n \in received[<<c, k>>] + 1 .. published :
                received' = [received EXCEPT ![<<c, k>>] = n]
        <5> HIDE DEF received
        <5> QED BY <4>3, <4>4
      <4>6. Promise!Receive(<<c, k>>)
        BY <3>2, <4>5 DEF Promise!Receive
      <4> QED BY <4>2, <4>6 DEF Promise!Next
    <3>4. CASE ~ Goes(k, c)
      <4>1. \A d \in Deliveries : got'[d[1]][d[2]] = got[d[1]][d[2]]
        BY <3>2, <3>4 DEF Deliveries
      <4> QED BY <3>2, <4>1
    <3> QED BY <3>3, <3>4
  <2>4. CASE Elsewhere /\ ~ (enqueue_message /\ UNCHANGED relayVars)
    <3>1. UNCHANGED <<published, got>>
      BY <2>4 DEF Elsewhere, ConnectorAlone, ConnectorSends, ConnectorNotices,
                  ConnectorGoesOn, Refused, DeviceRevoked, Breaks, run, stop, Wakes,
                  SendStarts, SendRaises, SendBreaks, Recovers, SendReturns, Cancelled,
                  ConnectionFails, Rejected, vars, relayVars, connectorVars
    <3> QED BY <2>1, <3>1
  <2>5. ASSUME NEW k \in Conns, Begins(k) \/ Receives(k) \/ AgentGone(k)
        PROVE  UNCHANGED <<published, got>>
    BY <2>5 DEF Begins, Checked, Dials, Accepted, Connected, AcceptFails, Receives, AgentGone,
                connectorVars
  <2>6. ASSUME NEW c \in Clients, Acts(c) PROVE UNCHANGED <<published, got>>
    BY <2>6 DEF Acts, ClientChecked, ClientRegisters, ClientCloses, ClientUnregisters,
                connectorVars
  <2> HIDE DEF received
  <2> QED BY <2>1, <2>2, <2>3, <2>4, <2>5, <2>6, StepCases
<1> QED BY <1>1, <1>2, RelayInvariance, PTL DEF Spec, ImplementsLossyStream, Promise!Spec

-----------------------------------------------------------------------------
(* Accounts, codes and devices *)

\* A code that was consumed has a user and bought a device of its own; a device that
\* nobody bought has no user.
PairingInv ==
    /\ PairingTypeOK
    /\ \A c \in Codes : consumedBy[c] # None =>
           /\ codeOwner[c] # None
           /\ devState[consumedBy[c]] # "new"
           /\ \A b \in Codes : consumedBy[b] = consumedBy[c] => b = c
    /\ \A d \in Devices : devState[d] = "new" => devOwner[d] = None
    /\ EveryDeviceHasItsCode

LEMMA InitPairingInv == PairingInit => PairingInv
BY TimeAssumption DEF PairingInit, PairingInv, PairingTypeOK, EveryDeviceHasItsCode

\* What the agent does, and the clock, touches no row of the cloud.
AgentActs ==
    \/ \E c \in Codes : pair_with_code(c)
    \/ AnswerArrives \/ RequestFails \/ save_config \/ SaveEnds \/ Restart \/ clear_config

LEMMA AgentTyped ==
    ASSUME PairingTypeOK, AgentActs
    PROVE  PairingTypeOK' /\ UNCHANGED serverVars
<1> USE DEF PairingTypeOK, serverVars
<1>1. ASSUME NEW c \in Codes, pair_with_code(c) PROVE PairingTypeOK' /\ UNCHANGED serverVars
  <2>1. [code |-> c, awaited |-> TRUE] \in [code : Codes, awaited : BOOLEAN]
    OBVIOUS
  <2>2. requests' \in SUBSET [code : Codes, awaited : BOOLEAN]
    BY <1>1, <2>1 DEF pair_with_code
  <2> QED BY <1>1, <2>2 DEF pair_with_code
<1>2. Abandoned \in SUBSET [code : Codes, awaited : BOOLEAN]
  <2>1. ASSUME NEW r \in requests
        PROVE  [r EXCEPT !.awaited = FALSE] \in [code : Codes, awaited : BOOLEAN]
    <3>1. r \in [code : Codes, awaited : BOOLEAN]
      OBVIOUS
    <3> QED BY <3>1
  <2> QED BY <2>1 DEF Abandoned
<1>3. CASE RequestFails
  BY <1>2, <1>3 DEF RequestFails
<1>4. CASE Restart
  BY <1>2, <1>4 DEF Restart, Loaded
<1>5. CASE AnswerArrives \/ save_config \/ SaveEnds \/ clear_config
  BY <1>5 DEF AnswerArrives, save_config, SaveEnds, clear_config
<1> QED BY <1>1, <1>3, <1>4, <1>5 DEF AgentActs

\* Sessions come and go; codes and devices stay as they are.
LEMMA SessionTyped ==
    ASSUME PairingTypeOK,
           \/ Tick \/ \E u \in Emails : register(u) \/ login(u)
           \/ \E t \in Tokens : logout(t)
    PROVE  PairingTypeOK' /\ UNCHANGED <<codeOwner, consumedBy, devOwner, devState>>
<1>1. CASE Tick
  <2>1. now + 1 \in 0 .. MaxTime
    BY <1>1, TimeAssumption DEF Tick, PairingTypeOK
  <2> QED BY <1>1, <2>1 DEF Tick, PairingTypeOK, serverVars, agentVars
<1>2. ASSUME NEW u \in Emails, register(u) \/ login(u)
      PROVE  PairingTypeOK' /\ UNCHANGED <<codeOwner, consumedBy, devOwner, devState>>
  <2>1. PICK t \in Tokens : create_session(u, t)
    BY <1>2 DEF register, login
  <2>2. users' \in SUBSET Emails /\ users \subseteq users' /\ u \in users'
    BY <1>2 DEF register, login, PairingTypeOK
  <2>3. now + SessionTtl \in Nat
    BY TimeAssumption DEF PairingTypeOK
  <2>4. holder' \in [Tokens -> users' \cup {None}] /\ expires' \in [Tokens -> Nat]
    BY <2>1, <2>2, <2>3 DEF create_session, PairingTypeOK
  <2>5. codeOwner \in [Codes -> users' \cup {None}] /\ devOwner \in [Devices -> users' \cup {None}]
    BY <2>2 DEF PairingTypeOK
  <2> QED BY <1>2, <2>2, <2>4, <2>5 DEF register, login, PairingTypeOK, agentVars
<1>3. ASSUME NEW t \in Tokens, logout(t)
      PROVE  PairingTypeOK' /\ UNCHANGED <<codeOwner, consumedBy, devOwner, devState>>
  BY <1>3 DEF logout, PairingTypeOK, agentVars
<1> QED BY <1>1, <1>2, <1>3

LEMMA RowsKept ==
    ASSUME PairingInv, PairingTypeOK', UNCHANGED <<codeOwner, consumedBy, devOwner, devState>>
    PROVE  PairingInv'
BY DEF PairingInv, EveryDeviceHasItsCode

LEMMA CreateKeeps ==
    ASSUME PairingInv, NEW t \in Tokens, NEW c \in Codes, create_pairing(t, c)
    PROVE  PairingInv'
<1>1. /\ codeOwner' = [codeOwner EXCEPT ![c] = holder[t]]
      /\ codeExpires' = [codeExpires EXCEPT ![c] = now + PairingTtl]
      /\ codeOwner[c] = None /\ holder[t] # None
      /\ UNCHANGED <<now, users, holder, expires, ended, consumedBy, devOwner, devState,
                     agentVars>>
  BY DEF create_pairing, Authenticated
<1>2. PairingTypeOK'
  <2>1. now + PairingTtl \in Nat
    BY TimeAssumption DEF PairingInv, PairingTypeOK
  <2> QED BY <1>1, <2>1 DEF PairingInv, PairingTypeOK, agentVars
<1>3. consumedBy[c] = None
  BY <1>1 DEF PairingInv
<1>4. \A b \in Codes : b # c => codeOwner'[b] = codeOwner[b]
  BY <1>1 DEF PairingInv, PairingTypeOK
<1>5. \A b \in Codes : consumedBy[b] # None => codeOwner'[b] # None
  BY <1>3, <1>4 DEF PairingInv
<1>6. EveryDeviceHasItsCode'
  <2> SUFFICES ASSUME NEW d \in Devices, devState[d] # "new"
               PROVE  \E b \in Codes : consumedBy[b] = d /\ codeOwner'[b] = devOwner[d]
    BY <1>1 DEF EveryDeviceHasItsCode
  <2>1. PICK b \in Codes : consumedBy[b] = d /\ codeOwner[b] = devOwner[d]
    BY DEF PairingInv, EveryDeviceHasItsCode
  <2>2. b # c
    BY <1>3, <2>1, NoneAssumption
  <2> QED BY <1>4, <2>1, <2>2
<1> QED BY <1>1, <1>2, <1>5, <1>6 DEF PairingInv

\* The transaction of consume_pairing_code
LEMMA BuyKeeps ==
    ASSUME PairingInv, PairingTypeOK', NEW c \in Codes, NEW d \in Devices, Consumable(c), Buys(c, d),
           codeOwner' = codeOwner
    PROVE  PairingInv'
<1>1. /\ codeOwner[c] # None /\ consumedBy[c] = None /\ devState[d] = "new"
      /\ \A e \in Devices : /\ devState'[e] = IF e = d THEN "active" ELSE devState[e]
                            /\ devOwner'[e] = IF e = d THEN codeOwner[c] ELSE devOwner[e]
      /\ \A b \in Codes : consumedBy'[b] = IF b = c THEN d ELSE consumedBy[b]
  BY DEF Consumable, Unexpired, Buys, PairingInv, PairingTypeOK
<1>2. \A b \in Codes : consumedBy[b] # d /\ (b = c \/ consumedBy[b] # None => consumedBy'[b] \in Devices)
  BY <1>1, NoneAssumption DEF PairingInv, PairingTypeOK
<1>3. ASSUME NEW b \in Codes, consumedBy'[b] # None
      PROVE  /\ codeOwner[b] # None
             /\ devState'[consumedBy'[b]] # "new"
             /\ \A a \in Codes : consumedBy'[a] = consumedBy'[b] => a = b
  <2>1. CASE b = c
    BY <1>1, <1>2, <2>1
  <2>2. CASE b # c
    <3>1. consumedBy'[b] = consumedBy[b] /\ consumedBy[b] # None /\ consumedBy[b] \in Devices
      BY <1>1, <1>2, <1>3, <2>2
    <3>2. /\ codeOwner[b] # None /\ devState[consumedBy[b]] # "new"
          /\ \A a \in Codes : consumedBy[a] = consumedBy[b] => a = b
      BY <3>1 DEF PairingInv
    <3> QED BY <1>1, <1>2, <3>1, <3>2
  <2> QED BY <2>1, <2>2
<1>4. \A e \in Devices : devState'[e] = "new" => devOwner'[e] = None
  BY <1>1 DEF PairingInv
<1>5. ASSUME NEW e \in Devices, devState'[e] # "new"
      PROVE  \E b \in Codes : consumedBy'[b] = e /\ codeOwner[b] = devOwner'[e]
  <2>1. CASE e = d
    BY <1>1, <2>1
  <2>2. CASE e # d
    <3>1. PICK b \in Codes : consumedBy[b] = e /\ codeOwner[b] = devOwner[e]
      BY <1>1, <1>5, <2>2 DEF PairingInv, EveryDeviceHasItsCode
    <3>2. b # c
      BY <1>1, <3>1, NoneAssumption
    <3> QED BY <1>1, <2>2, <3>1, <3>2
  <2> QED BY <2>1, <2>2
<1> QED BY <1>3, <1>4, <1>5 DEF PairingInv, EveryDeviceHasItsCode

LEMMA CompleteKeeps ==
    ASSUME PairingInv, NEW r \in requests, complete_agent_pairing(r)
    PROVE  PairingInv'
<1>1. r.code \in Codes /\ PairingTypeOK
  BY DEF PairingInv, PairingTypeOK
<1>2. CASE ~ Consumable(r.code)
  <2>1. UNCHANGED <<codeOwner, consumedBy, devOwner, devState>>
    BY <1>2 DEF complete_agent_pairing
  <2>2. PairingTypeOK'
    BY <1>1, <1>2 DEF complete_agent_pairing, PairingTypeOK
  <2> QED BY <2>1, <2>2, RowsKept
<1>3. CASE Consumable(r.code)
  <2>1. PICK d \in Devices : Buys(r.code, d) /\ answer' = IF r.awaited THEN d ELSE answer
    BY <1>3 DEF complete_agent_pairing
  <2>2. PairingTypeOK'
    BY <1>1, <2>1 DEF complete_agent_pairing, Buys, PairingTypeOK
  <2>3. codeOwner' = codeOwner
    BY DEF complete_agent_pairing
  <2> QED BY <1>1, <1>3, <2>1, <2>2, <2>3, BuyKeeps
<1> QED BY <1>2, <1>3

LEMMA ShutKeeps ==
    ASSUME PairingInv, NEW t \in Tokens, NEW d \in Devices, NEW state \in {"revoked", "deleted"},
           Shut(t, d, state)
    PROVE  PairingInv'
<1>1. /\ devState' = [devState EXCEPT ![d] = state]
      /\ devOwner[d] = holder[t] /\ holder[t] # None
      /\ UNCHANGED <<now, users, holder, expires, ended, codeOwner, codeExpires, consumedBy,
                     devOwner, agentVars>>
  BY DEF Shut, Authenticated, OwnDevice
<1>2. PairingTypeOK'
  BY <1>1 DEF PairingInv, PairingTypeOK, agentVars
<1>3. devState[d] # "new"
  BY <1>1 DEF PairingInv
<1>4. \A e \in Devices : devState'[e] = "new" <=> devState[e] = "new"
  BY <1>1, <1>3 DEF PairingInv, PairingTypeOK
<1>5. \A c \in Codes : consumedBy[c] # None => consumedBy[c] \in Devices
  BY DEF PairingInv, PairingTypeOK
<1> QED BY <1>1, <1>2, <1>4, <1>5 DEF PairingInv, EveryDeviceHasItsCode

LEMMA NextPairingInv == PairingInv /\ [PairingNext]_pairingVars => PairingInv'
<1> SUFFICES ASSUME PairingInv, [PairingNext]_pairingVars PROVE PairingInv'
  OBVIOUS
<1>1. PairingTypeOK
  BY DEF PairingInv
<1>2. CASE AgentActs
  BY <1>1, <1>2, AgentTyped, RowsKept DEF serverVars
<1>3. CASE \/ Tick \/ \E u \in Emails : register(u) \/ login(u)
           \/ \E t \in Tokens : logout(t)
  BY <1>1, <1>3, SessionTyped, RowsKept
<1>4. ASSUME NEW t \in Tokens, NEW d \in Devices, revoke_device(t, d) \/ delete_device(t, d)
      PROVE  PairingInv'
  BY <1>4, ShutKeeps DEF revoke_device, delete_device
<1>5. CASE UNCHANGED pairingVars
  BY <1>5 DEF pairingVars, serverVars, agentVars, PairingInv, PairingTypeOK, EveryDeviceHasItsCode
<1> QED BY <1>2, <1>3, <1>4, <1>5, CreateKeeps, CompleteKeeps DEF PairingNext, AgentActs

\* A consumed code names a device of its own, and every device was bought.
THEOREM PairingInvariance == PairingSpec => []PairingInv
<1> QED BY InitPairingInv, NextPairingInv, PTL DEF PairingSpec

\* Rows and the agent's configuration keep their types: load_config never takes half a
\* document for a token.
THEOREM PairingTypes == PairingSpec => []PairingTypeOK
<1>1. PairingInv => PairingTypeOK
  BY DEF PairingInv
<1> QED BY <1>1, PairingInvariance, PTL

\* Every device was bought by a code of its user (consume_pairing_code), whatever is
\* retried, late or lost.
THEOREM DevicesWereBought == PairingSpec => []EveryDeviceHasItsCode
<1>1. PairingInv => EveryDeviceHasItsCode
  BY DEF PairingInv
<1> QED BY <1>1, PairingInvariance, PTL

\* Only a live session of the user whose code paired it shuts a device (revoke_device,
\* delete_device).
THEOREM DevicesAreShutByTheirUser == PairingSpec => OnlyItsUserShutsADevice
<1> DEFINE A == \A d \in Devices : devState[d] \notin {"new", devState'[d]} =>
                    \E t \in Tokens, c \in Codes :
                        /\ consumedBy[c] = d /\ holder[t] = codeOwner[c]
                        /\ ~ ended[t] /\ now <= expires[t]
<1>1. PairingInv /\ [PairingNext]_pairingVars => A \/ UNCHANGED pairingVars
  <2> SUFFICES ASSUME PairingInv, PairingNext, NEW d \in Devices,
                      devState[d] \notin {"new", devState'[d]}
               PROVE  \E t \in Tokens, c \in Codes :
                          /\ consumedBy[c] = d /\ holder[t] = codeOwner[c]
                          /\ ~ ended[t] /\ now <= expires[t]
    OBVIOUS
  <2>1. PICK c \in Codes : consumedBy[c] = d /\ codeOwner[c] = devOwner[d]
    BY DEF PairingInv, EveryDeviceHasItsCode
  <2>2. PairingTypeOK
    BY DEF PairingInv
  <2>3. ASSUME NEW t \in Tokens, NEW e \in Devices, revoke_device(t, e) \/ delete_device(t, e)
        PROVE  holder[t] = codeOwner[c] /\ ~ ended[t] /\ now <= expires[t]
    <3>1. Authenticated(t) /\ OwnDevice(t, e)
          /\ \A f \in Devices : f # e => devState'[f] = devState[f]
      BY <2>2, <2>3 DEF revoke_device, delete_device, Shut, PairingTypeOK
    <3>2. e = d
      BY <3>1
    <3> QED BY <2>1, <3>1, <3>2 DEF Authenticated, OwnDevice
  <2>4. ASSUME NEW r \in requests, complete_agent_pairing(r) PROVE FALSE
    <3>1. r.code \in Codes
      BY <2>2 DEF PairingTypeOK
    <3>2. \A e \in Devices : devState'[e] = devState[e] \/ devState[e] = "new"
      BY <2>2, <2>4, <3>1 DEF complete_agent_pairing, Buys, PairingTypeOK
    <3> QED BY <3>2
  <2>5. ~ AgentActs
    BY <2>2, AgentTyped DEF serverVars
  <2>6. ~ \/ Tick \/ \E u \in Emails : register(u) \/ login(u)
          \/ \E t \in Tokens : logout(t)
    BY <2>2, SessionTyped
  <2>7. ~ \E t \in Tokens, b \in Codes : create_pairing(t, b)
    BY DEF create_pairing
  <2> QED BY <2>1, <2>3, <2>4, <2>5, <2>6, <2>7 DEF PairingNext, AgentActs
<1> QED BY <1>1, PairingInvariance, PTL DEF PairingSpec, OnlyItsUserShutsADevice
=============================================================================
