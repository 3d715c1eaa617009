------------------------- MODULE LiveStream_proofs -------------------------
(***************************************************************************)
(* The live stream for any connections and any sizes: what waits for a     *)
(* client is always ordered and later than what it was sent, and gapless   *)
(* as long as no broadcast has found its queue full.                       *)
(***************************************************************************)
EXTENDS LiveStream, FiniteSetTheorems, TLAPS

\* q holds messages after lo and up to hi, in order.
Ordered(q, lo, hi) ==
    /\ \A i \in 1 .. Len(q) : lo < q[i].n /\ q[i].n <= hi
    /\ \A i, j \in 1 .. Len(q) : i < j => q[i].n < q[j].n

\* q holds every message after lo up to hi.
Gapless(q, lo, hi) ==
    /\ lo + Len(q) = hi
    /\ \A k \in 1 .. Len(q) : q[k].n = lo + k

Holds(q, n) == \E k \in 1 .. Len(q) : q[k].n = n

\* What the send loop has taken from the queue
Taken(c) == IF sending[c] = Idle THEN received[c] ELSE sending[c].n
Base(c) == IF sending[c] = Idle THEN Behind(c) ELSE sending[c].n

ConnInv(c) ==
    /\ handler[c] # "off" => c \in clients
    /\ handler[c] \in {"off", "accepting"} => sending[c] = Idle
    /\ received[c] <= published /\ since[c] <= published
    /\ sending[c] # Idle => received[c] < sending[c].n /\ sending[c].n <= published
    /\ Ordered(queue[c], Taken(c), published)
    /\ c \in clients \ pressed =>
           /\ Gapless(queue[c], Base(c), published)
           /\ sending[c] # Idle => sending[c].n = Behind(c) + 1
    /\ c \in clients /\ lastTick > since[c] =>
           received[c] >= lastTick \/ sending[c].n = lastTick \/ Holds(queue[c], lastTick)

StreamInv ==
    /\ TypeOK
    /\ lastTick <= published
    /\ \A c \in Conns : ConnInv(c)

\* The message in flight or its absence
LEMMA IdleIsNoMessage == Idle \notin Message /\ Idle.n = 0 /\ \A m \in Message : m.n \in Nat /\ m.n > 0
BY DEF Idle, Message

\* One broadcast to one queue: it stays within its size and in order, ends with a
\* tick, and loses nothing if there was room.
LEMMA PutKeeps ==
    ASSUME NEW q \in Seq(Message), NEW m \in Message, NEW lo \in Nat, NEW hi \in Nat,
           Len(q) <= QueueSize, lo <= hi, Ordered(q, lo, hi), m.n = hi + 1
    PROVE  /\ Put(q, m) \in Seq(Message)
           /\ Len(Put(q, m)) <= QueueSize
           /\ Ordered(Put(q, m), lo, hi + 1)
           /\ m.kind = "tick" => Holds(Put(q, m), m.n)
           /\ m.kind = "event" => \A n \in Nat : Holds(q, n) => Holds(Put(q, m), n)
           /\ Len(q) < QueueSize =>
                  /\ Len(Put(q, m)) = Len(q) + 1
                  /\ \A b \in Nat : Gapless(q, b, hi) => Gapless(Put(q, m), b, hi + 1)
<1>1. QueueSize \in Nat /\ QueueSize > 0 /\ Len(q) \in Nat
  BY SizesAssumption
<1>2. \A i \in 1 .. Len(q) : q[i] \in Message /\ q[i].n \in Nat
  BY IdleIsNoMessage
<1>3. CASE Len(q) < QueueSize
  <2> DEFINE a == Append(q, m)
  <2>1. /\ Put(q, m) = a /\ a \in Seq(Message) /\ Len(a) = Len(q) + 1
        /\ a[Len(q) + 1] = m /\ \A i \in 1 .. Len(q) : a[i] = q[i]
    BY <1>3 DEF Put
  <2> HIDE DEF a
  <2>2. Ordered(a, lo, hi + 1)
    <3>1. \A i \in 1 .. Len(a) : lo < a[i].n /\ a[i].n <= hi + 1
      BY <1>1, <1>2, <2>1 DEF Ordered
    <3>2. ASSUME NEW i \in 1 .. Len(a), NEW j \in 1 .. Len(a), i < j
          PROVE  a[i].n < a[j].n
      <4>1. CASE j \in 1 .. Len(q)
        <5>1. i \in 1 .. Len(q)
          BY <1>1, <3>2, <4>1
        <5> QED BY <2>1, <3>2, <4>1, <5>1 DEF Ordered
      <4>2. CASE j = Len(q) + 1
        <5>1. i \in 1 .. Len(q)
          BY <1>1, <3>2, <4>2
        <5>2. a[i].n <= hi /\ a[j].n = hi + 1 /\ a[i].n \in Nat
          BY <1>2, <2>1, <4>2, <5>1 DEF Ordered
        <5> QED BY <5>2
      <4> QED BY <1>1, <2>1, <4>1, <4>2
    <3> QED BY <3>1, <3>2 DEF Ordered
  <2>3. Holds(a, m.n) /\ \A n \in Nat : Holds(q, n) => Holds(a, n)
    BY <1>1, <2>1 DEF Holds
  <2>4. ASSUME NEW b \in Nat, Gapless(q, b, hi) PROVE Gapless(a, b, hi + 1)
    <3>1. b + Len(q) = hi /\ b + Len(a) = hi + 1
      BY <1>1, <2>1, <2>4 DEF Gapless
    <3>2. ASSUME NEW k \in 1 .. Len(a) PROVE a[k].n = b + k
      <4>1. CASE k \in 1 .. Len(q)
        BY <2>1, <2>4, <4>1 DEF Gapless
      <4>2. CASE k = Len(q) + 1
        <5>1. a[k].n = hi + 1
          BY <2>1, <4>2
        <5> QED BY <1>1, <3>1, <4>2, <5>1
      <4> QED BY <1>1, <2>1, <4>1, <4>2
    <3> QED BY <3>1, <3>2 DEF Gapless
  <2> QED BY <1>1, <1>3, <2>1, <2>2, <2>3, <2>4
<1>4. CASE Len(q) = QueueSize /\ m.kind = "tick"
  <2> DEFINE a == Append(Tail(q), m)
  <2>1. /\ Put(q, m) = a
        /\ Tail(q) \in Seq(Message) /\ Len(Tail(q)) = Len(q) - 1
        /\ \A i \in 1 .. Len(q) - 1 : Tail(q)[i] = q[i + 1]
    BY <1>1, <1>4 DEF Put
  <2>2. /\ a \in Seq(Message) /\ Len(a) = Len(q) /\ a[Len(q)] = m
        /\ \A i \in 1 .. Len(q) - 1 : a[i] = q[i + 1]
    BY <1>1, <1>4, <2>1
  <2> HIDE DEF a
  <2>3. Ordered(a, lo, hi + 1)
    <3>1. \A i \in 1 .. Len(a) : lo < a[i].n /\ a[i].n <= hi + 1
      <4>1. ASSUME NEW i \in 1 .. Len(a) PROVE lo < a[i].n /\ a[i].n <= hi + 1
        <5>1. CASE i = Len(q)
          BY <2>2, <5>1
        <5>2. CASE i \in 1 .. Len(q) - 1
          <6>1. a[i] = q[i + 1] /\ i + 1 \in 1 .. Len(q)
            BY <1>1, <2>2, <5>2
          <6>2. lo < q[i + 1].n /\ q[i + 1].n <= hi /\ q[i + 1].n \in Nat
            BY <1>2, <6>1 DEF Ordered
          <6> QED BY <6>1, <6>2
        <5> QED BY <1>1, <2>2, <5>1, <5>2
      <4> QED BY <4>1
    <3>2. ASSUME NEW i \in 1 .. Len(a), NEW j \in 1 .. Len(a), i < j
          PROVE  a[i].n < a[j].n
      <4>1. i \in 1 .. Len(q) - 1 /\ i + 1 \in 1 .. Len(q) /\ a[i] = q[i + 1]
        BY <1>1, <2>2, <3>2
      <4>2. CASE j \in 1 .. Len(q) - 1
        <5>1. a[j] = q[j + 1] /\ j + 1 \in 1 .. Len(q) /\ i + 1 < j + 1
          BY <1>1, <2>2, <3>2, <4>2
        <5> QED BY <4>1, <5>1 DEF Ordered
      <4>3. CASE j = Len(q)
        <5>1. a[i].n <= hi /\ a[j].n = hi + 1 /\ a[i].n \in Nat
          BY <1>2, <2>2, <4>1, <4>3 DEF Ordered
        <5> QED BY <5>1
      <4> QED BY <1>1, <2>2, <4>2, <4>3
    <3> QED BY <3>1, <3>2 DEF Ordered
  <2>4. Holds(a, m.n)
    BY <1>1, <1>4, <2>2 DEF Holds
  <2> QED BY <1>1, <1>4, <2>1, <2>2, <2>3, <2>4
<1>5. CASE Len(q) = QueueSize /\ m.kind = "event"
  <2>1. Put(q, m) = q
    BY <1>1, <1>5 DEF Put
  <2>2. Ordered(q, lo, hi + 1)
    BY <1>2 DEF Ordered
  <2> QED BY <1>1, <1>5, <2>1, <2>2
<1> QED BY <1>1, <1>3, <1>4, <1>5 DEF Message

LEMMA InitStreamInv == Init => StreamInv
<1> SUFFICES ASSUME Init PROVE StreamInv
  OBVIOUS
<1>1. TypeOK
  <2>1. << >> \in Seq(Message) /\ Len(<< >>) = 0
    OBVIOUS
  <2>2. Cardinality({}) = 0
    BY FS_EmptySet
  <2> QED BY <2>1, <2>2, SizesAssumption DEF Init, TypeOK
<1>2. ASSUME NEW c \in Conns PROVE ConnInv(c)
  BY DEF Init, ConnInv, Ordered, Taken
<1> QED BY <1>1, <1>2 DEF Init, StreamInv

\* The types of one connection's state
LEMMA Typed ==
    ASSUME TypeOK, NEW c \in Conns
    PROVE  /\ queue[c] \in Seq(Message) /\ Len(queue[c]) \in Nat
           /\ \A k \in 1 .. Len(queue[c]) : queue[c][k] \in Message /\ queue[c][k].n \in Nat
           /\ sending[c] \in Message \cup {Idle} /\ sending[c].n \in Nat
           /\ received[c] \in Nat /\ since[c] \in Nat
           /\ Taken(c) \in Nat /\ Behind(c) \in Nat /\ Base(c) \in Nat
           /\ published \in Nat /\ lastTick \in Nat
BY IdleIsNoMessage DEF TypeOK, Taken, Behind, Base

\* What a connection does leaves the others' invariant alone.
LEMMA OthersKept ==
    ASSUME NEW d \in Conns, ConnInv(d),
           queue'[d] = queue[d], sending'[d] = sending[d], handler'[d] = handler[d],
           received'[d] = received[d], since'[d] = since[d],
           d \in clients' <=> d \in clients, d \in pressed' <=> d \in pressed,
           published' = published, lastTick' = lastTick
    PROVE  ConnInv(d)'
BY DEF ConnInv, Taken, Base, Behind

LEMMA ConnectKeeps ==
    ASSUME StreamInv, NEW c \in Conns, Connect(c)
    PROVE  StreamInv'
<1>1. TypeOK'
  <2>1. IsFiniteSet(clients)
    BY FiniteConns, FS_Subset DEF StreamInv, TypeOK
  <2>2. Cardinality(clients') = Cardinality(clients) + 1 /\ Cardinality(clients) \in Nat
    BY <2>1, FS_AddElement, FS_CardinalityType DEF Connect
  <2>3. Cardinality(clients') <= MaxClients
    BY <2>2, SizesAssumption DEF Connect
  <2>4. << >> \in Seq(Message) /\ Len(<< >>) = 0 /\ QueueSize \in Nat
    BY SizesAssumption
  <2> QED BY <2>3, <2>4 DEF Connect, StreamInv, TypeOK
<1>2. ASSUME NEW d \in Conns, d # c PROVE ConnInv(d)'
  BY <1>2, OthersKept DEF Connect, StreamInv, TypeOK
<1>3. ConnInv(c)'
  <2>1. ConnInv(c) /\ handler[c] = "off" /\ sending[c] = Idle
    BY DEF StreamInv, Connect, ConnInv
  <2>2. /\ c \in clients' /\ handler'[c] = "accepting" /\ sending'[c] = Idle
        /\ queue'[c] = << >> /\ since'[c] = published /\ received'[c] = received[c]
        /\ published' = published /\ lastTick' = lastTick
    BY <2>1 DEF StreamInv, TypeOK, Connect
  <2>3. Behind(c)' = published /\ Base(c)' = published
    BY <2>1, <2>2, Typed DEF StreamInv, ConnInv, Behind, Base
  <2>4. Gapless(queue'[c], published, published) /\ Ordered(queue'[c], Taken(c)', published)
    BY <2>2, Typed DEF Gapless, Ordered, StreamInv
  <2> QED BY <2>1, <2>2, <2>3, <2>4, Typed DEF ConnInv, StreamInv
<1>4. lastTick' <= published'
  BY DEF Connect, StreamInv
<1> QED BY <1>1, <1>2, <1>3, <1>4 DEF StreamInv

\* The endpoint moves on without touching the queue.
LEMMA HandlerKeeps ==
    ASSUME StreamInv, NEW c \in Conns, Accepted(c) \/ AcceptFails(c) \/ Disconnects(c)
    PROVE  StreamInv'
<1>1. TypeOK'
  BY DEF Accepted, AcceptFails, Disconnects, StreamInv, TypeOK
<1>2. ASSUME NEW d \in Conns, d # c PROVE ConnInv(d)'
  BY <1>2, OthersKept DEF Accepted, AcceptFails, Disconnects, StreamInv, TypeOK
<1>3. ConnInv(c)'
  BY DEF Accepted, AcceptFails, Disconnects, StreamInv, TypeOK, ConnInv, Taken, Base, Behind
<1>4. lastTick' <= published'
  BY DEF Accepted, AcceptFails, Disconnects, StreamInv
<1> QED BY <1>1, <1>2, <1>3, <1>4 DEF StreamInv

LEMMA RemovedKeeps ==
    ASSUME StreamInv, NEW c \in Conns, Removed(c)
    PROVE  StreamInv'
<1>1. TypeOK'
  <2>1. IsFiniteSet(clients)
    BY FiniteConns, FS_Subset DEF StreamInv, TypeOK
  <2>2. clients' \in SUBSET clients
    BY DEF Removed
  <2>3. Cardinality(clients') <= Cardinality(clients) /\ Cardinality(clients) \in Nat
        /\ Cardinality(clients') \in Nat
    BY <2>1, <2>2, FS_Subset, FS_CardinalityType
  <2>4. Cardinality(clients') <= MaxClients
    BY <2>3, SizesAssumption DEF StreamInv, TypeOK
  <2>5. << >> \in Seq(Message) /\ Len(<< >>) = 0 /\ QueueSize \in Nat
    BY SizesAssumption
  <2> QED BY <2>2, <2>4, <2>5 DEF Removed, StreamInv, TypeOK
<1>2. ASSUME NEW d \in Conns, d # c PROVE ConnInv(d)'
  BY <1>2, OthersKept DEF Removed, StreamInv, TypeOK
<1>3. ConnInv(c)'
  <2>1. /\ c \notin clients' /\ handler'[c] = "off" /\ sending'[c] = Idle
        /\ queue'[c] = << >> /\ since'[c] = since[c] /\ received'[c] = received[c]
        /\ published' = published
    BY DEF StreamInv, TypeOK, Removed
  <2>2. Ordered(queue'[c], Taken(c)', published')
    BY <2>1 DEF Ordered
  <2> QED BY <2>1, <2>2 DEF ConnInv, StreamInv
<1>4. lastTick' <= published'
  BY DEF Removed, StreamInv
<1> QED BY <1>1, <1>2, <1>3, <1>4 DEF StreamInv

\* The oldest message moves from the queue into flight.
LEMMA SendTakesKeeps ==
    ASSUME StreamInv, NEW c \in Conns, SendTakes(c)
    PROVE  StreamInv'
<1> DEFINE q == queue[c]
<1>1. /\ q \in Seq(Message) /\ Len(q) \in Nat /\ Len(q) > 0 /\ 1 \in 1 .. Len(q)
      /\ q[1] \in Message /\ q[1].n \in Nat /\ q[1].n > 0
      /\ Tail(q) \in Seq(Message) /\ Len(Tail(q)) = Len(q) - 1
      /\ \A k \in 1 .. Len(q) - 1 : Tail(q)[k] = q[k + 1] /\ k + 1 \in 1 .. Len(q)
  <2>1. q \in Seq(Message) /\ q # << >>
    BY Typed DEF SendTakes, StreamInv
  <2>2. q[1] \in Message
    BY <2>1
  <2> QED BY <2>1, <2>2, IdleIsNoMessage
<1>2. /\ queue'[c] = Tail(q) /\ sending'[c] = q[1] /\ sending[c] = Idle /\ q[1] # Idle
      /\ handler'[c] = handler[c] /\ handler[c] = "streaming"
      /\ received'[c] = received[c] /\ since'[c] = since[c]
      /\ published' = published /\ lastTick' = lastTick
      /\ clients' = clients /\ pressed' = pressed
  BY <1>1, IdleIsNoMessage DEF SendTakes, Oldest, StreamInv, TypeOK
<1>3. ConnInv(c) /\ TypeOK
  BY DEF StreamInv
<1>4. TypeOK'
  <2>1. Len(Tail(q)) <= QueueSize
    BY <1>1, <1>3, SizesAssumption DEF TypeOK
  <2>2. queue' \in [Conns -> Seq(Message)] /\ sending' \in [Conns -> Message \cup {Idle}]
    BY <1>1, <1>3 DEF TypeOK, SendTakes, Oldest
  <2>3. \A d \in Conns : Len(queue'[d]) <= QueueSize
    BY <1>2, <2>1, <1>3 DEF TypeOK, SendTakes
  <2> QED BY <1>3, <2>2, <2>3 DEF TypeOK, SendTakes
<1>5. ASSUME NEW d \in Conns, d # c PROVE ConnInv(d)'
  BY <1>5, OthersKept DEF SendTakes, StreamInv, TypeOK
<1> HIDE DEF q
<1>6. ConnInv(c)'
  <2>1. Taken(c)' = q[1].n /\ Base(c)' = q[1].n /\ Behind(c)' = Behind(c)
        /\ Taken(c) = received[c] /\ Base(c) = Behind(c)
    BY <1>2 DEF Taken, Base, Behind
  <2>2. Ordered(q, received[c], published)
    BY <1>2, <1>3, <2>1 DEF ConnInv, q
  <2>3. received[c] < q[1].n /\ q[1].n <= published
    BY <1>1, <2>2 DEF Ordered
  <2>4. Ordered(Tail(q), q[1].n, published)
    <3>1. ASSUME NEW i \in 1 .. Len(Tail(q))
          PROVE  q[1].n < Tail(q)[i].n /\ Tail(q)[i].n <= published
      <4>1. Tail(q)[i] = q[i + 1] /\ i + 1 \in 1 .. Len(q) /\ 1 < i + 1
        BY <1>1
      <4> QED BY <1>1, <2>2, <4>1 DEF Ordered
    <3>2. ASSUME NEW i \in 1 .. Len(Tail(q)), NEW j \in 1 .. Len(Tail(q)), i < j
          PROVE  Tail(q)[i].n < Tail(q)[j].n
      <4>1. /\ Tail(q)[i] = q[i + 1] /\ i + 1 \in 1 .. Len(q)
            /\ Tail(q)[j] = q[j + 1] /\ j + 1 \in 1 .. Len(q) /\ i + 1 < j + 1
        BY <1>1, <3>2
      <4> QED BY <2>2, <4>1 DEF Ordered
    <3> QED BY <3>1, <3>2 DEF Ordered
  <2>5. ASSUME c \in clients \ pressed
        PROVE  Gapless(Tail(q), q[1].n, published) /\ q[1].n = Behind(c) + 1
    <3>1. Gapless(q, Behind(c), published) /\ Behind(c) \in Nat
      BY <1>3, <2>1, <2>5, Typed DEF ConnInv, q
    <3>2. q[1].n = Behind(c) + 1 /\ Behind(c) + Len(q) = published
      BY <1>1, <3>1 DEF Gapless
    <3>3. q[1].n + Len(Tail(q)) = published
      BY <1>1, <3>1, <3>2
    <3>4. ASSUME NEW k \in 1 .. Len(Tail(q)) PROVE Tail(q)[k].n = q[1].n + k
      <4>1. Tail(q)[k] = q[k + 1] /\ k + 1 \in 1 .. Len(q)
        BY <1>1
      <4>2. q[k + 1].n = Behind(c) + (k + 1)
        BY <3>1, <4>1 DEF Gapless
      <4> QED BY <3>1, <3>2, <4>1, <4>2
    <3> QED BY <3>2, <3>3, <3>4 DEF Gapless
  <2>6. ASSUME c \in clients, lastTick > since[c]
        PROVE  received[c] >= lastTick \/ q[1].n = lastTick \/ Holds(Tail(q), lastTick)
    <3>1. CASE received[c] >= lastTick
      BY <3>1
    <3>2. CASE Holds(q, lastTick)
      <4>1. PICK k \in 1 .. Len(q) : q[k].n = lastTick
        BY <3>2 DEF Holds
      <4>2. CASE k = 1
        BY <4>1, <4>2
      <4>3. CASE k # 1
        <5>1. k - 1 \in 1 .. Len(Tail(q)) /\ Tail(q)[k - 1] = q[(k - 1) + 1] /\ (k - 1) + 1 = k
          BY <1>1, <4>3
        <5> QED BY <4>1, <5>1 DEF Holds
      <4> QED BY <4>2, <4>3
    <3>3. received[c] >= lastTick \/ Holds(q, lastTick)
      <4>1. received[c] >= lastTick \/ sending[c].n = lastTick \/ Holds(q, lastTick)
        BY <1>3, <2>6 DEF ConnInv, q
      <4>2. sending[c].n = lastTick => received[c] >= lastTick
        BY <1>2, <1>3, Typed, IdleIsNoMessage
      <4> QED BY <4>1, <4>2
    <3> QED BY <3>1, <3>2, <3>3
  <2>7. handler'[c] # "off" => c \in clients'
    BY <1>2, <1>3 DEF ConnInv
  <2>8. received[c] <= published /\ since[c] <= published
    BY <1>3 DEF ConnInv
  <2> QED BY <1>2, <2>1, <2>3, <2>4, <2>5, <2>6, <2>7, <2>8 DEF ConnInv
<1>7. lastTick' <= published'
  BY <1>2 DEF StreamInv
<1> QED BY <1>4, <1>5, <1>6, <1>7 DEF StreamInv

LEMMA SendDoneKeeps ==
    ASSUME StreamInv, NEW c \in Conns, SendDone(c)
    PROVE  StreamInv'
<1>1. /\ queue'[c] = queue[c] /\ sending'[c] = Idle /\ sending[c] # Idle
      /\ handler'[c] = handler[c] /\ handler[c] = "streaming"
      /\ received'[c] = sending[c].n /\ since'[c] = since[c]
      /\ published' = published /\ lastTick' = lastTick
      /\ clients' = clients /\ pressed' = pressed
  BY DEF SendDone, StreamInv, TypeOK
<1>2. ConnInv(c) /\ TypeOK
  BY DEF StreamInv
<1>3. TypeOK'
  BY <1>2, Typed DEF SendDone, TypeOK
<1>4. ASSUME NEW d \in Conns, d # c PROVE ConnInv(d)'
  BY <1>4, OthersKept DEF SendDone, StreamInv, TypeOK
<1>5. ConnInv(c)'
  <2>1. received[c] < sending[c].n /\ sending[c].n <= published
    BY <1>1, <1>2 DEF ConnInv
  <2>2. Taken(c)' = Taken(c)
    BY <1>1 DEF Taken
  <2>3. ASSUME c \in clients \ pressed
        PROVE  Gapless(queue[c], Base(c)', published)
    <3>1. Gapless(queue[c], sending[c].n, published) /\ sending[c].n = Behind(c) + 1
      BY <1>1, <1>2, <2>3 DEF ConnInv, Base
    <3>2. since[c] <= Behind(c) /\ Behind(c) \in Nat /\ since[c] \in Nat
      BY <1>2, Typed DEF Behind
    <3>3. Base(c)' = sending[c].n
      BY <1>1, <3>1, <3>2 DEF Base, Behind
    <3> QED BY <3>1, <3>3
  <2>4. ASSUME c \in clients, lastTick > since[c]
        PROVE  sending[c].n >= lastTick \/ Holds(queue[c], lastTick)
    <3>1. received[c] >= lastTick \/ sending[c].n = lastTick \/ Holds(queue[c], lastTick)
      BY <1>2, <2>4 DEF ConnInv
    <3> QED BY <1>2, <2>1, <3>1, Typed
  <2>5. /\ Ordered(queue[c], Taken(c), published) /\ since[c] <= published
        /\ handler[c] # "off" => c \in clients
    BY <1>2 DEF ConnInv
  <2> QED BY <1>1, <2>1, <2>2, <2>3, <2>4, <2>5 DEF ConnInv
<1>6. lastTick' <= published'
  BY <1>1 DEF StreamInv
<1> QED BY <1>3, <1>4, <1>5, <1>6 DEF StreamInv

\* A cycle's broadcasts to the queue of a client: one message or two
LEMMA BroadcastKeeps ==
    ASSUME NEW q \in Seq(Message), NEW lo \in Nat, NEW hi \in Nat, NEW e \in BOOLEAN,
           Len(q) <= QueueSize, lo <= hi, Ordered(q, lo, hi)
    PROVE  LET tick == [n |-> hi + 1, kind |-> "tick"]
               event == [n |-> hi + 2, kind |-> "event"]
               r == IF e THEN Put(Put(q, tick), event) ELSE Put(q, tick)
               room == IF e THEN 2 ELSE 1
           IN  /\ r \in Seq(Message) /\ Len(r) <= QueueSize
               /\ Ordered(r, lo, hi + room)
               /\ Holds(r, hi + 1)
               /\ Len(q) + room <= QueueSize =>
                      \A b \in Nat : Gapless(q, b, hi) => Gapless(r, b, hi + room)
<1> DEFINE tick == [n |-> hi + 1, kind |-> "tick"]
           event == [n |-> hi + 2, kind |-> "event"]
           p == Put(q, tick)
           r == Put(p, event)
<1>1. tick \in Message /\ event \in Message /\ tick.n = hi + 1 /\ event.n = hi + 2
      /\ tick.kind = "tick" /\ event.kind = "event"
  BY DEF Message
<1> HIDE DEF tick, event
<1>2. /\ p \in Seq(Message) /\ Len(p) <= QueueSize
      /\ Ordered(p, lo, hi + 1) /\ Holds(p, hi + 1)
      /\ Len(q) < QueueSize =>
             /\ Len(p) = Len(q) + 1
             /\ \A b \in Nat : Gapless(q, b, hi) => Gapless(p, b, hi + 1)
  BY <1>1, PutKeeps
<1> HIDE DEF p
<1>3. /\ r \in Seq(Message) /\ Len(r) <= QueueSize
      /\ Ordered(r, lo, hi + 2) /\ Holds(r, hi + 1)
      /\ Len(p) < QueueSize =>
             \A b \in Nat : Gapless(p, b, hi + 1) => Gapless(r, b, hi + 2)
  <2>1. hi + 1 \in Nat /\ lo <= hi + 1 /\ event.n = (hi + 1) + 1 /\ (hi + 1) + 1 = hi + 2
    BY <1>1
  <2> QED BY <1>1, <1>2, <2>1, PutKeeps
<1>4. Len(q) \in Nat /\ QueueSize \in Nat
  BY SizesAssumption
<1>5. CASE e
  <2>1. Len(q) + 2 <= QueueSize => Len(q) < QueueSize /\ Len(q) + 1 < QueueSize
    BY <1>4
  <2> QED BY <1>2, <1>3, <1>5, <2>1 DEF tick, event, p, r
<1>6. CASE ~ e
  <2>1. Len(q) + 1 <= QueueSize => Len(q) < QueueSize
    BY <1>4
  <2> QED BY <1>2, <1>6, <2>1 DEF tick, event, p
<1> QED BY <1>5, <1>6

LEMMA CycleKeeps ==
    ASSUME StreamInv, NEW e \in BOOLEAN, Cycle(e)
    PROVE  StreamInv'
<1> DEFINE room == IF e THEN 2 ELSE 1
           tick == [n |-> published + 1, kind |-> "tick"]
           event == [n |-> published + 2, kind |-> "event"]
           after(q) == IF e THEN Put(Put(q, tick), event) ELSE Put(q, tick)
<1>1. /\ \A c \in Conns : queue'[c] = IF c \in clients THEN after(queue[c]) ELSE queue[c]
      /\ queue' = [c \in Conns |-> IF c \in clients THEN after(queue[c]) ELSE queue[c]]
      /\ published' = published + room /\ lastTick' = published + 1
      /\ pressed' = pressed \cup {c \in clients : Len(queue[c]) + room > QueueSize}
      /\ evicted' = evicted \cup {queue[c][1].kind : c \in
                                      {d \in clients : Len(queue[d]) >= QueueSize}}
      /\ UNCHANGED <<clients, sending, handler, since, received>>
  BY DEF Cycle
<1>2. TypeOK /\ room \in Nat /\ room >= 1 /\ published \in Nat /\ lastTick \in Nat
  BY DEF StreamInv, TypeOK
<1>3. ASSUME NEW c \in Conns
      PROVE  /\ Taken(c) <= published /\ received[c] <= Taken(c)
             /\ Ordered(queue[c], Taken(c), published)
  <2>1. ConnInv(c)
    BY DEF StreamInv
  <2> QED BY <1>2, <2>1, Typed DEF ConnInv, Taken
<1>4. ASSUME NEW c \in Conns
      PROVE  LET r == after(queue[c])
             IN  /\ r \in Seq(Message) /\ Len(r) <= QueueSize
                 /\ Ordered(r, Taken(c), published + room)
                 /\ Holds(r, published + 1)
                 /\ Len(queue[c]) + room <= QueueSize =>
                       \A b \in Nat : Gapless(queue[c], b, published) => Gapless(r, b, published + room)
  <2>1. queue[c] \in Seq(Message) /\ Len(queue[c]) <= QueueSize /\ Taken(c) \in Nat
    BY <1>2, Typed DEF TypeOK
  <2> QED BY <1>2, <1>3, <2>1, BroadcastKeeps
<1> HIDE DEF after, room
<1>5. TypeOK'
  <2>1. queue' \in [Conns -> Seq(Message)] /\ \A c \in Conns : Len(queue'[c]) <= QueueSize
    BY <1>1, <1>2, <1>4 DEF TypeOK
  <2>2. evicted' \in SUBSET {"tick", "event"}
    <3>1. ASSUME NEW c \in clients, Len(queue[c]) >= QueueSize
          PROVE  queue[c][1].kind \in {"tick", "event"}
      <4>1. c \in Conns /\ queue[c] \in Seq(Message) /\ 1 \in 1 .. Len(queue[c])
        BY <1>2, <3>1, SizesAssumption DEF TypeOK
      <4>2. queue[c][1] \in Message
        BY <4>1
      <4> QED BY <4>2 DEF Message
    <3> QED BY <1>1, <1>2, <3>1 DEF TypeOK
  <2>3. published' \in Nat /\ lastTick' \in Nat /\ pressed' \in SUBSET Conns
    BY <1>1, <1>2 DEF TypeOK
  <2> QED BY <1>1, <1>2, <2>1, <2>2, <2>3 DEF TypeOK
<1>6. ASSUME NEW c \in Conns PROVE ConnInv(c)'
  <2>1. ConnInv(c)
    BY DEF StreamInv
  <2>2. /\ sending'[c] = sending[c] /\ handler'[c] = handler[c] /\ received'[c] = received[c]
        /\ since'[c] = since[c] /\ clients' = clients
        /\ Taken(c)' = Taken(c) /\ Base(c)' = Base(c) /\ Behind(c)' = Behind(c)
    BY <1>1 DEF Taken, Base, Behind
  <2>3. /\ received[c] <= published' /\ since[c] <= published'
        /\ sending[c] # Idle => sending[c].n <= published'
    BY <1>1, <1>2, <2>1, Typed DEF ConnInv
  <2>4. CASE c \in clients
    <3>1. queue'[c] = after(queue[c]) /\ Ordered(queue'[c], Taken(c), published')
          /\ Holds(queue'[c], lastTick')
      BY <1>1, <1>4, <2>4
    <3>2. ASSUME c \notin pressed'
          PROVE  /\ Gapless(queue'[c], Base(c), published')
                 /\ sending[c] # Idle => sending[c].n = Behind(c) + 1
      <4>1. c \notin pressed /\ ~ (Len(queue[c]) + room > QueueSize)
        BY <1>1, <2>4, <3>2
      <4>2. Gapless(queue[c], Base(c), published) /\ (sending[c] # Idle => sending[c].n = Behind(c) + 1)
        BY <2>1, <2>4, <4>1 DEF ConnInv
      <4>3. Len(queue[c]) + room <= QueueSize /\ Base(c) \in Nat
        BY <1>2, <4>1, Typed, SizesAssumption
      <4> QED BY <1>1, <1>4, <3>1, <4>2, <4>3
    <3> QED BY <2>1, <2>2, <2>3, <2>4, <3>1, <3>2 DEF ConnInv
  <2>5. CASE c \notin clients
    <3>1. Ordered(queue[c], Taken(c), published')
      <4>1. \A i \in 1 .. Len(queue[c]) : queue[c][i].n \in Nat /\ queue[c][i].n <= published
        BY <1>2, <2>1, Typed DEF ConnInv, Ordered
      <4>2. \A i \in 1 .. Len(queue[c]) : queue[c][i].n <= published'
        BY <1>1, <1>2, <4>1
      <4> QED BY <2>1, <4>2 DEF ConnInv, Ordered
    <3> QED BY <1>1, <2>1, <2>2, <2>3, <2>5, <3>1 DEF ConnInv
  <2> QED BY <2>4, <2>5
<1>7. lastTick' <= published'
  BY <1>1, <1>2
<1> QED BY <1>5, <1>6, <1>7 DEF StreamInv

LEMMA NextStreamInv == StreamInv /\ [Next]_vars => StreamInv'
<1> SUFFICES ASSUME StreamInv, [Next]_vars PROVE StreamInv'
  OBVIOUS
<1>1. ASSUME NEW c \in Conns, Connection(c) PROVE StreamInv'
  BY <1>1, ConnectKeeps, HandlerKeeps, SendTakesKeeps, SendDoneKeeps, RemovedKeeps
     DEF Connection
<1>2. ASSUME NEW e \in BOOLEAN, Cycle(e) PROVE StreamInv'
  BY <1>2, CycleKeeps
<1>3. CASE UNCHANGED vars
  BY <1>3 DEF vars, StreamInv, TypeOK, ConnInv, Taken, Base, Behind
<1> QED BY <1>1, <1>2, <1>3 DEF Next

\* What waits for a client is ordered, later than what it was sent, and complete
\* unless a broadcast found the queue full.
THEOREM StreamInvariance == Spec => []StreamInv
<1>1. Init => StreamInv
  BY InitStreamInv
<1>2. StreamInv /\ [Next]_vars => StreamInv'
  BY NextStreamInv
<1> QED BY <1>1, <1>2, PTL DEF Spec

\* Types, and the bounds on the clients and on each queue, hold for every size.
THEOREM TypeCorrect == Spec => []TypeOK
<1>1. StreamInv => TypeOK
  BY DEF StreamInv
<1> QED BY <1>1, StreamInvariance, PTL

\* No message is lost to a client whose queue was never full (broadcast_sync).
THEOREM NothingLost == Spec => []NothingLostUnpressed
<1>1. StreamInv => NothingLostUnpressed
  <2> SUFFICES ASSUME StreamInv, NEW c \in clients \ pressed
               PROVE  /\ Behind(c) + Len(Ahead(c)) = published
                      /\ \A k \in 1 .. Len(Ahead(c)) : Ahead(c)[k].n = Behind(c) + k
    BY DEF NothingLostUnpressed
  <2>1. c \in Conns /\ TypeOK
    BY DEF StreamInv, TypeOK
  <2>2. /\ Gapless(queue[c], Base(c), published)
        /\ sending[c] # Idle => sending[c].n = Behind(c) + 1
    BY <2>1 DEF StreamInv, ConnInv
  <2>3. queue[c] \in Seq(Message) /\ Len(queue[c]) \in Nat /\ Behind(c) \in Nat
        /\ sending[c] \in Message \cup {Idle}
    BY <2>1, Typed
  <2>4. CASE sending[c] = Idle
    <3>1. Ahead(c) = queue[c] /\ Base(c) = Behind(c)
      BY <2>3, <2>4 DEF Ahead, Base
    <3> QED BY <2>2, <3>1 DEF Gapless
  <2>5. CASE sending[c] # Idle
    <3> DEFINE a == <<sending[c]>> \o queue[c]
    <3>1. /\ Ahead(c) = a /\ Len(a) = Len(queue[c]) + 1 /\ a[1] = sending[c]
          /\ \A k \in 1 .. Len(queue[c]) : a[k + 1] = queue[c][k]
      BY <2>3, <2>5 DEF Ahead
    <3> HIDE DEF a
    <3>2. /\ (Behind(c) + 1) + Len(queue[c]) = published
          /\ \A k \in 1 .. Len(queue[c]) : queue[c][k].n = (Behind(c) + 1) + k
      BY <2>2, <2>5 DEF Gapless, Base
    <3>3. ASSUME NEW k \in 1 .. Len(a) PROVE a[k].n = Behind(c) + k
      <4>1. CASE k = 1
        BY <2>2, <2>5, <3>1, <4>1
      <4>2. CASE k # 1
        <5>1. k - 1 \in 1 .. Len(queue[c]) /\ (k - 1) + 1 = k
          BY <2>3, <3>1, <4>2
        <5>2. a[k].n = (Behind(c) + 1) + (k - 1)
          BY <3>1, <3>2, <5>1
        <5> QED BY <2>3, <5>2
      <4> QED BY <4>1, <4>2
    <3>4. Behind(c) + Len(a) = published
      <4>1. Len(a) = Len(queue[c]) + 1
        BY <3>1
      <4>2. (Behind(c) + 1) + Len(queue[c]) = published
        BY <3>2
      <4>3. Behind(c) \in Nat /\ Len(queue[c]) \in Nat
        BY <2>3
      <4> QED BY <4>1, <4>2, <4>3
    <3> QED BY <3>1, <3>3, <3>4
  <2> QED BY <2>4, <2>5
<1> QED BY <1>1, StreamInvariance, PTL

\* Backpressure never drops the newest tick (broadcast_sync's replacement of the oldest).
THEOREM TickKept == Spec => []FreshTickKept
<1>1. StreamInv => FreshTickKept
  BY DEF StreamInv, TypeOK, ConnInv, Holds, FreshTickKept
<1> QED BY <1>1, StreamInvariance, PTL

\* The stream, with its queues and reconnections, is an ordered lossy stream.
THEOREM Refinement == Spec => ImplementsLossyStream
<1>1. Init => Promise!Init
  BY DEF Init, Promise!Init
<1>2. StreamInv /\ [Next]_vars => [Promise!Next]_<<published, received>>
  <2> SUFFICES ASSUME StreamInv, [Next]_vars
               PROVE  [Promise!Next]_<<published, received>>
    OBVIOUS
  <2>1. ASSUME NEW c \in Conns, SendDone(c) PROVE Promise!Receive(c)
    <3>1. sending[c] # Idle /\ received' = [received EXCEPT ![c] = sending[c].n]
          /\ published' = published
      BY <2>1 DEF SendDone
    <3>2. received[c] < sending[c].n /\ sending[c].n <= published
      BY <3>1 DEF StreamInv, ConnInv
    <3>3. sending[c].n \in received[c] + 1 .. published
      BY <3>2, Typed DEF StreamInv
    <3> QED BY <3>1, <3>3 DEF Promise!Receive
  <2>2. ASSUME NEW e \in BOOLEAN, Cycle(e) PROVE Promise!Publish
    <3>1. published' = published + (IF e THEN 2 ELSE 1) /\ received' = received
      BY <2>2 DEF Cycle
    <3>2. published \in Nat
      BY DEF StreamInv, TypeOK
    <3> QED BY <3>1, <3>2 DEF Promise!Publish
  <2>3. ASSUME NEW c \in Conns, Connection(c), ~ SendDone(c)
        PROVE  UNCHANGED <<published, received>>
    BY <2>3 DEF Connection, Connect, Accepted, AcceptFails, SendTakes, Disconnects, Removed
  <2>4. CASE UNCHANGED vars
    BY <2>4 DEF vars
  <2> QED BY <2>1, <2>2, <2>3, <2>4 DEF Next, Promise!Next
<1> QED BY <1>1, <1>2, StreamInvariance, PTL DEF Spec, ImplementsLossyStream, Promise!Spec
=============================================================================
