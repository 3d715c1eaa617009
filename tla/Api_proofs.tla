------------------------------ MODULE Api_proofs ------------------------------
(***************************************************************************)
(* The two guards in front of the API's routes, each for every value of    *)
(* its constants. The limiter implements the sliding window: a deque is    *)
(* always the tail of the key's admissions from which only admissions      *)
(* outside the window are missing, whether they were popped or forgotten   *)
(* together with the key. Codes and sessions: a code that bought a session *)
(* was drawn and is gone from the dictionary, and being drawn it cannot    *)
(* come back.                                                              *)
(***************************************************************************)
EXTENDS RateLimiter, SessionManager, SequenceTheorems, TLAPS

----------------------------------------------------------------------------
(* The rate limiter *)

\* q is what is left at time t of the admissions l
TailOf(q, l, t) ==
    /\ Len(q) <= Len(l)
    /\ \A j \in 1 .. Len(q) : q[j] = l[Len(l) - Len(q) + j]
    /\ Len(q) < Len(l) => l[Len(l) - Len(q)] + Window < t
    /\ \A i, j \in 1 .. Len(l) : i <= j => l[i] <= l[j]
    /\ \A i \in 1 .. Len(l) : l[i] <= t

\* Any m + 1 admissions in a row span more than the window.
BoundOf(l, m) ==
    \A i \in 1 .. Len(l) : i + m <= Len(l) => l[i] + Window < l[i + m]

LimiterInv ==
    /\ TypeOK
    /\ \A k \in Keys : k \notin tracked => requests[k] = << >>
    /\ \A k \in Keys : TailOf(requests[k], log[k], now)
    /\ \A k \in Keys : BoundOf(log[k], Limit[k])
    /\ RefusedOnlyWhenSaturated

\* Leaving the window is monotonic.
LEMMA EarlierLeaves ==
    \A a, b, c \in Nat : a <= b => (b + Window < c => a + Window < c)
                                /\ (a + Window >= c => b + Window >= c)
BY WindowAssumption

\* Time only moves admissions out of the window.
LEMMA TailLater ==
    ASSUME NEW q \in Seq(Nat), NEW l \in Seq(Nat), NEW t \in Nat, NEW u \in Nat,
           t <= u, TailOf(q, l, t)
    PROVE  TailOf(q, l, u)
<1>1. \A i \in 1 .. Len(l) : l[i] \in Nat
  OBVIOUS
<1>2. \A i \in 1 .. Len(l) : l[i] <= u
  BY <1>1 DEF TailOf
<1>3. Len(q) < Len(l) => l[Len(l) - Len(q)] + Window < u
  BY <1>1, WindowAssumption DEF TailOf
<1> QED BY <1>2, <1>3 DEF TailOf

\* Popping admissions that left the window keeps the tail.
LEMMA TailAfterDrops ==
    ASSUME NEW q \in Seq(Nat), NEW l \in Seq(Nat), NEW t \in Nat, NEW d \in 0 .. Len(q),
           TailOf(q, l, t), \A i \in 1 .. d : q[i] + Window < t
    PROVE  /\ SubSeq(q, d + 1, Len(q)) \in Seq(Nat)
           /\ Len(SubSeq(q, d + 1, Len(q))) = Len(q) - d
           /\ \A j \in 1 .. Len(q) - d : SubSeq(q, d + 1, Len(q))[j] = q[d + j]
           /\ TailOf(SubSeq(q, d + 1, Len(q)), l, t)
<1> DEFINE r == SubSeq(q, d + 1, Len(q))
<1>1. /\ r \in Seq(Nat)
      /\ Len(r) = Len(q) - d
      /\ \A j \in 1 .. Len(q) - d : r[j] = q[d + j]
  <2>1. \A i \in d + 1 .. Len(q) : q[i] \in Nat
    OBVIOUS
  <2> QED BY <2>1, SubSeqProperties
<1> HIDE DEF r
<1>2. \A j \in 1 .. Len(r) : r[j] = l[Len(l) - Len(r) + j]
  BY <1>1 DEF TailOf
<1>3. Len(r) < Len(l) => l[Len(l) - Len(r)] + Window < t
  <2>1. CASE d = 0
    BY <1>1, <2>1 DEF TailOf
  <2>2. CASE d > 0
    <3>1. l[Len(l) - Len(r)] = q[d]
      BY <1>1, <2>2 DEF TailOf
    <3> QED BY <2>2, <3>1
  <2> QED BY <2>1, <2>2
<1>4. TailOf(r, l, t)
  BY <1>1, <1>2, <1>3 DEF TailOf
<1> QED BY <1>1, <1>4 DEF r

\* An admission now extends both.
LEMMA TailAfterAppend ==
    ASSUME NEW q \in Seq(Nat), NEW l \in Seq(Nat), NEW t \in Nat, TailOf(q, l, t)
    PROVE  TailOf(Append(q, t), Append(l, t), t)
<1> DEFINE p == Append(q, t)
           m == Append(l, t)
<1>1. /\ Len(p) = Len(q) + 1 /\ p[Len(q) + 1] = t
      /\ \A j \in 1 .. Len(q) : p[j] = q[j]
      /\ Len(m) = Len(l) + 1 /\ m[Len(l) + 1] = t
      /\ \A j \in 1 .. Len(l) : m[j] = l[j]
  OBVIOUS
<1>2. Len(q) \in Nat /\ Len(l) \in Nat /\ \A j \in 1 .. Len(l) : l[j] \in Nat
  OBVIOUS
<1> HIDE DEF p, m
<1>3. ASSUME NEW j \in 1 .. Len(p) PROVE p[j] = m[Len(m) - Len(p) + j]
  <2>1. Len(m) - Len(p) = Len(l) - Len(q) /\ Len(q) <= Len(l)
    BY <1>1, <1>2 DEF TailOf
  <2>2. CASE j \in 1 .. Len(q)
    <3>1. Len(l) - Len(q) + j \in 1 .. Len(l)
      BY <1>2, <2>1, <2>2
    <3> QED BY <1>1, <2>1, <2>2, <3>1 DEF TailOf
  <2>3. CASE j = Len(q) + 1
    <3>1. Len(l) - Len(q) + j = Len(l) + 1
      BY <1>2, <2>3
    <3> QED BY <1>1, <2>1, <2>3, <3>1
  <2> QED BY <1>1, <1>2, <2>2, <2>3
<1>4. ASSUME NEW i \in 1 .. Len(m), NEW j \in 1 .. Len(m), i <= j PROVE m[i] <= m[j]
  <2>1. CASE j \in 1 .. Len(l)
    <3>1. i \in 1 .. Len(l)
      BY <1>2, <1>4, <2>1
    <3> QED BY <1>1, <1>2, <1>4, <2>1, <3>1 DEF TailOf
  <2>2. CASE j = Len(l) + 1
    <3>1. i \in 1 .. Len(l) \/ i = Len(l) + 1
      BY <1>1, <1>2
    <3> QED BY <1>1, <1>2, <2>2, <3>1 DEF TailOf
  <2> QED BY <1>1, <1>2, <2>1, <2>2
<1>5. ASSUME Len(p) < Len(m) PROVE m[Len(m) - Len(p)] + Window < t
  <2>1. Len(m) - Len(p) = Len(l) - Len(q) /\ Len(l) - Len(q) \in 1 .. Len(l)
    BY <1>1, <1>2, <1>5
  <2>2. m[Len(m) - Len(p)] = l[Len(l) - Len(q)]
    BY <1>1, <2>1
  <2>3. Len(q) < Len(l)
    BY <1>1, <1>2, <1>5
  <2> QED BY <2>2, <2>3 DEF TailOf
<1>6. ASSUME NEW i \in 1 .. Len(m) PROVE m[i] <= t
  <2>1. CASE i \in 1 .. Len(l)
    <3>1. m[i] = l[i] /\ l[i] <= t
      BY <1>1, <2>1 DEF TailOf
    <3> QED BY <3>1
  <2>2. CASE i = Len(l) + 1
    <3>1. m[i] = t
      BY <1>1, <2>2
    <3> QED BY <3>1
  <2> QED BY <1>1, <1>2, <2>1, <2>2
<1>7. Len(p) <= Len(m)
  BY <1>1, <1>2 DEF TailOf
<1>8. TailOf(p, m, t)
  BY <1>3, <1>4, <1>5, <1>6, <1>7 DEF TailOf
<1> QED BY <1>8 DEF p, m

\* A key that the clean-up forgets had nothing left in the window.
LEMMA TailForgotten ==
    ASSUME NEW q \in Seq(Nat), NEW l \in Seq(Nat), NEW t \in Nat, TailOf(q, l, t),
           q = << >> \/ q[Len(q)] + Window < t
    PROVE  TailOf(<< >>, l, t)
<1>1. CASE q = << >>
  BY <1>1
<1>2. CASE q # << >> /\ q[Len(q)] + Window < t
  <2>1. q[Len(q)] = l[Len(l)]
    BY <1>2 DEF TailOf
  <2> QED BY <1>2, <2>1 DEF TailOf
<1> QED BY <1>1, <1>2

\* A deque shorter than the limit leaves room: the admission m before the next one
\* has been dropped from it.
LEMMA BoundAfterAppend ==
    ASSUME NEW q \in Seq(Nat), NEW l \in Seq(Nat), NEW t \in Nat, NEW m \in Nat, m > 0,
           TailOf(q, l, t), BoundOf(l, m), Len(q) < m
    PROVE  BoundOf(Append(l, t), m)
<1> DEFINE a == Append(l, t)
<1>1. /\ Len(a) = Len(l) + 1 /\ a[Len(l) + 1] = t
      /\ \A j \in 1 .. Len(l) : a[j] = l[j]
      /\ Len(l) \in Nat /\ Len(q) \in Nat /\ \A j \in 1 .. Len(l) : l[j] \in Nat
  OBVIOUS
<1> HIDE DEF a
<1>2. ASSUME NEW i \in 1 .. Len(a), i + m <= Len(a) PROVE a[i] + Window < a[i + m]
  <2>1. CASE i + m <= Len(l)
    <3>1. i \in 1 .. Len(l) /\ i + m \in 1 .. Len(l)
      BY <1>1, <1>2, <2>1
    <3> QED BY <1>1, <2>1, <3>1 DEF BoundOf
  <2>2. CASE i + m = Len(l) + 1
    <3>1. /\ i \in 1 .. Len(l) /\ Len(l) - Len(q) \in 1 .. Len(l)
          /\ i <= Len(l) - Len(q) /\ Len(q) < Len(l)
      BY <1>1, <1>2, <2>2
    <3>2. l[i] <= l[Len(l) - Len(q)] /\ l[Len(l) - Len(q)] + Window < t
      BY <1>1, <3>1 DEF TailOf
    <3>3. l[i] \in Nat /\ l[Len(l) - Len(q)] \in Nat /\ a[i] = l[i] /\ a[i + m] = t
      BY <1>1, <2>2, <3>1
    <3>4. l[i] + Window < t
      BY <3>2, <3>3, EarlierLeaves
    <3> QED BY <3>3, <3>4
  <2>3. i + m <= Len(l) \/ i + m = Len(l) + 1
    <3>1. i \in Nat /\ i + m <= Len(l) + 1 /\ Len(l) \in Nat
      BY <1>1, <1>2
    <3> QED BY <3>1
  <2> QED BY <2>1, <2>2, <2>3
<1> QED BY <1>2 DEF BoundOf, a

\* A full deque, popped, means that the last m admissions are in the window.
LEMMA FullIsSaturated ==
    ASSUME NEW q \in Seq(Nat), NEW l \in Seq(Nat), NEW t \in Nat, NEW m \in Nat, m > 0,
           TailOf(q, l, t), Len(q) >= m, q[1] + Window >= t
    PROVE  Len(l) >= m /\ l[Len(l) - m + 1] + Window >= t
<1>1. Len(q) \in Nat /\ Len(l) \in Nat /\ \A j \in 1 .. Len(l) : l[j] \in Nat
  OBVIOUS
<1>2. /\ Len(q) <= Len(l) /\ 1 \in 1 .. Len(q)
      /\ Len(l) - Len(q) + 1 \in 1 .. Len(l)
      /\ Len(l) - m + 1 \in 1 .. Len(l)
      /\ Len(l) - Len(q) + 1 <= Len(l) - m + 1
  BY <1>1 DEF TailOf
<1>3. q[1] = l[Len(l) - Len(q) + 1]
  BY <1>2 DEF TailOf
<1>4. l[Len(l) - Len(q) + 1] <= l[Len(l) - m + 1]
  BY <1>2 DEF TailOf
<1>5. l[Len(l) - Len(q) + 1] \in Nat /\ l[Len(l) - m + 1] \in Nat
  BY <1>1, <1>2
<1>6. Len(l) >= m
  BY <1>1, <1>2
<1>7. l[Len(l) - Len(q) + 1] + Window >= t
  BY <1>3
<1>8. l[Len(l) - m + 1] + Window >= t
  BY <1>4, <1>5, <1>7, EarlierLeaves
<1> QED BY <1>6, <1>8

\* And only then: when a deque has room, the admission that would have to be in the
\* window has been dropped from it.
LEMMA SaturatedIsFull ==
    ASSUME NEW q \in Seq(Nat), NEW l \in Seq(Nat), NEW t \in Nat, NEW m \in Nat, m > 0,
           TailOf(q, l, t), Len(l) >= m, l[Len(l) - m + 1] + Window >= t
    PROVE  Len(q) >= m
<1> SUFFICES ASSUME Len(q) < m PROVE FALSE
  OBVIOUS
<1>1. Len(q) \in Nat /\ Len(l) \in Nat /\ \A j \in 1 .. Len(l) : l[j] \in Nat
  OBVIOUS
<1>2. /\ Len(q) < Len(l)
      /\ Len(l) - m + 1 \in 1 .. Len(l)
      /\ Len(l) - Len(q) \in 1 .. Len(l)
      /\ Len(l) - m + 1 <= Len(l) - Len(q)
  BY <1>1
<1>3. /\ l[Len(l) - m + 1] <= l[Len(l) - Len(q)]
      /\ l[Len(l) - Len(q)] + Window < t
  BY <1>2 DEF TailOf
<1>4. l[Len(l) - m + 1] \in Nat /\ l[Len(l) - Len(q)] \in Nat
  BY <1>1, <1>2
<1>5. l[Len(l) - m + 1] + Window < t
  BY <1>3, <1>4, EarlierLeaves
<1> QED BY <1>4, <1>5, WindowAssumption

\* Nothing is tracked, admitted or refused at first.
LEMMA InitLimiterInv == Init => LimiterInv
<1> SUFFICES ASSUME Init PROVE LimiterInv
  OBVIOUS
<1>1. TypeOK
  <2>1. << >> \in Seq(Nat)
    OBVIOUS
  <2> QED BY <2>1, MaxTimeAssumption DEF Init, TypeOK
<1>2. \A k \in Keys : TailOf(requests[k], log[k], now) /\ BoundOf(log[k], Limit[k])
  BY DEF Init, TailOf, BoundOf
<1>3. RefusedOnlyWhenSaturated
  BY DEF Init, RefusedOnlyWhenSaturated
<1> QED BY <1>1, <1>2, <1>3 DEF Init, LimiterInv

\* The types of one key's state
LEMMA Typed ==
    ASSUME TypeOK, NEW k \in Keys
    PROVE  /\ requests[k] \in Seq(Nat)
           /\ log[k] \in Seq(Nat)
           /\ now \in Nat
           /\ Limit[k] \in Nat /\ Limit[k] > 0
BY MaxTimeAssumption, LimitAssumption DEF TypeOK

\* What left the window stays outside it as the clock advances.
LEMMA TickPreserves ==
    ASSUME LimiterInv, Tick
    PROVE  LimiterInv'
<1>1. TypeOK'
  BY MaxTimeAssumption DEF LimiterInv, TypeOK, Tick
<1>2. log' = log /\ requests' = requests /\ tracked' = tracked
  BY DEF Tick
<1>3. ASSUME NEW k \in Keys PROVE TailOf(requests[k], log[k], now')
  <2>1. now \in Nat /\ now' \in Nat /\ now <= now'
    BY MaxTimeAssumption DEF LimiterInv, TypeOK, Tick
  <2>2. TailOf(requests[k], log[k], now) /\ requests[k] \in Seq(Nat) /\ log[k] \in Seq(Nat)
    BY <1>3, Typed DEF LimiterInv
  <2> QED BY <2>1, <2>2, TailLater
<1>4. RefusedOnlyWhenSaturated'
  BY DEF Tick, RefusedOnlyWhenSaturated
<1> QED BY <1>1, <1>2, <1>3, <1>4 DEF LimiterInv

\* check(): its own key's deque is popped and maybe extended; of the other keys, the
\* clean-up forgets only those with nothing left in the window.
LEMMA CheckPreserves ==
    ASSUME LimiterInv, NEW key \in Keys, check(key)
    PROVE  /\ LimiterInv'
           /\ Promise!Admit(key) \/ UNCHANGED <<now, log>>
<1> DEFINE mine == IF key \in tracked THEN requests[key] ELSE << >>
<1> PICK d \in 0 .. Len(mine) :
      /\ Drops(mine, d)
      /\ tracked' = KeptFor(key) \cup {key}
      /\ LET rest == SubSeq(mine, d + 1, Len(mine))
             full == Full(key, Len(rest))
         IN  /\ requests' = [k \in Keys |->
                    CASE k = key -> IF full THEN rest ELSE Append(rest, now)
                      [] k # key /\ k \in KeptFor(key) -> requests[k]
                      [] OTHER -> << >>]
             /\ log' = [log EXCEPT ![key] = IF full THEN @ ELSE Append(@, now)]
             /\ refused' = IF full THEN refused \cup {key} ELSE refused
      /\ UNCHANGED now
  BY DEF check
<1> DEFINE rest == SubSeq(mine, d + 1, Len(mine))
           full == Full(key, Len(rest))
<1>1. mine = requests[key]
  BY DEF LimiterInv
<1> HIDE DEF mine
<1>2. /\ requests[key] \in Seq(Nat) /\ log[key] \in Seq(Nat) /\ now \in Nat
      /\ TailOf(requests[key], log[key], now) /\ BoundOf(log[key], Limit[key])
      /\ Limit[key] \in Nat /\ Limit[key] > 0
  BY Typed DEF LimiterInv
<1>3. /\ rest \in Seq(Nat)
      /\ Len(rest) = Len(mine) - d
      /\ \A j \in 1 .. Len(mine) - d : rest[j] = mine[d + j]
      /\ TailOf(rest, log[key], now)
  <2>1. \A i \in 1 .. d : requests[key][i] + Window < now
    BY <1>1 DEF Drops
  <2>2. d \in 0 .. Len(requests[key])
    BY <1>1
  <2>3. TailOf(requests[key], log[key], now)
    BY <1>2
  <2> DEFINE s == requests[key]
  <2>4. /\ SubSeq(s, d + 1, Len(s)) \in Seq(Nat)
        /\ Len(SubSeq(s, d + 1, Len(s))) = Len(s) - d
        /\ \A j \in 1 .. Len(s) - d : SubSeq(s, d + 1, Len(s))[j] = s[d + j]
        /\ TailOf(SubSeq(s, d + 1, Len(s)), log[key], now)
    BY <1>2, <2>1, <2>2, <2>3, TailAfterDrops
  <2> QED BY <1>1, <2>4
<1>4. /\ TailOf(Append(rest, now), Append(log[key], now), now)
      /\ TailOf(rest, log[key], now)
  BY <1>2, <1>3, TailAfterAppend
<1>5. ASSUME ~ full PROVE BoundOf(Append(log[key], now), Limit[key])
  <2>1. Len(rest) < Limit[key] /\ Len(rest) \in Nat
    BY <1>2, <1>3, <1>5 DEF Full
  <2> QED BY <1>2, <1>3, <2>1, BoundAfterAppend
<1>6. ASSUME full PROVE Promise!Saturated(key)
  <2>1. Len(rest) >= Limit[key] /\ rest[1] + Window >= now
    <3>1. Len(rest) >= Limit[key]
      BY <1>6 DEF Full
    <3>2. Len(mine) \in Nat /\ d \in Nat /\ Len(mine) - d > 0
      <4>1. Len(mine) \in Nat
        BY <1>1, <1>2
      <4>2. Limit[key] \in Nat /\ Limit[key] > 0 /\ Len(rest) = Len(mine) - d
        BY <1>2, <1>3
      <4> HIDE DEF rest
      <4> QED BY <4>1, <4>2, <3>1
    <3>3. mine[d + 1] + Window >= now
      BY <3>2 DEF Drops
    <3>4. rest[1] = mine[d + 1]
      BY <1>3, <3>2
    <3> QED BY <3>1, <3>3, <3>4
  <2>2. Len(log[key]) >= Limit[key] /\ log[key][Len(log[key]) - Limit[key] + 1] + Window >= now
    BY <1>2, <1>3, <2>1, FullIsSaturated
  <2> QED BY <2>2 DEF Promise!Saturated
<1>6a. ASSUME ~ full PROVE ~ Promise!Saturated(key)
  <2>1. Len(rest) < Limit[key] /\ Len(rest) \in Nat
    BY <1>2, <1>3, <1>6a DEF Full
  <2>2. ASSUME Len(log[key]) >= Limit[key],
               log[key][Len(log[key]) - Limit[key] + 1] + Window >= now
        PROVE  FALSE
    <3>1. Len(rest) >= Limit[key]
      BY <1>2, <1>3, <2>2, SaturatedIsFull
    <3> HIDE DEF rest
    <3> QED BY <1>2, <2>1, <3>1
  <2> QED BY <2>2 DEF Promise!Saturated
<1> HIDE DEF rest, full
<1>7. /\ requests'[key] = IF full THEN rest ELSE Append(rest, now)
      /\ log'[key] = IF full THEN log[key] ELSE Append(log[key], now)
      /\ now' = now
  BY DEF rest, full, LimiterInv, TypeOK
<1>8. ASSUME NEW k \in Keys, k # key
      PROVE  /\ log'[k] = log[k]
             /\ requests'[k] = IF k \in KeptFor(key) THEN requests[k] ELSE << >>
  BY <1>8 DEF LimiterInv, TypeOK
<1>9. TypeOK'
  <2>1. \A k \in Keys : requests'[k] \in Seq(Nat)
    <3>1. << >> \in Seq(Nat)
      OBVIOUS
    <3>2. Append(rest, now) \in Seq(Nat)
      BY <1>2, <1>3 DEF rest
    <3> QED BY <1>3, <1>7, <1>8, <3>1, <3>2, Typed DEF rest, LimiterInv
  <2>2. \A k \in Keys : log'[k] \in Seq(Nat)
    BY <1>2, <1>7, <1>8, Typed DEF LimiterInv
  <2>3. requests' \in [Keys -> Seq(Nat)]
    BY <2>1
  <2>4. log' \in [Keys -> Seq(Nat)]
    BY <2>2 DEF LimiterInv, TypeOK
  <2>5. tracked' \in SUBSET Keys /\ refused' \in SUBSET Keys /\ now' \in 0 .. MaxTime
    BY DEF LimiterInv, TypeOK, KeptFor
  <2> QED BY <2>3, <2>4, <2>5 DEF TypeOK
<1>10. ASSUME NEW k \in Keys PROVE TailOf(requests'[k], log'[k], now')
  <2>1. CASE k = key
    BY <1>3, <1>4, <1>7, <2>1 DEF rest
  <2>2. CASE k # key /\ (k \in KeptFor(key) \/ k \notin tracked)
    BY <1>7, <1>8, <2>2 DEF LimiterInv
  <2>3. CASE k # key /\ k \notin KeptFor(key) /\ k \in tracked
    <3>1. Stale(k)
      BY <2>3 DEF KeptFor
    <3>2. TailOf(<< >>, log[k], now)
      BY <3>1, Typed, TailForgotten DEF Stale, LimiterInv
    <3> QED BY <1>7, <1>8, <2>3, <3>2
  <2> QED BY <2>1, <2>2, <2>3
<1>11. ASSUME NEW k \in Keys PROVE BoundOf(log'[k], Limit[k])
  BY <1>2, <1>5, <1>7, <1>8 DEF LimiterInv
<1>12. ASSUME NEW k \in Keys, k \notin tracked' PROVE requests'[k] = << >>
  BY <1>8, <1>12 DEF LimiterInv
<1>13. RefusedOnlyWhenSaturated'
  <2>1. ASSUME NEW k \in refused', k # key PROVE Promise!Saturated(k)'
    <3>1. k \in refused /\ k \in Keys
      BY <2>1 DEF LimiterInv, TypeOK
    <3>2. Promise!Saturated(k)
      BY <3>1 DEF LimiterInv, RefusedOnlyWhenSaturated
    <3> QED BY <1>7, <1>8, <2>1, <3>1, <3>2 DEF Promise!Saturated
  <2>2. CASE full
    BY <1>6, <1>7, <2>1, <2>2 DEF RefusedOnlyWhenSaturated, Promise!Saturated
  <2>3. CASE ~ full
    <3>1. key \notin refused
      BY <1>6a, <2>3 DEF LimiterInv, RefusedOnlyWhenSaturated
    <3>2. refused' = refused
      BY <2>3 DEF full, rest
    <3> QED BY <2>1, <3>1, <3>2 DEF RefusedOnlyWhenSaturated, Promise!Saturated
  <2> QED BY <2>2, <2>3
<1>14. Promise!Admit(key) \/ UNCHANGED <<now, log>>
  <2>1. CASE full
    BY <1>7, <1>8, <1>9, <2>1 DEF LimiterInv, TypeOK
  <2>2. CASE ~ full
    <3>1. log' = [log EXCEPT ![key] = Append(@, now)]
      BY <2>2 DEF full, rest
    <3> QED BY <1>6a, <1>7, <2>2, <3>1 DEF Promise!Admit
  <2> QED BY <2>1, <2>2
<1>15. LimiterInv'
  BY <1>9, <1>10, <1>11, <1>12, <1>13 DEF LimiterInv
<1> QED BY <1>14, <1>15

\* No step breaks the invariant, and every step is one of the promise's or leaves the
\* clock and the admissions as they are.
LEMMA NextLimiterInv ==
    LimiterInv /\ [Next]_vars => LimiterInv' /\ [Promise!Next]_<<now, log>>
<1> SUFFICES ASSUME LimiterInv, [Next]_vars
             PROVE  LimiterInv' /\ [Promise!Next]_<<now, log>>
  OBVIOUS
<1>1. CASE Tick
  <2>1. LimiterInv'
    BY <1>1, TickPreserves
  <2>2. Promise!Tick
    BY <1>1, MaxTimeAssumption DEF LimiterInv, TypeOK, Tick, Promise!Tick
  <2> QED BY <2>1, <2>2 DEF Promise!Next
<1>2. ASSUME NEW key \in Keys, check(key)
      PROVE  LimiterInv' /\ [Promise!Next]_<<now, log>>
  BY <1>2, CheckPreserves DEF Promise!Next
<1>3. CASE UNCHANGED vars
  BY <1>3 DEF vars, LimiterInv, TypeOK, RefusedOnlyWhenSaturated, Promise!Saturated, Stale,
              TailOf, BoundOf
<1> QED BY <1>1, <1>2, <1>3 DEF Next

\* Deques are tails, whatever the interleaving of keys and clock.
THEOREM LimiterInvariance == Spec => []LimiterInv
<1>1. Init => LimiterInv
  BY InitLimiterInv
<1>2. LimiterInv /\ [Next]_vars => LimiterInv'
  BY NextLimiterInv
<1> QED BY <1>1, <1>2, PTL DEF Spec

\* No window holds more admissions of a key than its limit (check(), lines 36-45).
THEOREM LimitHolds == Spec => []WindowBound
<1>1. LimiterInv => WindowBound
  BY DEF LimiterInv, BoundOf, WindowBound, Promise!WindowBound
<1> QED BY <1>1, LimiterInvariance, PTL

\* check() refuses no request that the limit allows.
THEOREM RefusalIsJustified == Spec => []RefusedOnlyWhenSaturated
<1>1. LimiterInv => RefusedOnlyWhenSaturated
  BY DEF LimiterInv
<1> QED BY <1>1, LimiterInvariance, PTL

\* The limiter, with its popping and clean-up, implements the sliding window.
THEOREM Refinement == Spec => ImplementsSlidingWindow
<1>1. Init => Promise!Init
  BY DEF Init, Promise!Init
<1>2. LimiterInv /\ [Next]_vars => [Promise!Next]_<<now, log>>
  BY NextLimiterInv
<1> QED BY <1>1, <1>2, LimiterInvariance, PTL DEF Spec, ImplementsSlidingWindow, Promise!Spec

----------------------------------------------------------------------------
(* Codes and sessions *)

LEMMA InitSessionInv == SessionInit => SessionInv
BY DisjointCodes, TtlAssumption
   DEF SessionInit, SessionInv, SessionTypeOK, AllCodes, SingleUse

\* A caller that returns leaves the readings of the others as they are.
LEMMA ReturnsKeepsReadings ==
    ASSUME SessionInv, NEW h \in Callers, Returns(h), clock' = clock
    PROVE  /\ calling' \in SUBSET Callers /\ reading' \in [Callers -> Nat]
           /\ \A g \in Callers : reading'[g] <= clock'
           /\ reading[h] \in Nat /\ clock \in Nat /\ reading[h] <= clock
BY TtlAssumption DEF SessionInv, SessionTypeOK, Returns

\* Registering a code: a drawn code is not registered again.
LEMMA CreateKeeps ==
    ASSUME SessionInv, NEW h \in Callers, NEW c \in AllCodes, create_bootstrap_code(h, c)
    PROVE  SessionInv'
<1> USE DEF create_bootstrap_code
<1>0. /\ calling' \in SUBSET Callers /\ reading' \in [Callers -> Nat]
      /\ \A g \in Callers : reading'[g] <= clock'
      /\ reading[h] \in Nat
  BY ReturnsKeepsReadings
<1>1. SessionTypeOK'
  <2>1. createdAt' \in [Codes -> Nat]
    BY <1>0 DEF SessionInv, SessionTypeOK
  <2>2. codeExpires' \in [AllCodes -> Nat]
    BY <1>0, TtlAssumption DEF SessionInv, SessionTypeOK
  <2> QED BY <1>0, <2>1, <2>2 DEF SessionInv, SessionTypeOK, AllCodes
<1>2. ASSUME NEW t \in Tokens, source'[t] \in Codes
      PROVE  /\ source'[t] \in drawn' \ bootstraps'
             /\ expires'[t] <= codeExpires'[source'[t]] + waited'[t] + SessionTtl
  BY <1>2, DisjointCodes DEF SessionInv, SessionTypeOK, AllCodes
<1>3. bootstraps' \cap Codes \subseteq drawn'
  BY DEF SessionInv
<1>4. SingleUse'
  BY DEF SessionInv, SingleUse
<1>5. ASSUME NEW d \in drawn' PROVE codeExpires'[d] = createdAt'[d] + CodeTtl
  <2>1. CASE d = c
    BY <1>5, <2>1, DisjointCodes DEF SessionInv, SessionTypeOK, AllCodes
  <2>2. CASE d # c
    BY <1>5, <2>2, DisjointCodes DEF SessionInv, SessionTypeOK, AllCodes
  <2> QED BY <2>1, <2>2
<1>6. /\ sessions' \cap revoked' = {} /\ accepted' \cap revoked' = {}
      /\ \A t \in sessions' \cup revoked' \cup accepted' : source'[t] # NoCode
      /\ \A t \in accepted' : acceptedAt'[t] <= expires'[t]
  BY DEF SessionInv
<1> QED BY <1>0, <1>1, <1>2, <1>3, <1>4, <1>5, <1>6 DEF SessionInv

\* An exchange: the session is new, and the ephemeral code leaves the dictionary.
LEMMA ExchangeKeeps ==
    ASSUME SessionInv, NEW h \in Callers, NEW c \in AllCodes, exchange_bootstrap(h, c)
    PROVE  SessionInv'
<1>0. /\ calling' \in SUBSET Callers /\ reading' \in [Callers -> Nat]
      /\ \A g \in Callers : reading'[g] <= clock'
      /\ reading[h] \in Nat /\ clock \in Nat /\ reading[h] <= clock
  BY ReturnsKeepsReadings DEF exchange_bootstrap
<1>1. CASE bootstraps' \subseteq bootstraps /\ UNCHANGED <<sessions, expires, source, waited>>
  BY <1>0, <1>1 DEF SessionInv, SessionTypeOK, SingleUse, exchange_bootstrap
<1>2. ASSUME c \in bootstraps, ~ CodeExpired(c, reading[h]), bootstraps' = Consumed(c),
             NEW t \in Tokens, create_session(h, c, t)
      PROVE  SessionInv'
  <2>1. /\ source[t] = NoCode /\ t \notin sessions /\ t \notin revoked /\ t \notin accepted
        /\ reading[h] <= codeExpires[c] /\ codeExpires[c] \in Nat
    BY <1>0, <1>2, TtlAssumption
       DEF create_session, SessionInv, SessionTypeOK, CodeExpired
  <2>2. /\ source' = [source EXCEPT ![t] = c]
        /\ expires' = [expires EXCEPT ![t] = clock + SessionTtl]
        /\ waited' = [waited EXCEPT ![t] = clock - reading[h]]
        /\ sessions' = sessions \cup {t}
        /\ UNCHANGED <<clock, codeExpires, createdAt, drawn, revoked, accepted, acceptedAt>>
    BY <1>2 DEF create_session, exchange_bootstrap
  <2>3. bootstraps' \subseteq bootstraps /\ (c \in Codes => c \notin bootstraps')
    BY <1>2, DisjointCodes DEF Consumed
  <2>4. SessionTypeOK'
    <3>1. clock - reading[h] \in Nat
      BY <1>0
    <3> QED BY <1>0, <2>2, <2>3, <3>1, TtlAssumption DEF SessionInv, SessionTypeOK
  <2>5. ASSUME NEW u \in Tokens, source'[u] \in Codes
        PROVE  /\ source'[u] \in drawn' \ bootstraps'
               /\ expires'[u] <= codeExpires'[source'[u]] + waited'[u] + SessionTtl
    <3>1. CASE u = t
      <4>1. source'[u] = c /\ c \in drawn
        BY <1>2, <2>2, <2>5, <3>1 DEF SessionInv, SessionTypeOK
      <4>2. expires'[u] = clock + SessionTtl /\ waited'[u] = clock - reading[h]
        BY <2>2, <3>1 DEF SessionInv, SessionTypeOK
      <4> QED BY <1>0, <2>1, <2>2, <2>3, <2>5, <4>1, <4>2, TtlAssumption
    <3>2. CASE u # t
      BY <2>2, <2>3, <2>5, <3>2 DEF SessionInv, SessionTypeOK
    <3> QED BY <3>1, <3>2
  <2>6. SingleUse'
    <3>1. ASSUME NEW u \in Tokens, u # t, source[u] \in Codes PROVE source[u] # c
      BY <1>2, <3>1 DEF SessionInv
    <3> QED BY <2>2, <3>1 DEF SessionInv, SessionTypeOK, SingleUse
  <2>7. \A u \in sessions' \cup revoked' \cup accepted' : source'[u] # NoCode
    BY <2>2, DisjointCodes DEF SessionInv, SessionTypeOK, AllCodes
  <2>8. \A u \in accepted' : acceptedAt'[u] <= expires'[u]
    BY <2>1, <2>2 DEF SessionInv, SessionTypeOK
  <2>9. /\ sessions' \cap revoked' = {} /\ accepted' \cap revoked' = {}
        /\ bootstraps' \cap Codes \subseteq drawn'
        /\ \A d \in drawn' : codeExpires'[d] = createdAt'[d] + CodeTtl
    BY <2>1, <2>2, <2>3 DEF SessionInv
  <2> QED BY <1>0, <2>4, <2>5, <2>6, <2>7, <2>8, <2>9 DEF SessionInv
<1>3. CASE c \notin bootstraps /\ UNCHANGED <<bootstraps, sessions, expires, source, waited>>
  BY <1>1, <1>3
<1> QED BY <1>1, <1>2, <1>3 DEF exchange_bootstrap

\* A session is accepted while it is there, and what is revoked has left for good.
LEMMA SessionStepKeeps ==
    ASSUME SessionInv, NEW t \in Tokens,
           (\E h \in Callers : validate_session(h, t)) \/ revoke_session(t)
    PROVE  SessionInv'
<1>1. ASSUME NEW h \in Callers, validate_session(h, t) PROVE SessionInv'
  <2>1. /\ calling' \in SUBSET Callers /\ reading' \in [Callers -> Nat]
        /\ \A g \in Callers : reading'[g] <= clock'
        /\ reading[h] \in Nat
    BY <1>1, ReturnsKeepsReadings DEF validate_session
  <2> QED BY <1>1, <2>1 DEF SessionInv, SessionTypeOK, SingleUse, validate_session
<1>2. CASE revoke_session(t)
  BY <1>2 DEF SessionInv, SessionTypeOK, SingleUse, revoke_session, SessionDeleted
<1> QED BY <1>1, <1>2

LEMMA NextSessionInv == SessionInv /\ [SessionNext]_sessionVars => SessionInv'
<1> SUFFICES ASSUME SessionInv, [SessionNext]_sessionVars PROVE SessionInv'
  OBVIOUS
<1>1. CASE SessionTick
  BY <1>1, TtlAssumption DEF SessionTick, SessionInv, SessionTypeOK, SingleUse
<1>2. ASSUME NEW h \in Callers, ReadsClock(h) PROVE SessionInv'
  BY <1>2, TtlAssumption DEF ReadsClock, SessionInv, SessionTypeOK, SingleUse
<1>3. ASSUME NEW h \in Callers, cleanup_expired(h) PROVE SessionInv'
  <2>1. /\ calling' \in SUBSET Callers /\ reading' \in [Callers -> Nat]
        /\ \A g \in Callers : reading'[g] <= clock'
    BY <1>3, ReturnsKeepsReadings DEF cleanup_expired
  <2> QED BY <1>3, <2>1 DEF cleanup_expired, SessionInv, SessionTypeOK, SingleUse
<1>4. CASE UNCHANGED sessionVars
  BY <1>4 DEF sessionVars, SessionInv, SessionTypeOK, SingleUse
<1> QED BY <1>1, <1>2, <1>3, <1>4, CreateKeeps, ExchangeKeeps, SessionStepKeeps DEF SessionNext

\* A code that bought a session is gone for good, and sessions end in time.
THEOREM SessionInvariance == SessionSpec => []SessionInv
BY InitSessionInv, NextSessionInv, PTL DEF SessionSpec

\* An ephemeral bootstrap code is exchanged at most once.
THEOREM CodesAreSingleUse == SessionSpec => []SingleUse
<1>1. SessionInv => SingleUse
  BY DEF SessionInv
<1> QED BY <1>1, SessionInvariance, PTL

\* What an ephemeral code gives access to ends with its life plus one session's life, up
\* to the time its exchange waited for the lock, for any callers and any lifetimes.
THEOREM AccessEnds == SessionSpec => []AccessIsBounded
<1>1. SessionInv => AccessIsBounded
  <2> SUFFICES ASSUME SessionInv, NEW t \in accepted, source[t] \in Codes
               PROVE  acceptedAt[t] <= createdAt[source[t]] + CodeTtl + waited[t] + SessionTtl
    BY DEF AccessIsBounded
  <2>1. t \in Tokens /\ source[t] \in drawn /\ source[t] \in AllCodes
    BY DEF SessionInv, SessionTypeOK, AllCodes
  <2>2. /\ acceptedAt[t] <= expires[t]
        /\ expires[t] <= codeExpires[source[t]] + waited[t] + SessionTtl
        /\ codeExpires[source[t]] = createdAt[source[t]] + CodeTtl
    BY <2>1 DEF SessionInv
  <2>3. /\ acceptedAt[t] \in Nat /\ expires[t] \in Nat /\ waited[t] \in Nat
        /\ createdAt[source[t]] \in Nat
    BY <2>1, TtlAssumption DEF SessionInv, SessionTypeOK
  <2> QED BY <2>2, <2>3, TtlAssumption
<1> QED BY <1>1, SessionInvariance, PTL

\* A revoked session is never accepted again.
THEOREM RevokedStayOut == SessionSpec => []RevocationIsFinal
<1>1. SessionInv => RevocationIsFinal
  BY DEF SessionInv, RevocationIsFinal
<1> QED BY <1>1, SessionInvariance, PTL
=============================================================================
