---------------------------- MODULE RateLimiter ----------------------------
(***************************************************************************)
(* aura/api/ratelimit.py: the sliding-window limiter in front of the API's *)
(* authentication, scan, state and acknowledgement routes. The route       *)
(* handlers are coroutines of one event loop, so calls of check() follow   *)
(* one another and see a clock that never runs backwards.                  *)
(***************************************************************************)
EXTENDS Naturals, Sequences, FiniteSets

CONSTANTS Keys,      \* the keys the routes use: prefix and address or token id
          Limit,     \* max_requests of each key's route
          Window,    \* window_seconds: 60.0 on every route, in clock ticks
          MaxKeys,   \* max_tracked_keys
          MaxTime    \* bound: the clock stops here

ASSUME LimitAssumption == Limit \in [Keys -> Nat \ {0}]
ASSUME WindowAssumption == Window \in Nat \ {0}
ASSUME MaxKeysAssumption == MaxKeys \in Nat \ {0}
ASSUME MaxTimeAssumption == MaxTime \in Nat

VARIABLES
    now,       \* time.monotonic()
    tracked,   \* the keys of _requests
    requests,  \* the deque of each tracked key; << >> for the others
    log,       \* history: every admission of each key
    refused    \* history: the keys refused at this tick

vars == <<now, tracked, requests, log, refused>>

TypeOK ==
    /\ now \in 0 .. MaxTime
    /\ tracked \in SUBSET Keys
    /\ requests \in [Keys -> Seq(Nat)]
    /\ log \in [Keys -> Seq(Nat)]
    /\ refused \in SUBSET Keys

Init ==
    /\ now = 0
    /\ tracked = {}
    /\ requests = [k \in Keys |-> << >>]
    /\ log = [k \in Keys |-> << >>]
    /\ refused = {}

Tick ==
    /\ now < MaxTime
    /\ now' \in now + 1 .. MaxTime
    /\ refused' = {}
    /\ UNCHANGED <<tracked, requests, log>>

\* _cleanup: keys without an admission in the window
StaleByFirst(k) == requests[k] = << >> \/ requests[k][1] + Window < now
Stale(k) == requests[k] = << >> \/ requests[k][Len(requests[k])] + Window < now

\* The keys that stay when key is looked up: a new key triggers the clean-up when
\* MaxKeys are tracked, and is then tracked whatever the clean-up freed.
KeptFor(key) ==
    IF key \notin tracked /\ Cardinality(tracked) >= MaxKeys
    THEN {k \in tracked : ~ Stale(k)}
    ELSE tracked

\* The while loop pops d admissions: those at the front that left the window.
DropsNothing(s, d) == d = 0
Drops(s, d) ==
    /\ \A i \in 1 .. d : s[i] + Window < now
    /\ d < Len(s) => s[d + 1] + Window >= now

\* len(timestamps) >= max_requests
FullOffByOne(key, n) == n > Limit[key]
Full(key, n) == n >= Limit[key]

\* check(): admitted and recorded, or refused
check(key) ==
    LET mine == IF key \in tracked THEN requests[key] ELSE << >>
    IN  \E d \in 0 .. Len(mine) :
          /\ Drops(mine, d)
          /\ tracked' = KeptFor(key) \cup {key}
          /\ LET rest == SubSeq(mine, d + 1, Len(mine))
                 full == Full(key, Len(rest))
             IN  /\ requests' = [k \in Keys |->
                        CASE k = key -> IF full THEN rest ELSE Append(rest, now)
                          [] k # key /\ k \in KeptFor(key) -> requests[k]
                          [] OTHER -> << >>]
                 /\ log' = [log EXCEPT ![key] = IF full THEN @ ELSE Append(@, now)]
                 /\ refused' = IF full THEN refused \cup {key} ELSE refused
          /\ UNCHANGED now

Next == Tick \/ \E key \in Keys : check(key)

Spec == Init /\ [][Next]_vars

-----------------------------------------------------------------------------
(* Properties *)

Promise == INSTANCE SlidingWindow

\* Dropping, forgetting and re-creating deques never lets a key exceed its limit in
\* any window: a client gets at most max_requests through per window_seconds.
WindowBound == Promise!WindowBound

\* Nor does it refuse a request that the limit allows: check() is False only if the
\* key's last max_requests admissions all lie in the window.
RefusedOnlyWhenSaturated ==
    \A k \in refused : Promise!Saturated(k)

\* The limiter implements the sliding window.
ImplementsSlidingWindow == Promise!Spec

\* "bounded in-memory": no more keys are tracked than max_tracked_keys.
TrackedKeysBounded == Cardinality(tracked) <= MaxKeys
=============================================================================
