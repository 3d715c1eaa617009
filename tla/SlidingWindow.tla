--------------------------- MODULE SlidingWindow ---------------------------
(***************************************************************************)
(* What the API's rate limiter promises its callers: of the requests made  *)
(* under a key, those are admitted that keep the number of admissions in   *)
(* any window of Window ticks at Limit[key] or below, and no other request *)
(* is refused.                                                             *)
(***************************************************************************)
EXTENDS Naturals, Sequences

CONSTANTS Keys,    \* client addresses and session token ids, with their prefix
          Limit,   \* max_requests of each key
          Window   \* window_seconds, in ticks of the clock

VARIABLES now,     \* the monotonic clock
          log      \* the times at which requests of each key were admitted

\* The last Limit[k] admissions all lie in the window that ends now.
Saturated(k) ==
    /\ Len(log[k]) >= Limit[k]
    /\ log[k][Len(log[k]) - Limit[k] + 1] + Window >= now

Init ==
    /\ now \in Nat
    /\ log = [k \in Keys |-> << >>]

Tick == now' > now /\ now' \in Nat /\ UNCHANGED log

Admit(k) ==
    /\ ~ Saturated(k)
    /\ log' = [log EXCEPT ![k] = Append(@, now)]
    /\ UNCHANGED now

Next == Tick \/ \E k \in Keys : Admit(k)

Spec == Init /\ [][Next]_<<now, log>>

-----------------------------------------------------------------------------
\* Of any Limit + 1 admissions of a key in a row, the last is more than a window
\* later than the first.
WindowBound ==
    \A k \in Keys : \A i \in 1 .. Len(log[k]) :
        i + Limit[k] <= Len(log[k]) => log[k][i] + Window < log[k][i + Limit[k]]
=============================================================================
