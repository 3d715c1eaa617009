--------------------------- MODULE MC_RateLimiter ---------------------------
(* Three keys of two routes: one allows a single request per window, one two. *)
EXTENDS RateLimiter

CONSTANTS auth1, auth2, scan1

ThreeKeys == {auth1, auth2, scan1}
RouteLimit == [k \in ThreeKeys |-> IF k = scan1 THEN 1 ELSE 2]
=============================================================================
