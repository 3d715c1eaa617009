-------------------------- MODULE MC_Investigation --------------------------
(* Two process numbers; a browser in the public folder, a store app and a     *)
(* protected system process.                                                    *)
EXTENDS Investigation, TLC

CONSTANTS p1, p2

Browser == [name |-> "browser", place |-> "public", packaged |-> FALSE]
Store == [name |-> "store", place |-> "system", packaged |-> TRUE]
Lsass == [name |-> "lsass", place |-> "system", packaged |-> FALSE]

SomeApps == {Browser, Lsass, Store}
TwoPids == {p1, p2}
Symmetry == Permutations(TwoPids)
NoKernelPid == {}
OneSensor == {"camera"}
ProtectedNames == {"lsass"}
SomeSettings ==
    {[posture |-> SecurePosture, startup |-> {}],
     [posture |-> [SecurePosture EXCEPT !.realtime = FALSE], startup |-> {Browser}]}
SomeSockets == [app \in SomeApps |-> {[listens |-> app = Lsass, remote |-> app # Lsass]}]
SomeFailures == {{}, {"realtime", "startup"}}
SomeLoads == {[upload |-> 3000, saturated |-> FALSE, crowded |-> TRUE]}
=============================================================================
