------------------------- MODULE MC_LegacyDashboard -------------------------
(* Instances of LegacyDashboard for TLC: one tab beside a terminal monitor, or two tabs. *)
EXTENDS LegacyDashboard

CONSTANTS s1, s2, t1

OneTab == {s1}
TwoTabs == {s1, s2}
OneTerminal == {t1}
NoTerminal == {}

Reading(ifScore, lofScore, net, procs, remote) ==
    [ifScore |-> ifScore, lofScore |-> lofScore, net |-> net, procs |-> procs, remote |-> remote]

Quiet == Reading(20, 10, 0, 100, 0)
Loud == Reading(-20, -10, 5000, 200, 75)
QuietAndLoud == {Quiet, Loud}

\* One row of the version that knew the risk but did not store a severity.
OldRow == [event |-> [by |-> "earlier", n |-> 0, demo |-> FALSE], risk |-> "MEDIUM", score |-> 30,
           procs |-> 100, Battery |-> 80]
OneOldLog == {<<OldRow>>}
NoOldLog == {}

OneProbe == {"network"}
=============================================================================
