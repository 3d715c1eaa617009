-------------------------- MODULE MC_MonitoredHost --------------------------
(* Without the microphone, which the rules treat as they treat the camera, and *)
(* without process expansion, the one rule that excludes no other.             *)
EXTENDS MonitoredHost

SomeMlPoints == {15, 30}
SomeReadings == {r \in Reading : r.mic = "OFF" /\ ~ r.processes}

\* For WorseHostsNeverScoreLower, which the microphone violates.
MicReadings == {r \in Reading : r.camera = "OFF" /\ ~ r.processes}
=============================================================================
