---------------------------- MODULE MonitoredHost ----------------------------
(***************************************************************************)
(* The composition of the risk engine and the incident tracker: in each    *)
(* cycle of the daemon one signal of the host changes or none does, the    *)
(* scan scores the reading it finds, and the tracker is given the security *)
(* event of that reading. The host knows nothing of a restart of the agent.*)
(***************************************************************************)
EXTENDS RiskEngine, IncidentLifecycle

hostVars == <<vars, reading>>

HostInit == Init /\ EngineInit

\* _execute_cycle: scan_once, and evaluate_event on its event
ScansReading ==
    /\ reading' \in Readings
    /\ \E e \in {SecurityEvent(reading')} : Cycle(e)

SensorCycle == SensorChanges /\ ScansReading
UploadCycle == UploadChanges /\ ScansReading
AnomalyCycle == AnomalyChanges /\ ScansReading
VerdictCycle == VerdictChanges /\ ScansReading

AgentRestarts == Restart /\ UNCHANGED reading

HostNext == SensorCycle \/ UploadCycle \/ AnomalyCycle \/ VerdictCycle \/ AgentRestarts

HostSpec == HostInit /\ [][HostNext]_hostVars
=============================================================================
