-------------------------- MODULE IncidentLifecycle --------------------------
(***************************************************************************)
(* The daemon's notifications: each monitoring cycle scans once and hands  *)
(* the security event to the incident tracker                              *)
(* (aura/agent/notifications.py), which decides whether the user is told.  *)
(* The cycles are sequential, so a cycle is one step. The tracker is in    *)
(* memory: a restart of the agent forgets every incident. An incident that *)
(* is resolved and one that was never seen are treated alike by the code,  *)
(* and are alike here: not in open.                                        *)
(***************************************************************************)
EXTENDS RiskScoring, Sequences

CONSTANTS Readings,   \* the telemetry the host can show
          MinLevel    \* min_severity of the tracker; the daemon passes MEDIUM

ASSUME ReadingsAssumption == Readings \subseteq Reading
ASSUME MinLevelAssumption == MinLevel \in Level

VARIABLES
    open,      \* the incidents tracked and not resolved
    notified,  \* notified_severity of each, 0 for None
    last,      \* the last event and whether the user was notified of it
    told       \* history: the severities the user was told of each open incident

vars == <<open, notified, last, told>>

NothingSeen == [event |-> SecurityEvent(QuietHost), notify |-> FALSE]

Init ==
    /\ open = {}
    /\ notified = [i \in Incidents |-> 0]
    /\ last = NothingSeen
    /\ told = [i \in Incidents |-> <<>>]

\* 1. an event of level zero, or one that says it is resolved, closes its incident
Resolves(e) == e.level = 0 \/ e.resolved

resolve(e) ==
    /\ Resolves(e)
    /\ open' = open \ {e.incident}
    /\ notified' = [notified EXCEPT ![e.incident] = 0]
    /\ told' = [told EXCEPT ![e.incident] = <<>>]

\* 2. below the minimum severity nothing is told
below_minimum(e) ==
    /\ ~ Resolves(e) /\ e.level < MinLevel
    /\ UNCHANGED <<open, notified, told>>

\* 3. a new incident, or one that occurs again after its resolution
new_incident(e) ==
    /\ ~ Resolves(e) /\ e.level >= MinLevel
    /\ e.incident \notin open
    /\ open' = open \cup {e.incident}
    /\ notified' = [notified EXCEPT ![e.incident] = e.level]
    /\ told' = [told EXCEPT ![e.incident] = <<e.level>>]

\* 4. an open incident that became worse than the user was told
SameOrWorse(e) == e.level >= notified[e.incident]
WorstOnly(e) == e.level > notified[e.incident] /\ e.level = Critical
Escalates(e) == e.level > notified[e.incident]

severity_escalation(e) ==
    /\ ~ Resolves(e) /\ e.level >= MinLevel
    /\ e.incident \in open /\ Escalates(e)
    /\ notified' = [notified EXCEPT ![e.incident] = e.level]
    /\ told' = [told EXCEPT ![e.incident] = Append(@, e.level)]
    /\ UNCHANGED open

\* 5. anything else about an open incident was told before
deduplicate(e) ==
    /\ ~ Resolves(e) /\ e.level >= MinLevel
    /\ e.incident \in open /\ ~ Escalates(e)
    /\ UNCHANGED <<open, notified, told>>

evaluate_event(e) ==
    \/ /\ new_incident(e) \/ severity_escalation(e)
       /\ last' = [event |-> e, notify |-> TRUE]
    \/ /\ resolve(e) \/ below_minimum(e) \/ deduplicate(e)
       /\ last' = [event |-> e, notify |-> FALSE]

\* scan_once on some telemetry, and evaluate_event on its event
ScanEvents == {SecurityEvent(r) : r \in Readings}

Cycle(e) == evaluate_event(e)

\* the agent stops and starts: AuraAgentDaemon.__init__ builds a new tracker
Restart ==
    /\ open' = {}
    /\ notified' = [i \in Incidents |-> 0]
    /\ told' = [i \in Incidents |-> <<>>]
    /\ last' = NothingSeen

Next == Restart \/ \E e \in ScanEvents : Cycle(e)

Spec == Init /\ [][Next]_vars

-----------------------------------------------------------------------------
(* Properties *)

\* "at most 1 notification per incident per severity": since an incident last opened,
\* each thing the user was told of it was worse than everything told before.
NotifiedOnlyWhenWorse ==
    \A i \in Incidents : \A a, b \in 1 .. Len(told[i]) : a < b => told[i][a] < told[i][b]

\* No escalation is swallowed: whatever was told, deduplicated or below the minimum
\* before, after each scan the user knows of its incident at its severity or worse.
NothingSevereUntold ==
    last.event.level >= MinLevel /\ ~ Resolves(last.event) =>
        \E k \in 1 .. Len(told[last.event.incident]) :
            told[last.event.incident][k] >= last.event.level

\* "Incident resolution and fresh occurrence lifecycle tracking": a threat found by the
\* scan after one that found the host nominal is a new occurrence and the user is told.
\* The code does not keep it: nothing resolves the incident of a threat that ended.
RecurrenceIsNotified ==
    [][last.event.resolved /\ ~ Resolves(last'.event) /\ last'.event.level >= MinLevel
        => last'.notify]_vars

\* "Threat resolves (baseline returns to normal) -> Marked resolved": after an event that
\* says the host is clean no incident is open. The code does not keep it: that event names
\* the nominal incident, and resolve() closes the incident the event names.
AllClearClosesIncidents == last.event.resolved => open = {}

-----------------------------------------------------------------------------
(* The inductive invariant *)

TypeOK ==
    /\ open \in SUBSET Incidents
    /\ notified \in [Incidents -> Level]
    /\ told \in [Incidents -> Seq(Level)]
    /\ last.event \in Event /\ last.notify \in BOOLEAN

\* What the tracker keeps agrees with what the user was told: an incident is open
\* exactly when the user knows of it, and notified_severity is the last thing told.
Agreement ==
    \A i \in Incidents :
        /\ i \notin open => told[i] = <<>>
        /\ i \in open => told[i] # <<>> /\ notified[i] = told[i][Len(told[i])]

TrackerInv == TypeOK /\ Agreement /\ NotifiedOnlyWhenWorse /\ NothingSevereUntold
=============================================================================
