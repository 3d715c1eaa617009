------------------------- MODULE AgentDaemon_proofs -------------------------
(***************************************************************************)
(* The safety properties of AgentDaemon hold for every set of agents, both *)
(* supervisors and every bound.                                            *)
(***************************************************************************)
EXTENDS AgentDaemon, TLAPS

\* The daemons start stopped, with nothing held and nothing running.
LEMMA InitDaemonInv == Init => DaemonInv
BY NamesAssumption, MaxFailuresAssumption
   DEF Init, DaemonInv, TypeOK, AgentInv, AgentState, Owning, Live, is_running

\* A killed or finished process leaves an agent slot that satisfies the invariant,
\* and takes the mutex and the port from nobody else.
LEMMA ProcessGonePreserves ==
    ASSUME DaemonInv, NEW p \in Agents, ProcessGone(p),
           lastExit' \in [Agents -> {"none", "clean", "unclean", "failed", "killed"}]
    PROVE  DaemonInv'
<1>1. TypeOK'
  <2>1. /\ holder' \in Agents \cup {Nobody}
        /\ portOwner' \in Agents \cup {Nobody, OtherProgram}
    BY DEF DaemonInv, TypeOK, ProcessGone, PortFreedBy
  <2>2. /\ state' \in [Agents -> AgentState]
        /\ failures' \in [Agents -> 0 .. MaxFailures]
        /\ degraded' \in [Agents -> SUBSET {"api", "sensor"}]
    BY MaxFailuresAssumption DEF DaemonInv, TypeOK, ProcessGone, AgentState
  <2> QED BY <2>1, <2>2 DEF DaemonInv, TypeOK, ProcessGone
<1>2. ASSUME NEW q \in Agents PROVE AgentInv(q)'
  <2>1. CASE q = p
    <3>1. holder' # p /\ portOwner' # p
      BY NamesAssumption DEF ProcessGone, PortFreedBy
    <3> QED BY <2>1, <3>1
       DEF DaemonInv, TypeOK, AgentInv, ProcessGone, is_running, LoopRuns, Owning, Live
  <2>2. CASE q # p
    <3>1. holder' = q <=> holder = q
      BY <2>2, NamesAssumption DEF ProcessGone
    <3>2. portOwner' = q <=> portOwner = q
      BY <2>2, NamesAssumption DEF ProcessGone, PortFreedBy
    <3> QED BY <2>2, <3>1, <3>2
       DEF DaemonInv, TypeOK, AgentInv, ProcessGone, is_running, LoopRuns, Owning, Live
  <2> QED BY <2>1, <2>2
<1> QED BY <1>1, <1>2 DEF DaemonInv

\* start(): the mutex is taken only when free, and given up on every failing path.
LEMMA StartPreserves ==
    ASSUME DaemonInv, NEW p \in Agents, StartStep(p)
    PROVE  DaemonInv'
<1> USE DEF DaemonInv, AgentInv, is_running, LoopRuns, Owning, Live
<1>1. CASE Launch(p)
  BY <1>1 DEF Launch, TypeOK
<1>2. CASE StartAcquire(p)
  <2>1. TypeOK'
    BY <1>2 DEF StartAcquire, TypeOK, MutexGranted, AgentState
  <2>2. ASSUME NEW q \in Agents PROVE AgentInv(q)'
    BY <1>2, <2>2, NamesAssumption DEF StartAcquire, TypeOK, MutexGranted
  <2> QED BY <2>1, <2>2
<1>3. CASE StartFails(p)
  <2>1. TypeOK'
    BY <1>3 DEF StartFails, TypeOK, AgentState
  <2>2. ASSUME NEW q \in Agents PROVE AgentInv(q)'
    BY <1>3, <2>2, NamesAssumption DEF StartFails, TypeOK
  <2> QED BY <2>1, <2>2
<1>4. CASE StartServices(p)
  <2>1. TypeOK'
    BY <1>4 DEF StartServices, TypeOK, AgentState
  <2>2. ASSUME NEW q \in Agents PROVE AgentInv(q)'
    BY <1>4, <2>2 DEF StartServices, TypeOK
  <2> QED BY <2>1, <2>2
<1> QED BY <1>1, <1>2, <1>3, <1>4 DEF StartStep

\* The loop stores RUNNING or DEGRADED only from RUNNING or DEGRADED, because a
\* cycle is taken only by a task that has not been cancelled.
LEMMA MonitorPreserves ==
    ASSUME DaemonInv, NEW p \in Agents, MonitorStep(p)
    PROVE  DaemonInv'
<1> USE DEF DaemonInv, AgentInv, is_running, LoopRuns, Owning, Live
<1>1. CASE CycleBegins(p)
  BY <1>1 DEF CycleBegins, TypeOK
<1>2. CASE ScanStep(p)
  <2>1. TypeOK'
    BY <1>2 DEF ScanStep, TypeOK, Saving
  <2> QED BY <1>2, <2>1 DEF ScanStep, TypeOK
<1>3. ASSUME NEW sick \in BOOLEAN, CycleSucceeds(p, sick) PROVE DaemonInv'
  <2>1. TypeOK'
    BY <1>3, MaxFailuresAssumption
       DEF CycleSucceeds, TypeOK, FailuresAfterSuccess, AgentState
  <2>2. ASSUME NEW q \in Agents PROVE AgentInv(q)'
    BY <1>3, <2>2 DEF CycleSucceeds, TypeOK, FailuresAfterSuccess
  <2> QED BY <2>1, <2>2
<1>4. CASE CycleFails(p)
  <2>1. TypeOK'
    BY <1>4, MaxFailuresAssumption
       DEF CycleFails, TypeOK, FailuresAfterFailure, AgentState
  <2>2. ASSUME NEW q \in Agents PROVE AgentInv(q)'
    BY <1>4, <2>2 DEF CycleFails, TypeOK, FailuresAfterFailure
  <2> QED BY <2>1, <2>2
<1>5. CASE AbandonedScanEnds(p)
  BY <1>5 DEF AbandonedScanEnds, TypeOK
<1> QED BY <1>1, <1>2, <1>3, <1>4, <1>5 DEF MonitorStep

\* stop(): the monitoring task is cancelled before the mutex is released.
LEMMA StopPreserves ==
    ASSUME DaemonInv, NEW p \in Agents, StopStep(p)
    PROVE  DaemonInv'
<1> USE DEF DaemonInv, AgentInv, is_running, LoopRuns, Owning, Live
<1>1. CASE StopPassesUvicorn(p)
  BY <1>1 DEF StopPassesUvicorn, UvicornWaitOver, TypeOK
<1> HIDE DEF AgentInv
<1>2. CASE StopReleases(p)
  <2>1. TypeOK'
    BY <1>2 DEF StopReleases, TypeOK, AgentState
  <2>2. ASSUME NEW q \in Agents PROVE AgentInv(q)'
    <3>1. holder = p
      BY <1>2 DEF StopReleases, AgentInv
    <3>2. CASE q = p
      BY <1>2, <3>2, NamesAssumption DEF StopReleases, TypeOK, AgentInv
    <3>3. CASE q # p
      BY <1>2, <3>1, <3>3, NamesAssumption DEF StopReleases, TypeOK, AgentInv
    <3> QED BY <3>2, <3>3
  <2> QED BY <2>1, <2>2
<1> QED BY <1>1, <1>2 DEF StopStep

\* The API server task moves the port only.
LEMMA TaskPreserves ==
    ASSUME DaemonInv, NEW p \in Agents, TaskStep(p)
    PROVE  DaemonInv'
<1> USE DEF DaemonInv, AgentInv, is_running, LoopRuns, Owning, Live
<1>1. CASE UvicornBinds(p)
  BY <1>1 DEF UvicornBinds, TypeOK
<1>2. CASE UvicornExits(p)
  BY <1>2, NamesAssumption DEF UvicornExits, PortFreedBy, TypeOK
<1> QED BY <1>1, <1>2 DEF TaskStep

\* The entry point: interruption begins stop(), the teardown ends the process.
LEMMA DriverPreserves ==
    ASSUME DaemonInv, NEW p \in Agents, DriverStep(p)
    PROVE  DaemonInv'
<1>1. CASE Interrupt(p)
  <2>1. TypeOK'
    BY <1>1 DEF Interrupt, StopBegins, StopReturnsAtOnce, WhoeverCallsStop, MonitorCancelled, DaemonInv, TypeOK, AgentState
  <2>2. ASSUME NEW q \in Agents PROVE AgentInv(q)'
    BY <1>1, <2>2 DEF Interrupt, StopBegins, StopReturnsAtOnce, WhoeverCallsStop, MonitorCancelled, DaemonInv, TypeOK,
                      AgentInv, is_running, LoopRuns, Owning, Live
  <2> QED BY <2>1, <2>2 DEF DaemonInv
<1>2. CASE UvicornBindFails(p)
  <2>1. TypeOK'
    <3>1. /\ state' \in [Agents -> AgentState]
          /\ mon' \in [Agents -> {"none", "created", "scanning", "sleeping", "done"}]
      BY <1>2 DEF UvicornBindFails, StopBegins, StopReturnsAtOnce, WhoeverCallsStop, MonitorCancelled, DaemonInv, TypeOK,
                  AgentState
    <3>2. /\ stopPc' \in [Agents -> {"none", "uvicorn", "release"}]
          /\ uvicorn' \in [Agents -> {"none", "pending", "serving", "done"}]
      BY <1>2 DEF UvicornBindFails, StopBegins, StopReturnsAtOnce, DaemonInv, TypeOK
    <3>3. /\ driver' \in [Agents -> {"off", "launched", "starting", "polling",
                                     "stopping", "joining"}]
          /\ lastExit' \in [Agents -> {"none", "clean", "unclean", "failed", "killed"}]
      BY <1>2 DEF UvicornBindFails, StopBegins, StopReturnsAtOnce, DaemonInv, TypeOK
    <3> QED BY <1>2, <3>1, <3>2, <3>3 DEF UvicornBindFails, DaemonInv, TypeOK
  <2>2. ASSUME NEW q \in Agents PROVE AgentInv(q)'
    BY <1>2, <2>2 DEF UvicornBindFails, StopBegins, StopReturnsAtOnce, WhoeverCallsStop, MonitorCancelled, DaemonInv,
                      TypeOK, AgentInv, is_running, LoopRuns, Owning, Live
  <2> QED BY <2>1, <2>2 DEF DaemonInv
<1>3. CASE LoopCloses(p)
  <2>1. TypeOK'
    <3>1. portOwner' \in Agents \cup {Nobody, OtherProgram}
      BY <1>3 DEF LoopCloses, PortFreedBy, DaemonInv, TypeOK
    <3>2. /\ driver' \in [Agents -> {"off", "launched", "starting", "polling",
                                     "stopping", "joining"}]
          /\ lastExit' \in [Agents -> {"none", "clean", "unclean", "failed", "killed"}]
          /\ uvicorn' \in [Agents -> {"none", "pending", "serving", "done"}]
      BY <1>3 DEF LoopCloses, DaemonInv, TypeOK
    <3> QED BY <1>3, <3>1, <3>2 DEF LoopCloses, DaemonInv, TypeOK
  <2>2. ASSUME NEW q \in Agents PROVE AgentInv(q)'
    <3>1. CASE q = p
      <4>1. portOwner' # p
        BY <1>3, NamesAssumption DEF LoopCloses, PortFreedBy
      <4>2. Supervisor = "asyncio_run" => state[p] \notin Owning
        BY <1>3 DEF LoopCloses, StopAwaited, PollSeesStop, DaemonInv, AgentInv, Owning
      <4> QED BY <1>3, <3>1, <4>1, <4>2
           DEF LoopCloses, DaemonInv, TypeOK, AgentInv, is_running, LoopRuns, Owning, Live
    <3>2. CASE q # p
      <4>1. portOwner' = q <=> portOwner = q
        BY <1>3, <3>2, NamesAssumption DEF LoopCloses, PortFreedBy
      <4> QED BY <1>3, <3>2, <4>1
           DEF LoopCloses, DaemonInv, TypeOK, AgentInv, is_running, LoopRuns, Owning, Live
    <3> QED BY <3>1, <3>2
  <2> QED BY <2>1, <2>2 DEF DaemonInv
<1>4. CASE ProcessExits(p)
  BY <1>4, ProcessGonePreserves DEF ProcessExits, DaemonInv, TypeOK
<1>5. CASE Killed(p)
  BY <1>5, ProcessGonePreserves DEF Killed, DaemonInv, TypeOK
<1> QED BY <1>1, <1>2, <1>3, <1>4, <1>5 DEF DriverStep

\* DaemonInv is inductive.
LEMMA NextDaemonInv == DaemonInv /\ [Next]_vars => DaemonInv'
<1> SUFFICES ASSUME DaemonInv, [Next]_vars PROVE DaemonInv'
  OBVIOUS
<1>1. CASE \E p \in Agents : StartStep(p) \/ MonitorStep(p) \/ StopStep(p)
                             \/ TaskStep(p) \/ DriverStep(p)
  BY <1>1, StartPreserves, MonitorPreserves, StopPreserves, TaskPreserves,
     DriverPreserves
<1>2. CASE OtherProgramMoves
  BY <1>2, NamesAssumption
     DEF OtherProgramMoves, DaemonInv, TypeOK, AgentInv, is_running, LoopRuns, Owning
<1>3. CASE UNCHANGED vars
  BY <1>3 DEF vars, DaemonInv, TypeOK, AgentInv, is_running, LoopRuns
<1> QED BY <1>1, <1>2, <1>3 DEF Next

\* Every reachable state of the agents satisfies DaemonInv.
THEOREM Invariance == Spec => []DaemonInv
BY InitDaemonInv, NextDaemonInv, PTL DEF Spec

\* Type correctness of the daemons' state.
THEOREM TypeCorrect == Spec => []TypeOK
<1>1. DaemonInv => TypeOK BY DEF DaemonInv
<1> QED BY <1>1, Invariance, PTL

\* However many agents start, stop, fail or are killed, at most one is running:
\* a daemon is running only as the holder of the mutex.
THEOREM MutualExclusion == Spec => []OneRunningDaemon
<1>1. DaemonInv => OneRunningDaemon
  BY DEF DaemonInv, AgentInv, OneRunningDaemon, is_running, Owning
<1> QED BY <1>1, Invariance, PTL

\* A live monitoring task belongs to the holder of the mutex, in every interleaving
\* of start(), stop(), cycles and crashes.
THEOREM MonitorIsExclusive == Spec => []MonitorHoldsMutex
<1>1. DaemonInv => MonitorHoldsMutex
  BY DEF DaemonInv, AgentInv, MonitorHoldsMutex, is_running, LoopRuns, Owning, Live
<1> QED BY <1>1, Invariance, PTL

\* RUNNING is never reported over a counted failure.
THEOREM RunningIsHonest == Spec => []RunningHasNoFailures
<1>1. DaemonInv => RunningHasNoFailures
  BY DEF DaemonInv, AgentInv, RunningHasNoFailures
<1> QED BY <1>1, Invariance, PTL

\* STOPPING is left for STOPPED only: the steps that store RUNNING or DEGRADED need a
\* task that is still scanning, and the others an entry point that has not started.
THEOREM StopIsFinal == Spec => StoppingIsOneWay
<1>1. DaemonInv /\ [Next]_vars => [StoppingKept]_vars
  <2> SUFFICES ASSUME DaemonInv, Next, NEW q \in Agents, state[q] = "STOPPING"
               PROVE  state'[q] \in {"STOPPING", "STOPPED"}
    BY DEF StoppingKept
  <2> USE DEF DaemonInv, TypeOK, AgentInv, is_running, Live
  <2>1. CASE OtherProgramMoves
    BY <2>1 DEF OtherProgramMoves
  <2>2. ASSUME NEW p \in Agents, StartStep(p) PROVE state'[q] \in {"STOPPING", "STOPPED"}
    BY <2>2 DEF StartStep, Launch, StartAcquire, StartFails, StartServices
  <2>3. ASSUME NEW p \in Agents, MonitorStep(p) PROVE state'[q] \in {"STOPPING", "STOPPED"}
    BY <2>3 DEF MonitorStep, CycleBegins, ScanStep, CycleSucceeds, CycleFails,
                AbandonedScanEnds
  <2>4. ASSUME NEW p \in Agents, StopStep(p) PROVE state'[q] \in {"STOPPING", "STOPPED"}
    BY <2>4 DEF StopStep, StopPassesUvicorn, StopReleases
  <2>5. ASSUME NEW p \in Agents, TaskStep(p) PROVE state'[q] \in {"STOPPING", "STOPPED"}
    BY <2>5 DEF TaskStep, UvicornBinds, UvicornExits
  <2>6. ASSUME NEW p \in Agents, DriverStep(p) PROVE state'[q] \in {"STOPPING", "STOPPED"}
    <3>1. CASE Interrupt(p) \/ UvicornBindFails(p)
      BY <3>1 DEF Interrupt, UvicornBindFails, StopBegins, StopReturnsAtOnce
    <3>2. CASE LoopCloses(p)
      BY <3>2 DEF LoopCloses
    <3>3. CASE ProcessExits(p) \/ Killed(p)
      BY <3>3 DEF ProcessExits, Killed, ProcessGone
    <3> QED BY <2>6, <3>1, <3>2, <3>3 DEF DriverStep
  <2> HIDE DEF DaemonInv, TypeOK, AgentInv, is_running, Live
  <2> QED BY <2>1, <2>2, <2>3, <2>4, <2>5, <2>6 DEF Next
<1> QED BY <1>1, Invariance, PTL DEF Spec, StoppingIsOneWay

\* Under asyncio.run a process that has left its loop has given back the mutex and the
\* port, for any number of agents: its main coroutine is the only one that stops the
\* daemon, so the stop() it awaits is never the one that returns at once. (Under
\* runtime.py that is false, which the run that expects a violation shows.)
THEOREM LeaversHoldNothing ==
    ASSUME Supervisor = "asyncio_run"
    PROVE  Spec => []JoiningHoldsNothing
<1>1. DaemonInv => JoiningHoldsNothing
  BY DEF DaemonInv, AgentInv, JoiningHoldsNothing, LoopRuns
<1> QED BY <1>1, Invariance, PTL
=============================================================================
