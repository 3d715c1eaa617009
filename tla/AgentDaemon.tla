---------------------------- MODULE AgentDaemon ----------------------------
(***************************************************************************)
(* The lifecycle of the background agent: AuraAgentDaemon                  *)
(* (aura/agent/daemon.py) run by its process entry point, several agent    *)
(* processes competing for the single-instance mutex and the API port.     *)
(*                                                                         *)
(* One agent process has                                                   *)
(*  - an event loop on which start(), stop(), the monitoring loop and the  *)
(*    cloud and uvicorn tasks interleave at their awaits;                  *)
(*  - one executor thread that runs the blocking scan (asyncio.to_thread): *)
(*    cancelling the monitoring task abandons the scan, it does not stop   *)
(*    the thread.                                                          *)
(* start() never suspends once it holds the mutex, so between two of its   *)
(* steps only other processes move.                                        *)
(***************************************************************************)
EXTENDS Naturals, FiniteSets

CONSTANTS Agents,        \* agent processes of one user session
          Nobody,        \* nobody holds the mutex, or the port
          OtherProgram,  \* a foreign program that may occupy the port
          Supervisor,    \* the entry point that runs the daemon
          MaxFailures    \* bound: consecutive failures are counted up to here

ASSUME NamesAssumption ==
    /\ Nobody \notin Agents
    /\ OtherProgram \notin Agents \cup {Nobody}
ASSUME SupervisorAssumption == Supervisor \in {"asyncio_run", "runtime_main"}
ASSUME MaxFailuresAssumption == MaxFailures \in Nat \ {0}

AgentState == {"STOPPED", "STARTING", "RUNNING", "DEGRADED", "STOPPING", "FAILED"}

VARIABLES
    holder,     \* who holds the named mutex
    portOwner,  \* who is bound to the API port
    state,      \* _state of each daemon
    failures,   \* _consecutive_failures
    degraded,   \* _degraded_components, by kind
    mon,        \* the monitoring task
    uvicorn,    \* the API server task
    worker,     \* the executor thread: where its scan is
    conn,       \* that thread's SQLite connection
    stopPc,     \* where stop() is suspended
    driver,     \* the entry point's coroutine
    lastExit    \* how the process of this slot ended last

vars == <<holder, portOwner, state, failures, degraded, mon, uvicorn,
          worker, conn, stopPc, driver, lastExit>>

TypeOK ==
    /\ holder \in Agents \cup {Nobody}
    /\ portOwner \in Agents \cup {Nobody, OtherProgram}
    /\ state \in [Agents -> AgentState]
    /\ failures \in [Agents -> 0 .. MaxFailures]
    /\ degraded \in [Agents -> SUBSET {"api", "sensor"}]
    /\ mon \in [Agents -> {"none", "created", "scanning", "sleeping", "done"}]
    /\ uvicorn \in [Agents -> {"none", "pending", "serving", "done"}]
    /\ worker \in [Agents -> {"idle", "collecting", "telemetry", "event", "run",
                              "returned", "raised"}]
    /\ conn \in [Agents -> {"none", "open", "closed"}]
    /\ stopPc \in [Agents -> {"none", "uvicorn", "release"}]
    /\ driver \in [Agents -> {"off", "launched", "starting", "polling", "stopping",
                              "joining"}]
    /\ lastExit \in [Agents -> {"none", "clean", "unclean", "failed", "killed"}]

Init ==
    /\ holder = Nobody
    /\ portOwner = Nobody
    /\ state = [p \in Agents |-> "STOPPED"]
    /\ failures = [p \in Agents |-> 0]
    /\ degraded = [p \in Agents |-> {}]
    /\ mon = [p \in Agents |-> "none"]
    /\ uvicorn = [p \in Agents |-> "none"]
    /\ worker = [p \in Agents |-> "idle"]
    /\ conn = [p \in Agents |-> "none"]
    /\ stopPc = [p \in Agents |-> "none"]
    /\ driver = [p \in Agents |-> "off"]
    /\ lastExit = [p \in Agents |-> "none"]

is_running(p) == state[p] \in {"RUNNING", "DEGRADED"}

PortFreedBy(p) == IF portOwner = p THEN Nobody ELSE portOwner

\* CreateMutexW succeeded and did not report ERROR_ALREADY_EXISTS
MutexGrantedIgnoringExisting(p) == p \in Agents
MutexGranted(p) == holder = Nobody

-----------------------------------------------------------------------------
(* start() *)

\* The process is created and the daemon object constructed.
Launch(p) ==
    /\ driver[p] = "off"
    /\ driver' = [driver EXCEPT ![p] = "launched"]
    /\ lastExit' = [lastExit EXCEPT ![p] = "none"]
    /\ UNCHANGED <<holder, portOwner, state, failures, degraded, mon, uvicorn,
                   worker, conn, stopPc>>

\* STARTING, then the mutex: without it start() is FAILED and raises.
StartAcquire(p) ==
    /\ driver[p] = "launched"
    /\ \/ /\ MutexGranted(p)
          /\ holder' = p
          /\ state' = [state EXCEPT ![p] = "STARTING"]
          /\ driver' = [driver EXCEPT ![p] = "starting"]
          /\ UNCHANGED lastExit
       \/ /\ ~ MutexGranted(p)
          /\ state' = [state EXCEPT ![p] = "FAILED"]
          /\ driver' = [driver EXCEPT ![p] = "joining"]
          /\ lastExit' = [lastExit EXCEPT ![p] = "failed"]
          /\ UNCHANGED holder
    /\ UNCHANGED <<portOwner, failures, degraded, mon, uvicorn, worker, conn,
                   stopPc>>

\* storage.migrate() or engine.start() raises before any task exists, or a later
\* statement of the try block raises after the monitoring task was created: the
\* loop runs that task once before the exception ends it, so its scan has started.
StartFails(p) ==
    /\ driver[p] = "starting"
    /\ state' = [state EXCEPT ![p] = "FAILED"]
    /\ holder' = Nobody
    /\ driver' = [driver EXCEPT ![p] = "joining"]
    /\ lastExit' = [lastExit EXCEPT ![p] = "failed"]
    /\ \/ UNCHANGED <<mon, worker>>
       \/ /\ mon' = [mon EXCEPT ![p] = "done"]
          /\ worker' = [worker EXCEPT ![p] = "collecting"]
    /\ UNCHANGED <<portOwner, failures, degraded, uvicorn, conn, stopPc>>

\* The rest of start(): the tasks are created, the port is probed, RUNNING.
StartServices(p) ==
    /\ driver[p] = "starting"
    /\ mon' = [mon EXCEPT ![p] = "created"]
    /\ \/ /\ portOwner = Nobody
          /\ uvicorn' = [uvicorn EXCEPT ![p] = "pending"]
          /\ UNCHANGED degraded
       \/ /\ portOwner # Nobody
          /\ degraded' = [degraded EXCEPT ![p] = @ \cup {"api"}]
          /\ UNCHANGED uvicorn
    /\ state' = [state EXCEPT ![p] = "RUNNING"]
    /\ driver' = [driver EXCEPT ![p] = "polling"]
    /\ UNCHANGED <<holder, portOwner, failures, worker, conn, stopPc, lastExit>>

-----------------------------------------------------------------------------
(* The monitoring loop and the scan in its executor thread *)

\* A turn of the loop begins and hands scan_once to the executor. The thread is
\* idle: the previous turn awaited its result.
CycleBegins(p) ==
    /\ mon[p] \in {"created", "sleeping"}
    /\ worker[p] = "idle"
    /\ mon' = [mon EXCEPT ![p] = "scanning"]
    /\ worker' = [worker EXCEPT ![p] = "collecting"]
    /\ UNCHANGED <<holder, portOwner, state, failures, degraded, uvicorn, conn,
                   stopPc, driver, lastExit>>

\* scan_once collects and assesses, then persists in three transactions. Any part
\* may raise; a write on a connection that stop() closed always does, and a thread
\* without a connection opens one, stop() or no stop().
Saving == {"telemetry", "event", "run"}
ScanStep(p) ==
    /\ worker[p] \in {"collecting"} \cup Saving
    /\ \/ /\ worker[p] \in Saving => conn[p] # "closed"
          /\ worker' = [worker EXCEPT ![p] =
                 CASE @ = "collecting" -> "telemetry"
                   [] @ = "telemetry" -> "event"
                   [] @ = "event" -> "run"
                   [] @ = "run" -> "returned"]
          /\ conn' = [conn EXCEPT ![p] = IF worker[p] \in Saving THEN "open" ELSE @]
       \/ /\ worker' = [worker EXCEPT ![p] = "raised"]
          /\ UNCHANGED conn
    /\ UNCHANGED <<holder, portOwner, state, failures, degraded, mon, uvicorn,
                   stopPc, driver, lastExit>>

\* The awaiting task takes the result: the degraded components are cleared or
\* extended, the failures reset, and RUNNING is stored if no component is left.
FailuresKeptBySuccess(p) == failures[p]
FailuresAfterSuccess(p) == 0
CycleSucceeds(p, sick) ==
    /\ mon[p] = "scanning"
    /\ worker[p] = "returned"
    /\ worker' = [worker EXCEPT ![p] = "idle"]
    /\ mon' = [mon EXCEPT ![p] = "sleeping"]
    /\ failures' = [failures EXCEPT ![p] = FailuresAfterSuccess(p)]
    /\ degraded' = [degraded EXCEPT ![p] = IF sick THEN @ \cup {"sensor"} ELSE {}]
    /\ state' = [state EXCEPT ![p] = IF degraded'[p] = {} THEN "RUNNING" ELSE @]
    /\ UNCHANGED <<holder, portOwner, uvicorn, conn, stopPc, driver, lastExit>>

\* The scan's exception reaches the loop: one more failure, DEGRADED.
FailuresCountedDown(p) == failures[p] - 1
FailuresAfterFailure(p) ==
    IF failures[p] < MaxFailures THEN failures[p] + 1 ELSE failures[p]
CycleFails(p) ==
    /\ mon[p] = "scanning"
    /\ worker[p] = "raised"
    /\ worker' = [worker EXCEPT ![p] = "idle"]
    /\ mon' = [mon EXCEPT ![p] = "sleeping"]
    /\ failures' = [failures EXCEPT ![p] = FailuresAfterFailure(p)]
    /\ state' = [state EXCEPT ![p] = "DEGRADED"]
    /\ UNCHANGED <<holder, portOwner, degraded, uvicorn, conn, stopPc, driver,
                   lastExit>>

\* A scan whose task was cancelled ends with nobody waiting for its result.
AbandonedScanEnds(p) ==
    /\ mon[p] # "scanning"
    /\ worker[p] \in {"returned", "raised"}
    /\ worker' = [worker EXCEPT ![p] = "idle"]
    /\ UNCHANGED <<holder, portOwner, state, failures, degraded, mon, uvicorn,
                   conn, stopPc, driver, lastExit>>
-----------------------------------------------------------------------------
(* stop() *)

\* cancel() reaches the monitoring task at its await before anything else of the
\* loop can run, also when the scan's result is already there.
MonitorNotCancelled(p) == mon[p]
MonitorCancelled(p) == IF mon[p] = "none" THEN "none" ELSE "done"

\* stop(), up to its last wait, as its caller enters it: both tasks have been cancelled
\* and wait_for has bounded the wait for each (the cloud task shares no state with these)
\* A second stop() beside the first, or after it, returns at once.
StopReturnsAtOnce(p) == state[p] \in {"STOPPED", "STOPPING"}
StopBegins(p) ==
    /\ ~ StopReturnsAtOnce(p)
    /\ state' = [state EXCEPT ![p] = "STOPPING"]
    /\ mon' = [mon EXCEPT ![p] = MonitorCancelled(p)]
    /\ stopPc' = [stopPc EXCEPT ![p] = "uvicorn"]

\* The loop serves stop() only while the entry point still runs it.
LoopRuns(p) == driver[p] \in {"polling", "stopping"}

\* should_exit is set; wait_for(shield(uvicorn task), 2.0)
UvicornAwaitedForever(p) == stopPc[p] = "uvicorn" /\ uvicorn[p] \in {"none", "done"}
UvicornWaitOver(p) == stopPc[p] = "uvicorn"
StopPassesUvicorn(p) ==
    /\ LoopRuns(p)
    /\ UvicornWaitOver(p)
    /\ stopPc' = [stopPc EXCEPT ![p] = "release"]
    /\ UNCHANGED <<holder, portOwner, state, failures, degraded, mon, uvicorn,
                   worker, conn, driver, lastExit>>

\* engine.stop(), storage.close() (it closes the scan thread's connection too), the
\* mutex, STOPPED
StopReleases(p) ==
    /\ LoopRuns(p)
    /\ stopPc[p] = "release"
    /\ conn' = [conn EXCEPT ![p] = IF @ = "open" THEN "closed" ELSE @]
    /\ holder' = Nobody
    /\ state' = [state EXCEPT ![p] = "STOPPED"]
    /\ stopPc' = [stopPc EXCEPT ![p] = "none"]
    /\ UNCHANGED <<portOwner, failures, degraded, mon, uvicorn, worker, driver,
                   lastExit>>

-----------------------------------------------------------------------------
(* The API server task (uvicorn is external) *)

\* serve() binds the probed port.
UvicornBinds(p) ==
    /\ LoopRuns(p)
    /\ uvicorn[p] = "pending"
    /\ portOwner = Nobody
    /\ portOwner' = p
    /\ uvicorn' = [uvicorn EXCEPT ![p] = "serving"]
    /\ UNCHANGED <<holder, state, failures, degraded, mon, worker, conn, stopPc,
                   driver, lastExit>>

UvicornExits(p) ==
    /\ LoopRuns(p)
    /\ uvicorn[p] = "serving"
    /\ stopPc[p] \in {"uvicorn", "release"}
    /\ uvicorn' = [uvicorn EXCEPT ![p] = "done"]
    /\ portOwner' = PortFreedBy(p)
    /\ UNCHANGED <<holder, state, failures, degraded, mon, worker, conn, stopPc,
                   driver, lastExit>>

-----------------------------------------------------------------------------
(* The entry point *)

\* Ctrl+C, or SIGTERM under runtime.py. asyncio.run cancels the main coroutine,
\* whose finally awaits stop(); the signal handler of runtime.py spawns stop() as a
\* task next to its polling. (Under asyncio.run a second Ctrl+C ends one of stop()'s
\* waits, which their timeouts do as well, and a third one is a Killed.)
StopSpawnedAsTask(p) == "polling"
WhoeverCallsStop(p) == IF Supervisor = "asyncio_run" THEN "stopping" ELSE "polling"
Interrupt(p) ==
    /\ driver[p] = "polling"
    /\ StopBegins(p)
    /\ driver' = [driver EXCEPT ![p] = WhoeverCallsStop(p)]
    /\ UNCHANGED <<holder, portOwner, failures, degraded, uvicorn, worker, conn, lastExit>>

\* serve() calls sys.exit because the port it probed was taken meanwhile. asyncio.run
\* cancels the main coroutine (a stop() under way goes on); runtime.py just closes
\* its loop.
UvicornBindFails(p) ==
    /\ LoopRuns(p)
    /\ uvicorn[p] = "pending"
    /\ portOwner # Nobody
    /\ uvicorn' = [uvicorn EXCEPT ![p] = "done"]
    /\ \/ /\ Supervisor = "asyncio_run"
          /\ driver[p] = "polling"
          /\ StopBegins(p)
          /\ driver' = [driver EXCEPT ![p] = "stopping"]
          /\ UNCHANGED lastExit
       \/ /\ Supervisor = "asyncio_run"
          /\ driver[p] = "stopping"
          /\ UNCHANGED <<state, mon, stopPc, driver, lastExit>>
       \/ /\ Supervisor = "runtime_main"
          /\ driver' = [driver EXCEPT ![p] = "joining"]
          /\ lastExit' = [lastExit EXCEPT ![p] = "unclean"]
          /\ mon' = [mon EXCEPT ![p] = "done"]
          /\ UNCHANGED <<state, stopPc>>
    /\ UNCHANGED <<holder, portOwner, failures, degraded, worker, conn>>

\* The call of stop() that the finally made and went through has come to its end.
StopNotAwaited(p) == driver[p] = "stopping"
StopAwaited(p) == driver[p] = "stopping" /\ stopPc[p] = "none"

\* The poll sees that the daemon is not running, whoever stops it; then the finally's
\* own stop() returns at once.
PollSeesStop(p) ==
    /\ driver[p] = "polling"
    /\ ~ is_running(p)
    /\ StopReturnsAtOnce(p)

\* The main coroutine returns and its loop is torn down with the tasks left on it.
LoopCloses(p) ==
    /\ StopAwaited(p) \/ PollSeesStop(p)
    /\ driver' = [driver EXCEPT ![p] = "joining"]
    /\ lastExit' = [lastExit EXCEPT ![p] = IF state[p] = "STOPPED" THEN "clean" ELSE "unclean"]
    /\ portOwner' = PortFreedBy(p)
    /\ uvicorn' = [uvicorn EXCEPT ![p] = IF @ = "none" THEN "none" ELSE "done"]
    /\ UNCHANGED <<holder, state, failures, degraded, mon, worker, conn, stopPc>>

\* The slot of a dead process: the system has taken back what it held.
ProcessGone(p) ==
    /\ holder' = IF holder = p THEN Nobody ELSE holder
    /\ portOwner' = PortFreedBy(p)
    /\ state' = [state EXCEPT ![p] = "STOPPED"]
    /\ failures' = [failures EXCEPT ![p] = 0]
    /\ degraded' = [degraded EXCEPT ![p] = {}]
    /\ mon' = [mon EXCEPT ![p] = "none"]
    /\ uvicorn' = [uvicorn EXCEPT ![p] = "none"]
    /\ worker' = [worker EXCEPT ![p] = "idle"]
    /\ conn' = [conn EXCEPT ![p] = "none"]
    /\ stopPc' = [stopPc EXCEPT ![p] = "none"]
    /\ driver' = [driver EXCEPT ![p] = "off"]

\* The interpreter joins the executor thread before it exits.
ProcessExits(p) ==
    /\ driver[p] = "joining"
    /\ worker[p] = "idle"
    /\ ProcessGone(p)
    /\ UNCHANGED lastExit

Killed(p) ==
    /\ driver[p] # "off"
    /\ ProcessGone(p)
    /\ lastExit' = [lastExit EXCEPT ![p] = "killed"]

\* Another program takes or gives back the API port.
OtherProgramMoves ==
    /\ \/ portOwner = Nobody /\ portOwner' = OtherProgram
       \/ portOwner = OtherProgram /\ portOwner' = Nobody
    /\ UNCHANGED <<holder, state, failures, degraded, mon, uvicorn, worker, conn,
                   stopPc, driver, lastExit>>

-----------------------------------------------------------------------------
StartStep(p) ==
    \/ Launch(p)
    \/ StartAcquire(p)
    \/ StartFails(p)
    \/ StartServices(p)

MonitorStep(p) ==
    \/ CycleBegins(p)
    \/ ScanStep(p)
    \/ \E sick \in BOOLEAN : CycleSucceeds(p, sick)
    \/ CycleFails(p)
    \/ AbandonedScanEnds(p)

StopStep(p) == StopPassesUvicorn(p) \/ StopReleases(p)

TaskStep(p) ==
    \/ UvicornBinds(p)
    \/ UvicornExits(p)

DriverStep(p) ==
    \/ Interrupt(p)
    \/ UvicornBindFails(p)
    \/ LoopCloses(p)
    \/ ProcessExits(p)
    \/ Killed(p)

Next ==
    \/ \E p \in Agents :
          StartStep(p) \/ MonitorStep(p) \/ StopStep(p) \/ TaskStep(p) \/ DriverStep(p)
    \/ OtherProgramMoves

Spec == Init /\ [][Next]_vars

\* The event loop runs what is ready and wait_for times out, so the steps of stop()
\* and of the teardown are taken. Nothing makes a scan return (a probe may hang), the
\* cloud handshake or the uvicorn shutdown end, or a user press Ctrl+C.
FairSpec ==
    /\ Spec
    /\ \A p \in Agents : WF_vars(StopStep(p)) /\ WF_vars(LoopCloses(p))

-----------------------------------------------------------------------------
(* Properties *)

\* At most one process of the session believes itself to be running: what start()
\* asks the mutex for, through every order of start, stop, failure and kill.
OneRunningDaemon ==
    \A p, q \in Agents : is_running(p) /\ is_running(q) => p = q

\* Only the process that holds the mutex has a live monitoring task; in particular
\* stop() gives the mutex up after the loop is gone, never before.
MonitorHoldsMutex ==
    \A p \in Agents : mon[p] \in {"created", "scanning", "sleeping"} => holder = p

\* RUNNING is never reported while the last cycle failed: every failure that is
\* still counted shows as DEGRADED, whatever start() and the loop store in _state.
RunningHasNoFailures ==
    \A p \in Agents : state[p] = "RUNNING" => failures[p] = 0

\* A daemon that stop() has put into STOPPING becomes STOPPED and nothing else: no
\* cycle that ends late writes RUNNING or DEGRADED over it.
StoppingKept ==
    \A p \in Agents : state[p] = "STOPPING" => state'[p] \in {"STOPPING", "STOPPED"}
StoppingIsOneWay == [][StoppingKept]_vars

\* A process that has left its loop and only waits for its scan thread, which may hang,
\* holds neither the mutex nor the port: whether start() failed, early or late, or a
\* stop() ended, and whatever else called stop(), the next agent can start.
JoiningHoldsNothing ==
    \A p \in Agents : driver[p] = "joining" => holder # p /\ portOwner # p

\* An entry point that ends after Ctrl+C has run stop() to its end: engine stopped,
\* storage closed, mutex released.
GracefulExit == \A p \in Agents : lastExit[p] # "unclean"

\* stop() ends and the mutex is free for the next agent even if the scan hangs, the
\* cloud handshake hangs or an API connection never closes.
StopFreesTheMutex ==
    \A p \in Agents :
        driver[p] = "stopping" ~> (driver[p] \in {"joining", "off"} /\ holder # p)

\* What the log line of _start_api_server says: with the port occupied the engine
\* goes on in DEGRADED mode.
PortOccupiedMeansDegraded ==
    \A p \in Agents : is_running(p) /\ "api" \in degraded[p] => state[p] = "DEGRADED"

\* What the mutex is said to ensure: one monitoring daemon at a time scans the
\* host (daemons whose start() failed left aside).
OneMonitoringDaemon ==
    \A p, q \in Agents :
        worker[p] # "idle" /\ mon[q] = "scanning" /\ state[p] # "FAILED" => p = q

\* "STOPPED cleanly": once stop() has closed the storage, this daemon's scan commits
\* nothing any more.
NoWriteAfterStopped ==
    [][\A p \in Agents :
          state[p] = "STOPPED" /\ worker[p] \in Saving => worker'[p] \in {"raised", "idle", worker[p]}]_vars

-----------------------------------------------------------------------------
(* The inductive invariant behind the safety properties *)

Live == {"created", "scanning", "sleeping"}
Owning == {"STARTING", "RUNNING", "DEGRADED", "STOPPING"}

\* What ties one agent's entry point, its state and its tasks together: a state from
\* STARTING to STOPPING means the mutex is ours, a live loop means RUNNING or DEGRADED,
\* STOPPING that the stop() which stored it is under way, and under asyncio.run it is
\* the main coroutine that runs it: nobody else makes it return early.
AgentInv(p) ==
    /\ driver[p] \in {"off", "launched"} =>
           state[p] = "STOPPED" /\ mon[p] = "none" /\ failures[p] = 0
    /\ driver[p] = "starting" =>
           state[p] = "STARTING" /\ mon[p] = "none" /\ failures[p] = 0
    /\ LoopRuns(p) => state[p] \in {"RUNNING", "DEGRADED", "STOPPING", "STOPPED"}
    /\ state[p] \in Owning <=> holder = p
    /\ portOwner = p => uvicorn[p] = "serving" /\ LoopRuns(p)
    /\ mon[p] \in Live => is_running(p)
    /\ stopPc[p] # "none" <=> state[p] = "STOPPING"
    /\ driver[p] = "stopping" => state[p] \in {"STOPPING", "STOPPED"}
    /\ Supervisor = "asyncio_run" =>
           /\ driver[p] = "polling" => is_running(p)
           /\ driver[p] = "joining" => state[p] \notin Owning
    /\ state[p] = "RUNNING" => failures[p] = 0

DaemonInv == TypeOK /\ \A p \in Agents : AgentInv(p)
=============================================================================
