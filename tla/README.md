# AURA Privacy Guardian: a verification development in TLA+

AURA Privacy Guardian is a local security agent: a background daemon scans the host at an
interval, scores what it sees, stores it, tells the user, streams it to dashboards through a
local API, and optionally relays it to a cloud. The Streamlit and terminal prototype
it grew out of is part of the repository and runs on its own. This directory holds TLA+ specifications of
that program, the TLC configurations that check them on small instances, and proofs, checked
by TLAPS, of the properties that hold for every value of the constants. Paths are relative to
the root of the repository (`src/` in PROJECT.json).

`PROJECT.json` holds the index: components, runs, mutants, the lines each definition models,
findings, hazards and theorems. To reproduce: `tlc -config X.cfg M` for each run and
`tlapm M_proofs.tla` for each proof module.

## 1. The system

| component | state it keeps | operations | hard part |
|---|---|---|---|
| agent daemon (`aura/agent/daemon.py`, `aura/runtime.py`, `aura/entrypoints/`) | `_state`, tasks, `_consecutive_failures`, `_degraded_components` | `start`, `stop`, monitoring loop, API server task, two entry points | await points, a scan in a thread that outlives its task, signals, kills |
| single-instance guard (`aura/agent/mutex.py`) | named mutex or locked file | `acquire`, `release` | several processes, unlink after unlock |
| API rate limiter (`aura/api/ratelimit.py`) | a deque of admissions per key | `check`, `_cleanup` | forgetting must not admit too many |
| API sessions (`aura/api/auth.py`) | bootstrap codes, sessions | create, exchange, validate, revoke, clean up | single use, expiry in any order, codes registered twice |
| live stream (`aura/api/stream.py`, `aura/api/router.py`) | clients and their bounded queues | register, accept, send, receive, remove, broadcast | slow sockets, eviction, a failed handshake |
| risk engine (`aura/engine/correlation.py`, `risk_hardened.py`, `service.py`) | none | `correlate`, `evaluate`, incident identity | rules that silence each other |
| incident notifications (`aura/agent/notifications.py`) | tracked incidents | `evaluate_event` | deduplicate, escalate, resolve, recur |
| cloud connector (`aura/agent/cloud_client.py`) | outbound queue, connection, pairing file | `enqueue_message`, `run`, `stop`, `pair_with_code`, `save_config` | loss at a reconnect, dead task, torn file |
| cloud relay and devices (`aura/cloud/`) | agents, subscribers, users, sessions, codes, devices | register, relay, unregister, pair, revoke, delete | connections that replace each other, late requests |
| storage (`aura/storage/`) | SQLite tables, connections per thread | `record_*`, `migrate`, `close`, prune | three transactions per scan, two migrations at once, close against use |
| scan pipeline and baseline (`aura/engine/service.py`, `baseline.py`) | running statistics | `scan_once`, `assess`, `reset_all` | scans in several threads and a reset between them |
| capture sensors, posture, startup (`aura/sensors/`) | last status and transition per sensor | `collect_snapshot`, posture and startup queries | stale consent keys, two threads, failed queries |
| full scan and analyses (`aura/engine/scan_engine.py`, `rules.py`, `aura/intelligence/`) | reports, timeline, audit | full scan, hunts, Process DNA, ending a process | many copies of one test, a host that changes under the request |
| prototype (`app.py`, `aura_core.py`, `aura_ui/`, `privacy_monitor.py`, `sensors.py`, `logger.py`, `model.py`) | a CSV log and a baseline file, the session, three caches | scan, demonstration, refresh, retrain, chart | several writers without a lock, caches, one verdict derived three times |
| desktop client (`aura_desktop/lib/`) | merged state of stream and polls | reconnect, merge | late answers |
| ML models, CLI, configuration, logging, redaction, REST views | none that evolves | | |

How they interact. The daemon's event loop hosts the monitoring task, the uvicorn server with
the API, the cloud connector and `stop()`; they interleave at their awaits. Each monitoring
cycle runs `scan_once` in an executor thread. `scan_once` collects telemetry, assesses it
against the baseline, correlates, scores, and commits telemetry, event and scan run to SQLite
from that thread. Back on the loop the cycle broadcasts a tick, queues it for the cloud, asks
the incident tracker whether to raise a toast, and broadcasts the event from MEDIUM on. API
handlers run scans of their own in other threads, over the same engine; the investigation
handlers run to their end on the loop while a cycle reads the same sensors in its thread. The
named mutex, the API port and the database are shared with the other processes of the user
session. The cloud passes what an agent sends to the dashboards of the user who paired it. The
prototype shares nothing with the agent; its browser sessions share one process, and its
terminal monitors share the log with them.

What makes each correct: one running daemon and complete stops; a limiter that never admits
more than its limit and refuses nobody else; codes good for one session or one device; streams
without loss until a queue was full and in order, in the cloud per connection of the agent; a device
that is offline for everybody once its connections are over; a score that a further signal does not
lower; a user who is told of every escalation, once; a database in which every scan is whole;
alarms only from a baseline that is warm; a sensor in use that is seen; responses that end
nothing protected; analyses that differ by their known charges only. Section 3 lists where the code
falls short of this.

## 2. Modules

| module | models | composed from |
|---|---|---|
| `AgentDaemon` | daemon, entry points, mutex, port, several agents | |
| `SlidingWindow` | what a rate limiter promises (abstract) | |
| `RateLimiter` | `RateLimiter.check` with its clean-up | refines `SlidingWindow` |
| `LossyStream` | what a stream promises (abstract) | |
| `LiveStream` | clients, queues, endpoint coroutines, broadcasts of a cycle | refines `LossyStream` |
| `SessionManager` | codes and sessions | |
| `RiskScoring` | one scan's conclusion as operators | |
| `RiskEngine` | the host's telemetry moving under `RiskScoring` | `RiskScoring` |
| `IncidentLifecycle` | scans and tracker, restarts | `RiskScoring` |
| `MonitoredHost` | one signal per cycle, scored and reported | `RiskEngine`, `IncidentLifecycle` |
| `CloudConnector` | the agent's queue and the task that sends it | |
| `CloudRelay` | connections, both WebSocket endpoints, broadcasts | `CloudConnector`, refines `LossyStream` |
| `CloudPairing` | accounts, sessions, codes, devices, the agent's file | |
| `HostDatabase` | the SQLite file and its migrations by several processes | |
| `ScanPipeline` | scans, baseline, three writes, stops and kills | `HostDatabase` |
| `HostAnalysis` | what the analyses conclude from a host, as operators | |
| `Investigation` | a living host, two threads that look at it, responses | `HostAnalysis` |
| `LegacyScoring`, `LegacySensors`, `LegacyLog` | verdict, sensor health, log files of the prototype | |
| `LegacyDashboard` | tabs, terminal monitors, caches | the three above |
| `MC_*` | the constants of the runs | |
| `*_proofs` | theorems and proofs | |

Operators that no specification uses (such as `TickDropped` beside `Put`) are the mutants of
PROJECT.json: a plausible bug of the definition that follows them. Each property of a passing
run is violated by at least one.

### AgentDaemon

An action is what happens between two awaits, a step of the executor thread, or an event of the
operating system. `driver` is the coroutine of the entry point: `agent_main.py` runs the daemon
under `asyncio.run`, whose cancellation leads to a `finally` that awaits `stop()`;
`runtime.py` polls `is_running` and starts `stop()` from a signal handler. The constant
`Supervisor` chooses between them. Of the calls of `stop()` one takes effect; any other finds STOPPED
or STOPPING and returns at once (`StopReturnsAtOnce`), also in a daemon that is being stopped by
somebody else, and that call is all that the `finally` of its caller awaits: `StopAwaited` holds when
the driver made the call that took effect and it ended, `PollSeesStop` when the driver only sees that
the daemon is not running. A third Ctrl+C ends the process as `Killed` does. `start()` has no await between the mutex and its end, so
`StartAcquire` and then `StartServices` or `StartFails` are separated only for other processes.
`worker` walks through `scan_once`: collecting, then three commits, with `conn` the SQLite
connection of that thread. `StopBegins` to `StopReleases` are `stop()`: the waits on the
monitoring task and on the cloud task end by cancellation or timeout and share no state, so one
wait remains, on uvicorn. `ProcessGone` is what the operating system takes back.
Left out: the cloud task (it only delays `stop()`), the heartbeat of power detection, the
payload of a cycle.

### RateLimiter and SlidingWindow

`SlidingWindow` is the promise: a request is admitted exactly when its key has fewer than its
limit admissions in the window. `RateLimiter` keeps deques as the code does: admissions that
left the window are popped at a check, and a clean-up that runs when the table is full drops the
keys whose *last* admission left it. The history variable of all admissions is shared with
the abstract module, and `ImplementsSlidingWindow` says that no clean-up changes a decision.

### LiveStream and LossyStream

`handler` is the coroutine of `stream_endpoint`: registered but not accepted, streaming,
closing. The send loop holds one message outside its queue while the socket accepts it.
`Cycle` is both broadcasts of one monitoring cycle, which no await separates. Messages are
numbers and a kind. `LossyStream` promises an ascending selection of what was published.

### SessionManager

A caller reads the clock (`ReadsClock`), waits for the lock and then does its operation under it, by
the time it read; `revoke_session` reads none. `create_session`, which an exchange calls with the lock
held, reads the clock again, so a session may be dated later than the test of its code: `waited` keeps
by how much, `acceptedAt` the reading of a request that was accepted. Tokens and codes are drawn from sets without repetition, as `token_urlsafe` does. The `custom_code` calls of the
daemon and of the runtime are `create_bootstrap_code` on a member of `LocalCodes`, with the
lifetime of a day. `SessionTick` moves the clock.

### RiskScoring, RiskEngine and IncidentLifecycle

A reading keeps what the branches of the code tell apart: each sensor is off, available or
active; the upload rate is below 500 KB/s, below 800 KB/s or above; three anomaly flags; the
points of the ML verdict, 0 if it did not fire (`MlPoints` within 15..30, as
`int(min(30, 15 + i * 20))` yields). `SEVERITY_LEVELS` replaces the names of the bands.
`RiskEngine` lets one signal change between scans. `IncidentLifecycle` runs the tracker on the
events of a set of readings; a resolved incident and an unknown one are treated alike by
`evaluate_event` and are one state. `told` is a history. `MonitoredHost` composes
both as a cycle does: the tracker is given the event of the reading that has just changed.

### CloudConnector and CloudRelay

The coroutine `run()` is suspended in `task`: connecting, waiting for its queue, in a send, in the
pause, or dead of an exception it does not handle. Connections are numbered in the order in which
they were opened; what a lost one carried may be lost from its end. An endpoint of the relay is
`checked`, `streaming`, `relaying` a message to the subscribers it found, in its `farewell` or
`done`; a new connection may reach `streaming` while the old one is still being torn down. The
sockets of a snapshot are served in any order, as a Python set yields them. One device, since
the relay keeps a device's entries under its own key.

### CloudPairing

A request handler has no await and is one step. Its answer may be lost, the request may arrive
after the agent gave up, and the agent may crash between emptying its file and filling it. Tokens,
codes and devices are drawn without repetition.

### HostDatabase and ScanPipeline

`migrate()` runs statement by statement, each committed alone, in every process that constructs
its storage. A scan is a walk through `collecting`, the three steps of an assessment (`warming`,
`scoring`, `learning`), which the reset of another thread may fall between, and its three
transactions. `stop()` closes the connections of all threads under whoever uses them. Readings are
their consequences: anomalous or not. `raced` and `cold` are histories of scans.

### HostAnalysis and Investigation

Processes start, use a device, end with or without giving it back, and hand on their numbers.
The consent store is external: per application, whether its key was never used, is in use or was
stopped. A snapshot is the walk of the code: list the processes, read the keys, compare with the
last status, record the transition; loop and worker walk at the same time. The five copies of the
test for an untrusted path stay five definitions. Telemetry of a full scan that none of the
properties tells apart is one of a set of loads. `StatusPrintsValue` is whether `str()` of a
status is its value, which is decided in `aura/models/`, a package that is not in the repository.
Rules that fire end a full scan with a NameError (section 3), so `FullScanReports` requires that
none does. The persistence page, the privacy page, the report and the full scan each compute what
they show in their own way; what one adds to another (a charge for denied permissions or crowded
connections, a missing startup target) is kept.

### LegacyScoring, LegacySensors, LegacyLog and LegacyDashboard

A scan reads the log whole, adds a row and writes it whole; opening the file for writing empties
it in a step of its own. A demonstration saves the log and writes it back. A page run takes the
signature of the log, may find it in the cache, and otherwise reads the file in a later step. Each
access to the log can fail, and what the code makes of it is part of the model: a demonstration that
cannot save the log unlinks it (`CaptureFails`), a scan that cannot read it goes on with no rows, a
page that cannot read it caches none, an append may fail to open the log or break off once it has
emptied it, and the restore may fail before or after that. The scores of the two detectors are inputs; the ladders that turn them into labels, severities and
status lines are translated in each of the three places where the code has them.

## 3. Runs

Passing runs. Every run ends within a few minutes on two workers, most of them within one.

| run | bounds | shows |
|---|---|---|
| `daemon_safety` | two agents, `asyncio.run`, failures up to 2 | mutual exclusion, final stops, nothing held by a process that only waits for its scan |
| `daemon_live` | one agent, scans, servers and users under no fairness | `stop()` frees the mutex |
| `limiter` | three keys of two routes, window 2, clean-up at two keys | the limiter is the sliding window |
| `stream` | three connections for two places, queues of 2, 3 messages | nothing lost unpressed, newest tick kept, order; ticks arrive |
| `sessions` | one code, one local code, two tokens, two callers, clock to 3 | single use, bounded access, final revocation |
| `host` | readings without microphone and process expansion, two ML verdicts | a further signal never lowers the score, one notification per severity, none swallowed |
| `cloud_relay` | two connections of one agent, two dashboards, two messages of which one is a security event | no ghosts, nothing withheld, offline is known, reconnections repeat nothing, order per connection |
| `cloud_pairing` | two users, codes, tokens and devices, clock to 2 | one device per code, its user alone ends it, what the file may hold |
| `scans` | two processes with two scanning threads each, two scans, warm-up of 1 | migrated when opened, scans whole, alarms warm |
| `legacy` | one tab beside one terminal, two scans, one click, one fault, one old log | the log's history, current caches, one verdict, honest health |
| `investigation` | two process numbers, three applications, one camera, two starts, captures and requests | who uses a sensor is seen, responses are safe, analyses correspond up to known charges |

Why the bounds are enough. Two agents suffice for a mutual exclusion that every agent takes
alone, and the theorems cover any number; what `stop()` waits for is all inside one process,
so its liveness needs one. Three keys for a table of two make the clean-up run in
every state of the window; a window of two ticks has an admission on its edge, inside and
outside. Three connections for two places exercise refusal, ghosts and reuse; queues of 2 and a
cycle of two messages fill, overflow and refill them while one is in flight. A clock of 3 with
lifetimes of 1 and two callers lets a code and its session expire in any order, under a call that read
the clock before; the local code is the one that buys twice. The host run covers every
pair of severities and interleavings of its incidents; the theorems cover the full set of
readings. Two connections are what replacing one by the other takes, a queue of one fills
with the second message, and two dashboards make a broadcast have a middle. Two devices show one code
that buys both. Two processes are what it takes to migrate at once, and two threads of one process for a
close, a write or a reset under a scan; the theorems cover any number. (That a baseline learns at most one
observation per further thread past its warm-up, the second part of `AlarmsAreWarm`, takes three scans to be
violated, which are too many for TLC: that part rests on its theorem.) One old row, one tab and one
terminal are enough for two writers of one log. Two process numbers and three applications let a
number pass from an ordinary process to a protected one during a response and let a dead
application's key stand beside a live one's; for what is seen and who is ended the theorems cover
any host.

Deadlock is checked where the system goes on for ever (the daemon, the limiter, the host, the
scans); the other configurations switch it off because the messages, the clock or the number of
processes are bounded.

One run ends in a violation, a disagreement between the code and what it says:

| run | what happens |
|---|---|
| `daemon_signal` | under `runtime.py` the loop closes in the middle of `stop()` |

More disagreements were met while modelling. Where a property is named, it is stated in its module
and TLC violates it; the index spends no run on it. (`TwoTabs`, `NoTerminal` and `NoOldLog` of
`MC_LegacyDashboard` are the constants for the two of the prototype that need two tabs; `MicReadings` of
`MC_MonitoredHost` is the set of readings for `WorseHostsNeverScoreLower`; the two of the relay across
connections need no event, `Events = {}`.)

| property | what happens |
|---|---|
| `AgentDaemon!PortOccupiedMeansDegraded` | the port is taken: the log announces DEGRADED (`daemon.py:184`), `start()` stores RUNNING (`daemon.py:146`) |
| `AgentDaemon!OneMonitoringDaemon` | the scan of a stopped daemon goes on in its thread beside the next daemon's |
| `AgentDaemon!NoWriteAfterStopped` | that scan opens a connection and commits after "STOPPED cleanly" (`daemon.py:239`) |
| `RateLimiter!TrackedKeysBounded` | the "bounded in-memory" table outgrows `max_tracked_keys` (`ratelimit.py:31`) |
| `LiveStream!RegisteredAreActive` | `accept()` fails after the registration: the client stays registered for ever (`router.py:805`) |
| `LiveStream!OnlyTicksEvicted` | "Drop oldest tick" (`stream.py:84`) drops a security event |
| `SessionManager!LocalCodesPersist` | the "persistent" local codes (`auth.py:66`) are registered again for a day (`daemon.py:156`) and then deleted by an exchange |
| `SessionManager!AccessIsBoundedExactly` | an exchange tests its code by one reading of the clock (`auth.py:108`) and dates the session by a later one (`auth.py:138`): the two lives stretch by the time it waited for the lock |
| `RiskEngine!WorseHostsNeverScoreLower` | beside a burst of upload an idle microphone is charged 35 + 25 points and one that records 30 + 25 (`correlation.py:97`, `:158`) |
| `RiskEngine!PairCountedOnce` | one sensor and one upload are charged twice (`risk_hardened.py:139`) against "anti-double-counting" (`README.md:18`) |
| `RiskEngine!PrivacyAnomalyMeansInUse` | a camera that is merely there is reported as an active stream |
| `IncidentLifecycle!RecurrenceIsNotified` | a threat that ended and comes back is not announced |
| `IncidentLifecycle!AllClearClosesIncidents` | "Threat resolves (baseline returns to normal)" (`notifications.py:7`): the event that says so names the nominal incident, never the open one (`service.py:205-215`), so it closes nothing |
| `CloudRelay!LatestTickIsNewest` | the endpoint of a connection that was replaced receives what that connection still carried and caches it over the newer tick (`relay.py:74`) |
| `CloudRelay!OrderAcrossConnections` | the endpoints of two connections broadcast side by side: a dashboard gets an older message after a newer one |
| `CloudRelay!RunningConnectorIsAlive` | a refused handshake raises what `run()` does not handle: the task ends, `_is_running` stays true (`cloud_client.py:134`) |
| `CloudRelay!ServedAgentIsListed` | the teardown of the old connection removes the entry of the new one (`relay.py:25`); its next message does not bring it back |
| `CloudPairing!ConsumedCodesAreHeld` | the answer to a pairing request is lost: the code is consumed and nobody holds the token |
| `ScanPipeline!NoFalseAlarm` | a reset falls between the check of the warm-up and the score: "insufficient data is not flagged" (`baseline.py:121`), it is |
| `LegacyDashboard!NoSyntheticHistory` | two tabs: a live scan writes the synthetic row of a demonstration back, against "Never written to logs" (`app.py:225`) |
| `LegacyDashboard!AbsentLogIsEmpty` | two tabs: every missing log has the signature (0, 0) (`aura_ui/core.py:600`); rows read while a demonstration had created the log are cached under it and shown once the demonstration has removed the log |
| `LegacyDashboard!HistoryIsNotDeleted` | "The log is restored afterwards": a demonstration that cannot read the log takes it for its own and unlinks it (`aura_ui/scan.py:77`, `:91`) |
| `LegacyDashboard!CacheIsTheLog` | a log that cannot be read is an empty one (`aura_ui/core.py:621`, `logger.py:626`), and the page cache keeps it until the log changes |
| `Investigation!OnePrivacyScore` | the privacy page charges 10 per denied permission (`router.py:1133`), the full scan 15 for crowded connections (`scan_engine.py:209`), the report neither (`reports.py:94`) |
| `Investigation!SuspectsStayHigh` | a startup entry that the rules and the hunts call HIGH is LOW on the persistence page once its target is gone (`persistence_intel.py:80`) |
| `Investigation!TransitionsAreChanges` | two threads: the last status changes between the comparison and the record (`camera.py:308`), which then says from ACTIVE to ACTIVE |
| `Investigation!ProtectedSurvive` | the older endpoint asks psutil for the process and ends it, whoever it is (`router.py:596`); only the safe one knows protected names |
| `Investigation!TerminationsAreAudited` | the safe endpoint, "with audit logging" (`router.py:1285`), writes a timeline entry and no audit row |

Seen while reading, without a property:

* daemon: every cycle slower than `max(12, 3 * interval)` seconds passes for a resume from sleep
  and resets the baselines (`daemon.py:245`, `power.py:47`). `send_heartbeat` has no caller
  (`stream.py:94`); a stream outlives its session (`router.py:793`); `cleanup_expired` is called by
  tests only (`auth.py:205`); releasing the lock file unlinks it after the unlock, so that two
  agents may each lock a file of that name (`mutex.py:145`).
* telemetry and storage: overlapping scans share the byte counters their rates come from
  (`collector.py:198`); the baseline never learns a value beyond 4 deviations, so a lasting change
  of the host alarms for ever (`baseline.py:167`); importing a CSV twice stores its rows twice
  (`csv_import.py:22`).
* full scan and analyses: `hashlib` is used and not imported (`scan_engine.py:163`), so a full
  scan in which a rule fires ends in a NameError and only hosts without rule findings get a report;
  `Literal` is missing in `router.py:1074`; a rescan reopens what the user resolved, and reports
  count resolved findings; failed posture probes read as secure; the hash cache of executables is
  kept by path and never invalidated; an active camera is listed as UNAVAILABLE in the sensor
  health (`collector.py:299`); a suspicious startup entry whose target is missing is rated LOW
  (`persistence_intel.py:80`); a packaged app is never seen active, because its consent key does not
  end in a process name (`camera.py:259`); a flag left by a dead process and a live namesake that
  does not use the device read as ACTIVE; ending a process that has just gone leaves no record.
* prototype: `append_log` never reaches the SQLite mirror, because it reads `row["Net_Upload"]`
  which no row has (`logger.py:962`, `:982`); an unreadable log reads as empty and the next scan overwrites it
  (`logger.py:626`, `:609`); overlapping scans lose rows; `scan_once` ignores `persist`
  (`aura_core.py:722`); "Clear result" also clears the flag that a restore failed; the refresh
  token is one number per session but the cache is shared; a failing CPU usage probe is called
  HEALTHY and `get_sensor_health` of the backend always answers 100 %.

`IncidentLifecycle!RecurrenceIsNotified` and `AllClearClosesIncidents` fail for one reason: events that say
"resolved" always name the nominal incident, which was never open. Only `inc_process_count_expansion` is
ever closed, because its 12 points alone are NORMAL. `RisingSignalsNeverLowerTheScore` excepts one change,
the microphone that begins to record, for which the score may fall from 60 to 55.
`AccessIsBounded` allows for the time the exchange itself waited, and for nothing else.
`ReconnectionsRepeatNothing` is about what the agent sends, and `ImplementsLossyStream` about one connection
at a time: across connections the relay may reorder. `AlarmsAreWarm` excepts the
scans that a reset fell into, and `HistoryIsWhole` the scans that overlapped or were killed and the four
errors that lose rows: a log that cannot be captured, read or restored, and a live scan that breaks off while
it writes; what goes wrong there is in the table and the list above. `CacheIsCurrent` speaks of a log
that exists (without one, `AbsentLogIsEmpty` fails) and allows the rows of a failed read to be none;
`AnalysesCorrespond` states the differences between the analyses instead of hiding the hosts that have them; and `RefreshShowsNewReadings` excepts a tab whose
counter another tab has reached: the cache they share is keyed by the number alone.

## 4. Fairness

`AgentDaemon` assumes weak fairness of the steps of `stop()` and of the teardown: the event loop
runs what is ready and `wait_for` has a timeout. Nothing is assumed of scans, the uvicorn
shutdown or the user. `LiveStream` assumes it of the send loop (the loop runs a ready
coroutine), of a send in progress that completes or whose connection ends (the server's ping
timeout; an idle connection need not end). The endpoint's `finally`, publishing, connecting
and disconnecting are not assumed. `CloudRelay` has a fair specification of the same kind for
`LostConnectionsEnd`, which TLC confirms for a single dashboard; with the two of `cloud_relay` its
graph is too large for a run of the index, and that run checks the safety properties only. No other
module states liveness: a scan, a request or a page run may hang, and nothing in the code bounds it.

## 5. Proofs

Assumptions are only those named in the modules (`NamesAssumption`, `DisjointCodes`,
`SizesAssumption`, ...): that the constants are what they stand for. TLC evaluates them in every run
of their module. Where a theorem needs more, it says so here.

* `AgentDaemon_proofs`: for any set of agents. Mutual exclusion is not inductive: a daemon is
  running long after it asked for the mutex. `Invariance` ties the entry point, `state`, the
  monitoring task, `stopPc` and `holder` of each agent together; from it follow
  `MutualExclusion`, `MonitorIsExclusive`, `RunningIsHonest`, `StopIsFinal` and, under
  `Supervisor = "asyncio_run"`, `LeaversHoldNothing`: a process that has left its loop and only waits
  for its scan thread holds neither the mutex nor the port, on every path out of `start()` and `stop()`.
  It needs that nobody else's `stop()` is under way when the `finally` finds one to return at once, which
  is false for the other supervisor: `daemon_signal` shows the loop closed in the middle of a stop.
* `Api_proofs`. The limiter, for any keys, limits and window: each deque is the tail of its key's
  admissions, and what is missing has left the window; so counting the deque is counting the
  window, which gives `LimitHolds`, `RefusalIsJustified` and `Refinement` to `SlidingWindow`. The
  sessions: a code that bought a session is drawn and not registered, and a drawn code is never
  registered again.
* `LiveStream_proofs`: for any connections and sizes. What a client has ahead of it is ascending,
  above what it received and not above what was published; unpressed it is consecutive. Eviction
  is `Append(Tail(q), m)`, about which the sequence lemmas are stated once. `Refinement`: a send
  is a `Receive`, a cycle a `Publish`, all else stutters.
* `MonitoredHost_proofs`: the score, for every ML verdict, splits into the exclusive rules, the
  devices and the compound contributor, each of which is monotone. Of the tracker, for any readings
  and minimum severity, an incident is open exactly when something was told of it, and
  `notified_severity` is the last thing told. A step of `MonitoredHost` is a step of both, so
  `HostFollowsItsParts` and `HostIsSafe` carry all of it over to the composition.
* `Cloud_proofs`: for any number of connections, dashboards and messages and any queue. `RelayInv`
  says that whatever waits, in the queue, on a link, in a relaying endpoint or for a dashboard, is in
  the order in which it was published and behind everything already received; that an endpoint in a
  broadcast has sent the same to everybody whom it has left behind; that each entry of the relay
  belongs to a handler whose teardown removes it; and that as long as someone has to be told that
  the agent is gone, a handler is left that will. From it follow `NoGhosts`, `NothingWithheld`,
  `OfflineIsKnown` and `EachMessageTravelsOnce`, the order in which messages are sent over all
  connections; the order in which they arrive is proved per connection only. `RelayRefinement` maps each delivery to a `Receive` of
  `LossyStream`, one reader per pair of connection and dashboard. `PairingInv` says that a
  consumed code has a user and a device of its own and that a device not yet drawn has no user, which
  is what `EveryDeviceHasItsCode` and `OnlyItsUserShutsADevice` rest on.
* `ScanPipeline_proofs`: for any processes, threads and warm-up. A migration that ran its
  statements finds their tables, whoever made them, so a recorded version is created; a scan that
  stands at its third write has made the first two, also under a closed connection, a prune or a
  kill; between the check and the learning of an assessment the baseline is warm or a reset fell
  into it.
* `Investigation_proofs`: for any host. A process that used a sensor all along a thread's snapshot
  was in the list the thread took and had its key flagged when it was read, and its application
  matches by name; a response in progress holds a process whose name was checked, and psutil
  ends that process, not the one that has its number now. `CaptureInv` says that a capture is active
  exactly when it names an application and a process, for which an application needs a name
  (`NameAssumption`); the process has the number, and whether it is the one that uses the device is not
  said. With it `AnalysesCorrespond` follows from a lemma per analysis: what each hunt, rule and part of
  Process DNA fires on, that the five path tests accept the same places, and by how much each of the three
  scores of privacy differs from the sum they share (`ScoresDiffer`), for any denied permissions, any load and
  both ways in which a status may print.
* `LegacyDashboard_proofs`: for any tabs, terminals, probes, readings and old logs. `IInv` has one
  part per concern. `FilesOK`: the rows of the file, of the cache, of a scan and of a screen are rows
  that `append_log` writes or that an old log had. `LengthInv`: there is room in the log for the
  rows of the scans that have not written yet, so that a row is CRITICAL only above `MinHistory`.
  `HistoryInv`: while nothing happened that `HistoryIsWhole` excepts, at most one scan is under way, and the log,
  or what this scan has read, is writing or has saved of it, is what was recorded. `CacheInv`: a change of the file raises its modification time, so
  a signature in the cache is one of the past or its entry has the rows of the file, or none if the read
  failed (`IsTrue`). `FreshInv` relates the
  tokens of the tabs to what the shared live cache holds, `HealthInv` a status to the probes that
  answered, `VerdictInv` a result and a chart to one ladder. All six properties of the run follow.
  `NormalizeRow` and `Dropna` are computed by functions over the rows; the little induction over data
  that this takes (`DropnaOf`) goes through the least element of a set of naturals, `WFMin` of the
  library.

The assumptions of the prototype need a word, since they speak of files and sensors. A terminal is
a process of its own; readings are numbers of the range psutil returns; only probes that exist fail;
a log an earlier version left is a sequence of rows, each with an event and a label that is
not blank, as `append_log`, whose label is NORMAL by default, writes them. Nothing is assumed of which label: a chart
shows the stored one, so `OneVerdict` excepts the old rows whose label is not what the thresholds of
today make of their score (`LabelledOtherwise`).

Only model-checked: the liveness properties (`StopFreesTheMutex`, `TicksArrive`,
`LostConnectionsEnd`), since fairness and ENABLED are beyond the prover, and all
violations. Every invariant that a passing run checks is stated by a theorem.

The type invariants of the daemon, the stream, the risk engine and others are proved
(`TypeCorrect`) or part of a proved invariant, and no run is spent on them. `RunningHasNoFailures` is
proved as `RunningIsHonest`.

## 6. What was built in which order, and what is left

1. Daemon, limiter, stream, sessions, risk engine and notifications, with their proofs.
2. The cloud: `CloudConnector`, `CloudRelay` (which keeps the promise of `LossyStream`),
   `CloudPairing`.
3. `HostDatabase` and `ScanPipeline` with their proofs; `MonitoredHost` composes engine and tracker.
4. The investigation endpoints and analyses, with proofs; the prototype.
5. The proofs of the cloud, of the prototype, of `LeaversHoldNothing` and of `AnalysesCorrespond`.

Left, in the order of worth: the status a user gives to
a finding against the rescan that overwrites it; the file lock with flock and unlink as the
steps they are; the shared byte counters; the desktop client's reconnection and merge.

## 7. Not modelled

* The listings of processes, sockets, system data and event log (`aura/sensors/`): they keep
  nothing and decide nothing; where a decision is made on them, they are inputs.
* The ML models (scikit-learn) and the baseline's mean and variance: real numbers. Their verdicts
  are inputs, and what the code does with them is modelled.
* `aura/intelligence/alerts.py`, `correlator.py`, `incidents.py` and `findings.py`: no caller feeds
  them. Explanations and metrics format what other parts hold.
* REST views, middleware, configuration, logging, redaction and the CLI: parsing and formatting.
* Power detection (one comparison of clocks; the reset it leads to is in `ScanPipeline`) and the
  Windows startup entry.
* The desktop client (Dart), the pages and styles of the prototype.
* `aura/models/` is imported by the package but absent from the repository; its types are taken
  from how the code uses them.
