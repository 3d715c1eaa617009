---------------------------- MODULE LegacySensors ----------------------------
(***************************************************************************)
(* The sensor getters of the prototype (sensors.py), which answer with a   *)
(* zero-filled record when their probe raises, and the health the page     *)
(* derives from how plausible those values are (aura_ui/core.py). A value  *)
(* is 1 when it was measured and is not zero; an idle disk is a measured 0. *)
(***************************************************************************)
EXTENDS Naturals, FiniteSets

\* The calls into psutil and the device tree that can raise.
Probes == {"cores", "usage", "memory", "disk", "disk_io", "network", "interfaces",
           "processes", "sockets", "battery", "boot", "camera"}

Measured(failed, probe) == IF probe \in failed THEN 0 ELSE 1

CpuInfo(failed) == [logical_cores |-> Measured(failed, "cores"),
                    usage_percent |-> Measured(failed, "usage")]
MemoryInfo(failed) == [total_gb |-> Measured(failed, "memory")]
DiskInfo(failed) == [total_gb |-> Measured(failed, "disk")]
DiskIoRate(failed) == [mbps |-> Measured(failed, "disk_io")]
SampleNetwork(failed) == [bytes |-> Measured(failed, "network"),
                          kbps |-> Measured(failed, "network")]
NetworkInfo(failed) ==
    [bytes |-> SampleNetwork(failed).bytes, kbps |-> SampleNetwork(failed).kbps,
     active_interfaces |-> Measured(failed, "interfaces")]
ProcessCount(failed) == Measured(failed, "processes")
BatteryInfo(failed) == [available |-> "battery" \notin failed]
SystemUptime(failed) == [uptime_seconds |-> Measured(failed, "boot")]

\* Nothing is probed unless the operator asked for it.
CameraStatus(failed, probed) == IF probed THEN Measured(failed, "camera") ELSE 0

FullSnapshot(failed, probed) ==
    [cpu |-> CpuInfo(failed), memory |-> MemoryInfo(failed), disk |-> DiskInfo(failed),
     disk_io |-> DiskIoRate(failed), network |-> NetworkInfo(failed),
     process_count |-> ProcessCount(failed), battery |-> BatteryInfo(failed),
     uptime |-> SystemUptime(failed), camera_available |-> CameraStatus(failed, probed)]

\* get_process_snapshot() and get_connection_snapshot(): access denied is an empty table
ProcessSnapshot(failed) == [process_count |-> Measured(failed, "processes")]
ConnectionSnapshot(failed) ==
    [connection_count |-> Measured(failed, "sockets"),
     remote_connection_count |-> Measured(failed, "sockets")]

\* get_sensor_health() asks which keys are there, and every getter always answers.
BackendHealthPercent(snapshot) ==
    LET asked == {"cpu", "memory", "disk", "disk_io", "network", "process_count",
                  "battery", "uptime"}
    IN  (100 * Cardinality(asked \cap DOMAIN snapshot)) \div Cardinality(asked)

----------------------------------------------------------------------------
(* derive_sensor_health() and health_rollup() *)

Or(fault, status, otherwise) == IF fault THEN status ELSE otherwise

HostHealth(snapshot) ==
    [cpu |-> Or(snapshot.cpu.logical_cores = 0, "UNAVAILABLE", "HEALTHY"),
     memory |-> Or(snapshot.memory.total_gb = 0, "UNAVAILABLE", "HEALTHY"),
     disk |-> Or(snapshot.disk.total_gb = 0, "UNAVAILABLE", "HEALTHY"),
     disk_io |-> Or(snapshot.disk.total_gb = 0, "UNAVAILABLE",
                    Or(snapshot.disk_io.mbps = 0, "PRIMING", "HEALTHY"))]

\* A faulty variant of the next definition: the counters are not looked at.
TrafficHealthByInterfaces(snapshot, connections) ==
    [network |-> Or(snapshot.network.active_interfaces = 0, "DEGRADED", "HEALTHY"),
     processes |-> Or(snapshot.process_count = 0, "UNAVAILABLE", "HEALTHY"),
     sockets |-> Or(connections.connection_count = 0, "PERMISSION_LIMITED", "HEALTHY")]

TrafficHealth(snapshot, connections) ==
    [network |-> Or(snapshot.network.bytes = 0, "UNAVAILABLE",
                    Or(snapshot.network.active_interfaces = 0, "DEGRADED", "HEALTHY")),
     processes |-> Or(snapshot.process_count = 0, "UNAVAILABLE", "HEALTHY"),
     sockets |-> Or(connections.connection_count = 0, "PERMISSION_LIMITED", "HEALTHY")]

DeviceHealth(snapshot, probed) ==
    [battery |-> Or(~ snapshot.battery.available, "NOT_PRESENT", "HEALTHY"),
     uptime |-> Or(snapshot.uptime.uptime_seconds = 0, "UNAVAILABLE", "HEALTHY"),
     camera |-> Or(~ probed, "NOT_PROBED",
                   Or(snapshot.camera_available = 0, "NOT_PRESENT", "HEALTHY"))]

\* The records of one page: three functions with disjoint domains.
SensorHealth(snapshot, connections, probed) ==
    <<HostHealth(snapshot), TrafficHealth(snapshot, connections), DeviceHealth(snapshot, probed)>>

WithStatus(health, statuses) ==
    UNION {{name \in DOMAIN health[i] : health[i][name] \in statuses} : i \in DOMAIN health}

HealthRollup(health) ==
    LET all == UNION {DOMAIN health[i] : i \in DOMAIN health}
        assessed == all \ WithStatus(health, {"NOT_PRESENT", "NOT_PROBED"})
        faults == WithStatus(health, {"UNAVAILABLE", "DEGRADED"})
        limited == WithStatus(health, {"PERMISSION_LIMITED"})
    IN  IF assessed = {} THEN "UNAVAILABLE"
        ELSE IF faults # {}
             THEN Or(2 * Cardinality(faults) >= Cardinality(assessed), "UNAVAILABLE", "DEGRADED")
        ELSE Or(limited # {}, "PERMISSION_LIMITED", "HEALTHY")
=============================================================================
