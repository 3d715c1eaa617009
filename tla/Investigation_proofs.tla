------------------------ MODULE Investigation_proofs ------------------------
(***************************************************************************)
(* What the sensors see and whom the safe endpoint ends, for any processes,*)
(* applications, sensors and bounds. One inductive invariant in three      *)
(* parts: the host and its consent store; what a snapshot in progress knows*)
(* of the processes that use its sensor; and what a response in progress   *)
(* has asked of the process it opened.                                     *)
(***************************************************************************)
EXTENDS Investigation, SequenceTheorems, FiniteSetTheorems, TLAPS

Fields == {"at", "job", "device", "running", "capture", "captures", "seen", "pid", "born"}

ThreadShape ==
    /\ DOMAIN thread = Threads
    /\ \A t \in Threads : DOMAIN thread[t] = Fields

\* Every use of a sensor is flagged in the consent store.
ProcessOK(process) ==
    /\ DOMAIN process = {"app", "born", "uses", "listens", "remote"}
    /\ process.app \in Apps
    /\ process.born \in Nat /\ process.born <= starts
    /\ process.uses \subseteq Monitored
    /\ \A d \in process.uses : usage[d][process.app] = InUseNow

HostInv ==
    /\ starts \in Nat
    /\ DOMAIN usage = Monitored
    /\ \A d \in Monitored : DOMAIN usage[d] = Apps
    /\ \A p \in DOMAIN procs : ProcessOK(procs[p])

\* Who is watched is alive, uses the sensor and is in the list of the snapshot.
Watched(t) ==
    /\ throughout[t] \subseteq DOMAIN procs
    /\ At(t, "read") =>
          /\ thread[t].device \in Monitored
          /\ \A p \in throughout[t] : /\ thread[t].device \in procs[p].uses
                                      /\ p \in DOMAIN thread[t].running
                                      /\ thread[t].running[p] = procs[p].app.name
    /\ At(t, "compare") =>
          \A p \in throughout[t] :
              ~ procs[p].app.packaged => thread[t].capture.status = "ACTIVE"

WatchInv == DOMAIN throughout = Threads /\ \A t \in Threads : Watched(t)

\* The process that was opened is not a protected one, as long as it is the same.
ResponseInv ==
    /\ thread[Loop].born \in Nat /\ thread[Loop].born <= starts
    /\ thread[Loop].at \in {"open", "terminate", "wait", "kill"} =>
          thread[Loop].job \in {"respond", "terminate"} /\ Target \in Pids
    /\ At(Loop, "terminate") /\ StillThere => ~ IsProtected(procs[Target].app)
    /\ thread[Loop].at \in {"wait", "kill"} =>
          \E e \in ended : e.by = thread[Loop].job /\ e.pid = Target
    /\ timeline \in Seq(Pids)
    /\ ResponsesAreSafe

IInv == ThreadShape /\ HostInv /\ WatchInv /\ ResponseInv

----------------------------------------------------------------------------

\* The cap of the timeline only forgets.
LEMMA KeptForgets ==
    ASSUME NEW S, NEW s \in Seq(S)
    PROVE  /\ Kept(s) \in Seq(S)
           /\ \A i \in DOMAIN Kept(s) : \E j \in DOMAIN s : Kept(s)[i] = s[j]
<1> USE InvestigationAssumption
<1>1. CASE Len(s) > TimelineCap
  <2> DEFINE a == Len(s) - TimelineCap + 1
  <2>1. a \in 1 .. Len(s) + 1 /\ Len(s) \in 0 .. Len(s)
    BY <1>1
  <2>2. Kept(s) = SubSeq(s, a, Len(s))
    BY <1>1 DEF Kept
  <2>3. /\ SubSeq(s, a, Len(s)) \in Seq(S)
        /\ DOMAIN SubSeq(s, a, Len(s)) = 1 .. TimelineCap
        /\ \A i \in 1 .. TimelineCap : SubSeq(s, a, Len(s))[i] = s[a + i - 1]
    BY <2>1, <1>1
  <2>4. \A i \in 1 .. TimelineCap : a + i - 1 \in DOMAIN s
    BY <1>1
  <2> QED BY <2>2, <2>3, <2>4
<1>2. CASE ~ (Len(s) > TimelineCap)
  BY <1>2 DEF Kept
<1> QED BY <1>1, <1>2

\* Whoever is in the list and flagged under an unpackaged name makes the verdict ACTIVE.
LEMMA FlaggedIsActive ==
    ASSUME NEW use, NEW running, NEW capture \in Captures(use, running),
           NEW app \in DOMAIN use, Flagged(use[app]), ~ app.packaged,
           NEW p \in DOMAIN running, running[p] = app.name
    PROVE  capture.status = "ACTIVE"
<1>1. app \in GenuinelyActive(use, running)
  BY DEF GenuinelyActive, MatchingProcesses
<1> QED BY <1>1 DEF Captures, ActiveIn

LEMMA InitInv == Init => IInv
<1> SUFFICES ASSUME Init PROVE IInv
  OBVIOUS
<1> USE DEF Init
<1>1. DOMAIN procs = {}
  BY DEF Init
<1>2. ThreadShape
  BY DEF ThreadShape, Resting, Fields
<1>3. HostInv
  BY <1>1 DEF HostInv, ProcessOK
<1>4. WatchInv
  BY DEF WatchInv, Watched, At, Resting
<1>5. thread[Loop] = Resting
  BY DEF Threads
<1>6. ResponseInv
  BY <1>5 DEF ResponseInv, ResponsesAreSafe, At, Resting
<1> QED BY <1>2, <1>3, <1>4, <1>6 DEF IInv

(* The host *)

\* A number that is given again is not the process that was opened: it was born later.
LEMMA StartPreserves ==
    ASSUME IInv, NEW pid, NEW app \in Apps, NEW sockets, ProcessStarts(pid, app, sockets)
    PROVE  IInv'
<1> USE DEF IInv, ProcessStarts, ghosts, recordVars, sensorVars
<1>1. /\ DOMAIN procs' = DOMAIN procs \cup {pid}
      /\ procs'[pid] = [app |-> app, born |-> starts', uses |-> {},
                        listens |-> sockets.listens, remote |-> sockets.remote]
      /\ \A p \in DOMAIN procs : p # pid /\ procs'[p] = procs[p]
  BY DEF With
<1>2. starts \in Nat /\ starts' = starts + 1
  BY DEF HostInv, ProcessOK
<1>3. ThreadShape'
  BY DEF ThreadShape
<1>4. HostInv'
  <2>1. /\ DOMAIN procs'[pid] = {"app", "born", "uses", "listens", "remote"}
        /\ procs'[pid].app = app /\ procs'[pid].born = starts' /\ procs'[pid].uses = {}
    BY <1>1
  <2>2. ASSUME NEW p \in DOMAIN procs
        PROVE  procs'[p] = procs[p] /\ procs'[p].born \in Nat /\ procs'[p].born <= starts'
    <3>1. procs[p].born \in Nat /\ procs[p].born <= starts
      BY DEF HostInv, ProcessOK
    <3>2. procs'[p] = procs[p]
      BY <1>1
    <3> QED BY <1>2, <3>1, <3>2
  <2>3. /\ DOMAIN usage' = Monitored /\ usage' = usage
        /\ \A d \in Monitored : DOMAIN usage'[d] = Apps
    BY DEF HostInv, ProcessOK
  <2>4. ProcessOK(procs[pid])'
    <3> HIDE DEF ProcessStarts, IInv
    <3>1. starts' \in Nat /\ starts' <= starts'
      BY <1>2
    <3>2. \A d \in procs'[pid].uses : FALSE
      BY <2>1
    <3> QED BY <2>1, <3>1, <3>2 DEF ProcessOK
  <2>5. ASSUME NEW p \in DOMAIN procs PROVE ProcessOK(procs[p])'
    <3>1. ProcessOK(procs[p])
      BY DEF HostInv
    <3> QED BY <1>2, <2>2, <2>3, <3>1 DEF ProcessOK
  <2> QED BY <1>1, <1>2, <2>3, <2>4, <2>5 DEF HostInv
<1>5. WatchInv'
  <2>1. thread' = thread /\ throughout' = throughout
    OBVIOUS
  <2>2. ASSUME NEW t \in Threads PROVE Watched(t)'
    <3>1. Watched(t)
      BY DEF WatchInv
    <3>2. \A p \in throughout[t] : p \in DOMAIN procs /\ procs'[p] = procs[p]
      BY <3>1, <1>1 DEF Watched
    <3> QED BY <1>1, <2>1, <3>1, <3>2 DEF Watched, At
  <2> QED BY <2>1, <2>2 DEF WatchInv
<1>6. ResponseInv'
  <2>1. thread[Loop].born \in Nat /\ thread[Loop].born <= starts
    BY DEF ResponseInv
  <2>2. StillThere' => Target \in DOMAIN procs /\ StillThere
    <3> SUFFICES ASSUME StillThere' PROVE Target \in DOMAIN procs /\ StillThere
      OBVIOUS
    <3>1. Target' = Target /\ thread' = thread
      BY DEF Target
    <3>2. Target \in DOMAIN procs' /\ procs'[Target].born = thread[Loop].born
      BY <3>1 DEF StillThere
    <3>3. procs'[pid].born = starts'
      BY <1>1
    <3>4. starts' # thread[Loop].born
      BY <1>2, <2>1
    <3>5. Target # pid
      BY <3>2, <3>3, <3>4
    <3> QED BY <1>1, <3>2, <3>5 DEF StillThere
  <2>3. StillThere' => procs'[Target].app = procs[Target].app
    BY <2>2, <1>1
  <2>4. (At(Loop, "terminate") /\ StillThere)' => ~ IsProtected(procs[Target].app)
    BY <2>2 DEF ResponseInv, At
  <2> QED BY <1>2, <2>1, <2>2, <2>3, <2>4 DEF ResponseInv, ResponsesAreSafe, At, Target, IsProtected
<1> QED BY <1>3, <1>4, <1>5, <1>6

\* A step that leaves the threads and the records alone, and gives no process another
\* application or birth, cannot disturb the responses.
LEMMA ResponsesKeep ==
    ASSUME IInv, UNCHANGED <<thread, recordVars, starts, ended>>,
           DOMAIN procs' \subseteq DOMAIN procs,
           \A p \in DOMAIN procs' : procs'[p].app = procs[p].app /\ procs'[p].born = procs[p].born
    PROVE  ThreadShape' /\ ResponseInv'
<1> USE DEF IInv, recordVars
<1>1. StillThere' => StillThere /\ procs'[Target].app = procs[Target].app
  BY DEF StillThere, Target
<1>2. ThreadShape'
  BY DEF ThreadShape
<1>3. ResponseInv'
  BY <1>1 DEF ResponseInv, ResponsesAreSafe, At, Target, IsProtected
<1> QED BY <1>2, <1>3

LEMMA BeginPreserves ==
    ASSUME IInv, NEW pid, NEW d \in Monitored, BeginsCapture(pid, d)
    PROVE  IInv'
<1> USE DEF IInv, BeginsCapture, ghosts, recordVars, sensorVars
<1>1. /\ DOMAIN procs' = DOMAIN procs /\ pid \in DOMAIN procs
      /\ \A p \in DOMAIN procs :
            /\ DOMAIN procs'[p] = {"app", "born", "uses", "listens", "remote"}
            /\ procs'[p].app = procs[p].app /\ procs'[p].born = procs[p].born
            /\ procs'[p].uses = IF p = pid THEN procs[p].uses \cup {d} ELSE procs[p].uses
  BY DEF HostInv, ProcessOK
<1>2. /\ DOMAIN usage' = Monitored /\ \A e \in Monitored : DOMAIN usage'[e] = Apps
      /\ usage'[d][procs[pid].app] = InUseNow
      /\ \A e \in Monitored, a \in Apps : usage'[e][a] = usage[e][a] \/ usage'[e][a] = InUseNow
  BY DEF HostInv, ProcessOK
<1>3. HostInv'
  <2>1. \A p \in DOMAIN procs : /\ procs'[p].app \in Apps /\ procs'[p].uses \subseteq Monitored
                                /\ procs'[p].born \in Nat /\ procs'[p].born <= starts
    BY <1>1 DEF HostInv, ProcessOK
  <2>2. \A p \in DOMAIN procs : \A e \in procs'[p].uses : usage'[e][procs[p].app] = InUseNow
    BY <1>1, <1>2 DEF HostInv, ProcessOK
  <2> QED BY <1>1, <1>2, <2>1, <2>2 DEF HostInv, ProcessOK
<1>4. WatchInv'
  BY <1>1 DEF WatchInv, Watched, At
<1>5. ThreadShape' /\ ResponseInv'
  BY <1>1, ResponsesKeep
<1> QED BY <1>3, <1>4, <1>5

\* The key stays flagged while another process of the application uses the sensor.
LEMMA StopPreserves ==
    ASSUME IInv, NEW pid, NEW d \in Monitored, StopsCapture(pid, d)
    PROVE  IInv'
<1> USE DEF IInv, StopsCapture, bounds, recordVars, sensorVars
<1>1. /\ DOMAIN procs' = DOMAIN procs /\ pid \in DOMAIN procs
      /\ \A p \in DOMAIN procs :
            /\ DOMAIN procs'[p] = {"app", "born", "uses", "listens", "remote"}
            /\ procs'[p].app = procs[p].app /\ procs'[p].born = procs[p].born
            /\ procs'[p].uses = IF p = pid THEN procs[p].uses \ {d} ELSE procs[p].uses
  BY DEF HostInv, ProcessOK
<1>2. /\ DOMAIN usage' = Monitored /\ \A e \in Monitored : DOMAIN usage'[e] = Apps
      /\ \A e \in Monitored, a \in Apps :
            (e # d \/ a # procs[pid].app \/ ~ SoleUser(pid, d)) => usage'[e][a] = usage[e][a]
  BY DEF HostInv, ProcessOK
<1>3. HostInv'
  <2>1. \A p \in DOMAIN procs : /\ procs'[p].app \in Apps /\ procs'[p].uses \subseteq Monitored
                                /\ procs'[p].born \in Nat /\ procs'[p].born <= starts
    BY <1>1 DEF HostInv, ProcessOK
  <2>2. ASSUME NEW p \in DOMAIN procs, NEW e \in procs'[p].uses
        PROVE  usage'[e][procs[p].app] = InUseNow
    <3>1. e \in procs[p].uses /\ e \in Monitored /\ procs[p].app \in Apps /\ ~ (p = pid /\ e = d)
      BY <1>1 DEF HostInv, ProcessOK
    <3>2. e = d /\ procs[p].app = procs[pid].app => ~ SoleUser(pid, d)
      BY <3>1 DEF SoleUser
    <3>3. usage'[e][procs[p].app] = usage[e][procs[p].app]
      BY <1>2, <3>1, <3>2
    <3> QED BY <3>1, <3>3 DEF HostInv, ProcessOK
  <2> QED BY <1>1, <1>2, <2>1, <2>2 DEF HostInv, ProcessOK
<1>4. WatchInv'
  <2>1. \A t \in Threads : throughout'[t] = IF thread[t].device = d THEN throughout[t] \ {pid}
                                            ELSE throughout[t]
    OBVIOUS
  <2>2. DOMAIN throughout' = Threads
    OBVIOUS
  <2> QED BY <1>1, <2>1, <2>2 DEF WatchInv, Watched, At
<1>5. ThreadShape' /\ ResponseInv'
  BY <1>1, ResponsesKeep
<1> QED BY <1>3, <1>4, <1>5

LEMMA EndPreserves ==
    ASSUME IInv, NEW pid, ProcessEnds(pid)
    PROVE  IInv'
<1> USE DEF IInv, ProcessEnds, bounds, recordVars, sensorVars
<1>1. /\ DOMAIN procs' = DOMAIN procs \ {pid} /\ pid \in DOMAIN procs
      /\ \A p \in DOMAIN procs' : procs'[p] = procs[p]
  BY DEF Without
<1>2. /\ DOMAIN usage' = Monitored /\ \A e \in Monitored : DOMAIN usage'[e] = Apps
      /\ \A e \in Monitored, a \in Apps :
            (e \notin procs[pid].uses \/ a # procs[pid].app \/ ~ SoleUser(pid, e))
                => usage'[e][a] = usage[e][a]
  <2>1. PICK stale \in SUBSET procs[pid].uses :
           usage' = [e \in Monitored |->
             IF e \in procs[pid].uses \ stale /\ SoleUser(pid, e)
             THEN [usage[e] EXCEPT ![procs[pid].app] = Stopped] ELSE usage[e]]
    OBVIOUS
  <2> QED BY <2>1 DEF HostInv, ProcessOK
<1>3. HostInv'
  <2>1. ASSUME NEW p \in DOMAIN procs', NEW e \in procs[p].uses
        PROVE  usage'[e][procs[p].app] = InUseNow
    <3>1. p \in DOMAIN procs /\ p # pid /\ e \in Monitored /\ procs[p].app \in Apps
      BY <1>1 DEF HostInv, ProcessOK
    <3>2. procs[p].app = procs[pid].app => ~ SoleUser(pid, e)
      BY <3>1 DEF SoleUser
    <3>3. usage'[e][procs[p].app] = usage[e][procs[p].app]
      BY <1>2, <3>1, <3>2
    <3> QED BY <3>1, <3>3 DEF HostInv, ProcessOK
  <2>2. ASSUME NEW p \in DOMAIN procs'
        PROVE  /\ p \in DOMAIN procs /\ procs'[p] = procs[p]
               /\ \A e \in procs'[p].uses : usage'[e][procs'[p].app] = InUseNow
    BY <1>1, <2>1
  <2>3. starts' = starts
    OBVIOUS
  <2> QED BY <1>2, <2>2, <2>3 DEF HostInv, ProcessOK
<1>4. WatchInv'
  <2>1. \A t \in Threads : throughout'[t] = throughout[t] \ {pid}
    OBVIOUS
  <2>2. DOMAIN throughout' = Threads
    OBVIOUS
  <2> QED BY <1>1, <2>1, <2>2 DEF WatchInv, Watched, At
<1>5. ThreadShape' /\ ResponseInv'
  BY <1>1, ResponsesKeep
<1> QED BY <1>3, <1>4, <1>5

----------------------------------------------------------------------------
(* The threads *)

\* A step of thread t that leaves the host alone: the shape of the threads.
Moves(t) ==
    /\ UNCHANGED <<procs, usage, starts>>
    /\ DOMAIN thread' = Threads /\ DOMAIN thread'[t] = Fields
    /\ \A u \in Threads \ {t} : thread'[u] = thread[u]
    /\ DOMAIN throughout' = Threads
    /\ \A u \in Threads \ {t} : throughout'[u] = throughout[u]

LEMMA MoveKeeps ==
    ASSUME IInv, NEW t \in Threads, Moves(t), Watched(t)'
    PROVE  ThreadShape' /\ HostInv' /\ WatchInv'
<1> USE DEF IInv, Moves
<1>1. ThreadShape'
  BY DEF ThreadShape
<1>2. HostInv'
  BY DEF HostInv, ProcessOK
<1>3. \A u \in Threads \ {t} : Watched(u)'
  BY DEF WatchInv, Watched, At
<1>4. WatchInv'
  BY <1>3 DEF WatchInv
<1> QED BY <1>1, <1>2, <1>4

\* Between two snapshots nobody is watched for.
LEMMA UnwatchedMove ==
    ASSUME IInv, NEW t \in Threads, Moves(t), throughout'[t] \subseteq throughout[t],
           thread'[t].at \notin {"read", "compare"}
    PROVE  ThreadShape' /\ HostInv' /\ WatchInv'
<1>1. throughout[t] \subseteq DOMAIN procs
  BY DEF IInv, WatchInv, Watched
<1>2. Watched(t)'
  BY <1>1 DEF Watched, At, Moves
<1> QED BY <1>2, MoveKeeps

\* A step that leaves no response in progress, and ends nobody.
LEMMA QuietMove ==
    ASSUME IInv, NEW t \in Threads, Moves(t), UNCHANGED <<ended, timeline, audit>>,
           t = Loop => /\ thread'[t].at \notin {"open", "terminate", "wait", "kill"}
                       /\ thread'[t].born \in Nat /\ thread'[t].born <= starts
    PROVE  ResponseInv'
<1> USE DEF IInv, Moves
<1>1. CASE t = Loop
  BY <1>1 DEF ResponseInv, ResponsesAreSafe, At
<1>2. CASE t # Loop
  <2>1. thread'[Loop] = thread[Loop]
    BY <1>2 DEF Threads
  <2> QED BY <2>1 DEF ResponseInv, ResponsesAreSafe, At, StillThere, Target, IsProtected
<1> QED BY <1>1, <1>2

LEMMA SnapshotPreserves ==
    ASSUME IInv, NEW t \in Threads, SnapshotStep(t)
    PROVE  IInv'
<1> USE DEF IInv, hostVars, sensorVars, recordVars, bounds, ghosts
<1>0. DOMAIN thread = Threads /\ DOMAIN thread[t] = Fields
  BY DEF ThreadShape
<1>1. t = Loop => thread[t].born \in Nat /\ thread[t].born <= starts
  BY DEF ResponseInv
<1>2. DOMAIN throughout = Threads
  BY DEF WatchInv
<1>3. ASSUME NEW d \in Devices, ListsProcesses(t, d)
      PROVE  IInv'
  <2> USE <1>3 DEF ListsProcesses
  <2>1. /\ Moves(t) /\ thread'[t].at = "read" /\ thread'[t].born = thread[t].born
        /\ thread'[t].device = d /\ d \in Monitored
        /\ thread'[t].running = [p \in DOMAIN procs |-> procs[p].app.name]
        /\ throughout'[t] = {p \in DOMAIN procs : d \in procs[p].uses}
    BY <1>0, <1>2 DEF Moves, Fields
  <2>2. Watched(t)'
    BY <2>1 DEF Watched, At, Moves
  <2>3. ResponseInv'
    BY <2>1, <1>1, QuietMove
  <2> QED BY <2>1, <2>2, <2>3, MoveKeeps
<1>4. CASE ReadsConsent(t)
  <2> USE <1>4 DEF ReadsConsent
  <2> DEFINE device == thread[t].device
             running == thread[t].running
  <2>1. PICK capture \in Captures(usage[device], running) :
           thread' = [thread EXCEPT ![t].at = "compare", ![t].capture = capture, ![t].running = <<>>]
    OBVIOUS
  <2>2. /\ Moves(t) /\ thread'[t].at = "compare" /\ thread'[t].born = thread[t].born
        /\ thread'[t].capture = capture /\ throughout'[t] = throughout[t]
    BY <2>1, <1>0, <1>2 DEF Moves, Fields
  <2>3. Watched(t) /\ At(t, "read")
    BY DEF WatchInv
  <2>4. ASSUME NEW p \in throughout[t], ~ procs[p].app.packaged
        PROVE  capture.status = "ACTIVE"
    <3>1. /\ p \in DOMAIN procs /\ device \in Monitored /\ device \in procs[p].uses
          /\ p \in DOMAIN running /\ running[p] = procs[p].app.name
      BY <2>3 DEF Watched
    <3>2. /\ procs[p].app \in DOMAIN usage[device]
          /\ Flagged(usage[device][procs[p].app])
      BY <3>1 DEF HostInv, ProcessOK, Flagged, InUseNow
    <3> QED BY <3>1, <3>2, <2>4, FlaggedIsActive
  <2>5. Watched(t)'
    BY <2>2, <2>3, <2>4 DEF Watched, At, Moves
  <2>6. ResponseInv'
    BY <2>2, <1>1, QuietMove
  <2> QED BY <2>2, <2>5, <2>6, MoveKeeps
<1>5. CASE ComparesStatus(t)
  <2>1. /\ Moves(t) /\ thread'[t].at \in {"record", "store"} /\ thread'[t].born = thread[t].born
        /\ throughout' = throughout
    BY <1>5, <1>0, <1>2 DEF Moves, Fields, ComparesStatus
  <2> QED BY <2>1, <1>1, <1>5, UnwatchedMove, QuietMove DEF ComparesStatus
<1>6. CASE RecordsTransition(t)
  <2>1. /\ Moves(t) /\ thread'[t].at = "store" /\ thread'[t].born = thread[t].born
        /\ throughout' = throughout
    BY <1>6, <1>0, <1>2 DEF Moves, Fields, RecordsTransition
  <2> QED BY <2>1, <1>1, <1>6, UnwatchedMove, QuietMove DEF RecordsTransition
<1>7. CASE StoresStatus(t)
  <2>1. /\ Moves(t) /\ thread'[t].at = "next" /\ thread'[t].born = thread[t].born
        /\ throughout'[t] = {}
    BY <1>7, <1>0, <1>2 DEF Moves, Fields, StoresStatus, Captured
  <2> QED BY <2>1, <1>1, <1>7, UnwatchedMove, QuietMove DEF StoresStatus
<1> QED BY <1>3, <1>4, <1>5, <1>6, <1>7 DEF SnapshotStep

----------------------------------------------------------------------------
(* The requests *)

LEMMA BeginsPreserves ==
    ASSUME IInv, NEW t \in Threads, NEW job, NEW pid, NEW step, Begins(t, job, pid, step),
           \/ step = "next"
           \/ step = "open" /\ t = Loop /\ job \in {"respond", "terminate"} /\ pid \in Pids
    PROVE  IInv'
<1> USE DEF IInv, Begins, hostVars, sensorVars, recordVars, ghosts
<1>1. DOMAIN thread = Threads /\ DOMAIN throughout = Threads
  BY DEF ThreadShape, WatchInv
<1>2. /\ Moves(t) /\ throughout' = throughout
      /\ thread'[t].at = step /\ thread'[t].job = job /\ thread'[t].pid = pid /\ thread'[t].born = 0
  BY <1>1 DEF Moves, Fields, Resting
<1>3. ThreadShape' /\ HostInv' /\ WatchInv'
  BY <1>2, UnwatchedMove
<1>4. starts \in Nat /\ 0 <= starts
  BY DEF HostInv
<1>5. ResponseInv'
  <2>1. CASE step = "next"
    BY <1>2, <1>4, <2>1, QuietMove
  <2>2. CASE step = "open" /\ t = Loop /\ job \in {"respond", "terminate"} /\ pid \in Pids
    BY <1>2, <1>4, <2>2 DEF ResponseInv, ResponsesAreSafe, At, Target
  <2> QED BY <2>1, <2>2
<1> QED BY <1>3, <1>5

\* A thread that rests again, without a response of its own on the records.
LEMMA RestPreserves ==
    ASSUME IInv, NEW t \in Threads, Rests(t),
           UNCHANGED <<hostVars, bounds, ghosts, timeline>>,
           UNCHANGED audit \/ \E row : audit' = audit \cup {row} /\ row.result # "SUCCESS"
    PROVE  IInv'
<1> USE DEF IInv, Rests, hostVars, bounds, ghosts
<1>1. DOMAIN thread = Threads /\ DOMAIN throughout = Threads
  BY DEF ThreadShape, WatchInv
<1>2. /\ Moves(t) /\ throughout' = throughout
      /\ thread'[t].at = "idle" /\ thread'[t].born = 0
  BY <1>1 DEF Moves, Fields, Resting
<1>3. ThreadShape' /\ HostInv' /\ WatchInv'
  BY <1>2, UnwatchedMove
<1>4. starts \in Nat /\ 0 <= starts
  BY DEF HostInv
<1>5. ResponsesAreSafe'
  BY DEF ResponseInv, ResponsesAreSafe
<1>6. ResponseInv'
  <2>1. CASE t = Loop
    BY <1>2, <1>4, <1>5, <2>1 DEF ResponseInv, At
  <2>2. CASE t # Loop
    <3>1. thread'[Loop] = thread[Loop]
      BY <1>2, <2>2 DEF Moves, Threads
    <3> QED BY <1>5, <3>1 DEF ResponseInv, At, StillThere, Target, IsProtected
  <2> QED BY <2>1, <2>2
<1> QED BY <1>3, <1>6

LEMMA SecondLookPreserves == ASSUME IInv, SecondLook(Loop) PROVE IInv'
<1> USE DEF IInv, SecondLook, hostVars, sensorVars, recordVars, bounds, ghosts
<1>1. /\ DOMAIN thread = Threads /\ DOMAIN throughout = Threads
      /\ Loop \in Threads /\ DOMAIN thread[Loop] = Fields /\ thread[Loop].at = "next"
  BY DEF ThreadShape, WatchInv, Threads, AllCaptured, At
<1>2. /\ Moves(Loop) /\ throughout' = throughout
      /\ thread'[Loop].at = "next" /\ thread'[Loop].born = thread[Loop].born
  BY <1>1 DEF Moves, Fields
<1>3. thread[Loop].born \in Nat /\ thread[Loop].born <= starts
  BY DEF ResponseInv
<1> QED BY <1>1, <1>2, <1>3, UnwatchedMove, QuietMove

\* The endpoints. Whoever is ended is still the process that was opened.
LEMMA TerminationPreserves == ASSUME IInv, TerminationStep PROVE IInv'
<1> USE DEF IInv, hostVars, sensorVars, recordVars, bounds, ghosts
<1>1. /\ DOMAIN thread = Threads /\ DOMAIN throughout = Threads
      /\ Loop \in Threads /\ DOMAIN thread[Loop] = Fields
  BY DEF ThreadShape, WatchInv, Threads
<1>2. \A p \in DOMAIN procs : procs[p].born \in Nat /\ procs[p].born <= starts
  BY DEF HostInv, ProcessOK
<1>3. CASE OpensProcess
  <2> USE <1>3 DEF OpensProcess
  <2>1. /\ Moves(Loop) /\ throughout' = throughout
        /\ thread'[Loop].at = "terminate" /\ thread'[Loop].born = procs[Target].born
        /\ thread'[Loop].job = thread[Loop].job /\ thread'[Loop].pid = thread[Loop].pid
    BY <1>1 DEF Moves, Fields
  <2>2. ResponseInv'
    <3>1. thread'[Loop].born \in Nat /\ thread'[Loop].born <= starts
      BY <1>2, <2>1
    <3>2. ~ IsProtected(procs[Target].app) /\ thread[Loop].at = "open"
      BY DEF Responding, At
    <3> QED BY <2>1, <3>1, <3>2 DEF ResponseInv, ResponsesAreSafe, At, Target, IsProtected
  <2> QED BY <1>1, <2>1, <2>2, UnwatchedMove
<1>4. CASE RefusesProcess \/ TargetIsGone
  BY <1>1, <1>4, RestPreserves DEF RefusesProcess, TargetIsGone
<1>5. CASE Terminates
  <2> USE <1>5 DEF Terminates
  <2>1. /\ Moves(Loop) /\ throughout' = throughout
        /\ thread'[Loop].at = "wait" /\ thread'[Loop].born = thread[Loop].born
        /\ thread'[Loop].job = thread[Loop].job /\ thread'[Loop].pid = thread[Loop].pid
    BY <1>1 DEF Moves, Fields
  <2>2. /\ ended' = ended \cup {Ended(Target)}
        /\ Ended(Target).by = thread[Loop].job /\ Ended(Target).pid = Target
        /\ Ended(Target).name = procs[Target].app.name
    BY DEF Ended
  <2>3. ~ IsProtected(procs[Target].app)
    BY DEF ResponseInv, Responding
  <2>4. ResponsesAreSafe'
    BY <2>2, <2>3 DEF ResponseInv, ResponsesAreSafe, IsProtected
  <2>5. thread[Loop].at = "terminate"
    BY DEF Responding, At
  <2>6. ResponseInv'
    BY <2>1, <2>2, <2>4, <2>5 DEF ResponseInv, At, Target
  <2> QED BY <1>1, <2>1, <2>6, UnwatchedMove
<1>6. CASE TerminationDenied
  <2>1. \/ audit' = audit
        \/ audit' = audit \cup {[pid |-> Target, result |-> "ACCESS_DENIED"]}
    BY <1>6 DEF TerminationDenied, When
  <2>2. UNCHANGED audit \/ \E row : audit' = audit \cup {row} /\ row.result # "SUCCESS"
    BY <2>1
  <2> QED BY <1>1, <1>6, <2>2, RestPreserves DEF TerminationDenied
<1>7. CASE WaitTimesOut
  <2> USE <1>7 DEF WaitTimesOut
  <2>1. /\ Moves(Loop) /\ throughout' = throughout
        /\ thread'[Loop].at = "kill" /\ thread'[Loop].born = thread[Loop].born
        /\ thread'[Loop].job = thread[Loop].job /\ thread'[Loop].pid = thread[Loop].pid
    BY <1>1 DEF Moves, Fields
  <2>2. thread[Loop].at = "wait"
    BY DEF Responding, At
  <2>3. ResponseInv'
    BY <2>1, <2>2 DEF ResponseInv, ResponsesAreSafe, At, Target
  <2> QED BY <1>1, <2>1, <2>3, UnwatchedMove
<1>8. CASE SeesItEnd \/ Kills
  <2>1. /\ RecordsTermination /\ thread[Loop].at \in {"wait", "kill"}
        /\ thread[Loop].job \in {"respond", "terminate"}
    BY <1>8 DEF SeesItEnd, Kills, Responding, At
  <2> USE <2>1 DEF RecordsTermination
  <2>2. /\ Moves(Loop) /\ throughout' = throughout
        /\ thread'[Loop].at = "idle" /\ thread'[Loop].born = 0
    BY <1>1 DEF Moves, Fields, Rests, Resting
  <2>3. PICK e \in ended : e.by = thread[Loop].job /\ e.pid = Target
    BY DEF ResponseInv
  <2>4. Target \in Pids /\ timeline \in Seq(Pids)
    BY DEF ResponseInv
  <2>5. /\ timeline' \in Seq(Pids)
        /\ \A i \in DOMAIN timeline' : \E f \in ended : f.by = "respond" /\ f.pid = timeline'[i]
    <3>1. CASE thread[Loop].job = "respond"
      <4> DEFINE longer == Append(timeline, Target)
      <4>1. longer \in Seq(Pids)
        BY <2>4
      <4>2. \A j \in DOMAIN longer : longer[j] = Target \/ \E i \in DOMAIN timeline : longer[j] = timeline[i]
        BY <2>4
      <4>3. timeline' = Kept(longer)
        BY <3>1
      <4>4. /\ Kept(longer) \in Seq(Pids)
            /\ \A i \in DOMAIN Kept(longer) : \E j \in DOMAIN longer : Kept(longer)[i] = longer[j]
        BY <4>1, KeptForgets
      <4>5. \A j \in DOMAIN longer : \E f \in ended : f.by = "respond" /\ f.pid = longer[j]
        BY <4>2, <2>3, <3>1 DEF ResponseInv, ResponsesAreSafe
      <4> HIDE DEF longer
      <4> QED BY <4>3, <4>4, <4>5
    <3>2. CASE thread[Loop].job # "respond"
      BY <2>4, <3>2 DEF ResponseInv, ResponsesAreSafe
    <3> QED BY <3>1, <3>2
  <2>6. \A row \in audit' : row.result = "SUCCESS" =>
           \E f \in ended : f.by = "terminate" /\ f.pid = row.pid
    <3>1. CASE thread[Loop].job = "respond"
      BY <3>1 DEF ResponseInv, ResponsesAreSafe
    <3>2. CASE thread[Loop].job = "terminate"
      <4>1. audit' = audit \cup {[pid |-> Target, result |-> "SUCCESS"]}
        BY <3>2
      <4> QED BY <4>1, <2>3, <3>2 DEF ResponseInv, ResponsesAreSafe
    <3> QED BY <2>1, <3>1, <3>2
  <2>7. ended' = ended /\ starts' = starts /\ starts \in Nat /\ 0 <= starts
    BY DEF HostInv
  <2>8. ResponsesAreSafe'
    BY <2>5, <2>6, <2>7 DEF ResponseInv, ResponsesAreSafe
  <2>9. ResponseInv'
    BY <2>2, <2>5, <2>7, <2>8 DEF ResponseInv, At
  <2> QED BY <1>1, <2>2, <2>9, UnwatchedMove
<1> QED BY <1>3, <1>4, <1>5, <1>6, <1>7, <1>8 DEF TerminationStep

LEMMA NextInv == ASSUME IInv, [Next]_vars PROVE IInv'
<1>1. CASE \E pid \in Pids, app \in Apps : \E sockets \in Sockets[app] : ProcessStarts(pid, app, sockets)
  BY <1>1, StartPreserves
<1>2. CASE \E pid \in Pids, d \in Monitored : BeginsCapture(pid, d) \/ StopsCapture(pid, d)
  BY <1>2, BeginPreserves, StopPreserves
<1>3. CASE \E pid \in Pids : ProcessEnds(pid)
  BY <1>3, EndPreserves
<1>4. CASE CycleBegins \/ AnalysisBegins \/ TerminationBegins
  BY <1>4, BeginsPreserves DEF CycleBegins, AnalysisBegins, TerminationBegins, Threads
<1>5. CASE \E t \in Threads : SnapshotStep(t)
  BY <1>5, SnapshotPreserves
<1>6. CASE \E t \in Threads : Answers(t)
  BY <1>6, RestPreserves DEF Answers, recordVars
<1>7. CASE SecondLook(Loop)
  BY <1>7, SecondLookPreserves
<1>8. CASE FullScanFails(Loop)
  BY <1>8, RestPreserves DEF FullScanFails, recordVars, Threads
<1>9. CASE \E load \in Loads, failed \in FailedQueries : FullScanReports(Loop, load, failed)
  BY <1>9, RestPreserves DEF FullScanReports, Threads
<1>10. CASE TerminationStep
  BY <1>10, TerminationPreserves
<1>11. CASE UNCHANGED vars
  BY <1>11 DEF vars, IInv, ThreadShape, HostInv, ProcessOK, WatchInv, Watched, ResponseInv,
               ResponsesAreSafe, At, StillThere, Target, IsProtected,
               hostVars, sensorVars, recordVars, bounds, ghosts
<1> QED BY <1>1, <1>2, <1>3, <1>4, <1>5, <1>6, <1>7, <1>8, <1>9, <1>10, <1>11 DEF Next

----------------------------------------------------------------------------
(* What a snapshot holds *)

\* A sensor is reported active exactly when an application and a process number are named.
CaptureOK(capture) ==
    /\ capture.status \in {"ACTIVE", "AVAILABLE", "NOT_DETECTED"}
    /\ capture.status = "ACTIVE" <=> InUse(capture)

HoldsCaptures(t) ==
    /\ CaptureOK(thread[t].capture)
    /\ DOMAIN thread[t].captures = Devices
    /\ \A d \in Devices : CaptureOK(thread[t].captures[d])

CaptureInv == \A t \in Threads : HoldsCaptures(t)

LEMMA CapturesOK ==
    ASSUME NEW use, DOMAIN use = Apps, NEW running, NEW capture \in Captures(use, running)
    PROVE  CaptureOK(capture)
<1>1. CASE capture = Idle
  BY <1>1 DEF CaptureOK, Idle, InUse
<1>2. ASSUME NEW app \in GenuinelyActive(use, running), capture = ActiveIn(app, running)
      PROVE  CaptureOK(capture)
  <2>1. app.name # "" /\ MatchingProcesses(running, app) # {}
    BY <1>2, NameAssumption DEF GenuinelyActive
  <2> QED BY <1>2, <2>1 DEF CaptureOK, ActiveIn, InUse
<1> QED BY <1>1, <1>2 DEF Captures

LEMMA RestingHolds ==
    /\ CaptureOK(Idle) /\ DOMAIN NoCaptures = Devices
    /\ \A d \in Devices : CaptureOK(NoCaptures[d])
    /\ Resting.capture = Idle /\ Resting.captures = NoCaptures
BY DEF NoCaptures, Resting, CaptureOK, Idle, InUse

LEMMA CaptureInit == Init => CaptureInv
BY RestingHolds DEF Init, CaptureInv, HoldsCaptures

\* Of the threads only one moves, and what it holds afterwards is well-formed.
LEMMA OnlyItsCaptures ==
    ASSUME CaptureInv, NEW t \in Threads, HoldsCaptures(t)',
           \A u \in Threads \ {t} : thread'[u] = thread[u]
    PROVE  CaptureInv'
<1>1. \A u \in Threads \ {t} : HoldsCaptures(u)'
  BY DEF CaptureInv, HoldsCaptures
<1> QED BY <1>1 DEF CaptureInv

\* A step that takes nothing into the captures of its thread, or gives all of them up.
LEMMA CapturesKept ==
    ASSUME CaptureInv, NEW t \in Threads, \A u \in Threads \ {t} : thread'[u] = thread[u],
           thread'[t].capture \in {thread[t].capture, Idle},
           thread'[t].captures \in {thread[t].captures, NoCaptures}
    PROVE  CaptureInv'
<1>1. HoldsCaptures(t)
  BY DEF CaptureInv
<1>2. HoldsCaptures(t)'
  BY <1>1, RestingHolds DEF HoldsCaptures
<1> QED BY <1>2, OnlyItsCaptures

LEMMA SnapshotHolds ==
    ASSUME IInv, CaptureInv, NEW t \in Threads, SnapshotStep(t)
    PROVE  CaptureInv'
<1>1. DOMAIN thread = Threads /\ DOMAIN thread[t] = Fields /\ HoldsCaptures(t)
  BY DEF IInv, ThreadShape, CaptureInv
<1>2. ASSUME NEW d \in Devices, ListsProcesses(t, d) PROVE CaptureInv'
  <2>1. /\ thread'[t].capture = thread[t].capture /\ thread'[t].captures = thread[t].captures
        /\ \A u \in Threads \ {t} : thread'[u] = thread[u]
    BY <1>1, <1>2 DEF ListsProcesses, Fields
  <2> QED BY <2>1, CapturesKept
<1>3. CASE ReadsConsent(t)
  <2>1. PICK capture \in Captures(usage[thread[t].device], thread[t].running) :
           thread' = [thread EXCEPT ![t].at = "compare", ![t].capture = capture, ![t].running = <<>>]
    BY <1>3 DEF ReadsConsent
  <2>2. Watched(t) /\ At(t, "read")
    BY <1>3 DEF IInv, WatchInv, ReadsConsent
  <2>3. DOMAIN usage[thread[t].device] = Apps
    BY <2>2 DEF Watched, IInv, HostInv
  <2>4. CaptureOK(capture)
    BY <2>1, <2>3, CapturesOK
  <2>5. /\ thread'[t].capture = capture /\ thread'[t].captures = thread[t].captures
        /\ \A u \in Threads \ {t} : thread'[u] = thread[u]
    BY <1>1, <2>1 DEF Fields
  <2>6. HoldsCaptures(t)'
    BY <1>1, <2>4, <2>5 DEF HoldsCaptures
  <2> QED BY <2>5, <2>6, OnlyItsCaptures
<1>4. CASE ComparesStatus(t) \/ RecordsTransition(t)
  <2>1. /\ thread'[t].capture = thread[t].capture /\ thread'[t].captures = thread[t].captures
        /\ \A u \in Threads \ {t} : thread'[u] = thread[u]
    BY <1>1, <1>4 DEF ComparesStatus, RecordsTransition, Fields
  <2> QED BY <2>1, CapturesKept
<1>5. CASE StoresStatus(t)
  <2>1. /\ thread'[t].capture = Idle
        /\ thread'[t].captures = [thread[t].captures EXCEPT ![thread[t].device] = thread[t].capture]
        /\ \A u \in Threads \ {t} : thread'[u] = thread[u]
    BY <1>1, <1>5 DEF StoresStatus, Captured, Fields
  <2>2. HoldsCaptures(t)'
    BY <1>1, <2>1, RestingHolds DEF HoldsCaptures
  <2> QED BY <2>1, <2>2, OnlyItsCaptures
<1> QED BY <1>2, <1>3, <1>4, <1>5 DEF SnapshotStep

LEMMA RestHolds == ASSUME ThreadShape, CaptureInv, NEW t \in Threads, Rests(t) PROVE CaptureInv'
<1>1. thread'[t] = Resting /\ \A u \in Threads \ {t} : thread'[u] = thread[u]
  BY DEF ThreadShape, Rests
<1> QED BY <1>1, RestingHolds, CapturesKept

LEMMA BeginHolds ==
    ASSUME ThreadShape, CaptureInv, NEW t \in Threads, NEW job, NEW pid, NEW step,
           Begins(t, job, pid, step)
    PROVE  CaptureInv'
<1>1. /\ thread'[t].capture = Resting.capture /\ thread'[t].captures = Resting.captures
      /\ \A u \in Threads \ {t} : thread'[u] = thread[u]
  BY DEF ThreadShape, Begins, Resting
<1> QED BY <1>1, RestingHolds, CapturesKept

LEMMA LoopHolds == ASSUME ThreadShape, CaptureInv, SecondLook(Loop) \/ TerminationStep PROVE CaptureInv'
<1>1. Loop \in Threads /\ DOMAIN thread = Threads /\ DOMAIN thread[Loop] = Fields
  BY DEF ThreadShape, Threads
<1>2. CASE SecondLook(Loop) \/ OpensProcess \/ Terminates \/ WaitTimesOut
  <2>1. /\ thread'[Loop].capture = thread[Loop].capture
        /\ thread'[Loop].captures \in {thread[Loop].captures, NoCaptures}
        /\ \A u \in Threads \ {Loop} : thread'[u] = thread[u]
    BY <1>1, <1>2 DEF SecondLook, OpensProcess, Terminates, WaitTimesOut, Fields
  <2> QED BY <1>1, <2>1, CapturesKept
<1>3. CASE RefusesProcess \/ TerminationDenied \/ SeesItEnd \/ Kills \/ TargetIsGone
  BY <1>1, <1>3, RestHolds DEF RefusesProcess, TerminationDenied, SeesItEnd, Kills, TargetIsGone,
                               RecordsTermination
<1> QED BY <1>2, <1>3 DEF TerminationStep

LEMMA CaptureStep == ASSUME IInv, CaptureInv, [Next]_vars PROVE CaptureInv'
<1>1. ThreadShape /\ Loop \in Threads /\ Worker \in Threads
  BY DEF IInv, Threads
<1>2. CASE UNCHANGED thread
  BY <1>2 DEF CaptureInv, HoldsCaptures
<1>3. CASE \E pid \in Pids, app \in Apps : \E sockets \in Sockets[app] : ProcessStarts(pid, app, sockets)
  BY <1>2, <1>3 DEF ProcessStarts
<1>4. CASE \E pid \in Pids, d \in Monitored : BeginsCapture(pid, d) \/ StopsCapture(pid, d)
  BY <1>2, <1>4 DEF BeginsCapture, StopsCapture
<1>5. CASE \E pid \in Pids : ProcessEnds(pid)
  BY <1>2, <1>5 DEF ProcessEnds
<1>6. CASE CycleBegins \/ AnalysisBegins \/ TerminationBegins
  BY <1>1, <1>6, BeginHolds DEF CycleBegins, AnalysisBegins, TerminationBegins
<1>7. CASE \E t \in Threads : SnapshotStep(t)
  BY <1>7, SnapshotHolds
<1>8. CASE \E t \in Threads : Answers(t)
  BY <1>1, <1>8, RestHolds DEF Answers
<1>9. CASE SecondLook(Loop) \/ TerminationStep
  BY <1>1, <1>9, LoopHolds
<1>10. CASE FullScanFails(Loop)
  BY <1>1, <1>10, RestHolds DEF FullScanFails
<1>11. CASE \E load \in Loads, failed \in FailedQueries : FullScanReports(Loop, load, failed)
  BY <1>1, <1>11, RestHolds DEF FullScanReports
<1>12. CASE UNCHANGED vars
  BY <1>2, <1>12 DEF vars
<1> QED BY <1>3, <1>4, <1>5, <1>6, <1>7, <1>8, <1>9, <1>10, <1>11, <1>12 DEF Next

----------------------------------------------------------------------------
(* What the analyses conclude *)

\* The scores differ by their charges and are never cut off: 45 is the least of the report.
LEMMA ScoresDiffer ==
    ASSUME NEW captures, \A d \in Devices : CaptureOK(captures[d]), NEW telemetry,
           telemetry.camera = captures["camera"].status,
           telemetry.microphone = captures["microphone"].status, NEW crowded \in BOOLEAN,
           telemetry.crowded = crowded, NEW denied \in SUBSET Devices
    PROVE  /\ PrivacySummary(captures, denied) = ReportPrivacy(captures) - 10 * Cardinality(denied)
           /\ FullScanPrivacy(telemetry) =
                (IF StatusPrintsValue THEN ReportPrivacy(captures) ELSE 100) - Less(crowded, 15)
<1> DEFINE camera == Less(InUse(captures["camera"]), 30)
           microphone == Less(InUse(captures["microphone"]), 25)
           refused == Cardinality(denied)
<1>1. camera \in {0, 30} /\ microphone \in {0, 25} /\ Less(crowded, 15) \in {0, 15}
  BY DEF Less
<1>2. refused \in 0 .. 2
  <2>1. IsFiniteSet(Devices) /\ Cardinality(Devices) <= 2
    <3>1. /\ IsFiniteSet({}) /\ Cardinality({}) = 0
      BY FS_EmptySet
    <3>2. /\ IsFiniteSet({} \cup {"camera"}) /\ Cardinality({} \cup {"camera"}) = 1
      BY <3>1, FS_AddElement
    <3>3. ASSUME NEW S, IsFiniteSet(S), Cardinality(S) = 1
          PROVE  /\ IsFiniteSet(S \cup {"microphone"})
                 /\ Cardinality(S \cup {"microphone"}) = 1 \/ Cardinality(S \cup {"microphone"}) = 2
      BY <3>3, FS_AddElement
    <3>4. Devices = ({} \cup {"camera"}) \cup {"microphone"}
      BY DEF Devices
    <3> QED BY <3>2, <3>3, <3>4
  <2>2. IsFiniteSet(denied) /\ Cardinality(denied) <= Cardinality(Devices)
    BY <2>1, FS_Subset
  <2>3. Cardinality(denied) \in Nat /\ Cardinality(Devices) \in Nat
    BY <2>1, <2>2, FS_CardinalityType
  <2> QED BY <2>1, <2>2, <2>3
<1> HIDE DEF camera, microphone, refused
<1>3. ReportPrivacy(captures) = 100 - camera - microphone
  BY <1>1 DEF ReportPrivacy, Bounded, camera, microphone
<1>4. PrivacySummary(captures, denied) = 100 - camera - microphone - 10 * refused
  BY <1>1, <1>2 DEF PrivacySummary, Bounded, camera, microphone, refused
<1>5. CASE StatusPrintsValue
  <2>1. /\ Less(StatusPrintsValue /\ telemetry.camera = "ACTIVE", 30) = camera
        /\ Less(StatusPrintsValue /\ telemetry.microphone = "ACTIVE", 25) = microphone
    BY <1>5 DEF CaptureOK, Devices, Less, camera, microphone
  <2>2. FullScanPrivacy(telemetry) = 100 - camera - microphone - Less(crowded, 15)
    BY <1>1, <2>1 DEF FullScanPrivacy, Bounded
  <2> QED BY <1>1, <1>2, <1>3, <1>4, <1>5, <2>2 DEF refused
<1>6. CASE ~ StatusPrintsValue
  <2>1. /\ Less(StatusPrintsValue /\ telemetry.camera = "ACTIVE", 30) = 0
        /\ Less(StatusPrintsValue /\ telemetry.microphone = "ACTIVE", 25) = 0
    BY <1>6 DEF Less
  <2>2. FullScanPrivacy(telemetry) = 100 - Less(crowded, 15)
    BY <1>1, <2>1 DEF FullScanPrivacy, Bounded
  <2> QED BY <1>1, <1>2, <1>3, <1>4, <1>6, <2>2 DEF refused
<1> QED BY <1>5, <1>6

\* Five files test for an untrusted path, and all agree on what that is.
LEMMA PathsAgree ==
    ASSUME NEW place
    PROVE  /\ RulePath(place) <=> HuntStartupPath(place)
           /\ HuntPath(place) <=> DnaPath(place)
           /\ PersistencePath(place) <=> HuntStartupPath(place)
BY DEF RulePath, HuntPath, HuntStartupPath, DnaPath, PersistencePath

\* What is hunted: each hunt has an identifier of its own.
LEMMA Hunted ==
    ASSUME NEW captures, NEW hunted \in Hunts(procs, captures, posture, startup)
    PROVE  /\ \A pid : <<"HNT-001", pid>> \in hunted <=> pid \in DOMAIN procs /\ HuntPath(procs[pid].app.place)
           /\ \A pid : <<"HNT-002", pid>> \in hunted =>
                 /\ pid \in DOMAIN procs /\ procs[pid].remote
                 /\ \E d \in Devices : pid \in captures[d].pids
           /\ <<"HNT-003", Host>> \in hunted <=> ~ posture.firewall
           /\ <<"HNT-005", Host>> \in hunted <=> ~ posture.realtime
           /\ \A app : <<"HNT-004", app>> \in hunted <=> app \in startup /\ HuntStartupPath(app.place)
<1>1. PICK flow \in MediaFlows(procs, captures) : hunted = flow \cup StaticHunts(procs, posture, startup)
  BY DEF Hunts
<1>2. \A x \in flow : \E pid \in DOMAIN procs :
          /\ x = <<"HNT-002", pid>> /\ procs[pid].remote
          /\ \E d \in Devices : pid \in captures[d].pids
  BY DEF MediaFlows
<1>3. \A x : x \in StaticHunts(procs, posture, startup) <=>
          \/ \E pid \in DOMAIN procs : x = <<"HNT-001", pid>> /\ HuntPath(procs[pid].app.place)
          \/ x = <<"HNT-005", Host>> /\ ~ posture.realtime
          \/ x = <<"HNT-003", Host>> /\ ~ posture.firewall
          \/ \E app \in startup : x = <<"HNT-004", app>> /\ HuntStartupPath(app.place)
  BY DEF StaticHunts, When
<1> QED BY <1>1, <1>2, <1>3

LEMMA RulesFound ==
    ASSUME NEW telemetry
    PROVE  LET rules == RuleFindings(telemetry, posture, startup)
           IN  /\ <<"RUL-003", Host>> \in rules <=> ~ posture.realtime
               /\ <<"RUL-004", Host>> \in rules <=> ~ posture.firewall
               /\ \A app : <<"RUL-005", app>> \in rules <=> app \in startup /\ RulePath(app.place)
BY DEF RuleFindings, When

\* A process on which a rule fires, or which listens, is never NORMAL.
LEMMA DnaNotices ==
    ASSUME NEW rules, NEW process, rules # {} \/ process.listens,
           rules \subseteq {"RUL-SUSPICIOUS-EXEC-PATH", "RUL-PRIVACY-NETWORK-CONCURRENCY"}
    PROVE  DnaLevel(DnaRisk(rules, process)) # "NORMAL"
<1>1. /\ Less("RUL-SUSPICIOUS-EXEC-PATH" \in rules, 25) \in {0, 25}
      /\ Less("RUL-PRIVACY-NETWORK-CONCURRENCY" \in rules, 35) \in {0, 35}
      /\ Less(process.listens, 10) \in {0, 10}
      /\ \/ Less("RUL-SUSPICIOUS-EXEC-PATH" \in rules, 25) = 25
         \/ Less("RUL-PRIVACY-NETWORK-CONCURRENCY" \in rules, 35) = 35
         \/ Less(process.listens, 10) = 10
  BY DEF Less
<1>2. DnaRisk(rules, process) > 0 /\ DnaRisk(rules, process) \in Int
  BY <1>1 DEF DnaRisk
<1> QED BY <1>2 DEF DnaLevel

LEMMA DnaFound ==
    ASSUME NEW pid, NEW process, NEW captures
    PROVE  LET dna == DnaRules(pid, process, captures)
           IN  /\ "RUL-SUSPICIOUS-EXEC-PATH" \in dna <=> DnaPath(process.app.place)
               /\ process.remote /\ (\E d \in Devices : pid \in captures[d].pids)
                  => "RUL-PRIVACY-NETWORK-CONCURRENCY" \in dna
               /\ dna \subseteq {"RUL-SUSPICIOUS-EXEC-PATH", "RUL-PRIVACY-NETWORK-CONCURRENCY"}
BY DEF DnaRules, When, CaptureDetected

LEMMA AnalysesDoCorrespond == ASSUME CaptureInv PROVE AnalysesCorrespond
<1> SUFFICES ASSUME NEW denied \in SUBSET Devices, NEW crowded \in BOOLEAN, NEW onDisk \in BOOLEAN
             PROVE  AnalysesCorrespond!(denied, crowded, onDisk)
  BY DEF AnalysesCorrespond
<1> DEFINE captures == thread[Loop].captures
           telemetry == Telemetry(captures, [upload |-> 0, saturated |-> FALSE, crowded |-> crowded])
           rules == RuleFindings(telemetry, posture, startup)
           exposed == {exposure[1] : exposure \in Exposures(procs, posture)}
<1>1. \A d \in Devices : CaptureOK(captures[d])
  BY DEF CaptureInv, HoldsCaptures, Threads
<1>2. /\ telemetry.camera = captures["camera"].status
      /\ telemetry.microphone = captures["microphone"].status /\ telemetry.crowded = crowded
  BY DEF Telemetry
<1>3. \A pid \in exposed : procs[pid].listens
  BY DEF Exposures
<1> HIDE DEF captures, telemetry, exposed
<1>4. /\ PrivacySummary(captures, denied) = ReportPrivacy(captures) - 10 * Cardinality(denied)
      /\ FullScanPrivacy(telemetry) =
           (IF StatusPrintsValue THEN ReportPrivacy(captures) ELSE 100) - Less(crowded, 15)
  BY <1>1, <1>2, ScoresDiffer
<1>5. ASSUME NEW hunted \in Hunts(procs, captures, posture, startup), NEW pid \in DOMAIN procs
      PROVE  LET dna == DnaRules(pid, procs[pid], captures)
             IN  /\ <<"HNT-001", pid>> \in hunted <=> "RUL-SUSPICIOUS-EXEC-PATH" \in dna
                 /\ <<"HNT-002", pid>> \in hunted => "RUL-PRIVACY-NETWORK-CONCURRENCY" \in dna
                 /\ <<"HNT-001", pid>> \in hunted \/ <<"HNT-002", pid>> \in hunted \/ pid \in exposed
                       => DnaLevel(DnaRisk(dna, procs[pid])) # "NORMAL"
  <2> DEFINE dna == DnaRules(pid, procs[pid], captures)
  <2>1. /\ "RUL-SUSPICIOUS-EXEC-PATH" \in dna <=> DnaPath(procs[pid].app.place)
        /\ procs[pid].remote /\ (\E d \in Devices : pid \in captures[d].pids)
           => "RUL-PRIVACY-NETWORK-CONCURRENCY" \in dna
        /\ dna \subseteq {"RUL-SUSPICIOUS-EXEC-PATH", "RUL-PRIVACY-NETWORK-CONCURRENCY"}
    BY DnaFound
  <2> HIDE DEF dna
  <2>2. /\ <<"HNT-001", pid>> \in hunted <=> "RUL-SUSPICIOUS-EXEC-PATH" \in dna
        /\ <<"HNT-002", pid>> \in hunted => "RUL-PRIVACY-NETWORK-CONCURRENCY" \in dna
    BY <1>5, <2>1, Hunted, PathsAgree
  <2>3. ASSUME <<"HNT-001", pid>> \in hunted \/ <<"HNT-002", pid>> \in hunted \/ pid \in exposed
        PROVE  DnaLevel(DnaRisk(dna, procs[pid])) # "NORMAL"
    <3>1. dna # {} \/ procs[pid].listens
      BY <1>3, <2>2, <2>3
    <3> QED BY <2>1, <3>1, DnaNotices
  <2> QED BY <2>2, <2>3 DEF dna
<1>6. ASSUME NEW hunted \in Hunts(procs, captures, posture, startup)
      PROVE  /\ <<"HNT-005", Host>> \in hunted <=> <<"RUL-003", Host>> \in rules
             /\ <<"HNT-003", Host>> \in hunted <=> <<"RUL-004", Host>> \in rules
             /\ \A app \in startup :
                   /\ <<"HNT-004", app>> \in hunted <=> <<"RUL-005", app>> \in rules
                   /\ PersistenceSeverity(app, onDisk) =
                         IF ~ onDisk THEN "LOW"
                         ELSE IF <<"HNT-004", app>> \in hunted THEN "HIGH" ELSE "NORMAL"
  <2>1. \A app \in startup : <<"HNT-004", app>> \in hunted <=> PersistencePath(app.place)
    BY <1>6, Hunted, PathsAgree
  <2> QED BY <1>6, <2>1, Hunted, RulesFound, PathsAgree DEF PersistenceSeverity
<1> QED BY <1>4, <1>5, <1>6 DEF captures, telemetry, exposed

----------------------------------------------------------------------------
(* The theorems *)

\* The consent store, the watched processes and the responses in progress stay as IInv says.
THEOREM HostInvariance == Spec => []IInv
<1> QED BY InitInv, NextInv, PTL DEF Spec

\* camera.py:219-306: whoever uses a sensor all along a snapshot is seen, for any number of
\* processes, applications, sensors and requests.
THEOREM UseIsSeen == Spec => []InUseIsSeen
<1>1. IInv => InUseIsSeen
  BY DEF IInv, WatchInv, Watched, InUseIsSeen
<1> QED BY <1>1, HostInvariance, PTL

\* response.py:40-119: the safe endpoint ends no protected process, whoever has the number
\* meanwhile, and what the timeline and the audit log call ended was asked to end.
THEOREM ResponsesStaySafe == Spec => []ResponsesAreSafe
<1>1. IInv => ResponsesAreSafe
  BY DEF IInv, ResponseInv
<1> QED BY <1>1, HostInvariance, PTL

\* A capture is reported active exactly when it names an application and the number of at
\* least one process, in every snapshot of every thread: the status and is_active, of which
\* the analyses test one or the other, never differ (camera.py:295, microphone.py:275).
\* It does not say that the process uses the device: a namesake that does not also counts.
THEOREM CaptureInvariance == Spec => []CaptureInv
<1> QED BY CaptureInit, CaptureStep, HostInvariance, PTL DEF Spec

\* On every host, with any permissions denied, connections and startup targets on the disk
\* or gone: the scores of privacy differ by their own charges alone, and the rules, the
\* hunts, Process DNA, the persistence and the network analysis by the missing targets.
THEOREM AnalysesDoNotDiverge == Spec => []AnalysesCorrespond
<1> QED BY AnalysesDoCorrespond, CaptureInvariance, PTL

=============================================================================
