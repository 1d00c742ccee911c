------------------------------- MODULE ScanJob -------------------------------
(***************************************************************************)
(* The durable background scan job (internal/scanjob).                     *)
(*                                                                         *)
(* `scan start` and `scan status` run in short-lived controller processes  *)
(* that serialise on control.lock.  Start saves a queued record, spawns a  *)
(* detached worker, then saves the same record as running with the worker's *)
(* PID.  The worker polls the store until it finds itself authorised, and  *)
(* from then on saves progress and its terminal state without any lock.    *)
(* Every save writes two files, first <job>.json and then active.json, and *)
(* the two writes are separate steps here.                                 *)
(***************************************************************************)
EXTENDS Naturals, FiniteSets

CONSTANTS
    Controllers,    \* processes that run `scan start` or `scan status`
    Pids,           \* the positive PIDs the operating system hands out
    NoPid,          \* the PID 0 of a record that names no worker
    Free,           \* the value of an unheld control.lock
    Grace,          \* workerLaunchGrace
    MaxJobs,        \* bound: jobs ever created
    MaxTime,        \* bound: the wall clock
    LastStart,      \* bound: latest clock value at which a job is created
    MaxFaults,      \* bound: crashes, failed writes and backward clock steps
    PidReuse        \* whether the system hands a dead worker's PID to a stranger

ASSUME ScanJobAssumption ==
    /\ MaxJobs \in Nat /\ MaxTime \in Nat /\ LastStart \in 0..MaxTime
    /\ Grace \in Nat /\ MaxFaults \in Nat
    /\ PidReuse \in BOOLEAN
    /\ NoPid \notin Pids
    /\ Free \notin Controllers

Jobs == 1..MaxJobs
Times == 0..MaxTime

Pending == {"queued", "running"}
Terminal == {"completed", "completed_with_issues", "failed"}

\* A job record.  id 0 and state "none" stand for a file that does not exist.
JobRecord ==
    [id : 0..MaxJobs, state : Pending \cup Terminal \cup {"none"},
     pid : Pids \cup {NoPid}, created : Times, updated : Times,
     err : {"none", "worker_crashed", "worker_spawn_failed", "scan_failed"}]

NoRecord == [id |-> 0, state |-> "none", pid |-> NoPid,
             created |-> 0, updated |-> 0, err |-> "none"]

VARIABLES
    jobs,       \* jobs[j] : the contents of <job j>.json
    active,     \* the contents of active.json
    lock,       \* the holder of control.lock
    pc,         \* pc[c] : where controller c is in Start or Status
    op,         \* op[c] : the command c runs
    rec,        \* rec[c] : the record c holds in memory
    wpc,        \* wpc[j] : where the worker of job j is
    wpid,       \* wpid[j] : the PID the worker of job j was given
    wrec,       \* wrec[j] : the record the worker of job j holds in memory
    foreign,    \* PIDs of live processes that are not workers
    now,        \* the wall clock
    faults      \* faults so far

ctlVars == <<lock, pc, op, rec>>
workVars == <<wpc, wpid, wrec>>
envVars == <<foreign, now, faults>>
vars == <<jobs, active, ctlVars, workVars, envVars>>

------------------------------------------------------------------------------
\* A worker process that exists, and one that passed authorizeWorkerLaunch.
LiveStages == {"poll", "confirm", "run", "writeJob", "writeActive"}
Live(j) == wpc[j] \in LiveStages
Authorized(j) == wpc[j] \in {"run", "writeJob", "writeActive"}

IsProcessAlive(p) ==
    p \in foreign \/ \E j \in Jobs : Live(j) /\ wpid[j] = p

\* Mutant: the launch grace judges every record by its age alone.
MayStillBeActive_AgeOnly(r) ==
    now <= r.updated + Grace /\ r.updated <= now + Grace

\* Mutant: a queued record never ages out.
MayStillBeActive_NoExpiry(r) == r.state = "queued" \/ IsProcessAlive(r.pid)

MayStillBeActive(r) ==
    IF r.state = "queued" /\ r.pid = NoPid
      THEN now <= r.updated + Grace /\ r.updated <= now + Grace
      ELSE IsProcessAlive(r.pid)

MarkCrashed(r) ==
    [r EXCEPT !.state = "failed",
              !.err = IF @ = "none" THEN "worker_crashed" ELSE @,
              !.created = IF @ > now THEN now ELSE @, !.updated = now]

\* SaveJob refuses a record that validateJobRecord rejects.
ValidRecord(r) ==
    /\ r.state \in Pending \cup Terminal
    /\ r.state = "running" => r.pid # NoPid
    /\ r.created <= r.updated
    /\ (r.state = "failed") = (r.err # "none")

Fault == faults < MaxFaults /\ faults' = faults + 1

Init ==
    /\ jobs = [j \in Jobs |-> NoRecord] /\ active = NoRecord
    /\ lock = Free /\ foreign = {} /\ now = 0 /\ faults = 0
    /\ pc = [c \in Controllers |-> "idle"]
    /\ op = [c \in Controllers |-> "none"]
    /\ rec = [c \in Controllers |-> NoRecord]
    /\ wpc = [j \in Jobs |-> "unborn"]
    /\ wpid = [j \in Jobs |-> NoPid]
    /\ wrec = [j \in Jobs |-> NoRecord]

------------------------------------------------------------------------------
(* Controllers: Start and Status. *)

\* Every return path releases control.lock.
Release(c) ==
    /\ lock' = Free
    /\ pc' = [pc EXCEPT ![c] = "idle"]
    /\ op' = [op EXCEPT ![c] = "none"]
    /\ rec' = [rec EXCEPT ![c] = NoRecord]

GoTo(c, stage, r) ==
    /\ pc' = [pc EXCEPT ![c] = stage]
    /\ rec' = [rec EXCEPT ![c] = r]
    /\ UNCHANGED <<lock, op>>

Acquire(c, command) ==
    /\ pc[c] = "idle" /\ lock = Free
    /\ command = "start" => now <= LastStart /\ \E j \in Jobs : jobs[j] = NoRecord
    /\ lock' = c
    /\ pc' = [pc EXCEPT ![c] = "load"]
    /\ op' = [op EXCEPT ![c] = command]
    /\ UNCHANGED <<jobs, active, rec, workVars, envVars>>

\* Start goes on to a new job when there is none or the last one is terminal.
LoadActive(c) ==
    /\ pc[c] = "load"
    /\ IF active.state \in Pending THEN GoTo(c, "check", active)
       ELSE IF op[c] = "start" THEN GoTo(c, "create", NoRecord)
       ELSE Release(c)
    /\ UNCHANGED <<jobs, active, workVars, envVars>>

\* The loaded record is judged later, against the processes alive by then.
CheckLiveness(c) ==
    /\ pc[c] = "check"
    /\ IF MayStillBeActive(rec[c]) THEN Release(c)
       ELSE GoTo(c, "writeJob", MarkCrashed(rec[c]))
    /\ UNCHANGED <<jobs, active, workVars, envVars>>

\* Job identifiers are scan-<UnixNano>: fresh, here the smallest unused number.
Create(c) ==
    /\ pc[c] = "create"
    /\ \E j \in Jobs :
         /\ jobs[j] = NoRecord /\ \A k \in 1..(j - 1) : jobs[k] # NoRecord
         /\ GoTo(c, "writeJob", [id |-> j, state |-> "queued", pid |-> NoPid,
                                 created |-> now, updated |-> now, err |-> "none"])
    /\ UNCHANGED <<jobs, active, workVars, envVars>>

\* Mutant: SaveJob without validateJobRecord.
ControlWriteJob_Unvalidated(c) ==
    /\ pc[c] = "writeJob"
    /\ jobs' = [jobs EXCEPT ![rec[c].id] = rec[c]]
    /\ GoTo(c, "writeActive", rec[c])
    /\ UNCHANGED <<active, workVars, envVars>>

ControlWriteJob(c) ==
    /\ pc[c] = "writeJob"
    /\ IF ValidRecord(rec[c])
         THEN /\ jobs' = [jobs EXCEPT ![rec[c].id] = rec[c]]
              /\ GoTo(c, "writeActive", rec[c])
         ELSE Release(c) /\ UNCHANGED jobs
    /\ UNCHANGED <<active, workVars, envVars>>

\* After the queued record comes the spawn; after a crash mark, Start's new job.
ControlWriteActive(c) ==
    /\ pc[c] = "writeActive"
    /\ active' = rec[c]
    /\ IF rec[c].state = "queued" THEN GoTo(c, "spawn", rec[c])
       ELSE IF op[c] = "start" /\ rec[c].err = "worker_crashed"
         THEN GoTo(c, "create", NoRecord)
       ELSE Release(c)
    /\ UNCHANGED <<jobs, workVars, envVars>>

\* The worker exists, and polls, before its running record is written.
Spawn(c) ==
    /\ pc[c] = "spawn"
    /\ \E p \in Pids :
         /\ ~IsProcessAlive(p)
         /\ wpc' = [wpc EXCEPT ![rec[c].id] = "poll"]
         /\ wpid' = [wpid EXCEPT ![rec[c].id] = p]
         /\ GoTo(c, "writeJob", [rec[c] EXCEPT !.state = "running", !.pid = p,
                                               !.updated = now])
    /\ UNCHANGED <<jobs, active, wrec, envVars>>

SpawnFails(c) ==
    /\ pc[c] = "spawn" /\ Fault
    /\ GoTo(c, "writeJob", [rec[c] EXCEPT !.state = "failed", !.updated = now,
                                          !.err = "worker_spawn_failed"])
    /\ UNCHANGED <<jobs, active, workVars, foreign, now>>

\* The process dies, or a save fails and the command returns: either way the
\* files stay as they are and the lock is freed.
ControllerStops(c) ==
    /\ pc[c] # "idle" /\ Fault
    /\ Release(c)
    /\ UNCHANGED <<jobs, active, workVars, foreign, now>>

------------------------------------------------------------------------------
(* The worker of job j: RunWorker. *)

WorkerAt(j, stage, r) ==
    /\ wpc' = [wpc EXCEPT ![j] = stage]
    /\ wrec' = [wrec EXCEPT ![j] = r]
    /\ UNCHANGED wpid

WorkerExits(j) == WorkerAt(j, "gone", NoRecord)

\* While the record is queued the worker keeps polling, which changes nothing.
ReadJob(j) ==
    /\ wpc[j] = "poll" /\ jobs[j].state # "queued"
    /\ IF jobs[j].state = "running" /\ jobs[j].pid = wpid[j]
         THEN WorkerAt(j, "confirm", jobs[j])
         ELSE WorkerExits(j)
    /\ UNCHANGED <<jobs, active, ctlVars, envVars>>

LaunchTimeout(j) ==
    /\ wpc[j] = "poll" /\ jobs[j].state = "queued"
    /\ WorkerExits(j)
    /\ UNCHANGED <<jobs, active, ctlVars, envVars>>

\* Mutant: the worker trusts its job file and does not look at active.json.
ReadActive_TrustsJobFile(j) ==
    /\ wpc[j] = "confirm"
    /\ WorkerAt(j, "run", wrec[j])
    /\ UNCHANGED <<jobs, active, ctlVars, envVars>>

ReadActive(j) ==
    /\ wpc[j] = "confirm"
    /\ IF active.id = j /\ active.state = "running" /\ active.pid = wpid[j]
         THEN WorkerAt(j, "run", wrec[j])
         ELSE WorkerExits(j)
    /\ UNCHANGED <<jobs, active, ctlVars, envVars>>

\* A phase or extraction observer saves the record with a new timestamp.
Progress(j) ==
    /\ wpc[j] = "run" /\ wrec[j].updated # now
    /\ WorkerAt(j, "writeJob", [wrec[j] EXCEPT !.updated = now])
    /\ UNCHANGED <<jobs, active, ctlVars, envVars>>

Outcome(j, s) ==
    [wrec[j] EXCEPT !.state = s, !.updated = now,
                    !.err = IF s = "failed" THEN "scan_failed" ELSE "none"]

Finish(j) ==
    /\ wpc[j] = "run"
    /\ \E s \in Terminal : WorkerAt(j, "writeJob", Outcome(j, s))
    /\ UNCHANGED <<jobs, active, ctlVars, envVars>>

\* A progress save that fails ends the scan, whose failure is saved in turn; a
\* terminal save that fails ends the process.
SaveFailed(j) ==
    IF wrec[j].state = "running"
      THEN WorkerAt(j, "writeJob", Outcome(j, "failed"))
      ELSE WorkerExits(j)

WorkerWriteJob(j) ==
    /\ wpc[j] = "writeJob"
    /\ IF ValidRecord(wrec[j])
         THEN /\ jobs' = [jobs EXCEPT ![j] = wrec[j]]
              /\ WorkerAt(j, "writeActive", wrec[j])
         ELSE SaveFailed(j) /\ UNCHANGED jobs
    /\ UNCHANGED <<active, ctlVars, envVars>>

WorkerWriteActive(j) ==
    /\ wpc[j] = "writeActive"
    /\ active' = wrec[j]
    /\ IF wrec[j].state = "running" THEN WorkerAt(j, "run", wrec[j])
       ELSE WorkerExits(j)
    /\ UNCHANGED <<jobs, ctlVars, envVars>>

WorkerWriteFails(j) ==
    /\ wpc[j] \in {"writeJob", "writeActive"} /\ Fault
    /\ SaveFailed(j)
    /\ UNCHANGED <<jobs, active, ctlVars, foreign, now>>

WorkerCrash(j) ==
    /\ Live(j) /\ Fault
    /\ WorkerExits(j)
    /\ UNCHANGED <<jobs, active, ctlVars, foreign, now>>

------------------------------------------------------------------------------
(* The machine: the wall clock and other processes. *)

\* The bounded clock does not run past LastStart under a Start that is under way.
Tick ==
    /\ now < MaxTime
    /\ now < LastStart \/ \A c \in Controllers : op[c] # "start"
    /\ now' = now + 1
    /\ UNCHANGED <<jobs, active, ctlVars, workVars, foreign, faults>>

ClockStepsBack ==
    /\ now > 0 /\ Fault
    /\ now' = now - 1
    /\ UNCHANGED <<jobs, active, ctlVars, workVars, foreign>>

PidReused(p) ==
    /\ PidReuse /\ ~IsProcessAlive(p)
    /\ foreign' = foreign \cup {p}
    /\ UNCHANGED <<jobs, active, ctlVars, workVars, now, faults>>

ForeignExits(p) ==
    /\ p \in foreign
    /\ foreign' = foreign \ {p}
    /\ UNCHANGED <<jobs, active, ctlVars, workVars, now, faults>>

Control(c) ==
    \/ LoadActive(c) \/ CheckLiveness(c) \/ Create(c)
    \/ ControlWriteJob(c) \/ ControlWriteActive(c) \/ Spawn(c)

Work(j) ==
    \/ ReadJob(j) \/ ReadActive(j) \/ WorkerWriteJob(j) \/ WorkerWriteActive(j)

Next ==
    \/ \E c \in Controllers :
         \/ \E command \in {"start", "status"} : Acquire(c, command)
         \/ LoadActive(c) \/ CheckLiveness(c) \/ Create(c)
         \/ ControlWriteJob(c) \/ ControlWriteActive(c)
         \/ Spawn(c) \/ SpawnFails(c) \/ ControllerStops(c)
    \/ \E j \in Jobs :
         \/ ReadJob(j) \/ LaunchTimeout(j) \/ ReadActive(j)
         \/ Progress(j) \/ Finish(j) \/ WorkerWriteJob(j) \/ WorkerWriteActive(j)
         \/ WorkerWriteFails(j) \/ WorkerCrash(j)
    \/ Tick \/ ClockStepsBack
    \/ \E p \in Pids : PidReused(p) \/ ForeignExits(p)

Spec == Init /\ [][Next]_vars

\* The plugin polls status until a terminal state, processes that live keep
\* running, a scan ends after finitely many progress saves, and time passes
\* (strongly fair only because of Tick's bound).
Fairness ==
    /\ \E c \in Controllers : SF_vars(Acquire(c, "status"))
    /\ \A c \in Controllers : WF_vars(Control(c))
    /\ \A j \in Jobs : WF_vars(Work(j)) /\ SF_vars(Finish(j))
    /\ SF_vars(Tick)

FairSpec == Spec /\ Fairness

------------------------------------------------------------------------------
(* Properties. *)

Types ==
    /\ jobs \in [Jobs -> JobRecord] /\ active \in JobRecord
    /\ lock \in Controllers \cup {Free}
    /\ pc \in [Controllers -> {"idle", "load", "check", "create", "writeJob",
                               "writeActive", "spawn"}]
    /\ op \in [Controllers -> {"none", "start", "status"}]
    /\ rec \in [Controllers -> JobRecord]
    /\ wpc \in [Jobs -> LiveStages \cup {"unborn", "gone"}]
    /\ wpid \in [Jobs -> Pids \cup {NoPid}]
    /\ wrec \in [Jobs -> JobRecord]
    /\ foreign \subseteq Pids /\ now \in Times /\ faults \in 0..MaxFaults

StoredRecordsValid ==
    /\ \A j \in Jobs : jobs[j] # NoRecord => ValidRecord(jobs[j]) /\ jobs[j].id = j
    /\ active # NoRecord => ValidRecord(active)

\* Every variable has its type, and every record on disk passes
\* validateJobRecord, so no later load of it can fail.
TypeOK == Types /\ StoredRecordsValid

\* Two workers of one project are never both past authorizeWorkerLaunch, through
\* every crash, PID reuse and clock step: they save active.json with no lock.
AtMostOneWorker ==
    \A i, j \in Jobs : Authorized(i) /\ Authorized(j) => i = j

\* An authorised worker is the one active.json names, so its unlocked saves
\* never overwrite the record of another job.
WorkerOwnsActive ==
    \A j \in Jobs : Authorized(j) =>
        active.id = j /\ active.state = "running" /\ active.pid = wpid[j]

\* A job that Start or Status declared crashed, or that was never spawned, has
\* no worker that scans: markWorkerCrashed is never wrong about a live worker.
DeclaredDeadIsDead ==
    \A j \in Jobs :
        jobs[j].err \in {"worker_crashed", "worker_spawn_failed"} => ~Authorized(j)

\* The plugin's polling always ends: a pending active job is eventually replaced
\* by a terminal record, its worker crashed, lost at launch, or done.
PollingEnds == active.state \in Pending ~> active.state \in Terminal
==============================================================================
