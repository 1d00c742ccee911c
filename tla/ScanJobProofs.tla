---------------------------- MODULE ScanJobProofs ----------------------------
(***************************************************************************)
(* Theorems about the background scan job, for any number of controllers,  *)
(* PIDs, jobs and faults.  The heart is Quiet: while a controller is past  *)
(* its liveness check it holds control.lock, and active.json names no live *)
(* worker, so nobody is authorised and nobody can become authorised before *)
(* the controller writes active.json itself.                               *)
(***************************************************************************)
EXTENDS ScanJob, TLAPS

\* The record names worker j, alive, as the authorised one.
Names(r, j) == r.id = j /\ r.state = "running" /\ r.pid = wpid[j] /\ Live(j)

\* A controller inside Start or Status holds control.lock.
LockHeld == \A c \in Controllers : pc[c] # "idle" => lock = c

\* What a controller holds in memory, by stage.
ControlRecord == \A c \in Controllers :
    /\ pc[c] \in {"check", "writeJob", "writeActive", "spawn"} => rec[c].id \in Jobs
    /\ pc[c] = "check" =>
         /\ active.id = rec[c].id /\ active.pid = rec[c].pid
         /\ rec[c].state = "queued" => active.state = "queued"
    /\ pc[c] = "writeActive" => ValidRecord(rec[c]) /\ jobs[rec[c].id] = rec[c]
    /\ pc[c] = "spawn" => rec[c].state = "queued" /\ active.state = "queued"

\* What a worker holds in memory, by stage.
WorkerRecord == \A j \in Jobs :
    /\ wpc[j] \in {"confirm", "run", "writeJob", "writeActive"} =>
         wrec[j].id = j /\ wrec[j].pid = wpid[j]
    /\ wpc[j] \in {"confirm", "run"} => wrec[j].state = "running" /\ wrec[j].err = "none"
    /\ wpc[j] \in {"writeJob", "writeActive"} =>
         wrec[j].err \in {"none", "scan_failed"}
    /\ wpc[j] = "writeActive" => ValidRecord(wrec[j])

\* Past its liveness check, a controller works on a project without a worker.
Quiet == \A c \in Controllers :
    pc[c] \in {"create", "writeJob", "writeActive", "spawn"} =>
        \A j \in Jobs : ~Names(active, j)

\* A job declared dead is not one active.json authorises.
DeadNotNamed == \A j \in Jobs :
    jobs[j].err \in {"worker_crashed", "worker_spawn_failed"} => ~Names(active, j)

PendingHasId == active.state \in Pending => active.id \in Jobs

IInv ==
    /\ TypeOK /\ LockHeld /\ ControlRecord /\ WorkerRecord /\ PendingHasId
    /\ WorkerOwnsActive /\ Quiet /\ DeadNotNamed

------------------------------------------------------------------------------
(* The records the actions build. *)

\* The absent record has the type of records.
LEMMA NoRecordType == NoRecord \in JobRecord
BY ScanJobAssumption DEF NoRecord, JobRecord, Times, Pending, Terminal

\* A crash mark keeps the identity of the record and makes it failed.
LEMMA CrashedRecord ==
    ASSUME now \in Times, NEW r \in JobRecord
    PROVE  /\ MarkCrashed(r) \in JobRecord
           /\ MarkCrashed(r).id = r.id /\ MarkCrashed(r).state = "failed"
<1>1. /\ r.created \in Times
      /\ r.err \in {"none", "worker_crashed", "worker_spawn_failed", "scan_failed"}
  BY DEF JobRecord
<1>2. (IF r.created > now THEN now ELSE r.created) \in Times
  BY <1>1
<1>3. (IF r.err = "none" THEN "worker_crashed" ELSE r.err)
        \in {"none", "worker_crashed", "worker_spawn_failed", "scan_failed"}
  BY <1>1
<1> QED BY ZenonT(60), <1>2, <1>3 DEF MarkCrashed, JobRecord, Terminal

\* The outcome a worker saves keeps its identity.
LEMMA OutcomeRecord ==
    ASSUME now \in Times, NEW j \in Jobs, wrec[j] \in JobRecord, NEW s \in Terminal
    PROVE  /\ Outcome(j, s) \in JobRecord
           /\ Outcome(j, s).id = wrec[j].id /\ Outcome(j, s).pid = wrec[j].pid
           /\ Outcome(j, s).err \in {"none", "scan_failed"}
BY ZenonT(60) DEF Outcome, JobRecord, Terminal

\* The record Start creates is valid.
LEMMA QueuedRecord ==
    ASSUME now \in Times, NEW j \in Jobs
    PROVE  [id |-> j, state |-> "queued", pid |-> NoPid, created |-> now,
            updated |-> now, err |-> "none"] \in JobRecord
BY ScanJobAssumption DEF JobRecord, Pending, Jobs

\* The record saved once the worker is spawned is valid.
LEMMA RunningRecord ==
    ASSUME now \in Times, NEW r \in JobRecord, NEW p \in Pids
    PROVE  /\ [r EXCEPT !.state = "running", !.pid = p, !.updated = now] \in JobRecord
           /\ [r EXCEPT !.state = "running", !.pid = p, !.updated = now].id = r.id
BY DEF JobRecord, Pending

\* The record of a failed launch is valid.
LEMMA SpawnFailedRecord ==
    ASSUME now \in Times, NEW r \in JobRecord
    PROVE  /\ [r EXCEPT !.state = "failed", !.updated = now,
                        !.err = "worker_spawn_failed"] \in JobRecord
           /\ [r EXCEPT !.state = "failed", !.updated = now,
                        !.err = "worker_spawn_failed"].id = r.id
BY DEF JobRecord, Terminal

\* A worker that refreshes its record keeps it valid.
LEMMA RefreshedRecord ==
    ASSUME now \in Times, NEW r \in JobRecord
    PROVE  [r EXCEPT !.updated = now] \in JobRecord
BY DEF JobRecord

\* A failed save leaves the worker with a well-formed record, or gone.
LEMMA SaveFailedStep ==
    ASSUME Types, WorkerRecord, NEW j \in Jobs, SaveFailed(j),
           wpc[j] \in {"writeJob", "writeActive"}
    PROVE  /\ wrec' \in [Jobs -> JobRecord] /\ wpid' = wpid /\ WorkerRecord'
           /\ wpc' \in [Jobs -> LiveStages \cup {"unborn", "gone"}]
<1> USE DEF LiveStages
<1>1. CASE wrec[j].state = "running"
  <2>1. /\ wrec' = [wrec EXCEPT ![j] = Outcome(j, "failed")]
        /\ wpc' = [wpc EXCEPT ![j] = "writeJob"] /\ wpid' = wpid
    BY <1>1 DEF SaveFailed, WorkerAt
  <2>2. /\ Outcome(j, "failed") \in JobRecord
        /\ Outcome(j, "failed").id = j /\ Outcome(j, "failed").pid = wpid[j]
        /\ Outcome(j, "failed").err \in {"none", "scan_failed"}
    BY OutcomeRecord DEF Types, WorkerRecord, Terminal
  <2> QED BY <2>1, <2>2 DEF Types, WorkerRecord
<1>2. CASE wrec[j].state # "running"
  <2>1. /\ wrec' = [wrec EXCEPT ![j] = NoRecord]
        /\ wpc' = [wpc EXCEPT ![j] = "gone"] /\ wpid' = wpid
    BY <1>2 DEF SaveFailed, WorkerAt, WorkerExits
  <2> QED BY <2>1, NoRecordType DEF Types, WorkerRecord
<1> QED BY <1>1, <1>2

------------------------------------------------------------------------------
(* One lemma per action: each preserves every conjunct of IInv. *)

\* Taking control.lock keeps the invariant: it was free, so no controller held a record.
LEMMA AcquireStep ==
    ASSUME IInv, NEW c \in Controllers, NEW command \in {"start", "status"}, Acquire(c, command)
    PROVE  IInv'
<1> USE DEF Jobs, Live, LiveStages, ctlVars, workVars, envVars
<1>0. /\ Types /\ StoredRecordsValid /\ LockHeld /\ ControlRecord /\ WorkerRecord /\ PendingHasId
      /\ WorkerOwnsActive /\ Quiet /\ DeadNotNamed
  BY DEF IInv, TypeOK
<1>1. Types'
  BY <1>0 DEF Acquire, Types
<1>2. StoredRecordsValid'
  BY <1>0 DEF Acquire, StoredRecordsValid
<1>3. LockHeld'
  BY <1>0, ScanJobAssumption DEF Acquire, LockHeld
<1>4. ControlRecord'
  BY <1>0 DEF Acquire, ControlRecord
<1>5. WorkerRecord'
  BY <1>0 DEF Acquire, WorkerRecord
<1>6. PendingHasId'
  BY <1>0 DEF Acquire, PendingHasId
<1>7. WorkerOwnsActive'
  BY <1>0 DEF Acquire, WorkerOwnsActive, Authorized
<1>8. Quiet'
  BY <1>0 DEF Acquire, Quiet, Names
<1>9. DeadNotNamed'
  BY <1>0 DEF Acquire, DeadNotNamed, Names
<1> QED BY <1>1, <1>2, <1>3, <1>4, <1>5, <1>6, <1>7, <1>8, <1>9 DEF IInv, TypeOK

\* Loading active.json keeps the invariant: what is loaded is valid because what is stored is.
LEMMA LoadActiveStep ==
    ASSUME IInv, NEW c \in Controllers, LoadActive(c)
    PROVE  IInv'
<1> USE DEF Jobs, Live, LiveStages, ctlVars, workVars, envVars
<1>0. /\ Types /\ StoredRecordsValid /\ LockHeld /\ ControlRecord /\ WorkerRecord /\ PendingHasId
      /\ WorkerOwnsActive /\ Quiet /\ DeadNotNamed
  BY DEF IInv, TypeOK
<1>1. Types'
  BY <1>0, NoRecordType DEF LoadActive, GoTo, Release, Types
<1>2. StoredRecordsValid'
  BY <1>0 DEF LoadActive, StoredRecordsValid
<1>3. LockHeld'
  BY <1>0 DEF LoadActive, GoTo, Release, LockHeld, Types
<1>4. ControlRecord'
  BY <1>0 DEF LoadActive, GoTo, Release, ControlRecord, Types, PendingHasId
<1>5. WorkerRecord'
  BY <1>0 DEF LoadActive, WorkerRecord
<1>6. PendingHasId'
  BY <1>0 DEF LoadActive, PendingHasId
<1>7. WorkerOwnsActive'
  BY <1>0 DEF LoadActive, WorkerOwnsActive, Authorized
<1>8. Quiet'
  BY <1>0 DEF LoadActive, GoTo, Quiet, Names, Types, Pending
<1>9. DeadNotNamed'
  BY <1>0 DEF LoadActive, DeadNotNamed, Names
<1> QED BY <1>1, <1>2, <1>3, <1>4, <1>5, <1>6, <1>7, <1>8, <1>9 DEF IInv, TypeOK

\* Judging the loaded record keeps the invariant: a record judged dead is one
\* no worker can be authorised for.
LEMMA CheckLivenessStep ==
    ASSUME IInv, NEW c \in Controllers, CheckLiveness(c)
    PROVE  IInv'
<1> USE DEF Jobs, Live, LiveStages, ctlVars, workVars, envVars
<1>0. /\ Types /\ StoredRecordsValid /\ LockHeld /\ ControlRecord /\ WorkerRecord /\ PendingHasId
      /\ WorkerOwnsActive /\ Quiet /\ DeadNotNamed
  BY DEF IInv, TypeOK
<1>1. Types'
  BY <1>0, NoRecordType, CrashedRecord DEF CheckLiveness, GoTo, Release, Types
<1>2. StoredRecordsValid'
  BY <1>0 DEF CheckLiveness, StoredRecordsValid
<1>3. LockHeld'
  BY <1>0 DEF CheckLiveness, GoTo, Release, LockHeld, Types
<1>4. ControlRecord'
  BY <1>0, CrashedRecord DEF CheckLiveness, GoTo, Release, ControlRecord, Types
<1>5. WorkerRecord'
  BY <1>0 DEF CheckLiveness, WorkerRecord
<1>6. PendingHasId'
  BY <1>0 DEF CheckLiveness, PendingHasId
<1>7. WorkerOwnsActive'
  BY <1>0 DEF CheckLiveness, WorkerOwnsActive, Authorized
<1>8. Quiet'
  BY <1>0
     DEF CheckLiveness, Release, Quiet, Names, Types, ControlRecord, MayStillBeActive,
         IsProcessAlive
<1>9. DeadNotNamed'
  BY <1>0 DEF CheckLiveness, DeadNotNamed, Names
<1> QED BY <1>1, <1>2, <1>3, <1>4, <1>5, <1>6, <1>7, <1>8, <1>9 DEF IInv, TypeOK

\* Creating the queued record keeps the invariant: its identifier is new.
LEMMA CreateStep ==
    ASSUME IInv, NEW c \in Controllers, Create(c)
    PROVE  IInv'
<1> USE DEF Jobs, Live, LiveStages, ctlVars, workVars, envVars
<1>0. /\ Types /\ StoredRecordsValid /\ LockHeld /\ ControlRecord /\ WorkerRecord /\ PendingHasId
      /\ WorkerOwnsActive /\ Quiet /\ DeadNotNamed
  BY DEF IInv, TypeOK
<1>1. Types'
  BY <1>0, QueuedRecord DEF Create, GoTo, Types
<1>2. StoredRecordsValid'
  BY <1>0 DEF Create, StoredRecordsValid
<1>3. LockHeld'
  BY <1>0 DEF Create, GoTo, LockHeld
<1>4. ControlRecord'
  BY <1>0 DEF Create, GoTo, ControlRecord, Types
<1>5. WorkerRecord'
  BY <1>0 DEF Create, WorkerRecord
<1>6. PendingHasId'
  BY <1>0 DEF Create, PendingHasId
<1>7. WorkerOwnsActive'
  BY <1>0 DEF Create, WorkerOwnsActive, Authorized
<1>8. Quiet'
  BY <1>0 DEF Create, Quiet, Names
<1>9. DeadNotNamed'
  BY <1>0 DEF Create, DeadNotNamed, Names
<1> QED BY <1>1, <1>2, <1>3, <1>4, <1>5, <1>6, <1>7, <1>8, <1>9 DEF IInv, TypeOK

\* Writing <job>.json keeps the invariant: it authorises nobody by itself.
LEMMA ControlWriteJobStep ==
    ASSUME IInv, NEW c \in Controllers, ControlWriteJob(c)
    PROVE  IInv'
<1> USE DEF Jobs, Live, LiveStages, ctlVars, workVars, envVars
<1>0. /\ Types /\ StoredRecordsValid /\ LockHeld /\ ControlRecord /\ WorkerRecord /\ PendingHasId
      /\ WorkerOwnsActive /\ Quiet /\ DeadNotNamed
  BY DEF IInv, TypeOK
<1>1. Types'
  BY <1>0, NoRecordType DEF ControlWriteJob, GoTo, Release, Types
<1>2. StoredRecordsValid'
  BY <1>0, ScanJobAssumption DEF ControlWriteJob, StoredRecordsValid, Types
<1>3. LockHeld'
  BY <1>0 DEF ControlWriteJob, GoTo, Release, LockHeld, Types
<1>4. ControlRecord'
  BY <1>0, NoRecordType, ScanJobAssumption
     DEF ControlWriteJob, GoTo, Release, ControlRecord, Types, LockHeld
<1>5. WorkerRecord'
  BY <1>0 DEF ControlWriteJob, WorkerRecord
<1>6. PendingHasId'
  BY <1>0 DEF ControlWriteJob, PendingHasId
<1>7. WorkerOwnsActive'
  BY <1>0 DEF ControlWriteJob, WorkerOwnsActive, Authorized
<1>8. Quiet'
  BY <1>0 DEF ControlWriteJob, Quiet, Names
<1>9. DeadNotNamed'
  BY <1>0 DEF ControlWriteJob, DeadNotNamed, Names, Quiet
<1> QED BY <1>1, <1>2, <1>3, <1>4, <1>5, <1>6, <1>7, <1>8, <1>9 DEF IInv, TypeOK

\* Writing active.json keeps the invariant: the record it replaces authorises no live worker.
LEMMA ControlWriteActiveStep ==
    ASSUME IInv, NEW c \in Controllers, ControlWriteActive(c)
    PROVE  IInv'
<1> USE DEF Jobs, Live, LiveStages, ctlVars, workVars, envVars
<1>0. /\ Types /\ StoredRecordsValid /\ LockHeld /\ ControlRecord /\ WorkerRecord /\ PendingHasId
      /\ WorkerOwnsActive /\ Quiet /\ DeadNotNamed
  BY DEF IInv, TypeOK
<1>1. Types'
  BY <1>0, NoRecordType DEF ControlWriteActive, GoTo, Release, Types
<1>2. StoredRecordsValid'
  BY <1>0 DEF ControlWriteActive, StoredRecordsValid, ControlRecord
<1>3. LockHeld'
  BY <1>0 DEF ControlWriteActive, GoTo, Release, LockHeld, Types
<1>4. ControlRecord'
  BY <1>0, NoRecordType DEF ControlWriteActive, GoTo, Release, ControlRecord, Types, LockHeld
<1>5. WorkerRecord'
  BY <1>0 DEF ControlWriteActive, WorkerRecord
<1>6. PendingHasId'
  BY <1>0 DEF ControlWriteActive, PendingHasId, ControlRecord
<1>7. WorkerOwnsActive'
  BY <1>0 DEF ControlWriteActive, WorkerOwnsActive, Authorized, Quiet, Names
<1>8. Quiet'
  BY <1>0
     DEF ControlWriteActive, Release, Quiet, Names, Types, ValidRecord, ControlRecord, LockHeld
<1>9. DeadNotNamed'
  BY <1>0 DEF ControlWriteActive, DeadNotNamed, Names, ControlRecord, ValidRecord
<1> QED BY <1>1, <1>2, <1>3, <1>4, <1>5, <1>6, <1>7, <1>8, <1>9 DEF IInv, TypeOK

\* Spawning keeps the invariant: the new worker starts unauthorised, under a PID nobody has.
LEMMA SpawnStep ==
    ASSUME IInv, NEW c \in Controllers, Spawn(c)
    PROVE  IInv'
<1> USE DEF Jobs, Live, LiveStages, ctlVars, workVars, envVars
<1>0. /\ Types /\ StoredRecordsValid /\ LockHeld /\ ControlRecord /\ WorkerRecord /\ PendingHasId
      /\ WorkerOwnsActive /\ Quiet /\ DeadNotNamed
  BY DEF IInv, TypeOK
<1>a. PICK p \in Pids :
       /\ wpc' = [wpc EXCEPT ![rec[c].id] = "poll"]
       /\ wpid' = [wpid EXCEPT ![rec[c].id] = p]
       /\ GoTo(c, "writeJob", [rec[c] EXCEPT !.state = "running", !.pid = p,
                                             !.updated = now])
  BY DEF Spawn
<1>b. pc[c] = "spawn" /\ rec[c].id \in Jobs /\ rec[c].state = "queued"
      /\ active.state = "queued" /\ UNCHANGED <<jobs, active, wrec, envVars>>
  BY <1>0 DEF Spawn, ControlRecord
<1>1. Types'
  <2>1. rec' \in [Controllers -> JobRecord]
    BY <1>0, <1>a, RunningRecord DEF GoTo, Types
  <2> QED BY <1>0, <1>a, <1>b, <2>1 DEF GoTo, Types
<1>2. StoredRecordsValid'
  BY <1>0, <1>b DEF StoredRecordsValid
<1>3. LockHeld'
  BY <1>0, <1>a, <1>b DEF LockHeld, GoTo
<1>4. ControlRecord'
  <2>1. rec'[c].id = rec[c].id
    BY <1>0, <1>a DEF GoTo, Types
  <2> QED BY <1>0, <1>a, <1>b DEF GoTo, Types, ControlRecord
<1>5. WorkerRecord'
  BY <1>0, <1>a, <1>b DEF WorkerRecord, Types
<1>6. PendingHasId'
  BY <1>0, <1>b DEF PendingHasId
<1>7. WorkerOwnsActive'
  BY <1>0, <1>a, <1>b DEF WorkerOwnsActive, Authorized
<1>8. Quiet'
  BY <1>b DEF Quiet, Names
<1>9. DeadNotNamed'
  BY <1>b DEF DeadNotNamed, Names
<1> QED BY <1>1, <1>2, <1>3, <1>4, <1>5, <1>6, <1>7, <1>8, <1>9 DEF IInv, TypeOK

\* A launch that fails keeps the invariant: no worker was started.
LEMMA SpawnFailsStep ==
    ASSUME IInv, NEW c \in Controllers, SpawnFails(c)
    PROVE  IInv'
<1> USE DEF Jobs, Live, LiveStages, ctlVars, workVars, envVars
<1>0. /\ Types /\ StoredRecordsValid /\ LockHeld /\ ControlRecord /\ WorkerRecord /\ PendingHasId
      /\ WorkerOwnsActive /\ Quiet /\ DeadNotNamed
  BY DEF IInv, TypeOK
<1>a. /\ pc[c] = "spawn" /\ rec[c] \in JobRecord /\ rec[c].id \in Jobs /\ Fault
      /\ GoTo(c, "writeJob", [rec[c] EXCEPT !.state = "failed", !.updated = now,
                                            !.err = "worker_spawn_failed"])
      /\ UNCHANGED <<jobs, active, workVars, foreign, now>>
  BY <1>0 DEF SpawnFails, ControlRecord, Types
<1>1. Types'
  <2>1. rec' \in [Controllers -> JobRecord]
    BY <1>0, <1>a, SpawnFailedRecord DEF GoTo, Types
  <2> QED BY <1>0, <1>a, <2>1, ScanJobAssumption DEF GoTo, Types, Fault
<1>2. StoredRecordsValid'
  BY <1>0, <1>a DEF StoredRecordsValid
<1>3. LockHeld'
  BY <1>0, <1>a DEF LockHeld, GoTo
<1>4. ControlRecord'
  <2>1. rec'[c].id = rec[c].id
    BY <1>0, <1>a DEF GoTo, Types
  <2> QED BY <1>0, <1>a DEF GoTo, Types, ControlRecord
<1>5. WorkerRecord'
  BY <1>0, <1>a DEF WorkerRecord
<1>6. PendingHasId'
  BY <1>0, <1>a DEF PendingHasId
<1>7. WorkerOwnsActive'
  BY <1>0, <1>a DEF WorkerOwnsActive, Authorized
<1>8. Quiet'
  BY <1>0, <1>a DEF Quiet, Names
<1>9. DeadNotNamed'
  BY <1>0, <1>a DEF DeadNotNamed, Names
<1> QED BY <1>1, <1>2, <1>3, <1>4, <1>5, <1>6, <1>7, <1>8, <1>9 DEF IInv, TypeOK

\* A controller that crashes or returns keeps the invariant: the lock goes with its memory.
LEMMA ControllerStopsStep ==
    ASSUME IInv, NEW c \in Controllers, ControllerStops(c)
    PROVE  IInv'
<1> USE DEF Jobs, Live, LiveStages, ctlVars, workVars, envVars
<1>0. /\ Types /\ StoredRecordsValid /\ LockHeld /\ ControlRecord /\ WorkerRecord /\ PendingHasId
      /\ WorkerOwnsActive /\ Quiet /\ DeadNotNamed
  BY DEF IInv, TypeOK
<1>1. Types'
  BY <1>0, NoRecordType, ScanJobAssumption DEF ControllerStops, Release, Types, Fault
<1>2. StoredRecordsValid'
  BY <1>0 DEF ControllerStops, StoredRecordsValid
<1>3. LockHeld'
  BY <1>0 DEF ControllerStops, Release, LockHeld, Types
<1>4. ControlRecord'
  BY <1>0 DEF ControllerStops, Release, ControlRecord, Types
<1>5. WorkerRecord'
  BY <1>0 DEF ControllerStops, WorkerRecord
<1>6. PendingHasId'
  BY <1>0 DEF ControllerStops, PendingHasId
<1>7. WorkerOwnsActive'
  BY <1>0 DEF ControllerStops, WorkerOwnsActive, Authorized
<1>8. Quiet'
  BY <1>0 DEF ControllerStops, Release, Quiet, Names
<1>9. DeadNotNamed'
  BY <1>0 DEF ControllerStops, DeadNotNamed, Names
<1> QED BY <1>1, <1>2, <1>3, <1>4, <1>5, <1>6, <1>7, <1>8, <1>9 DEF IInv, TypeOK

\* A worker that reads its job file keeps the invariant.
LEMMA ReadJobStep ==
    ASSUME IInv, NEW j \in Jobs, ReadJob(j)
    PROVE  IInv'
<1> USE DEF Jobs, Live, LiveStages, ctlVars, workVars, envVars
<1>0. /\ Types /\ StoredRecordsValid /\ LockHeld /\ ControlRecord /\ WorkerRecord /\ PendingHasId
      /\ WorkerOwnsActive /\ Quiet /\ DeadNotNamed
  BY DEF IInv, TypeOK
<1>1. Types'
  BY <1>0, NoRecordType DEF ReadJob, WorkerAt, WorkerExits, Types
<1>2. StoredRecordsValid'
  BY <1>0 DEF ReadJob, StoredRecordsValid
<1>3. LockHeld'
  BY <1>0 DEF ReadJob, LockHeld
<1>4. ControlRecord'
  BY <1>0 DEF ReadJob, ControlRecord
<1>5. WorkerRecord'
  <2>1. CASE jobs[j].state = "running" /\ jobs[j].pid = wpid[j]
    <3>1. jobs[j] # NoRecord
      BY <2>1 DEF NoRecord
    <3>2. jobs[j].id = j /\ jobs[j].err = "none"
      BY <1>0, <2>1, <3>1 DEF StoredRecordsValid, ValidRecord
    <3>3. wpc' = [wpc EXCEPT ![j] = "confirm"] /\ wrec' = [wrec EXCEPT ![j] = jobs[j]]
          /\ wpid' = wpid
      BY <2>1 DEF ReadJob, WorkerAt
    <3>4. QED
      BY <1>0, <2>1, <3>2, <3>3 DEF WorkerRecord, Types, ValidRecord
  <2>2. CASE ~(jobs[j].state = "running" /\ jobs[j].pid = wpid[j])
    <3>1. wpc' = [wpc EXCEPT ![j] = "gone"] /\ wrec' = [wrec EXCEPT ![j] = NoRecord]
          /\ wpid' = wpid
      BY <2>2 DEF ReadJob, WorkerAt, WorkerExits
    <3>2. QED
      BY <1>0, <3>1 DEF WorkerRecord, Types, ValidRecord
  <2>3. QED
    BY <2>1, <2>2
<1>6. PendingHasId'
  BY <1>0 DEF ReadJob, PendingHasId
<1>7. WorkerOwnsActive'
  BY <1>0, ScanJobAssumption
     DEF ReadJob, WorkerAt, WorkerExits, WorkerOwnsActive, Authorized, Types
<1>8. Quiet'
  BY ZenonT(60), <1>0 DEF ReadJob, WorkerAt, WorkerExits, Quiet, Names, Types
<1>9. DeadNotNamed'
  BY ZenonT(60), <1>0 DEF ReadJob, WorkerAt, WorkerExits, DeadNotNamed, Names, Types
<1> QED BY <1>1, <1>2, <1>3, <1>4, <1>5, <1>6, <1>7, <1>8, <1>9 DEF IInv, TypeOK

\* A worker that gives up its launch keeps the invariant.
LEMMA LaunchTimeoutStep ==
    ASSUME IInv, NEW j \in Jobs, LaunchTimeout(j)
    PROVE  IInv'
<1> USE DEF Jobs, Live, LiveStages, ctlVars, workVars, envVars
<1>0. /\ Types /\ StoredRecordsValid /\ LockHeld /\ ControlRecord /\ WorkerRecord /\ PendingHasId
      /\ WorkerOwnsActive /\ Quiet /\ DeadNotNamed
  BY DEF IInv, TypeOK
<1>1. Types'
  BY <1>0, NoRecordType DEF LaunchTimeout, WorkerAt, WorkerExits, Types
<1>2. StoredRecordsValid'
  BY <1>0 DEF LaunchTimeout, StoredRecordsValid
<1>3. LockHeld'
  BY <1>0 DEF LaunchTimeout, LockHeld
<1>4. ControlRecord'
  BY <1>0 DEF LaunchTimeout, ControlRecord
<1>5. WorkerRecord'
  BY <1>0 DEF LaunchTimeout, WorkerAt, WorkerExits, WorkerRecord
<1>6. PendingHasId'
  BY <1>0 DEF LaunchTimeout, PendingHasId
<1>7. WorkerOwnsActive'
  BY <1>0 DEF LaunchTimeout, WorkerAt, WorkerExits, WorkerOwnsActive, Authorized
<1>8. Quiet'
  BY <1>0 DEF LaunchTimeout, WorkerAt, WorkerExits, Quiet, Names
<1>9. DeadNotNamed'
  BY <1>0 DEF LaunchTimeout, WorkerAt, WorkerExits, DeadNotNamed, Names
<1> QED BY <1>1, <1>2, <1>3, <1>4, <1>5, <1>6, <1>7, <1>8, <1>9 DEF IInv, TypeOK

\* The authorisation keeps the invariant: active.json names the worker, hence no other one.
LEMMA ReadActiveStep ==
    ASSUME IInv, NEW j \in Jobs, ReadActive(j)
    PROVE  IInv'
<1> USE DEF Jobs, Live, LiveStages, ctlVars, workVars, envVars
<1>0. /\ Types /\ StoredRecordsValid /\ LockHeld /\ ControlRecord /\ WorkerRecord /\ PendingHasId
      /\ WorkerOwnsActive /\ Quiet /\ DeadNotNamed
  BY DEF IInv, TypeOK
<1>1. Types'
  BY <1>0, NoRecordType DEF ReadActive, WorkerAt, WorkerExits, Types
<1>2. StoredRecordsValid'
  BY <1>0 DEF ReadActive, StoredRecordsValid
<1>3. LockHeld'
  BY <1>0 DEF ReadActive, LockHeld
<1>4. ControlRecord'
  BY <1>0 DEF ReadActive, ControlRecord
<1>5. WorkerRecord'
  BY SMTT(60), <1>0, ScanJobAssumption DEF ReadActive, WorkerAt, WorkerExits, WorkerRecord, Types
<1>6. PendingHasId'
  BY <1>0 DEF ReadActive, PendingHasId
<1>7. WorkerOwnsActive'
  BY <1>0, ScanJobAssumption
     DEF ReadActive, WorkerAt, WorkerExits, WorkerOwnsActive, Authorized, Types
<1>8. Quiet'
  BY ZenonT(60), <1>0 DEF ReadActive, WorkerAt, WorkerExits, Quiet, Names, Types
<1>9. DeadNotNamed'
  BY ZenonT(60), <1>0 DEF ReadActive, WorkerAt, WorkerExits, DeadNotNamed, Names, Types
<1> QED BY <1>1, <1>2, <1>3, <1>4, <1>5, <1>6, <1>7, <1>8, <1>9 DEF IInv, TypeOK

\* A progress report keeps the invariant.
LEMMA ProgressStep ==
    ASSUME IInv, NEW j \in Jobs, Progress(j)
    PROVE  IInv'
<1> USE DEF Jobs, Live, LiveStages, ctlVars, workVars, envVars
<1>0. /\ Types /\ StoredRecordsValid /\ LockHeld /\ ControlRecord /\ WorkerRecord /\ PendingHasId
      /\ WorkerOwnsActive /\ Quiet /\ DeadNotNamed
  BY DEF IInv, TypeOK
<1>1. Types'
  BY <1>0, RefreshedRecord DEF Progress, WorkerAt, Types
<1>2. StoredRecordsValid'
  BY <1>0 DEF Progress, StoredRecordsValid
<1>3. LockHeld'
  BY <1>0 DEF Progress, LockHeld
<1>4. ControlRecord'
  BY <1>0 DEF Progress, ControlRecord
<1>5. WorkerRecord'
  BY <1>0 DEF Progress, WorkerAt, WorkerRecord
<1>6. PendingHasId'
  BY <1>0 DEF Progress, PendingHasId
<1>7. WorkerOwnsActive'
  BY <1>0 DEF Progress, WorkerAt, WorkerOwnsActive, Authorized
<1>8. Quiet'
  BY <1>0 DEF Progress, WorkerAt, Quiet, Names
<1>9. DeadNotNamed'
  BY <1>0 DEF Progress, WorkerAt, DeadNotNamed, Names
<1> QED BY <1>1, <1>2, <1>3, <1>4, <1>5, <1>6, <1>7, <1>8, <1>9 DEF IInv, TypeOK

\* The end of a scan keeps the invariant.
LEMMA FinishStep ==
    ASSUME IInv, NEW j \in Jobs, Finish(j)
    PROVE  IInv'
<1> USE DEF Jobs, Live, LiveStages, ctlVars, workVars, envVars
<1>0. /\ Types /\ StoredRecordsValid /\ LockHeld /\ ControlRecord /\ WorkerRecord /\ PendingHasId
      /\ WorkerOwnsActive /\ Quiet /\ DeadNotNamed
  BY DEF IInv, TypeOK
<1>1. Types'
  BY <1>0, OutcomeRecord DEF Finish, WorkerAt, Types
<1>2. StoredRecordsValid'
  BY <1>0 DEF Finish, StoredRecordsValid
<1>3. LockHeld'
  BY <1>0 DEF Finish, LockHeld
<1>4. ControlRecord'
  BY <1>0 DEF Finish, ControlRecord
<1>5. WorkerRecord'
  <2>1. PICK s \in Terminal : WorkerAt(j, "writeJob", Outcome(j, s))
    BY DEF Finish
  <2>2. /\ wrec' = [wrec EXCEPT ![j] = Outcome(j, s)]
        /\ wpc' = [wpc EXCEPT ![j] = "writeJob"] /\ wpid' = wpid
    BY <2>1 DEF WorkerAt
  <2>3. /\ Outcome(j, s).id = j /\ Outcome(j, s).pid = wpid[j]
        /\ Outcome(j, s).err \in {"none", "scan_failed"}
    BY <1>0, OutcomeRecord DEF Finish, Types, WorkerRecord
  <2> QED BY <1>0, <2>2, <2>3 DEF WorkerRecord, Types
<1>6. PendingHasId'
  BY <1>0 DEF Finish, PendingHasId
<1>7. WorkerOwnsActive'
  BY <1>0 DEF Finish, WorkerAt, WorkerOwnsActive, Authorized
<1>8. Quiet'
  BY <1>0 DEF Finish, WorkerAt, Quiet, Names
<1>9. DeadNotNamed'
  BY <1>0 DEF Finish, WorkerAt, DeadNotNamed, Names
<1> QED BY <1>1, <1>2, <1>3, <1>4, <1>5, <1>6, <1>7, <1>8, <1>9 DEF IInv, TypeOK

\* The worker's write of <job>.json keeps the invariant.
LEMMA WorkerWriteJobStep ==
    ASSUME IInv, NEW j \in Jobs, WorkerWriteJob(j)
    PROVE  IInv'
<1> USE DEF Jobs, Live, LiveStages, ctlVars, workVars, envVars
<1>0. /\ Types /\ StoredRecordsValid /\ LockHeld /\ ControlRecord /\ WorkerRecord /\ PendingHasId
      /\ WorkerOwnsActive /\ Quiet /\ DeadNotNamed
  BY DEF IInv, TypeOK
<1>1. Types'
  <2>1. CASE ValidRecord(wrec[j])
    BY <1>0, <2>1 DEF WorkerWriteJob, WorkerAt, Types
  <2>2. CASE ~ValidRecord(wrec[j])
    BY <1>0, <2>2, SaveFailedStep DEF WorkerWriteJob, Types
  <2> QED BY <2>1, <2>2
<1>2. StoredRecordsValid'
  <2>1. wrec[j].id = j
    BY <1>0 DEF WorkerWriteJob, WorkerRecord
  <2>2. CASE ValidRecord(wrec[j])
    BY ZenonT(60), <1>0, <2>1 DEF WorkerWriteJob, StoredRecordsValid, Types
  <2>3. CASE ~ValidRecord(wrec[j])
    BY <1>0, <2>3 DEF WorkerWriteJob, StoredRecordsValid
  <2> QED BY <2>2, <2>3
<1>3. LockHeld'
  BY <1>0 DEF WorkerWriteJob, LockHeld
<1>4. ControlRecord'
  BY <1>0 DEF WorkerWriteJob, ControlRecord, Quiet, WorkerOwnsActive, Authorized, Names
<1>5. WorkerRecord'
  <2>1. CASE ValidRecord(wrec[j])
    BY <1>0, <2>1 DEF WorkerWriteJob, WorkerAt, WorkerRecord, Types
  <2>2. CASE ~ValidRecord(wrec[j])
    BY <1>0, <2>2, SaveFailedStep DEF WorkerWriteJob
  <2> QED BY <2>1, <2>2
<1>6. PendingHasId'
  BY <1>0 DEF WorkerWriteJob, PendingHasId
<1>7. WorkerOwnsActive'
  BY <1>0, ScanJobAssumption
     DEF WorkerWriteJob, WorkerAt, WorkerExits, SaveFailed, WorkerOwnsActive, Authorized, Types
<1>8. Quiet'
  BY <1>0, ScanJobAssumption
     DEF WorkerWriteJob, WorkerAt, WorkerExits, SaveFailed, Quiet, Names, Types
<1>9. DeadNotNamed'
  BY <1>0, ScanJobAssumption
     DEF WorkerWriteJob, DeadNotNamed, Names, Types, WorkerRecord, WorkerOwnsActive, Authorized
<1> QED BY <1>1, <1>2, <1>3, <1>4, <1>5, <1>6, <1>7, <1>8, <1>9 DEF IInv, TypeOK

\* The worker's write of active.json keeps the invariant: the file named it already.
LEMMA WorkerWriteActiveStep ==
    ASSUME IInv, NEW j \in Jobs, WorkerWriteActive(j)
    PROVE  IInv'
<1> USE DEF Jobs, Live, LiveStages, ctlVars, workVars, envVars
<1>0. /\ Types /\ StoredRecordsValid /\ LockHeld /\ ControlRecord /\ WorkerRecord /\ PendingHasId
      /\ WorkerOwnsActive /\ Quiet /\ DeadNotNamed
  BY DEF IInv, TypeOK
<1>1. Types'
  BY <1>0, NoRecordType DEF WorkerWriteActive, WorkerAt, WorkerExits, Types
<1>2. StoredRecordsValid'
  BY <1>0 DEF WorkerWriteActive, StoredRecordsValid, WorkerRecord
<1>3. LockHeld'
  BY <1>0 DEF WorkerWriteActive, LockHeld
<1>4. ControlRecord'
  BY <1>0 DEF WorkerWriteActive, ControlRecord, WorkerOwnsActive, Authorized, WorkerRecord
<1>5. WorkerRecord'
  <2>1. wrec[j].state = "running" => wrec[j].err = "none"
    BY <1>0 DEF WorkerWriteActive, WorkerRecord, ValidRecord
  <2>2. CASE wrec[j].state = "running"
    BY <1>0, <2>1, <2>2 DEF WorkerWriteActive, WorkerAt, WorkerRecord, Types
  <2>3. CASE wrec[j].state # "running"
    BY <1>0, <2>3 DEF WorkerWriteActive, WorkerAt, WorkerExits, WorkerRecord, Types
  <2> QED BY <2>2, <2>3
<1>6. PendingHasId'
  BY <1>0 DEF WorkerWriteActive, PendingHasId, WorkerRecord
<1>7. WorkerOwnsActive'
  BY SMTT(60), <1>0, ScanJobAssumption
     DEF WorkerWriteActive, WorkerAt, WorkerExits, WorkerOwnsActive, Authorized, Types,
         WorkerRecord
<1>8. Quiet'
  BY <1>0 DEF WorkerWriteActive, Quiet, Names, WorkerOwnsActive, Authorized
<1>9. DeadNotNamed'
  BY <1>0 DEF WorkerWriteActive, DeadNotNamed, Names, WorkerRecord, WorkerOwnsActive, Authorized
<1> QED BY <1>1, <1>2, <1>3, <1>4, <1>5, <1>6, <1>7, <1>8, <1>9 DEF IInv, TypeOK

\* A failed save of the worker keeps the invariant.
LEMMA WorkerWriteFailsStep ==
    ASSUME IInv, NEW j \in Jobs, WorkerWriteFails(j)
    PROVE  IInv'
<1> USE DEF Jobs, Live, LiveStages, ctlVars, workVars, envVars
<1>0. /\ Types /\ StoredRecordsValid /\ LockHeld /\ ControlRecord /\ WorkerRecord /\ PendingHasId
      /\ WorkerOwnsActive /\ Quiet /\ DeadNotNamed
  BY DEF IInv, TypeOK
<1>1. Types'
  BY <1>0, SaveFailedStep, ScanJobAssumption DEF WorkerWriteFails, Types, Fault
<1>2. StoredRecordsValid'
  BY <1>0 DEF WorkerWriteFails, StoredRecordsValid
<1>3. LockHeld'
  BY <1>0 DEF WorkerWriteFails, LockHeld
<1>4. ControlRecord'
  BY <1>0 DEF WorkerWriteFails, ControlRecord
<1>5. WorkerRecord'
  BY <1>0, SaveFailedStep DEF WorkerWriteFails
<1>6. PendingHasId'
  BY <1>0 DEF WorkerWriteFails, PendingHasId
<1>7. WorkerOwnsActive'
  BY <1>0, ScanJobAssumption
     DEF WorkerWriteFails, WorkerAt, WorkerExits, SaveFailed, WorkerOwnsActive, Authorized,
         Types
<1>8. Quiet'
  BY ZenonT(60), <1>0 DEF WorkerWriteFails, WorkerAt, WorkerExits, SaveFailed, Quiet, Names, Types
<1>9. DeadNotNamed'
  BY <1>0, ScanJobAssumption
     DEF WorkerWriteFails, WorkerAt, WorkerExits, SaveFailed, DeadNotNamed, Names, Types
<1> QED BY <1>1, <1>2, <1>3, <1>4, <1>5, <1>6, <1>7, <1>8, <1>9 DEF IInv, TypeOK

\* The end of a worker keeps the invariant.
LEMMA WorkerCrashStep ==
    ASSUME IInv, NEW j \in Jobs, WorkerCrash(j)
    PROVE  IInv'
<1> USE DEF Jobs, Live, LiveStages, ctlVars, workVars, envVars
<1>0. /\ Types /\ StoredRecordsValid /\ LockHeld /\ ControlRecord /\ WorkerRecord /\ PendingHasId
      /\ WorkerOwnsActive /\ Quiet /\ DeadNotNamed
  BY DEF IInv, TypeOK
<1>1. Types'
  BY <1>0, NoRecordType, ScanJobAssumption DEF WorkerCrash, WorkerAt, WorkerExits, Types, Fault
<1>2. StoredRecordsValid'
  BY <1>0 DEF WorkerCrash, StoredRecordsValid
<1>3. LockHeld'
  BY <1>0 DEF WorkerCrash, LockHeld
<1>4. ControlRecord'
  BY <1>0 DEF WorkerCrash, ControlRecord
<1>5. WorkerRecord'
  BY <1>0 DEF WorkerCrash, WorkerAt, WorkerExits, WorkerRecord, Types
<1>6. PendingHasId'
  BY <1>0 DEF WorkerCrash, PendingHasId
<1>7. WorkerOwnsActive'
  BY <1>0 DEF WorkerCrash, WorkerAt, WorkerExits, WorkerOwnsActive, Authorized
<1>8. Quiet'
  BY <1>0 DEF WorkerCrash, WorkerAt, WorkerExits, Quiet, Names
<1>9. DeadNotNamed'
  BY <1>0 DEF WorkerCrash, WorkerAt, WorkerExits, DeadNotNamed, Names
<1> QED BY <1>1, <1>2, <1>3, <1>4, <1>5, <1>6, <1>7, <1>8, <1>9 DEF IInv, TypeOK

\* Time keeps the invariant, whichever way it moves.
LEMMA ClockStep ==
    ASSUME IInv, Tick \/ ClockStepsBack
    PROVE  IInv'
<1> USE DEF Jobs, Live, LiveStages, ctlVars, workVars
<1>0. /\ Types /\ StoredRecordsValid /\ LockHeld /\ ControlRecord /\ WorkerRecord
      /\ PendingHasId /\ WorkerOwnsActive /\ Quiet /\ DeadNotNamed
  BY DEF IInv, TypeOK
<1>1. /\ now' \in Times /\ faults' \in 0..MaxFaults
      /\ UNCHANGED <<jobs, active, ctlVars, workVars, foreign>>
  BY <1>0, ScanJobAssumption DEF Tick, ClockStepsBack, Types, Times, Fault
<1>2. Types'
  BY <1>0, <1>1 DEF Types
<1>3. StoredRecordsValid' /\ LockHeld' /\ ControlRecord' /\ WorkerRecord' /\ PendingHasId'
  BY <1>0, <1>1 DEF StoredRecordsValid, LockHeld, ControlRecord, WorkerRecord, PendingHasId
<1>4. WorkerOwnsActive' /\ Quiet' /\ DeadNotNamed'
  BY <1>0, <1>1 DEF WorkerOwnsActive, Authorized, Quiet, DeadNotNamed, Names
<1> QED BY <1>2, <1>3, <1>4 DEF IInv, TypeOK

\* Foreign processes keep the invariant: a PID in use is never a live worker's.
LEMMA StrangerStep ==
    ASSUME IInv, NEW p \in Pids, PidReused(p) \/ ForeignExits(p)
    PROVE  IInv'
<1> USE DEF Jobs, Live, LiveStages, ctlVars, workVars
<1>0. /\ Types /\ StoredRecordsValid /\ LockHeld /\ ControlRecord /\ WorkerRecord
      /\ PendingHasId /\ WorkerOwnsActive /\ Quiet /\ DeadNotNamed
  BY DEF IInv, TypeOK
<1>1. /\ foreign' \subseteq Pids
      /\ UNCHANGED <<jobs, active, ctlVars, workVars, now, faults>>
  BY <1>0 DEF PidReused, ForeignExits, Types
<1>2. Types'
  BY <1>0, <1>1 DEF Types
<1>3. StoredRecordsValid' /\ LockHeld' /\ ControlRecord' /\ WorkerRecord' /\ PendingHasId'
  BY <1>0, <1>1 DEF StoredRecordsValid, LockHeld, ControlRecord, WorkerRecord, PendingHasId
<1>4. WorkerOwnsActive' /\ Quiet' /\ DeadNotNamed'
  BY <1>0, <1>1 DEF WorkerOwnsActive, Authorized, Quiet, DeadNotNamed, Names
<1> QED BY <1>2, <1>3, <1>4 DEF IInv, TypeOK

------------------------------------------------------------------------------
(* The invariant, and the theorems that follow from it. *)

\* The invariant holds of an empty store.
LEMMA InitIInv == Init => IInv
<1> SUFFICES ASSUME Init PROVE IInv
  OBVIOUS
<1> USE DEF Init
<1>1. Types
  BY NoRecordType, ScanJobAssumption DEF Types, LiveStages, Times
<1>2. StoredRecordsValid
  BY DEF StoredRecordsValid
<1>3. LockHeld /\ ControlRecord /\ Quiet
  BY DEF LockHeld, ControlRecord, Quiet
<1>4. WorkerRecord /\ WorkerOwnsActive
  BY DEF WorkerRecord, WorkerOwnsActive, Authorized
<1>5. PendingHasId /\ DeadNotNamed
  BY DEF PendingHasId, DeadNotNamed, Names, NoRecord, Pending
<1> QED BY <1>1, <1>2, <1>3, <1>4, <1>5 DEF IInv, TypeOK

\* A stuttering step keeps the invariant.
LEMMA StutterIInv == IInv /\ UNCHANGED vars => IInv'
<1> SUFFICES ASSUME IInv, UNCHANGED vars PROVE IInv'
  OBVIOUS
<1> USE DEF vars, ctlVars, workVars, envVars, Jobs, Live, LiveStages
<1>0. /\ Types /\ StoredRecordsValid /\ LockHeld /\ ControlRecord /\ WorkerRecord
      /\ PendingHasId /\ WorkerOwnsActive /\ Quiet /\ DeadNotNamed
  BY DEF IInv, TypeOK
<1>1. Types'
  BY <1>0 DEF Types
<1>2. StoredRecordsValid' /\ LockHeld' /\ ControlRecord' /\ WorkerRecord' /\ PendingHasId'
  BY <1>0 DEF StoredRecordsValid, LockHeld, ControlRecord, WorkerRecord, PendingHasId
<1>3. WorkerOwnsActive' /\ Quiet' /\ DeadNotNamed'
  BY <1>0 DEF WorkerOwnsActive, Authorized, Quiet, DeadNotNamed, Names
<1> QED BY <1>1, <1>2, <1>3 DEF IInv, TypeOK

\* A step of the specification keeps the invariant.
LEMMA NextIInv == IInv /\ [Next]_vars => IInv'
<1> SUFFICES ASSUME IInv, [Next]_vars PROVE IInv'
  OBVIOUS
<1>1. CASE \E c \in Controllers :
         \/ \E command \in {"start", "status"} : Acquire(c, command)
         \/ LoadActive(c) \/ CheckLiveness(c) \/ Create(c)
         \/ ControlWriteJob(c) \/ ControlWriteActive(c)
         \/ Spawn(c) \/ SpawnFails(c) \/ ControllerStops(c)
  BY <1>1, AcquireStep, LoadActiveStep, CheckLivenessStep, CreateStep, ControlWriteJobStep,
     ControlWriteActiveStep, SpawnStep, SpawnFailsStep, ControllerStopsStep
<1>2. CASE \E j \in Jobs :
         \/ ReadJob(j) \/ LaunchTimeout(j) \/ ReadActive(j)
         \/ Progress(j) \/ Finish(j) \/ WorkerWriteJob(j) \/ WorkerWriteActive(j)
         \/ WorkerWriteFails(j) \/ WorkerCrash(j)
  BY <1>2, ReadJobStep, LaunchTimeoutStep, ReadActiveStep, ProgressStep, FinishStep,
     WorkerWriteJobStep, WorkerWriteActiveStep, WorkerWriteFailsStep, WorkerCrashStep
<1>3. CASE Tick \/ ClockStepsBack
  BY <1>3, ClockStep
<1>4. CASE \E p \in Pids : PidReused(p) \/ ForeignExits(p)
  BY <1>4, StrangerStep
<1>5. CASE UNCHANGED vars
  BY <1>5, StutterIInv
<1> QED BY <1>1, <1>2, <1>3, <1>4, <1>5 DEF Next

\* The inductive invariant holds in every reachable state.
THEOREM Invariance == Spec => []IInv
<1> QED BY InitIInv, NextIInv, PTL DEF Spec

\* Start, Status and the worker keep every variable typed, and write only records
\* validateJobRecord accepts, under crashes, clock steps and failed saves.
THEOREM TypeCorrect == Spec => []TypeOK
<1>1. IInv => TypeOK
  BY DEF IInv
<1> QED BY <1>1, Invariance, PTL

\* The authorised worker is the one active.json names, for any number of
\* controllers, jobs and recycled PIDs.
THEOREM WorkerOwnsActiveAlways == Spec => []WorkerOwnsActive
<1>1. IInv => WorkerOwnsActive
  BY DEF IInv
<1> QED BY <1>1, Invariance, PTL

\* No project ever runs two authorised workers.
THEOREM OneWorker == Spec => []AtMostOneWorker
<1>1. WorkerOwnsActive => AtMostOneWorker
  BY DEF WorkerOwnsActive, AtMostOneWorker
<1> QED BY <1>1, WorkerOwnsActiveAlways, PTL

\* A worker declared crashed, or never spawned, is not scanning.
THEOREM DeadAreDead == Spec => []DeclaredDeadIsDead
<1>1. IInv => DeclaredDeadIsDead
  <2> SUFFICES ASSUME IInv, NEW j \in Jobs, Authorized(j),
                      jobs[j].err \in {"worker_crashed", "worker_spawn_failed"}
               PROVE  FALSE
    BY DEF DeclaredDeadIsDead
  <2>1. Names(active, j)
    BY DEF IInv, WorkerOwnsActive, Authorized, Names, Live, LiveStages
  <2>2. ~Names(active, j)
    BY DEF IInv, DeadNotNamed
  <2> QED BY <2>1, <2>2
<1> QED BY <1>1, Invariance, PTL
==============================================================================
