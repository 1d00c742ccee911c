------------------------------ MODULE ReviewJob ------------------------------
(***************************************************************************)
(* The agent review job of one project (internal/reviewjob, started and    *)
(* polled by internal/cli/review.go).                                      *)
(*                                                                         *)
(* A command freezes the sessions with unreviewed lines, creates a job and *)
(* launches a detached worker with a one-use launch token.  The worker     *)
(* takes the project and the global lease, becomes the owner, and for each *)
(* frozen session prepares packets, lets the agent write a proposal,       *)
(* applies it to the project ledger and syncs the vault.  Cancel, retry    *)
(* and the recovery of a dead worker's job come from other commands.       *)
(* Every write of a job record compares a revision, so a worker whose      *)
(* record was changed by another command is `behind` and its writes fail   *)
(* until it adopts the change, which only a cancellation request permits.  *)
(*                                                                         *)
(* A session is a sequence of lines and every packet reviews one line.     *)
(* The receipt, the ledger and the cursor are those of internal/apply.     *)
(***************************************************************************)
EXTENDS Naturals, Sequences, FiniteSets

CONSTANTS
    Jobs,           \* job identifiers
    Workers,        \* worker processes that may exist at a time
    Sessions,       \* the project's sessions are 1..Sessions, oldest first
    MaxLine,        \* bound: lines of a session
    MaxAttempts,    \* bound: attempts of a job
    NoJob, NoReceipt

ActiveStates == {"queued", "retrying", "running", "cancel_requested"}
States == ActiveStates \cup {"failed", "completed", "cancelled"}
Phases == {"", "preflight", "preparing", "reviewing", "applying", "syncing"}
PayloadStates ==
    {"", "publishing", "retained", "apply_recovery", "cleanup_pending", "cleanup_complete"}
\* "agent" stands for an unconfigured or incompatible Agent.
Errors == {"", "apply_recovery", "agent", "other"}

Frozen == [session : 1..Sessions, upper : 1..MaxLine]
Payloads == {"packet", "proposal"}

\* from is the cursor the published packet starts at, result the attempt that
\* wrote the published proposal (0: none), pubs the number of publications.
Job == [state : States, phase : Phases, attempt : 1..MaxAttempts,
        token : BOOLEAN, owner : BOOLEAN, cancel : BOOLEAN,
        frozen : UNION {[1..n -> Frozen] : n \in 0..Sessions},
        index : 0..Sessions, cur : 0..MaxLine, packets : 0..(Sessions * MaxLine),
        pending : BOOLEAN, payload : PayloadStates, pubs : 0..2,
        result : 0..MaxAttempts, from : 0..MaxLine, error : Errors]

ASSUME ReviewJobAssumption ==
    /\ Sessions \in Nat /\ MaxLine \in Nat
    /\ MaxAttempts \in Nat /\ MaxAttempts > 0
    /\ NoJob \notin Jobs /\ NoJob \notin Job

VARIABLES
    jobs,       \* jobs[j] : the stored record of job j, or NoJob
    worker,     \* worker[w] : process w with its launching command
    files,      \* files[j] : the private payload files of job j
    receipt,    \* the outstanding apply receipt of the project
    ledger,     \* ledger[s] : who accepted each line; its length is the cursor
    vault       \* vault[s] : lines of the ledger the vault shows

outer == <<receipt, ledger, vault>>
vars == <<jobs, worker, files, receipt, ledger, vault>>

\* pc is the place in Run; parent says that the launching command still waits
\* for the handshake; work that the private directories are open; rec that
\* recoverRetryState runs; acc that it found accepted progress.
Idle == [pc |-> "idle", job |-> NoJob, attempt |-> 0, parent |-> FALSE, behind |-> FALSE,
         work |-> FALSE, rec |-> FALSE, acc |-> FALSE, code |-> ""]

\* Before the leases, and after them.
Outside == {"idle", "launch", "spawned", "dead"}
Owned == {"route", "loop", "recover", "prepare", "packet", "keepPacket", "agent",
          "proposal", "keepProposal", "beginApply", "apply", "commit", "accept", "sync",
          "syncing", "clear", "mark", "remove", "settle", "advance", "cancel", "cancelRemove",
          "cancelSettle", "cancelled", "complete", "fail"}
Stages == Outside \cup Owned \cup {"start", "handshake", "failRemove", "failSettle"}

LeaseFree == \A w \in Workers : worker[w].pc \in Outside

\* Whether job j has a record in an active state.
Active(j) == jobs[j] # NoJob /\ jobs[j].state \in ActiveStates

Init ==
    /\ jobs = [j \in Jobs |-> NoJob]
    /\ worker = [w \in Workers |-> Idle]
    /\ files = [j \in Jobs |-> {}]
    /\ receipt = NoReceipt
    /\ ledger = [s \in 1..Sessions |-> <<>>]
    /\ vault = [s \in 1..Sessions |-> 0]

------------------------------------------------------------------------------
(* The commands `review start`, `cancel`, `retry` and the recovery. *)

\* Another command writes the record of j: a worker that holds it is now behind.
Overtaken(j) ==
    [v \in Workers |-> [worker[v] EXCEPT !.behind =
        @ \/ (worker[v].job = j /\ worker[v].pc \notin Outside)]]

\* FreezePending lists, oldest first, each session whose cursor is below its last
\* line.  `review start` stores the list later, when sessions may have grown and
\* another job may have run: any list of sessions and boundaries can be stale.
FrozenLists ==
    {f \in UNION {[1..n -> Frozen] : n \in 0..Sessions} :
        \A i, k \in DOMAIN f : i < k => f[i].session < f[k].session}

NewJob(frozen) ==
    [state |-> "queued", phase |-> "preflight", attempt |-> 1, token |-> TRUE,
     owner |-> FALSE, cancel |-> FALSE, frozen |-> frozen, index |-> 0, cur |-> 0,
     packets |-> 0, pending |-> FALSE, payload |-> "", pubs |-> 0, result |-> 0,
     from |-> 0, error |-> ""]

Launching(j, attempt) ==
    [Idle EXCEPT !.pc = "launch", !.job = j, !.attempt = attempt, !.parent = TRUE]

\* Create refuses while the project has an active job.
CreateJob(j, w) ==
    /\ jobs[j] = NoJob /\ worker[w].pc = "idle"
    /\ ~\E k \in Jobs : Active(k)
    /\ \E f \in FrozenLists : jobs' = [jobs EXCEPT ![j] = NewJob(f)]
    /\ worker' = [worker EXCEPT ![w] = Launching(j, 1)]
    /\ UNCHANGED <<files, outer>>

Retried(r) ==
    [r EXCEPT !.state = IF r.cancel THEN "cancel_requested" ELSE "retrying",
              !.phase = "preflight", !.attempt = @ + 1, !.token = TRUE,
              !.owner = FALSE, !.error = ""]

Retry(j, w) ==
    /\ jobs[j] # NoJob /\ jobs[j].state = "failed" /\ jobs[j].attempt < MaxAttempts
    /\ worker[w].pc = "idle"
    /\ jobs' = [jobs EXCEPT ![j] = Retried(@)]
    /\ worker' = [Overtaken(j) EXCEPT ![w] = Launching(j, jobs[j].attempt + 1)]
    /\ UNCHANGED <<files, outer>>

\* A job that no worker has touched is cancelled at once.
Cancellation(r) ==
    IF r.state = "queued" /\ ~r.pending /\ r.payload = ""
      THEN [r EXCEPT !.state = "cancelled", !.cancel = TRUE, !.phase = "",
                     !.owner = FALSE, !.token = FALSE, !.error = "other"]
      ELSE [r EXCEPT !.state = "cancel_requested", !.cancel = TRUE]

Cancel(j) ==
    /\ Active(j) /\ jobs[j].state # "cancel_requested"
    /\ jobs' = [jobs EXCEPT ![j] = Cancellation(@)]
    /\ worker' = Overtaken(j)
    /\ UNCHANGED <<files, outer>>

\* hasExactRetainedApplyPayloads and hasExactApplyRecoveryPayloads.
ExactRetained(r) == r.payload = "retained" /\ r.pubs = 2
ExactRecovery(r) == r.payload = "apply_recovery" /\ r.pubs = 2

\* RecoverInterruptedAt: only an apply that was entered keeps its payload.
Interrupted(r) ==
    [r EXCEPT !.state = "failed", !.phase = "", !.owner = FALSE, !.token = FALSE,
              !.error = "apply_recovery",
              !.payload = IF r.phase = "applying" /\ ExactRetained(r)
                            THEN "apply_recovery"
                          ELSE IF r.payload \in {"publishing", "retained"} \/ r.pubs > 0
                            THEN "cleanup_pending" ELSE @]

\* Mutant: the recovery does not look at the project lease.
Recover_NoLease(j) ==
    /\ Active(j)
    /\ jobs' = [jobs EXCEPT ![j] = Interrupted(@)]
    /\ UNCHANGED <<worker, files, outer>>

\* Mutant: an unused launch token protects its job for ever.
Recover_NoGrace(j) ==
    /\ Active(j) /\ LeaseFree /\ ~jobs[j].token
    /\ jobs' = [jobs EXCEPT ![j] = Interrupted(@)]
    /\ UNCHANGED <<worker, files, outer>>

\* The grace of a launch token may have run out at any time.
Recover(j) ==
    /\ Active(j) /\ LeaseFree
    /\ jobs' = [jobs EXCEPT ![j] = Interrupted(@)]
    /\ UNCHANGED <<worker, files, outer>>

------------------------------------------------------------------------------
(* The launching command and its worker up to the handshake. *)

R(w) == jobs[worker[w].job]
Requested(w) == R(w).state = "cancel_requested"

\* The process returns; a command that waits for its handshake notices.
Gone(w, code) ==
    IF worker[w].parent
      THEN [Idle EXCEPT !.pc = "dead", !.job = worker[w].job, !.parent = TRUE,
                        !.attempt = worker[w].attempt, !.code = code]
      ELSE Idle

Exit(w, code) == worker' = [worker EXCEPT ![w] = Gone(w, code)]

Go(w, pc) == worker' = [worker EXCEPT ![w].pc = pc]

\* The worker adopts a cancellation of its record, if there is one.
Adopt(w, pc) == worker' = [worker EXCEPT ![w].pc = pc, ![w].behind = FALSE]

\* fail(code) is on its way; work says that the private directories are open.
Failing(w, code) ==
    worker' = [worker EXCEPT ![w].pc = "fail", ![w].code = code]

Spawn(w) ==
    /\ worker[w].pc = "launch"
    /\ \/ Go(w, "spawned") \/ Exit(w, "apply_recovery")
    /\ UNCHANGED <<jobs, files, outer>>

\* Mutant: the worker does not wait for the leases.
Acquire_NoLease(w) ==
    /\ worker[w].pc = "spawned"
    /\ R(w).token /\ R(w).attempt = worker[w].attempt
    /\ R(w).state \in ActiveStates /\ R(w).phase = "preflight" /\ ~R(w).owner
    /\ Go(w, "start")
    /\ UNCHANGED <<jobs, files, outer>>

\* The token is the one of this attempt and both leases are free.
Acquire(w) ==
    /\ worker[w].pc = "spawned" /\ LeaseFree
    /\ R(w).token /\ R(w).attempt = worker[w].attempt
    /\ R(w).state \in ActiveStates /\ R(w).phase = "preflight" /\ ~R(w).owner
    /\ R(w).state = "cancel_requested" => R(w).attempt > 1
    /\ Go(w, "start")
    /\ UNCHANGED <<jobs, files, outer>>

\* A busy lease is reported to the parent as such.
AcquireFails(w) ==
    /\ worker[w].pc = "spawned"
    /\ Exit(w, IF LeaseFree THEN "apply_recovery" ELSE "other")
    /\ UNCHANGED <<jobs, files, outer>>

Start(w) ==
    /\ worker[w].pc = "start"
    /\ IF worker[w].behind
         THEN UNCHANGED jobs /\ Exit(w, "apply_recovery")
         ELSE /\ jobs' = [jobs EXCEPT ![worker[w].job] =
                   [@ EXCEPT !.state = IF Requested(w) THEN "cancel_requested" ELSE "running",
                             !.token = FALSE, !.owner = TRUE, !.error = ""]]
              /\ Go(w, "handshake")
    /\ UNCHANGED <<files, outer>>

\* Without a reader the handshake fails and so does the job.
Handshake(w) ==
    /\ worker[w].pc = "handshake"
    /\ IF worker[w].parent
         THEN worker' = [worker EXCEPT ![w].pc = "route", ![w].parent = FALSE]
         ELSE Failing(w, "apply_recovery")
    /\ UNCHANGED <<jobs, files, outer>>

\* Killed, by the parent after ten seconds or by anything else.
Die(w) ==
    /\ worker[w].pc \notin {"idle", "launch", "dead"}
    /\ Exit(w, "apply_recovery")
    /\ UNCHANGED <<jobs, files, outer>>

ParentDies(w) ==
    /\ worker[w].parent
    /\ worker' = [worker EXCEPT ![w] = IF @.pc \in {"launch", "dead"} THEN Idle
                                       ELSE [@ EXCEPT !.parent = FALSE]]
    /\ UNCHANGED <<jobs, files, outer>>

\* validApplyRecoveryErrorState refuses a busy Agent on a retained payload.
Terminalize(w) ==
    /\ worker[w].pc = "dead"
    /\ LET r == R(w)  code == worker[w].code IN
       IF /\ Active(worker[w].job) /\ ~r.owner /\ r.token
          /\ r.attempt = worker[w].attempt
          /\ r.payload = "apply_recovery" => code = "apply_recovery"
         THEN /\ jobs' = [jobs EXCEPT ![worker[w].job] =
                   [@ EXCEPT !.state = "failed", !.phase = "", !.token = FALSE,
                             !.error = code]]
              /\ worker' = [Overtaken(worker[w].job) EXCEPT ![w] = Idle]
         ELSE worker' = [worker EXCEPT ![w] = Idle] /\ UNCHANGED jobs
    /\ UNCHANGED <<files, outer>>

------------------------------------------------------------------------------
(* The worker: routing, recovery of the previous attempt, and cancellation. *)

At(w, pc) == worker[w].pc = pc

\* The worker writes its record at the revision it knows and goes on at pc.
Write(w, record, pc) ==
    /\ ~worker[w].behind
    /\ jobs' = [jobs EXCEPT ![worker[w].job] = record]
    /\ Go(w, pc)

\* It first adopts a concurrent cancellation, as the steps of a commit do.
WriteAnyway(w, record, pc) ==
    /\ jobs' = [jobs EXCEPT ![worker[w].job] = record]
    /\ Adopt(w, pc)

\* Run after the handshake.  A cancelled retry without a commit to resolve
\* cleans up and ends; any other retry first recovers its last attempt.
Route(w) ==
    /\ At(w, "route")
    /\ LET r == R(w)
           unresolved == r.pending \/ r.payload = "apply_recovery"
           recovers == r.attempt > 1 /\ (r.payload # "" \/ r.pending) IN
       worker' = [worker EXCEPT
           ![w].pc = IF recovers THEN "recover"
                     ELSE IF r.attempt > 1 /\ Requested(w) /\ ~unresolved
                            /\ ~worker[w].behind THEN "cancel"
                     ELSE IF r.frozen = <<>> THEN "sync" ELSE "loop",
           ![w].work = recovers \/ r.frozen # <<>>,
           ![w].rec = recovers,
           ![w].acc = recovers /\ unresolved]
    /\ UNCHANGED <<jobs, files, outer>>

\* The Agent changed, or the work directory cannot be opened.
RouteFails(w) ==
    /\ At(w, "route")
    /\ \/ Failing(w, "apply_recovery")
       \/ Failing(w, "agent") /\ (Requested(w) => worker[w].behind)
    /\ UNCHANGED <<jobs, files, outer>>

\* recoverRetryState: a retained payload is applied again unless it was accepted.
RecoverState(w) ==
    /\ At(w, "recover")
    /\ LET r == R(w) IN
       \/ /\ r.payload = "apply_recovery" /\ ~r.pending
          /\ files[worker[w].job] = Payloads /\ r.cur \in {r.from, r.from + 1}
          /\ IF worker[w].behind
               THEN Failing(w, "apply_recovery") /\ UNCHANGED jobs
               ELSE Write(w, [r EXCEPT !.phase = "applying"], "apply")
       \/ /\ r.pending
          /\ r.payload = "apply_recovery" => files[worker[w].job] = Payloads
          /\ Go(w, "sync") /\ UNCHANGED jobs
       \/ /\ r.payload # "apply_recovery" /\ ~r.pending
          /\ Go(w, "mark") /\ UNCHANGED jobs
    /\ UNCHANGED <<files, outer>>

\* The roots changed, or the retained payload cannot be read.
RecoverStateFails(w) ==
    /\ At(w, "recover")
    /\ Failing(w, "apply_recovery")
    /\ UNCHANGED <<jobs, files, outer>>

PreCommit == {"loop", "prepare", "keepPacket", "agent", "keepProposal", "beginApply", "complete"}

\* Before a commit the worker finds the cancellation at its next check or write.
ObserveCancel(w) ==
    /\ worker[w].pc \in PreCommit /\ Requested(w)
    /\ Adopt(w, "cancel")
    /\ UNCHANGED <<jobs, files, outer>>

\* finishCancelled: an unresolved commit makes it a failure.
FinishCancelled(w) ==
    /\ At(w, "cancel")
    /\ LET r == R(w) IN
       IF r.pending \/ r.payload = "apply_recovery"
         THEN Failing(w, "apply_recovery") /\ UNCHANGED jobs
       ELSE IF worker[w].work /\ r.payload \notin {"", "cleanup_complete"}
         THEN Write(w, [r EXCEPT !.payload = "cleanup_pending"], "cancelRemove")
       ELSE Go(w, "cancelled") /\ UNCHANGED jobs
    /\ UNCHANGED <<files, outer>>

FinishCancelledFails(w) ==
    /\ At(w, "cancel") /\ worker[w].work
    /\ Failing(w, "apply_recovery")
    /\ UNCHANGED <<jobs, files, outer>>

\* cleanupPrivatePayloads removes what the record names, both files if it
\* names none; it may stop on an error.
Named(r) == IF r.pubs = 1 THEN {"packet"} ELSE Payloads

Removed(w, pc) ==
    /\ files' = [files EXCEPT ![worker[w].job] = @ \ Named(R(w))]
    /\ Go(w, pc)

RemoveStops(w) ==
    \E kept \in SUBSET files[worker[w].job] :
        files' = [files EXCEPT ![worker[w].job] = kept]

CancelRemove(w) ==
    /\ At(w, "cancelRemove")
    /\ \/ Removed(w, "cancelSettle")
       \/ RemoveStops(w) /\ Exit(w, "")
    /\ UNCHANGED <<jobs, outer>>

CancelSettle(w) ==
    /\ At(w, "cancelSettle")
    /\ Write(w, [R(w) EXCEPT !.payload = "cleanup_complete"], "cancelled")
    /\ UNCHANGED <<files, outer>>

Cancelled(w) ==
    /\ At(w, "cancelled")
    /\ jobs' = [jobs EXCEPT ![worker[w].job] =
         [@ EXCEPT !.state = "cancelled", !.phase = "", !.owner = FALSE, !.cancel = TRUE,
                   !.error = "other"]]
    /\ Exit(w, "")
    /\ UNCHANGED <<files, outer>>

\* fail: only an apply that was entered keeps its payload.
Retains(r, code, work) ==
    /\ code = "apply_recovery" /\ work /\ r.phase = "applying"
    /\ ExactRetained(r) \/ ExactRecovery(r)

Failed(r, code, work) ==
    [r EXCEPT !.state = "failed", !.phase = "", !.owner = FALSE, !.error = code,
              !.payload = IF Retains(r, code, work) THEN "apply_recovery"
                          ELSE IF work THEN "cleanup_pending" ELSE @]

\* Behind, fail cannot write; Run then ends an uncommitted packet as cancelled.
Fail(w) ==
    /\ At(w, "fail")
    /\ LET r == R(w)  code == worker[w].code  work == worker[w].work IN
       IF ~worker[w].behind
         THEN /\ jobs' = [jobs EXCEPT ![worker[w].job] = Failed(r, code, work)]
              /\ IF work /\ ~Retains(r, code, work) THEN Go(w, "failRemove") ELSE Exit(w, "")
         ELSE /\ UNCHANGED jobs
              /\ IF /\ work /\ ~worker[w].rec /\ Requested(w) /\ ~r.pending
                    /\ r.phase \notin {"applying", "syncing"}
                    /\ r.payload # "apply_recovery"
                   THEN Adopt(w, "cancel") ELSE Exit(w, "")
    /\ UNCHANGED <<files, outer>>

FailRemove(w) ==
    /\ At(w, "failRemove")
    /\ \/ Removed(w, "failSettle")
       \/ RemoveStops(w) /\ Exit(w, "")
    /\ UNCHANGED <<jobs, outer>>

FailSettle(w) ==
    /\ At(w, "failSettle")
    /\ IF worker[w].behind THEN UNCHANGED jobs
       ELSE jobs' = [jobs EXCEPT ![worker[w].job].payload = "cleanup_complete"]
    /\ Exit(w, "")
    /\ UNCHANGED <<files, outer>>

------------------------------------------------------------------------------
(* The worker: one packet, from Prepare to the next round of the loop. *)

Session(r) == r.frozen[r.index + 1].session
Upper(r) == r.frozen[r.index + 1].upper

\* The cursor of the session, which only an apply moves.
Cursor(r) == Len(ledger[Session(r)])

Loop(w) ==
    /\ At(w, "loop") /\ ~Requested(w)
    /\ LET done == R(w).index = Len(R(w).frozen) IN
       /\ jobs' = [jobs EXCEPT ![worker[w].job].phase = IF done THEN @ ELSE "preparing"]
       /\ worker' = [worker EXCEPT ![w].pc = IF done THEN "complete" ELSE "prepare",
                                   ![w].rec = FALSE, ![w].acc = FALSE]
    /\ UNCHANGED <<files, outer>>

\* prepare.Run starts at the durable cursor; validatePrepared wants that to be
\* the job's own progress.
Prepare(w) ==
    /\ At(w, "prepare") /\ ~Requested(w)
    /\ Cursor(R(w)) = R(w).cur /\ Cursor(R(w)) < Upper(R(w))
    /\ Write(w, [R(w) EXCEPT !.payload = "publishing", !.pubs = 1, !.result = 0,
                             !.from = Cursor(R(w))], "packet")
    /\ UNCHANGED <<files, outer>>

\* Prepare fails, its packet is refused, the Agent fails, or a payload does.
PacketFails(w) ==
    /\ worker[w].pc \in {"prepare", "packet", "agent", "proposal"}
    /\ \E code \in {"other", "apply_recovery"} : Failing(w, code)
    /\ UNCHANGED <<jobs, files, outer>>

WritePacket(w) ==
    /\ At(w, "packet")
    /\ files' = [files EXCEPT ![worker[w].job] = @ \cup {"packet"}]
    /\ Go(w, "keepPacket")
    /\ UNCHANGED <<jobs, outer>>

KeepPacket(w) ==
    /\ At(w, "keepPacket") /\ ~Requested(w)
    /\ Write(w, [R(w) EXCEPT !.payload = "retained", !.phase = "reviewing"], "agent")
    /\ UNCHANGED <<files, outer>>

\* The accounting of the answer and then the intent of the proposal are saved.
AgentAnswers(w) ==
    /\ At(w, "agent") /\ ~Requested(w)
    /\ Write(w, [R(w) EXCEPT !.payload = "publishing", !.pubs = 2,
                             !.result = R(w).attempt], "proposal")
    /\ UNCHANGED <<files, outer>>

\* An Agent that was cancelled by itself cancels the job.
AgentIsCancelled(w) ==
    /\ At(w, "agent") /\ ~Requested(w)
    /\ Write(w, [R(w) EXCEPT !.state = "cancel_requested", !.cancel = TRUE], "cancel")
    /\ UNCHANGED <<files, outer>>

WriteProposal(w) ==
    /\ At(w, "proposal")
    /\ files' = [files EXCEPT ![worker[w].job] = @ \cup {"proposal"}]
    /\ Go(w, "keepProposal")
    /\ UNCHANGED <<jobs, outer>>

KeepProposal(w) ==
    /\ At(w, "keepProposal") /\ ~Requested(w)
    /\ Write(w, [R(w) EXCEPT !.payload = "retained"], "beginApply")
    /\ UNCHANGED <<files, outer>>

BeginApply(w) ==
    /\ At(w, "beginApply") /\ ~Requested(w)
    /\ Write(w, [R(w) EXCEPT !.phase = "applying"], "apply")
    /\ UNCHANGED <<files, outer>>

\* apply.Run: any other outstanding receipt of the project is a conflict.
Proposal(w) ==
    [job |-> worker[w].job, attempt |-> R(w).result, session |-> Session(R(w)),
     from |-> R(w).from]

Accepted(p) ==
    /\ Len(ledger[p.session]) > p.from
    /\ ledger[p.session][p.from + 1] = [job |-> p.job, attempt |-> p.attempt]

ReceiptClear(p) == receipt \in {NoReceipt, p}

Apply(w) ==
    /\ At(w, "apply")
    /\ LET p == Proposal(w) IN
       /\ ReceiptClear(p)
       /\ \/ /\ Len(ledger[p.session]) = p.from
             /\ receipt' = p /\ Go(w, "commit")
          \/ Accepted(p) /\ Adopt(w, "accept") /\ UNCHANGED receipt
    /\ UNCHANGED <<jobs, files, ledger, vault>>

Commit(w) ==
    /\ At(w, "commit")
    /\ LET p == Proposal(w) IN
       ledger' = [ledger EXCEPT ![p.session] =
                    Append(@, [job |-> p.job, attempt |-> p.attempt])]
    /\ receipt' = NoReceipt
    /\ Adopt(w, "accept")
    /\ UNCHANGED <<jobs, files, vault>>

\* A conflict, a stale cursor, or an error before or after any of the steps.
ApplyFails(w) ==
    /\ worker[w].pc \in {"apply", "commit", "accept"}
    /\ worker' = [worker EXCEPT ![w].pc = "fail", ![w].code = "apply_recovery",
                                ![w].behind = FALSE]
    /\ UNCHANGED <<jobs, files, outer>>

\* Mutant: accepted progress is not marked as waiting for the sync.
Accept_NotPending(w) ==
    /\ At(w, "accept")
    /\ R(w).cur = R(w).from
    /\ WriteAnyway(w, [R(w) EXCEPT !.packets = @ + 1, !.cur = @ + 1], "sync")
    /\ UNCHANGED <<files, outer>>

\* persistAcceptedApply.
Accept(w) ==
    /\ At(w, "accept")
    /\ R(w).cur = R(w).from
    /\ WriteAnyway(w, [R(w) EXCEPT !.packets = @ + 1, !.cur = @ + 1, !.pending = TRUE],
                   "sync")
    /\ UNCHANGED <<files, outer>>

\* runSync: only a sync without accepted progress can still be cancelled.
Sync(w) ==
    /\ At(w, "sync")
    /\ IF Requested(w) /\ ~R(w).pending
         THEN Adopt(w, "cancel") /\ UNCHANGED jobs
         ELSE WriteAnyway(w, [R(w) EXCEPT !.phase = "syncing"], "syncing")
    /\ UNCHANGED <<files, outer>>

SyncEnds(w) ==
    /\ At(w, "syncing")
    /\ vault' = [s \in 1..Sessions |-> Len(ledger[s])]
    /\ Adopt(w, "clear")
    /\ UNCHANGED <<jobs, files, receipt, ledger>>

\* The roots changed, or the sync is partial or in conflict.
SyncFails(w) ==
    /\ worker[w].pc \in {"sync", "syncing"}
    /\ worker' = [worker EXCEPT ![w].pc = "fail", ![w].behind = FALSE,
         ![w].code = IF At(w, "sync") /\ ~R(w).pending THEN "apply_recovery"
                     ELSE "other"]
    /\ \/ UNCHANGED vault
       \/ At(w, "syncing") /\ vault' = [s \in 1..Sessions |-> Len(ledger[s])]
    /\ UNCHANGED <<jobs, files, receipt, ledger>>

\* clearAcceptedSyncPending.
Clear(w) ==
    /\ At(w, "clear")
    /\ WriteAnyway(w, [R(w) EXCEPT !.pending = FALSE],
                   IF R(w).frozen = <<>> THEN "complete" ELSE "mark")
    /\ UNCHANGED <<files, outer>>

AfterRecovery(w) == IF worker[w].acc THEN "advance" ELSE "loop"

CleanupCode(w) == IF worker[w].rec THEN "apply_recovery" ELSE "other"

\* The cleanup is durable before a file goes; a worker that is behind fails.
Mark(w) ==
    /\ At(w, "mark")
    /\ LET r == R(w) IN
       \/ /\ worker[w].rec /\ r.payload \in {"cleanup_complete", ""}
          /\ Go(w, AfterRecovery(w)) /\ UNCHANGED jobs
       \/ /\ worker[w].rec /\ r.payload = "cleanup_pending"
          /\ Go(w, "remove") /\ UNCHANGED jobs
       \/ /\ worker[w].rec => r.payload \notin {"cleanup_complete", "", "cleanup_pending"}
          /\ Write(w, [r EXCEPT !.payload = "cleanup_pending"], "remove")
    /\ UNCHANGED <<files, outer>>

Remove(w) ==
    /\ At(w, "remove")
    /\ \/ Removed(w, "settle")
       \/ RemoveStops(w) /\ Failing(w, CleanupCode(w))
    /\ UNCHANGED <<jobs, outer>>

\* Mutant: every packet ends its session.
Advanced_Always(r) == [r EXCEPT !.index = @ + 1, !.cur = 0]

\* The session is done when its last packet ended at the frozen boundary.
Advanced(r) ==
    IF r.cur = Upper(r) THEN [r EXCEPT !.index = @ + 1, !.cur = 0] ELSE r

Settle(w) ==
    /\ At(w, "settle")
    /\ LET r == [R(w) EXCEPT !.payload = "cleanup_complete"] IN
       IF worker[w].rec THEN Write(w, r, AfterRecovery(w)) ELSE Write(w, Advanced(r), "loop")
    /\ UNCHANGED <<files, outer>>

\* advanceRecoveredAcceptedPacket.
Advance(w) ==
    /\ At(w, "advance")
    /\ Write(w, Advanced(R(w)), "loop")
    /\ UNCHANGED <<files, outer>>

\* A write after the sync meets a new cancellation, or cannot be made.
StaleWrite(w) ==
    /\ \/ worker[w].pc \in {"mark", "settle"} /\ Failing(w, CleanupCode(w))
       \/ At(w, "advance") /\ worker[w].behind /\ Exit(w, "")
    /\ UNCHANGED <<jobs, files, outer>>

\* Mutant: the worker does not look for a cancellation at the end.
Complete_NoRefresh(w) ==
    /\ At(w, "complete") /\ R(w).index = Len(R(w).frozen)
    /\ jobs' = [jobs EXCEPT ![worker[w].job] =
         [@ EXCEPT !.state = "completed", !.phase = "", !.owner = FALSE]]
    /\ Exit(w, "")
    /\ UNCHANGED <<files, outer>>

Complete(w) ==
    /\ At(w, "complete") /\ ~Requested(w)
    /\ R(w).index = Len(R(w).frozen) /\ R(w).cur = 0
    /\ jobs' = [jobs EXCEPT ![worker[w].job] =
         [@ EXCEPT !.state = "completed", !.phase = "", !.owner = FALSE]]
    /\ Exit(w, "")
    /\ UNCHANGED <<files, outer>>

------------------------------------------------------------------------------
Work(w) ==
    \/ Spawn(w) \/ Acquire(w) \/ AcquireFails(w) \/ Start(w) \/ Handshake(w)
    \/ Terminalize(w)
    \/ Route(w) \/ RouteFails(w) \/ RecoverState(w) \/ RecoverStateFails(w)
    \/ ObserveCancel(w) \/ FinishCancelled(w) \/ FinishCancelledFails(w)
    \/ CancelRemove(w) \/ CancelSettle(w) \/ Cancelled(w)
    \/ Fail(w) \/ FailRemove(w) \/ FailSettle(w)
    \/ Loop(w) \/ Prepare(w) \/ PacketFails(w) \/ WritePacket(w) \/ KeepPacket(w)
    \/ AgentAnswers(w) \/ AgentIsCancelled(w) \/ WriteProposal(w) \/ KeepProposal(w)
    \/ BeginApply(w) \/ Apply(w) \/ Commit(w) \/ ApplyFails(w) \/ Accept(w)
    \/ Sync(w) \/ SyncEnds(w) \/ SyncFails(w) \/ Clear(w)
    \/ Mark(w) \/ Remove(w) \/ Settle(w) \/ Advance(w) \/ StaleWrite(w) \/ Complete(w)

Command(j) ==
    \/ Cancel(j) \/ Recover(j)
    \/ \E w \in Workers : CreateJob(j, w) \/ Retry(j, w)

Next ==
    \/ \E j \in Jobs : Command(j)
    \/ \E w \in Workers : Work(w) \/ Die(w) \/ ParentDies(w)

Spec == Init /\ [][Next]_vars

\* Status polling recovers the project's job if it is the only active one.
Poll(j) == (\A k \in Jobs \ {j} : ~Active(k)) /\ Recover(j)

\* Worker and launcher never stop for ever: the Agent call, the sync and the
\* handshake have deadlines.  The plugin polls `review status`.
FairSpec ==
    /\ Spec
    /\ \A w \in Workers : WF_vars(Work(w))
    /\ \A j \in Jobs : WF_vars(Poll(j))

------------------------------------------------------------------------------
Recs == {j \in Jobs : jobs[j] # NoJob}

Types ==
    /\ \A j \in Jobs : jobs[j] = NoJob \/ jobs[j] \in Job
    /\ \A w \in Workers :
         worker[w] \in [pc : Stages, job : Jobs \cup {NoJob}, attempt : 0..MaxAttempts,
                        parent : BOOLEAN, behind : BOOLEAN, work : BOOLEAN,
                        rec : BOOLEAN, acc : BOOLEAN, code : Errors]
    /\ files \in [Jobs -> SUBSET Payloads]
    /\ receipt = NoReceipt \/ receipt \in [job : Jobs, attempt : 1..MaxAttempts,
                                         session : 1..Sessions, from : 0..MaxLine]
    /\ \A s \in 1..Sessions : vault[s] <= Len(ledger[s]) /\ Len(ledger[s]) <= MaxLine
    /\ \A v, w \in Workers :
         worker[v].pc \notin Outside /\ worker[w].pc \notin Outside => v = w

\* Every record the program stores passes types.go Validate, so no write of a
\* transition is refused by it, whatever state the job was in.
RecordsValid == \A j \in Recs :
    LET r == jobs[j] IN
    /\ Active(j) <=> r.phase # ""
    /\ r.token => Active(j) /\ r.phase = "preflight" /\ ~r.owner
    /\ r.owner => Active(j)
    /\ r.index < Len(r.frozen) => r.cur <= Upper(r)
    /\ r.index = Len(r.frozen) => r.cur = 0
    /\ r.state = "completed" => r.index = Len(r.frozen)
    /\ r.payload \in {"publishing", "retained"} => Active(j) /\ r.pubs > 0
    /\ r.payload = "apply_recovery" =>
         /\ r.pubs = 2 /\ r.result > 0
         /\ \/ r.state \in {"running", "retrying", "cancel_requested"} /\ r.error = ""
            \/ r.state = "failed" /\ r.error \in {"apply_recovery", "agent"}
    /\ r.pending => r.packets > 0 /\ r.state \notin {"completed", "cancelled"}

\* Types; the leases, which one worker at a time has; and the validity of the
\* stored records.
TypeOK == Types /\ RecordsValid

\* The job's progress is what the ledger accepted from it: no packet counts
\* twice or without its line, through crashes, retries and replays.
LinesOf(j) == Cardinality({x \in (1..Sessions) \X (1..MaxLine) :
    x[2] <= Len(ledger[x[1]]) /\ ledger[x[1]][x[2]].job = j})

ProgressIsAccepted == \A j \in Recs :
    LET r == jobs[j] IN
    /\ LinesOf(j) - r.packets \in {0, 1}
    /\ \A i \in 1..Len(r.frozen) :
         (i <= r.index => Len(ledger[r.frozen[i].session]) >= r.frozen[i].upper)
    /\ r.index < Len(r.frozen) => r.cur <= Cursor(r)

\* Progress that no sync is pending for is in the vault; a completed job was
\* not cancelled, synced every frozen line and left no private payload behind.
ProgressIsSynced == \A j \in Recs :
    LET r == jobs[j] IN
    /\ \A i \in 1..Len(r.frozen) : i <= r.index \/ r.state = "completed" =>
         vault[r.frozen[i].session] >= r.frozen[i].upper
    /\ r.index < Len(r.frozen) /\ ~r.pending => r.cur <= vault[Session(r)]
    /\ r.state = "completed" => ~r.cancel /\ files[j] = {}

\* No command fails, retries or ends a job under its working owner.
OwnerKeepsJob == \A w \in Workers : worker[w].pc \in Owned =>
    Active(worker[w].job) /\ R(w).owner /\ R(w).attempt = worker[w].attempt

\* Every job ends, unless an old one is retried beside it.
JobsEnd == \A j \in Jobs : Active(j) ~> (~Active(j) \/ \E k \in Jobs \ {j} : Active(k))

\* What freeze_test.go:158 says: a session that a job reviewed in part is
\* reviewed further by the next one.
PacketContinues == \A w \in Workers :
    At(w, "prepare") /\ Cursor(R(w)) < Upper(R(w)) => Cursor(R(w)) = R(w).cur
==============================================================================
