------------------------------ MODULE ProblemMap ------------------------------
(* Candidates of the problem map: their confirmation, which publishes Markdown *)
(* and then settles a private record (cli/problems.go, problem_publication.go, *)
(* candidatepublication, publicationstate/result.go), and their placement by a *)
(* detached Agent worker (problemmap/placement_jobs.go, cli/problem_placement. *)
(* go).  All of them share the candidate file and the publication lock.        *)
EXTENDS Naturals, FiniteSets

CONSTANTS
    Cands,          \* candidates
    Old,            \* a problem of the map confirmed long ago
    None,
    MaxView,        \* bound: published views of the project
    MaxRev,         \* bound: revisions of a candidate
    NJobs,          \* bound: placement jobs
    MaxFaults       \* bound: crashes, kills and failed steps

ASSUME ConstantsAssumption ==
    /\ {Old, None} \cap Cands = {} /\ Old # None
    /\ None \notin 1..NJobs
    /\ {MaxView, MaxRev, NJobs, MaxFaults} \subseteq Nat /\ MaxView > 0

Jobs == 1..NJobs

VARIABLES
    cands,          \* problem-map-candidates.json
    intents,        \* the prepared ones of candidate-publication-problem-confirmation.json
    jobs,           \* problem-placement-jobs.json
    accepted,       \* the accepted view: map revision and generation, and its nodes
    results,        \* accepted-result-*.json: every view ever accepted
    pub,            \* the Markdown publication that has not ended
    op,             \* the holder of the publication lock
    request,        \* the placement request under way, after it released the lock
    worker,         \* the detached workers: where each is, the job revision it read last
    confirmed,      \* history: views whose candidate was settled
    proposed,       \* history: jobs that wrote their proposal to a candidate
    faults

private == <<cands, intents, confirmed>>
public == <<accepted, results, pub>>
placement == <<jobs, request, worker, proposed>>
vars == <<private, public, placement, op, faults>>

Pending == {"pending", "kept_pending"}
Settled == {"applied", "merged"}
Claimed == {"running", "cancel_requested"}
Live == Claimed \cup {"queued"}
Ended == {"completed", "failed", "cancelled"}

\* human: a person created it; otherwise the rules found it in a session.
NoCand == [status |-> "absent", rev |-> 0, run |-> None, human |-> FALSE]
New(human) == [status |-> "pending", rev |-> 1, run |-> None, human |-> human]
NoJob == [state |-> "absent", cand |-> None, crev |-> 0, view |-> 0, rev |-> 0]
NoPub == [stage |-> "none", view |-> [n |-> 0, nodes |-> {}, by |-> None]]
NoRequest == [pc |-> "idle", cand |-> None, view |-> 0, crev |-> 0, job |-> 0]
Idle == [pc |-> "idle", scan |-> FALSE, view |-> NoPub.view, job |-> 0]

Init ==
    /\ cands = [c \in Cands |-> NoCand] /\ intents = {} /\ confirmed = {}
    /\ accepted \in [n : {1}, nodes : SUBSET {Old}, by : {None}] /\ results = {accepted}
    /\ pub = NoPub /\ op = Idle
    /\ jobs = [j \in Jobs |-> NoJob]
    /\ request = NoRequest
    /\ worker = [j \in Jobs |-> [pc |-> "none", rev |-> 0]]
    /\ proposed = {} /\ faults = 0

Fault == faults < MaxFaults /\ faults' = faults + 1

-------------------------------------------------------------------------------
(* Commands under the publication lock.                                       *)

\* A scan or any other command; which one it is shows when it gets to work.
Begin(scan) ==
    /\ op = Idle
    /\ op' = [Idle EXCEPT !.pc = "recover", !.scan = scan]
    /\ UNCHANGED <<private, public, placement, faults>>

\* RecoverMarkdownLocked found nothing unfinished, or has dealt with it.  A scan
\* does not look at the intents of the candidates.
Recovered ==
    /\ op.pc = "recover" /\ pub = NoPub
    /\ op' = [op EXCEPT !.pc = IF op.scan THEN "work" ELSE "reconcile"]
    /\ UNCHANGED <<private, public, placement, faults>>

\* Return gives the lock back: at the end, or when a step returned an error.
Return == op' = Idle

\* Mutant: only the current document counts.
WasAccepted_Current(i) == i.view = accepted

\* An accepted result, looked up in the history by its fingerprint.
WasAccepted(i) == i.view \in results

\* reconcileProblemPublicationsLocked: one step per file it writes.
Abort(i) ==
    /\ op.pc = "reconcile" /\ i \in intents /\ ~WasAccepted(i)
    /\ intents' = intents \ {i}
    /\ UNCHANGED <<cands, confirmed, public, placement, op, faults>>

Confirmable(i) == cands[i.cand].status \in Pending \cup {"stale", i.terminal}

Settle(i) ==
    /\ op.pc = "reconcile" /\ i \in intents /\ WasAccepted(i)
    /\ Confirmable(i) /\ cands[i.cand].status # i.terminal
    /\ cands' = [cands EXCEPT ![i.cand].status = i.terminal, ![i.cand].rev = @ + 1]
    /\ confirmed' = confirmed \cup {i.view}
    /\ UNCHANGED <<intents, public, placement, op, faults>>

Complete(i) ==
    /\ op.pc = "reconcile" /\ i \in intents /\ WasAccepted(i)
    /\ cands[i.cand].status = i.terminal
    /\ intents' = intents \ {i}
    /\ UNCHANGED <<cands, confirmed, public, placement, op, faults>>

\* The same loop ends a confirmation (op.view is its new view by then).
Reconciled ==
    /\ op.pc = "reconcile" /\ intents = {}
    /\ op' = IF op.view = accepted THEN Idle ELSE [op EXCEPT !.pc = "work"]
    /\ UNCHANGED <<private, public, placement, faults>>

Commanding == op.pc = "work" /\ ~op.scan

\* problems create: an entry that exists already is returned as it is.
Create(c) ==
    /\ Commanding /\ cands[c] = NoCand
    /\ cands' = [cands EXCEPT ![c] = New(TRUE)]
    /\ Return
    /\ UNCHANGED <<intents, confirmed, public, placement, faults>>

StatusAfter == [keep_pending |-> "kept_pending", dismiss |-> "dismissed", restore |-> "pending"]

\* From any status: the code does not look at it.
Change(c, action) ==
    /\ Commanding /\ cands[c] # NoCand /\ cands[c].rev < MaxRev
    /\ cands' = [cands EXCEPT ![c].status = StatusAfter[action], ![c].rev = @ + 1]
    /\ Return
    /\ UNCHANGED <<intents, confirmed, public, placement, faults>>

\* ApplyCandidate: root, child and sibling applications add a node, a merge
\* needs one to merge into.
Applicable(c, terminal) ==
    /\ cands[c].status = "pending"
    /\ IF terminal = "merged" THEN accepted.nodes # {} ELSE c \notin accepted.nodes

\* The confirmation renders its result and announces it before it publishes.
Prepare(c, terminal) ==
    /\ Commanding /\ Applicable(c, terminal)
    /\ accepted.n < MaxView /\ cands[c].rev < MaxRev
    /\ LET view == [n |-> accepted.n + 1, by |-> c,
                    nodes |-> accepted.nodes \cup (IF terminal = "merged" THEN {} ELSE {c})]
       IN /\ op' = [op EXCEPT !.pc = "publish", !.view = view]
          /\ intents' = intents \cup {[cand |-> c, view |-> view, terminal |-> terminal]}
    /\ UNCHANGED <<cands, confirmed, public, placement, faults>>

\* move, reorder, edit, state; and a scan with something new.
Render ==
    /\ op.pc = "work" /\ accepted.n < MaxView
    /\ op' = [op EXCEPT !.pc = "publish", !.view = [accepted EXCEPT !.n = @ + 1, !.by = None]]
    /\ UNCHANGED <<private, public, placement, faults>>

\* ReconcileDeterministic after a scan that published, or that found nothing
\* new.  found is what the rules derive; reworded what changed in it.
AfterScan(c, found, reworded) ==
    LET old == cands[c]
        gone == c \notin found /\ old.status \in Pending
        changed == c \in found /\ old.run = None /\ (old.status = "stale" \/ c \in reworded)
    IN  IF old = NoCand THEN (IF c \in found THEN New(FALSE) ELSE old)
        ELSE IF ~old.human /\ (gone \/ changed)
             THEN [old EXCEPT !.rev = @ + 1, !.status = IF gone THEN "stale"
                                                        ELSE IF @ = "stale" THEN "pending" ELSE @]
             ELSE old

\* A turn that a node of the map cites already is not discovered again.
Formal == {view.by : view \in results}

Scanned(found, reworded) ==
    /\ op.scan
    /\ \/ op.pc = "work"
       \/ op.pc = "publish" /\ accepted = op.view /\ pub = NoPub
    /\ \A c \in found : c \notin Formal /\ ~cands[c].human
    /\ \A c \in Cands : cands[c].rev < MaxRev \/ AfterScan(c, found, reworded) = cands[c]
    /\ cands' = [c \in Cands |-> AfterScan(c, found, reworded)]
    /\ Return
    /\ UNCHANGED <<intents, confirmed, public, placement, faults>>

\* A command that only reads returns, and any may refuse: a revision or a
\* preimage changed, or a file failed.
Refuse ==
    /\ op.pc \notin {"idle", "complete"}
    /\ op.pc = "publish" => pub = NoPub
    /\ Return
    /\ UNCHANGED <<private, public, placement, faults>>

Stops ==
    /\ op.pc \notin {"idle", "complete"} /\ Fault /\ Return
    /\ UNCHANGED <<private, public, placement>>

-------------------------------------------------------------------------------
(* The publication (module Publication in detail): an intent with its files,   *)
(* then the receipt, then the archived result, then the end of the intent.     *)

OpenJournal ==
    /\ op.pc = "publish" /\ pub = NoPub /\ accepted # op.view
    /\ pub' = [stage |-> "files", view |-> op.view]
    /\ UNCHANGED <<private, accepted, results, placement, op, faults>>

Publishing == op.pc \in {"publish", "recover"}

WriteReceipt ==
    /\ Publishing /\ pub.stage = "files"
    /\ accepted' = pub.view /\ pub' = [pub EXCEPT !.stage = "receipt"]
    /\ UNCHANGED <<private, results, placement, op, faults>>

WriteAcceptedResult ==
    /\ Publishing /\ pub.stage = "receipt"
    /\ results' = results \cup {pub.view} /\ pub' = [pub EXCEPT !.stage = "archived"]
    /\ UNCHANGED <<private, accepted, placement, op, faults>>

\* After its publication a confirmation reconciles its own intent.
EndJournal ==
    /\ Publishing /\ pub.stage = "archived"
    /\ pub' = NoPub
    /\ op' = IF op.pc = "recover" \/ op.scan THEN op
             ELSE IF op.view.by = None THEN Idle ELSE [op EXCEPT !.pc = "reconcile"]
    /\ UNCHANGED <<private, accepted, results, placement, faults>>

\* The files are put back, by the publisher (whose command then fails) or by recovery.
RollBack ==
    /\ Publishing /\ pub.stage = "files"
    /\ pub' = NoPub
    /\ op' = IF op.pc = "recover" THEN op ELSE Idle
    /\ UNCHANGED <<private, accepted, results, placement, faults>>

-------------------------------------------------------------------------------
(* Placement: request, status and cancel.                                     *)

Locked == op = Idle     \* a single use of the lock, between commands

\* What a process without the lock reads of the Markdown in the project.
Readable == {accepted.n} \cup (IF pub = NoPub THEN {} ELSE {pub.view.n})

\* reconcileProblemPublications released the lock; view and candidate revision
\* are those the caller saw.
RequestReconciled(c) ==
    /\ Commanding /\ cands[c] # NoCand
    /\ request.pc = "idle"
    /\ request' = [pc |-> "find", cand |-> c, view |-> accepted.n, crev |-> cands[c].rev, job |-> 0]
    /\ Return
    /\ UNCHANGED <<private, public, jobs, worker, proposed, faults>>

Goto(j, pc) == worker' = [worker EXCEPT ![j].pc = pc]
Gone(j) == worker' = [worker EXCEPT ![j] = [pc |-> "gone", rev |-> 0]]
Reads(j, pc) == worker' = [worker EXCEPT ![j] = [pc |-> pc, rev |-> jobs[j].rev]]
Forget == request' = NoRequest

Reusable(j) == jobs[j].state \in Live \cup {"completed"}
Exact(j) == /\ Reusable(j) /\ jobs[j].cand = request.cand
            /\ jobs[j].crev = request.crev /\ jobs[j].view = request.view

\* Mutant: any change of the candidate counts as the job's.
AfterRecovery_AnyChange(j) ==
    IF jobs[j].state \in Claimed /\ cands[jobs[j].cand].rev > jobs[j].crev
    THEN [jobs[j] EXCEPT !.state = "completed", !.rev = @ + 1] ELSE jobs[j]

\* RecoverCompleted: the candidate names the run, so the worker had committed.
AfterRecovery(j) ==
    IF /\ jobs[j].state \in Claimed
       /\ cands[jobs[j].cand].run = j /\ cands[jobs[j].cand].rev > jobs[j].crev
    THEN [jobs[j] EXCEPT !.state = "completed", !.rev = @ + 1] ELSE jobs[j]

FindExact ==
    /\ Locked /\ request.pc = "find"
    /\ IF \E j \in Jobs : Exact(j)
       THEN /\ \E j \in Jobs : Exact(j) /\ jobs' = [jobs EXCEPT ![j] = AfterRecovery(j)]
            /\ Forget
       ELSE /\ IF /\ cands[request.cand].rev = request.crev
                  /\ cands[request.cand].status \in Pending
               THEN request' = [request EXCEPT !.pc = "reserve"] ELSE Forget
            /\ UNCHANGED jobs
    /\ UNCHANGED <<private, public, worker, proposed, op, faults>>

SameAnalysis(j) == Reusable(j) /\ jobs[j].cand = request.cand /\ jobs[j].view = request.view

Free(j) == \A i \in Jobs : jobs[i] = NoJob <=> i >= j

Reserve ==
    /\ Locked /\ request.pc = "reserve"
    /\ \/ /\ \/ \E j \in Jobs : SameAnalysis(j)
             \/ \A j \in Jobs : jobs[j] # NoJob         \* the bound NJobs
          /\ Forget /\ UNCHANGED jobs
       \/ \E j \in Jobs :
          /\ Free(j) /\ \A i \in Jobs : ~SameAnalysis(i)
          /\ jobs' = [jobs EXCEPT ![j] = [state |-> "queued", cand |-> request.cand, rev |-> 1,
                                          crev |-> request.crev, view |-> request.view]]
          /\ request' = [request EXCEPT !.pc = "launch", !.job = j]
    /\ UNCHANGED <<private, public, worker, proposed, op, faults>>

Launch ==
    /\ request.pc = "launch"
    /\ Goto(request.job, "claim")
    /\ request' = [request EXCEPT !.pc = "handshake"]
    /\ UNCHANGED <<private, public, jobs, proposed, op, faults>>

\* The worker answered (it owns the job), or the parent gives up and kills it.
Answered ==
    /\ request.pc = "handshake" /\ worker[request.job].pc \notin {"none", "claim"}
    /\ Forget
    /\ UNCHANGED <<private, public, jobs, worker, proposed, op, faults>>

HandshakeFails ==
    /\ request.pc \in {"launch", "handshake"} /\ op.job # request.job
    /\ Fault
    /\ Gone(request.job)
    /\ request' = [request EXCEPT !.pc = "fail"]
    /\ UNCHANGED <<private, public, jobs, proposed, op>>

FailQueued ==
    /\ Locked /\ request.pc = "fail"
    /\ jobs' = IF jobs[request.job].state # "queued" THEN jobs
               ELSE [jobs EXCEPT ![request.job].state = "failed", ![request.job].rev = @ + 1]
    /\ Forget
    /\ UNCHANGED <<private, public, worker, proposed, op, faults>>

RequestStops ==
    /\ request.pc # "idle" /\ Fault /\ Forget
    /\ UNCHANGED <<private, public, jobs, worker, proposed, op>>

\* placement status
Status(j) ==
    /\ Locked /\ jobs[j] # NoJob
    /\ jobs' = [jobs EXCEPT ![j] = AfterRecovery(j)]
    /\ UNCHANGED <<private, public, request, worker, proposed, op, faults>>

\* Mutant: a second request counts again.
Cancel_Again(j) ==
    /\ Locked /\ jobs[j].state \in Live
    /\ jobs' = [jobs EXCEPT ![j].state = IF @ = "queued" THEN "cancelled" ELSE "cancel_requested",
                            ![j].rev = @ + 1]
    /\ UNCHANGED <<private, public, request, worker, proposed, op, faults>>

\* placement cancel, after the same recovery (whose failure it ignores): of the
\* revision the caller saw, or nothing.
Cancel(j) ==
    /\ Locked /\ jobs[j].state \in {"queued", "running"}
    /\ jobs' = [jobs EXCEPT ![j].state = IF @ = "queued" THEN "cancelled" ELSE "cancel_requested",
                            ![j].rev = @ + 1]
    /\ UNCHANGED <<private, public, request, worker, proposed, op, faults>>

-------------------------------------------------------------------------------
(* The placement worker (executeProblemPlacement).                            *)

WorkerStep == UNCHANGED <<private, public, request, faults>>

Claim(j) ==
    /\ Locked /\ worker[j].pc = "claim"
    /\ IF jobs[j].state = "queued"
       THEN /\ jobs' = [jobs EXCEPT ![j].state = "running", ![j].rev = @ + 1]
            /\ Goto(j, "start")
       ELSE UNCHANGED jobs /\ Gone(j)
    /\ UNCHANGED <<proposed, op>> /\ WorkerStep

InputsCurrent(j) ==
    /\ jobs[j].view \in Readable
    /\ cands[jobs[j].cand].rev = jobs[j].crev

\* Mapping, projection, candidate and prompt; the second disjunct any failure.
Start(j) ==
    /\ worker[j].pc = "start"
    /\ \/ InputsCurrent(j) /\ cands[jobs[j].cand].status \in Pending /\ Goto(j, "agent")
       \/ Goto(j, "failing")
    /\ UNCHANGED <<jobs, proposed, op>> /\ WorkerStep

\* A cancelled Agent ends with an error; so may any other.
AgentEnds(j, ok) ==
    /\ worker[j].pc = "agent"
    /\ Goto(j, IF ok THEN "answered" ELSE "no answer")
    /\ UNCHANGED <<jobs, proposed, op>> /\ WorkerStep

\* jobs.Get after the Agent; a request to cancel comes before everything else.
GetLatest(j) ==
    /\ Locked /\ worker[j].pc \in {"answered", "no answer"}
    /\ Reads(j, IF jobs[j].state = "cancel_requested" THEN "finish"
                ELSE IF worker[j].pc = "answered" THEN "check" ELSE "failing")
    /\ UNCHANGED <<jobs, proposed, op>> /\ WorkerStep

\* Parse the proposal, read the projection and the candidate again.
Check(j) ==
    /\ worker[j].pc = "check"
    /\ \/ InputsCurrent(j) /\ Goto(j, "complete")
       \/ Goto(j, "failing")
    /\ UNCHANGED <<jobs, proposed, op>> /\ WorkerStep

\* finishProblemPlacementFailure reads the job again, then finishes that revision.
Failing(j) ==
    /\ Locked /\ worker[j].pc = "failing"
    /\ Reads(j, "finish")
    /\ UNCHANGED <<jobs, proposed, op>> /\ WorkerStep

\* Finish: nothing but an error if the revision has moved on.
Finish(j) ==
    /\ Locked /\ worker[j].pc = "finish"
    /\ jobs' = IF jobs[j].rev = worker[j].rev /\ jobs[j].state \in Claimed
               THEN [jobs EXCEPT ![j].state = IF @ = "cancel_requested" THEN "cancelled"
                                                   ELSE "failed", ![j].rev = @ + 1]
               ELSE jobs
    /\ Gone(j)
    /\ UNCHANGED <<proposed, op>> /\ WorkerStep

StillRuns(j) == jobs[j].rev = worker[j].rev /\ jobs[j].state = "running"

\* CompleteCandidate keeps the lock over its two writes: candidate, then job.
CompleteCandidate(j) ==
    /\ Locked /\ worker[j].pc = "complete"
    /\ LET c == jobs[j].cand IN
       IF StillRuns(j) /\ cands[c].rev = jobs[j].crev
       THEN /\ cands' = [cands EXCEPT ![c].rev = @ + 1, ![c].run = j]
            /\ proposed' = proposed \cup {j}
            /\ op' = [Idle EXCEPT !.pc = "complete", !.job = j]
            /\ UNCHANGED worker
       ELSE Gone(j) /\ UNCHANGED <<cands, proposed, op>>
    /\ UNCHANGED <<intents, confirmed, public, jobs, request, faults>>

CompleteJob(j) ==
    /\ op.pc = "complete" /\ op.job = j
    /\ jobs' = [jobs EXCEPT ![j].state = "completed", ![j].rev = @ + 1]
    /\ Gone(j) /\ Return
    /\ UNCHANGED <<proposed>> /\ WorkerStep

\* Killed, or the lock was not to be had within ten seconds.
WorkerDies(j) ==
    /\ worker[j].pc \notin {"none", "gone"} /\ Fault
    /\ Gone(j)
    /\ op' = IF op.job = j THEN Idle ELSE op
    /\ UNCHANGED <<private, public, jobs, request, proposed>>

-------------------------------------------------------------------------------
Command ==
    \/ \E scan \in BOOLEAN : Begin(scan)
    \/ Recovered \/ Reconciled
    \/ \E i \in intents : Abort(i) \/ Settle(i) \/ Complete(i)
    \/ \E c \in Cands : Create(c) \/ RequestReconciled(c)
    \/ \E c \in Cands, action \in DOMAIN StatusAfter : Change(c, action)
    \/ \E c \in Cands, terminal \in Settled : Prepare(c, terminal)
    \/ Render
    \/ \E found, reworded \in SUBSET Cands : Scanned(found, reworded)
    \/ Refuse \/ Stops

Publish == OpenJournal \/ WriteReceipt \/ WriteAcceptedResult \/ EndJournal \/ RollBack

Requests ==
    \/ FindExact \/ Reserve \/ Launch \/ Answered
    \/ HandshakeFails \/ FailQueued \/ RequestStops
    \/ \E j \in Jobs : Status(j) \/ Cancel(j)

Worker(j) ==
    \/ Claim(j) \/ Start(j) \/ GetLatest(j) \/ Check(j) \/ Failing(j) \/ Finish(j)
    \/ CompleteCandidate(j) \/ CompleteJob(j) \/ \E ok \in BOOLEAN : AgentEnds(j, ok)

Next == Command \/ Publish \/ Requests \/ \E j \in Jobs : Worker(j) \/ WorkerDies(j)

Spec == Init /\ [][Next]_vars

\* A command that holds the lock gets on with it, a worker and its Agent (which
\* has a deadline) do not sleep, and the lock is not kept from a worker for ever.
Fairness == /\ WF_vars(op # Idle /\ (Command \/ Publish))
            /\ \A j \in Jobs : SF_vars(Worker(j))

FairSpec == Spec /\ Fairness

-------------------------------------------------------------------------------
(* Properties.                                                                *)

Statuses == {"absent", "stale", "dismissed"} \cup Pending \cup Settled
JobRevisions == 0..4        \* created, claimed, asked to stop, ended
Views == [n : 0..MaxView, nodes : SUBSET (Cands \cup {Old}), by : Cands \cup {None}]
Candidate == [status : Statuses, rev : Nat, run : Jobs \cup {None}, human : BOOLEAN]
Job == [state : {"absent"} \cup Live \cup Ended, cand : Cands \cup {None}, crev : Nat,
        view : 0..MaxView, rev : JobRevisions]
NJ == Jobs \cup {0}

PrivateOK ==
    /\ cands \in [Cands -> Candidate]
    /\ intents \subseteq [cand : Cands, view : Views, terminal : Settled]
    /\ confirmed \subseteq Views

PublicOK ==
    /\ accepted \in Views /\ results \subseteq Views
    /\ pub \in [stage : {"none", "files", "receipt", "archived"}, view : Views]
    /\ op \in [pc : {"idle", "recover", "reconcile", "work", "publish", "complete"},
               scan : BOOLEAN, view : Views, job : NJ]

PlacementOK ==
    /\ jobs \in [Jobs -> Job]
    /\ request \in [pc : {"idle", "find", "reserve", "launch", "handshake", "fail"},
                    cand : Cands \cup {None}, view : 0..MaxView, crev : Nat, job : NJ]
    /\ worker \in [Jobs -> [rev : JobRevisions,
           pc : {"none", "claim", "start", "agent", "answered", "no answer", "check", "failing",
                 "finish", "complete", "gone"}]]
    /\ proposed \subseteq Jobs

TypeOK == PrivateOK /\ PublicOK /\ PlacementOK /\ faults \in 0..MaxFaults

\* Publication before settlement, and no confirmation lost on the way: a
\* candidate is settled only for a view that was accepted, and an accepted view
\* whose candidate is not settled yet is still named by a prepared intent,
\* across crashes and across scans that recover the Markdown but not the intents.
\* And what comes between a publication and its settlement leaves the candidate
\* in a status the reconciliation accepts: in any other it would refuse
\* ("conflicting terminal state"), and with it every later command.
ConfirmationsSettle ==
    /\ confirmed \subseteq results
    /\ \A view \in results : \/ view.by = None \/ view \in confirmed
                              \/ \E i \in intents : i.view = view
    /\ \A i \in intents : WasAccepted(i) => Confirmable(i)

\* A placement job is completed exactly when its proposal is on its candidate,
\* up to the recovery of a job whose worker was killed between the two files: a
\* failed or cancelled job left the candidate alone.
ResultsBelong ==
    \A j \in Jobs : /\ jobs[j].state = "completed" => j \in proposed
                    /\ j \in proposed => jobs[j].state \in Claimed \cup {"completed"}

\* "Cancellation and completion races produce one terminal state": a job a worker
\* has claimed ends, where no process is killed.
PlacementEnds == \A j \in Jobs : jobs[j].state \in Claimed ~> jobs[j].state \in Ended
===============================================================================
