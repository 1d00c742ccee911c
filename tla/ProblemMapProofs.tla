--------------------------- MODULE ProblemMapProofs ---------------------------
(* Proofs about ProblemMap, for any candidates, jobs and bounds.  Three        *)
(* invariants on top of one another: the types with the stages of a job, what  *)
(* a confirmation leaves at each of its steps, and what a placement leaves.    *)
EXTENDS ProblemMap, TLAPS

\* The revision of a job counts its steps; a job that exists has a candidate,
\* and while its worker completes it nobody can touch it.
JobStages ==
    /\ \A j \in Jobs : /\ jobs[j].state = "queued" => jobs[j].rev = 1
                       /\ jobs[j].state = "running" => jobs[j].rev = 2
                       /\ jobs[j].state = "cancel_requested" => jobs[j].rev = 3
                       /\ jobs[j].state # "absent" => jobs[j].cand \in Cands
    /\ request.pc # "idle" => request.cand \in Cands
    /\ op.pc = "complete" => op.job \in Jobs /\ jobs[op.job].state = "running"

Types == TypeOK /\ JobStages

\* What is on its way to readers comes from no candidate or is announced.
Announced(view) == view.by = None \/ \E i \in intents : i.view = view

ConfirmInv ==
    /\ ConfirmationsSettle
    /\ \A i, k \in intents : i = k
    /\ op.pc = "work" /\ ~op.scan => intents = {}
    /\ op.pc \in {"reconcile", "work"} => pub.stage = "none"
    /\ op.pc = "publish" => Announced(op.view)
    /\ pub.stage # "none" => Announced(pub.view)
    /\ \A i \in intents : /\ Confirmable(i)
                          /\ cands[i.cand].status = i.terminal => i.view \in confirmed

PlacementInv ==
    /\ ResultsBelong
    /\ \A j \in Jobs : jobs[j].state = "absent" => worker[j].pc = "none"
    /\ request.pc \in {"launch", "handshake"} =>
         request.job \in Jobs /\ jobs[request.job].state # "absent"
    /\ request.pc = "launch" => worker[request.job].pc = "none"
    /\ \A c \in Cands, j \in Jobs : cands[c].run = j => j \in proposed
    /\ \A j \in proposed : \/ worker[j].pc = "gone"
                           \/ worker[j].pc = "complete" /\ op.pc = "complete" /\ op.job = j
    /\ op.pc = "complete" => op.job \in proposed

-------------------------------------------------------------------------------
(* Records that change in several fields.                                     *)

\* One entry of a function is replaced.
LEMMA Update ==
    ASSUME NEW D, NEW S, NEW f \in [D -> S], NEW d \in D, NEW r \in S
    PROVE  /\ [f EXCEPT ![d] = r] \in [D -> S] /\ [f EXCEPT ![d] = r][d] = r
           /\ \A e \in D \ {d} : [f EXCEPT ![d] = r][e] = f[e]
  OBVIOUS

LEMMA CandidateSet ==
    ASSUME NEW r \in Candidate, NEW s \in Statuses
    PROVE  /\ [r EXCEPT !.status = s, !.rev = @ + 1] \in Candidate
           /\ [r EXCEPT !.rev = @ + 1, !.status = s] \in Candidate
  <1> DEFINE m == [r EXCEPT !.rev = @ + 1]
             n == [r EXCEPT !.status = s]
  <1>1. m \in Candidate /\ n \in Candidate
    BY DEF Candidate
  <1>2. /\ [r EXCEPT !.status = s, !.rev = @ + 1] = [n EXCEPT !.rev = @ + 1]
        /\ [r EXCEPT !.rev = @ + 1, !.status = s] = [m EXCEPT !.status = s]
    OBVIOUS
  <1> HIDE DEF m, n
  <1>. QED  BY <1>1, <1>2 DEF Candidate

\* A candidate gets another status: Settle and Change.
LEMMA CandsSet ==
    ASSUME cands \in [Cands -> Candidate], NEW c \in Cands, NEW s \in Statuses,
           cands' = [cands EXCEPT ![c].status = s, ![c].rev = @ + 1]
    PROVE  /\ cands' \in [Cands -> Candidate]
           /\ \A d \in Cands : /\ cands'[d].status = IF d = c THEN s ELSE cands[d].status
                               /\ cands'[d].run = cands[d].run
  <1>1. cands' = [cands EXCEPT ![c] = [cands[c] EXCEPT !.status = s, !.rev = @ + 1]]
    OBVIOUS
  <1>2. [cands[c] EXCEPT !.status = s, !.rev = @ + 1] \in Candidate
    BY CandidateSet
  <1>3. \A d \in Cands : /\ cands'[d].status = IF d = c THEN s ELSE cands[d].status
                         /\ cands'[d].run = cands[d].run
    BY DEF Candidate
  <1>4. cands' \in [Cands -> Candidate]
    BY <1>1, <1>2
  <1>. QED  BY <1>3, <1>4

\* A candidate gets the proposal of a job: CompleteCandidate.
LEMMA CandsRun ==
    ASSUME cands \in [Cands -> Candidate], NEW c \in Cands, NEW j \in Jobs,
           cands' = [cands EXCEPT ![c].rev = @ + 1, ![c].run = j]
    PROVE  /\ cands' \in [Cands -> Candidate]
           /\ \A d \in Cands : /\ cands'[d].status = cands[d].status
                               /\ cands'[d].run = IF d = c THEN j ELSE cands[d].run
  <1> DEFINE m == [cands[c] EXCEPT !.rev = @ + 1]
  <1>1. m \in Candidate
    BY DEF Candidate
  <1>2. cands' = [cands EXCEPT ![c] = [m EXCEPT !.run = j]]
    OBVIOUS
  <1>3. \A d \in Cands : /\ cands'[d].status = cands[d].status
                         /\ cands'[d].run = IF d = c THEN j ELSE cands[d].run
    BY DEF Candidate
  <1> HIDE DEF m
  <1>4. [m EXCEPT !.run = j] \in Candidate
    BY <1>1 DEF Candidate
  <1>5. [cands EXCEPT ![c] = [m EXCEPT !.run = j]] \in [Cands -> Candidate]
    BY <1>4, Update
  <1>. QED  BY <1>2, <1>3, <1>5

\* The refresh after a scan keeps proposals and settled or dismissed candidates.
LEMMA Refreshed ==
    ASSUME NEW c \in Cands, NEW found, NEW reworded, cands[c] \in Candidate
    PROVE  LET new == AfterScan(c, found, reworded) IN
           /\ new \in Candidate /\ new.run = cands[c].run
           /\ IF cands[c].status \in Pending \cup {"stale"}
              THEN new.status \in Pending \cup {"stale"}
              ELSE cands[c].status # "absent" => new.status = cands[c].status
  <1> DEFINE old == cands[c]
             gone == c \notin found /\ old.status \in Pending
             s == IF gone THEN "stale" ELSE IF old.status = "stale" THEN "pending" ELSE old.status
             next == [old EXCEPT !.rev = @ + 1, !.status = s]
  <1>1. /\ old \in Candidate /\ New(FALSE) \in Candidate
        /\ New(FALSE).run = NoCand.run /\ NoCand.status = "absent"
    BY DEF Candidate, New, NoCand, Statuses, Pending
  <1>2. s \in Statuses
    BY DEF Candidate, Statuses, Pending
  <1>3. next \in Candidate
    BY <1>2, CandidateSet
  <1>4. next.status = s /\ next.run = old.run
    BY DEF Candidate
  <1>5. \/ AfterScan(c, found, reworded) = old
        \/ AfterScan(c, found, reworded) = next
        \/ old = NoCand /\ AfterScan(c, found, reworded) = New(FALSE)
    BY DEF AfterScan
  <1>6. IF old.status \in Pending \cup {"stale"}
        THEN s \in Pending \cup {"stale"} ELSE s = old.status
    BY DEF Pending
  <1> HIDE DEF next, s
  <1>. QED  BY <1>1, <1>3, <1>4, <1>5, <1>6 DEF Pending

\* The steps of the state of a job.
Advances(from, to) == <<from, to>> \in
    ({"queued"} \X {"running", "failed", "cancelled"}) \cup
    ({"running"} \X {"cancel_requested", "completed", "failed"}) \cup
    ({"cancel_requested"} \X {"completed", "cancelled"})

LEMMA JobAdvances ==
    ASSUME jobs \in [Jobs -> Job], JobStages, NEW j \in Jobs, NEW s, Advances(jobs[j].state, s)
    PROVE  LET new == [jobs[j] EXCEPT !.state = s, !.rev = @ + 1] IN
           /\ new \in Job /\ new.state = s
           /\ s = "running" => new.rev = 2
           /\ s = "cancel_requested" => new.rev = 3
           /\ new.cand = jobs[j].cand /\ new.crev = jobs[j].crev
           /\ new.view = jobs[j].view /\ new.rev = jobs[j].rev + 1
  <1> DEFINE mid == [jobs[j] EXCEPT !.state = s]
             new == [jobs[j] EXCEPT !.state = s, !.rev = @ + 1]
  <1>1. jobs[j] \in Job
    OBVIOUS
  <1>2. s \in {"running", "failed", "cancelled", "cancel_requested", "completed"}
    BY DEF Advances
  <1>3. /\ mid \in Job /\ mid.state = s /\ mid.rev = jobs[j].rev /\ mid.cand = jobs[j].cand
        /\ mid.crev = jobs[j].crev /\ mid.view = jobs[j].view
    BY <1>1, <1>2 DEF Job, Live, Claimed, Ended
  <1>4. jobs[j].rev \in 1..3 /\ jobs[j].rev + 1 \in JobRevisions
    BY DEF JobStages, Advances, JobRevisions
  <1>5. /\ s = "running" => jobs[j].rev = 1
        /\ s = "cancel_requested" => jobs[j].rev = 2
    BY DEF JobStages, Advances
  <1>6. new = [mid EXCEPT !.rev = @ + 1]
    OBVIOUS
  <1> HIDE DEF mid, new
  <1>7. new \in Job
    BY <1>3, <1>4, <1>6 DEF Job
  <1>8. /\ new.state = mid.state /\ new.rev = mid.rev + 1 /\ new.cand = mid.cand
        /\ new.crev = mid.crev /\ new.view = mid.view
    BY <1>3, <1>6 DEF Job
  <1>9. QED  BY <1>3, <1>4, <1>5, <1>7, <1>8 DEF new

Moved(j, s) ==
    /\ jobs' \in [Jobs -> Job] /\ jobs'[j].state = s
    /\ s = "running" => jobs'[j].rev = 2
    /\ s = "cancel_requested" => jobs'[j].rev = 3
    /\ jobs'[j].cand = jobs[j].cand
    /\ \A k \in Jobs \ {j} : jobs'[k] = jobs[k]

LEMMA JobsAdvance ==
    ASSUME jobs \in [Jobs -> Job], JobStages, NEW j \in Jobs, NEW s, Advances(jobs[j].state, s),
           jobs' = [jobs EXCEPT ![j].state = s, ![j].rev = @ + 1]
    PROVE  Moved(j, s)
  <1> DEFINE new == [jobs[j] EXCEPT !.state = s, !.rev = @ + 1]
  <1>1. jobs' = [jobs EXCEPT ![j] = new]
    OBVIOUS
  <1>2. /\ new \in Job /\ new.state = s
        /\ s = "running" => new.rev = 2
        /\ s = "cancel_requested" => new.rev = 3
        /\ new.cand = jobs[j].cand
    BY ZenonT(60), JobAdvances
  <1> HIDE DEF new
  <1>4. jobs' \in [Jobs -> Job] /\ jobs'[j] = new /\ \A k \in Jobs \ {j} : jobs'[k] = jobs[k]
    <2>1. jobs \in [Jobs -> Job] /\ new \in Job
      BY <1>2
    <2> DEFINE g == [jobs EXCEPT ![j] = new]
    <2>2. /\ g \in [Jobs -> Job] /\ g[j] = new
          /\ \A k \in Jobs \ {j} : g[k] = jobs[k]
      BY <2>1, Update
    <2>. QED  BY <1>1, <2>2
  <1>. QED  BY <1>2, <1>4 DEF Moved

-------------------------------------------------------------------------------
(* Which steps change what.                                                   *)

PrivateStep ==
    \/ \E i \in intents : Abort(i) \/ Settle(i) \/ Complete(i)
    \/ \E c \in Cands : Create(c)
    \/ \E c \in Cands, action \in DOMAIN StatusAfter : Change(c, action)
    \/ \E c \in Cands, terminal \in Settled : Prepare(c, terminal)
    \/ \E found, reworded \in SUBSET Cands : Scanned(found, reworded)
    \/ \E j \in Jobs : CompleteCandidate(j)

LockStep ==
    \/ \E scan \in BOOLEAN : Begin(scan)
    \/ Recovered \/ Reconciled \/ Render \/ EndJournal
    \/ \E c \in Cands, terminal \in Settled : Prepare(c, terminal)
    \/ \E j \in Jobs : CompleteCandidate(j)

JobStep ==
    \/ FindExact \/ Reserve \/ FailQueued
    \/ \E j \in Jobs : Status(j) \/ Cancel(j) \/ Claim(j) \/ Finish(j) \/ CompleteJob(j)

RequestStep ==
    \/ \E c \in Cands : RequestReconciled(c)
    \/ FindExact \/ Reserve \/ Launch \/ HandshakeFails

LEMMA Changes ==
    ASSUME [Next]_vars
    PROVE  /\ UNCHANGED private \/ PrivateStep
           /\ UNCHANGED public \/ Publish
           /\ op' \in {op, Idle} \/ LockStep
           /\ UNCHANGED jobs \/ JobStep
           /\ request' \in {request, NoRequest} \/ RequestStep
           /\ UNCHANGED proposed \/ \E j \in Jobs : CompleteCandidate(j)
  <1> USE DEF Next, Command, Publish, Requests, Worker, Begin, Recovered, Reconciled, Create,
        Change, Prepare, Scanned, RequestReconciled, Render, Refuse, Stops, Abort, Settle, Complete,
        OpenJournal, WriteReceipt, WriteAcceptedResult, EndJournal, RollBack, FindExact, Reserve,
        Launch, Answered, HandshakeFails, FailQueued, RequestStops, Status, Cancel, Claim, Start,
        GetLatest, Check, Failing, Finish, CompleteCandidate, CompleteJob, AgentEnds, WorkerDies,
        WorkerStep, Return, Forget, vars
  <1>1. UNCHANGED private \/ PrivateStep
    BY ZenonT(60) DEF private, PrivateStep
  <1>2. UNCHANGED public \/ Publish
    BY ZenonT(60) DEF public
  <1>3. op' \in {op, Idle} \/ LockStep
    BY ZenonT(60) DEF LockStep
  <1>4. UNCHANGED jobs \/ JobStep
    BY ZenonT(60) DEF placement, JobStep
  <1>5. request' \in {request, NoRequest} \/ RequestStep
    BY ZenonT(60) DEF placement, RequestStep
  <1>6. UNCHANGED proposed \/ \E j \in Jobs : CompleteCandidate(j)
    BY ZenonT(60) DEF placement
  <1>. QED  BY ZenonT(60), <1>1, <1>2, <1>3, <1>4, <1>5, <1>6

-------------------------------------------------------------------------------
(* Types.                                                                     *)

LEMMA Constants ==
    /\ None \notin Cands /\ None \notin Jobs /\ 0 \in 0..MaxView /\ 1 \in 0..MaxView
    /\ 0 \in NJ /\ Jobs \subseteq NJ /\ NoPub.view \in Views
    /\ Idle \in [pc : {"idle"}, scan : BOOLEAN, view : Views, job : NJ]
    /\ MaxView \in Nat /\ MaxFaults \in Nat
    /\ \A j \in Jobs : j >= j
  <1>1. /\ None \notin Cands /\ None \notin Jobs /\ 0 \in 0..MaxView /\ 1 \in 0..MaxView
        /\ 0 \in NJ /\ Jobs \subseteq NJ /\ MaxView \in Nat /\ MaxFaults \in Nat
    BY ConstantsAssumption DEF Jobs, NJ
  <1>2. NoPub.view \in Views
    BY <1>1 DEF NoPub, Views
  <1>3. \A j \in Jobs : j >= j
    BY ConstantsAssumption DEF Jobs
  <1>. QED  BY <1>1, <1>2, <1>3 DEF Idle

LEMMA TypesInit == Init => Types
  <1> SUFFICES ASSUME Init PROVE Types
    OBVIOUS
  <1> USE Constants DEF Init
  <1>1. PrivateOK
    BY DEF PrivateOK, NoCand, Candidate, Statuses
  <1>2. PublicOK
    BY DEF PublicOK, Views, NoPub
  <1>3. PlacementOK
    BY DEF PlacementOK, NoJob, Job, NoRequest, JobRevisions
  <1>4. JobStages
    BY DEF JobStages, NoJob, NoRequest, Idle
  <1>. QED  BY <1>1, <1>2, <1>3, <1>4 DEF Types, TypeOK

\* The view a command renders follows the accepted one.
LEMMA NextView ==
    ASSUME PublicOK, accepted.n < MaxView
    PROVE  /\ [accepted EXCEPT !.n = @ + 1, !.by = None] \in Views
           /\ [accepted EXCEPT !.n = @ + 1, !.by = None].by = None
           /\ \A c \in Cands, new \in SUBSET Cands :
                [n |-> accepted.n + 1, by |-> c, nodes |-> accepted.nodes \cup new] \in Views
  <1>1. accepted \in Views /\ accepted.n + 1 \in 0..MaxView
    BY Constants DEF PublicOK, Views
  <1> DEFINE m == [accepted EXCEPT !.n = @ + 1]
  <1>2. m \in Views
    BY <1>1 DEF Views
  <1>3. [accepted EXCEPT !.n = @ + 1, !.by = None] = [m EXCEPT !.by = None]
    OBVIOUS
  <1> HIDE DEF m
  <1>4. [m EXCEPT !.by = None] \in Views /\ [m EXCEPT !.by = None].by = None
    BY <1>2 DEF Views
  <1>5. ASSUME NEW c \in Cands, NEW new \in SUBSET Cands
        PROVE  [n |-> accepted.n + 1, by |-> c, nodes |-> accepted.nodes \cup new] \in Views
    BY <1>1 DEF Views
  <1>. QED  BY <1>3, <1>4, <1>5

LEMMA PrivateType ==
    ASSUME Types, [Next]_vars
    PROVE  PrivateOK'
  <1> USE DEF Types, TypeOK, PrivateOK
  <1>1. CASE UNCHANGED private
    BY <1>1 DEF private
  <1>2. ASSUME NEW i \in intents, Abort(i) PROVE PrivateOK'
    BY <1>2 DEF Abort
  <1>3. ASSUME NEW i \in intents, Settle(i) PROVE PrivateOK'
    <2>1. i.cand \in Cands /\ i.terminal \in Statuses /\ i.view \in Views
      BY DEF Statuses
    <2>. QED  BY <1>3, <2>1, CandsSet DEF Settle
  <1>4. ASSUME NEW i \in intents, Complete(i) PROVE PrivateOK'
    BY <1>4 DEF Complete
  <1>5. ASSUME NEW c \in Cands, Create(c) PROVE PrivateOK'
    <2>1. New(TRUE) \in Candidate
      BY DEF New, Candidate, Statuses, Pending
    <2>. QED  BY <1>5, <2>1 DEF Create
  <1>6. ASSUME NEW c \in Cands, NEW action \in DOMAIN StatusAfter, Change(c, action)
        PROVE  PrivateOK'
    <2>1. StatusAfter[action] \in Statuses
      BY DEF StatusAfter, Statuses, Pending
    <2>. QED  BY <1>6, <2>1, CandsSet DEF Change
  <1>7. ASSUME NEW c \in Cands, NEW terminal \in Settled, Prepare(c, terminal)
        PROVE  PrivateOK'
    <2> DEFINE new == IF terminal = "merged" THEN {} ELSE {c}
               view == [n |-> accepted.n + 1, by |-> c, nodes |-> accepted.nodes \cup new]
    <2>1. view \in Views
      BY <1>7, NextView DEF Prepare
    <2>2. intents' = intents \cup {[cand |-> c, view |-> view, terminal |-> terminal]}
          /\ UNCHANGED <<cands, confirmed>>
      BY <1>7 DEF Prepare
    <2> HIDE DEF view
    <2>. QED  BY <2>1, <2>2
  <1>8. ASSUME NEW found \in SUBSET Cands, NEW reworded \in SUBSET Cands, Scanned(found, reworded)
        PROVE  PrivateOK'
    <2>1. \A c \in Cands : AfterScan(c, found, reworded) \in Candidate
      BY Refreshed
    <2>. QED  BY <1>8, <2>1 DEF Scanned
  <1>9. ASSUME NEW j \in Jobs, CompleteCandidate(j) PROVE PrivateOK'
    <2>1. CASE StillRuns(j) /\ cands[jobs[j].cand].rev = jobs[j].crev
      <3>1. jobs[j].cand \in Cands
        BY <2>1 DEF StillRuns, JobStages
      <3>. QED  BY <1>9, <2>1, <3>1, CandsRun DEF CompleteCandidate
    <2>2. CASE ~(StillRuns(j) /\ cands[jobs[j].cand].rev = jobs[j].crev)
      BY <1>9, <2>2 DEF CompleteCandidate
    <2>. QED  BY <2>1, <2>2
  <1>. QED
    BY <1>1, <1>2, <1>3, <1>4, <1>5, <1>6, <1>7, <1>8, <1>9, Changes DEF PrivateStep

LEMMA PublicType ==
    ASSUME Types, [Next]_vars
    PROVE  PublicOK'
  <1> USE DEF Types, TypeOK, PublicOK
  <1>1. accepted' \in Views /\ results' \subseteq Views
        /\ pub' \in [stage : {"none", "files", "receipt", "archived"}, view : Views]
    <2>1. CASE UNCHANGED public
      BY <2>1 DEF public
    <2>2. CASE OpenJournal
      BY <2>2 DEF OpenJournal
    <2>3. CASE WriteReceipt
      BY <2>3 DEF WriteReceipt
    <2>4. CASE WriteAcceptedResult
      BY <2>4 DEF WriteAcceptedResult
    <2>5. CASE EndJournal \/ RollBack
      BY SMTT(60), <2>5, Constants DEF EndJournal, RollBack, NoPub
    <2>. QED  BY <2>1, <2>2, <2>3, <2>4, <2>5, Changes DEF Publish
  <1> DEFINE Ops == [pc : {"idle", "recover", "reconcile", "work", "publish", "complete"},
                     scan : BOOLEAN, view : Views, job : NJ]
             Goal == op' \in Ops
  <1>2. Goal
    <2>0. ASSUME NEW view \in Views PROVE [op EXCEPT !.pc = "publish", !.view = view] \in Ops
      <3> DEFINE m == [op EXCEPT !.pc = "publish"]
      <3>1. m \in Ops
        OBVIOUS
      <3> HIDE DEF m
      <3>2. [m EXCEPT !.view = view] \in Ops
        BY <3>1
      <3>. QED  BY <3>2 DEF m
    <2>1. CASE op' \in {op, Idle}
      BY <2>1, Constants
    <2>2. ASSUME NEW scan \in BOOLEAN, Begin(scan) PROVE Goal
      BY <2>2, Constants DEF Begin, Idle
    <2>3. CASE Recovered \/ Reconciled \/ EndJournal
      BY <2>3, Constants DEF Recovered, Reconciled, EndJournal
    <2>4. CASE Render
      <3> DEFINE view == [accepted EXCEPT !.n = @ + 1, !.by = None]
      <3>1. view \in Views
        BY <2>4, NextView DEF Render
      <3>2. op' = [op EXCEPT !.pc = "publish", !.view = view]
        BY <2>4 DEF Render
      <3> HIDE DEF view
      <3>. QED  BY <2>0, <3>1, <3>2
    <2>5. ASSUME NEW c \in Cands, NEW terminal \in Settled, Prepare(c, terminal) PROVE Goal
      <3> DEFINE new == IF terminal = "merged" THEN {} ELSE {c}
                 view == [n |-> accepted.n + 1, by |-> c, nodes |-> accepted.nodes \cup new]
      <3>1. view \in Views
        BY <2>5, NextView DEF Prepare
      <3>2. op' = [op EXCEPT !.pc = "publish", !.view = view]
        BY <2>5 DEF Prepare
      <3> HIDE DEF view
      <3>. QED  BY <2>0, <3>1, <3>2
    <2>6. ASSUME NEW j \in Jobs, CompleteCandidate(j) PROVE Goal
      BY ZenonT(60), <2>6, Constants DEF CompleteCandidate, Idle
    <2>. QED  BY <2>1, <2>2, <2>3, <2>4, <2>5, <2>6, Changes DEF LockStep
  <1>. QED  BY <1>1, <1>2

\* What moves a job on.
Cause(j, s) ==
    \/ /\ Locked
       /\ \/ jobs[j].state \in Claimed /\ cands[jobs[j].cand].run = j /\ s = "completed"
          \/ jobs[j].state = "queued" /\ s \in {"running", "failed", "cancelled"}
          \/ jobs[j].state = "running" /\ s = "cancel_requested"
          \/ jobs[j].state \in Claimed /\ worker[j].pc = "finish" /\ s \in {"failed", "cancelled"}
    \/ CompleteJob(j) /\ s = "completed"

Reserved(j) ==
    /\ Reserve /\ jobs[j] = NoJob
    /\ jobs' = [jobs EXCEPT ![j] = [state |-> "queued", cand |-> request.cand, rev |-> 1,
                                    crev |-> request.crev, view |-> request.view]]

LEMMA JobSteps ==
    ASSUME Types, [Next]_vars
    PROVE  \/ UNCHANGED jobs
           \/ \E j \in Jobs : Reserved(j)
           \/ \E j \in Jobs, s \in Claimed \cup Ended : Moved(j, s) /\ Cause(j, s)
  <1> USE DEF Types, TypeOK, PlacementOK
  <1> DEFINE Goal == \/ UNCHANGED jobs
                     \/ \E j \in Jobs : Reserved(j)
                     \/ \E j \in Jobs, s \in Claimed \cup Ended : Moved(j, s) /\ Cause(j, s)
  <1>1. ASSUME NEW j \in Jobs, Locked, jobs' = [jobs EXCEPT ![j] = AfterRecovery(j)] PROVE Goal
    <2>1. CASE /\ jobs[j].state \in Claimed
               /\ cands[jobs[j].cand].run = j /\ cands[jobs[j].cand].rev > jobs[j].crev
      <3>1. jobs' = [jobs EXCEPT ![j].state = "completed", ![j].rev = @ + 1]
        BY <1>1, <2>1 DEF AfterRecovery
      <3>2. Advances(jobs[j].state, "completed")
        BY <2>1 DEF Advances, Claimed
      <3>3. Moved(j, "completed")
        BY <3>1, <3>2, JobsAdvance
      <3>. QED  BY <1>1, <2>1, <3>3 DEF Cause, Ended
    <2>2. CASE ~(/\ jobs[j].state \in Claimed
                 /\ cands[jobs[j].cand].run = j /\ cands[jobs[j].cand].rev > jobs[j].crev)
      BY <1>1, <2>2 DEF AfterRecovery
    <2>. QED  BY <2>1, <2>2
  <1>2. CASE FindExact
    BY <1>1, <1>2 DEF FindExact
  <1>3. CASE Reserve
    <2>1. CASE UNCHANGED jobs
      BY <2>1
    <2>2. CASE ~UNCHANGED jobs
      <3>1. PICK j \in Jobs :
              /\ Free(j)
              /\ jobs' = [jobs EXCEPT ![j] = [state |-> "queued", cand |-> request.cand, rev |-> 1,
                                              crev |-> request.crev, view |-> request.view]]
        BY <1>3, <2>2 DEF Reserve
      <3>2. jobs[j] = NoJob
        <4>1. j >= j
          BY Constants
        <4>2. jobs[j] = NoJob <=> j >= j
          BY <3>1 DEF Free
        <4>. QED  BY <4>1, <4>2
      <3>. QED  BY <1>3, <3>1, <3>2 DEF Reserved
    <2>. QED  BY <2>1, <2>2
  <1>4. CASE FailQueued
    <2>1. CASE request.job \in Jobs /\ jobs[request.job].state = "queued"
      <3>1. jobs' = [jobs EXCEPT ![request.job].state = "failed", ![request.job].rev = @ + 1]
        BY <1>4, <2>1 DEF FailQueued
      <3>2. Advances(jobs[request.job].state, "failed")
        BY <2>1 DEF Advances
      <3>3. Moved(request.job, "failed")
        BY <2>1, <3>1, <3>2, JobsAdvance
      <3>. QED  BY <1>4, <2>1, <3>3 DEF Cause, Ended, FailQueued
    <2>2. CASE ~(request.job \in Jobs /\ jobs[request.job].state = "queued")
      BY ZenonT(60), <1>4, <2>2 DEF FailQueued
    <2>. QED  BY <2>1, <2>2
  <1>5. ASSUME NEW j \in Jobs, Status(j) PROVE Goal
    BY <1>1, <1>5 DEF Status
  <1>6. ASSUME NEW j \in Jobs, Cancel(j) PROVE Goal
    <2> DEFINE s == IF jobs[j].state = "queued" THEN "cancelled" ELSE "cancel_requested"
    <2>1. jobs' = [jobs EXCEPT ![j].state = s, ![j].rev = @ + 1]
      BY <1>6 DEF Cancel
    <2>2. Advances(jobs[j].state, s)
      BY <1>6 DEF Advances, Cancel
    <2>3. Moved(j, s)
      BY <2>1, <2>2, JobsAdvance
    <2>. QED  BY <1>6, <2>3 DEF Cause, Claimed, Ended, Cancel
  <1>7. ASSUME NEW j \in Jobs, Claim(j) PROVE Goal
    <2>1. CASE jobs[j].state = "queued"
      <3>1. Advances(jobs[j].state, "running")
        BY <2>1 DEF Advances
      <3>2. Moved(j, "running")
        BY <1>7, <2>1, <3>1, JobsAdvance DEF Claim
      <3>. QED  BY <1>7, <2>1, <3>2 DEF Cause, Claimed, Claim
    <2>2. CASE jobs[j].state # "queued"
      BY <1>7, <2>2 DEF Claim
    <2>. QED  BY <2>1, <2>2
  <1>8. ASSUME NEW j \in Jobs, Finish(j) PROVE Goal
    <2>1. CASE jobs[j].rev = worker[j].rev /\ jobs[j].state \in Claimed
      <3> DEFINE s == IF jobs[j].state = "cancel_requested" THEN "cancelled" ELSE "failed"
      <3>1. jobs' = [jobs EXCEPT ![j].state = s, ![j].rev = @ + 1]
        BY <1>8, <2>1 DEF Finish
      <3>2. Advances(jobs[j].state, s)
        BY <2>1 DEF Advances, Claimed
      <3>3. Moved(j, s)
        BY <3>1, <3>2, JobsAdvance
      <3>. QED  BY <1>8, <2>1, <3>3 DEF Cause, Ended, Finish
    <2>2. CASE ~(jobs[j].rev = worker[j].rev /\ jobs[j].state \in Claimed)
      BY <1>8, <2>2 DEF Finish
    <2>. QED  BY <2>1, <2>2
  <1>9. ASSUME NEW j \in Jobs, CompleteJob(j) PROVE Goal
    <2>1. Advances(jobs[j].state, "completed")
      BY <1>9 DEF CompleteJob, JobStages, Advances
    <2>2. Moved(j, "completed")
      BY <1>9, <2>1, JobsAdvance DEF CompleteJob
    <2>. QED  BY <1>9, <2>2 DEF Cause, Ended
  <1>. QED
    BY <1>2, <1>3, <1>4, <1>5, <1>6, <1>7, <1>8, <1>9, Changes DEF JobStep

LEMMA JobsType ==
    ASSUME Types, [Next]_vars
    PROVE  jobs' \in [Jobs -> Job]
  <1>1. ASSUME NEW j \in Jobs, Reserved(j) PROVE jobs' \in [Jobs -> Job]
    <2> DEFINE new == [state |-> "queued", cand |-> request.cand, rev |-> 1,
                       crev |-> request.crev, view |-> request.view]
    <2>4. /\ request.cand \in Cands \cup {None} /\ request.crev \in Nat
          /\ request.view \in 0..MaxView
      BY DEF Types, TypeOK, PlacementOK
    <2>3. 1 \in JobRevisions
      BY DEF JobRevisions
    <2>1. new \in Job /\ jobs \in [Jobs -> Job]
      BY <2>4, <2>3 DEF Types, TypeOK, PlacementOK, Job, Live
    <2>2. jobs' = [jobs EXCEPT ![j] = new]
      BY <1>1 DEF Reserved
    <2> HIDE DEF new
    <2>. QED  BY <2>1, <2>2, Update
  <1>2. UNCHANGED jobs => jobs' \in [Jobs -> Job]
    BY DEF Types, TypeOK, PlacementOK
  <1>. QED  BY <1>1, <1>2, JobSteps DEF Moved

LEMMA RequestType ==
    ASSUME Types, [Next]_vars
    PROVE  /\ request' \in [pc : {"idle", "find", "reserve", "launch", "handshake", "fail"},
                     cand : Cands \cup {None}, view : 0..MaxView, crev : Nat, job : NJ]
           /\ request'.pc # "idle" => request'.cand \in Cands
  <1> USE DEF Types, TypeOK, PlacementOK
  <1> DEFINE Asked == [pc : {"idle", "find", "reserve", "launch", "handshake", "fail"},
                          cand : Cands \cup {None}, view : 0..MaxView, crev : Nat, job : NJ]
             Goal == request' \in Asked /\ (request'.pc # "idle" => request'.cand \in Cands)
  <1>1. request \in Asked /\ (request.pc # "idle" => request.cand \in Cands)
    BY DEF JobStages
  <1>2. CASE request' \in {request, NoRequest}
    <2>1. NoRequest \in Asked /\ NoRequest.pc = "idle"
      BY Constants DEF NoRequest
    <2>. QED  BY <1>1, <1>2, <2>1
  <1>3. ASSUME NEW c \in Cands, RequestReconciled(c) PROVE Goal
    <2>1. accepted.n \in 0..MaxView /\ cands[c].rev \in Nat
      BY DEF PublicOK, PrivateOK, Views, Candidate
    <2>. QED  BY <1>3, <2>1, Constants DEF RequestReconciled
  <1>4. ASSUME request.pc # "idle", NEW pc \in {"reserve", "handshake", "fail"},
               request' = [request EXCEPT !.pc = pc]
        PROVE  Goal
    BY <1>1, <1>4
  <1>5. CASE FindExact \/ Launch \/ HandshakeFails
    BY <1>2, <1>4, <1>5 DEF FindExact, Launch, HandshakeFails, Forget
  <1>6. CASE Reserve
    <2>1. CASE Forget
      BY <1>2, <2>1 DEF Forget
    <2>2. CASE ~Forget
      <3>1. PICK j \in Jobs : request' = [request EXCEPT !.pc = "launch", !.job = j]
        BY <1>6, <2>2 DEF Reserve
      <3> DEFINE m == [request EXCEPT !.pc = "launch"]
      <3>2. m \in Asked /\ m.cand \in Cands
        BY <1>1, <1>6 DEF Reserve
      <3>3. request' = [m EXCEPT !.job = j]
        BY <3>1
      <3> HIDE DEF m
      <3>. QED  BY <3>2, <3>3, Constants
    <2>. QED  BY <2>1, <2>2
  <1>. QED  BY <1>2, <1>3, <1>5, <1>6, Changes DEF RequestStep

LEMMA WorkerType ==
    ASSUME Types, [Next]_vars
    PROVE  worker' \in [Jobs -> [rev : JobRevisions,
             pc : {"none", "claim", "start", "agent", "answered", "no answer", "check", "failing",
                   "finish", "complete", "gone"}]]
  <1> DEFINE Places == {"none", "claim", "start", "agent", "answered", "no answer", "check",
                        "failing", "finish", "complete", "gone"}
             Workers == [rev : JobRevisions, pc : Places]
  <1>1. worker \in [Jobs -> Workers] /\ \A j \in Jobs : jobs[j].rev \in JobRevisions
    BY DEF Types, TypeOK, PlacementOK, Job
  <1>2. ASSUME NEW j, NEW pc \in Places, Goto(j, pc) PROVE worker' \in [Jobs -> Workers]
    BY ZenonT(60), <1>1, <1>2 DEF Goto
  <1>3. ASSUME NEW j, Gone(j) PROVE worker' \in [Jobs -> Workers]
    <2>1. [pc |-> "gone", rev |-> 0] \in Workers
      BY DEF JobRevisions
    <2>. QED  BY <1>1, <1>3, <2>1 DEF Gone
  <1>4. ASSUME NEW j \in Jobs, NEW pc \in Places, Reads(j, pc) PROVE worker' \in [Jobs -> Workers]
    BY <1>1, <1>4 DEF Reads
  <1>5. CASE UNCHANGED worker
    BY <1>1, <1>5
  <1>6. CASE Command \/ Publish
    BY <1>5, <1>6 DEF Command, Publish, Begin, Recovered, Reconciled, Abort, Settle, Complete,
       Create, RequestReconciled, Change, Prepare, Render, Scanned, Refuse, Stops, OpenJournal,
       WriteReceipt, WriteAcceptedResult, EndJournal, RollBack, placement
  <1>7. CASE Requests
    BY ZenonT(60), <1>2, <1>3, <1>5, <1>7 DEF Requests, FindExact, Reserve, Launch, Answered, HandshakeFails,
       FailQueued, RequestStops, Status, Cancel
  <1>8. ASSUME NEW j \in Jobs, Worker(j) PROVE worker' \in [Jobs -> Workers]
    BY <1>2, <1>3, <1>4, <1>5, <1>8 DEF Worker, Claim, Start, GetLatest, Check, Failing, Finish,
       CompleteCandidate, CompleteJob, AgentEnds
  <1>9. ASSUME NEW j \in Jobs, WorkerDies(j) PROVE worker' \in [Jobs -> Workers]
    BY <1>3, <1>9 DEF WorkerDies
  <1>. QED  BY <1>5, <1>6, <1>7, <1>8, <1>9 DEF Next, vars, placement

LEMMA CompleteEntered ==
    ASSUME Types, [Next]_vars, op'.pc = "complete"
    PROVE  op' = op \/ \E j \in Jobs : CompleteCandidate(j)
  <1> USE DEF Types
  <1>1. CASE op' \in {op, Idle}
    BY <1>1 DEF Idle
  <1>2. (\E scan \in BOOLEAN : Begin(scan)) => op'.pc # "complete"
    BY DEF Begin, Idle
  <1>3. Recovered \/ EndJournal => op'.pc # "complete" \/ op' = op
    BY DEF Recovered, EndJournal, Idle, TypeOK, PublicOK
  <1>6. CASE Render
    <2> DEFINE view == [accepted EXCEPT !.n = @ + 1, !.by = None]
    <2>1. op' = [op EXCEPT !.pc = "publish", !.view = view]
      BY <1>6 DEF Render
    <2> HIDE DEF view
    <2>. QED  BY <2>1 DEF TypeOK, PublicOK
  <1>4. Reconciled => op'.pc # "complete"
    BY DEF Reconciled, Idle, TypeOK, PublicOK
  <1>5. ASSUME NEW c \in Cands, NEW terminal \in Settled, Prepare(c, terminal)
        PROVE  op'.pc # "complete"
    <2> DEFINE new == IF terminal = "merged" THEN {} ELSE {c}
               view == [n |-> accepted.n + 1, by |-> c, nodes |-> accepted.nodes \cup new]
    <2>1. op' = [op EXCEPT !.pc = "publish", !.view = view]
      BY <1>5 DEF Prepare
    <2> HIDE DEF view
    <2>. QED  BY <2>1 DEF TypeOK, PublicOK
  <1>. QED  BY <1>1, <1>2, <1>3, <1>4, <1>5, <1>6, Changes DEF LockStep

LEMMA StagesStep ==
    ASSUME Types, [Next]_vars
    PROVE  JobStages'
  <1> USE DEF Types, JobStages
  <1> DEFINE Staged(j) ==
        /\ jobs[j].state = "queued" => jobs[j].rev = 1
        /\ jobs[j].state = "running" => jobs[j].rev = 2
        /\ jobs[j].state = "cancel_requested" => jobs[j].rev = 3
        /\ jobs[j].state # "absent" => jobs[j].cand \in Cands
  <1>1. ASSUME NEW j \in Jobs PROVE Staged(j)'
    <2>1. ASSUME NEW i \in Jobs, Reserved(i) PROVE Staged(j)'
      <3>1. request.cand \in Cands
        BY <2>1 DEF Reserved, Reserve
      <3>2. jobs \in [Jobs -> Job]
        BY DEF TypeOK, PlacementOK
      <3>. QED  BY <2>1, <3>1, <3>2 DEF Reserved
    <2>2. ASSUME NEW i \in Jobs, NEW s \in Claimed \cup Ended, Moved(i, s), Cause(i, s)
          PROVE  Staged(j)'
      <3>1. jobs[i].state # "absent"
        BY <2>2 DEF Cause, Claimed, CompleteJob
      <3>2. s # "queued"
        BY DEF Claimed, Ended
      <3>. QED  BY <2>2, <3>1, <3>2 DEF Moved
    <2>. QED  BY <2>1, <2>2, JobSteps
  <1>2. request'.pc # "idle" => request'.cand \in Cands
    BY RequestType
  <1>3. ASSUME op'.pc = "complete" PROVE op'.job \in Jobs /\ jobs'[op'.job].state = "running"
    <2>1. CASE op' = op
      <3>1. op # Idle
        BY <1>3, <2>1 DEF Idle
      <3>2. UNCHANGED jobs
        BY <1>3, <2>1, <3>1, JobSteps DEF Reserved, Reserve, Cause, CompleteJob, Return, Locked
      <3>. QED  BY <1>3, <2>1, <3>2
    <2>2. ASSUME NEW j \in Jobs, CompleteCandidate(j), op' # op
          PROVE op'.job \in Jobs /\ jobs'[op'.job].state = "running"
      BY <2>2 DEF CompleteCandidate, StillRuns, Idle
    <2>. QED  BY <1>3, <2>1, <2>2, CompleteEntered
  <1>. QED  BY <1>1, <1>2, <1>3

LEMMA TypesStep == Types /\ [Next]_vars => Types'
  <1> SUFFICES ASSUME Types, [Next]_vars PROVE Types'
    OBVIOUS
  <1>1. proposed' \subseteq Jobs
    BY ZenonT(60), Changes DEF Types, TypeOK, PlacementOK, CompleteCandidate
  <1>2. faults' \in 0..MaxFaults
    <2>1. faults' = faults \/ Fault
      BY ZenonT(60) DEF Next, Command, Publish, Requests, Worker, Begin, Recovered, Reconciled, Create,
        Change, Prepare, Scanned, RequestReconciled, Render, Refuse, Stops, Abort, Settle, Complete,
        OpenJournal, WriteReceipt, WriteAcceptedResult, EndJournal, RollBack, FindExact, Reserve,
        Launch, Answered, HandshakeFails, FailQueued, RequestStops, Status, Cancel, Claim, Start,
        GetLatest, Check, Failing, Finish, CompleteCandidate, CompleteJob, AgentEnds, WorkerDies,
        WorkerStep, vars
    <2>. QED  BY <2>1, Constants DEF Types, TypeOK, Fault
  <1>3. PlacementOK'
    BY <1>1, JobsType, RequestType, WorkerType DEF PlacementOK
  <1>. QED  BY <1>2, <1>3, PrivateType, PublicType, StagesStep DEF Types, TypeOK

\* Types: every variable keeps its type, and a job never takes a fifth step.
THEOREM TypeCorrect == Spec => []TypeOK
  <1>1. Types => TypeOK
    BY DEF Types
  <1>. QED  BY <1>1, TypesInit, TypesStep, PTL DEF Spec

-------------------------------------------------------------------------------
(* Confirmations.                                                             *)

LEMMA ConfirmInit == Init => ConfirmInv
  BY DEF Init, ConfirmInv, ConfirmationsSettle, NoPub, Idle

\* Steps that change no status, and neither intents nor what is published.
LEMMA Undisturbed ==
    ASSUME TypeOK, ConfirmInv, UNCHANGED <<intents, confirmed, public>>, op' \in {op, Idle},
           \A c \in Cands : cands'[c].status = cands[c].status
    PROVE  ConfirmInv'
  <1>1. \A i \in intents : i.cand \in Cands
    BY DEF TypeOK, PrivateOK
  <1>. QED  BY <1>1 DEF ConfirmInv, ConfirmationsSettle, Announced, WasAccepted, Confirmable,
              Idle, public

LEMMA SettledStatus ==
    ASSUME Types, NEW i \in intents, Settle(i)
    PROVE  \A d \in Cands : cands'[d].status = IF d = i.cand THEN i.terminal ELSE cands[d].status
  <1>1. i.cand \in Cands /\ i.terminal \in Statuses /\ cands \in [Cands -> Candidate]
    BY DEF Types, TypeOK, PrivateOK, Statuses
  <1>2. cands' = [cands EXCEPT ![i.cand].status = i.terminal, ![i.cand].rev = @ + 1]
    BY DEF Settle
  <1>. QED  BY ZenonT(60), <1>1, <1>2, CandsSet

\* The steps on candidates and intents.
LEMMA ConfirmPrivate ==
    ASSUME Types, ConfirmInv, PrivateStep
    PROVE  ConfirmInv'
  <1> USE DEF ConfirmInv, ConfirmationsSettle, Announced, WasAccepted, Confirmable, Idle, public
  <1>0. /\ cands \in [Cands -> Candidate]
        /\ \A i \in intents : i.cand \in Cands /\ i.terminal \in Settled
    BY DEF Types, TypeOK, PrivateOK
  <1>1. ASSUME NEW i \in intents, Abort(i) PROVE ConfirmInv'
    BY <1>1 DEF Abort
  <1>2. ASSUME NEW i \in intents, Settle(i) PROVE ConfirmInv'
    <2>2. \A d \in Cands : cands'[d].status = IF d = i.cand THEN i.terminal ELSE cands[d].status
      BY <1>2, SettledStatus
    <2>. QED  BY <1>0, <1>2, <2>2 DEF Settle
  <1>3. ASSUME NEW i \in intents, Complete(i) PROVE ConfirmInv'
    BY <1>3 DEF Complete
  <1>4. ASSUME NEW c \in Cands, Create(c) PROVE ConfirmInv'
    BY <1>4 DEF Create, Commanding, Return
  <1>5. ASSUME NEW c \in Cands, NEW action \in DOMAIN StatusAfter, Change(c, action)
        PROVE  ConfirmInv'
    BY <1>5 DEF Change, Commanding, Return
  <1>6. ASSUME NEW c \in Cands, NEW terminal \in Settled, Prepare(c, terminal)
        PROVE  ConfirmInv'
    <2> DEFINE new == IF terminal = "merged" THEN {} ELSE {c}
               view == [n |-> accepted.n + 1, by |-> c, nodes |-> accepted.nodes \cup new]
    <2>1. /\ op' = [op EXCEPT !.pc = "publish", !.view = view]
          /\ intents' = intents \cup {[cand |-> c, view |-> view, terminal |-> terminal]}
          /\ cands[c].status = "pending" /\ UNCHANGED <<cands, confirmed, public>>
          /\ op.pc = "work" /\ ~op.scan
      BY <1>6 DEF Prepare, Commanding, Applicable
    <2> HIDE DEF view
    <2>2. op'.pc = "publish" /\ op'.view = view
      BY <2>1 DEF Types, TypeOK, PublicOK
    <2> DEFINE e == [cand |-> c, view |-> view, terminal |-> terminal]
    <2>3. e.cand = c /\ e.view = view /\ e.terminal = terminal /\ intents' = {e}
      BY <2>1
    <2> HIDE DEF e
    <2>. QED  BY <2>1, <2>2, <2>3 DEF Pending, Settled
  <1>7. ASSUME NEW found \in SUBSET Cands, NEW reworded \in SUBSET Cands, Scanned(found, reworded)
        PROVE  ConfirmInv'
    <2>1. \A c \in Cands : cands'[c] = AfterScan(c, found, reworded)
      BY <1>7 DEF Scanned
    <2>2. \A c \in Cands :
            IF cands[c].status \in Pending \cup {"stale"}
            THEN cands'[c].status \in Pending \cup {"stale"}
            ELSE cands[c].status # "absent" => cands'[c].status = cands[c].status
      BY <1>0, <2>1, Refreshed
    <2>. QED  BY <1>0, <1>7, <2>2 DEF Scanned, Return, Pending, Settled
  <1>8. ASSUME NEW j \in Jobs, CompleteCandidate(j) PROVE ConfirmInv'
    <2>1. CASE StillRuns(j) /\ cands[jobs[j].cand].rev = jobs[j].crev
      <3>1. jobs[j].cand \in Cands
        BY <2>1 DEF StillRuns, Types, JobStages
      <3>2. \A c \in Cands : cands'[c].status = cands[c].status
        BY <1>0, <1>8, <2>1, <3>1, CandsRun DEF CompleteCandidate
      <3>. QED  BY <1>0, <1>8, <2>1, <3>2 DEF CompleteCandidate
    <2>2. CASE ~(StillRuns(j) /\ cands[jobs[j].cand].rev = jobs[j].crev)
      BY <1>8, <2>2, Undisturbed DEF CompleteCandidate, Types
    <2>. QED  BY SMTT(60), <2>1, <2>2
  <1>. QED  BY <1>1, <1>2, <1>3, <1>4, <1>5, <1>6, <1>7, <1>8 DEF PrivateStep

\* The steps of the lock holder and of its publication.
LEMMA ConfirmPublish ==
    ASSUME Types, ConfirmInv, LockStep \/ Publish
    PROVE  ConfirmInv'
  <1> USE DEF ConfirmInv, ConfirmationsSettle, Announced, WasAccepted, Confirmable, Idle,
        private, public
  <1>1. ASSUME NEW scan \in BOOLEAN, Begin(scan) PROVE ConfirmInv'
    BY <1>1 DEF Begin
  <1>2. CASE Recovered
    BY <1>2 DEF Recovered, NoPub, Types, TypeOK, PublicOK
  <1>3. CASE Reconciled
    BY <1>3 DEF Reconciled, Types, TypeOK, PublicOK
  <1>4. CASE Render
    <2> DEFINE view == [accepted EXCEPT !.n = @ + 1, !.by = None]
    <2>1. op' = [op EXCEPT !.pc = "publish", !.view = view] /\ view.by = None
          /\ UNCHANGED <<private, public>>
      BY <1>4, NextView DEF Render, Types, TypeOK
    <2> HIDE DEF view
    <2>2. op'.pc = "publish" /\ op'.view = view
      BY <2>1 DEF Types, TypeOK, PublicOK
    <2>. QED  BY <2>1, <2>2
  <1>5. CASE OpenJournal
    BY <1>5 DEF OpenJournal
  <1>6. CASE WriteReceipt
    BY <1>6 DEF WriteReceipt, Publishing, Types, TypeOK, PublicOK
  <1>7. CASE WriteAcceptedResult
    BY <1>7 DEF WriteAcceptedResult, Publishing, Types, TypeOK, PublicOK
  <1>8. CASE EndJournal
    BY <1>8 DEF EndJournal, NoPub, Types, TypeOK, PublicOK
  <1>9. CASE RollBack
    BY <1>9 DEF RollBack, NoPub
  <1>. QED
    BY <1>1, <1>2, <1>3, <1>4, <1>5, <1>6, <1>7, <1>8, <1>9, ConfirmPrivate
    DEF LockStep, PrivateStep, Publish

LEMMA ConfirmStep == Types /\ ConfirmInv /\ [Next]_vars => ConfirmInv'
  <1> SUFFICES ASSUME Types, ConfirmInv, [Next]_vars PROVE ConfirmInv'
    OBVIOUS
  <1>1. CASE UNCHANGED private /\ UNCHANGED public /\ op' \in {op, Idle}
    BY <1>1, Undisturbed DEF private, Types
  <1>. QED  BY <1>1, Changes, ConfirmPrivate, ConfirmPublish

\* Every accepted confirmation is settled or still announced, no candidate is
\* settled without its publication, and the reconciliation never refuses.
THEOREM EveryConfirmationSettles == Spec => []ConfirmationsSettle
  <1>1. Init => Types /\ ConfirmInv
    BY TypesInit, ConfirmInit
  <1>2. Types /\ ConfirmInv /\ [Next]_vars => (Types /\ ConfirmInv)'
    BY TypesStep, ConfirmStep
  <1>3. ConfirmInv => ConfirmationsSettle
    BY DEF ConfirmInv
  <1>. QED  BY <1>1, <1>2, <1>3, PTL DEF Spec

-------------------------------------------------------------------------------
(* Placements.                                                                *)

LEMMA PlacementInit == Init => PlacementInv
  BY Constants DEF Init, PlacementInv, ResultsBelong, NoJob, NoRequest, NoCand, Idle

\* What happens to a worker.
WorkerChange(j) ==
    \/ worker'[j] = worker[j]
    \/ Launch /\ j = request.job
    \/ HandshakeFails /\ j = request.job /\ worker'[j].pc = "gone"
    \/ /\ worker[j].pc \notin {"none", "gone"} \/ (op.pc = "complete" /\ op.job = j)
       /\ worker'[j].pc = "gone"
    \/ worker[j].pc \notin {"none", "complete", "gone"}

LEMMA WorkerMoves ==
    ASSUME PlacementOK, NEW j \in Jobs, NEW k, NEW pc
    PROVE  /\ Goto(k, pc) => IF j = k THEN worker'[j].pc = pc ELSE worker'[j] = worker[j]
           /\ Gone(k) => IF j = k THEN worker'[j].pc = "gone" ELSE worker'[j] = worker[j]
           /\ Reads(k, pc) => IF j = k THEN worker'[j].pc = pc ELSE worker'[j] = worker[j]
  <1>1. worker \in [Jobs -> [rev : JobRevisions,
             pc : {"none", "claim", "start", "agent", "answered", "no answer", "check", "failing",
                   "finish", "complete", "gone"}]]
    BY DEF PlacementOK
  <1>2. Goto(k, pc) => IF j = k THEN worker'[j].pc = pc ELSE worker'[j] = worker[j]
    BY ZenonT(60), <1>1 DEF Goto
  <1>3. Gone(k) => IF j = k THEN worker'[j].pc = "gone" ELSE worker'[j] = worker[j]
    <2> DEFINE r == [pc |-> "gone", rev |-> 0]
    <2>1. r.pc = "gone" /\ (Gone(k) => worker' = [worker EXCEPT ![k] = r])
      BY DEF Gone
    <2> HIDE DEF r
    <2>. QED  BY <1>1, <2>1
  <1>4. Reads(k, pc) => IF j = k THEN worker'[j].pc = pc ELSE worker'[j] = worker[j]
    <2> DEFINE r == [pc |-> pc, rev |-> jobs[k].rev]
    <2>1. r.pc = pc /\ (Reads(k, pc) => worker' = [worker EXCEPT ![k] = r])
      BY DEF Reads
    <2> HIDE DEF r
    <2>. QED  BY <1>1, <2>1
  <1>. QED  BY <1>2, <1>3, <1>4

LEMMA WorkerSteps ==
    ASSUME Types, [Next]_vars, NEW j \in Jobs
    PROVE  WorkerChange(j)
  <1>1. PlacementOK
    BY DEF Types, TypeOK
  <1>2. CASE UNCHANGED worker
    BY <1>2 DEF WorkerChange
  <1>3. CASE Command \/ Publish
    BY <1>2, <1>3 DEF Command, Publish, Begin, Recovered, Reconciled, Abort, Settle, Complete,
       Create, RequestReconciled, Change, Prepare, Render, Scanned, Refuse, Stops, OpenJournal,
       WriteReceipt, WriteAcceptedResult, EndJournal, RollBack, placement
  <1>4. CASE Launch \/ HandshakeFails
    BY ZenonT(60), <1>1, <1>4, WorkerMoves DEF Launch, HandshakeFails, WorkerChange
  <1>5. CASE Requests /\ ~Launch /\ ~HandshakeFails
    BY <1>2, <1>5 DEF Requests, FindExact, Reserve, Answered, FailQueued, RequestStops, Status,
       Cancel
  <1>6. ASSUME NEW k \in Jobs, Worker(k) PROVE WorkerChange(j)
    BY <1>1, <1>2, <1>6, WorkerMoves DEF Worker, Claim, Start, GetLatest, Check, Failing, Finish,
       CompleteCandidate, CompleteJob, AgentEnds, WorkerChange
  <1>7. ASSUME NEW k \in Jobs, WorkerDies(k) PROVE WorkerChange(j)
    BY SMTT(60), <1>1, <1>7, WorkerMoves DEF WorkerDies, WorkerChange
  <1>. QED  BY <1>2, <1>3, <1>4, <1>5, <1>6, <1>7 DEF Next, vars, placement

\* While a worker completes its job, only its own end or death is a change of the lock.
LEMMA CompleteHolds ==
    ASSUME Types, [Next]_vars, op.pc = "complete"
    PROVE  op' = op \/ worker'[op.job].pc = "gone"
  <1>1. PlacementOK /\ op.job \in Jobs
    BY DEF Types, TypeOK, JobStages
  <1>7. op # Idle
    BY DEF Idle
  <1>2. ASSUME NEW j \in Jobs, CompleteJob(j) \/ WorkerDies(j), op.job = j
        PROVE  worker'[op.job].pc = "gone"
    BY <1>1, <1>2, WorkerMoves DEF CompleteJob, WorkerDies
  <1>3. CASE Command \/ Publish
    BY <1>7, <1>3 DEF Command, Publish, Begin, Recovered, Reconciled, Abort, Settle, Complete,
       Create, RequestReconciled, Change, Prepare, Render, Scanned, Refuse, Stops, OpenJournal,
       WriteReceipt, WriteAcceptedResult, EndJournal, RollBack, Commanding, Publishing
  <1>4. CASE Requests
    BY <1>4 DEF Requests, FindExact, Reserve, Launch, Answered, HandshakeFails, FailQueued,
       RequestStops, Status, Cancel
  <1>5. ASSUME NEW j \in Jobs, Worker(j) PROVE op' = op \/ worker'[op.job].pc = "gone"
    BY <1>7, <1>2, <1>5 DEF Worker, Claim, Start, GetLatest, Check, Failing, Finish,
       CompleteCandidate, CompleteJob, AgentEnds, Locked
  <1>6. ASSUME NEW j \in Jobs, WorkerDies(j) PROVE op' = op \/ worker'[op.job].pc = "gone"
    BY <1>2, <1>6 DEF WorkerDies
  <1>. QED  BY <1>3, <1>4, <1>5, <1>6 DEF Next, vars

LEMMA CompletedRun ==
    ASSUME Types, NEW j \in Jobs, CompleteCandidate(j), ~UNCHANGED cands, NEW c \in Cands
    PROVE  cands'[c].run = cands[c].run \/ (cands'[c].run = j /\ j \in proposed')
  <1>1. StillRuns(j) /\ cands[jobs[j].cand].rev = jobs[j].crev
    BY DEF CompleteCandidate
  <1>2. jobs[j].cand \in Cands /\ cands \in [Cands -> Candidate]
    BY <1>1 DEF StillRuns, Types, JobStages, TypeOK, PrivateOK
  <1>3. /\ j \in proposed'
        /\ cands' = [cands EXCEPT ![jobs[j].cand].rev = @ + 1, ![jobs[j].cand].run = j]
    BY SMTT(60), <1>1 DEF CompleteCandidate
  <1>4. cands'[c].run = IF c = jobs[j].cand THEN j ELSE cands[c].run
    BY ZenonT(60), <1>2, <1>3, CandsRun
  <1>. QED  BY <1>3, <1>4

LEMMA RunSteps ==
    ASSUME Types, [Next]_vars, NEW c \in Cands
    PROVE  \/ cands'[c].run \in {cands[c].run, None}
           \/ \E j \in Jobs : cands'[c].run = j /\ j \in proposed'
  <1> USE DEF Types, TypeOK, PrivateOK
  <1> DEFINE Goal == \/ cands'[c].run \in {cands[c].run, None}
                     \/ \E j \in Jobs : cands'[c].run = j /\ j \in proposed'
  <1>1. CASE UNCHANGED cands
    BY <1>1
  <1>2. ASSUME NEW i \in intents, Settle(i) PROVE Goal
    <2>1. i.cand \in Cands /\ i.terminal \in Statuses
      BY DEF Statuses
    <2>2. cands' = [cands EXCEPT ![i.cand].status = i.terminal, ![i.cand].rev = @ + 1]
      BY <1>2 DEF Settle
    <2>. QED  BY <2>1, <2>2, CandsSet
  <1>3. ASSUME NEW d \in Cands, Create(d) PROVE Goal
    BY <1>3 DEF Create, New
  <1>4. ASSUME NEW d \in Cands, NEW action \in DOMAIN StatusAfter, Change(d, action) PROVE Goal
    <2>1. StatusAfter[action] \in Statuses
      BY DEF StatusAfter, Statuses, Pending
    <2>. QED  BY <1>4, <2>1, CandsSet DEF Change
  <1>5. ASSUME NEW found \in SUBSET Cands, NEW reworded \in SUBSET Cands, Scanned(found, reworded)
        PROVE  Goal
    <2>1. cands'[c] = AfterScan(c, found, reworded)
      BY <1>5 DEF Scanned
    <2>. QED  BY <2>1, Refreshed
  <1>6. ASSUME NEW j \in Jobs, CompleteCandidate(j), ~UNCHANGED cands PROVE Goal
    BY <1>6, CompletedRun
  <1>. QED
    BY <1>1, <1>2, <1>3, <1>4, <1>5, <1>6, Changes
    DEF PrivateStep, private, Abort, Complete, Prepare

\* A reserved job was free; any other step leaves a job that exists in existence.
LEMMA ReservedJob ==
    ASSUME Types, NEW i \in Jobs, Reserved(i)
    PROVE  /\ jobs[i].state = "absent" /\ jobs'[i].state = "queued"
           /\ \A k \in Jobs \ {i} : jobs'[k] = jobs[k]
  <1> DEFINE new == [state |-> "queued", cand |-> request.cand, rev |-> 1,
                     crev |-> request.crev, view |-> request.view]
  <1>1. jobs' = [jobs EXCEPT ![i] = new] /\ new.state = "queued"
    BY DEF Reserved
  <1>2. jobs[i].state = "absent"
    <2>1. NoJob.state = "absent"
      BY DEF NoJob
    <2>. QED  BY <2>1 DEF Reserved
  <1>3. jobs \in [Jobs -> Job]
    BY DEF Types, TypeOK, PlacementOK
  <1> HIDE DEF new
  <1>. QED  BY <1>1, <1>2, <1>3

LEMMA StaysCreated ==
    ASSUME Types, [Next]_vars, NEW j \in Jobs, jobs[j].state # "absent"
    PROVE  jobs'[j].state # "absent"
  <1>1. ASSUME NEW i \in Jobs, Reserved(i) PROVE jobs'[j].state # "absent"
    BY <1>1, ReservedJob
  <1>2. ASSUME NEW i \in Jobs, NEW s \in Claimed \cup Ended, Moved(i, s)
        PROVE  jobs'[j].state # "absent"
    BY <1>2 DEF Moved, Claimed, Ended
  <1>. QED  BY <1>1, <1>2, JobSteps

LEMMA ProposedSteps ==
    ASSUME Types, [Next]_vars
    PROVE  /\ proposed \subseteq proposed'
           /\ \A j \in proposed' \ proposed :
                /\ CompleteCandidate(j) /\ jobs'[j].state = "running"
                /\ worker'[j].pc = "complete" /\ op'.pc = "complete" /\ op'.job = j
  <1>1. ASSUME NEW j \in Jobs, CompleteCandidate(j)
        PROVE  /\ proposed \subseteq proposed'
               /\ \A k \in proposed' \ proposed :
                    /\ CompleteCandidate(k) /\ jobs'[k].state = "running"
                    /\ worker'[k].pc = "complete" /\ op'.pc = "complete" /\ op'.job = k
    BY ZenonT(60), <1>1 DEF CompleteCandidate, StillRuns, Idle
  <1>. QED  BY <1>1, Changes

LEMMA ResultsStep ==
    ASSUME Types, PlacementInv, [Next]_vars
    PROVE  ResultsBelong'
  <1>0. proposed \subseteq Jobs
    BY DEF Types, TypeOK, PlacementOK
  <1>1. ASSUME NEW j \in Jobs, jobs'[j].state = "completed" PROVE j \in proposed'
    <2>1. jobs[j].state = "completed" => j \in proposed'
      BY ProposedSteps DEF PlacementInv, ResultsBelong
    <2>2. ASSUME NEW i \in Jobs, Reserved(i) PROVE jobs[j].state = "completed"
      BY <1>1, <2>2, ReservedJob
    <2>3. ASSUME NEW i \in Jobs, NEW s \in Claimed \cup Ended, Moved(i, s), Cause(i, s),
                 jobs[j].state # "completed"
          PROVE  j \in proposed'
      <3>1. i = j /\ s = "completed"
        BY <1>1, <2>3 DEF Moved
      <3>2. CASE jobs[j].state \in Claimed /\ cands[jobs[j].cand].run = j
        <4>1. jobs[j].cand \in Cands
          BY <3>2 DEF Types, JobStages, Claimed
        <4>. QED  BY <3>2, <4>1, ProposedSteps DEF PlacementInv
      <3>3. CASE CompleteJob(j)
        BY <3>3, ProposedSteps DEF CompleteJob, PlacementInv
      <3>. QED  BY <2>3, <3>1, <3>2, <3>3 DEF Cause
    <2>. QED  BY <1>1, <2>1, <2>2, <2>3, JobSteps
  <1>2. ASSUME NEW j \in Jobs, j \in proposed' PROVE jobs'[j].state \in Claimed \cup {"completed"}
    <2>1. CASE j \notin proposed
      BY <1>2, <2>1, ProposedSteps DEF Claimed
    <2>2. CASE j \in proposed
      <3>1. jobs[j].state \in Claimed \cup {"completed"} /\ worker[j].pc \in {"gone", "complete"}
        BY <2>2 DEF PlacementInv, ResultsBelong
      <3>2. ASSUME NEW i \in Jobs, Reserved(i) PROVE jobs'[j] = jobs[j]
        BY <3>1, <3>2, ReservedJob DEF Claimed
      <3>3. ASSUME NEW i \in Jobs, NEW s \in Claimed \cup Ended, Moved(i, s), Cause(i, s)
            PROVE  jobs'[j].state \in Claimed \cup {"completed"}
        <4>1. CASE i # j
          BY <3>1, <3>3, <4>1 DEF Moved
        <4>2. CASE i = j
          BY <3>1, <3>3, <4>2 DEF Moved, Cause, Claimed
        <4>. QED  BY <4>1, <4>2
      <3>. QED  BY <3>1, <3>2, <3>3, JobSteps
    <2>. QED  BY <2>1, <2>2
  <1>. QED  BY <1>1, <1>2 DEF ResultsBelong

\* A reservation is for a job nobody works on; only Reserve leads to "launch".
LEMMA LaunchEntered ==
    ASSUME Types, [Next]_vars, request'.pc \in {"launch", "handshake"}
    PROVE  \/ request' = request
           \/ Launch /\ request'.pc = "handshake" /\ request'.job = request.job
           \/ Reserve /\ UNCHANGED worker /\ \E j \in Jobs : request'.job = j /\ Reserved(j)
  <1>0. request \in [pc : {"idle", "find", "reserve", "launch", "handshake", "fail"},
                     cand : Cands \cup {None}, view : 0..MaxView, crev : Nat, job : NJ]
    BY DEF Types, TypeOK, PlacementOK
  <1>1. CASE request' \in {request, NoRequest}
    BY <1>1 DEF NoRequest
  <1>2. ASSUME NEW c \in Cands, RequestReconciled(c) PROVE FALSE
    BY <1>2 DEF RequestReconciled
  <1>3. CASE FindExact
    BY <1>0, <1>3 DEF FindExact, Forget, NoRequest
  <1>4. CASE HandshakeFails
    BY <1>0, <1>4 DEF HandshakeFails
  <1>5. CASE Launch
    BY <1>0, <1>5 DEF Launch
  <1>6. CASE Reserve
    <2>1. ~Forget
      BY DEF Forget, NoRequest
    <2>2. PICK j \in Jobs :
            /\ Free(j)
            /\ jobs' = [jobs EXCEPT ![j] = [state |-> "queued", cand |-> request.cand, rev |-> 1,
                                            crev |-> request.crev, view |-> request.view]]
            /\ request' = [request EXCEPT !.pc = "launch", !.job = j]
      BY <1>6, <2>1 DEF Reserve
    <2>3. jobs[j] = NoJob
      <3>1. j >= j
        BY Constants
      <3>2. jobs[j] = NoJob <=> j >= j
        BY <2>2 DEF Free
      <3>. QED  BY <3>1, <3>2
    <2>4. request'.job = j
      BY <1>0, <2>2
    <2>5. Reserved(j)
      BY <1>6, <2>2, <2>3 DEF Reserved
    <2>. QED  BY <1>6, <2>4, <2>5 DEF Reserve
  <1>. QED  BY <1>1, <1>2, <1>3, <1>4, <1>5, <1>6, Changes DEF RequestStep

\* A launch finds the job without a worker.
LEMMA LaunchStep ==
    ASSUME Types, PlacementInv, [Next]_vars
    PROVE  /\ request'.pc \in {"launch", "handshake"} =>
                request'.job \in Jobs /\ jobs'[request'.job].state # "absent"
           /\ request'.pc = "launch" => worker'[request'.job].pc = "none"
  <1>1. ASSUME request'.pc \in {"launch", "handshake"}
        PROVE  request'.job \in Jobs /\ jobs'[request'.job].state # "absent"
    <2>1. CASE request' = request \/ (Launch /\ request'.job = request.job)
      BY <1>1, <2>1, StaysCreated DEF PlacementInv, Launch
    <2>2. ASSUME NEW j \in Jobs, request'.job = j, Reserved(j)
          PROVE  request'.job \in Jobs /\ jobs'[request'.job].state # "absent"
      BY <2>2, ReservedJob
    <2>. QED  BY <1>1, <2>1, <2>2, LaunchEntered
  <1>2. ASSUME request'.pc = "launch" PROVE worker'[request'.job].pc = "none"
    <2>1. CASE request' = request
      <3>1. request.job \in Jobs /\ worker[request.job].pc = "none"
        BY <1>2, <2>1 DEF PlacementInv
      <3>2. ~Launch /\ ~HandshakeFails
        BY <1>2, <2>1 DEF Launch, HandshakeFails, Types, TypeOK, PlacementOK
      <3>3. ~(op.pc = "complete" /\ op.job = request.job)
        BY <3>1 DEF PlacementInv
      <3>. QED  BY <2>1, <3>1, <3>2, <3>3, WorkerSteps DEF WorkerChange
    <2>2. ASSUME NEW j \in Jobs, request'.job = j, Reserved(j), UNCHANGED worker
          PROVE  worker'[request'.job].pc = "none"
      BY <2>2, ReservedJob DEF PlacementInv
    <2>. QED  BY <1>2, <2>1, <2>2, LaunchEntered
  <1>. QED  BY <1>1, <1>2

\* A job that does not exist has no worker.
LEMMA AbsentStep ==
    ASSUME Types, PlacementInv, [Next]_vars, NEW j \in Jobs, jobs'[j].state = "absent"
    PROVE  worker'[j].pc = "none"
  <1>1. jobs[j].state = "absent" /\ worker[j].pc = "none"
    BY StaysCreated DEF PlacementInv
  <1>2. ~((Launch \/ HandshakeFails) /\ j = request.job)
    BY <1>1 DEF Launch, HandshakeFails, PlacementInv
  <1>3. ~(op.pc = "complete" /\ op.job = j)
    BY <1>1 DEF Types, JobStages
  <1>. QED  BY <1>1, <1>2, <1>3, WorkerSteps DEF WorkerChange

\* Once a worker has proposed, it only ends its job or is gone.
LEMMA ProposedWorker ==
    ASSUME Types, PlacementInv, [Next]_vars, NEW j \in proposed'
    PROVE  \/ worker'[j].pc = "gone"
           \/ worker'[j].pc = "complete" /\ op'.pc = "complete" /\ op'.job = j
  <1>0. proposed \subseteq Jobs
    BY DEF Types, TypeOK, PlacementOK
  <1>1. CASE j \notin proposed
    BY <1>1, ProposedSteps
  <1>2. CASE j \in proposed
    <2>1. \/ worker[j].pc = "gone"
          \/ worker[j].pc = "complete" /\ op.pc = "complete" /\ op.job = j
      BY <1>2 DEF PlacementInv
    <2>2. worker'[j] = worker[j] \/ worker'[j].pc = "gone"
      <3>1. ~(Launch /\ j = request.job)
        BY <2>1 DEF Launch, PlacementInv
      <3>. QED  BY <1>0, <1>2, <2>1, <3>1, WorkerSteps DEF WorkerChange
    <2>. QED  BY <2>1, <2>2, CompleteHolds
  <1>. QED  BY <1>1, <1>2

LEMMA PlacementStep == Types /\ PlacementInv /\ [Next]_vars => PlacementInv'
  <1> SUFFICES ASSUME Types, PlacementInv, [Next]_vars PROVE PlacementInv'
    OBVIOUS
  <1>1. \A c \in Cands, j \in Jobs : cands'[c].run = j => j \in proposed'
    BY RunSteps, ProposedSteps, Constants DEF PlacementInv
  <1>2. op'.pc = "complete" => op'.job \in proposed'
    <2>1. ASSUME NEW j \in Jobs, CompleteCandidate(j), op'.pc = "complete", op' # op
          PROVE  op'.job \in proposed'
      BY <2>1 DEF CompleteCandidate, Idle
    <2>. QED  BY <2>1, CompleteEntered, ProposedSteps DEF PlacementInv
  <1>3. \A j \in Jobs : jobs'[j].state = "absent" => worker'[j].pc = "none"
    BY AbsentStep
  <1>4. \A j \in proposed' : \/ worker'[j].pc = "gone"
                             \/ worker'[j].pc = "complete" /\ op'.pc = "complete" /\ op'.job = j
    BY ProposedWorker
  <1>. QED  BY <1>1, <1>2, <1>3, <1>4, ResultsStep, LaunchStep DEF PlacementInv

\* A job is completed exactly when its proposal is on its candidate, or about to be.
THEOREM ResultsAlwaysBelong == Spec => []ResultsBelong
  <1>1. Init => Types /\ PlacementInv
    BY TypesInit, PlacementInit
  <1>2. Types /\ PlacementInv /\ [Next]_vars => (Types /\ PlacementInv)'
    BY TypesStep, PlacementStep
  <1>3. PlacementInv => ResultsBelong
    BY DEF PlacementInv
  <1>. QED  BY <1>1, <1>2, <1>3, PTL DEF Spec

===============================================================================
