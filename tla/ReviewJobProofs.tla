--------------------------- MODULE ReviewJobProofs ---------------------------
(***************************************************************************)
(* Proofs about ReviewJob, for any jobs, workers, sessions and bounds: its  *)
(* types, the validity of its records, the owner that nobody overrides, and *)
(* the progress that is accepted and synced.                                *)
(***************************************************************************)
EXTENDS ReviewJob, FiniteSetTheorems, TLAPS

Worker == [pc : Stages, job : Jobs \cup {NoJob}, attempt : 0..MaxAttempts,
           parent : BOOLEAN, behind : BOOLEAN, work : BOOLEAN,
           rec : BOOLEAN, acc : BOOLEAN, code : Errors]

Line == [job : Jobs, attempt : 1..MaxAttempts]

OuterTyped ==
    /\ receipt = NoReceipt \/ receipt \in [job : Jobs, attempt : 1..MaxAttempts,
                                         session : 1..Sessions, from : 0..MaxLine]
    /\ ledger \in [1..Sessions -> Seq(Line)]
    /\ vault \in [1..Sessions -> Nat]
    /\ \A s \in 1..Sessions : vault[s] <= Len(ledger[s]) /\ Len(ledger[s]) <= MaxLine

Typed ==
    /\ jobs \in [Jobs -> Job \cup {NoJob}]
    /\ worker \in [Workers -> Worker]
    /\ files \in [Jobs -> SUBSET Payloads]
    /\ OuterTyped

\* The leases: one worker at a time has them.
OneInside == \A v, w \in Workers :
    worker[v].pc \notin Outside /\ worker[w].pc \notin Outside => v = w

------------------------------------------------------------------------------
(* The inductive invariant. *)

Going(r) == r.state \in ActiveStates
Clean == {"", "cleanup_complete"}
Private == {"publishing", "retained", "apply_recovery"}

\* What every stored record satisfies, whoever wrote it and wherever it stopped.
Lifecycle(r) ==
    /\ Going(r) <=> r.phase # ""
    /\ Going(r) => r.error = ""
    /\ r.token => Going(r) /\ r.phase = "preflight" /\ ~r.owner
    /\ r.token /\ r.attempt = 1 => r.payload = "" /\ ~r.pending
    /\ r.state = "queued" => r.token /\ r.attempt = 1
    /\ r.owner => Going(r)
    /\ r.cancel => r.state \in {"cancel_requested", "failed", "cancelled"}
    /\ r.state = "completed" => r.index = Len(r.frozen) /\ r.payload \in Clean
    /\ r.state \in {"completed", "cancelled"} => ~r.pending /\ r.payload # "apply_recovery"

Progress(r) ==
    /\ r.frozen \in FrozenLists
    /\ r.frozen = <<>> => r.payload = "" /\ r.pubs = 0
    /\ r.index <= Len(r.frozen)
    /\ r.index < Len(r.frozen) => r.cur <= Upper(r)
    /\ r.index = Len(r.frozen) => r.cur = 0
    /\ r.pending => r.packets > 0 /\ r.index < Len(r.frozen)

Payload(r) ==
    /\ r.pubs = 2 => r.result > 0
    /\ r.payload \in Private => r.pubs > 0
    /\ r.payload \in {"publishing", "retained"} => Going(r) /\ r.phase # "preflight"
    /\ r.payload = "apply_recovery" =>
          r.pubs = 2 /\ (Going(r) \/ r.error \in {"apply_recovery", "agent"})
    \* A packet that is not accepted yet is the next one of the job.
    /\ r.payload \in Private /\ ~r.pending /\ r.phase # "syncing" =>
          r.index < Len(r.frozen) /\ r.cur = r.from /\ r.from < Upper(r)

Valid(r) == Lifecycle(r) /\ Progress(r) /\ Payload(r)

\* L stands for the ledger and V for the vault.
LineSet(j, L) == {x \in (1..Sessions) \X (1..MaxLine) :
    x[2] <= Len(L[x[1]]) /\ L[x[1]][x[2]].job = j}
Lines(j, L) == Cardinality(LineSet(j, L))

\* The line after the progress of j is its own: accepted, and not counted yet.
Uncounted(j, r, L) ==
    /\ r.index < Len(r.frozen) /\ r.cur < Len(L[Session(r)])
    /\ L[Session(r)][r.cur + 1].job = j

\* Where the ledger may have lines of j.
Placed(j, r, L) == \A s \in 1..Sessions : \A l \in 1..Len(L[s]) :
    L[s][l].job = j =>
        \/ \E i \in 1..r.index : r.frozen[i].session = s
        \/ r.index < Len(r.frozen) /\ s = Session(r) /\ l <= r.cur + 1 /\ l <= Upper(r)

\* Every session that is done, and every line counted, is accepted and synced.
Covered(r, L, V) ==
    /\ \A i \in 1..r.index : /\ Len(L[r.frozen[i].session]) >= r.frozen[i].upper
                             /\ V[r.frozen[i].session] >= r.frozen[i].upper
    /\ r.index < Len(r.frozen) =>
          r.cur <= Len(L[Session(r)]) /\ (~r.pending => r.cur <= V[Session(r)])

Counted(j, r, L) == Lines(j, L) = r.packets + IF Uncounted(j, r, L) THEN 1 ELSE 0

Ledgered(j, r, L, V) == Covered(r, L, V) /\ Placed(j, r, L) /\ Counted(j, r, L)

FilesOf(r, f) ==
    /\ r.payload \in Clean => f = {}
    /\ r.pubs = 1 => "proposal" \notin f

\* The record r of job j and its files f.
Kept(j, r, f, L, V) ==
    IF r = NoJob THEN f = {} /\ Lines(j, L) = 0
    ELSE Valid(r) /\ FilesOf(r, f) /\ Ledgered(j, r, L, V)

\* A worker x that has the leases, its record r and the files f of its job.
Begun == {"packet", "keepPacket", "agent", "proposal", "keepProposal", "beginApply"}
Applying == {"apply", "commit", "accept"}
Syncing == {"sync", "syncing", "clear"}
Cleaning == {"mark", "remove", "settle", "advance"}

Owner(x, r) ==
    /\ x.pc = "start" /\ ~x.behind =>
          /\ r.token /\ r.attempt = x.attempt
          /\ r.state = "cancel_requested" => r.attempt > 1
    /\ x.pc \in Owned \cup {"handshake"} =>
          /\ r.owner /\ r.attempt = x.attempt /\ r.state \in {"running", "cancel_requested"}
          /\ x.behind => r.state = "cancel_requested"
          /\ x.work => r.frozen # <<>>
    /\ x.pc \in {"failRemove", "failSettle"} /\ ~x.behind =>
          r.state = "failed" /\ r.payload = "cleanup_pending"

Starting(x, r) ==
    /\ x.pc \in {"start", "handshake", "route"} => ~x.work
    /\ x.pc \in {"handshake", "route", "recover"} => r.phase = "preflight"
    /\ x.pc \in {"handshake", "route"} /\ r.attempt = 1 => r.payload = "" /\ ~r.pending
    /\ x.pc = "recover" => x.rec /\ (x.acc <=> r.pending \/ r.payload = "apply_recovery")

Packing(x, r) ==
    /\ x.pc \in {"loop", "prepare", "advance", "complete"} => r.payload \in Clean /\ ~r.pending
    /\ x.pc = "prepare" => r.index < Len(r.frozen) /\ r.phase = "preparing"
    /\ x.pc \in Begun \cup Applying => ~r.pending /\ r.pubs > 0
    /\ x.pc \in {"packet", "keepPacket"} =>
          r.payload = "publishing" /\ r.phase = "preparing" /\ r.pubs = 1
    /\ x.pc = "agent" => r.payload = "retained" /\ r.phase = "reviewing"
    /\ x.pc \in {"proposal", "keepProposal"} =>
          r.payload = "publishing" /\ r.phase = "reviewing" /\ r.pubs = 2
    /\ x.pc = "beginApply" => r.payload = "retained" /\ r.phase = "reviewing" /\ r.pubs = 2
    /\ x.pc \in Applying =>
          r.phase = "applying" /\ r.payload \in {"retained", "apply_recovery"} /\ r.pubs = 2

Ending(x, r) ==
    /\ x.pc \in Syncing => r.pending \/ r.frozen = <<>>
    /\ x.pc \in {"syncing", "clear"} => r.phase = "syncing"
    /\ x.pc \in Cleaning => ~r.pending /\ ((x.rec => x.acc) => r.index < Len(r.frozen))
    /\ x.pc \in {"remove", "settle", "cancelRemove", "cancelSettle"} => r.payload = "cleanup_pending"
    /\ x.pc = "advance" => x.acc
    /\ x.pc \in {"cancelRemove", "cancelSettle"} => ~r.pending
    /\ x.pc = "cancelled" => ~r.pending /\ r.payload \in Clean

\* Who works without the private directories has nothing there.
Opened(x, r) ==
    /\ x.pc \in {"recover", "loop", "prepare"} \cup Begun \cup Applying \cup Cleaning => x.work
    /\ x.pc \in Syncing => x.work \/ r.frozen = <<>>
    /\ x.pc \in {"cancel", "complete"} => x.work \/ r.payload = ""
    /\ x.pc = "fail" /\ ~x.work =>
          /\ r.payload \notin {"publishing", "retained"}
          /\ r.payload = "apply_recovery" =>
                x.code \in {"apply_recovery", "agent"} /\ r.phase # "syncing"

\* What it knows of files, ledger and vault, which no one else changes now.
Sees(x, r, f, L, V) ==
    /\ x.pc \in {"settle", "cancelSettle"} => f = {}
    /\ x.pc = "failSettle" /\ ~x.behind => f = {}
    /\ x.pc = "commit" => Len(L[Session(r)]) = r.from
    /\ x.pc = "accept" => Uncounted(x.job, r, L)
    /\ x.pc = "clear" => \A s \in 1..Sessions : V[s] = Len(L[s])

Place(x, r, f, L, V) ==
    /\ Owner(x, r) /\ Starting(x, r) /\ Packing(x, r) /\ Ending(x, r) /\ Opened(x, r)
    /\ Sees(x, r, f, L, V)

\* A process that is not idle belongs to a stored job.
Placing(w) ==
    worker[w].pc # "idle" =>
        /\ worker[w].job \in Jobs /\ R(w) # NoJob
        /\ worker[w].pc \in {"launch", "spawned"} => ~worker[w].work
        /\ worker[w].pc \notin Outside =>
              Place(worker[w], R(w), files[worker[w].job], ledger, vault)

Inv ==
    /\ Typed /\ OneInside
    /\ \A j \in Jobs : Kept(j, jobs[j], files[j], ledger, vault)
    /\ \A w \in Workers : Placing(w)

------------------------------------------------------------------------------
(* Lines of a job. *)

\* There are finitely many lines.
LEMMA LinesFinite ==
    ASSUME NEW j, NEW L
    PROVE  /\ IsFiniteSet(LineSet(j, L))
           /\ Lines(j, L) \in Nat /\ Lines(j, L) <= Sessions * MaxLine
           /\ Sessions * MaxLine \in Nat
           /\ Lines(j, L) = 0 => LineSet(j, L) = {}
  <1> DEFINE All == (1..Sessions) \X (1..MaxLine)
  <1>1. /\ IsFiniteSet(1..Sessions) /\ Cardinality(1..Sessions) = Sessions
        /\ IsFiniteSet(1..MaxLine) /\ Cardinality(1..MaxLine) = MaxLine
    BY FS_Interval, ReviewJobAssumption
  <1>2. IsFiniteSet(All) /\ Cardinality(All) = Sessions * MaxLine
    <2>1. /\ IsFiniteSet(All)
          /\ Cardinality(All) = Cardinality(1..Sessions) * Cardinality(1..MaxLine)
      BY <1>1, FS_Product, Zenon
    <2>. QED  BY <1>1, <2>1, Zenon
  <1>3. LineSet(j, L) \in SUBSET All
    BY DEF LineSet
  <1> HIDE DEF All
  <1>4. IsFiniteSet(LineSet(j, L)) /\ Cardinality(LineSet(j, L)) <= Sessions * MaxLine
    BY <1>2, <1>3, FS_Subset
  <1>5. Cardinality(LineSet(j, L)) \in Nat /\ Cardinality(All) \in Nat
    BY <1>2, <1>4, FS_CardinalityType
  <1>6. Cardinality(LineSet(j, L)) = 0 => LineSet(j, L) = {}
    BY <1>4, FS_EmptySet
  <1>. QED  BY <1>2, <1>4, <1>5, <1>6 DEF Lines

LEMMA NoLines ==
    ASSUME Typed, NEW j, Lines(j, ledger) = 0,
           NEW s \in 1..Sessions, NEW l \in 1..Len(ledger[s])
    PROVE  ledger[s][l].job # j
  <1>1. LineSet(j, ledger) = {}
    BY LinesFinite
  <1>2. l \in 1..MaxLine
    BY ReviewJobAssumption DEF Typed, OuterTyped
  <1>3. <<s, l>> \in (1..Sessions) \X (1..MaxLine) /\ l <= Len(ledger[s])
    BY <1>2 DEF Typed
  <1>. QED  BY <1>1, <1>3 DEF LineSet

------------------------------------------------------------------------------
(* What a step of the worker that has the leases may assume. *)

Files(w) == files[worker[w].job]

LEMMA Inside ==
    ASSUME Inv, NEW w \in Workers, worker[w].pc \notin Outside
    PROVE  /\ worker[w] \in Worker /\ worker[w].job \in Jobs /\ worker[w].job # NoJob
           /\ R(w) \in Job /\ R(w) # NoJob /\ Files(w) \subseteq Payloads
           /\ Valid(R(w)) /\ FilesOf(R(w), Files(w))
           /\ Ledgered(worker[w].job, R(w), ledger, vault)
           /\ Place(worker[w], R(w), Files(w), ledger, vault)
           /\ \A v \in Workers \ {w} : worker[v].pc \in Outside
  <1>1. worker[w] \in Worker /\ worker[w].pc # "idle"
    BY DEF Inv, Typed, Outside
  <1>2. /\ worker[w].job \in Jobs /\ R(w) # NoJob
        /\ Place(worker[w], R(w), Files(w), ledger, vault)
    BY <1>1 DEF Inv, Placing, Files
  <1>3. R(w) \in Job /\ Files(w) \subseteq Payloads
    BY <1>2 DEF Inv, Typed, R, Files
  <1>4. Kept(worker[w].job, R(w), Files(w), ledger, vault)
    BY <1>2 DEF Inv, R, Files
  <1>. QED  BY <1>1, <1>2, <1>3, <1>4, ReviewJobAssumption DEF Kept, Inv, OneInside

\* A record of the same progress is as good as before while ledger and vault stay.
SameProgress(q, r) ==
    /\ q.frozen = r.frozen /\ q.index = r.index /\ q.cur = r.cur
    /\ q.packets = r.packets /\ q.pending = r.pending

LEMMA SameLedger ==
    ASSUME NEW j, NEW r, NEW q, NEW L, NEW V, SameProgress(q, r), Ledgered(j, r, L, V)
    PROVE  Ledgered(j, q, L, V)
  <1>1. Covered(q, L, V) /\ Placed(j, q, L)
    BY DEF SameProgress, Covered, Placed, Session, Upper, Ledgered
  <1>2. Uncounted(j, q, L) <=> Uncounted(j, r, L)
    BY DEF SameProgress, Uncounted, Session
  <1>3. Counted(j, q, L)
    BY <1>2 DEF SameProgress, Counted, Ledgered
  <1>. QED  BY <1>1, <1>3 DEF Ledgered

\* A step of the worker w that has the leases changes its process, its record,
\* its files, and what is outside in a way that keeps the other jobs' progress.
LEMMA Global ==
    ASSUME Inv, NEW w \in Workers, worker[w].pc \notin Outside,
           NEW x \in Worker, NEW q \in Job, NEW f \in SUBSET Payloads,
           worker' = [worker EXCEPT ![w] = x],
           jobs' = [jobs EXCEPT ![worker[w].job] = q],
           files' = [files EXCEPT ![worker[w].job] = f],
           OuterTyped', \A k \in Jobs \ {worker[w].job} : Kept(k, jobs[k], files[k], ledger', vault'),
           Valid(q), FilesOf(q, f), Ledgered(worker[w].job, q, ledger', vault'),
           x.pc # "idle" => x.job = worker[w].job, x.pc \notin {"launch", "spawned"},
           x.pc \notin Outside => Place(x, q, f, ledger', vault')
    PROVE  Inv'
  <1> DEFINE j == worker[w].job
  <1>0. /\ Typed /\ j \in Jobs /\ q # NoJob
        /\ \A v \in Workers \ {w} : worker[v].pc \in Outside
    BY Inside, ReviewJobAssumption DEF Inv
  <1>1. /\ jobs'[j] = q /\ files'[j] = f /\ worker'[w] = x
        /\ \A k \in Jobs \ {j} : jobs'[k] = jobs[k] /\ files'[k] = files[k]
        /\ \A v \in Workers \ {w} : worker'[v] = worker[v]
    BY <1>0 DEF Typed
  <1>2. Typed'
    BY <1>0 DEF Typed
  <1>3. OneInside'
    BY <1>0, <1>1 DEF OneInside
  <1>4. ASSUME NEW k \in Jobs PROVE Kept(k, jobs[k], files[k], ledger, vault)'
    <2>1. CASE k = j
      <3>1. Kept(j, q, f, ledger', vault')
        BY <1>0 DEF Kept
      <3>. QED  BY <1>1, <2>1, <3>1
    <2>2. CASE k # j
      BY <1>1, <2>2
    <2>. QED  BY <2>1, <2>2
  <1>5. ASSUME NEW v \in Workers PROVE Placing(v)'
    <2>1. CASE v = w
      BY <1>0, <1>1, <2>1 DEF Placing, R
    <2>2. CASE v # w
      <3>1. worker'[v] = worker[v] /\ worker[v].pc \in Outside
        BY <1>0, <1>1, <2>2
      <3>2. /\ worker[v].pc # "idle" => worker[v].job \in Jobs /\ jobs[worker[v].job] # NoJob
            /\ worker[v].pc \in {"launch", "spawned"} => ~worker[v].work
        BY DEF Inv, Placing, R
      <3>3. worker[v].pc # "idle" => jobs'[worker[v].job] # NoJob
        BY <1>0, <1>1, <3>2
      <3>. QED  BY <3>1, <3>2, <3>3 DEF Placing, R
    <2>. QED  BY <2>1, <2>2
  <1>. QED  BY <1>2, <1>3, <1>4, <1>5 DEF Inv

\* Most steps change nothing outside.
LEMMA Local ==
    ASSUME Inv, NEW w \in Workers, worker[w].pc \notin Outside,
           NEW x \in Worker, NEW q \in Job, NEW f \in SUBSET Payloads,
           worker' = [worker EXCEPT ![w] = x],
           jobs' = [jobs EXCEPT ![worker[w].job] = q],
           files' = [files EXCEPT ![worker[w].job] = f],
           UNCHANGED <<receipt, ledger, vault>>,
           Valid(q), FilesOf(q, f), Ledgered(worker[w].job, q, ledger, vault),
           x.pc # "idle" => x.job = worker[w].job, x.pc \notin {"launch", "spawned"},
           x.pc \notin Outside => Place(x, q, f, ledger, vault)
    PROVE  Inv'
  <1>1. OuterTyped'
    BY DEF Inv, Typed, OuterTyped
  <1>2. \A k \in Jobs : Kept(k, jobs[k], files[k], ledger', vault')
    BY DEF Inv
  <1>3. Ledgered(worker[w].job, q, ledger', vault')
    OBVIOUS
  <1>4. x.pc \notin Outside => Place(x, q, f, ledger', vault')
    OBVIOUS
  <1>. QED  BY <1>1, <1>2, <1>3, <1>4, Global

\* The same of a step that writes neither record nor file.
LEMMA LocalGo ==
    ASSUME Inv, NEW w \in Workers, worker[w].pc \notin Outside, NEW x \in Worker,
           worker' = [worker EXCEPT ![w] = x],
           UNCHANGED <<jobs, files, receipt, ledger, vault>>,
           x.pc # "idle" => x.job = worker[w].job, x.pc \notin {"launch", "spawned"},
           x.pc \notin Outside => Place(x, R(w), Files(w), ledger, vault)
    PROVE  Inv'
  <1> DEFINE j == worker[w].job
  <1>1. /\ j \in Jobs /\ R(w) \in Job /\ Files(w) \in SUBSET Payloads
        /\ Valid(R(w)) /\ FilesOf(R(w), Files(w)) /\ Ledgered(j, R(w), ledger, vault)
    BY Inside
  <1>2. /\ jobs' = [jobs EXCEPT ![j] = R(w)] /\ files' = [files EXCEPT ![j] = Files(w)]
    BY DEF R, Files, Inv, Typed
  <1>. QED  BY <1>1, <1>2, Local

------------------------------------------------------------------------------
(* The launching command and the ends of a process. *)

\* A process that has no leases afterwards disturbs nothing.
LEMMA Leaves ==
    ASSUME Inv, NEW w \in Workers, NEW x \in Worker, x.pc \in Outside,
           x.pc # "idle" => worker[w].pc # "idle" /\ x.job = worker[w].job,
           x.pc \in {"launch", "spawned"} => ~x.work,
           worker' = [worker EXCEPT ![w] = x],
           UNCHANGED <<jobs, files, receipt, ledger, vault>>
    PROVE  Inv'
  <1>1. Typed' /\ worker'[w] = x /\ \A v \in Workers \ {w} : worker'[v] = worker[v]
    BY DEF Inv, Typed, OuterTyped
  <1>2. OneInside'
    BY <1>1 DEF Inv, OneInside
  <1>3. ASSUME NEW v \in Workers PROVE Placing(v)'
    BY <1>1 DEF Inv, Placing, R
  <1>. QED  BY <1>1, <1>2, <1>3 DEF Inv

LEMMA IdleType == Idle \in Worker /\ Idle.pc = "idle"
  BY ReviewJobAssumption DEF Idle, Worker, Stages, Outside, Errors

LEMMA GoneType ==
    ASSUME Inv, NEW w \in Workers, NEW code \in Errors, worker[w].pc # "idle"
    PROVE  LET x == Gone(w, code) IN
           /\ x \in Worker /\ x.pc \in {"idle", "dead"} /\ x.pc \in Outside
           /\ x.pc # "idle" => x.job = worker[w].job
  <1>1. worker[w] \in Worker /\ worker[w].job \in Jobs
    BY DEF Inv, Typed, Placing
  <1>2. CASE worker[w].parent
    <2>1. Gone(w, code) = [Idle EXCEPT !.pc = "dead", !.job = worker[w].job, !.parent = TRUE,
                                       !.attempt = worker[w].attempt, !.code = code]
      BY <1>2 DEF Gone
    <2>. QED  BY ZenonT(60), <1>1, <2>1, IdleType DEF Worker, Stages, Outside
  <1>3. CASE ~worker[w].parent
    BY <1>3, IdleType DEF Gone, Outside
  <1>. QED  BY <1>2, <1>3

LEMMA Exits ==
    ASSUME Inv, NEW w \in Workers, NEW code \in Errors, worker[w].pc # "idle", Exit(w, code),
           UNCHANGED <<jobs, files, receipt, ledger, vault>>
    PROVE  Inv'
  BY GoneType, Leaves DEF Exit

\* A process moves to another place and keeps the rest.
LEMMA MoveType ==
    ASSUME Inv, NEW w \in Workers, NEW pc \in Stages
    PROVE  /\ worker[w] \in Worker /\ [worker[w] EXCEPT !.pc = pc] \in Worker
           /\ [worker EXCEPT ![w].pc = pc] = [worker EXCEPT ![w] = [worker[w] EXCEPT !.pc = pc]]
  BY DEF Inv, Typed, Worker

LEMMA SamePlace ==
    ASSUME NEW x, NEW y, NEW r, NEW f, NEW L, NEW V,
           y.pc = x.pc, y.job = x.job, y.attempt = x.attempt, y.behind = x.behind,
           y.work = x.work, y.rec = x.rec, y.acc = x.acc, y.code = x.code,
           Place(x, r, f, L, V)
    PROVE  Place(y, r, f, L, V)
  <1>1. Owner(y, r)
    BY DEF Place, Owner
  <1>2. Starting(y, r)
    BY DEF Place, Starting
  <1>5. Packing(y, r)
    BY DEF Place, Packing
  <1>6. Ending(y, r)
    BY DEF Place, Ending
  <1>3. Opened(y, r)
    BY DEF Place, Opened
  <1>4. Sees(y, r, f, L, V)
    BY DEF Place, Sees
  <1>. QED  BY <1>1, <1>2, <1>3, <1>4, <1>5, <1>6 DEF Place

LEMMA DieInv ==
    ASSUME Inv, NEW w \in Workers, Die(w) \/ ParentDies(w) \/ Spawn(w) \/ AcquireFails(w)
    PROVE  Inv'
  <1>1. CASE Die(w) \/ AcquireFails(w) \/ (Spawn(w) /\ Exit(w, "apply_recovery"))
    BY <1>1, Exits DEF Die, AcquireFails, Errors, Spawn, outer
  <1>2. CASE Spawn(w) /\ Go(w, "spawned")
    <2>1. "spawned" \in Stages \cap Outside
      BY DEF Stages, Outside
    <2> DEFINE x == [worker[w] EXCEPT !.pc = "spawned"]
    <2>2. x \in Worker /\ worker' = [worker EXCEPT ![w] = x] /\ worker[w] \in Worker
      BY <1>2, <2>1, MoveType DEF Go
    <2>3. x.pc = "spawned" /\ x.job = worker[w].job /\ ~x.work /\ worker[w].pc # "idle"
      BY <1>2, <2>2 DEF Worker, Spawn, Inv, Placing
    <2>. QED  BY <1>2, <2>1, <2>2, <2>3, Leaves DEF Spawn, outer
  <1>3. CASE ParentDies(w)
    <2>1. worker[w] \in Worker /\ Idle \in Worker /\ Idle.pc = "idle"
      BY IdleType DEF Inv, Typed
    <2>2. CASE worker[w].pc \in {"launch", "dead"}
      <3>1. worker' = [worker EXCEPT ![w] = Idle]
        BY <1>3, <2>2 DEF ParentDies
      <3>. QED  BY <1>3, <2>1, <2>2, <3>1, Leaves DEF ParentDies, outer, Outside
    <2>3. CASE worker[w].pc \notin {"launch", "dead"}
      <3> DEFINE x == [worker[w] EXCEPT !.parent = FALSE]
      <3>1. /\ x \in Worker /\ worker' = [worker EXCEPT ![w] = x]
            /\ x.pc = worker[w].pc /\ x.job = worker[w].job
        BY <1>3, <2>1, <2>3 DEF ParentDies, Worker
      <3>2. CASE worker[w].pc \in Outside /\ worker[w].pc # "idle"
        <4>1. x.work = worker[w].work /\ (x.pc \in {"launch", "spawned"} => ~worker[w].work)
          BY <2>1, <3>1, <3>2 DEF Worker, Inv, Placing
        <4>. QED  BY <1>3, <3>1, <3>2, <4>1, Leaves DEF ParentDies, outer
      <3>3. CASE worker[w].pc \notin Outside
        <4>1. Place(worker[w], R(w), Files(w), ledger, vault)
          BY <3>3, Inside
        <4>2. /\ x.behind = worker[w].behind /\ x.attempt = worker[w].attempt
              /\ x.work = worker[w].work /\ x.rec = worker[w].rec
              /\ x.acc = worker[w].acc /\ x.code = worker[w].code
          BY <2>1 DEF Worker
        <4>3. Place(x, R(w), Files(w), ledger, vault)
          BY <3>1, <4>1, <4>2, SamePlace
        <4>. QED  BY <1>3, <3>1, <3>3, <4>3, LocalGo DEF ParentDies, outer, Outside
      <3>4. CASE worker[w].pc = "idle"
        BY ZenonT(60), <1>3, <3>1, <3>4, Leaves DEF ParentDies, outer, Outside
      <3>. QED  BY <3>2, <3>3, <3>4
    <2>. QED  BY <2>2, <2>3
  <1>. QED  BY <1>1, <1>2, <1>3 DEF Spawn

LEMMA FrozenType ==
    ASSUME NEW r \in Job
    PROVE  /\ Len(r.frozen) \in Nat /\ Len(r.frozen) <= Sessions /\ r.frozen \in [1..Len(r.frozen) -> Frozen]
           /\ r.index \in Nat /\ r.cur \in 0..MaxLine /\ r.packets \in 0..(Sessions * MaxLine)
           /\ r.pubs \in 0..2 /\ r.result \in 0..MaxAttempts /\ r.from \in 0..MaxLine
           /\ r.attempt \in 1..MaxAttempts /\ r.pending \in BOOLEAN /\ r.frozen \in Seq(Frozen)
           /\ r.index < Len(r.frozen) =>
                 r.frozen # <<>> /\ Session(r) \in 1..Sessions /\ Upper(r) \in 1..MaxLine /\ r.index + 1 \in 1..Len(r.frozen)
  <1>1. PICK n \in 0..Sessions : r.frozen \in [1..n -> Frozen]
    BY DEF Job
  <1>2. Len(r.frozen) = n /\ n \in Nat
    BY <1>1, ReviewJobAssumption
  <1>5. Len(r.frozen) \in Nat /\ Len(r.frozen) <= Sessions
    BY <1>2, ReviewJobAssumption
  <1>3. /\ r.index \in Nat /\ r.cur \in 0..MaxLine /\ r.packets \in 0..(Sessions * MaxLine)
        /\ r.pubs \in 0..2 /\ r.result \in 0..MaxAttempts /\ r.from \in 0..MaxLine
        /\ r.attempt \in 1..MaxAttempts /\ r.pending \in BOOLEAN
    BY ReviewJobAssumption DEF Job
  <1>4. ASSUME r.index < Len(r.frozen)
        PROVE  /\ Session(r) \in 1..Sessions /\ Upper(r) \in 1..MaxLine /\ r.frozen # <<>>
               /\ r.index + 1 \in 1..Len(r.frozen)
    <2>1. r.index + 1 \in 1..n
      BY SMTT(60), <1>2, <1>3, <1>4
    <2>2. r.frozen[r.index + 1] \in Frozen
      BY <1>1, <2>1
    <2>. QED  BY <1>2, <2>1, <2>2 DEF Frozen, Session, Upper
  <1>. QED  BY SMTT(60), <1>1, <1>2, <1>3, <1>4, <1>5


LEMMA FrozenAt ==
    ASSUME NEW r \in Job, NEW i \in 1..Len(r.frozen)
    PROVE  /\ r.frozen[i].session \in 1..Sessions /\ r.frozen[i].upper \in 1..MaxLine
           /\ r.frozen[i].upper \in Nat
  <1>1. r.frozen[i] \in Frozen
    <2>1. r.frozen \in [1..Len(r.frozen) -> Frozen]
      BY FrozenType
    <2>. QED  BY <2>1
  <1>2. r.frozen[i].session \in 1..Sessions /\ r.frozen[i].upper \in 1..MaxLine
    BY <1>1 DEF Frozen
  <1>. QED  BY <1>2, ReviewJobAssumption

\* What the owner of a job knows of its record.
LEMMA Owning ==
    ASSUME Inv, NEW w \in Workers, worker[w].pc \in Owned \cup {"handshake"}
    PROVE  /\ worker[w].pc \notin Outside
           /\ R(w).owner /\ R(w).attempt = worker[w].attempt
           /\ R(w).state \in {"running", "cancel_requested"}
           /\ worker[w].behind => R(w).state = "cancel_requested"
           /\ worker[w].work => R(w).frozen # <<>>
           /\ Going(R(w)) /\ ~R(w).token /\ R(w).phase # "" /\ R(w).error = ""
  <1>1. worker[w].pc \notin Outside
    BY DEF Owned, Outside
  <1>2. Owner(worker[w], R(w)) /\ Valid(R(w)) /\ R(w) \in Job
    BY <1>1, Inside DEF Place
  <1>. QED  BY <1>1, <1>2 DEF Owner, Valid, Lifecycle, Going, ActiveStates

\* A failing worker says so, and what it has kept is cleaned up or retained.
LEMMA Fails ==
    ASSUME Inv, NEW w \in Workers, NEW x \in Worker, NEW f, NEW L, NEW V,
           worker[w].pc \in Owned \cup {"handshake"},
           x.pc = "fail", x.job = worker[w].job, x.attempt = worker[w].attempt,
           x.work = worker[w].work, x.behind => worker[w].behind,
           ~x.work => /\ R(w).payload \notin {"publishing", "retained"}
                      /\ R(w).payload = "apply_recovery" =>
                            x.code \in {"apply_recovery", "agent"} /\ R(w).phase # "syncing"
    PROVE  Place(x, R(w), f, L, V)
  <1>1. Owner(x, R(w))
    BY Owning DEF Owner
  <1>2. Starting(x, R(w)) /\ Packing(x, R(w)) /\ Ending(x, R(w))
    BY DEF Starting, Packing, Ending, Begun, Applying, Syncing, Cleaning
  <1>3. Opened(x, R(w)) /\ Sees(x, R(w), f, L, V)
    BY DEF Opened, Sees, Begun, Applying, Syncing, Cleaning
  <1>. QED  BY <1>1, <1>2, <1>3 DEF Place

LEMMA FailingInv ==
    ASSUME Inv, NEW w \in Workers, NEW code \in Errors, NEW behind \in BOOLEAN,
           worker[w].pc \in Owned \cup {"handshake"}, behind => worker[w].behind,
           worker' = [worker EXCEPT ![w] =
               [worker[w] EXCEPT !.pc = "fail", !.code = code, !.behind = behind]],
           UNCHANGED <<jobs, files, receipt, ledger, vault>>,
           ~worker[w].work => /\ R(w).payload \notin {"publishing", "retained"}
                              /\ R(w).payload = "apply_recovery" =>
                                    code \in {"apply_recovery", "agent"} /\ R(w).phase # "syncing"
    PROVE  Inv'
  <1> DEFINE x == [worker[w] EXCEPT !.pc = "fail", !.code = code, !.behind = behind]
  <1>1. worker[w].pc \notin Outside /\ worker[w] \in Worker
    BY Owning, Inside
  <1>2. /\ x \in Worker /\ x.pc = "fail" /\ x.job = worker[w].job /\ x.work = worker[w].work
        /\ x.attempt = worker[w].attempt /\ x.behind = behind /\ x.code = code
    BY ZenonT(60), <1>1 DEF Worker, Stages, Owned
  <1> HIDE DEF x
  <1>3. Place(x, R(w), Files(w), ledger, vault)
    BY <1>2, Fails
  <1>4. worker' = [worker EXCEPT ![w] = x]
    BY DEF x
  <1>. QED  BY <1>1, <1>2, <1>3, <1>4, LocalGo

LEMMA FailingIs ==
    ASSUME Inv, NEW w \in Workers, NEW code, Failing(w, code)
    PROVE  worker' = [worker EXCEPT ![w] =
               [worker[w] EXCEPT !.pc = "fail", !.code = code, !.behind = worker[w].behind]]
  BY DEF Failing, Inv, Typed, Worker

------------------------------------------------------------------------------
(* The places before the commit. *)

\* A publication that is announced.
LEMMA PublishType ==
    ASSUME NEW r \in Job, NEW n \in 0..2, NEW a \in 0..MaxAttempts
    PROVE  [r EXCEPT !.payload = "publishing", !.pubs = n, !.result = a] \in Job
  BY DEF Job, PayloadStates

LEMMA PublishFromType ==
    ASSUME NEW r \in Job, NEW n \in 0..2, NEW a \in 0..MaxAttempts, NEW c \in 0..MaxLine
    PROVE  [r EXCEPT !.payload = "publishing", !.pubs = n, !.result = a, !.from = c] \in Job
  BY DEF Job, PayloadStates

LEMMA PrepareInv ==
    ASSUME Inv, NEW w \in Workers, Prepare(w)
    PROVE  Inv'
  <1> DEFINE r == R(w)
             x == [worker[w] EXCEPT !.pc = "packet"]
             q == [r EXCEPT !.payload = "publishing", !.pubs = 1, !.result = 0, !.from = Cursor(r)]
  <1>0. worker[w].pc = "prepare" /\ worker[w].pc \in Owned /\ worker[w].pc \notin Outside
    BY DEF Prepare, At, Outside, Owned
  <1>1. /\ worker[w] \in Worker /\ worker[w].job \in Jobs /\ r \in Job
        /\ Valid(r) /\ FilesOf(r, Files(w)) /\ Ledgered(worker[w].job, r, ledger, vault)
        /\ Place(worker[w], r, Files(w), ledger, vault) /\ Files(w) \in SUBSET Payloads
    BY <1>0, Inside
  <1>2. /\ x \in Worker /\ x.pc = "packet" /\ x.job = worker[w].job /\ x.attempt = worker[w].attempt
        /\ x.behind = worker[w].behind /\ x.work = worker[w].work /\ x.rec = worker[w].rec
        /\ x.acc = worker[w].acc /\ x.code = worker[w].code
    BY <1>1 DEF Worker, Stages, Owned
  <1>5. /\ Starting(worker[w], r) /\ Packing(worker[w], r) /\ Ending(worker[w], r)
        /\ Opened(worker[w], r) /\ Sees(worker[w], r, Files(w), ledger, vault)
    BY <1>1 DEF Place
  <1>6. /\ r.payload \in Clean /\ ~r.pending /\ r.phase = "preparing" /\ r.index < Len(r.frozen)
        /\ worker[w].work /\ Cursor(r) = r.cur /\ Cursor(r) < Upper(r) /\ Cursor(r) \in 0..MaxLine
        /\ 1 \in 0..2 /\ 0 \in 0..MaxAttempts /\ r.frozen # <<>> /\ Files(w) = {}
    <2>1. r.payload \in Clean /\ ~r.pending /\ r.phase = "preparing" /\ r.index < Len(r.frozen)
      BY <1>0, <1>5 DEF Packing
    <2>2. worker[w].work /\ Files(w) = {}
      BY <1>0, <1>1, <1>5, <2>1 DEF Opened, FilesOf
    <2>3. r.frozen # <<>> /\ r.cur \in 0..MaxLine
      BY <1>1, <2>1, FrozenType
    <2>. QED  BY <2>1, <2>2, <2>3, ReviewJobAssumption DEF Prepare
  <1>3. /\ q \in Job /\ SameProgress(q, r) /\ q.state = r.state /\ q.attempt = r.attempt
        /\ q.token = r.token /\ q.owner = r.owner /\ q.cancel = r.cancel /\ q.phase = r.phase
        /\ q.payload = "publishing" /\ q.pubs = 1 /\ q.result = 0 /\ q.from = Cursor(r)
        /\ q.error = r.error
    <2>1. q \in Job
      BY <1>1, <1>6, PublishFromType
    <2>. QED  BY <1>1, <2>1 DEF Job, SameProgress
  <1>4. /\ worker' = [worker EXCEPT ![w] = x]
        /\ jobs' = [jobs EXCEPT ![worker[w].job] = q]
        /\ files' = [files EXCEPT ![worker[w].job] = Files(w)]
        /\ UNCHANGED <<receipt, ledger, vault>>
    BY <1>1 DEF Prepare, Write, WriteAnyway, Go, Adopt, R, outer, Files, Inv, Typed, Worker
  <1> HIDE DEF x, q
  <1>7. Valid(q)
    <2>1. Lifecycle(q)
      BY <1>0, <1>1, <1>3, <1>6, Owning DEF Valid, Lifecycle, SameProgress, Going, ActiveStates, Clean
    <2>2. Progress(q)
      BY <1>1, <1>3, <1>6, FrozenType DEF Valid, Progress, SameProgress, Upper
    <2>3. Payload(q)
      <3>1. (q.pubs = 2 => q.result > 0) /\ q.pubs > 0 /\ q.payload # "apply_recovery"
        BY <1>3, <1>6
      <3>2. Going(q) /\ q.phase # "preflight"
        BY <1>0, <1>3, <1>6, Owning DEF Going, ActiveStates
      <3>3. q.index < Len(q.frozen) /\ q.cur = q.from /\ q.from < Upper(q)
        BY <1>3, <1>6 DEF SameProgress, Upper
      <3>. QED  BY <3>1, <3>2, <3>3 DEF Payload
    <2>. QED  BY <2>1, <2>2, <2>3 DEF Valid
  <1>8. FilesOf(q, Files(w)) /\ Ledgered(worker[w].job, q, ledger, vault)
    BY <1>1, <1>3, <1>6, SameLedger DEF FilesOf, Clean, SameProgress
  <1>a. /\ ~q.pending /\ q.phase = "preparing" /\ q.index < Len(q.frozen) /\ x.work
        /\ q.frozen # <<>> /\ q.payload = "publishing" /\ q.pubs = 1 /\ q.result = 0
    BY <1>1, <1>2, <1>3, <1>6 DEF SameProgress
  <1>9. Place(x, q, Files(w), ledger, vault)
    <2>1. Owner(x, q)
      BY ZenonT(60), <1>0, <1>2, <1>3, Owning DEF Owner, SameProgress
    <2>2. Starting(x, q)
      BY <1>2, <1>a DEF Starting
    <2>3. Packing(x, q)
      BY <1>2, <1>a DEF Packing, Begun, Applying, Clean
    <2>4. Ending(x, q) /\ Opened(x, q) /\ Sees(x, q, Files(w), ledger, vault)
      BY <1>2, <1>a DEF Ending, Opened, Sees, Begun, Applying, Syncing, Cleaning, Clean
    <2>. QED  BY <2>1, <2>2, <2>3, <2>4 DEF Place
  <1>. QED  BY <1>0, <1>1, <1>2, <1>3, <1>4, <1>7, <1>8, <1>9, Local

LEMMA WritePacketInv ==
    ASSUME Inv, NEW w \in Workers, WritePacket(w)
    PROVE  Inv'
  <1> DEFINE r == R(w)
             x == [worker[w] EXCEPT !.pc = "keepPacket"]
             f == Files(w) \cup {"packet"}
  <1>0. worker[w].pc = "packet" /\ worker[w].pc \in Owned /\ worker[w].pc \notin Outside
    BY DEF WritePacket, At, Outside, Owned
  <1>1. /\ worker[w] \in Worker /\ worker[w].job \in Jobs /\ r \in Job
        /\ Valid(r) /\ FilesOf(r, Files(w)) /\ Ledgered(worker[w].job, r, ledger, vault)
        /\ Place(worker[w], r, Files(w), ledger, vault) /\ Files(w) \in SUBSET Payloads
    BY <1>0, Inside
  <1>2. /\ x \in Worker /\ x.pc = "keepPacket" /\ x.job = worker[w].job
        /\ x.attempt = worker[w].attempt /\ x.behind = worker[w].behind /\ x.work = worker[w].work
        /\ x.rec = worker[w].rec /\ x.acc = worker[w].acc /\ x.code = worker[w].code
    BY <1>1 DEF Worker, Stages, Owned
  <1>5. /\ Starting(worker[w], r) /\ Packing(worker[w], r) /\ Ending(worker[w], r)
        /\ Opened(worker[w], r) /\ Sees(worker[w], r, Files(w), ledger, vault)
    BY <1>1 DEF Place
  <1>6. /\ r.payload = "publishing" /\ ~r.pending /\ r.phase = "preparing" /\ r.pubs = 1
        /\ worker[w].work
    BY <1>0, <1>1, <1>5 DEF Starting, Packing, Ending, Opened, Sees, Begun, Applying, Syncing, Cleaning, Clean
  <1>3. f \in SUBSET Payloads
    BY <1>1 DEF Payloads
  <1>4. /\ worker' = [worker EXCEPT ![w] = x]
        /\ jobs' = [jobs EXCEPT ![worker[w].job] = r]
        /\ files' = [files EXCEPT ![worker[w].job] = f]
        /\ UNCHANGED <<receipt, ledger, vault>>
    BY <1>1 DEF WritePacket, Write, WriteAnyway, Go, Adopt, R, outer, Files, Inv, Typed, Worker
  <1> HIDE DEF x, f
  <1>8. FilesOf(r, f) /\ Ledgered(worker[w].job, r, ledger, vault)
    BY <1>1, <1>3, <1>6, SameLedger DEF FilesOf, Clean, SameProgress, f, Payloads
  <1>9. Place(x, r, f, ledger, vault)
    <2>1. Owner(x, r)
      BY <1>0, <1>2, Owning DEF Owner
    <2>2. Starting(x, r)
      BY <1>2, <1>6 DEF Starting
    <2>3. Packing(x, r)
      BY <1>2, <1>6 DEF Packing, Begun, Applying, Clean
    <2>4. Ending(x, r) /\ Opened(x, r) /\ Sees(x, r, f, ledger, vault)
      BY <1>2, <1>6 DEF Ending, Opened, Sees, Begun, Applying, Syncing, Cleaning, Clean
    <2>. QED  BY <2>1, <2>2, <2>3, <2>4 DEF Place
  <1>. QED  BY <1>0, <1>1, <1>2, <1>3, <1>4, <1>8, <1>9, Local

LEMMA KeepPacketInv ==
    ASSUME Inv, NEW w \in Workers, KeepPacket(w)
    PROVE  Inv'
  <1> DEFINE r == R(w)
             x == [worker[w] EXCEPT !.pc = "agent"]
             q == [r EXCEPT !.phase = "reviewing", !.payload = "retained"]
  <1>0. worker[w].pc = "keepPacket" /\ worker[w].pc \in Owned /\ worker[w].pc \notin Outside
    BY DEF KeepPacket, At, Outside, Owned
  <1>1. /\ worker[w] \in Worker /\ worker[w].job \in Jobs /\ r \in Job
        /\ Valid(r) /\ FilesOf(r, Files(w)) /\ Ledgered(worker[w].job, r, ledger, vault)
        /\ Place(worker[w], r, Files(w), ledger, vault) /\ Files(w) \in SUBSET Payloads
    BY <1>0, Inside
  <1>2. /\ x \in Worker /\ x.pc = "agent" /\ x.job = worker[w].job /\ x.attempt = worker[w].attempt
        /\ x.behind = worker[w].behind /\ x.work = worker[w].work /\ x.rec = worker[w].rec
        /\ x.acc = worker[w].acc /\ x.code = worker[w].code
    BY <1>1 DEF Worker, Stages, Owned
  <1>5. /\ Starting(worker[w], r) /\ Packing(worker[w], r) /\ Ending(worker[w], r)
        /\ Opened(worker[w], r) /\ Sees(worker[w], r, Files(w), ledger, vault)
    BY <1>1 DEF Place
  <1>6. /\ r.payload = "publishing" /\ ~r.pending /\ r.phase = "preparing" /\ r.pubs = 1
        /\ worker[w].work
    BY <1>0, <1>1, <1>5 DEF Starting, Packing, Ending, Opened, Sees, Begun, Applying, Syncing, Cleaning, Clean
  <1>3. /\ q \in Job /\ SameProgress(q, r) /\ q.state = r.state /\ q.attempt = r.attempt
        /\ q.token = r.token /\ q.owner = r.owner /\ q.cancel = r.cancel /\ q.phase = "reviewing"
        /\ q.payload = "retained" /\ q.pubs = r.pubs /\ q.result = r.result /\ q.from = r.from
        /\ q.error = r.error
    BY <1>1, <1>6, ReviewJobAssumption DEF Job, Phases, States, ActiveStates, PayloadStates, Errors, SameProgress
  <1>4. /\ worker' = [worker EXCEPT ![w] = x]
        /\ jobs' = [jobs EXCEPT ![worker[w].job] = q]
        /\ files' = [files EXCEPT ![worker[w].job] = Files(w)]
        /\ UNCHANGED <<receipt, ledger, vault>>
    BY <1>1 DEF KeepPacket, Write, WriteAnyway, Go, Adopt, R, outer, Files, Inv, Typed, Worker
  <1> HIDE DEF x, q
  <1>7. Valid(q)
    <2>1. Lifecycle(q)
      BY ZenonT(60), <1>0, <1>1, <1>3, <1>6, Owning DEF Valid, Lifecycle, SameProgress, Going, ActiveStates, Clean
    <2>2. Progress(q)
      BY <1>1, <1>3, <1>6, FrozenType DEF Valid, Progress, SameProgress, Upper
    <2>3. Payload(q)
      BY ZenonT(60), <1>0, <1>1, <1>3, <1>6, Owning, FrozenType DEF Valid, Payload, SameProgress, Going, ActiveStates,
         Upper, Clean, Private
    <2>. QED  BY <2>1, <2>2, <2>3 DEF Valid
  <1>8. FilesOf(q, Files(w)) /\ Ledgered(worker[w].job, q, ledger, vault)
    BY <1>1, <1>3, <1>6, SameLedger DEF FilesOf, Clean, SameProgress
  <1>a. /\ ~q.pending /\ q.pubs = 1 /\ x.work /\ q.phase = "reviewing" /\ q.payload = "retained"
    BY <1>1, <1>2, <1>3, <1>6 DEF SameProgress
  <1>9. Place(x, q, Files(w), ledger, vault)
    <2>1. Owner(x, q)
      BY ZenonT(60), <1>0, <1>2, <1>3, Owning DEF Owner, SameProgress
    <2>2. Starting(x, q)
      BY <1>2, <1>a DEF Starting
    <2>3. Packing(x, q)
      BY <1>2, <1>a DEF Packing, Begun, Applying, Clean
    <2>4. Ending(x, q) /\ Opened(x, q) /\ Sees(x, q, Files(w), ledger, vault)
      BY <1>2, <1>a DEF Ending, Opened, Sees, Begun, Applying, Syncing, Cleaning, Clean
    <2>. QED  BY <2>1, <2>2, <2>3, <2>4 DEF Place
  <1>. QED  BY <1>0, <1>1, <1>2, <1>3, <1>4, <1>7, <1>8, <1>9, Local

LEMMA AgentAnswersInv ==
    ASSUME Inv, NEW w \in Workers, AgentAnswers(w)
    PROVE  Inv'
  <1> DEFINE r == R(w)
             x == [worker[w] EXCEPT !.pc = "proposal"]
             q == [r EXCEPT !.payload = "publishing", !.pubs = 2, !.result = r.attempt]
  <1>0. worker[w].pc = "agent" /\ worker[w].pc \in Owned /\ worker[w].pc \notin Outside
    BY DEF AgentAnswers, At, Outside, Owned
  <1>1. /\ worker[w] \in Worker /\ worker[w].job \in Jobs /\ r \in Job
        /\ Valid(r) /\ FilesOf(r, Files(w)) /\ Ledgered(worker[w].job, r, ledger, vault)
        /\ Place(worker[w], r, Files(w), ledger, vault) /\ Files(w) \in SUBSET Payloads
    BY <1>0, Inside
  <1>2. /\ x \in Worker /\ x.pc = "proposal" /\ x.job = worker[w].job
        /\ x.attempt = worker[w].attempt /\ x.behind = worker[w].behind /\ x.work = worker[w].work
        /\ x.rec = worker[w].rec /\ x.acc = worker[w].acc /\ x.code = worker[w].code
    BY <1>1 DEF Worker, Stages, Owned
  <1>5. /\ Starting(worker[w], r) /\ Packing(worker[w], r) /\ Ending(worker[w], r)
        /\ Opened(worker[w], r) /\ Sees(worker[w], r, Files(w), ledger, vault)
    BY <1>1 DEF Place
  <1>6. /\ r.payload = "retained" /\ ~r.pending /\ r.phase = "reviewing" /\ r.pubs > 0
        /\ r.attempt \in 0..MaxAttempts /\ r.attempt > 0 /\ 2 \in 0..2 /\ worker[w].work
    BY <1>0, <1>1, <1>5, FrozenType, ReviewJobAssumption DEF Starting, Packing, Ending, Opened, Sees, Begun, Applying, Syncing, Cleaning, Clean
  <1>3. /\ q \in Job /\ SameProgress(q, r) /\ q.state = r.state /\ q.attempt = r.attempt
        /\ q.token = r.token /\ q.owner = r.owner /\ q.cancel = r.cancel /\ q.phase = r.phase
        /\ q.payload = "publishing" /\ q.pubs = 2 /\ q.result = r.attempt /\ q.from = r.from
        /\ q.error = r.error
    <2>1. q \in Job
      BY <1>1, <1>6, PublishType
    <2>. QED  BY <1>1, <2>1 DEF Job, SameProgress
  <1>4. /\ worker' = [worker EXCEPT ![w] = x]
        /\ jobs' = [jobs EXCEPT ![worker[w].job] = q]
        /\ files' = [files EXCEPT ![worker[w].job] = Files(w)]
        /\ UNCHANGED <<receipt, ledger, vault>>
    BY <1>1 DEF AgentAnswers, Write, WriteAnyway, Go, Adopt, R, outer, Files, Inv, Typed, Worker
  <1> HIDE DEF x, q
  <1>7. Valid(q)
    <2>1. Lifecycle(q)
      BY <1>0, <1>1, <1>3, <1>6, Owning DEF Valid, Lifecycle, SameProgress, Going, ActiveStates, Clean
    <2>2. Progress(q)
      BY <1>1, <1>3, <1>6, FrozenType DEF Valid, Progress, SameProgress, Upper
    <2>3. Payload(q)
      <3>1. (q.pubs = 2 => q.result > 0) /\ q.pubs > 0 /\ q.payload # "apply_recovery"
        BY <1>3, <1>6
      <3>2. Going(q) /\ q.phase # "preflight"
        BY <1>0, <1>3, <1>6, Owning DEF Going, ActiveStates
      <3>3. q.index < Len(q.frozen) /\ q.cur = q.from /\ q.from < Upper(q)
        BY <1>1, <1>3, <1>6 DEF SameProgress, Upper, Valid, Payload, Private
      <3>. QED  BY <3>1, <3>2, <3>3 DEF Payload
    <2>. QED  BY <2>1, <2>2, <2>3 DEF Valid
  <1>8. FilesOf(q, Files(w)) /\ Ledgered(worker[w].job, q, ledger, vault)
    BY <1>1, <1>3, <1>6, SameLedger DEF FilesOf, Clean, SameProgress
  <1>a. /\ ~q.pending /\ q.phase = "reviewing" /\ q.attempt \in 0..MaxAttempts /\ q.attempt > 0
        /\ x.work /\ q.payload = "publishing" /\ q.pubs = 2
    BY <1>1, <1>2, <1>3, <1>6 DEF SameProgress
  <1>9. Place(x, q, Files(w), ledger, vault)
    <2>1. Owner(x, q)
      BY ZenonT(60), <1>0, <1>2, <1>3, Owning DEF Owner, SameProgress
    <2>2. Starting(x, q)
      BY <1>2, <1>a DEF Starting
    <2>3. Packing(x, q)
      BY <1>2, <1>a DEF Packing, Begun, Applying, Clean
    <2>4. Ending(x, q) /\ Opened(x, q) /\ Sees(x, q, Files(w), ledger, vault)
      BY <1>2, <1>a DEF Ending, Opened, Sees, Begun, Applying, Syncing, Cleaning, Clean
    <2>. QED  BY <2>1, <2>2, <2>3, <2>4 DEF Place
  <1>. QED  BY <1>0, <1>1, <1>2, <1>3, <1>4, <1>7, <1>8, <1>9, Local

LEMMA AgentIsCancelledInv ==
    ASSUME Inv, NEW w \in Workers, AgentIsCancelled(w)
    PROVE  Inv'
  <1> DEFINE r == R(w)
             x == [worker[w] EXCEPT !.pc = "cancel"]
             q == [r EXCEPT !.state = "cancel_requested", !.cancel = TRUE]
  <1>0. worker[w].pc = "agent" /\ worker[w].pc \in Owned /\ worker[w].pc \notin Outside
    BY DEF AgentIsCancelled, At, Outside, Owned
  <1>1. /\ worker[w] \in Worker /\ worker[w].job \in Jobs /\ r \in Job
        /\ Valid(r) /\ FilesOf(r, Files(w)) /\ Ledgered(worker[w].job, r, ledger, vault)
        /\ Place(worker[w], r, Files(w), ledger, vault) /\ Files(w) \in SUBSET Payloads
    BY <1>0, Inside
  <1>2. /\ x \in Worker /\ x.pc = "cancel" /\ x.job = worker[w].job /\ x.attempt = worker[w].attempt
        /\ x.behind = worker[w].behind /\ x.work = worker[w].work /\ x.rec = worker[w].rec
        /\ x.acc = worker[w].acc /\ x.code = worker[w].code
    BY <1>1 DEF Worker, Stages, Owned
  <1>5. /\ Starting(worker[w], r) /\ Packing(worker[w], r) /\ Ending(worker[w], r)
        /\ Opened(worker[w], r) /\ Sees(worker[w], r, Files(w), ledger, vault)
    BY <1>1 DEF Place
  <1>6. /\ r.payload = "retained" /\ ~r.pending /\ r.phase = "reviewing" /\ r.pubs > 0
        /\ worker[w].work
    BY <1>0, <1>1, <1>5 DEF Starting, Packing, Ending, Opened, Sees, Begun, Applying, Syncing, Cleaning, Clean
  <1>3. /\ q \in Job /\ SameProgress(q, r) /\ q.state = "cancel_requested" /\ q.attempt = r.attempt
        /\ q.token = r.token /\ q.owner = r.owner /\ q.cancel = TRUE /\ q.phase = r.phase
        /\ q.payload = r.payload /\ q.pubs = r.pubs /\ q.result = r.result /\ q.from = r.from
        /\ q.error = r.error
    BY ZenonT(60), <1>1, <1>6, ReviewJobAssumption DEF Job, Phases, States, ActiveStates, PayloadStates, Errors, SameProgress
  <1>4. /\ worker' = [worker EXCEPT ![w] = x]
        /\ jobs' = [jobs EXCEPT ![worker[w].job] = q]
        /\ files' = [files EXCEPT ![worker[w].job] = Files(w)]
        /\ UNCHANGED <<receipt, ledger, vault>>
    BY <1>1 DEF AgentIsCancelled, Write, WriteAnyway, Go, Adopt, R, outer, Files, Inv, Typed, Worker
  <1> HIDE DEF x, q
  <1>7. Valid(q)
    <2>1. Lifecycle(q)
      BY <1>0, <1>1, <1>3, <1>6, Owning DEF Valid, Lifecycle, SameProgress, Going, ActiveStates, Clean
    <2>2. Progress(q)
      BY <1>1, <1>3, <1>6, FrozenType DEF Valid, Progress, SameProgress, Upper
    <2>3. Payload(q)
      BY <1>0, <1>1, <1>3, <1>6, Owning, FrozenType DEF Valid, Payload, SameProgress, Going, ActiveStates,
         Upper, Clean, Private
    <2>. QED  BY <2>1, <2>2, <2>3 DEF Valid
  <1>8. FilesOf(q, Files(w)) /\ Ledgered(worker[w].job, q, ledger, vault)
    BY <1>1, <1>3, <1>6, SameLedger DEF FilesOf, Clean, SameProgress
  <1>a. /\ q.payload = "retained" /\ ~q.pending /\ q.phase = "reviewing" /\ q.pubs > 0 /\ x.work
        /\ q.state = "cancel_requested" /\ q.cancel
    BY <1>1, <1>2, <1>3, <1>6 DEF SameProgress
  <1>9. Place(x, q, Files(w), ledger, vault)
    <2>1. Owner(x, q)
      BY ZenonT(60), <1>0, <1>2, <1>3, Owning DEF Owner, SameProgress
    <2>2. Starting(x, q)
      BY <1>2, <1>a DEF Starting
    <2>3. Packing(x, q)
      BY <1>2, <1>a DEF Packing, Begun, Applying, Clean
    <2>4. Ending(x, q) /\ Opened(x, q) /\ Sees(x, q, Files(w), ledger, vault)
      BY <1>2, <1>a DEF Ending, Opened, Sees, Begun, Applying, Syncing, Cleaning, Clean
    <2>. QED  BY <2>1, <2>2, <2>3, <2>4 DEF Place
  <1>. QED  BY <1>0, <1>1, <1>2, <1>3, <1>4, <1>7, <1>8, <1>9, Local

LEMMA WriteProposalInv ==
    ASSUME Inv, NEW w \in Workers, WriteProposal(w)
    PROVE  Inv'
  <1> DEFINE r == R(w)
             x == [worker[w] EXCEPT !.pc = "keepProposal"]
             f == Files(w) \cup {"proposal"}
  <1>0. worker[w].pc = "proposal" /\ worker[w].pc \in Owned /\ worker[w].pc \notin Outside
    BY DEF WriteProposal, At, Outside, Owned
  <1>1. /\ worker[w] \in Worker /\ worker[w].job \in Jobs /\ r \in Job
        /\ Valid(r) /\ FilesOf(r, Files(w)) /\ Ledgered(worker[w].job, r, ledger, vault)
        /\ Place(worker[w], r, Files(w), ledger, vault) /\ Files(w) \in SUBSET Payloads
    BY <1>0, Inside
  <1>2. /\ x \in Worker /\ x.pc = "keepProposal" /\ x.job = worker[w].job
        /\ x.attempt = worker[w].attempt /\ x.behind = worker[w].behind /\ x.work = worker[w].work
        /\ x.rec = worker[w].rec /\ x.acc = worker[w].acc /\ x.code = worker[w].code
    BY <1>1 DEF Worker, Stages, Owned
  <1>5. /\ Starting(worker[w], r) /\ Packing(worker[w], r) /\ Ending(worker[w], r)
        /\ Opened(worker[w], r) /\ Sees(worker[w], r, Files(w), ledger, vault)
    BY <1>1 DEF Place
  <1>6. /\ r.payload = "publishing" /\ ~r.pending /\ r.phase = "reviewing" /\ r.pubs = 2
        /\ worker[w].work
    BY <1>0, <1>1, <1>5 DEF Starting, Packing, Ending, Opened, Sees, Begun, Applying, Syncing, Cleaning, Clean
  <1>3. f \in SUBSET Payloads
    BY <1>1 DEF Payloads
  <1>4. /\ worker' = [worker EXCEPT ![w] = x]
        /\ jobs' = [jobs EXCEPT ![worker[w].job] = r]
        /\ files' = [files EXCEPT ![worker[w].job] = f]
        /\ UNCHANGED <<receipt, ledger, vault>>
    BY <1>1 DEF WriteProposal, Write, WriteAnyway, Go, Adopt, R, outer, Files, Inv, Typed, Worker
  <1> HIDE DEF x, f
  <1>8. FilesOf(r, f) /\ Ledgered(worker[w].job, r, ledger, vault)
    BY <1>1, <1>3, <1>6, SameLedger DEF FilesOf, Clean, SameProgress, f, Payloads
  <1>9. Place(x, r, f, ledger, vault)
    <2>1. Owner(x, r)
      BY <1>0, <1>2, Owning DEF Owner
    <2>2. Starting(x, r)
      BY <1>2, <1>6 DEF Starting
    <2>3. Packing(x, r)
      BY <1>2, <1>6 DEF Packing, Begun, Applying, Clean
    <2>4. Ending(x, r) /\ Opened(x, r) /\ Sees(x, r, f, ledger, vault)
      BY <1>2, <1>6 DEF Ending, Opened, Sees, Begun, Applying, Syncing, Cleaning, Clean
    <2>. QED  BY <2>1, <2>2, <2>3, <2>4 DEF Place
  <1>. QED  BY <1>0, <1>1, <1>2, <1>3, <1>4, <1>8, <1>9, Local

LEMMA KeepProposalInv ==
    ASSUME Inv, NEW w \in Workers, KeepProposal(w)
    PROVE  Inv'
  <1> DEFINE r == R(w)
             x == [worker[w] EXCEPT !.pc = "beginApply"]
             q == [r EXCEPT !.payload = "retained"]
  <1>0. worker[w].pc = "keepProposal" /\ worker[w].pc \in Owned /\ worker[w].pc \notin Outside
    BY DEF KeepProposal, At, Outside, Owned
  <1>1. /\ worker[w] \in Worker /\ worker[w].job \in Jobs /\ r \in Job
        /\ Valid(r) /\ FilesOf(r, Files(w)) /\ Ledgered(worker[w].job, r, ledger, vault)
        /\ Place(worker[w], r, Files(w), ledger, vault) /\ Files(w) \in SUBSET Payloads
    BY <1>0, Inside
  <1>2. /\ x \in Worker /\ x.pc = "beginApply" /\ x.job = worker[w].job
        /\ x.attempt = worker[w].attempt /\ x.behind = worker[w].behind /\ x.work = worker[w].work
        /\ x.rec = worker[w].rec /\ x.acc = worker[w].acc /\ x.code = worker[w].code
    BY <1>1 DEF Worker, Stages, Owned
  <1>5. /\ Starting(worker[w], r) /\ Packing(worker[w], r) /\ Ending(worker[w], r)
        /\ Opened(worker[w], r) /\ Sees(worker[w], r, Files(w), ledger, vault)
    BY <1>1 DEF Place
  <1>6. /\ r.payload = "publishing" /\ ~r.pending /\ r.phase = "reviewing" /\ r.pubs = 2
        /\ worker[w].work
    BY <1>0, <1>1, <1>5 DEF Starting, Packing, Ending, Opened, Sees, Begun, Applying, Syncing, Cleaning, Clean
  <1>3. /\ q \in Job /\ SameProgress(q, r) /\ q.state = r.state /\ q.attempt = r.attempt
        /\ q.token = r.token /\ q.owner = r.owner /\ q.cancel = r.cancel /\ q.phase = r.phase
        /\ q.payload = "retained" /\ q.pubs = r.pubs /\ q.result = r.result /\ q.from = r.from
        /\ q.error = r.error
    BY <1>1, <1>6, ReviewJobAssumption DEF Job, Phases, States, ActiveStates, PayloadStates, Errors, SameProgress
  <1>4. /\ worker' = [worker EXCEPT ![w] = x]
        /\ jobs' = [jobs EXCEPT ![worker[w].job] = q]
        /\ files' = [files EXCEPT ![worker[w].job] = Files(w)]
        /\ UNCHANGED <<receipt, ledger, vault>>
    BY <1>1 DEF KeepProposal, Write, WriteAnyway, Go, Adopt, R, outer, Files, Inv, Typed, Worker
  <1> HIDE DEF x, q
  <1>7. Valid(q)
    <2>1. Lifecycle(q)
      BY ZenonT(60), <1>0, <1>1, <1>3, <1>6, Owning DEF Valid, Lifecycle, SameProgress, Going, ActiveStates, Clean
    <2>2. Progress(q)
      BY <1>1, <1>3, <1>6, FrozenType DEF Valid, Progress, SameProgress, Upper
    <2>3. Payload(q)
      BY <1>0, <1>1, <1>3, <1>6, Owning, FrozenType DEF Valid, Payload, SameProgress, Going, ActiveStates,
         Upper, Clean, Private
    <2>. QED  BY <2>1, <2>2, <2>3 DEF Valid
  <1>8. FilesOf(q, Files(w)) /\ Ledgered(worker[w].job, q, ledger, vault)
    BY <1>1, <1>3, <1>6, SameLedger DEF FilesOf, Clean, SameProgress
  <1>a. /\ ~q.pending /\ q.phase = "reviewing" /\ q.pubs = 2 /\ x.work /\ q.payload = "retained"
    BY <1>1, <1>2, <1>3, <1>6 DEF SameProgress
  <1>9. Place(x, q, Files(w), ledger, vault)
    <2>1. Owner(x, q)
      BY ZenonT(60), <1>0, <1>2, <1>3, Owning DEF Owner, SameProgress
    <2>2. Starting(x, q)
      BY <1>2, <1>a DEF Starting
    <2>3. Packing(x, q)
      BY <1>2, <1>a DEF Packing, Begun, Applying, Clean
    <2>4. Ending(x, q) /\ Opened(x, q) /\ Sees(x, q, Files(w), ledger, vault)
      BY <1>2, <1>a DEF Ending, Opened, Sees, Begun, Applying, Syncing, Cleaning, Clean
    <2>. QED  BY <2>1, <2>2, <2>3, <2>4 DEF Place
  <1>. QED  BY <1>0, <1>1, <1>2, <1>3, <1>4, <1>7, <1>8, <1>9, Local

LEMMA BeginApplyInv ==
    ASSUME Inv, NEW w \in Workers, BeginApply(w)
    PROVE  Inv'
  <1> DEFINE r == R(w)
             x == [worker[w] EXCEPT !.pc = "apply"]
             q == [r EXCEPT !.phase = "applying"]
  <1>0. worker[w].pc = "beginApply" /\ worker[w].pc \in Owned /\ worker[w].pc \notin Outside
    BY DEF BeginApply, At, Outside, Owned
  <1>1. /\ worker[w] \in Worker /\ worker[w].job \in Jobs /\ r \in Job
        /\ Valid(r) /\ FilesOf(r, Files(w)) /\ Ledgered(worker[w].job, r, ledger, vault)
        /\ Place(worker[w], r, Files(w), ledger, vault) /\ Files(w) \in SUBSET Payloads
    BY <1>0, Inside
  <1>2. /\ x \in Worker /\ x.pc = "apply" /\ x.job = worker[w].job /\ x.attempt = worker[w].attempt
        /\ x.behind = worker[w].behind /\ x.work = worker[w].work /\ x.rec = worker[w].rec
        /\ x.acc = worker[w].acc /\ x.code = worker[w].code
    BY <1>1 DEF Worker, Stages, Owned
  <1>5. /\ Starting(worker[w], r) /\ Packing(worker[w], r) /\ Ending(worker[w], r)
        /\ Opened(worker[w], r) /\ Sees(worker[w], r, Files(w), ledger, vault)
    BY <1>1 DEF Place
  <1>6. /\ r.payload = "retained" /\ ~r.pending /\ r.phase = "reviewing" /\ r.pubs = 2
        /\ worker[w].work
    BY <1>0, <1>1, <1>5 DEF Starting, Packing, Ending, Opened, Sees, Begun, Applying, Syncing, Cleaning, Clean
  <1>3. /\ q \in Job /\ SameProgress(q, r) /\ q.state = r.state /\ q.attempt = r.attempt
        /\ q.token = r.token /\ q.owner = r.owner /\ q.cancel = r.cancel /\ q.phase = "applying"
        /\ q.payload = r.payload /\ q.pubs = r.pubs /\ q.result = r.result /\ q.from = r.from
        /\ q.error = r.error
    BY <1>1, <1>6, ReviewJobAssumption DEF Job, Phases, States, ActiveStates, PayloadStates, Errors, SameProgress
  <1>4. /\ worker' = [worker EXCEPT ![w] = x]
        /\ jobs' = [jobs EXCEPT ![worker[w].job] = q]
        /\ files' = [files EXCEPT ![worker[w].job] = Files(w)]
        /\ UNCHANGED <<receipt, ledger, vault>>
    BY <1>1 DEF BeginApply, Write, WriteAnyway, Go, Adopt, R, outer, Files, Inv, Typed, Worker
  <1> HIDE DEF x, q
  <1>7. Valid(q)
    <2>1. Lifecycle(q)
      BY ZenonT(60), <1>0, <1>1, <1>3, <1>6, Owning DEF Valid, Lifecycle, SameProgress, Going, ActiveStates, Clean
    <2>2. Progress(q)
      BY <1>1, <1>3, <1>6, FrozenType DEF Valid, Progress, SameProgress, Upper
    <2>3. Payload(q)
      BY <1>0, <1>1, <1>3, <1>6, Owning, FrozenType DEF Valid, Payload, SameProgress, Going, ActiveStates,
         Upper, Clean, Private
    <2>. QED  BY <2>1, <2>2, <2>3 DEF Valid
  <1>8. FilesOf(q, Files(w)) /\ Ledgered(worker[w].job, q, ledger, vault)
    BY <1>1, <1>3, <1>6, SameLedger DEF FilesOf, Clean, SameProgress
  <1>a. /\ q.payload = "retained" /\ ~q.pending /\ q.pubs = 2 /\ x.work /\ q.phase = "applying"
    BY <1>1, <1>2, <1>3, <1>6 DEF SameProgress
  <1>9. Place(x, q, Files(w), ledger, vault)
    <2>1. Owner(x, q)
      BY ZenonT(60), <1>0, <1>2, <1>3, Owning DEF Owner, SameProgress
    <2>2. Starting(x, q)
      BY <1>2, <1>a DEF Starting
    <2>3. Packing(x, q)
      BY <1>2, <1>a DEF Packing, Begun, Applying, Clean
    <2>4. Ending(x, q) /\ Opened(x, q) /\ Sees(x, q, Files(w), ledger, vault)
      BY <1>2, <1>a DEF Ending, Opened, Sees, Begun, Applying, Syncing, Cleaning, Clean
    <2>. QED  BY <2>1, <2>2, <2>3, <2>4 DEF Place
  <1>. QED  BY <1>0, <1>1, <1>2, <1>3, <1>4, <1>7, <1>8, <1>9, Local

LEMMA LoopInv ==
    ASSUME Inv, NEW w \in Workers, Loop(w)
    PROVE  Inv'
  <1> DEFINE r == R(w)
             done == r.index = Len(r.frozen)
             x == [worker[w] EXCEPT !.pc = IF done THEN "complete" ELSE "prepare",
                                    !.rec = FALSE, !.acc = FALSE]
             q == [r EXCEPT !.phase = IF done THEN @ ELSE "preparing"]
  <1>0. worker[w].pc = "loop" /\ worker[w].pc \notin Outside
    BY DEF Loop, At, Outside
  <1>1. /\ worker[w] \in Worker /\ worker[w].job \in Jobs /\ r \in Job
        /\ Valid(r) /\ FilesOf(r, Files(w)) /\ Ledgered(worker[w].job, r, ledger, vault)
        /\ Place(worker[w], r, Files(w), ledger, vault) /\ Files(w) \in SUBSET Payloads
    BY <1>0, Inside
  <1>2. /\ x \in Worker /\ x.pc = IF done THEN "complete" ELSE "prepare"
        /\ x.job = worker[w].job /\ x.attempt = worker[w].attempt
        /\ x.behind = worker[w].behind /\ x.work = worker[w].work
    BY ZenonT(60), <1>1 DEF Worker, Stages, Owned
  <1>3. /\ q \in Job /\ q.phase = IF done THEN r.phase ELSE "preparing"
        /\ SameProgress(q, r) /\ q.state = r.state /\ q.attempt = r.attempt /\ q.token = r.token
        /\ q.owner = r.owner /\ q.cancel = r.cancel /\ q.payload = r.payload
        /\ q.pubs = r.pubs /\ q.result = r.result /\ q.from = r.from /\ q.error = r.error
    BY <1>1 DEF Job, Phases, SameProgress
  <1>4. /\ worker' = [worker EXCEPT ![w] = x]
        /\ jobs' = [jobs EXCEPT ![worker[w].job] = q]
        /\ files' = [files EXCEPT ![worker[w].job] = Files(w)]
        /\ UNCHANGED <<receipt, ledger, vault>>
    BY DEF Loop, R, outer, Files, Inv, Typed
  <1> HIDE DEF q, x
  <1>5. Owner(worker[w], r) /\ Packing(worker[w], r) /\ Opened(worker[w], r)
    BY <1>1 DEF Place
  <1>6. /\ r.owner /\ r.attempt = worker[w].attempt /\ r.state \in {"running", "cancel_requested"}
        /\ worker[w].behind => r.state = "cancel_requested"
        /\ r.payload \in Clean /\ ~r.pending /\ worker[w].work /\ r.frozen # <<>>
    BY <1>0, <1>5 DEF Owner, Packing, Opened, Owned
  <1>7. Valid(q)
    BY ZenonT(60), <1>1, <1>3, <1>6 DEF Valid, Lifecycle, Progress, Payload, SameProgress, Going,
       ActiveStates, Upper, Clean, Private
  <1>8. FilesOf(q, Files(w)) /\ Ledgered(worker[w].job, q, ledger, vault)
    BY <1>1, <1>3, SameLedger DEF FilesOf
  <1>10. x.pc = "prepare" => q.index < Len(q.frozen) /\ q.phase = "preparing"
    <2>1. r.index \in Nat /\ Len(r.frozen) \in Nat /\ r.index <= Len(r.frozen)
      BY <1>1, FrozenType DEF Valid, Progress
    <2>. QED  BY <1>2, <1>3, <2>1 DEF SameProgress
  <1>9. Place(x, q, Files(w), ledger, vault)
    BY <1>2, <1>3, <1>6, <1>10 DEF Place, Owner, Starting, Packing, Ending, Opened, Sees, Owned,
       SameProgress, Begun, Applying, Syncing, Cleaning
  <1>. QED  BY <1>0, <1>1, <1>2, <1>3, <1>4, <1>7, <1>8, <1>9, Local

\* An error of a worker whose directories are open.
LEMMA OpenFails ==
    ASSUME Inv, NEW w \in Workers, NEW code \in Errors,
           worker[w].pc \in Owned, worker[w].work, Failing(w, code),
           UNCHANGED <<jobs, files, receipt, ledger, vault>>
    PROVE  Inv'
  <1>1. worker[w].behind \in BOOLEAN
    BY DEF Inv, Typed, Worker
  <1>. QED  BY <1>1, FailingIs, FailingInv

LEMMA PacketFailsInv ==
    ASSUME Inv, NEW w \in Workers, PacketFails(w) \/ RecoverStateFails(w) \/ FinishCancelledFails(w)
    PROVE  Inv'
  <1>1. /\ worker[w].pc \in {"recover", "prepare", "packet", "agent", "proposal"} \/ worker[w].work
        /\ worker[w].pc \in Owned /\ worker[w].pc \notin Outside
        /\ UNCHANGED <<jobs, files, receipt, ledger, vault>>
        /\ \E code \in Errors : Failing(w, code)
    BY DEF PacketFails, RecoverStateFails, FinishCancelledFails, At, Owned, Outside, Errors, outer
  <1>2. worker[w].work
    BY <1>1, Inside DEF Place, Opened, Begun
  <1>. QED  BY <1>1, <1>2, OpenFails

LEMMA StaleWriteInv ==
    ASSUME Inv, NEW w \in Workers, StaleWrite(w)
    PROVE  Inv'
  <1>1. CASE At(w, "advance") /\ Exit(w, "")
    BY <1>1, Exits DEF StaleWrite, At, Errors, outer
  <1>2. CASE worker[w].pc \in {"mark", "settle"} /\ Failing(w, CleanupCode(w))
    <2>1. CleanupCode(w) \in Errors /\ worker[w].pc \in Owned /\ worker[w].pc \notin Outside
      BY <1>2 DEF CleanupCode, Errors, Owned, Outside
    <2>2. worker[w].work
      BY <1>2, <2>1, Inside DEF Place, Opened, Cleaning
    <2>. QED  BY <1>2, <2>1, <2>2, OpenFails DEF StaleWrite, outer
  <1>. QED  BY <1>1, <1>2 DEF StaleWrite

LEMMA ApplyFailsInv ==
    ASSUME Inv, NEW w \in Workers, ApplyFails(w)
    PROVE  Inv'
  <1>1. /\ worker[w].pc \in Applying /\ worker[w].pc \in Owned /\ worker[w].pc \notin Outside
        /\ UNCHANGED <<jobs, files, receipt, ledger, vault>>
        /\ "apply_recovery" \in Errors /\ FALSE \in BOOLEAN
    BY DEF ApplyFails, Applying, Owned, Outside, Errors, outer
  <1>2. worker[w].work
    BY <1>1, Inside DEF Place, Opened
  <1>3. worker' = [worker EXCEPT ![w] =
            [worker[w] EXCEPT !.pc = "fail", !.code = "apply_recovery", !.behind = FALSE]]
    BY DEF ApplyFails, Inv, Typed, Worker
  <1>. QED  BY <1>1, <1>2, <1>3, FailingInv

\* At the start of Run the directories are closed, and nothing is half published.
LEMMA Closed ==
    ASSUME Inv, NEW w \in Workers, worker[w].pc \in {"handshake", "route"}
    PROVE  /\ ~worker[w].work /\ R(w).payload \notin {"publishing", "retained"}
           /\ R(w).phase = "preflight"
           /\ R(w).attempt = 1 => R(w).payload = "" /\ ~R(w).pending
  <1>1. worker[w].pc \notin Outside
    BY DEF Outside
  <1>2. Starting(worker[w], R(w)) /\ Payload(R(w))
    BY <1>1, Inside DEF Place, Valid
  <1>. QED  BY <1>2 DEF Starting, Payload

LEMMA RouteFailsInv ==
    ASSUME Inv, NEW w \in Workers, RouteFails(w)
    PROVE  Inv'
  <1>1. worker[w].pc = "route" /\ worker[w].pc \in Owned /\ worker[w].behind \in BOOLEAN
    BY DEF RouteFails, At, Owned, Inv, Typed, Worker
  <1>2. PICK code \in {"apply_recovery", "agent"} : Failing(w, code)
    BY DEF RouteFails
  <1>3. code \in Errors /\ UNCHANGED <<jobs, files, receipt, ledger, vault>>
    BY DEF Errors, RouteFails, outer
  <1>. QED  BY ZenonT(60), <1>1, <1>2, <1>3, Closed, FailingIs, FailingInv

------------------------------------------------------------------------------
(* The start, the recovery of the last attempt, and cancellation. *)

LEMMA HandshakeDoneInv ==
    ASSUME Inv, NEW w \in Workers, Handshake(w), worker[w].parent
    PROVE  Inv'
  <1> DEFINE r == R(w)
             x == [worker[w] EXCEPT !.pc = "route", !.parent = FALSE]
  <1>0. worker[w].pc = "handshake" /\ worker[w].pc \in Owned \cup {"handshake"} /\ worker[w].pc \notin Outside
    BY DEF Handshake, At, Outside, Owned
  <1>1. /\ worker[w] \in Worker /\ worker[w].job \in Jobs /\ r \in Job
        /\ Valid(r) /\ FilesOf(r, Files(w)) /\ Ledgered(worker[w].job, r, ledger, vault)
        /\ Place(worker[w], r, Files(w), ledger, vault) /\ Files(w) \in SUBSET Payloads
    BY <1>0, Inside
  <1>2. /\ x \in Worker /\ x.pc = "route" /\ x.job = worker[w].job /\ x.attempt = worker[w].attempt
        /\ x.behind = worker[w].behind /\ x.work = worker[w].work /\ x.rec = worker[w].rec
        /\ x.acc = worker[w].acc /\ x.code = worker[w].code
    BY <1>1 DEF Worker, Stages, Owned
  <1>5. /\ Starting(worker[w], r) /\ Packing(worker[w], r) /\ Ending(worker[w], r)
        /\ Opened(worker[w], r) /\ Sees(worker[w], r, Files(w), ledger, vault)
    BY <1>1 DEF Place
  <1>6. /\ r.phase = "preflight" /\ (r.attempt = 1 => r.payload = "" /\ ~r.pending)
        /\ ~worker[w].work
    BY <1>0, <1>1, <1>5, Closed DEF Starting, Packing, Ending, Opened, Sees, Begun, Applying, Syncing, Cleaning, Clean
  <1>4. /\ worker' = [worker EXCEPT ![w] = x]
        /\ UNCHANGED <<jobs, files, receipt, ledger, vault>>
    BY <1>1 DEF Handshake, Write, WriteAnyway, Go, Adopt, R, outer, Files, Inv, Typed, Worker
  <1> HIDE DEF x
  <1>9. Place(x, r, Files(w), ledger, vault)
    <2>1. Owner(x, r)
      BY <1>0, <1>2, Owning DEF Owner
    <2>2. Starting(x, r)
      BY <1>2, <1>6 DEF Starting
    <2>3. Packing(x, r)
      BY <1>2, <1>6 DEF Packing, Begun, Applying, Clean
    <2>4. Ending(x, r) /\ Opened(x, r) /\ Sees(x, r, Files(w), ledger, vault)
      BY <1>2, <1>6 DEF Ending, Opened, Sees, Begun, Applying, Syncing, Cleaning, Clean
    <2>. QED  BY <2>1, <2>2, <2>3, <2>4 DEF Place
  <1>. QED  BY <1>0, <1>2, <1>4, <1>9, LocalGo

LEMMA RecoverAppliesInv ==
    ASSUME Inv, NEW w \in Workers, At(w, "recover"), R(w).payload = "apply_recovery", ~R(w).pending,
           Write(w, [R(w) EXCEPT !.phase = "applying"], "apply"), UNCHANGED <<files, outer>>
    PROVE  Inv'
  <1> DEFINE r == R(w)
             x == [worker[w] EXCEPT !.pc = "apply"]
             q == [r EXCEPT !.phase = "applying"]
  <1>0. worker[w].pc = "recover" /\ worker[w].pc \in Owned /\ worker[w].pc \notin Outside
    BY DEF RecoverState, At, Outside, Owned
  <1>1. /\ worker[w] \in Worker /\ worker[w].job \in Jobs /\ r \in Job
        /\ Valid(r) /\ FilesOf(r, Files(w)) /\ Ledgered(worker[w].job, r, ledger, vault)
        /\ Place(worker[w], r, Files(w), ledger, vault) /\ Files(w) \in SUBSET Payloads
    BY <1>0, Inside
  <1>2. /\ x \in Worker /\ x.pc = "apply" /\ x.job = worker[w].job /\ x.attempt = worker[w].attempt
        /\ x.behind = worker[w].behind /\ x.work = worker[w].work /\ x.rec = worker[w].rec
        /\ x.acc = worker[w].acc /\ x.code = worker[w].code
    BY <1>1 DEF Worker, Stages, Owned
  <1>5. /\ Starting(worker[w], r) /\ Packing(worker[w], r) /\ Ending(worker[w], r)
        /\ Opened(worker[w], r) /\ Sees(worker[w], r, Files(w), ledger, vault)
    BY <1>1 DEF Place
  <1>6. /\ r.payload = "apply_recovery" /\ ~r.pending /\ r.phase = "preflight" /\ r.pubs = 2
        /\ worker[w].work
    BY <1>0, <1>1, <1>5 DEF Starting, Packing, Ending, Opened, Sees, Begun, Applying, Syncing, Cleaning, Clean, Valid, Payload
  <1>3. /\ q \in Job /\ SameProgress(q, r) /\ q.state = r.state /\ q.attempt = r.attempt
        /\ q.token = r.token /\ q.owner = r.owner /\ q.cancel = r.cancel /\ q.phase = "applying"
        /\ q.payload = r.payload /\ q.pubs = r.pubs /\ q.result = r.result /\ q.from = r.from
        /\ q.error = r.error
    BY <1>1, <1>6, ReviewJobAssumption DEF Job, Phases, States, ActiveStates, PayloadStates, Errors, SameProgress
  <1>4. /\ worker' = [worker EXCEPT ![w] = x]
        /\ jobs' = [jobs EXCEPT ![worker[w].job] = q]
        /\ files' = [files EXCEPT ![worker[w].job] = Files(w)]
        /\ UNCHANGED <<receipt, ledger, vault>>
    BY <1>1 DEF RecoverState, Write, WriteAnyway, Go, Adopt, R, outer, Files, Inv, Typed, Worker
  <1> HIDE DEF x, q
  <1>7. Valid(q)
    <2>1. Lifecycle(q)
      BY <1>0, <1>1, <1>3, <1>6, Owning DEF Valid, Lifecycle, SameProgress, Going, ActiveStates, Clean
    <2>2. Progress(q)
      BY <1>1, <1>3, <1>6, FrozenType DEF Valid, Progress, SameProgress, Upper
    <2>3. Payload(q)
      BY <1>0, <1>1, <1>3, <1>6, Owning, FrozenType DEF Valid, Payload, SameProgress, Going, ActiveStates,
         Upper, Clean, Private
    <2>. QED  BY <2>1, <2>2, <2>3 DEF Valid
  <1>8. FilesOf(q, Files(w)) /\ Ledgered(worker[w].job, q, ledger, vault)
    BY <1>1, <1>3, <1>6, SameLedger DEF FilesOf, Clean, SameProgress
  <1>a. /\ q.payload = "apply_recovery" /\ ~q.pending /\ q.pubs = 2 /\ x.work
        /\ q.phase = "applying"
    BY <1>1, <1>2, <1>3, <1>6 DEF SameProgress
  <1>9. Place(x, q, Files(w), ledger, vault)
    <2>1. Owner(x, q)
      BY ZenonT(60), <1>0, <1>2, <1>3, Owning DEF Owner, SameProgress
    <2>2. Starting(x, q)
      BY <1>2, <1>a DEF Starting
    <2>3. Packing(x, q)
      BY <1>2, <1>a DEF Packing, Begun, Applying, Clean
    <2>4. Ending(x, q) /\ Opened(x, q) /\ Sees(x, q, Files(w), ledger, vault)
      BY <1>2, <1>a DEF Ending, Opened, Sees, Begun, Applying, Syncing, Cleaning, Clean
    <2>. QED  BY <2>1, <2>2, <2>3, <2>4 DEF Place
  <1>. QED  BY <1>0, <1>1, <1>2, <1>3, <1>4, <1>7, <1>8, <1>9, Local

LEMMA RecoverSyncsInv ==
    ASSUME Inv, NEW w \in Workers, At(w, "recover"), R(w).pending, Go(w, "sync"),
           UNCHANGED <<jobs, files, outer>>
    PROVE  Inv'
  <1> DEFINE r == R(w)
             x == [worker[w] EXCEPT !.pc = "sync"]
  <1>0. worker[w].pc = "recover" /\ worker[w].pc \in Owned /\ worker[w].pc \notin Outside
    BY DEF RecoverState, At, Outside, Owned
  <1>1. /\ worker[w] \in Worker /\ worker[w].job \in Jobs /\ r \in Job
        /\ Valid(r) /\ FilesOf(r, Files(w)) /\ Ledgered(worker[w].job, r, ledger, vault)
        /\ Place(worker[w], r, Files(w), ledger, vault) /\ Files(w) \in SUBSET Payloads
    BY <1>0, Inside
  <1>2. /\ x \in Worker /\ x.pc = "sync" /\ x.job = worker[w].job /\ x.attempt = worker[w].attempt
        /\ x.behind = worker[w].behind /\ x.work = worker[w].work /\ x.rec = worker[w].rec
        /\ x.acc = worker[w].acc /\ x.code = worker[w].code
    BY <1>1 DEF Worker, Stages, Owned
  <1>5. /\ Starting(worker[w], r) /\ Packing(worker[w], r) /\ Ending(worker[w], r)
        /\ Opened(worker[w], r) /\ Sees(worker[w], r, Files(w), ledger, vault)
    BY <1>1 DEF Place
  <1>6. /\ r.pending /\ worker[w].work
    BY <1>0, <1>1, <1>5 DEF Starting, Packing, Ending, Opened, Sees, Begun, Applying, Syncing, Cleaning, Clean
  <1>4. /\ worker' = [worker EXCEPT ![w] = x]
        /\ UNCHANGED <<jobs, files, receipt, ledger, vault>>
    BY <1>1 DEF RecoverState, Write, WriteAnyway, Go, Adopt, R, outer, Files, Inv, Typed, Worker
  <1> HIDE DEF x
  <1>9. Place(x, r, Files(w), ledger, vault)
    <2>1. Owner(x, r)
      BY <1>0, <1>2, Owning DEF Owner
    <2>2. Starting(x, r)
      BY <1>2, <1>6 DEF Starting
    <2>3. Packing(x, r)
      BY <1>2, <1>6 DEF Packing, Begun, Applying, Clean
    <2>4. Ending(x, r) /\ Opened(x, r) /\ Sees(x, r, Files(w), ledger, vault)
      BY <1>2, <1>6 DEF Ending, Opened, Sees, Begun, Applying, Syncing, Cleaning, Clean
    <2>. QED  BY <2>1, <2>2, <2>3, <2>4 DEF Place
  <1>. QED  BY <1>0, <1>2, <1>4, <1>9, LocalGo

LEMMA RecoverMarksInv ==
    ASSUME Inv, NEW w \in Workers, At(w, "recover"), R(w).payload # "apply_recovery", ~R(w).pending,
           Go(w, "mark"), UNCHANGED <<jobs, files, outer>>
    PROVE  Inv'
  <1> DEFINE r == R(w)
             x == [worker[w] EXCEPT !.pc = "mark"]
  <1>0. worker[w].pc = "recover" /\ worker[w].pc \in Owned /\ worker[w].pc \notin Outside
    BY DEF RecoverState, At, Outside, Owned
  <1>1. /\ worker[w] \in Worker /\ worker[w].job \in Jobs /\ r \in Job
        /\ Valid(r) /\ FilesOf(r, Files(w)) /\ Ledgered(worker[w].job, r, ledger, vault)
        /\ Place(worker[w], r, Files(w), ledger, vault) /\ Files(w) \in SUBSET Payloads
    BY <1>0, Inside
  <1>2. /\ x \in Worker /\ x.pc = "mark" /\ x.job = worker[w].job /\ x.attempt = worker[w].attempt
        /\ x.behind = worker[w].behind /\ x.work = worker[w].work /\ x.rec = worker[w].rec
        /\ x.acc = worker[w].acc /\ x.code = worker[w].code
    BY <1>1 DEF Worker, Stages, Owned
  <1>5. /\ Starting(worker[w], r) /\ Packing(worker[w], r) /\ Ending(worker[w], r)
        /\ Opened(worker[w], r) /\ Sees(worker[w], r, Files(w), ledger, vault)
    BY <1>1 DEF Place
  <1>6. /\ ~r.pending /\ worker[w].work /\ worker[w].rec /\ ~worker[w].acc
    BY <1>0, <1>1, <1>5 DEF Starting, Packing, Ending, Opened, Sees, Begun, Applying, Syncing, Cleaning, Clean
  <1>4. /\ worker' = [worker EXCEPT ![w] = x]
        /\ UNCHANGED <<jobs, files, receipt, ledger, vault>>
    BY <1>1 DEF RecoverState, Write, WriteAnyway, Go, Adopt, R, outer, Files, Inv, Typed, Worker
  <1> HIDE DEF x
  <1>9. Place(x, r, Files(w), ledger, vault)
    <2>1. Owner(x, r)
      BY <1>0, <1>2, Owning DEF Owner
    <2>2. Starting(x, r)
      BY <1>2, <1>6 DEF Starting
    <2>3. Packing(x, r)
      BY <1>2, <1>6 DEF Packing, Begun, Applying, Clean
    <2>4. Ending(x, r) /\ Opened(x, r) /\ Sees(x, r, Files(w), ledger, vault)
      BY <1>2, <1>6 DEF Ending, Opened, Sees, Begun, Applying, Syncing, Cleaning, Clean
    <2>. QED  BY <2>1, <2>2, <2>3, <2>4 DEF Place
  <1>. QED  BY <1>0, <1>2, <1>4, <1>9, LocalGo

LEMMA ObserveCancelInv ==
    ASSUME Inv, NEW w \in Workers, ObserveCancel(w)
    PROVE  Inv'
  <1> DEFINE r == R(w)
             x == [worker[w] EXCEPT !.pc = "cancel", !.behind = FALSE]
  <1>0. worker[w].pc \in {"loop", "prepare", "keepPacket", "agent", "keepProposal", "beginApply", "complete"} /\ worker[w].pc \in Owned /\ worker[w].pc \notin Outside
    BY DEF ObserveCancel, At, Outside, Owned, PreCommit
  <1>1. /\ worker[w] \in Worker /\ worker[w].job \in Jobs /\ r \in Job
        /\ Valid(r) /\ FilesOf(r, Files(w)) /\ Ledgered(worker[w].job, r, ledger, vault)
        /\ Place(worker[w], r, Files(w), ledger, vault) /\ Files(w) \in SUBSET Payloads
    BY <1>0, Inside
  <1>2. /\ x \in Worker /\ x.pc = "cancel" /\ x.job = worker[w].job /\ x.attempt = worker[w].attempt
        /\ x.behind = FALSE /\ x.work = worker[w].work /\ x.rec = worker[w].rec
        /\ x.acc = worker[w].acc /\ x.code = worker[w].code
    BY <1>1 DEF Worker, Stages, Owned
  <1>5. /\ Starting(worker[w], r) /\ Packing(worker[w], r) /\ Ending(worker[w], r)
        /\ Opened(worker[w], r) /\ Sees(worker[w], r, Files(w), ledger, vault)
    BY <1>1 DEF Place
  <1>6. /\ (worker[w].work \/ r.payload = "")
    BY <1>0, <1>1, <1>5 DEF Starting, Packing, Ending, Opened, Sees, Begun, Applying, Syncing, Cleaning, Clean
  <1>4. /\ worker' = [worker EXCEPT ![w] = x]
        /\ UNCHANGED <<jobs, files, receipt, ledger, vault>>
    BY <1>1 DEF ObserveCancel, Write, WriteAnyway, Go, Adopt, R, outer, Files, Inv, Typed, Worker
  <1> HIDE DEF x
  <1>9. Place(x, r, Files(w), ledger, vault)
    <2>1. Owner(x, r)
      BY <1>0, <1>2, Owning DEF Owner
    <2>2. Starting(x, r)
      BY <1>2, <1>6 DEF Starting
    <2>3. Packing(x, r)
      BY <1>2, <1>6 DEF Packing, Begun, Applying, Clean
    <2>4. Ending(x, r) /\ Opened(x, r) /\ Sees(x, r, Files(w), ledger, vault)
      BY <1>2, <1>6 DEF Ending, Opened, Sees, Begun, Applying, Syncing, Cleaning, Clean
    <2>. QED  BY <2>1, <2>2, <2>3, <2>4 DEF Place
  <1>. QED  BY <1>0, <1>2, <1>4, <1>9, LocalGo

LEMMA CancelMarksInv ==
    ASSUME Inv, NEW w \in Workers, At(w, "cancel"), ~R(w).pending, worker[w].work, R(w).payload # "",
           Write(w, [R(w) EXCEPT !.payload = "cleanup_pending"], "cancelRemove"), UNCHANGED <<files, outer>>
    PROVE  Inv'
  <1> DEFINE r == R(w)
             x == [worker[w] EXCEPT !.pc = "cancelRemove"]
             q == [r EXCEPT !.payload = "cleanup_pending"]
  <1>0. worker[w].pc = "cancel" /\ worker[w].pc \in Owned /\ worker[w].pc \notin Outside
    BY DEF FinishCancelled, At, Outside, Owned
  <1>1. /\ worker[w] \in Worker /\ worker[w].job \in Jobs /\ r \in Job
        /\ Valid(r) /\ FilesOf(r, Files(w)) /\ Ledgered(worker[w].job, r, ledger, vault)
        /\ Place(worker[w], r, Files(w), ledger, vault) /\ Files(w) \in SUBSET Payloads
    BY <1>0, Inside
  <1>2. /\ x \in Worker /\ x.pc = "cancelRemove" /\ x.job = worker[w].job
        /\ x.attempt = worker[w].attempt /\ x.behind = worker[w].behind /\ x.work = worker[w].work
        /\ x.rec = worker[w].rec /\ x.acc = worker[w].acc /\ x.code = worker[w].code
    BY <1>1 DEF Worker, Stages, Owned
  <1>5. /\ Starting(worker[w], r) /\ Packing(worker[w], r) /\ Ending(worker[w], r)
        /\ Opened(worker[w], r) /\ Sees(worker[w], r, Files(w), ledger, vault)
    BY <1>1 DEF Place
  <1>6. /\ ~r.pending /\ worker[w].work /\ r.payload # ""
    BY <1>0, <1>1, <1>5 DEF Starting, Packing, Ending, Opened, Sees, Begun, Applying, Syncing, Cleaning, Clean
  <1>3. /\ q \in Job /\ SameProgress(q, r) /\ q.state = r.state /\ q.attempt = r.attempt
        /\ q.token = r.token /\ q.owner = r.owner /\ q.cancel = r.cancel /\ q.phase = r.phase
        /\ q.payload = "cleanup_pending" /\ q.pubs = r.pubs /\ q.result = r.result
        /\ q.from = r.from /\ q.error = r.error
    BY ZenonT(60), <1>1, <1>6, ReviewJobAssumption DEF Job, Phases, States, ActiveStates, PayloadStates, Errors, SameProgress
  <1>4. /\ worker' = [worker EXCEPT ![w] = x]
        /\ jobs' = [jobs EXCEPT ![worker[w].job] = q]
        /\ files' = [files EXCEPT ![worker[w].job] = Files(w)]
        /\ UNCHANGED <<receipt, ledger, vault>>
    BY <1>1 DEF FinishCancelled, Write, WriteAnyway, Go, Adopt, R, outer, Files, Inv, Typed, Worker
  <1> HIDE DEF x, q
  <1>7. Valid(q)
    <2>1. Lifecycle(q)
      BY <1>0, <1>1, <1>3, <1>6, Owning DEF Valid, Lifecycle, SameProgress, Going, ActiveStates, Clean
    <2>2. Progress(q)
      BY <1>1, <1>3, <1>6, FrozenType DEF Valid, Progress, SameProgress, Upper
    <2>3. Payload(q)
      BY <1>0, <1>1, <1>3, <1>6, Owning, FrozenType DEF Valid, Payload, SameProgress, Going, ActiveStates,
         Upper, Clean, Private
    <2>. QED  BY <2>1, <2>2, <2>3 DEF Valid
  <1>8. FilesOf(q, Files(w)) /\ Ledgered(worker[w].job, q, ledger, vault)
    BY <1>1, <1>3, <1>6, SameLedger DEF FilesOf, Clean, SameProgress
  <1>a. /\ ~q.pending /\ x.work /\ q.payload = "cleanup_pending"
    BY <1>1, <1>2, <1>3, <1>6 DEF SameProgress
  <1>9. Place(x, q, Files(w), ledger, vault)
    <2>1. Owner(x, q)
      BY ZenonT(60), <1>0, <1>2, <1>3, Owning DEF Owner, SameProgress
    <2>2. Starting(x, q)
      BY <1>2, <1>a DEF Starting
    <2>3. Packing(x, q)
      BY <1>2, <1>a DEF Packing, Begun, Applying, Clean
    <2>4. Ending(x, q) /\ Opened(x, q) /\ Sees(x, q, Files(w), ledger, vault)
      BY <1>2, <1>a DEF Ending, Opened, Sees, Begun, Applying, Syncing, Cleaning, Clean
    <2>. QED  BY <2>1, <2>2, <2>3, <2>4 DEF Place
  <1>. QED  BY <1>0, <1>1, <1>2, <1>3, <1>4, <1>7, <1>8, <1>9, Local

LEMMA CancelEndsInv ==
    ASSUME Inv, NEW w \in Workers, At(w, "cancel"), ~R(w).pending, R(w).payload \in Clean \/ ~worker[w].work,
           Go(w, "cancelled"), UNCHANGED <<jobs, files, outer>>
    PROVE  Inv'
  <1> DEFINE r == R(w)
             x == [worker[w] EXCEPT !.pc = "cancelled"]
  <1>0. worker[w].pc = "cancel" /\ worker[w].pc \in Owned /\ worker[w].pc \notin Outside
    BY DEF FinishCancelled, At, Outside, Owned
  <1>1. /\ worker[w] \in Worker /\ worker[w].job \in Jobs /\ r \in Job
        /\ Valid(r) /\ FilesOf(r, Files(w)) /\ Ledgered(worker[w].job, r, ledger, vault)
        /\ Place(worker[w], r, Files(w), ledger, vault) /\ Files(w) \in SUBSET Payloads
    BY <1>0, Inside
  <1>2. /\ x \in Worker /\ x.pc = "cancelled" /\ x.job = worker[w].job
        /\ x.attempt = worker[w].attempt /\ x.behind = worker[w].behind /\ x.work = worker[w].work
        /\ x.rec = worker[w].rec /\ x.acc = worker[w].acc /\ x.code = worker[w].code
    BY <1>1 DEF Worker, Stages, Owned
  <1>5. /\ Starting(worker[w], r) /\ Packing(worker[w], r) /\ Ending(worker[w], r)
        /\ Opened(worker[w], r) /\ Sees(worker[w], r, Files(w), ledger, vault)
    BY <1>1 DEF Place
  <1>6. /\ ~r.pending /\ r.payload \in Clean
    BY <1>0, <1>1, <1>5 DEF Starting, Packing, Ending, Opened, Sees, Begun, Applying, Syncing, Cleaning, Clean
  <1>4. /\ worker' = [worker EXCEPT ![w] = x]
        /\ UNCHANGED <<jobs, files, receipt, ledger, vault>>
    BY <1>1 DEF FinishCancelled, Write, WriteAnyway, Go, Adopt, R, outer, Files, Inv, Typed, Worker
  <1> HIDE DEF x
  <1>9. Place(x, r, Files(w), ledger, vault)
    <2>1. Owner(x, r)
      BY <1>0, <1>2, Owning DEF Owner
    <2>2. Starting(x, r)
      BY <1>2, <1>6 DEF Starting
    <2>3. Packing(x, r)
      BY <1>2, <1>6 DEF Packing, Begun, Applying, Clean
    <2>4. Ending(x, r) /\ Opened(x, r) /\ Sees(x, r, Files(w), ledger, vault)
      BY <1>2, <1>6 DEF Ending, Opened, Sees, Begun, Applying, Syncing, Cleaning, Clean
    <2>. QED  BY <2>1, <2>2, <2>3, <2>4 DEF Place
  <1>. QED  BY <1>0, <1>2, <1>4, <1>9, LocalGo

LEMMA CancelRemovedInv ==
    ASSUME Inv, NEW w \in Workers, At(w, "cancelRemove"), Removed(w, "cancelSettle"), UNCHANGED <<jobs, outer>>
    PROVE  Inv'
  <1> DEFINE r == R(w)
             x == [worker[w] EXCEPT !.pc = "cancelSettle"]
             f == Files(w) \ Named(r)
  <1>0. worker[w].pc = "cancelRemove" /\ worker[w].pc \in Owned /\ worker[w].pc \notin Outside
    BY DEF CancelRemove, At, Outside, Owned
  <1>1. /\ worker[w] \in Worker /\ worker[w].job \in Jobs /\ r \in Job
        /\ Valid(r) /\ FilesOf(r, Files(w)) /\ Ledgered(worker[w].job, r, ledger, vault)
        /\ Place(worker[w], r, Files(w), ledger, vault) /\ Files(w) \in SUBSET Payloads
    BY <1>0, Inside
  <1>2. /\ x \in Worker /\ x.pc = "cancelSettle" /\ x.job = worker[w].job
        /\ x.attempt = worker[w].attempt /\ x.behind = worker[w].behind /\ x.work = worker[w].work
        /\ x.rec = worker[w].rec /\ x.acc = worker[w].acc /\ x.code = worker[w].code
    BY <1>1 DEF Worker, Stages, Owned
  <1>5. /\ Starting(worker[w], r) /\ Packing(worker[w], r) /\ Ending(worker[w], r)
        /\ Opened(worker[w], r) /\ Sees(worker[w], r, Files(w), ledger, vault)
    BY <1>1 DEF Place
  <1>6. /\ ~r.pending /\ r.payload = "cleanup_pending" /\ f = {}
    BY <1>0, <1>1, <1>5 DEF Starting, Packing, Ending, Opened, Sees, Begun, Applying, Syncing, Cleaning, Clean, Named, Payloads, FilesOf
  <1>3. f \in SUBSET Payloads
    BY <1>1 DEF Payloads
  <1>4. /\ worker' = [worker EXCEPT ![w] = x]
        /\ jobs' = [jobs EXCEPT ![worker[w].job] = r]
        /\ files' = [files EXCEPT ![worker[w].job] = f]
        /\ UNCHANGED <<receipt, ledger, vault>>
    BY <1>1 DEF CancelRemove, Write, WriteAnyway, Go, Adopt, R, outer, Files, Inv, Typed, Worker, Removed
  <1> HIDE DEF x, f
  <1>8. FilesOf(r, f) /\ Ledgered(worker[w].job, r, ledger, vault)
    BY <1>1, <1>3, <1>6, SameLedger DEF FilesOf, Clean, SameProgress, f, Payloads
  <1>9. Place(x, r, f, ledger, vault)
    <2>1. Owner(x, r)
      BY <1>0, <1>2, Owning DEF Owner
    <2>2. Starting(x, r)
      BY <1>2, <1>6 DEF Starting
    <2>3. Packing(x, r)
      BY <1>2, <1>6 DEF Packing, Begun, Applying, Clean
    <2>4. Ending(x, r) /\ Opened(x, r) /\ Sees(x, r, f, ledger, vault)
      BY <1>2, <1>6 DEF Ending, Opened, Sees, Begun, Applying, Syncing, Cleaning, Clean
    <2>. QED  BY <2>1, <2>2, <2>3, <2>4 DEF Place
  <1>. QED  BY <1>0, <1>1, <1>2, <1>3, <1>4, <1>8, <1>9, Local

LEMMA CancelSettleInv ==
    ASSUME Inv, NEW w \in Workers, CancelSettle(w)
    PROVE  Inv'
  <1> DEFINE r == R(w)
             x == [worker[w] EXCEPT !.pc = "cancelled"]
             q == [r EXCEPT !.payload = "cleanup_complete"]
  <1>0. worker[w].pc = "cancelSettle" /\ worker[w].pc \in Owned /\ worker[w].pc \notin Outside
    BY DEF CancelSettle, At, Outside, Owned
  <1>1. /\ worker[w] \in Worker /\ worker[w].job \in Jobs /\ r \in Job
        /\ Valid(r) /\ FilesOf(r, Files(w)) /\ Ledgered(worker[w].job, r, ledger, vault)
        /\ Place(worker[w], r, Files(w), ledger, vault) /\ Files(w) \in SUBSET Payloads
    BY <1>0, Inside
  <1>2. /\ x \in Worker /\ x.pc = "cancelled" /\ x.job = worker[w].job
        /\ x.attempt = worker[w].attempt /\ x.behind = worker[w].behind /\ x.work = worker[w].work
        /\ x.rec = worker[w].rec /\ x.acc = worker[w].acc /\ x.code = worker[w].code
    BY <1>1 DEF Worker, Stages, Owned
  <1>5. /\ Starting(worker[w], r) /\ Packing(worker[w], r) /\ Ending(worker[w], r)
        /\ Opened(worker[w], r) /\ Sees(worker[w], r, Files(w), ledger, vault)
    BY <1>1 DEF Place
  <1>6. /\ ~r.pending /\ Files(w) = {} /\ r.frozen # <<>>
    BY <1>0, <1>1, <1>5 DEF Starting, Packing, Ending, Opened, Sees, Begun, Applying, Syncing, Cleaning, Clean, Valid, Progress
  <1>3. /\ q \in Job /\ SameProgress(q, r) /\ q.state = r.state /\ q.attempt = r.attempt
        /\ q.token = r.token /\ q.owner = r.owner /\ q.cancel = r.cancel /\ q.phase = r.phase
        /\ q.payload = "cleanup_complete" /\ q.pubs = r.pubs /\ q.result = r.result
        /\ q.from = r.from /\ q.error = r.error
    BY ZenonT(60), <1>1, <1>6, ReviewJobAssumption DEF Job, Phases, States, ActiveStates, PayloadStates, Errors, SameProgress
  <1>4. /\ worker' = [worker EXCEPT ![w] = x]
        /\ jobs' = [jobs EXCEPT ![worker[w].job] = q]
        /\ files' = [files EXCEPT ![worker[w].job] = Files(w)]
        /\ UNCHANGED <<receipt, ledger, vault>>
    BY <1>1 DEF CancelSettle, Write, WriteAnyway, Go, Adopt, R, outer, Files, Inv, Typed, Worker
  <1> HIDE DEF x, q
  <1>7. Valid(q)
    <2>1. Lifecycle(q)
      BY <1>0, <1>1, <1>3, <1>6, Owning DEF Valid, Lifecycle, SameProgress, Going, ActiveStates, Clean
    <2>2. Progress(q)
      BY <1>1, <1>3, <1>6, FrozenType DEF Valid, Progress, SameProgress, Upper
    <2>3. Payload(q)
      BY <1>0, <1>1, <1>3, <1>6, Owning, FrozenType DEF Valid, Payload, SameProgress, Going, ActiveStates,
         Upper, Clean, Private
    <2>. QED  BY <2>1, <2>2, <2>3 DEF Valid
  <1>8. FilesOf(q, Files(w)) /\ Ledgered(worker[w].job, q, ledger, vault)
    BY <1>1, <1>3, <1>6, SameLedger DEF FilesOf, Clean, SameProgress
  <1>a. /\ ~q.pending /\ q.frozen # <<>> /\ q.payload = "cleanup_complete"
    BY <1>1, <1>2, <1>3, <1>6 DEF SameProgress
  <1>9. Place(x, q, Files(w), ledger, vault)
    <2>1. Owner(x, q)
      BY ZenonT(60), <1>0, <1>2, <1>3, Owning DEF Owner, SameProgress
    <2>2. Starting(x, q)
      BY <1>2, <1>a DEF Starting
    <2>3. Packing(x, q)
      BY <1>2, <1>a DEF Packing, Begun, Applying, Clean
    <2>4. Ending(x, q) /\ Opened(x, q) /\ Sees(x, q, Files(w), ledger, vault)
      BY <1>2, <1>a DEF Ending, Opened, Sees, Begun, Applying, Syncing, Cleaning, Clean
    <2>. QED  BY <2>1, <2>2, <2>3, <2>4 DEF Place
  <1>. QED  BY <1>0, <1>1, <1>2, <1>3, <1>4, <1>7, <1>8, <1>9, Local

\* Files go, and nothing else.
LEMMA Shrinks ==
    ASSUME Inv, NEW w \in Workers, worker[w].pc \notin Outside, NEW x \in Worker,
           NEW f \in SUBSET Files(w),
           worker' = [worker EXCEPT ![w] = x],
           files' = [files EXCEPT ![worker[w].job] = f],
           UNCHANGED <<jobs, receipt, ledger, vault>>,
           x.pc # "idle" => x.job = worker[w].job, x.pc \notin {"launch", "spawned"},
           x.pc \notin Outside => Place(x, R(w), f, ledger, vault)
    PROVE  Inv'
  <1>1. /\ worker[w].job \in Jobs /\ R(w) \in Job /\ Files(w) \subseteq Payloads
        /\ Valid(R(w)) /\ FilesOf(R(w), Files(w)) /\ Ledgered(worker[w].job, R(w), ledger, vault)
    BY Inside
  <1>2. FilesOf(R(w), f) /\ f \in SUBSET Payloads
    BY <1>1 DEF FilesOf
  <1>3. jobs' = [jobs EXCEPT ![worker[w].job] = R(w)]
    BY <1>1 DEF R, Inv, Typed
  <1>. QED  BY <1>1, <1>2, <1>3, Local

LEMMA ShrinkExits ==
    ASSUME Inv, NEW w \in Workers, worker[w].pc \notin Outside, NEW code \in Errors,
           RemoveStops(w), Exit(w, code), UNCHANGED <<jobs, receipt, ledger, vault>>
    PROVE  Inv'
  <1>1. PICK f \in SUBSET Files(w) : files' = [files EXCEPT ![worker[w].job] = f]
    BY DEF RemoveStops, Files
  <1>2. worker[w].pc # "idle"
    BY DEF Outside
  <1>3. LET x == Gone(w, code) IN
        /\ x \in Worker /\ x.pc \in {"idle", "dead"} /\ x.pc \in Outside
        /\ x.pc # "idle" => x.job = worker[w].job
        /\ worker' = [worker EXCEPT ![w] = x]
    BY <1>2, GoneType DEF Exit
  <1>. QED  BY <1>1, <1>3, Shrinks

\* A last write before the process ends.
LEMMA WriteExits ==
    ASSUME Inv, NEW w \in Workers, worker[w].pc \notin Outside, NEW code \in Errors, NEW q \in Job,
           jobs' = [jobs EXCEPT ![worker[w].job] = q], Exit(w, code),
           UNCHANGED <<files, receipt, ledger, vault>>,
           Valid(q), FilesOf(q, Files(w)), SameProgress(q, R(w))
    PROVE  Inv'
  <1>1. /\ worker[w].job \in Jobs /\ Files(w) \in SUBSET Payloads
        /\ Ledgered(worker[w].job, R(w), ledger, vault)
    BY Inside
  <1>2. files' = [files EXCEPT ![worker[w].job] = Files(w)]
    BY <1>1 DEF Files, Inv, Typed
  <1>3. worker[w].pc # "idle" /\ Ledgered(worker[w].job, q, ledger, vault)
    BY <1>1, SameLedger DEF Outside
  <1>4. LET x == Gone(w, code) IN
        /\ x \in Worker /\ x.pc \in {"idle", "dead"} /\ x.pc \in Outside
        /\ x.pc # "idle" => x.job = worker[w].job
        /\ worker' = [worker EXCEPT ![w] = x]
    BY <1>3, GoneType DEF Exit
  <1>. QED  BY <1>1, <1>2, <1>3, <1>4, Local

LEMMA HandshakeInv ==
    ASSUME Inv, NEW w \in Workers, Handshake(w)
    PROVE  Inv'
  <1>1. worker[w].pc \in Owned \cup {"handshake"} /\ worker[w].pc = "handshake"
    BY DEF Handshake
  <1>2. CASE ~worker[w].parent
    <2>1. Failing(w, "apply_recovery") /\ "apply_recovery" \in Errors
          /\ UNCHANGED <<jobs, files, receipt, ledger, vault>>
      BY <1>2 DEF Handshake, Errors, outer
    <2>2. worker[w].behind \in BOOLEAN
      BY DEF Inv, Typed, Worker
    <2>. QED  BY ZenonT(60), <1>1, <2>1, <2>2, Closed, FailingIs, FailingInv
  <1>. QED  BY <1>2, HandshakeDoneInv

LEMMA StartInv ==
    ASSUME Inv, NEW w \in Workers, Start(w)
    PROVE  Inv'
  <1> DEFINE r == R(w)
             x == [worker[w] EXCEPT !.pc = "handshake"]
             q == [r EXCEPT !.state = IF Requested(w) THEN "cancel_requested" ELSE "running",
                            !.token = FALSE, !.owner = TRUE, !.error = ""]
  <1>0. worker[w].pc = "start" /\ worker[w].pc \notin Outside
    BY DEF Start, Outside
  <1>1. CASE worker[w].behind
    BY <1>0, <1>1, Exits DEF Start, Errors, outer
  <1>2. CASE ~worker[w].behind
    <2>1. /\ worker[w] \in Worker /\ worker[w].job \in Jobs /\ r \in Job
          /\ Valid(r) /\ FilesOf(r, Files(w)) /\ Ledgered(worker[w].job, r, ledger, vault)
          /\ Place(worker[w], r, Files(w), ledger, vault) /\ Files(w) \in SUBSET Payloads
      BY <1>0, Inside
    <2>2. /\ r.token /\ r.attempt = worker[w].attempt /\ ~worker[w].work
          /\ r.state \in ActiveStates /\ r.phase = "preflight"
          /\ r.attempt = 1 => r.payload = "" /\ ~r.pending
          /\ r.cancel => r.state = "cancel_requested"
      BY <1>0, <1>2, <2>1 DEF Place, Owner, Starting, Valid, Lifecycle, Going, ActiveStates
    <2>3. /\ x \in Worker /\ x.pc = "handshake" /\ x.job = worker[w].job /\ ~x.behind
          /\ x.attempt = worker[w].attempt /\ x.work = worker[w].work
      BY <1>2, <2>1 DEF Worker, Stages
    <2>4. /\ q \in Job /\ SameProgress(q, r)
          /\ q.state = IF r.state = "cancel_requested" THEN r.state ELSE "running"
          /\ ~q.token /\ q.owner /\ q.error = "" /\ q.attempt = r.attempt /\ q.cancel = r.cancel
          /\ q.phase = r.phase /\ q.payload = r.payload /\ q.pubs = r.pubs
          /\ q.result = r.result /\ q.from = r.from
      BY ZenonT(60), <2>1 DEF Job, States, ActiveStates, Errors, SameProgress, Requested
    <2>5. /\ worker' = [worker EXCEPT ![w] = x]
          /\ jobs' = [jobs EXCEPT ![worker[w].job] = q]
          /\ files' = [files EXCEPT ![worker[w].job] = Files(w)]
          /\ UNCHANGED <<receipt, ledger, vault>>
      <3>1. worker' = [worker EXCEPT ![w] = x]
        BY <1>2, <2>1 DEF Start, Go, Inv, Typed
      <3>2. jobs' = [jobs EXCEPT ![worker[w].job] = q]
        <4>1. jobs' = [jobs EXCEPT ![worker[w].job] =
                  [jobs[worker[w].job] EXCEPT !.state = IF Requested(w) THEN "cancel_requested" ELSE "running",
                                              !.token = FALSE, !.owner = TRUE, !.error = ""]]
          BY <1>2 DEF Start
        <4>. QED  BY <4>1 DEF R
      <3>3. files' = [files EXCEPT ![worker[w].job] = Files(w)]
        BY <2>1 DEF Start, Files, Inv, Typed
      <3>. QED  BY <3>1, <3>2, <3>3 DEF Start, outer
    <2> HIDE DEF x, q
    <2>6. Valid(q)
      <3>1. Lifecycle(q)
        BY <2>1, <2>2, <2>4 DEF Valid, Lifecycle, SameProgress, Going, ActiveStates
      <3>2. Progress(q)
        BY <2>1, <2>4 DEF Valid, Progress, SameProgress, Upper
      <3>3. Payload(q)
        BY <2>1, <2>2, <2>4 DEF Valid, Payload, SameProgress, Going, ActiveStates, Upper, Private
      <3>. QED  BY <3>1, <3>2, <3>3 DEF Valid
    <2>7. FilesOf(q, Files(w)) /\ Ledgered(worker[w].job, q, ledger, vault)
      BY <2>1, <2>4, SameLedger DEF FilesOf
    <2>8. Place(x, q, Files(w), ledger, vault)
      <3>1. Owner(x, q)
        BY <2>2, <2>3, <2>4 DEF Owner
      <3>2. Starting(x, q)
        BY <2>2, <2>3, <2>4 DEF Starting, SameProgress
      <3>3. Packing(x, q) /\ Ending(x, q) /\ Opened(x, q) /\ Sees(x, q, Files(w), ledger, vault)
        BY <2>3 DEF Packing, Ending, Opened, Sees, Begun, Applying, Syncing, Cleaning
      <3>. QED  BY <3>1, <3>2, <3>3 DEF Place
    <2>. QED  BY <1>0, <2>1, <2>3, <2>4, <2>5, <2>6, <2>7, <2>8, Local
  <1>. QED  BY <1>1, <1>2

LEMMA AcquireInv ==
    ASSUME Inv, NEW w \in Workers, Acquire(w)
    PROVE  Inv'
  <1> DEFINE x == [worker[w] EXCEPT !.pc = "start"]
  <1>1. /\ worker[w].pc = "spawned" /\ \A v \in Workers : worker[v].pc \in Outside
        /\ R(w).token /\ R(w).attempt = worker[w].attempt
        /\ R(w).state = "cancel_requested" => R(w).attempt > 1
        /\ UNCHANGED <<jobs, files, receipt, ledger, vault>>
    BY DEF Acquire, LeaseFree, outer
  <1>2. worker[w] \in Worker /\ worker[w].job \in Jobs /\ R(w) # NoJob /\ ~worker[w].work
    BY <1>1 DEF Inv, Typed, Placing
  <1>3. /\ x \in Worker /\ x.pc = "start" /\ x.job = worker[w].job /\ x.attempt = worker[w].attempt
        /\ ~x.work
    BY <1>2 DEF Worker, Stages
  <1>4. worker' = [worker EXCEPT ![w] = x]
    BY DEF Acquire, Go, Inv, Typed
  <1> HIDE DEF x
  <1>5. Typed' /\ worker'[w] = x /\ \A v \in Workers \ {w} : worker'[v] = worker[v]
    BY <1>1, <1>3, <1>4 DEF Inv, Typed, OuterTyped
  <1>6. OneInside'
    BY <1>1, <1>5 DEF OneInside
  <1>7. Place(x, R(w), Files(w), ledger, vault)
    <2>1. Owner(x, R(w))
      BY <1>1, <1>3 DEF Owner, Owned
    <2>2. Starting(x, R(w)) /\ Packing(x, R(w)) /\ Ending(x, R(w))
      BY <1>3 DEF Starting, Packing, Ending, Begun, Applying, Syncing, Cleaning
    <2>3. Opened(x, R(w)) /\ Sees(x, R(w), Files(w), ledger, vault)
      BY <1>3 DEF Opened, Sees, Begun, Applying, Syncing, Cleaning
    <2>. QED  BY <2>1, <2>2, <2>3 DEF Place
  <1>8. ASSUME NEW v \in Workers PROVE Placing(v)'
    <2>1. CASE v = w
      BY <1>1, <1>2, <1>3, <1>5, <1>7, <2>1 DEF Placing, R, Files
    <2>2. CASE v # w
      BY <1>1, <1>5, <2>2 DEF Inv, Placing, R
    <2>. QED  BY <2>1, <2>2
  <1>. QED  BY <1>1, <1>5, <1>6, <1>8 DEF Inv

LEMMA RouteInv ==
    ASSUME Inv, NEW w \in Workers, Route(w)
    PROVE  Inv'
  <1> DEFINE r == R(w)
             unresolved == r.pending \/ r.payload = "apply_recovery"
             recovers == r.attempt > 1 /\ (r.payload # "" \/ r.pending)
             pc == IF recovers THEN "recover"
                   ELSE IF r.attempt > 1 /\ Requested(w) /\ ~unresolved /\ ~worker[w].behind
                     THEN "cancel"
                   ELSE IF r.frozen = <<>> THEN "sync" ELSE "loop"
             x == [worker[w] EXCEPT !.pc = pc, !.work = recovers \/ r.frozen # <<>>,
                                    !.rec = recovers, !.acc = recovers /\ unresolved]
  <1>0. worker[w].pc = "route" /\ worker[w].pc \in Owned /\ worker[w].pc \notin Outside
    BY DEF Route, At, Owned, Outside
  <1>1. /\ worker[w] \in Worker /\ r \in Job /\ Progress(r) /\ (r.attempt > 1 \/ r.attempt = 1)
        /\ r.phase = "preflight" /\ (r.attempt = 1 => r.payload = "" /\ ~r.pending)
    <2>1. worker[w] \in Worker /\ r \in Job /\ Progress(r)
      BY <1>0, Inside DEF Valid
    <2>2. r.attempt > 1 \/ r.attempt = 1
      <3>1. r.attempt \in 1..MaxAttempts
        BY <2>1, FrozenType
      <3>. QED  BY <3>1, ReviewJobAssumption
    <2>. QED  BY <1>0, <2>1, <2>2, Closed
  <1>a. /\ recovers \in BOOLEAN /\ unresolved \in BOOLEAN /\ (r.frozen # <<>>) \in BOOLEAN
        /\ pc \in Stages
    BY DEF Stages, Owned
  <1>5. ~recovers => r.payload = "" /\ ~r.pending
    BY <1>1, Zenon
  <1>6a. \/ recovers /\ pc = "recover"
         \/ ~recovers /\ pc = "cancel"
         \/ ~recovers /\ pc = "sync" /\ r.frozen = <<>>
         \/ ~recovers /\ pc = "loop" /\ r.frozen # <<>>
    OBVIOUS
  <1> DEFINE work == recovers \/ r.frozen # <<>>
             acc == recovers /\ unresolved
  <1>b. worker' = [worker EXCEPT ![w] = x] /\ work \in BOOLEAN /\ acc \in BOOLEAN
    BY ZenonT(60) DEF Route, Inv, Typed
  <1>2. /\ x \in Worker /\ x.pc = pc /\ x.job = worker[w].job /\ x.attempt = worker[w].attempt
        /\ x.behind = worker[w].behind /\ (x.work <=> recovers \/ r.frozen # <<>>)
        /\ (x.rec <=> recovers) /\ (x.acc <=> recovers /\ unresolved)
    <2> HIDE DEF recovers, pc, work, acc
    <2>1. x = [worker[w] EXCEPT !.pc = pc, !.work = work, !.rec = recovers, !.acc = acc]
      BY DEF work, acc
    <2>2. /\ x \in Worker /\ x.pc = pc /\ x.job = worker[w].job /\ x.attempt = worker[w].attempt
          /\ x.behind = worker[w].behind /\ x.work = work /\ x.rec = recovers /\ x.acc = acc
      BY ZenonT(60), <1>1, <1>a, <1>b, <2>1 DEF Worker
    <2>. QED  BY <2>2 DEF work, acc
  <1>4. recovers => r.frozen # <<>>
    BY <1>1, FrozenType DEF Progress
  <1>6. \/ x.pc = "recover" /\ x.work /\ x.rec /\ (x.acc <=> unresolved) /\ r.frozen # <<>>
        \/ x.pc = "cancel" /\ r.payload = "" /\ (x.work => r.frozen # <<>>)
        \/ x.pc = "sync" /\ r.frozen = <<>> /\ ~x.work
        \/ x.pc = "loop" /\ x.work /\ r.payload = "" /\ ~r.pending /\ r.frozen # <<>>
    BY <1>2, <1>4, <1>5, <1>6a
  <1> HIDE DEF x, pc, recovers
  <1>7. Place(x, r, Files(w), ledger, vault)
    <2>1. Owner(x, r)
      BY <1>0, <1>2, <1>6, Owning DEF Owner
    <2>2. Starting(x, r)
      BY <1>1, <1>6 DEF Starting
    <2>3. Packing(x, r)
      BY <1>6 DEF Packing, Begun, Applying, Clean
    <2>4. Ending(x, r) /\ Opened(x, r) /\ Sees(x, r, Files(w), ledger, vault)
      BY <1>6 DEF Ending, Opened, Sees, Begun, Applying, Syncing, Cleaning
    <2>. QED  BY <2>1, <2>2, <2>3, <2>4 DEF Place
  <1>8. x.pc \notin {"launch", "spawned"} /\ UNCHANGED <<jobs, files, receipt, ledger, vault>>
    BY <1>6 DEF Route, outer
  <1>. QED  BY <1>0, <1>2, <1>b, <1>7, <1>8, LocalGo

LEMMA RecoverStateInv ==
    ASSUME Inv, NEW w \in Workers, RecoverState(w)
    PROVE  Inv'
  <1>1. /\ worker[w].pc = "recover" /\ worker[w].pc \in Owned /\ worker[w].pc \notin Outside
        /\ "apply_recovery" \in Errors
    BY DEF RecoverState, At, Owned, Outside, Errors
  <1>2. worker[w].work
    BY <1>1, Inside DEF Place, Opened
  <1>3. CASE Failing(w, "apply_recovery") /\ UNCHANGED jobs
    BY <1>1, <1>2, <1>3, OpenFails DEF RecoverState, outer
  <1>4. CASE /\ R(w).payload = "apply_recovery" /\ ~R(w).pending
             /\ Write(w, [R(w) EXCEPT !.phase = "applying"], "apply")
    BY <1>4, RecoverAppliesInv DEF RecoverState
  <1>5. CASE R(w).pending /\ Go(w, "sync") /\ UNCHANGED jobs
    BY <1>5, RecoverSyncsInv DEF RecoverState, outer
  <1>6. CASE R(w).payload # "apply_recovery" /\ ~R(w).pending /\ Go(w, "mark") /\ UNCHANGED jobs
    BY <1>6, RecoverMarksInv DEF RecoverState, outer
  <1>. QED  BY <1>3, <1>4, <1>5, <1>6 DEF RecoverState

LEMMA FinishCancelledInv ==
    ASSUME Inv, NEW w \in Workers, FinishCancelled(w)
    PROVE  Inv'
  <1>1. /\ worker[w].pc = "cancel" /\ worker[w].pc \in Owned /\ worker[w].pc \notin Outside
        /\ "apply_recovery" \in Errors /\ worker[w].behind \in BOOLEAN
    BY ZenonT(60) DEF FinishCancelled, At, Owned, Outside, Errors, Inv, Typed, Worker
  <1>2. CASE R(w).pending \/ R(w).payload = "apply_recovery"
    <2>1. ~worker[w].work => R(w).payload = ""
      BY <1>1, Inside DEF Place, Opened
    <2>2. Failing(w, "apply_recovery") /\ UNCHANGED <<jobs, files, receipt, ledger, vault>>
      BY <1>2 DEF FinishCancelled, outer
    <2>. QED  BY <1>1, <2>1, <2>2, FailingIs, FailingInv
  <1>3. CASE /\ ~R(w).pending /\ R(w).payload # "apply_recovery"
             /\ worker[w].work /\ R(w).payload \notin {"", "cleanup_complete"}
    BY <1>3, CancelMarksInv DEF FinishCancelled
  <1>4. CASE /\ ~R(w).pending /\ R(w).payload # "apply_recovery"
             /\ ~(worker[w].work /\ R(w).payload \notin {"", "cleanup_complete"})
    BY <1>4, CancelEndsInv DEF FinishCancelled, Clean, outer
  <1>. QED  BY <1>2, <1>3, <1>4

LEMMA CancelRemoveInv ==
    ASSUME Inv, NEW w \in Workers, CancelRemove(w)
    PROVE  Inv'
  <1>1. CASE Removed(w, "cancelSettle")
    BY <1>1, CancelRemovedInv DEF CancelRemove
  <1>2. CASE RemoveStops(w) /\ Exit(w, "")
    BY <1>2, ShrinkExits DEF CancelRemove, At, Outside, Errors, outer
  <1>. QED  BY <1>1, <1>2 DEF CancelRemove

LEMMA CancelledInv ==
    ASSUME Inv, NEW w \in Workers, Cancelled(w)
    PROVE  Inv'
  <1> DEFINE r == R(w)
             q == [r EXCEPT !.state = "cancelled", !.phase = "", !.owner = FALSE, !.cancel = TRUE,
                            !.error = "other"]
  <1>0. worker[w].pc = "cancelled" /\ worker[w].pc \in Owned /\ worker[w].pc \notin Outside
    BY DEF Cancelled, At, Outside, Owned
  <1>1. /\ r \in Job /\ Valid(r) /\ FilesOf(r, Files(w))
        /\ ~r.pending /\ r.payload \in Clean /\ ~r.token
    BY <1>0, Inside, Owning DEF Place, Ending
  <1>2. /\ q \in Job /\ SameProgress(q, r) /\ q.state = "cancelled" /\ q.attempt = r.attempt
        /\ q.token = r.token /\ ~q.owner /\ q.cancel /\ q.phase = "" /\ q.payload = r.payload
        /\ q.pubs = r.pubs /\ q.result = r.result /\ q.from = r.from /\ q.error = "other"
    BY <1>1 DEF Job, States, Phases, Errors, SameProgress
  <1>3. jobs' = [jobs EXCEPT ![worker[w].job] = q] /\ Exit(w, "") /\ "" \in Errors
        /\ UNCHANGED <<files, receipt, ledger, vault>>
    BY DEF Cancelled, R, outer, Errors
  <1> HIDE DEF q
  <1>4. Valid(q) /\ FilesOf(q, Files(w))
    <2>1. Lifecycle(q)
      BY <1>1, <1>2 DEF Lifecycle, Going, ActiveStates, SameProgress, Clean
    <2>2. Progress(q)
      BY <1>1, <1>2 DEF Valid, Progress, SameProgress, Upper
    <2>3. Payload(q)
      BY <1>1, <1>2 DEF Valid, Payload, Clean, Private
    <2>. QED  BY <1>1, <1>2, <2>1, <2>2, <2>3 DEF Valid, FilesOf
  <1>. QED  BY <1>0, <1>2, <1>3, <1>4, WriteExits

------------------------------------------------------------------------------
(* The failure of a job. *)

\* What fail leaves of a record.
LEMMA FailedValid ==
    ASSUME NEW r \in Job, NEW code \in Errors, NEW work \in BOOLEAN, NEW f,
           Valid(r), FilesOf(r, f), ~r.token, work => r.frozen # <<>>,
           ~work => /\ r.payload \notin {"publishing", "retained"}
                    /\ r.payload = "apply_recovery" =>
                          code \in {"apply_recovery", "agent"} /\ r.phase # "syncing"
    PROVE  LET q == Failed(r, code, work) IN
           /\ q \in Job /\ Valid(q) /\ FilesOf(q, f) /\ SameProgress(q, r) /\ q.state = "failed"
           /\ ~Retains(r, code, work) /\ work => q.payload = "cleanup_pending"
  <1> DEFINE payload == IF Retains(r, code, work) THEN "apply_recovery"
                        ELSE IF work THEN "cleanup_pending" ELSE r.payload
             q == [r EXCEPT !.state = "failed", !.phase = "", !.owner = FALSE, !.error = code,
                            !.payload = payload]
  <1>0. payload \in PayloadStates /\ q = Failed(r, code, work)
    BY DEF PayloadStates, Failed, Job
  <1>1. \/ /\ Retains(r, code, work) /\ payload = "apply_recovery" /\ code = "apply_recovery"
           /\ r.phase = "applying" /\ r.payload \in {"retained", "apply_recovery"} /\ r.pubs = 2
        \/ payload = "cleanup_pending" /\ work
        \/ payload = r.payload /\ ~work
    BY DEF Retains, ExactRetained, ExactRecovery
  <1>a. ~Retains(r, code, work) /\ work => payload = "cleanup_pending"
    OBVIOUS
  <1> HIDE DEF payload
  <1>2. /\ q \in Job /\ SameProgress(q, r) /\ q.state = "failed" /\ q.attempt = r.attempt
        /\ q.token = r.token /\ ~q.owner /\ q.cancel = r.cancel /\ q.phase = "" /\ q.payload = payload
        /\ q.pubs = r.pubs /\ q.result = r.result /\ q.from = r.from /\ q.error = code
    BY <1>0 DEF Job, States, Phases, SameProgress
  <1> HIDE DEF q
  <1>3. Lifecycle(q)
    BY <1>2 DEF Valid, Lifecycle, Going, ActiveStates
  <1>4. Progress(q)
    BY <1>1, <1>2 DEF Valid, Progress, SameProgress, Upper
  <1>5. Payload(q)
    <2>1. CASE Retains(r, code, work) /\ payload = "apply_recovery" /\ code = "apply_recovery"
               /\ r.phase = "applying" /\ r.payload \in {"retained", "apply_recovery"} /\ r.pubs = 2
      BY <1>2, <2>1 DEF Valid, Payload, SameProgress, Upper, Private
    <2>2. CASE payload = "cleanup_pending"
      BY <1>2, <2>2 DEF Valid, Payload, Private
    <2>3. CASE payload = r.payload /\ ~work
      BY <1>2, <2>3 DEF Valid, Payload, SameProgress, Upper, Private
    <2>. QED  BY <1>1, <2>1, <2>2, <2>3
  <1>6. FilesOf(q, f)
    BY <1>1, <1>2 DEF FilesOf, Clean
  <1>. QED  BY <1>0, <1>2, <1>3, <1>4, <1>5, <1>6, <1>a DEF Valid

LEMMA FailInv ==
    ASSUME Inv, NEW w \in Workers, Fail(w)
    PROVE  Inv'
  <1> DEFINE r == R(w)  code == worker[w].code  work == worker[w].work
             q == Failed(r, code, work)
  <1>0. worker[w].pc = "fail" /\ worker[w].pc \in Owned /\ worker[w].pc \notin Outside
    BY DEF Fail, At, Outside, Owned
  <1>1. /\ worker[w] \in Worker /\ worker[w].job \in Jobs /\ r \in Job
        /\ Valid(r) /\ FilesOf(r, Files(w)) /\ Ledgered(worker[w].job, r, ledger, vault)
        /\ Opened(worker[w], r) /\ Files(w) \in SUBSET Payloads
    BY <1>0, Inside DEF Place
  <1>2. code \in Errors /\ work \in BOOLEAN /\ "" \in Errors
        /\ UNCHANGED <<files, receipt, ledger, vault>>
    BY <1>1 DEF Worker, Errors, Fail, outer
  <1>3. CASE ~worker[w].behind
    <2>1. /\ q \in Job /\ Valid(q) /\ FilesOf(q, Files(w)) /\ SameProgress(q, r)
          /\ q.state = "failed"
          /\ ~Retains(r, code, work) /\ work => q.payload = "cleanup_pending"
      BY ZenonT(60), <1>0, <1>1, <1>2, Owning, FailedValid DEF Opened
    <2>2. jobs' = [jobs EXCEPT ![worker[w].job] = q]
      BY <1>3 DEF Fail
    <2> HIDE DEF q
    <2>3. CASE work /\ ~Retains(r, code, work)
      <3> DEFINE x == [worker[w] EXCEPT !.pc = "failRemove"]
      <3>1. x \in Worker /\ x.pc = "failRemove" /\ x.job = worker[w].job
        BY <1>1 DEF Worker, Stages
      <3>2. worker' = [worker EXCEPT ![w] = x]
        BY <1>3, <2>3 DEF Fail, Go, Inv, Typed
      <3> HIDE DEF x
      <3>3. Place(x, q, Files(w), ledger, vault)
        <4>1. Owner(x, q)
          BY <2>1, <2>3, <3>1 DEF Owner, Owned
        <4>2. Starting(x, q) /\ Packing(x, q) /\ Ending(x, q)
          BY <3>1 DEF Starting, Packing, Ending, Begun, Applying, Syncing, Cleaning
        <4>3. Opened(x, q) /\ Sees(x, q, Files(w), ledger, vault)
          BY <3>1 DEF Opened, Sees, Begun, Applying, Syncing, Cleaning
        <4>. QED  BY <4>1, <4>2, <4>3 DEF Place
      <3>4. Ledgered(worker[w].job, q, ledger, vault)
        BY <1>1, <2>1, SameLedger
      <3>5. files' = [files EXCEPT ![worker[w].job] = Files(w)]
        BY <1>2 DEF Files, Inv, Typed
      <3>. QED  BY <1>0, <1>1, <1>2, <2>1, <2>2, <3>1, <3>2, <3>3, <3>4, <3>5, Local
    <2>4. CASE ~(work /\ ~Retains(r, code, work))
      <3>1. Exit(w, "")
        BY <1>3, <2>4 DEF Fail
      <3>. QED  BY <1>0, <1>2, <2>1, <2>2, <3>1, WriteExits
    <2>. QED  BY <2>3, <2>4
  <1>4. CASE worker[w].behind /\ Exit(w, "")
    BY <1>0, <1>2, <1>4, Exits DEF Fail
  <1>5. CASE worker[w].behind /\ work /\ Adopt(w, "cancel")
    <2> DEFINE x == [worker[w] EXCEPT !.pc = "cancel", !.behind = FALSE]
    <2>1. /\ x \in Worker /\ x.pc = "cancel" /\ x.job = worker[w].job
          /\ x.attempt = worker[w].attempt /\ ~x.behind /\ x.work = work
      BY <1>1 DEF Worker, Stages, Owned
    <2>2. worker' = [worker EXCEPT ![w] = x] /\ UNCHANGED jobs
      BY <1>5 DEF Fail, Adopt, Inv, Typed, Worker
    <2> HIDE DEF x
    <2>3. Place(x, r, Files(w), ledger, vault)
      <3>1. Owner(x, r)
        BY <1>0, <2>1, Owning DEF Owner
      <3>2. Starting(x, r) /\ Packing(x, r) /\ Ending(x, r)
        BY <2>1 DEF Starting, Packing, Ending, Begun, Applying, Syncing, Cleaning
      <3>3. Opened(x, r) /\ Sees(x, r, Files(w), ledger, vault)
        BY <1>5, <2>1 DEF Opened, Sees, Begun, Applying, Syncing, Cleaning
      <3>. QED  BY <3>1, <3>2, <3>3 DEF Place
    <2>. QED  BY <1>0, <1>2, <2>1, <2>2, <2>3, LocalGo
  <1>. QED  BY <1>3, <1>4, <1>5 DEF Fail

LEMMA FailRemoveInv ==
    ASSUME Inv, NEW w \in Workers, FailRemove(w)
    PROVE  Inv'
  <1> DEFINE x == [worker[w] EXCEPT !.pc = "failSettle"]
             f == Files(w) \ Named(R(w))
  <1>0. worker[w].pc = "failRemove" /\ worker[w].pc \notin Outside
        /\ UNCHANGED <<jobs, receipt, ledger, vault>>
    BY DEF FailRemove, At, Outside, outer
  <1>1. CASE Removed(w, "failSettle")
    <2>1. /\ worker[w] \in Worker /\ FilesOf(R(w), Files(w)) /\ Files(w) \in SUBSET Payloads
          /\ ~worker[w].behind => R(w).state = "failed" /\ R(w).payload = "cleanup_pending"
      BY <1>0, Inside DEF Place, Owner
    <2>2. x \in Worker /\ x.pc = "failSettle" /\ x.job = worker[w].job /\ x.behind = worker[w].behind
      BY <2>1 DEF Worker, Stages
    <2>3. worker' = [worker EXCEPT ![w] = x] /\ files' = [files EXCEPT ![worker[w].job] = f]
      BY <1>1 DEF Removed, Go, Files, Inv, Typed
    <2>4. f \in SUBSET Files(w) /\ f = {}
      BY <2>1 DEF FilesOf, Named, Payloads
    <2> HIDE DEF x, f
    <2>5. Place(x, R(w), f, ledger, vault)
      <3>1. Owner(x, R(w))
        BY <2>1, <2>2 DEF Owner, Owned
      <3>2. Starting(x, R(w)) /\ Packing(x, R(w)) /\ Ending(x, R(w))
        BY <2>2 DEF Starting, Packing, Ending, Begun, Applying, Syncing, Cleaning
      <3>3. Opened(x, R(w)) /\ Sees(x, R(w), f, ledger, vault)
        BY <2>2, <2>4 DEF Opened, Sees, Begun, Applying, Syncing, Cleaning
      <3>. QED  BY <3>1, <3>2, <3>3 DEF Place
    <2>. QED  BY <1>0, <2>2, <2>3, <2>4, <2>5, Shrinks
  <1>2. CASE RemoveStops(w) /\ Exit(w, "")
    BY <1>0, <1>2, ShrinkExits DEF Errors
  <1>. QED  BY <1>1, <1>2 DEF FailRemove

LEMMA FailSettleInv ==
    ASSUME Inv, NEW w \in Workers, FailSettle(w)
    PROVE  Inv'
  <1> DEFINE r == R(w)
             q == [r EXCEPT !.payload = "cleanup_complete"]
  <1>0. /\ worker[w].pc = "failSettle" /\ worker[w].pc \notin Outside
        /\ Exit(w, "") /\ "" \in Errors /\ UNCHANGED <<files, receipt, ledger, vault>>
    BY DEF FailSettle, At, Outside, Errors, outer
  <1>1. CASE worker[w].behind
    BY <1>0, <1>1, Exits DEF FailSettle, Outside
  <1>2. CASE ~worker[w].behind
    <2>1. /\ r \in Job /\ Valid(r) /\ FilesOf(r, Files(w)) /\ Files(w) = {}
          /\ r.state = "failed" /\ r.payload = "cleanup_pending"
      BY <1>0, <1>2, Inside DEF Place, Owner, Sees
    <2>2. /\ q \in Job /\ SameProgress(q, r) /\ q.state = r.state /\ q.attempt = r.attempt
          /\ q.token = r.token /\ q.owner = r.owner /\ q.cancel = r.cancel /\ q.phase = r.phase
          /\ q.payload = "cleanup_complete" /\ q.pubs = r.pubs /\ q.result = r.result
          /\ q.from = r.from /\ q.error = r.error
      BY <2>1 DEF Job, PayloadStates, SameProgress
    <2>3. jobs' = [jobs EXCEPT ![worker[w].job] = q]
      BY <1>2 DEF FailSettle, R
    <2> HIDE DEF q
    <2>4. Valid(q) /\ FilesOf(q, Files(w))
      <3>1. Lifecycle(q)
        BY <2>1, <2>2 DEF Valid, Lifecycle, Going, ActiveStates
      <3>2. Progress(q)
        BY <2>1, <2>2 DEF Valid, Progress, SameProgress, Upper
      <3>3. Payload(q)
        BY <2>1, <2>2 DEF Valid, Payload, Private
      <3>. QED  BY <2>1, <3>1, <3>2, <3>3 DEF Valid, FilesOf
    <2>. QED  BY <1>0, <2>2, <2>3, <2>4, WriteExits
  <1>. QED  BY <1>1, <1>2

------------------------------------------------------------------------------
(* The apply: its receipt, the line it adds, and the progress it saves. *)

\* What holds at the places of an apply.
LEMMA AtApply ==
    ASSUME Inv, NEW w \in Workers, worker[w].pc \in Applying
    PROVE  LET r == R(w) IN
           /\ worker[w].pc \in Owned /\ worker[w].pc \notin Outside
           /\ worker[w] \in Worker /\ worker[w].job \in Jobs /\ r \in Job
           /\ Valid(r) /\ FilesOf(r, Files(w)) /\ Ledgered(worker[w].job, r, ledger, vault)
           /\ Files(w) \in SUBSET Payloads /\ Sees(worker[w], r, Files(w), ledger, vault)
           /\ ~r.pending /\ r.pubs = 2 /\ r.phase = "applying"
           /\ r.payload \in {"retained", "apply_recovery"} /\ worker[w].work
           /\ r.index < Len(r.frozen) /\ r.cur = r.from /\ r.from < Upper(r)
           /\ Session(r) \in 1..Sessions /\ r.from \in 0..MaxLine /\ r.cur \in 0..MaxLine
           /\ Upper(r) \in 1..MaxLine /\ r.result \in 1..MaxAttempts
  <1> DEFINE r == R(w)
  <1>1. worker[w].pc \in Owned /\ worker[w].pc \notin Outside
    BY DEF Applying, Owned, Outside
  <1>2. /\ worker[w] \in Worker /\ worker[w].job \in Jobs /\ r \in Job
        /\ Valid(r) /\ FilesOf(r, Files(w)) /\ Ledgered(worker[w].job, r, ledger, vault)
        /\ Files(w) \in SUBSET Payloads /\ Sees(worker[w], r, Files(w), ledger, vault)
        /\ Packing(worker[w], r) /\ Opened(worker[w], r)
    BY <1>1, Inside DEF Place
  <1>3. /\ ~r.pending /\ r.pubs = 2 /\ r.phase = "applying"
        /\ r.payload \in {"retained", "apply_recovery"} /\ worker[w].work
    BY <1>2 DEF Packing, Opened
  <1>4. r.index < Len(r.frozen) /\ r.cur = r.from /\ r.from < Upper(r) /\ r.result > 0
    BY <1>2, <1>3 DEF Valid, Payload, Private
  <1>5. /\ Session(r) \in 1..Sessions /\ r.from \in 0..MaxLine /\ r.cur \in 0..MaxLine
        /\ Upper(r) \in 1..MaxLine /\ r.result \in 0..MaxAttempts
    BY <1>2, <1>4, FrozenType
  <1>6. r.result \in 1..MaxAttempts
    BY <1>4, <1>5, ReviewJobAssumption
  <1>. QED  BY <1>1, <1>2, <1>3, <1>4, <1>5, <1>6

\* A worker that moves on inside the apply.
LEMMA ApplyPlace ==
    ASSUME Inv, NEW w \in Workers, worker[w].pc \in Applying, NEW x, NEW L, NEW V,
           x.pc \in {"commit", "accept"}, x.job = worker[w].job, x.attempt = worker[w].attempt,
           x.work = worker[w].work, x.behind => worker[w].behind,
           Sees(x, R(w), Files(w), L, V)
    PROVE  Place(x, R(w), Files(w), L, V)
  <1>1. Owner(x, R(w))
    BY AtApply, Owning DEF Owner
  <1>a. /\ ~R(w).pending /\ R(w).pubs = 2 /\ R(w).phase = "applying" /\ worker[w].work
        /\ R(w).payload \in {"retained", "apply_recovery"}
    BY AtApply
  <1>2. Packing(x, R(w)) /\ Opened(x, R(w))
    BY <1>a DEF Packing, Opened, Begun, Applying, Syncing, Cleaning
  <1>3. Starting(x, R(w)) /\ Ending(x, R(w))
    BY DEF Starting, Ending, Syncing, Cleaning
  <1>. QED  BY <1>1, <1>2, <1>3 DEF Place

LEMMA ApplyInv ==
    ASSUME Inv, NEW w \in Workers, Apply(w)
    PROVE  Inv'
  <1> DEFINE r == R(w)  p == Proposal(w)  j == worker[w].job
  <1>0. worker[w].pc = "apply" /\ worker[w].pc \in Applying
        /\ UNCHANGED <<jobs, files, ledger, vault>>
    BY DEF Apply, At, Applying
  <1>1. /\ worker[w] \in Worker /\ j \in Jobs /\ r \in Job /\ worker[w].pc \notin Outside
        /\ Valid(r) /\ FilesOf(r, Files(w)) /\ Ledgered(j, r, ledger, vault)
        /\ Files(w) \in SUBSET Payloads /\ r.cur = r.from /\ r.index < Len(r.frozen)
        /\ Session(r) \in 1..Sessions /\ r.from \in 0..MaxLine /\ r.result \in 1..MaxAttempts
    BY <1>0, AtApply
  <1>2. jobs' = [jobs EXCEPT ![j] = r] /\ files' = [files EXCEPT ![j] = Files(w)]
    BY <1>0, <1>1 DEF R, Files, Inv, Typed
  <1>3. \A k \in Jobs : Kept(k, jobs[k], files[k], ledger', vault')
    BY <1>0 DEF Inv
  <1>4. CASE Len(ledger[p.session]) = p.from /\ receipt' = p /\ Go(w, "commit")
    <2> DEFINE x == [worker[w] EXCEPT !.pc = "commit"]
    <2>1. /\ x \in Worker /\ x.pc = "commit" /\ x.job = j /\ x.attempt = worker[w].attempt
          /\ x.work = worker[w].work /\ x.behind = worker[w].behind
      BY <1>1 DEF Worker, Stages, Owned
    <2>2. worker' = [worker EXCEPT ![w] = x]
      BY <1>4 DEF Go, Inv, Typed
    <2> HIDE DEF x
    <2>3. Sees(x, r, Files(w), ledger, vault)
      BY <1>4, <2>1 DEF Sees, Proposal
    <2>4. Place(x, r, Files(w), ledger, vault)
      BY <1>0, <2>1, <2>3, ApplyPlace
    <2>5. p \in [job : Jobs, attempt : 1..MaxAttempts, session : 1..Sessions, from : 0..MaxLine]
      BY <1>1 DEF Proposal
    <2>6. OuterTyped'
      BY <1>0, <1>4, <2>5 DEF Inv, Typed, OuterTyped
    <2>7. Place(x, r, Files(w), ledger', vault') /\ Ledgered(j, r, ledger', vault')
      BY <1>0, <1>1, <2>4
    <2>. QED  BY <1>1, <1>2, <1>3, <2>1, <2>2, <2>6, <2>7, Global
  <1>5. CASE Accepted(p) /\ Adopt(w, "accept") /\ UNCHANGED receipt
    <2> DEFINE x == [worker[w] EXCEPT !.pc = "accept", !.behind = FALSE]
    <2>1. /\ x \in Worker /\ x.pc = "accept" /\ x.job = j /\ x.attempt = worker[w].attempt
          /\ x.work = worker[w].work /\ ~x.behind
      BY <1>1 DEF Worker, Stages, Owned
    <2>2. worker' = [worker EXCEPT ![w] = x]
      BY <1>5 DEF Adopt, Inv, Typed, Worker
    <2> HIDE DEF x
    <2>3. Uncounted(j, r, ledger)
      BY <1>1, <1>5 DEF Uncounted, Accepted, Proposal
    <2>4. Sees(x, r, Files(w), ledger, vault)
      BY <2>1, <2>3 DEF Sees
    <2>5. Place(x, r, Files(w), ledger, vault)
      BY <1>0, <2>1, <2>4, ApplyPlace
    <2>. QED  BY <1>0, <1>1, <1>5, <2>1, <2>2, <2>5, LocalGo
  <1>. QED  BY <1>4, <1>5 DEF Apply

\* A ledger M that has one more line than L.
Grown(L, s, y) == [L EXCEPT ![s] = Append(@, y)]

LEMMA GrownType ==
    ASSUME NEW L \in [1..Sessions -> Seq(Line)], NEW s \in 1..Sessions, NEW y \in Line
    PROVE  /\ Grown(L, s, y) \in [1..Sessions -> Seq(Line)]
           /\ L[s] \in Seq(Line) /\ Grown(L, s, y)[s] = Append(L[s], y)
  <1>1. L[s] \in Seq(Line) /\ Append(L[s], y) \in Seq(Line)
    OBVIOUS
  <1>2. Grown(L, s, y)[s] = Append(L[s], y)
    BY DEF Grown
  <1>3. Grown(L, s, y) \in [1..Sessions -> Seq(Line)]
    BY <1>1 DEF Grown
  <1>. QED  BY <1>1, <1>2, <1>3

LEMMA GrownElse ==
    ASSUME NEW L \in [1..Sessions -> Seq(Line)], NEW s \in 1..Sessions, NEW y \in Line,
           NEW t \in 1..Sessions, t # s
    PROVE  Grown(L, s, y)[t] = L[t]
  BY DEF Grown

LEMMA GrownLen ==
    ASSUME NEW L \in [1..Sessions -> Seq(Line)], NEW s \in 1..Sessions, NEW y \in Line
    PROVE  Len(L[s]) \in Nat /\ Len(Grown(L, s, y)[s]) = Len(L[s]) + 1
  <1>1. L[s] \in Seq(Line) /\ Grown(L, s, y)[s] = Append(L[s], y)
    BY GrownType
  <1>. QED  BY <1>1

LEMMA GrownNew ==
    ASSUME NEW L \in [1..Sessions -> Seq(Line)], NEW s \in 1..Sessions, NEW y \in Line
    PROVE  Grown(L, s, y)[s][Len(L[s]) + 1] = y
  <1>1. L[s] \in Seq(Line) /\ Grown(L, s, y)[s] = Append(L[s], y)
    BY GrownType
  <1>. QED  BY <1>1

LEMMA GrownOld ==
    ASSUME NEW L \in [1..Sessions -> Seq(Line)], NEW s \in 1..Sessions, NEW y \in Line,
           NEW l \in 1..Len(L[s])
    PROVE  Grown(L, s, y)[s][l] = L[s][l]
  <1>1. L[s] \in Seq(Line) /\ Grown(L, s, y)[s] = Append(L[s], y)
    BY GrownType
  <1>. QED  BY <1>1

\* Apart from the new line, the lines of a job stay.
LEMMA GrownSet ==
    ASSUME NEW L \in [1..Sessions -> Seq(Line)], NEW s \in 1..Sessions, NEW y \in Line, NEW k,
           Len(L[s]) < MaxLine
    PROVE  /\ \A x \in (1..Sessions) \X (1..MaxLine) : x # <<s, Len(L[s]) + 1>> =>
                 (x \in LineSet(k, Grown(L, s, y)) <=> x \in LineSet(k, L))
           /\ <<s, Len(L[s]) + 1>> \notin LineSet(k, L)
           /\ <<s, Len(L[s]) + 1>> \in LineSet(k, Grown(L, s, y)) <=> k = y.job
           /\ <<s, Len(L[s]) + 1>> \in (1..Sessions) \X (1..MaxLine)
  <1>0. /\ \A t \in 1..Sessions : t # s => Grown(L, s, y)[t] = L[t]
        /\ Len(L[s]) \in Nat /\ Len(Grown(L, s, y)[s]) = Len(L[s]) + 1
        /\ \A l \in 1..Len(L[s]) : Grown(L, s, y)[s][l] = L[s][l]
        /\ Grown(L, s, y)[s][Len(L[s]) + 1] = y
    <2>1. Len(L[s]) \in Nat /\ Len(Grown(L, s, y)[s]) = Len(L[s]) + 1
      BY GrownLen
    <2>2. Grown(L, s, y)[s][Len(L[s]) + 1] = y
      BY GrownNew
    <2>3. \A t \in 1..Sessions : t # s => Grown(L, s, y)[t] = L[t]
      BY GrownElse
    <2>4. \A l \in 1..Len(L[s]) : Grown(L, s, y)[s][l] = L[s][l]
      BY GrownOld
    <2>. QED  BY <2>1, <2>2, <2>3, <2>4
  <1> DEFINE M == Grown(L, s, y)  n == Len(L[s])
  <1>1. /\ \A t \in 1..Sessions : t # s => M[t] = L[t]
        /\ n \in Nat /\ Len(M[s]) = n + 1
        /\ \A l \in 1..n : M[s][l] = L[s][l]
        /\ M[s][n + 1] = y
    BY <1>0
  <1>2. n + 1 \in 1..MaxLine
    BY <1>1, ReviewJobAssumption
  <1> HIDE DEF M, n
  <1>a. n = Len(L[s])
    BY DEF n
  <1>3. ASSUME NEW t \in 1..Sessions, NEW l \in 1..MaxLine, ~(t = s /\ l = n + 1)
        PROVE  l <= Len(M[t]) /\ M[t][l].job = k <=> l <= Len(L[t]) /\ L[t][l].job = k
    <2>1. CASE t # s
      BY <1>1, <2>1
    <2>2. CASE t = s /\ l <= n
      <3>1. l \in 1..n
        BY <1>1, <2>2, ReviewJobAssumption
      <3>. QED  BY SMTT(60), <1>1, <1>a, <2>2, <3>1, ReviewJobAssumption
    <2>3. CASE t = s /\ l > n + 1
      BY <1>1, <1>a, <2>3, ReviewJobAssumption
    <2>. QED  BY <1>1, <1>3, <2>1, <2>2, <2>3, ReviewJobAssumption
  <1>4. /\ (n + 1 <= Len(M[s]) /\ M[s][n + 1].job = k) <=> k = y.job
        /\ ~(n + 1 <= Len(L[s]))
    BY <1>1, <1>a
  <1>5. <<s, n + 1>> \notin LineSet(k, L)
    BY <1>4 DEF LineSet
  <1>6. ASSUME NEW x \in (1..Sessions) \X (1..MaxLine), x # <<s, n + 1>>
        PROVE  x \in LineSet(k, M) <=> x \in LineSet(k, L)
    BY SMTT(60), <1>3, <1>6 DEF LineSet
  <1>7. <<s, n + 1>> \in (1..Sessions) \X (1..MaxLine)
    BY <1>2
  <1>8. <<s, n + 1>> \in LineSet(k, M) <=> k = y.job
    BY <1>4, <1>7 DEF LineSet
  <1>9. \A x \in (1..Sessions) \X (1..MaxLine) : x # <<s, n + 1>> =>
            (x \in LineSet(k, M) <=> x \in LineSet(k, L))
    BY <1>6
  <1>. QED  BY <1>5, <1>7, <1>8, <1>9, <1>a DEF M

LEMMA OwnLines ==
    ASSUME NEW L \in [1..Sessions -> Seq(Line)], NEW s \in 1..Sessions, NEW y \in Line,
           Len(L[s]) < MaxLine
    PROVE  /\ LineSet(y.job, Grown(L, s, y)) = LineSet(y.job, L) \cup {<<s, Len(L[s]) + 1>>}
           /\ <<s, Len(L[s]) + 1>> \notin LineSet(y.job, L)
  <1> DEFINE j == y.job  p == <<s, Len(L[s]) + 1>>
  <1>1. p \notin LineSet(j, L) /\ p \in LineSet(j, Grown(L, s, y))
    BY GrownSet
  <1>2. \A x \in (1..Sessions) \X (1..MaxLine) : x # p =>
            (x \in LineSet(j, Grown(L, s, y)) <=> x \in LineSet(j, L))
    BY GrownSet
  <1>3. /\ LineSet(j, Grown(L, s, y)) \subseteq (1..Sessions) \X (1..MaxLine)
        /\ LineSet(j, L) \subseteq (1..Sessions) \X (1..MaxLine)
    BY DEF LineSet
  <1> HIDE DEF p, j
  <1>4. LineSet(j, Grown(L, s, y)) = LineSet(j, L) \cup {p}
    BY <1>1, <1>2, <1>3, Zenon
  <1>. QED  BY <1>1, <1>4 DEF p, j

\* A new line of another job leaves the progress of a record alone.
LEMMA OthersKept ==
    ASSUME NEW L \in [1..Sessions -> Seq(Line)], NEW s \in 1..Sessions, NEW y \in Line,
           Len(L[s]) < MaxLine, NEW k, k # y.job, NEW r, NEW f, NEW V,
           r = NoJob \/ r \in Job, Kept(k, r, f, L, V), V \in [1..Sessions -> Nat]
    PROVE  Kept(k, r, f, Grown(L, s, y), V)
  <1>1. LineSet(k, Grown(L, s, y)) = LineSet(k, L)
    <2> DEFINE A == LineSet(k, Grown(L, s, y))  B == LineSet(k, L)
               U == (1..Sessions) \X (1..MaxLine)  p == <<s, Len(L[s]) + 1>>
    <2>1. p \notin A /\ p \notin B
      BY GrownSet
    <2>2. \A x \in U : x # p => (x \in A <=> x \in B)
      BY GrownSet
    <2>3. A \subseteq U /\ B \subseteq U
      BY DEF LineSet
    <2> HIDE DEF A, B, U, p
    <2>4. ASSUME NEW x PROVE x \in A <=> x \in B
      <3>1. CASE x = p
        BY <2>1, <3>1
      <3>2. CASE x # p /\ x \in U
        BY <2>2, <3>2
      <3>3. CASE x \notin U
        BY <2>3, <3>3
      <3>. QED  BY <3>1, <3>2, <3>3
    <2>5. A = B
      BY <2>4
    <2>. QED  BY <2>5 DEF A, B
  <1> DEFINE M == Grown(L, s, y)
  <1>2. Lines(k, M) = Lines(k, L)
    BY <1>1 DEF Lines
  <1>3. M \in [1..Sessions -> Seq(Line)]
    BY GrownType, Zenon
  <1>4. Len(L[s]) \in Nat /\ Len(M[s]) = Len(L[s]) + 1
    BY GrownLen
  <1>5. \A t \in 1..Sessions : t # s => M[t] = L[t]
    BY GrownElse
  <1>6. \A l \in 1..Len(L[s]) : M[s][l] = L[s][l]
    BY GrownOld
  <1>7. M[s][Len(L[s]) + 1] = y
    BY ZenonT(60), GrownNew
  <1> HIDE DEF M
  <1>8. \A t \in 1..Sessions : Len(L[t]) \in Nat /\ Len(M[t]) \in Nat /\ Len(L[t]) <= Len(M[t])
    BY <1>3, <1>4, <1>5
  <1>9. CASE r = NoJob
    BY <1>2, <1>9 DEF Kept, M
  <1>10. CASE r # NoJob
    <2>1. r \in Job /\ Valid(r) /\ FilesOf(r, f) /\ Ledgered(k, r, L, V)
      BY <1>10 DEF Kept
    <2>2. /\ Len(r.frozen) \in Nat /\ r.index \in Nat /\ r.cur \in 0..MaxLine /\ r.index <= Len(r.frozen)
          /\ r.frozen \in [1..Len(r.frozen) -> Frozen]
      BY <2>1, FrozenType DEF Valid, Progress
    <2>3. r.index < Len(r.frozen) => Session(r) \in 1..Sessions
      BY <2>1, FrozenType
    <2>4. \A i \in 1..r.index : r.frozen[i].session \in 1..Sessions /\ r.frozen[i].upper \in Nat
      <3>1. ASSUME NEW i \in 1..r.index PROVE i \in 1..Len(r.frozen)
        BY <2>2
      <3>2. ASSUME NEW i \in 1..Len(r.frozen)
            PROVE  r.frozen[i].session \in 1..Sessions /\ r.frozen[i].upper \in Nat
        BY <2>1, FrozenAt
      <3>. QED  BY <3>1, <3>2
    <2>5. Covered(r, M, V)
      <3>1. ASSUME NEW i \in 1..r.index
            PROVE  /\ Len(M[r.frozen[i].session]) >= r.frozen[i].upper
                   /\ V[r.frozen[i].session] >= r.frozen[i].upper
        <4>1. /\ Len(L[r.frozen[i].session]) >= r.frozen[i].upper
              /\ V[r.frozen[i].session] >= r.frozen[i].upper
          BY <2>1 DEF Ledgered, Covered
        <4>2. r.frozen[i].session \in 1..Sessions /\ r.frozen[i].upper \in Nat
          BY <2>4
        <4>3. /\ Len(L[r.frozen[i].session]) \in Nat /\ Len(M[r.frozen[i].session]) \in Nat
              /\ Len(L[r.frozen[i].session]) <= Len(M[r.frozen[i].session])
          BY <1>8, <4>2
        <4> DEFINE a == Len(L[r.frozen[i].session])  c == Len(M[r.frozen[i].session])
                   u == r.frozen[i].upper
        <4> HIDE DEF a, c, u
        <4>4. a \in Nat /\ c \in Nat /\ u \in Nat /\ a >= u /\ a <= c
          BY <4>1, <4>2, <4>3 DEF a, c, u
        <4>5. c >= u
          BY <4>4
        <4>. QED  BY <4>1, <4>5 DEF c, u
      <3>2. ASSUME r.index < Len(r.frozen)
            PROVE  r.cur <= Len(M[Session(r)]) /\ (~r.pending => r.cur <= V[Session(r)])
        <4>1. r.cur <= Len(L[Session(r)]) /\ (~r.pending => r.cur <= V[Session(r)])
          BY <2>1, <3>2 DEF Ledgered, Covered
        <4>2. Session(r) \in 1..Sessions
          BY <2>3, <3>2
        <4>3. /\ Len(L[Session(r)]) \in Nat /\ Len(M[Session(r)]) \in Nat
              /\ Len(L[Session(r)]) <= Len(M[Session(r)]) /\ r.cur \in Nat
          BY <1>8, <2>2, <4>2, ReviewJobAssumption
        <4>. QED  BY <4>1, <4>3
      <3>. QED  BY <3>1, <3>2 DEF Covered
    <2>6. Placed(k, r, M)
      <3>1. ASSUME NEW t \in 1..Sessions, NEW l \in 1..Len(M[t]), M[t][l].job = k
            PROVE  l \in 1..Len(L[t]) /\ L[t][l].job = k
        <4>1. CASE t # s
          BY <1>5, <3>1, <4>1
        <4>2. CASE t = s /\ l = Len(L[s]) + 1
          BY <1>7, <3>1, <4>2
        <4>3. CASE t = s /\ l # Len(L[s]) + 1
          <5>1. l \in 1..Len(L[s])
            BY <1>4, <4>3
          <5>. QED  BY <1>6, <3>1, <4>3, <5>1
        <4>. QED  BY <4>1, <4>2, <4>3
      <3>2. Placed(k, r, L)
        BY <2>1 DEF Ledgered
      <3>. QED  BY <3>1, <3>2 DEF Placed
    <2>7. Uncounted(k, r, M) <=> Uncounted(k, r, L)
      <3>1. CASE ~(r.index < Len(r.frozen))
        BY <3>1 DEF Uncounted
      <3>2. CASE r.index < Len(r.frozen)
        <4> DEFINE t == Session(r)
        <4>1. t \in 1..Sessions /\ r.cur \in Nat
          BY <2>2, <2>3, <3>2, ReviewJobAssumption
        <4> HIDE DEF t
        <4>2. CASE t # s
          BY <1>5, <4>1, <4>2 DEF Uncounted, t
        <4>3. CASE t = s /\ r.cur < Len(L[s])
          <5>1. r.cur + 1 \in 1..Len(L[s]) /\ r.cur < Len(M[s])
            BY <1>4, <4>1, <4>3
          <5>2. M[s][r.cur + 1] = L[s][r.cur + 1]
            BY <1>6, <5>1
          <5>. QED  BY <4>3, <5>1, <5>2 DEF Uncounted, t
        <4>4. CASE t = s /\ r.cur = Len(L[s])
          BY <1>4, <1>7, <4>1, <4>4 DEF Uncounted, t
        <4>5. CASE t = s /\ r.cur > Len(L[s])
          BY <1>4, <4>1, <4>5 DEF Uncounted, t
        <4>. QED  BY <1>4, <4>1, <4>2, <4>3, <4>4, <4>5
      <3>. QED  BY <3>1, <3>2
    <2>8. Counted(k, r, M)
      BY <1>2, <2>1, <2>7 DEF Ledgered, Counted
    <2>9. Ledgered(k, r, M, V)
      BY <2>5, <2>6, <2>8 DEF Ledgered
    <2>. QED  BY <1>10, <2>1, <2>9 DEF Kept, M
  <1>. QED  BY <1>9, <1>10

\* The new line of the job itself is the one that is not counted yet.
LEMMA OwnLine ==
    ASSUME NEW L \in [1..Sessions -> Seq(Line)], NEW y \in Line, NEW r \in Job, NEW V,
           Ledgered(y.job, r, L, V), V \in [1..Sessions -> Nat],
           r.index < Len(r.frozen), r.cur < Upper(r), Len(L[Session(r)]) = r.cur, ~r.pending
    PROVE  /\ Uncounted(y.job, r, Grown(L, Session(r), y))
           /\ Ledgered(y.job, r, Grown(L, Session(r), y), V)
  <1> DEFINE s == Session(r)  M == Grown(L, s, y)  j == y.job  n == r.cur
  <1>0. /\ s \in 1..Sessions /\ Upper(r) \in 1..MaxLine /\ n \in 0..MaxLine /\ n \in Nat
        /\ Len(r.frozen) \in Nat /\ r.index \in Nat
        /\ r.frozen \in [1..Len(r.frozen) -> Frozen]
        /\ r.packets \in Nat
    <2>1. r.packets \in 0..(Sessions * MaxLine)
      BY FrozenType
    <2>2. Sessions * MaxLine \in Nat
      BY LinesFinite
    <2>. QED  BY SMTT(60), <2>1, <2>2, FrozenType, ReviewJobAssumption
  <1>a. Len(L[s]) = n /\ n < Upper(r) /\ n < MaxLine
    BY <1>0, ReviewJobAssumption
  <1>g. s \in 1..Sessions
    BY <1>0
  <1>b. /\ LineSet(j, Grown(L, s, y)) = LineSet(j, L) \cup {<<s, Len(L[s]) + 1>>}
        /\ <<s, Len(L[s]) + 1>> \notin LineSet(j, L)
    <2> HIDE DEF s
    <2>. QED  BY <1>0, <1>a, OwnLines
  <1>1. LineSet(j, M) = LineSet(j, L) \cup {<<s, n + 1>>}
    BY <1>a, <1>b
  <1>2. <<s, n + 1>> \notin LineSet(j, L)
    BY <1>a, <1>b
  <1>3. M \in [1..Sessions -> Seq(Line)]
    BY <1>0, GrownType, Zenon
  <1>c. Len(Grown(L, s, y)[s]) = Len(L[s]) + 1
    <2> HIDE DEF s
    <2>. QED  BY <1>g, GrownLen
  <1>d. \A t \in 1..Sessions : t # s => Grown(L, s, y)[t] = L[t]
    <2> HIDE DEF s
    <2>. QED  BY <1>g, GrownElse
  <1>e. \A l \in 1..Len(L[s]) : Grown(L, s, y)[s][l] = L[s][l]
    <2> HIDE DEF s
    <2>. QED  BY <1>g, GrownOld
  <1>f. Grown(L, s, y)[s][Len(L[s]) + 1] = y
    <2> HIDE DEF s
    <2>. QED  BY <1>g, GrownNew
  <1>4. Len(M[s]) = n + 1
    BY <1>a, <1>c
  <1>5. \A t \in 1..Sessions : t # s => M[t] = L[t]
    BY <1>d
  <1>6. \A l \in 1..n : M[s][l] = L[s][l]
    BY <1>a, <1>e
  <1>7. M[s][n + 1] = y
    BY <1>a, <1>f
  <1> HIDE DEF M, s
  <1>8. s = Session(r)
    BY DEF s
  <1>9. Uncounted(j, r, M)
    BY <1>0, <1>4, <1>7, <1>8 DEF Uncounted
  <1>10. Lines(j, M) = Lines(j, L) + 1
    <2>1. IsFiniteSet(LineSet(j, L))
      BY LinesFinite
    <2>. QED  BY <1>1, <1>2, <2>1, FS_AddElement DEF Lines
  <1>11. Covered(r, M, V)
    <2>1. ASSUME NEW i \in 1..r.index
          PROVE  /\ Len(M[r.frozen[i].session]) >= r.frozen[i].upper
                 /\ V[r.frozen[i].session] >= r.frozen[i].upper
      <3>1. /\ Len(L[r.frozen[i].session]) >= r.frozen[i].upper
            /\ V[r.frozen[i].session] >= r.frozen[i].upper
        BY DEF Ledgered, Covered
      <3>2. i \in 1..Len(r.frozen)
        BY <1>0
      <3>3. r.frozen[i].session \in 1..Sessions /\ r.frozen[i].upper \in Nat
        BY <3>2, FrozenAt
      <3>4. CASE r.frozen[i].session = s
        BY SMTT(60), <1>0, <1>4, <1>a, <3>1, <3>3, <3>4
      <3>5. CASE r.frozen[i].session # s
        BY <1>5, <3>1, <3>3, <3>5
      <3>. QED  BY <3>4, <3>5
    <2>2. r.cur <= Len(M[Session(r)])
      BY <1>0, <1>4, <1>8
    <2>3. r.cur <= V[Session(r)]
      BY DEF Ledgered, Covered
    <2>. QED  BY <2>1, <2>2, <2>3 DEF Covered
  <1>12. Placed(j, r, M)
    <2>1. ASSUME NEW t \in 1..Sessions, NEW l \in 1..Len(M[t]), M[t][l].job = j,
                 ~(t = s /\ l = n + 1)
          PROVE  l \in 1..Len(L[t]) /\ L[t][l].job = j
      <3>1. CASE t # s
        BY <1>5, <2>1, <3>1
      <3>2. CASE t = s
        <4>1. l \in 1..n
          BY <1>0, <1>4, <2>1, <3>2
        <4>. QED  BY <1>6, <1>a, <2>1, <3>2, <4>1
      <3>. QED  BY <3>1, <3>2
    <2>2. Placed(j, r, L)
      BY DEF Ledgered
    <2>3. n + 1 <= r.cur + 1 /\ n + 1 <= Upper(r)
      BY <1>0, <1>a
    <2>. QED  BY <1>8, <2>1, <2>2, <2>3 DEF Placed
  <1>13. Counted(j, r, M)
    <2>1. ~Uncounted(j, r, L)
      BY <1>0, <1>8, <1>a DEF Uncounted
    <2>2. Lines(j, L) = r.packets
      BY <2>1, <1>0 DEF Ledgered, Counted
    <2>. QED  BY <1>0, <1>9, <1>10, <2>2 DEF Counted
  <1>. QED  BY <1>9, <1>11, <1>12, <1>13 DEF Ledgered, M, s

LEMMA CommitInv ==
    ASSUME Inv, NEW w \in Workers, Commit(w)
    PROVE  Inv'
  <1> DEFINE r == R(w)  j == worker[w].job  s == Session(r)
             y == [job |-> j, attempt |-> r.result]
             x == [worker[w] EXCEPT !.pc = "accept", !.behind = FALSE]
  <1>0. /\ worker[w].pc = "commit" /\ worker[w].pc \in Applying
        /\ UNCHANGED <<jobs, files, vault>> /\ receipt' = NoReceipt
    BY DEF Commit, At, Applying
  <1>1. /\ worker[w] \in Worker /\ j \in Jobs /\ r \in Job /\ worker[w].pc \notin Outside
        /\ Valid(r) /\ FilesOf(r, Files(w)) /\ Ledgered(j, r, ledger, vault)
        /\ Files(w) \in SUBSET Payloads /\ r.cur = r.from /\ r.index < Len(r.frozen)
        /\ s \in 1..Sessions /\ r.from \in 0..MaxLine /\ r.result \in 1..MaxAttempts
        /\ r.from < Upper(r) /\ Upper(r) \in 1..MaxLine /\ ~r.pending
        /\ Sees(worker[w], r, Files(w), ledger, vault)
    BY <1>0, AtApply
  <1>2. jobs' = [jobs EXCEPT ![j] = r] /\ files' = [files EXCEPT ![j] = Files(w)]
    BY <1>0, <1>1 DEF R, Files, Inv, Typed
  <1>3. /\ ledger \in [1..Sessions -> Seq(Line)] /\ vault \in [1..Sessions -> Nat]
        /\ \A t \in 1..Sessions : vault[t] <= Len(ledger[t]) /\ Len(ledger[t]) <= MaxLine
    BY DEF Inv, Typed, OuterTyped
  <1>4. y \in Line /\ y.job = j
    BY <1>1 DEF Line
  <1>5. Len(ledger[s]) = r.cur /\ r.cur < Upper(r) /\ r.cur \in Nat /\ Len(ledger[s]) < MaxLine
    BY <1>0, <1>1, ReviewJobAssumption DEF Sees
  <1>6. ledger' = Grown(ledger, s, y)
    BY DEF Commit, Proposal, Grown
  <1>7. /\ x \in Worker /\ x.pc = "accept" /\ x.job = j /\ x.attempt = worker[w].attempt
        /\ x.work = worker[w].work /\ ~x.behind
    BY <1>1 DEF Worker, Stages, Owned
  <1>8. worker' = [worker EXCEPT ![w] = x]
    BY DEF Commit, Adopt, Inv, Typed, Worker
  <1> HIDE DEF x, y
  <1>9. Uncounted(j, r, ledger') /\ Ledgered(j, r, ledger', vault')
    BY <1>0, <1>1, <1>3, <1>4, <1>5, <1>6, OwnLine
  <1>10. OuterTyped'
    <2>1. ledger' \in [1..Sessions -> Seq(Line)]
      BY <1>1, <1>3, <1>4, <1>6, GrownType
    <2> HIDE DEF s
    <2>0. ledger \in [1..Sessions -> Seq(Line)] /\ s \in 1..Sessions /\ y \in Line
      BY <1>1, <1>3, <1>4
    <2>a. Len(Grown(ledger, s, y)[s]) = Len(ledger[s]) + 1
      BY <2>0, GrownLen
    <2>c. Len(ledger[s]) \in Nat
      BY <2>0, GrownLen
    <2>b. \A t \in 1..Sessions : t # s => Grown(ledger, s, y)[t] = ledger[t]
      BY <2>0, GrownElse
    <2>2. Len(ledger'[s]) = Len(ledger[s]) + 1 /\ Len(ledger[s]) \in Nat
      BY <1>6, <2>a, <2>c
    <2>3. \A t \in 1..Sessions : t # s => ledger'[t] = ledger[t]
      BY <1>6, <2>b
    <2>4. ASSUME NEW t \in 1..Sessions PROVE vault[t] <= Len(ledger'[t]) /\ Len(ledger'[t]) <= MaxLine
      <3>1. CASE t = s
        BY <1>3, <1>5, <2>2, <3>1, ReviewJobAssumption
      <3>2. CASE t # s
        BY <1>3, <2>3, <3>2
      <3>. QED  BY <3>1, <3>2
    <2>. QED  BY <1>0, <1>3, <2>1, <2>4 DEF OuterTyped
  <1>11. ASSUME NEW k \in Jobs \ {j} PROVE Kept(k, jobs[k], files[k], ledger', vault')
    <2>1. /\ Kept(k, jobs[k], files[k], ledger, vault)
          /\ jobs[k] = NoJob \/ jobs[k] \in Job
      BY DEF Inv, Typed
    <2>. QED  BY <1>0, <1>1, <1>3, <1>4, <1>5, <1>6, <2>1, OthersKept
  <1>12. Place(x, r, Files(w), ledger', vault')
    <2>1. Sees(x, r, Files(w), ledger', vault')
      BY <1>7, <1>9 DEF Sees
    <2>. QED  BY <1>0, <1>7, <2>1, ApplyPlace
  <1>. QED  BY <1>1, <1>2, <1>7, <1>8, <1>9, <1>10, <1>11, <1>12, Global

\* A job freezes each session once.
LEMMA Distinct ==
    ASSUME NEW r \in Job, Progress(r), NEW i \in 1..Len(r.frozen), NEW k \in 1..Len(r.frozen), i < k
    PROVE  r.frozen[i].session # r.frozen[k].session
  <1>1. r.frozen \in [1..Len(r.frozen) -> Frozen] /\ Len(r.frozen) \in Nat
    BY FrozenType
  <1>2. r.frozen \in FrozenLists
    BY DEF Progress
  <1>3. DOMAIN r.frozen = 1..Len(r.frozen)
    BY <1>1
  <1>4. r.frozen[i].session < r.frozen[k].session
    BY <1>2, <1>3 DEF FrozenLists
  <1>5. r.frozen[i].session \in Nat
    BY <1>1, ReviewJobAssumption DEF Frozen
  <1>. QED  BY <1>4, <1>5

\* Saving accepted progress counts the line that was not counted.
LEMMA AcceptLedger ==
    ASSUME NEW j, NEW L \in [1..Sessions -> Seq(Line)], NEW V, NEW r \in Job, NEW q \in Job,
           Progress(r), r.index < Len(r.frozen), Uncounted(j, r, L), Ledgered(j, r, L, V),
           q.frozen = r.frozen, q.index = r.index, q.cur = r.cur + 1,
           q.packets = r.packets + 1, q.pending
    PROVE  Ledgered(j, q, L, V)
  <1> DEFINE s == Session(r)
  <1>1. /\ Len(r.frozen) \in Nat /\ r.index \in Nat /\ r.cur \in 0..MaxLine /\ s \in 1..Sessions
        /\ r.index + 1 \in 1..Len(r.frozen)
    BY FrozenType
  <1>2. r.cur \in Nat /\ Len(L[s]) \in Nat /\ s = Session(q) /\ Upper(q) = Upper(r)
    <2>1. r.cur \in Nat
      BY <1>1, ReviewJobAssumption
    <2>2. L[s] \in Seq(Line)
      BY <1>1
    <2>3. s = Session(q) /\ Upper(q) = Upper(r)
      BY DEF Session, Upper
    <2>. QED  BY <2>1, <2>2, <2>3
  <1>3. Covered(q, L, V)
    <2>1. r.cur < Len(L[s])
      BY DEF Uncounted
    <2>2. q.cur <= Len(L[s])
      BY <1>2, <2>1
    <2>. QED  BY <1>2, <2>2 DEF Ledgered, Covered
  <1>4. Placed(j, r, L)
    BY DEF Ledgered
  <1>5. Placed(j, q, L)
    <2>1. ASSUME NEW l \in Nat, l <= r.cur + 1 PROVE l <= q.cur + 1
      BY <1>2, <2>1
    <2>2. ASSUME NEW t \in 1..Sessions, NEW l \in 1..Len(L[t]), L[t][l].job = j
          PROVE  \/ \E i \in 1..q.index : q.frozen[i].session = t
                 \/ q.index < Len(q.frozen) /\ t = Session(q) /\ l <= q.cur + 1 /\ l <= Upper(q)
      <3>1. \/ \E i \in 1..r.index : r.frozen[i].session = t
            \/ r.index < Len(r.frozen) /\ t = Session(r) /\ l <= r.cur + 1 /\ l <= Upper(r)
        BY <1>4, <2>2 DEF Placed
      <3>2. l \in Nat
        OBVIOUS
      <3>3. l <= r.cur + 1 => l <= q.cur + 1
        BY <2>1, <3>2
      <3>. QED  BY <1>2, <3>1, <3>3
    <2>. QED  BY <2>2 DEF Placed
  <1>6. ~Uncounted(j, q, L)
    <2>1. SUFFICES ASSUME Uncounted(j, q, L) PROVE FALSE
      OBVIOUS
    <2>2. q.cur < Len(L[s]) /\ L[s][q.cur + 1].job = j
      BY <1>2, <2>1 DEF Uncounted
    <2>3. q.cur + 1 \in 1..Len(L[s]) /\ ~(q.cur + 1 <= r.cur + 1)
      BY SMTT(60), <1>2, <2>2
    <2>4. PICK i \in 1..r.index : r.frozen[i].session = s
      BY <1>1, <1>4, <2>2, <2>3 DEF Placed
    <2>5. i \in 1..Len(r.frozen) /\ i < r.index + 1
      BY <1>1
    <2>. QED  BY <1>1, <2>4, <2>5, Distinct DEF Session
  <1>7. Counted(j, q, L)
    <2>1. Lines(j, L) = r.packets + 1
      BY DEF Ledgered, Counted
    <2>2. Lines(j, L) = q.packets /\ Lines(j, L) \in Nat
      BY <2>1, LinesFinite
    <2>3. q.packets + 0 = q.packets
      BY <2>2
    <2>. QED  BY <1>6, <2>2, <2>3 DEF Counted
  <1>. QED  BY <1>3, <1>5, <1>7 DEF Ledgered

LEMMA AcceptInv ==
    ASSUME Inv, NEW w \in Workers, Accept(w)
    PROVE  Inv'
  <1> DEFINE r == R(w)  j == worker[w].job
             x == [worker[w] EXCEPT !.pc = "sync", !.behind = FALSE]
             q == [r EXCEPT !.packets = @ + 1, !.cur = @ + 1, !.pending = TRUE]
  <1>0. worker[w].pc = "accept" /\ worker[w].pc \in Applying
        /\ UNCHANGED <<files, receipt, ledger, vault>>
    BY DEF Accept, At, Applying, outer
  <1>1. /\ worker[w].pc \in Owned /\ worker[w].pc \notin Outside
        /\ worker[w] \in Worker /\ j \in Jobs /\ r \in Job
        /\ Valid(r) /\ FilesOf(r, Files(w)) /\ Ledgered(j, r, ledger, vault)
        /\ Files(w) \in SUBSET Payloads /\ Sees(worker[w], r, Files(w), ledger, vault)
        /\ ~r.pending /\ r.pubs = 2 /\ r.phase = "applying"
        /\ r.payload \in {"retained", "apply_recovery"} /\ worker[w].work
        /\ r.index < Len(r.frozen) /\ r.cur = r.from /\ r.from < Upper(r)
        /\ r.cur \in 0..MaxLine /\ Upper(r) \in 1..MaxLine
    BY <1>0, AtApply
  <1>2. Uncounted(j, r, ledger) /\ ledger \in [1..Sessions -> Seq(Line)]
    BY <1>0, <1>1 DEF Sees, Inv, Typed, OuterTyped
  <1>3. r.packets \in Nat /\ r.packets + 1 <= Sessions * MaxLine /\ Sessions * MaxLine \in Nat
        /\ r.packets + 1 \in 0..(Sessions * MaxLine) /\ r.packets + 1 > 0
    <2>1. Lines(j, ledger) = r.packets + 1
      BY <1>1, <1>2 DEF Ledgered, Counted
    <2>2. Lines(j, ledger) <= Sessions * MaxLine /\ Sessions * MaxLine \in Nat
      BY LinesFinite
    <2>3. r.packets \in 0..(Sessions * MaxLine)
      BY <1>1, FrozenType
    <2>. QED  BY <2>1, <2>2, <2>3
  <1>4. r.cur + 1 <= Upper(r) /\ r.cur + 1 \in 0..MaxLine
    BY <1>1, ReviewJobAssumption
  <1>5. /\ q \in Job /\ q.frozen = r.frozen /\ q.index = r.index /\ q.cur = r.cur + 1
        /\ q.packets = r.packets + 1 /\ q.pending /\ q.state = r.state /\ q.attempt = r.attempt
        /\ q.token = r.token /\ q.owner = r.owner /\ q.cancel = r.cancel /\ q.phase = r.phase
        /\ q.payload = r.payload /\ q.pubs = r.pubs /\ q.result = r.result /\ q.from = r.from
        /\ q.error = r.error
    BY <1>1, <1>3, <1>4 DEF Job
  <1>6. /\ x \in Worker /\ x.pc = "sync" /\ x.job = j /\ x.attempt = worker[w].attempt
        /\ x.work = worker[w].work /\ ~x.behind
    BY <1>1 DEF Worker, Stages, Owned
  <1>7. /\ worker' = [worker EXCEPT ![w] = x] /\ jobs' = [jobs EXCEPT ![j] = q]
        /\ files' = [files EXCEPT ![j] = Files(w)]
    <2>1. worker' = [worker EXCEPT ![w] = x]
      BY DEF Accept, WriteAnyway, Adopt, Inv, Typed, Worker
    <2>2. jobs' = [jobs EXCEPT ![j] = q]
      BY DEF Accept, WriteAnyway
    <2>3. files' = [files EXCEPT ![j] = Files(w)]
      BY <1>0 DEF Files, Inv, Typed
    <2>. QED  BY <2>1, <2>2, <2>3
  <1> HIDE DEF x, q
  <1>8. Valid(q)
    <2>1. Lifecycle(q)
      BY <1>0, <1>1, <1>5, Owning DEF Valid, Lifecycle, Going, ActiveStates, Clean
    <2>2. Progress(q)
      <3>1. Upper(q) = Upper(r)
        BY <1>5 DEF Upper
      <3>2. q.index < Len(q.frozen) /\ q.cur <= Upper(q) /\ q.packets > 0
        BY <1>1, <1>3, <1>4, <1>5, <3>1
      <3>3. r.index \in Nat /\ Len(r.frozen) \in Nat
        BY <1>1, FrozenType
      <3>. QED  BY <1>1, <1>5, <3>2, <3>3 DEF Valid, Progress
    <2>3. Payload(q)
      BY <1>1, <1>5 DEF Valid, Payload, Going
    <2>. QED  BY <2>1, <2>2, <2>3 DEF Valid
  <1>9. FilesOf(q, Files(w))
    BY <1>1, <1>5 DEF FilesOf
  <1>10. Ledgered(j, q, ledger, vault)
    BY <1>1, <1>2, <1>5, AcceptLedger DEF Valid
  <1>11. Place(x, q, Files(w), ledger, vault)
    <2>1. Owner(x, q)
      BY ZenonT(60), <1>1, <1>5, <1>6, Owning DEF Owner
    <2>2. Starting(x, q) /\ Packing(x, q)
      BY <1>6 DEF Starting, Packing, Begun, Applying
    <2>3. Ending(x, q) /\ Opened(x, q) /\ Sees(x, q, Files(w), ledger, vault)
      BY <1>1, <1>5, <1>6 DEF Ending, Opened, Sees, Begun, Applying, Syncing, Cleaning
    <2>. QED  BY <2>1, <2>2, <2>3 DEF Place
  <1>. QED  BY <1>0, <1>1, <1>5, <1>6, <1>7, <1>8, <1>9, <1>10, <1>11, Local

------------------------------------------------------------------------------
(* The sync after the apply. *)

\* A vault that shows more is as good.
LEMMA LedgeredUp ==
    ASSUME NEW j, NEW r \in Job, Progress(r), NEW L, NEW V \in [1..Sessions -> Nat],
           NEW W \in [1..Sessions -> Nat], \A s \in 1..Sessions : V[s] <= W[s],
           Ledgered(j, r, L, V)
    PROVE  Ledgered(j, r, L, W)
  <1>1. /\ Len(r.frozen) \in Nat /\ r.index \in Nat /\ r.index <= Len(r.frozen)
        /\ r.frozen \in [1..Len(r.frozen) -> Frozen] /\ r.cur \in Nat
        /\ r.index < Len(r.frozen) => Session(r) \in 1..Sessions
    <2>1. r.cur \in 0..MaxLine
      BY FrozenType
    <2>2. r.cur \in Nat
      BY <2>1, ReviewJobAssumption
    <2>3. r.index <= Len(r.frozen)
      BY DEF Progress
    <2>. QED  BY <2>2, <2>3, FrozenType
  <1>2. ASSUME NEW i \in 1..r.index
        PROVE  /\ Len(L[r.frozen[i].session]) >= r.frozen[i].upper
               /\ W[r.frozen[i].session] >= r.frozen[i].upper
    <2>1. i \in 1..Len(r.frozen)
      BY <1>1
    <2>2. r.frozen[i].session \in 1..Sessions /\ r.frozen[i].upper \in Nat
      BY <2>1, FrozenAt
    <2>3. /\ Len(L[r.frozen[i].session]) >= r.frozen[i].upper
          /\ V[r.frozen[i].session] >= r.frozen[i].upper
      BY DEF Ledgered, Covered
    <2>4. /\ V[r.frozen[i].session] \in Nat /\ W[r.frozen[i].session] \in Nat
          /\ V[r.frozen[i].session] <= W[r.frozen[i].session]
      BY <2>2
    <2>. QED  BY <2>2, <2>3, <2>4
  <1>3. ASSUME r.index < Len(r.frozen)
        PROVE  r.cur <= Len(L[Session(r)]) /\ (~r.pending => r.cur <= W[Session(r)])
    <2>1. r.cur <= Len(L[Session(r)]) /\ (~r.pending => r.cur <= V[Session(r)])
      BY <1>3 DEF Ledgered, Covered
    <2>2. /\ V[Session(r)] \in Nat /\ W[Session(r)] \in Nat
          /\ V[Session(r)] <= W[Session(r)]
      BY <1>1, <1>3
    <2>. QED  BY <1>1, <2>1, <2>2
  <1>4. Covered(r, L, W)
    BY <1>2, <1>3 DEF Covered
  <1>. QED  BY <1>4 DEF Ledgered

\* A sync shows every accepted line, and unsettles no job.
LEMMA SyncedAll ==
    ASSUME Inv, vault' = [s \in 1..Sessions |-> Len(ledger[s])] \/ UNCHANGED vault,
           UNCHANGED <<receipt, ledger>>
    PROVE  /\ OuterTyped'
           /\ \A k \in Jobs : Kept(k, jobs[k], files[k], ledger', vault')
           /\ \A k \in Jobs : jobs[k] # NoJob => Ledgered(k, jobs[k], ledger', vault')
  <1>1. /\ ledger \in [1..Sessions -> Seq(Line)] /\ vault \in [1..Sessions -> Nat]
        /\ \A s \in 1..Sessions : vault[s] <= Len(ledger[s]) /\ Len(ledger[s]) <= MaxLine
        /\ OuterTyped
    BY DEF Inv, Typed, OuterTyped
  <1>2. \A s \in 1..Sessions : Len(ledger[s]) \in Nat
    <2>1. ASSUME NEW s \in 1..Sessions PROVE ledger[s] \in Seq(Line)
      BY <1>1
    <2>. QED  BY <2>1
  <1>3. /\ vault' \in [1..Sessions -> Nat]
        /\ \A s \in 1..Sessions : vault[s] <= vault'[s] /\ vault'[s] <= Len(ledger[s])
    <2>1. CASE UNCHANGED vault
      BY <1>1, <2>1
    <2>2. CASE vault' = [s \in 1..Sessions |-> Len(ledger[s])]
      BY <1>1, <1>2, <2>2
    <2>. QED  BY <2>1, <2>2
  <1>4. OuterTyped'
    BY <1>1, <1>3 DEF OuterTyped
  <1>5. ASSUME NEW k \in Jobs, jobs[k] # NoJob PROVE Ledgered(k, jobs[k], ledger', vault')
    <2>1. jobs[k] \in Job /\ Valid(jobs[k]) /\ Ledgered(k, jobs[k], ledger, vault)
      BY <1>5 DEF Inv, Typed, Kept
    <2>2. Ledgered(k, jobs[k], ledger, vault')
      BY <1>1, <1>3, <2>1, LedgeredUp DEF Valid
    <2>. QED  BY <2>2
  <1>6. ASSUME NEW k \in Jobs PROVE Kept(k, jobs[k], files[k], ledger', vault')
    <2>1. Kept(k, jobs[k], files[k], ledger, vault)
      BY DEF Inv
    <2>. QED  BY <1>5, <2>1 DEF Kept
  <1>. QED  BY <1>4, <1>5, <1>6

\* What holds at the places of a sync.
LEMMA AtSync ==
    ASSUME Inv, NEW w \in Workers, worker[w].pc \in Syncing
    PROVE  LET r == R(w) IN
           /\ worker[w].pc \in Owned /\ worker[w].pc \notin Outside
           /\ worker[w] \in Worker /\ worker[w].job \in Jobs /\ r \in Job /\ r # NoJob
           /\ Valid(r) /\ FilesOf(r, Files(w)) /\ Ledgered(worker[w].job, r, ledger, vault)
           /\ Files(w) \in SUBSET Payloads /\ Sees(worker[w], r, Files(w), ledger, vault)
           /\ r.pending \/ r.frozen = <<>>
           /\ r.frozen = <<>> => r.payload = "" /\ ~r.pending
           /\ r.pending => r.index < Len(r.frozen)
           /\ worker[w].work \/ r.frozen = <<>>
           /\ worker[w].work => r.frozen # <<>>
           /\ worker[w].pc \in {"syncing", "clear"} => r.phase = "syncing"
  <1> DEFINE r == R(w)
  <1>1. worker[w].pc \in Owned /\ worker[w].pc \notin Outside
    BY DEF Syncing, Owned, Outside
  <1>2. /\ worker[w] \in Worker /\ worker[w].job \in Jobs /\ r \in Job /\ r # NoJob
        /\ Valid(r) /\ FilesOf(r, Files(w)) /\ Ledgered(worker[w].job, r, ledger, vault)
        /\ Files(w) \in SUBSET Payloads /\ Sees(worker[w], r, Files(w), ledger, vault)
        /\ Ending(worker[w], r) /\ Opened(worker[w], r)
    BY <1>1, Inside DEF Place
  <1>3. /\ r.pending \/ r.frozen = <<>>
        /\ worker[w].work \/ r.frozen = <<>>
        /\ worker[w].pc \in {"syncing", "clear"} => r.phase = "syncing"
    BY <1>2 DEF Ending, Opened
  <1>4. /\ r.frozen = <<>> => r.payload = ""
        /\ r.pending => r.index < Len(r.frozen)
    BY <1>2 DEF Valid, Progress
  <1>5. r.pending => r.frozen # <<>>
    BY <1>2, <1>4, FrozenType
  <1>. QED  BY <1>1, <1>2, <1>3, <1>4, <1>5, Owning

LEMMA SyncInv ==
    ASSUME Inv, NEW w \in Workers, Sync(w)
    PROVE  Inv'
  <1> DEFINE r == R(w)  j == worker[w].job
             x == [worker[w] EXCEPT !.pc = "syncing", !.behind = FALSE]
             y == [worker[w] EXCEPT !.pc = "cancel", !.behind = FALSE]
             q == [r EXCEPT !.phase = "syncing"]
  <1>0. worker[w].pc = "sync" /\ worker[w].pc \in Syncing
        /\ UNCHANGED <<files, receipt, ledger, vault>>
    BY DEF Sync, At, Syncing, outer
  <1>1. /\ worker[w].pc \in Owned /\ worker[w].pc \notin Outside
        /\ worker[w] \in Worker /\ j \in Jobs /\ r \in Job
        /\ Valid(r) /\ FilesOf(r, Files(w)) /\ Ledgered(j, r, ledger, vault)
        /\ Files(w) \in SUBSET Payloads
        /\ r.pending \/ r.frozen = <<>>
        /\ r.frozen = <<>> => r.payload = "" /\ ~r.pending
        /\ worker[w].work \/ r.frozen = <<>>
    BY <1>0, AtSync
  <1>2. CASE Requested(w) /\ ~r.pending
    <2>1. /\ y \in Worker /\ y.pc = "cancel" /\ y.job = j /\ y.attempt = worker[w].attempt
          /\ y.work = worker[w].work /\ ~y.behind
      BY <1>1 DEF Worker, Stages, Owned
    <2>2. worker' = [worker EXCEPT ![w] = y] /\ UNCHANGED jobs
      BY <1>2 DEF Sync, Adopt, Inv, Typed, Worker
    <2> HIDE DEF y
    <2>3. r.payload = ""
      BY <1>1, <1>2
    <2>4. Place(y, r, Files(w), ledger, vault)
      <3>1. Owner(y, r)
        BY <1>1, <2>1, Owning DEF Owner
      <3>2. Starting(y, r) /\ Packing(y, r) /\ Ending(y, r)
        BY <2>1 DEF Starting, Packing, Ending, Begun, Applying, Syncing, Cleaning
      <3>3. Opened(y, r) /\ Sees(y, r, Files(w), ledger, vault)
        BY <2>1, <2>3 DEF Opened, Sees, Begun, Applying, Syncing, Cleaning
      <3>. QED  BY <3>1, <3>2, <3>3 DEF Place
    <2>. QED  BY <1>0, <1>1, <2>1, <2>2, <2>4, LocalGo
  <1>3. CASE ~(Requested(w) /\ ~r.pending)
    <2>1. /\ x \in Worker /\ x.pc = "syncing" /\ x.job = j /\ x.attempt = worker[w].attempt
          /\ x.work = worker[w].work /\ ~x.behind
      BY <1>1 DEF Worker, Stages, Owned
    <2>2. /\ q \in Job /\ SameProgress(q, r) /\ q.state = r.state /\ q.attempt = r.attempt
          /\ q.token = r.token /\ q.owner = r.owner /\ q.cancel = r.cancel /\ q.phase = "syncing"
          /\ q.payload = r.payload /\ q.pubs = r.pubs /\ q.result = r.result /\ q.from = r.from
          /\ q.error = r.error
      BY <1>1 DEF Job, Phases, SameProgress
    <2>3. /\ worker' = [worker EXCEPT ![w] = x] /\ jobs' = [jobs EXCEPT ![j] = q]
          /\ files' = [files EXCEPT ![j] = Files(w)]
      <3>1. worker' = [worker EXCEPT ![w] = x]
        BY <1>3 DEF Sync, WriteAnyway, Adopt, Inv, Typed, Worker
      <3>2. jobs' = [jobs EXCEPT ![j] = q]
        BY <1>3 DEF Sync, WriteAnyway
      <3>3. files' = [files EXCEPT ![j] = Files(w)]
        BY <1>0 DEF Files, Inv, Typed
      <3>. QED  BY <3>1, <3>2, <3>3
    <2> HIDE DEF x, q
    <2>4. Valid(q)
      <3>1. Lifecycle(q)
        BY <1>1, <2>2, Owning DEF Valid, Lifecycle, Going, ActiveStates, SameProgress, Clean
      <3>2. Progress(q)
        BY <1>1, <2>2 DEF Valid, Progress, SameProgress, Upper
      <3>3. Payload(q)
        BY <1>1, <2>2 DEF Valid, Payload, Going
      <3>. QED  BY <3>1, <3>2, <3>3 DEF Valid
    <2>5. FilesOf(q, Files(w)) /\ Ledgered(j, q, ledger, vault)
      BY <1>1, <2>2, SameLedger DEF FilesOf
    <2>6. Place(x, q, Files(w), ledger, vault)
      <3>1. Owner(x, q)
        BY <1>1, <2>1, <2>2, AtSync, Owning DEF Owner, SameProgress
      <3>2. Starting(x, q) /\ Packing(x, q)
        BY <2>1 DEF Starting, Packing, Begun, Applying
      <3>3. Ending(x, q) /\ Opened(x, q) /\ Sees(x, q, Files(w), ledger, vault)
        BY <1>1, <2>1, <2>2 DEF Ending, Opened, Sees, Begun, Applying, Syncing, Cleaning, SameProgress
      <3>. QED  BY <3>1, <3>2, <3>3 DEF Place
    <2>. QED  BY <1>0, <1>1, <2>1, <2>2, <2>3, <2>4, <2>5, <2>6, Local
  <1>. QED  BY <1>2, <1>3

LEMMA SyncEndsInv ==
    ASSUME Inv, NEW w \in Workers, SyncEnds(w) \/ SyncFails(w)
    PROVE  Inv'
  <1> DEFINE r == R(w)  j == worker[w].job
             pc == IF SyncEnds(w) THEN "clear" ELSE "fail"
  <1>0. /\ worker[w].pc \in Syncing /\ (SyncEnds(w) => worker[w].pc = "syncing")
        /\ UNCHANGED <<jobs, files, receipt, ledger>>
        /\ vault' = [s \in 1..Sessions |-> Len(ledger[s])] \/ UNCHANGED vault
        /\ SyncEnds(w) => vault' = [s \in 1..Sessions |-> Len(ledger[s])]
    BY DEF SyncEnds, SyncFails, At, Syncing
  <1>1. /\ worker[w].pc \in Owned /\ worker[w].pc \notin Outside
        /\ worker[w] \in Worker /\ j \in Jobs /\ r \in Job /\ r # NoJob
        /\ Valid(r) /\ FilesOf(r, Files(w)) /\ Files(w) \in SUBSET Payloads
        /\ r.pending \/ r.frozen = <<>>
        /\ r.frozen = <<>> => r.payload = "" /\ ~r.pending
        /\ worker[w].work \/ r.frozen = <<>>
        /\ worker[w].pc = "syncing" => r.phase = "syncing"
    BY <1>0, AtSync
  <1>2. /\ OuterTyped' /\ \A k \in Jobs : Kept(k, jobs[k], files[k], ledger', vault')
        /\ Ledgered(j, r, ledger', vault')
    BY <1>0, <1>1, SyncedAll DEF R
  <1>3. jobs' = [jobs EXCEPT ![j] = r] /\ files' = [files EXCEPT ![j] = Files(w)]
    BY <1>0, <1>1 DEF R, Files, Inv, Typed
  <1>4. CASE SyncEnds(w)
    <2> DEFINE x == [worker[w] EXCEPT !.pc = "clear", !.behind = FALSE]
    <2>1. /\ x \in Worker /\ x.pc = "clear" /\ x.job = j /\ x.attempt = worker[w].attempt
          /\ x.work = worker[w].work /\ ~x.behind
      BY <1>1 DEF Worker, Stages, Owned
    <2>2. worker' = [worker EXCEPT ![w] = x]
      BY <1>4 DEF SyncEnds, Adopt, Inv, Typed, Worker
    <2> HIDE DEF x
    <2>3. \A s \in 1..Sessions : vault'[s] = Len(ledger'[s])
      BY <1>0, <1>4
    <2>4. Place(x, r, Files(w), ledger', vault')
      <3>1. Owner(x, r)
        BY <1>1, <2>1, Owning DEF Owner
      <3>2. Starting(x, r) /\ Packing(x, r)
        BY <2>1 DEF Starting, Packing, Begun, Applying
      <3>3. Ending(x, r) /\ Opened(x, r) /\ Sees(x, r, Files(w), ledger', vault')
        BY <1>0, <1>1, <1>4, <2>1, <2>3 DEF Ending, Opened, Sees, Begun, Applying, Syncing, Cleaning
      <3>. QED  BY <3>1, <3>2, <3>3 DEF Place
    <2>. QED  BY <1>1, <1>2, <1>3, <2>1, <2>2, <2>4, Global
  <1>5. CASE SyncFails(w)
    <2> DEFINE code == IF At(w, "sync") /\ ~R(w).pending THEN "apply_recovery" ELSE "other"
               x == [worker[w] EXCEPT !.pc = "fail", !.behind = FALSE, !.code = code]
    <2>0. code \in Errors
      BY DEF Errors
    <2>a. worker' = [worker EXCEPT ![w] = x]
      BY <1>5 DEF SyncFails, Inv, Typed, Worker
    <2> HIDE DEF code
    <2>1. /\ x \in Worker /\ x.pc = "fail" /\ x.job = j /\ x.attempt = worker[w].attempt
          /\ x.work = worker[w].work /\ ~x.behind
      BY <1>1, <2>0 DEF Worker, Stages, Owned
    <2> HIDE DEF x
    <2>2. Place(x, r, Files(w), ledger', vault')
      BY <1>1, <2>1, Fails
    <2>. QED  BY <1>1, <1>2, <1>3, <2>1, <2>a, <2>2, Global
  <1>. QED  BY <1>4, <1>5

LEMMA ClearInv ==
    ASSUME Inv, NEW w \in Workers, Clear(w)
    PROVE  Inv'
  <1> DEFINE r == R(w)  j == worker[w].job
             pc == IF r.frozen = <<>> THEN "complete" ELSE "mark"
             x == [worker[w] EXCEPT !.pc = pc, !.behind = FALSE]
             q == [r EXCEPT !.pending = FALSE]
  <1>0. worker[w].pc = "clear" /\ worker[w].pc \in Syncing
        /\ UNCHANGED <<files, receipt, ledger, vault>>
    BY DEF Clear, At, Syncing, outer
  <1>1. /\ worker[w].pc \in Owned /\ worker[w].pc \notin Outside
        /\ worker[w] \in Worker /\ j \in Jobs /\ r \in Job
        /\ Valid(r) /\ FilesOf(r, Files(w)) /\ Ledgered(j, r, ledger, vault)
        /\ Files(w) \in SUBSET Payloads /\ Sees(worker[w], r, Files(w), ledger, vault)
        /\ r.pending \/ r.frozen = <<>>
        /\ r.frozen = <<>> => r.payload = "" /\ ~r.pending
        /\ r.pending => r.index < Len(r.frozen)
        /\ worker[w].work \/ r.frozen = <<>>
        /\ worker[w].work => r.frozen # <<>>
        /\ r.phase = "syncing"
    BY <1>0, AtSync
  <1>2. /\ pc \in Stages /\ pc \in {"complete", "mark"}
        /\ pc = "complete" => r.frozen = <<>>
        /\ pc = "mark" => r.frozen # <<>>
    BY DEF Stages, Owned
  <1>3. /\ worker' = [worker EXCEPT ![w] = x] /\ jobs' = [jobs EXCEPT ![j] = q]
        /\ files' = [files EXCEPT ![j] = Files(w)]
    <2>1. worker' = [worker EXCEPT ![w] = x]
      BY DEF Clear, WriteAnyway, Adopt, Inv, Typed, Worker
    <2>2. jobs' = [jobs EXCEPT ![j] = q]
      BY DEF Clear, WriteAnyway
    <2>3. files' = [files EXCEPT ![j] = Files(w)]
      BY <1>0 DEF Files, Inv, Typed
    <2>. QED  BY <2>1, <2>2, <2>3
  <1> HIDE DEF pc
  <1>4. /\ x \in Worker /\ x.pc = pc /\ x.job = j /\ x.attempt = worker[w].attempt
        /\ x.work = worker[w].work /\ ~x.behind /\ x.rec = worker[w].rec /\ x.acc = worker[w].acc
    BY <1>1, <1>2 DEF Worker
  <1>5. /\ q \in Job /\ q.frozen = r.frozen /\ q.index = r.index /\ q.cur = r.cur
        /\ q.packets = r.packets /\ ~q.pending /\ q.state = r.state /\ q.attempt = r.attempt
        /\ q.token = r.token /\ q.owner = r.owner /\ q.cancel = r.cancel /\ q.phase = r.phase
        /\ q.payload = r.payload /\ q.pubs = r.pubs /\ q.result = r.result /\ q.from = r.from
        /\ q.error = r.error
    BY <1>1 DEF Job
  <1> HIDE DEF x, q
  <1>6. Valid(q)
    <2>1. Lifecycle(q)
      BY <1>1, <1>5, Owning DEF Valid, Lifecycle, Going, ActiveStates, Clean
    <2>2. Progress(q)
      BY <1>1, <1>5 DEF Valid, Progress, Upper
    <2>3. Payload(q)
      BY <1>1, <1>5 DEF Valid, Payload, Going
    <2>. QED  BY <2>1, <2>2, <2>3 DEF Valid
  <1>7. FilesOf(q, Files(w))
    BY <1>1, <1>5 DEF FilesOf
  <1>8. Ledgered(j, q, ledger, vault)
    <2>1. Session(q) = Session(r) /\ Upper(q) = Upper(r)
      BY <1>5 DEF Session, Upper
    <2>2. r.index < Len(r.frozen) => Session(r) \in 1..Sessions
      BY <1>1, FrozenType
    <2>3. r.index < Len(r.frozen) => r.cur <= vault[Session(r)]
      <3>1. r.index < Len(r.frozen) => r.cur <= Len(ledger[Session(r)])
        BY <1>1 DEF Ledgered, Covered
      <3>. QED  BY <1>0, <1>1, <2>2, <3>1 DEF Sees
    <2>4. Covered(q, ledger, vault)
      BY <1>1, <1>5, <2>1, <2>3 DEF Ledgered, Covered
    <2>5. Placed(j, q, ledger)
      <3>1. Placed(j, r, ledger)
        BY <1>1 DEF Ledgered
      <3>2. q.frozen = r.frozen /\ q.index = r.index /\ q.cur = r.cur
        BY <1>5
      <3>. QED  BY <2>1, <3>1, <3>2 DEF Placed
    <2>6. Uncounted(j, q, ledger) <=> Uncounted(j, r, ledger)
      BY <1>5, <2>1 DEF Uncounted
    <2>7. Counted(j, q, ledger)
      BY <1>1, <1>5, <2>6 DEF Ledgered, Counted
    <2>. QED  BY <2>4, <2>5, <2>7 DEF Ledgered
  <1>9. Place(x, q, Files(w), ledger, vault)
    <2>0. /\ r.owner /\ r.attempt = worker[w].attempt
          /\ r.state \in {"running", "cancel_requested"}
      BY <1>1, Owning
    <2>1. Owner(x, q)
      BY <1>1, <1>2, <1>4, <1>5, <2>0 DEF Owner
    <2>2. Starting(x, q) /\ Packing(x, q)
      BY <1>1, <1>2, <1>4, <1>5 DEF Starting, Packing, Begun, Applying, Clean
    <2>3. Ending(x, q)
      BY <1>1, <1>2, <1>4, <1>5 DEF Ending, Syncing, Cleaning
    <2>4. Opened(x, q) /\ Sees(x, q, Files(w), ledger, vault)
      BY <1>1, <1>2, <1>4, <1>5 DEF Opened, Sees, Begun, Applying, Syncing, Cleaning
    <2>. QED  BY <2>1, <2>2, <2>3, <2>4 DEF Place
  <1>10. x.pc \notin {"launch", "spawned"}
    BY <1>2, <1>4
  <1>. QED  BY <1>0, <1>1, <1>3, <1>4, <1>5, <1>6, <1>7, <1>8, <1>9, <1>10, Local

------------------------------------------------------------------------------
(* The cleanup of a packet and the end of its round. *)

LEMMA AtClean ==
    ASSUME Inv, NEW w \in Workers, worker[w].pc \in Cleaning
    PROVE  LET r == R(w) IN
           /\ worker[w].pc \in Owned /\ worker[w].pc \notin Outside
           /\ worker[w] \in Worker /\ worker[w].job \in Jobs /\ r \in Job
           /\ Valid(r) /\ FilesOf(r, Files(w)) /\ Ledgered(worker[w].job, r, ledger, vault)
           /\ Files(w) \in SUBSET Payloads /\ Sees(worker[w], r, Files(w), ledger, vault)
           /\ ~r.pending /\ r.frozen # <<>> /\ worker[w].work /\ ~r.token /\ Going(r)
           /\ (worker[w].rec => worker[w].acc) => r.index < Len(r.frozen)
           /\ worker[w].pc \in {"remove", "settle"} => r.payload = "cleanup_pending"
           /\ worker[w].pc = "advance" => worker[w].acc /\ r.payload \in Clean
  <1> DEFINE r == R(w)
  <1>1. worker[w].pc \in Owned /\ worker[w].pc \notin Outside
    BY DEF Cleaning, Owned, Outside
  <1>2. /\ worker[w] \in Worker /\ worker[w].job \in Jobs /\ r \in Job
        /\ Valid(r) /\ FilesOf(r, Files(w)) /\ Ledgered(worker[w].job, r, ledger, vault)
        /\ Files(w) \in SUBSET Payloads /\ Sees(worker[w], r, Files(w), ledger, vault)
        /\ Ending(worker[w], r) /\ Opened(worker[w], r) /\ Packing(worker[w], r)
    BY <1>1, Inside DEF Place
  <1>3. worker[w].work
    BY <1>2 DEF Opened
  <1>4. /\ ~r.pending /\ ((worker[w].rec => worker[w].acc) => r.index < Len(r.frozen))
        /\ worker[w].pc \in {"remove", "settle"} => r.payload = "cleanup_pending"
        /\ worker[w].pc = "advance" => worker[w].acc
    BY <1>2 DEF Ending
  <1>5. worker[w].pc = "advance" => r.payload \in Clean
    BY <1>2 DEF Packing
  <1>. QED  BY <1>1, <1>2, <1>3, <1>4, <1>5, Owning

LEMMA CleanPlace ==
    ASSUME Inv, NEW w \in Workers, worker[w].pc \in Cleaning, NEW x, NEW q, NEW f,
           x.pc \in {"advance", "loop", "remove", "settle"}, x.attempt = worker[w].attempt,
           x.work = worker[w].work, x.behind = worker[w].behind, x.rec = worker[w].rec,
           x.acc = worker[w].acc,
           q.state = R(w).state, q.owner = R(w).owner, q.attempt = R(w).attempt,
           q.frozen = R(w).frozen, q.pending = R(w).pending,
           x.pc # "loop" => q.index = R(w).index,
           x.pc \in {"advance", "loop"} => q.payload \in Clean,
           x.pc \in {"remove", "settle"} => q.payload = "cleanup_pending",
           x.pc = "advance" => x.acc, x.pc = "settle" => f = {}
    PROVE  Place(x, q, f, ledger, vault)
  <1>1. /\ worker[w].pc \in Owned /\ ~q.pending /\ q.frozen # <<>> /\ x.work
        /\ x.pc # "loop" => ((x.rec => x.acc) => q.index < Len(q.frozen))
    BY AtClean
  <1>2. Owner(x, q)
    BY <1>1, Owning DEF Owner
  <1>3. Starting(x, q) /\ Packing(x, q)
    BY <1>1 DEF Starting, Packing, Begun, Applying
  <1>4. Ending(x, q)
    BY <1>1 DEF Ending, Syncing, Cleaning
  <1>5. Opened(x, q) /\ Sees(x, q, f, ledger, vault)
    BY <1>1 DEF Opened, Sees, Begun, Applying, Syncing, Cleaning
  <1>. QED  BY <1>2, <1>3, <1>4, <1>5 DEF Place

\* A record whose payload is announced to be, or is, cleaned up.
LEMMA CleanedUp ==
    ASSUME NEW r \in Job, Valid(r), Going(r), ~r.token, r.frozen # <<>>,
           NEW c \in {"cleanup_pending", "cleanup_complete"}
    PROVE  LET q == [r EXCEPT !.payload = c] IN
           /\ q \in Job /\ Valid(q) /\ SameProgress(q, r) /\ q.payload = c
           /\ q.state = r.state /\ q.owner = r.owner /\ q.attempt = r.attempt /\ q.pubs = r.pubs
           /\ q.token = r.token /\ Going(q)
  <1> DEFINE q == [r EXCEPT !.payload = c]
  <1>1. /\ q \in Job /\ SameProgress(q, r) /\ q.state = r.state /\ q.attempt = r.attempt
        /\ q.token = r.token /\ q.owner = r.owner /\ q.cancel = r.cancel /\ q.phase = r.phase
        /\ q.payload = c /\ q.pubs = r.pubs /\ q.result = r.result /\ q.from = r.from
        /\ q.error = r.error
    BY DEF Job, PayloadStates, SameProgress
  <1> HIDE DEF q
  <1>2. Lifecycle(q) /\ Going(q)
    BY <1>1 DEF Valid, Lifecycle, Going, ActiveStates, SameProgress
  <1>3. Progress(q)
    BY <1>1 DEF Valid, Progress, SameProgress, Upper
  <1>4. Payload(q)
    BY <1>1 DEF Valid, Payload, Private
  <1>. QED  BY <1>1, <1>2, <1>3, <1>4 DEF Valid, q

LEMMA MarkInv ==
    ASSUME Inv, NEW w \in Workers, Mark(w)
    PROVE  Inv'
  <1> DEFINE r == R(w)  j == worker[w].job
  <1>0. worker[w].pc = "mark" /\ worker[w].pc \in Cleaning
        /\ UNCHANGED <<files, receipt, ledger, vault>>
    BY DEF Mark, At, Cleaning, outer
  <1>1. /\ worker[w].pc \notin Outside
        /\ worker[w] \in Worker /\ j \in Jobs /\ r \in Job
        /\ Valid(r) /\ FilesOf(r, Files(w)) /\ Ledgered(j, r, ledger, vault)
        /\ Files(w) \in SUBSET Payloads /\ ~r.pending /\ r.frozen # <<>> /\ ~r.token /\ Going(r)
    BY <1>0, AtClean
  <1>2. CASE /\ worker[w].rec /\ r.payload \in {"cleanup_complete", ""}
             /\ Go(w, AfterRecovery(w)) /\ UNCHANGED jobs
    <2> DEFINE pc == AfterRecovery(w)
               x == [worker[w] EXCEPT !.pc = pc]
    <2>1. pc \in {"advance", "loop"} /\ pc \in Stages /\ (pc = "advance" => worker[w].acc)
      BY DEF AfterRecovery, Stages, Owned
    <2>2. worker' = [worker EXCEPT ![w] = x]
      BY <1>2 DEF Go, Inv, Typed
    <2> HIDE DEF pc
    <2>3. /\ x \in Worker /\ x.pc = pc /\ x.job = j /\ x.attempt = worker[w].attempt
          /\ x.behind = worker[w].behind /\ x.work = worker[w].work /\ x.rec = worker[w].rec
          /\ x.acc = worker[w].acc
      BY <1>1, <2>1 DEF Worker
    <2> HIDE DEF x
    <2>6. /\ x.pc \in {"advance", "loop"} /\ r.payload \in Clean
          /\ x.pc = "advance" => x.acc
      BY <1>2, <2>1, <2>3 DEF Clean
    <2>4. Place(x, r, Files(w), ledger, vault)
      BY <1>0, <2>3, <2>6, CleanPlace
    <2>5. x.pc \notin {"launch", "spawned"}
      BY <2>1, <2>3
    <2>. QED  BY <1>0, <1>1, <1>2, <2>2, <2>3, <2>4, <2>5, LocalGo
  <1> DEFINE x == [worker[w] EXCEPT !.pc = "remove"]
  <1>3. /\ x \in Worker /\ x.pc = "remove" /\ x.job = j /\ x.attempt = worker[w].attempt
        /\ x.behind = worker[w].behind /\ x.work = worker[w].work /\ x.rec = worker[w].rec
        /\ x.acc = worker[w].acc
    BY <1>1 DEF Worker, Stages, Owned
  <1>4. Go(w, "remove") => worker' = [worker EXCEPT ![w] = x]
    BY DEF Go, Inv, Typed
  <1> HIDE DEF x
  <1>5. CASE r.payload = "cleanup_pending" /\ Go(w, "remove") /\ UNCHANGED jobs
    <2>1. Place(x, r, Files(w), ledger, vault)
      BY <1>0, <1>3, <1>5, CleanPlace
    <2>. QED  BY <1>0, <1>1, <1>3, <1>4, <1>5, <2>1, LocalGo
  <1>6. CASE Write(w, [r EXCEPT !.payload = "cleanup_pending"], "remove")
    <2> DEFINE q == [r EXCEPT !.payload = "cleanup_pending"]
    <2>1. /\ q \in Job /\ Valid(q) /\ SameProgress(q, r) /\ q.payload = "cleanup_pending"
          /\ q.state = r.state /\ q.owner = r.owner /\ q.attempt = r.attempt /\ q.pubs = r.pubs
      BY <1>1, CleanedUp
    <2>2. jobs' = [jobs EXCEPT ![j] = q] /\ Go(w, "remove")
      BY <1>6 DEF Write
    <2> HIDE DEF q
    <2>3. files' = [files EXCEPT ![j] = Files(w)]
      BY <1>0 DEF Files, Inv, Typed
    <2>4. FilesOf(q, Files(w)) /\ Ledgered(j, q, ledger, vault)
      BY <1>1, <2>1, SameLedger DEF FilesOf, Clean
    <2>5. Place(x, q, Files(w), ledger, vault)
      BY <1>0, <1>3, <2>1, CleanPlace DEF SameProgress
    <2>. QED  BY <1>0, <1>1, <1>3, <1>4, <2>1, <2>2, <2>3, <2>4, <2>5, Local
  <1>. QED  BY <1>2, <1>5, <1>6 DEF Mark

LEMMA RemoveInv ==
    ASSUME Inv, NEW w \in Workers, Remove(w)
    PROVE  Inv'
  <1> DEFINE r == R(w)  j == worker[w].job
  <1>0. worker[w].pc = "remove" /\ worker[w].pc \in Cleaning
        /\ UNCHANGED <<jobs, receipt, ledger, vault>>
    BY DEF Remove, At, Cleaning, outer
  <1>1. /\ worker[w].pc \notin Outside /\ worker[w].pc \in Owned
        /\ worker[w] \in Worker /\ j \in Jobs /\ r \in Job /\ FilesOf(r, Files(w))
        /\ Files(w) \in SUBSET Payloads /\ r.payload = "cleanup_pending" /\ worker[w].work
    BY <1>0, AtClean
  <1>2. CASE Removed(w, "settle")
    <2> DEFINE x == [worker[w] EXCEPT !.pc = "settle"]
               f == Files(w) \ Named(r)
    <2>1. /\ x \in Worker /\ x.pc = "settle" /\ x.job = j /\ x.attempt = worker[w].attempt
          /\ x.behind = worker[w].behind /\ x.work = worker[w].work /\ x.rec = worker[w].rec
          /\ x.acc = worker[w].acc
      BY <1>1 DEF Worker, Stages, Owned
    <2>2. worker' = [worker EXCEPT ![w] = x] /\ files' = [files EXCEPT ![j] = f]
      BY <1>2 DEF Removed, Go, Files, Inv, Typed
    <2>3. f \in SUBSET Files(w) /\ f = {}
      BY <1>1 DEF FilesOf, Named, Payloads
    <2> HIDE DEF x, f
    <2>5. /\ x.pc \notin {"advance", "loop"} /\ x.pc \in {"advance", "loop", "remove", "settle"}
          /\ f = {} /\ r.payload = "cleanup_pending"
      BY <1>1, <2>1, <2>3
    <2>4. Place(x, r, f, ledger, vault)
      BY <1>0, <2>1, <2>5, CleanPlace
    <2>. QED  BY <1>0, <1>1, <2>1, <2>2, <2>3, <2>4, Shrinks
  <1>3. CASE RemoveStops(w) /\ Failing(w, CleanupCode(w))
    <2> DEFINE code == CleanupCode(w)
               x == [worker[w] EXCEPT !.pc = "fail", !.code = code]
    <2>1. PICK f \in SUBSET Files(w) : files' = [files EXCEPT ![j] = f]
      BY <1>3 DEF RemoveStops, Files
    <2>2. worker' = [worker EXCEPT ![w] = x]
      BY <1>3 DEF Failing, Inv, Typed, Worker
    <2>3. code \in Errors
      BY DEF CleanupCode, Errors
    <2> HIDE DEF code
    <2>4. /\ x \in Worker /\ x.pc = "fail" /\ x.job = j /\ x.attempt = worker[w].attempt
          /\ x.behind = worker[w].behind /\ x.work = worker[w].work
      BY <1>1, <2>3 DEF Worker, Stages, Owned
    <2> HIDE DEF x
    <2>6. x.work /\ (x.behind => worker[w].behind)
      BY <1>1, <2>4
    <2>7. worker[w].pc \in Owned \cup {"handshake"}
      BY <1>1
    <2>8. ~x.work => /\ R(w).payload \notin {"publishing", "retained"}
                     /\ R(w).payload = "apply_recovery" =>
                           x.code \in {"apply_recovery", "agent"} /\ R(w).phase # "syncing"
      BY <2>6
    <2>5. Place(x, R(w), f, ledger, vault)
      BY <2>4, <2>6, <2>7, <2>8, Fails
    <2>. QED  BY <1>0, <1>1, <2>1, <2>2, <2>4, <2>5, Shrinks
  <1>. QED  BY <1>2, <1>3 DEF Remove

------------------------------------------------------------------------------
(* The end of a packet's round and of the job. *)

\* A session that ended is done and holds no line that is not counted.
LEMMA NoneUncounted ==
    ASSUME NEW j, NEW r \in Job, Progress(r), r.index < Len(r.frozen), r.cur = Upper(r),
           NEW L \in [1..Sessions -> Seq(Line)], Placed(j, r, L)
    PROVE  ~Uncounted(j, r, L)
  <1> SUFFICES ASSUME Uncounted(j, r, L) PROVE FALSE
    OBVIOUS
  <1> DEFINE s == Session(r)  l == r.cur + 1
  <1>1. /\ r.index \in Nat /\ Len(r.frozen) \in Nat /\ r.cur \in 0..MaxLine
        /\ s \in 1..Sessions /\ Upper(r) \in 1..MaxLine /\ r.index + 1 \in 1..Len(r.frozen)
        /\ s = r.frozen[r.index + 1].session
    BY FrozenType DEF Session
  <1>2. r.cur < Len(L[s]) /\ L[s][l].job = j
    BY DEF Uncounted
  <1>3. L[s] \in Seq(Line) /\ Len(L[s]) \in Nat
    BY SMTT(60), <1>1
  <1>4. r.cur \in Nat
    BY <1>1, ReviewJobAssumption
  <1>5. l \in 1..Len(L[s])
    BY <1>2, <1>3, <1>4
  <1>6. ~(l <= Upper(r))
    <2>1. Upper(r) \in Nat
      BY <1>4
    <2>. QED  BY <1>4, <2>1
  <1> HIDE DEF s, l
  <1>7. \E i \in 1..r.index : r.frozen[i].session = s
    BY <1>1, <1>2, <1>5, <1>6 DEF Placed
  <1>8. PICK i \in 1..r.index : r.frozen[i].session = s
    BY <1>7
  <1>9. i \in 1..Len(r.frozen) /\ i < r.index + 1
    BY <1>1, <1>8
  <1>. QED  BY <1>1, <1>8, <1>9, Distinct

\* Nor does the session after it, whose turn has not come.
LEMMA NextUntouched ==
    ASSUME NEW j, NEW r \in Job, Progress(r), r.index + 1 < Len(r.frozen),
           NEW L \in [1..Sessions -> Seq(Line)], Placed(j, r, L),
           NEW s, s = r.frozen[r.index + 2].session, s \in 1..Sessions,
           NEW l \in 1..Len(L[s])
    PROVE  L[s][l].job # j
  <1> SUFFICES ASSUME L[s][l].job = j PROVE FALSE
    OBVIOUS
  <1>1. /\ r.index \in Nat /\ Len(r.frozen) \in Nat
    BY FrozenType
  <1>2. /\ r.index < Len(r.frozen) /\ r.index + 2 \in 1..Len(r.frozen)
        /\ r.index + 1 \in 1..Len(r.frozen) /\ r.index + 1 < r.index + 2
    BY SMTT(60), <1>1
  <1>3. s # Session(r)
    BY <1>2, Distinct DEF Session
  <1>4. PICK i \in 1..r.index : r.frozen[i].session = s
    BY <1>3 DEF Placed
  <1>5. i \in 1..Len(r.frozen) /\ i < r.index + 2
    BY <1>1, <1>2, <1>4
  <1>. QED  BY <1>2, <1>4, <1>5, Distinct

\* What Advanced changes.
LEMMA AdvancedIs ==
    ASSUME NEW r \in Job, Progress(r), r.index < Len(r.frozen)
    PROVE  LET q == Advanced(r) IN
           /\ q \in Job /\ q.frozen = r.frozen /\ q.packets = r.packets /\ q.pending = r.pending
           /\ q.state = r.state /\ q.attempt = r.attempt /\ q.token = r.token
           /\ q.owner = r.owner /\ q.cancel = r.cancel /\ q.phase = r.phase
           /\ q.payload = r.payload /\ q.pubs = r.pubs /\ q.result = r.result
           /\ q.from = r.from /\ q.error = r.error
           /\ r.cur = Upper(r) => q.index = r.index + 1 /\ q.cur = 0
           /\ r.cur # Upper(r) => q = r
  <1>1. CASE r.cur = Upper(r)
    <2> DEFINE n == r.index + 1  z == 0
               q == [r EXCEPT !.index = n, !.cur = z]
    <2>1. Advanced(r) = q
      BY <1>1 DEF Advanced
    <2>2. n \in 0..Sessions
      <3>1. r.index \in Nat /\ Len(r.frozen) \in Nat /\ Len(r.frozen) <= Sessions
        BY FrozenType
      <3>. QED  BY <3>1, ReviewJobAssumption
    <2>3. z \in 0..MaxLine
      BY ReviewJobAssumption
    <2> HIDE DEF n, z
    <2>4. /\ q \in Job /\ q.index = n /\ q.cur = z /\ q.frozen = r.frozen /\ q.packets = r.packets
          /\ q.pending = r.pending
          /\ q.state = r.state /\ q.attempt = r.attempt /\ q.token = r.token
          /\ q.owner = r.owner /\ q.cancel = r.cancel /\ q.phase = r.phase
          /\ q.payload = r.payload /\ q.pubs = r.pubs /\ q.result = r.result
          /\ q.from = r.from /\ q.error = r.error
      BY <2>2, <2>3 DEF Job
    <2> HIDE DEF q
    <2>5. n = r.index + 1 /\ z = 0
      BY DEF n, z
    <2>. QED  BY <1>1, <2>1, <2>4, <2>5
  <1>2. CASE r.cur # Upper(r)
    BY <1>2 DEF Advanced
  <1>. QED  BY <1>1, <1>2

LEMMA AdvancedValid ==
    ASSUME NEW r \in Job, Valid(r), Going(r), ~r.pending, r.payload \in Clean,
           r.index < Len(r.frozen)
    PROVE  Valid(Advanced(r))
  <1> DEFINE q == Advanced(r)
  <1>0. CASE r.cur # Upper(r)
    BY <1>0, AdvancedIs DEF Valid
  <1>1. CASE r.cur = Upper(r)
    <2>1. /\ q \in Job /\ q.frozen = r.frozen /\ q.packets = r.packets /\ q.pending = r.pending
          /\ q.state = r.state /\ q.attempt = r.attempt /\ q.token = r.token
          /\ q.owner = r.owner /\ q.cancel = r.cancel /\ q.phase = r.phase
          /\ q.payload = r.payload /\ q.pubs = r.pubs /\ q.result = r.result
          /\ q.from = r.from /\ q.error = r.error
          /\ q.index = r.index + 1 /\ q.cur = 0
      BY <1>1, AdvancedIs DEF Valid
    <2>2. /\ r.index \in Nat /\ Len(r.frozen) \in Nat
          /\ q.index < Len(q.frozen) => Upper(q) \in 1..MaxLine
      BY <2>1, FrozenType
    <2> HIDE DEF q
    <2>3. Lifecycle(q)
      BY <2>1 DEF Valid, Lifecycle, Going, ActiveStates
    <2>4. Progress(q)
      <3>1. q.index <= Len(q.frozen)
        BY <2>1, <2>2
      <3>2. q.index < Len(q.frozen) => q.cur <= Upper(q)
        BY <2>1, <2>2
      <3>3. q.frozen \in FrozenLists /\ (q.frozen = <<>> => q.payload = "" /\ q.pubs = 0)
        BY <2>1 DEF Valid, Progress
      <3>. QED  BY <2>1, <3>1, <3>2, <3>3 DEF Progress
    <2>5. Payload(q)
      BY <2>1 DEF Valid, Payload, Private, Clean
    <2>. QED  BY <2>3, <2>4, <2>5 DEF Valid, q
  <1>. QED  BY <1>0, <1>1

LEMMA AdvancedLedger ==
    ASSUME NEW j, NEW r \in Job, Progress(r), ~r.pending, r.index < Len(r.frozen),
           NEW L \in [1..Sessions -> Seq(Line)], NEW V \in [1..Sessions -> Nat],
           Ledgered(j, r, L, V)
    PROVE  Ledgered(j, Advanced(r), L, V)
  <1> DEFINE q == Advanced(r)
  <1>0. CASE r.cur # Upper(r)
    BY <1>0, AdvancedIs
  <1>1. CASE r.cur = Upper(r)
    <2>1. /\ q \in Job /\ q.frozen = r.frozen /\ q.packets = r.packets /\ q.pending = r.pending
          /\ q.index = r.index + 1 /\ q.cur = 0
      BY <1>1, AdvancedIs
    <2>2. /\ r.index \in Nat /\ Len(r.frozen) \in Nat
          /\ q.index < Len(q.frozen) => Session(q) \in 1..Sessions
      BY <2>1, FrozenType
    <2> HIDE DEF q
    <2>3. q.index < Len(q.frozen) => Session(q) = r.frozen[r.index + 2].session
      BY <2>1, <2>2 DEF Session
    <2>4. Covered(q, L, V)
      <3>1. ASSUME NEW i \in 1..q.index
            PROVE  /\ Len(L[q.frozen[i].session]) >= q.frozen[i].upper
                   /\ V[q.frozen[i].session] >= q.frozen[i].upper
        <4>1. CASE i \in 1..r.index
          BY <2>1, <4>1 DEF Ledgered, Covered
        <4>2. CASE i = r.index + 1
          <5>1. q.frozen[i].session = Session(r) /\ q.frozen[i].upper = Upper(r)
            BY <2>1, <4>2 DEF Session, Upper
          <5>2. Session(r) \in 1..Sessions /\ Upper(r) \in 1..MaxLine
            BY FrozenType
          <5>3. Len(L[Session(r)]) \in Nat /\ V[Session(r)] \in Nat /\ Upper(r) \in Nat
            BY <5>2, ReviewJobAssumption
          <5>4. r.cur <= Len(L[Session(r)]) /\ r.cur <= V[Session(r)]
            BY DEF Ledgered, Covered
          <5>. QED  BY <1>1, <5>1, <5>3, <5>4
        <4>. QED  BY <2>1, <2>2, <4>1, <4>2
      <3>2. ASSUME q.index < Len(q.frozen)
            PROVE  q.cur <= Len(L[Session(q)]) /\ q.cur <= V[Session(q)]
        BY <2>1, <2>2, <3>2
      <3>. QED  BY <3>1, <3>2 DEF Covered
    <2>5. Placed(j, q, L)
      <3> SUFFICES ASSUME NEW s \in 1..Sessions, NEW l \in 1..Len(L[s]), L[s][l].job = j
                   PROVE  \E i \in 1..q.index : q.frozen[i].session = s
        BY DEF Placed
      <3>1. (\E i \in 1..r.index : r.frozen[i].session = s) \/ s = Session(r)
        BY DEF Ledgered, Placed
      <3>2. CASE \E i \in 1..r.index : r.frozen[i].session = s
        <4>1. PICK i \in 1..r.index : r.frozen[i].session = s
          BY <3>2
        <4>2. i \in 1..q.index
          BY <2>1, <2>2
        <4>. QED  BY <2>1, <4>1, <4>2
      <3>3. CASE s = Session(r)
        <4>1. r.index + 1 \in 1..q.index
          BY <2>1, <2>2
        <4>. QED  BY <2>1, <3>3, <4>1 DEF Session
      <3>. QED  BY <3>1, <3>2, <3>3
    <2>6. ~Uncounted(j, q, L)
      <3> SUFFICES ASSUME Uncounted(j, q, L) PROVE FALSE
        OBVIOUS
      <3> DEFINE s == Session(q)
      <3>1. s \in 1..Sessions /\ s = r.frozen[r.index + 2].session /\ r.index + 1 < Len(r.frozen)
        BY <2>1, <2>2, <2>3 DEF Uncounted
      <3>2. 0 < Len(L[s]) /\ L[s][1].job = j
        BY <2>1 DEF Uncounted
      <3>3. 1 \in 1..Len(L[s])
        BY <3>1, <3>2
      <3> HIDE DEF s
      <3>4. Placed(j, r, L)
        BY DEF Ledgered
      <3>. QED  BY <3>1, <3>2, <3>3, <3>4, NextUntouched
    <2>7. ~Uncounted(j, r, L)
      BY <1>1, NoneUncounted DEF Ledgered
    <2>8. Counted(j, q, L)
      BY <2>1, <2>6, <2>7 DEF Ledgered, Counted
    <2>. QED  BY <2>4, <2>5, <2>8 DEF Ledgered, q
  <1>. QED  BY <1>0, <1>1

\* Both writes that advance the job, after what they do to the payload.
LEMMA AdvancesInv ==
    ASSUME Inv, NEW w \in Workers, worker[w].pc \in Cleaning, NEW r \in Job,
           Valid(r), FilesOf(r, Files(w)), r.payload \in Clean, SameProgress(r, R(w)),
           r.state = R(w).state, r.owner = R(w).owner, r.attempt = R(w).attempt,
           r.index < Len(r.frozen),
           Write(w, Advanced(r), "loop"), UNCHANGED <<files, outer>>
    PROVE  Inv'
  <1> DEFINE q == Advanced(r)  j == worker[w].job
             x == [worker[w] EXCEPT !.pc = "loop"]
  <1>1. /\ worker[w].pc \notin Outside /\ worker[w] \in Worker /\ j \in Jobs
        /\ Ledgered(j, R(w), ledger, vault) /\ Files(w) \in SUBSET Payloads
        /\ ~R(w).pending /\ Going(R(w))
    BY AtClean
  <1>2. /\ x \in Worker /\ x.pc = "loop" /\ x.job = j /\ x.attempt = worker[w].attempt
        /\ x.behind = worker[w].behind /\ x.work = worker[w].work /\ x.rec = worker[w].rec
        /\ x.acc = worker[w].acc
    BY <1>1 DEF Worker, Stages, Owned
  <1>3. /\ worker' = [worker EXCEPT ![w] = x] /\ jobs' = [jobs EXCEPT ![j] = q]
        /\ files' = [files EXCEPT ![j] = Files(w)] /\ UNCHANGED <<receipt, ledger, vault>>
    <2>1. worker' = [worker EXCEPT ![w] = x]
      BY DEF Write, Go, Inv, Typed
    <2>2. jobs' = [jobs EXCEPT ![j] = q]
      BY DEF Write
    <2>3. files' = [files EXCEPT ![j] = Files(w)] /\ UNCHANGED <<receipt, ledger, vault>>
      BY DEF Files, Inv, Typed, outer
    <2>. QED  BY <2>1, <2>2, <2>3
  <1> HIDE DEF x
  <1>4. /\ ~r.pending /\ Going(r) /\ Progress(r) /\ r.frozen = R(w).frozen
        /\ r.pending = R(w).pending
    BY <1>1 DEF SameProgress, Going, Valid
  <1>5. /\ q \in Job /\ q.frozen = r.frozen /\ q.pending = r.pending /\ q.state = r.state
        /\ q.owner = r.owner /\ q.attempt = r.attempt /\ q.payload = r.payload /\ q.pubs = r.pubs
    BY <1>4, AdvancedIs
  <1>6. Valid(q)
    BY <1>4, AdvancedValid
  <1>7. Ledgered(j, q, ledger, vault)
    <2>1. Ledgered(j, r, ledger, vault)
      BY <1>1, SameLedger
    <2>2. ledger \in [1..Sessions -> Seq(Line)] /\ vault \in [1..Sessions -> Nat]
      BY DEF Inv, Typed, OuterTyped
    <2>. QED  BY <1>4, <2>1, <2>2, AdvancedLedger
  <1> HIDE DEF q
  <1>8. FilesOf(q, Files(w))
    BY <1>5 DEF FilesOf
  <1>9. Place(x, q, Files(w), ledger, vault)
    <2>1. /\ q.state = R(w).state /\ q.owner = R(w).owner /\ q.attempt = R(w).attempt
          /\ q.frozen = R(w).frozen /\ q.pending = R(w).pending /\ q.payload \in Clean
      BY <1>4, <1>5
    <2>. QED  BY <1>2, <2>1, CleanPlace
  <1>10. x.pc \notin {"launch", "spawned"}
    BY <1>2
  <1>. QED  BY <1>1, <1>2, <1>3, <1>5, <1>6, <1>7, <1>8, <1>9, <1>10, Local

LEMMA AdvanceInv ==
    ASSUME Inv, NEW w \in Workers, Advance(w)
    PROVE  Inv'
  <1>1. worker[w].pc = "advance" /\ worker[w].pc \in Cleaning
    BY DEF Advance, At, Cleaning
  <1>2. /\ R(w) \in Job /\ Valid(R(w)) /\ FilesOf(R(w), Files(w)) /\ R(w).payload \in Clean
        /\ R(w).index < Len(R(w).frozen) /\ SameProgress(R(w), R(w))
    BY <1>1, AtClean DEF SameProgress
  <1>3. Write(w, Advanced(R(w)), "loop") /\ UNCHANGED <<files, outer>>
    BY DEF Advance
  <1>. QED  BY <1>1, <1>2, <1>3, AdvancesInv

LEMMA SettleInv ==
    ASSUME Inv, NEW w \in Workers, Settle(w)
    PROVE  Inv'
  <1> DEFINE q == [R(w) EXCEPT !.payload = "cleanup_complete"]  j == worker[w].job
  <1>0. worker[w].pc = "settle" /\ worker[w].pc \in Cleaning
        /\ UNCHANGED <<files, receipt, ledger, vault>>
    BY DEF Settle, At, Cleaning, outer
  <1>1. /\ worker[w].pc \notin Outside /\ worker[w] \in Worker /\ j \in Jobs /\ R(w) \in Job
        /\ Valid(R(w)) /\ Ledgered(j, R(w), ledger, vault)
        /\ ~R(w).pending /\ R(w).frozen # <<>> /\ ~R(w).token /\ Going(R(w))
        /\ Files(w) = {} /\ Files(w) \in SUBSET Payloads
        /\ (worker[w].rec => worker[w].acc) => R(w).index < Len(R(w).frozen)
    BY <1>0, AtClean DEF Sees
  <1>2. /\ q \in Job /\ Valid(q) /\ SameProgress(q, R(w)) /\ q.payload = "cleanup_complete"
        /\ q.state = R(w).state /\ q.owner = R(w).owner /\ q.attempt = R(w).attempt
    BY <1>1, CleanedUp
  <1>3. FilesOf(q, Files(w)) /\ q.payload \in Clean
    BY <1>1, <1>2 DEF FilesOf, Clean
  <1>4. CASE ~worker[w].rec
    <2>1. Write(w, Advanced(q), "loop") /\ UNCHANGED <<files, outer>>
      BY <1>4 DEF Settle
    <2> HIDE DEF q
    <2>2. q.index < Len(q.frozen)
      BY <1>1, <1>2, <1>4 DEF SameProgress
    <2>. QED  BY <1>0, <1>2, <1>3, <2>1, <2>2, AdvancesInv
  <1>5. CASE worker[w].rec
    <2> DEFINE pc == AfterRecovery(w)
               x == [worker[w] EXCEPT !.pc = pc]
    <2>1. Write(w, q, pc)
      BY <1>5 DEF Settle
    <2> HIDE DEF q
    <2>2. pc \in {"advance", "loop"} /\ pc \in Stages /\ (pc = "advance" => worker[w].acc)
      BY DEF AfterRecovery, Stages, Owned
    <2>3. worker' = [worker EXCEPT ![w] = x] /\ jobs' = [jobs EXCEPT ![j] = q]
      BY <2>1 DEF Write, Go, Inv, Typed
    <2> HIDE DEF pc
    <2>4. /\ x \in Worker /\ x.pc = pc /\ x.job = j /\ x.attempt = worker[w].attempt
          /\ x.behind = worker[w].behind /\ x.work = worker[w].work /\ x.rec = worker[w].rec
          /\ x.acc = worker[w].acc
      BY <1>1, <2>2 DEF Worker
    <2> HIDE DEF x
    <2>5. files' = [files EXCEPT ![j] = Files(w)]
      BY <1>0 DEF Files, Inv, Typed
    <2>6. x.pc \in {"advance", "loop"} /\ (x.pc = "advance" => x.acc)
          /\ x.pc \notin {"launch", "spawned"}
      BY <2>2, <2>4
    <2>7. q.frozen = R(w).frozen /\ q.pending = R(w).pending /\ q.index = R(w).index
      BY <1>2 DEF SameProgress
    <2>8. Place(x, q, Files(w), ledger, vault)
      BY <1>0, <1>2, <1>3, <2>4, <2>6, <2>7, CleanPlace
    <2>9. Ledgered(j, q, ledger, vault)
      BY <1>1, <1>2, SameLedger
    <2>. QED  BY <1>0, <1>1, <1>2, <1>3, <2>3, <2>4, <2>5, <2>6, <2>8, <2>9, Local
  <1>. QED  BY <1>4, <1>5

LEMMA CompleteInv ==
    ASSUME Inv, NEW w \in Workers, Complete(w)
    PROVE  Inv'
  <1> DEFINE r == R(w)  j == worker[w].job
             q == [r EXCEPT !.state = "completed", !.phase = "", !.owner = FALSE]
  <1>0. /\ worker[w].pc = "complete" /\ worker[w].pc \in Owned /\ ~Requested(w)
        /\ UNCHANGED <<files, receipt, ledger, vault>>
        /\ r.index = Len(r.frozen) /\ Exit(w, "") /\ jobs' = [jobs EXCEPT ![j] = q]
    BY DEF Complete, At, Owned, outer, R
  <1>1. /\ worker[w].pc \notin Outside /\ r \in Job /\ Valid(r) /\ FilesOf(r, Files(w))
        /\ Packing(worker[w], r)
    BY <1>0, Owning, Inside DEF Place
  <1>2. /\ r.payload \in Clean /\ ~r.pending /\ r.state = "running" /\ ~r.token /\ Going(r)
        /\ r.error = ""
    BY <1>0, <1>1, Owning DEF Packing, Requested
  <1>3. /\ q \in Job /\ SameProgress(q, r) /\ q.state = "completed" /\ q.attempt = r.attempt
        /\ q.frozen = r.frozen /\ q.index = r.index /\ q.pending = r.pending /\ q.cur = r.cur
        /\ q.packets = r.packets
        /\ q.token = r.token /\ q.owner = FALSE /\ q.cancel = r.cancel /\ q.phase = ""
        /\ q.payload = r.payload /\ q.pubs = r.pubs /\ q.result = r.result /\ q.from = r.from
        /\ q.error = r.error
    BY <1>1 DEF Job, States, Phases, SameProgress
  <1> HIDE DEF q
  <1>4. Lifecycle(q)
    BY <1>0, <1>1, <1>2, <1>3 DEF Valid, Lifecycle, Going, ActiveStates, Clean
  <1>5. Progress(q)
    BY <1>1, <1>3 DEF Valid, Progress, Upper
  <1>6. Payload(q)
    BY <1>1, <1>2, <1>3 DEF Valid, Payload, Private, Clean
  <1>7. Valid(q) /\ FilesOf(q, Files(w))
    BY <1>1, <1>3, <1>4, <1>5, <1>6 DEF Valid, FilesOf
  <1>8. "" \in Errors
    BY DEF Errors
  <1>. QED  BY <1>0, <1>1, <1>3, <1>7, <1>8, WriteExits

------------------------------------------------------------------------------
(* The commands and the report of the launcher. *)

\* A command writes the record of one job; processes of others do not notice.
LEMMA Commands ==
    ASSUME Inv, NEW j \in Jobs, NEW q \in Job, jobs' = [jobs EXCEPT ![j] = q],
           UNCHANGED <<files, receipt, ledger, vault>>,
           worker' \in [Workers -> Worker],
           \A v \in Workers : worker'[v].pc \notin Outside => worker[v].pc \notin Outside,
           \A v \in Workers : worker'[v].pc # "idle" =>
               worker'[v].job = j \/ worker'[v] = worker[v],
           \A v \in Workers : worker'[v].pc \in {"launch", "spawned"} => ~worker'[v].work,
           \A v \in Workers : worker'[v].pc \notin Outside /\ worker'[v].job = j =>
               Place(worker'[v], q, files[j], ledger, vault),
           Valid(q), FilesOf(q, files[j]), Ledgered(j, q, ledger, vault)
    PROVE  Inv'
  <1>1. /\ jobs'[j] = q /\ \A k \in Jobs \ {j} : jobs'[k] = jobs[k]
        /\ q # NoJob
    BY ReviewJobAssumption DEF Inv, Typed
  <1>2. Typed'
    BY DEF Inv, Typed, OuterTyped
  <1>3. OneInside'
    BY DEF Inv, OneInside
  <1>4. ASSUME NEW k \in Jobs PROVE Kept(k, jobs[k], files[k], ledger, vault)'
    <2>1. CASE k = j
      <3>1. Kept(j, q, files[j], ledger, vault)
        BY <1>1 DEF Kept
      <3>. QED  BY <1>1, <2>1, <3>1
    <2>2. CASE k # j
      BY <1>1, <2>2 DEF Inv
    <2>. QED  BY <2>1, <2>2
  <1>5. ASSUME NEW v \in Workers PROVE Placing(v)'
    <2>1. CASE worker'[v].pc = "idle"
      BY <2>1 DEF Placing, Outside
    <2>2. CASE worker'[v].pc # "idle" /\ worker'[v].job = j
      <3>1. R(v)' = q /\ files'[worker'[v].job] = files[j]
        BY <1>1, <2>2 DEF R
      <3>2. worker'[v].pc \notin Outside => Place(worker'[v], q, files[j], ledger, vault)
        BY <2>2
      <3>. QED  BY <1>1, <2>2, <3>1, <3>2 DEF Placing
    <2>3. CASE worker'[v].pc # "idle" /\ worker'[v].job # j
      <3>1. worker'[v] = worker[v]
        BY <2>3
      <3>2. worker[v].job \in Jobs /\ R(v) # NoJob
        BY <2>3, <3>1 DEF Inv, Placing
      <3>3. R(v)' = R(v)
        BY <1>1, <2>3, <3>1, <3>2 DEF R
      <3>4. worker[v].pc \notin Outside => Place(worker[v], R(v), files[worker[v].job], ledger, vault)
        BY <2>3, <3>1 DEF Inv, Placing
      <3>. QED  BY <3>1, <3>2, <3>3, <3>4 DEF Placing
    <2>. QED  BY <2>1, <2>2, <2>3
  <1>. QED  BY <1>2, <1>3, <1>4, <1>5 DEF Inv

LEMMA OvertakenIs ==
    ASSUME Inv, NEW j \in Jobs
    PROVE  /\ Overtaken(j) \in [Workers -> Worker]
           /\ \A v \in Workers : LET x == Overtaken(j)[v]  y == worker[v] IN
                /\ x.pc = y.pc /\ x.job = y.job /\ x.attempt = y.attempt /\ x.work = y.work
                /\ x.rec = y.rec /\ x.acc = y.acc /\ x.code = y.code
                /\ y.job # j \/ y.pc \in Outside => x = y
                /\ y.job = j /\ y.pc \notin Outside => x.behind
  <1>1. ASSUME NEW v \in Workers
        PROVE  LET x == Overtaken(j)[v]  y == worker[v] IN
                /\ x \in Worker
                /\ x.pc = y.pc /\ x.job = y.job /\ x.attempt = y.attempt /\ x.work = y.work
                /\ x.rec = y.rec /\ x.acc = y.acc /\ x.code = y.code
                /\ y.job # j \/ y.pc \in Outside => x = y
                /\ y.job = j /\ y.pc \notin Outside => x.behind
    <2> DEFINE x == Overtaken(j)[v]  y == worker[v]
               b == y.behind \/ (y.job = j /\ y.pc \notin Outside)
    <2>1. y \in Worker /\ b \in BOOLEAN
      BY DEF Inv, Typed
    <2>2. x = [y EXCEPT !.behind = b]
      BY DEF Overtaken
    <2> HIDE DEF x
    <2>3. /\ x \in Worker
          /\ x.pc = y.pc /\ x.job = y.job /\ x.attempt = y.attempt /\ x.work = y.work
          /\ x.rec = y.rec /\ x.acc = y.acc /\ x.code = y.code
      <3> HIDE DEF b
      <3>. QED  BY <2>1, <2>2 DEF Worker
    <2>4. ASSUME y.job # j \/ y.pc \in Outside PROVE x = y
      <3>1. y.behind \in BOOLEAN
        BY <2>1 DEF Worker
      <3>2. b = y.behind
        BY <2>4, <3>1
      <3>. QED  BY <2>1, <2>2, <3>2 DEF Worker
    <2>5. ASSUME y.job = j, y.pc \notin Outside PROVE x.behind
      <3>1. b = TRUE
        BY <2>5
      <3> HIDE DEF b
      <3>. QED  BY <2>1, <2>2, <3>1 DEF Worker
    <2>. QED  BY <2>3, <2>4, <2>5 DEF x
  <1>2. Overtaken(j) = [v \in Workers |-> Overtaken(j)[v]]
    BY DEF Overtaken
  <1>. QED  BY <1>1, <1>2, Zenon

\* A process without the job that was overtaken has nothing to lose.
LEMMA BehindPlace ==
    ASSUME NEW x, x.pc \in {"start", "failRemove", "failSettle"}, x.behind,
           x.pc = "start" => ~x.work, NEW q, NEW f, NEW L, NEW V
    PROVE  Place(x, q, f, L, V)
  <1>1. Owner(x, q)
    BY DEF Owner, Owned
  <1>2. Starting(x, q) /\ Packing(x, q) /\ Ending(x, q)
    BY DEF Starting, Packing, Ending, Begun, Applying, Syncing, Cleaning
  <1>3. Opened(x, q) /\ Sees(x, q, f, L, V)
    BY DEF Opened, Sees, Begun, Applying, Syncing, Cleaning
  <1>. QED  BY <1>1, <1>2, <1>3 DEF Place

\* A record without an owner may be overtaken by any other.
LEMMA Unowned ==
    ASSUME Inv, NEW j \in Jobs, jobs[j] # NoJob, ~jobs[j].owner, NEW q,
           NEW v \in Workers, Overtaken(j)[v].pc \notin Outside, Overtaken(j)[v].job = j
    PROVE  Place(Overtaken(j)[v], q, files[j], ledger, vault)
  <1> DEFINE x == Overtaken(j)[v]
  <1>1. /\ x.pc = worker[v].pc /\ x.job = worker[v].job /\ x.work = worker[v].work
        /\ x.behind /\ worker[v].pc \notin Outside /\ worker[v].job = j
    BY OvertakenIs
  <1>2. worker[v] \in Worker /\ Place(worker[v], R(v), Files(v), ledger, vault)
    BY <1>1, Inside
  <1>3. R(v) = jobs[j]
    BY <1>1 DEF R
  <1>4. worker[v].pc \notin Owned \cup {"handshake"}
    BY <1>2, <1>3 DEF Place, Owner
  <1>5. worker[v].pc \in {"start", "failRemove", "failSettle"}
    BY <1>1, <1>2, <1>4 DEF Worker, Stages
  <1>6. worker[v].pc = "start" => ~worker[v].work
    BY <1>2 DEF Place, Starting
  <1> HIDE DEF x
  <1>7. x.pc \in {"start", "failRemove", "failSettle"} /\ (x.pc = "start" => ~x.work)
    BY <1>1, <1>5, <1>6
  <1>8. Place(x, q, files[j], ledger, vault)
    BY <1>1, <1>7, BehindPlace
  <1>. QED  BY <1>8 DEF x

\* What the commands and the launcher write into a record without an owner.
LEMMA UnownedInv ==
    ASSUME Inv, NEW j \in Jobs, jobs[j] # NoJob, ~jobs[j].owner, NEW q \in Job,
           jobs' = [jobs EXCEPT ![j] = q], UNCHANGED <<files, receipt, ledger, vault>>,
           Valid(q), FilesOf(q, files[j]), SameProgress(q, jobs[j]),
           NEW w \in Workers, NEW x \in Worker, x.pc \in {"idle", "launch"},
           x.pc = "launch" => x.job = j /\ ~x.work,
           worker' = [Overtaken(j) EXCEPT ![w] = x] \/ worker' = Overtaken(j)
    PROVE  Inv'
  <1> DEFINE O == Overtaken(j)
  <1>1. O \in [Workers -> Worker]
    BY OvertakenIs
  <1>2. \A v \in Workers : /\ O[v].pc = worker[v].pc /\ O[v].job = worker[v].job
                           /\ O[v].work = worker[v].work
                           /\ O[v].job # j => O[v] = worker[v]
    BY OvertakenIs
  <1>3. \A v \in Workers : O[v].pc \notin Outside /\ O[v].job = j =>
            Place(O[v], q, files[j], ledger, vault)
    BY Unowned
  <1>4. \A v \in Workers : O[v].pc \in {"launch", "spawned"} => ~O[v].work
    BY <1>2 DEF Inv, Placing
  <1> HIDE DEF O
  <1>5. x.pc \in Outside /\ x.pc \notin {"spawned"}
    BY DEF Outside
  <1>6. /\ worker' \in [Workers -> Worker]
        /\ \A v \in Workers : worker'[v] = O[v] \/ worker'[v] = x
    BY <1>1 DEF O
  <1>7. \A v \in Workers : worker'[v].pc \notin Outside => worker[v].pc \notin Outside
    BY <1>2, <1>5, <1>6
  <1>8. \A v \in Workers : worker'[v].pc # "idle" => worker'[v].job = j \/ worker'[v] = worker[v]
    BY <1>2, <1>6
  <1>9. \A v \in Workers : worker'[v].pc \in {"launch", "spawned"} => ~worker'[v].work
    BY <1>4, <1>5, <1>6
  <1>10. \A v \in Workers : worker'[v].pc \notin Outside /\ worker'[v].job = j =>
            Place(worker'[v], q, files[j], ledger, vault)
    BY <1>3, <1>5, <1>6
  <1>11. Ledgered(j, q, ledger, vault)
    BY SameLedger DEF Inv, Kept
  <1>. QED  BY <1>6, <1>7, <1>8, <1>9, <1>10, <1>11, Commands

LEMMA LaunchingIs ==
    ASSUME NEW j \in Jobs, NEW a \in 0..MaxAttempts
    PROVE  LET x == Launching(j, a) IN
           x \in Worker /\ x.pc = "launch" /\ x.job = j /\ ~x.work
  BY ReviewJobAssumption DEF Launching, Idle, Worker, Stages, Outside, Errors

LEMMA TerminalizeInv ==
    ASSUME Inv, NEW w \in Workers, Terminalize(w)
    PROVE  Inv'
  <1> DEFINE j == worker[w].job  r == R(w)  code == worker[w].code
             q == [r EXCEPT !.state = "failed", !.phase = "", !.token = FALSE, !.error = code]
  <1>0. worker[w].pc = "dead" /\ UNCHANGED <<files, receipt, ledger, vault>>
    BY DEF Terminalize, outer
  <1>1. /\ j \in Jobs /\ r # NoJob /\ r \in Job /\ code \in Errors /\ r = jobs[j]
        /\ Valid(r) /\ FilesOf(r, files[j])
    BY <1>0 DEF Inv, Typed, Placing, R, Worker, Kept
  <1>2. CASE worker' = [worker EXCEPT ![w] = Idle] /\ UNCHANGED jobs
    BY <1>0, <1>2, IdleType, Leaves DEF Outside
  <1>3. CASE /\ ~r.owner /\ r.token /\ (r.payload = "apply_recovery" => code = "apply_recovery")
             /\ jobs' = [jobs EXCEPT ![j] = q]
             /\ worker' = [Overtaken(j) EXCEPT ![w] = Idle]
    <2>1. /\ q \in Job /\ SameProgress(q, r) /\ q.frozen = r.frozen /\ q.index = r.index
          /\ q.cur = r.cur /\ q.packets = r.packets /\ q.pending = r.pending
          /\ q.state = "failed" /\ q.attempt = r.attempt
          /\ ~q.token /\ q.owner = r.owner /\ q.cancel = r.cancel /\ q.phase = ""
          /\ q.payload = r.payload /\ q.pubs = r.pubs /\ q.result = r.result /\ q.from = r.from
          /\ q.error = code
      <3> HIDE DEF code
      <3>. QED  BY <1>1 DEF Job, States, Phases, SameProgress
    <2> HIDE DEF q, code
    <2>2. r.phase = "preflight"
      BY <1>1, <1>3 DEF Valid, Lifecycle
    <2>3. Lifecycle(q)
      BY ZenonT(60), <1>1, <1>3, <2>1 DEF Valid, Lifecycle, Going, ActiveStates
    <2>4. Progress(q)
      BY ZenonT(60), <1>1, <2>1 DEF Valid, Progress, Upper
    <2>5. Payload(q)
      BY <1>1, <1>3, <2>1, <2>2 DEF Valid, Payload, Private, Upper
    <2>6. Valid(q) /\ FilesOf(q, files[j])
      BY <1>1, <2>1, <2>3, <2>4, <2>5 DEF Valid, FilesOf
    <2> HIDE DEF r, j
    <2>. QED  BY <1>0, <1>1, <1>3, <2>1, <2>6, IdleType, UnownedInv
  <1>4. \/ worker' = [worker EXCEPT ![w] = Idle] /\ UNCHANGED jobs
        \/ /\ ~r.owner /\ r.token /\ (r.payload = "apply_recovery" => code = "apply_recovery")
           /\ jobs' = [jobs EXCEPT ![j] = q]
           /\ worker' = [Overtaken(j) EXCEPT ![w] = Idle]
    BY DEF Terminalize, R
  <1>. QED  BY <1>2, <1>3, <1>4

LEMMA CreateJobInv ==
    ASSUME Inv, NEW j \in Jobs, NEW w \in Workers, CreateJob(j, w)
    PROVE  Inv'
  <1>0. jobs[j] = NoJob /\ worker[w].pc = "idle" /\ UNCHANGED <<files, receipt, ledger, vault>>
    BY DEF CreateJob, outer
  <1>1. PICK fr \in FrozenLists : jobs' = [jobs EXCEPT ![j] = NewJob(fr)]
    BY DEF CreateJob
  <1> DEFINE q == NewJob(fr)  x == Launching(j, 1)
  <1>2. x \in Worker /\ x.pc = "launch" /\ x.job = j /\ ~x.work
    BY LaunchingIs, ReviewJobAssumption
  <1>3. worker' = [worker EXCEPT ![w] = x]
    BY DEF CreateJob
  <1> HIDE DEF x
  <1>4. /\ q.state = "queued" /\ q.phase = "preflight" /\ q.attempt = 1 /\ q.token
        /\ ~q.owner /\ ~q.cancel /\ ~q.pending /\ q.payload = "" /\ q.error = ""
    BY DEF NewJob
  <1>21. q.frozen = fr /\ q.index = 0 /\ q.cur = 0 /\ q.packets = 0 /\ q.pubs = 0
    BY DEF NewJob
  <1>5. q \in Job
    <2>1. fr \in UNION {[1..n -> Frozen] : n \in 0..Sessions}
      BY DEF FrozenLists
    <2>2. /\ 0 \in 0..Sessions /\ 0 \in 0..MaxLine /\ 0 \in 0..MaxAttempts
          /\ 1 \in 1..MaxAttempts /\ 0 \in 0..2 /\ 0 \in 0..(Sessions * MaxLine)
      BY LinesFinite, ReviewJobAssumption
    <2>3. "queued" \in States /\ "preflight" \in Phases /\ "" \in PayloadStates /\ "" \in Errors
      BY DEF States, ActiveStates, Phases, PayloadStates, Errors
    <2>. QED  BY <2>1, <2>2, <2>3 DEF NewJob, Job
  <1> HIDE DEF q
  <1>6. /\ Len(q.frozen) \in Nat /\ q.frozen \in FrozenLists
        /\ q.index < Len(q.frozen) => Upper(q) \in 1..MaxLine /\ Session(q) \in 1..Sessions
    BY <1>5, <1>21, FrozenType
  <1>7. Lifecycle(q)
    BY <1>4 DEF Lifecycle, Going, ActiveStates, Clean
  <1>8. Progress(q)
    <2>1. q.index < Len(q.frozen) => q.cur <= Upper(q)
      BY <1>6, <1>21, ReviewJobAssumption
    <2>2. q.index <= Len(q.frozen)
      BY <1>6, <1>21
    <2>. QED  BY <1>4, <1>6, <1>21, <2>1, <2>2 DEF Progress
  <1>9. Payload(q)
    <2>1. q.payload \notin Private /\ q.payload \notin {"publishing", "retained", "apply_recovery"}
      BY <1>4 DEF Private
    <2>2. q.pubs # 2
      BY <1>21
    <2>. QED  BY <2>1, <2>2 DEF Payload
  <1>10. Valid(q)
    BY <1>7, <1>8, <1>9 DEF Valid
  <1>11. files[j] = {} /\ Lines(j, ledger) = 0
    BY <1>0 DEF Inv, Kept
  <1>12. FilesOf(q, files[j])
    BY <1>11 DEF FilesOf
  <1>13. Ledgered(j, q, ledger, vault)
    <2>1. \A s \in 1..Sessions : \A l \in 1..Len(ledger[s]) : ledger[s][l].job # j
      BY <1>11, NoLines DEF Inv
    <2>2. Placed(j, q, ledger)
      BY <2>1 DEF Placed
    <2>3. \A s \in 1..Sessions : Len(ledger[s]) \in Nat /\ vault[s] \in Nat
      BY DEF Inv, Typed, OuterTyped
    <2>4. Covered(q, ledger, vault)
      <3>1. \A i \in 1..q.index : FALSE
        BY <1>21
      <3>. QED  BY <1>6, <1>21, <2>3, <3>1 DEF Covered
    <2>5. ~Uncounted(j, q, ledger)
      <3> SUFFICES ASSUME Uncounted(j, q, ledger) PROVE FALSE
        OBVIOUS
      <3>1. Session(q) \in 1..Sessions /\ 0 < Len(ledger[Session(q)])
            /\ ledger[Session(q)][0 + 1].job = j
        BY <1>6, <1>21 DEF Uncounted
      <3>2. 0 + 1 \in 1..Len(ledger[Session(q)])
        BY <2>3, <3>1
      <3>. QED  BY <2>1, <3>1, <3>2
    <2>6. Counted(j, q, ledger)
      BY <1>11, <1>21, <2>5 DEF Counted
    <2>. QED  BY <2>2, <2>4, <2>6 DEF Ledgered
  <1>14. worker' \in [Workers -> Worker]
    BY <1>2, <1>3 DEF Inv, Typed
  <1>15. \A v \in Workers : worker'[v] = x \/ worker'[v] = worker[v]
    BY <1>3 DEF Inv, Typed
  <1>16. \A v \in Workers : worker'[v].pc \notin Outside => worker[v].pc \notin Outside
    BY <1>2, <1>15 DEF Outside
  <1>17. \A v \in Workers : worker'[v].pc # "idle" =>
             worker'[v].job = j \/ worker'[v] = worker[v]
    BY <1>2, <1>15
  <1>18. \A v \in Workers : worker'[v].pc \in {"launch", "spawned"} => ~worker'[v].work
    BY <1>2, <1>15 DEF Inv, Placing
  <1>19. \A v \in Workers : worker'[v].pc \notin Outside => worker'[v].job # j
    <2>1. ASSUME NEW v \in Workers, worker[v].pc \notin Outside PROVE worker[v].job # j
      BY <1>0, <2>1 DEF Inv, Placing, R, Outside
    <2>. QED  BY <1>2, <1>15, <2>1 DEF Outside
  <1>20. jobs' = [jobs EXCEPT ![j] = q]
    BY <1>1 DEF q
  <1>. QED  BY <1>0, <1>5, <1>10, <1>12, <1>13, <1>14, <1>16, <1>17, <1>18, <1>19, <1>20, Commands

LEMMA RetryInv ==
    ASSUME Inv, NEW j \in Jobs, NEW w \in Workers, Retry(j, w)
    PROVE  Inv'
  <1> DEFINE r == jobs[j]  n == r.attempt + 1  x == Launching(j, n)
             st == IF r.cancel THEN "cancel_requested" ELSE "retrying"
             q == [r EXCEPT !.state = st, !.phase = "preflight", !.attempt = n,
                            !.token = TRUE, !.owner = FALSE, !.error = ""]
  <1>0. /\ r # NoJob /\ r.state = "failed" /\ r.attempt < MaxAttempts
        /\ UNCHANGED <<files, receipt, ledger, vault>>
    BY DEF Retry, outer
  <1>1. r \in Job /\ Valid(r) /\ FilesOf(r, files[j])
    BY <1>0 DEF Inv, Typed, Kept
  <1>2. n \in 1..MaxAttempts /\ n \in 0..MaxAttempts /\ n # 1
    <2>1. r.attempt \in 1..MaxAttempts
      BY <1>1, FrozenType
    <2>. QED  BY <1>0, <2>1, ReviewJobAssumption
  <1>3. jobs' = [jobs EXCEPT ![j] = q]
    <2>1. Retried(r) = q
      BY DEF Retried
    <2>2. jobs' = [jobs EXCEPT ![j] = Retried(jobs[j])]
      BY DEF Retry
    <2>. QED  BY <2>1, <2>2
  <1>4. worker' = [Overtaken(j) EXCEPT ![w] = x]
    BY DEF Retry
  <1> HIDE DEF n
  <1>5. x \in Worker /\ x.pc = "launch" /\ x.job = j /\ ~x.work
    BY <1>2, LaunchingIs
  <1> HIDE DEF x
  <1>6. ~r.owner
    BY <1>0, <1>1 DEF Valid, Lifecycle, Going, ActiveStates
  <1>7. /\ st \in {"retrying", "cancel_requested"}
        /\ r.cancel => st = "cancel_requested"
    OBVIOUS
  <1> HIDE DEF st
  <1>8. /\ q \in Job /\ SameProgress(q, r) /\ q.frozen = r.frozen /\ q.index = r.index
        /\ q.cur = r.cur /\ q.packets = r.packets /\ q.pending = r.pending
        /\ q.state = st /\ q.attempt = n /\ q.token /\ ~q.owner /\ q.cancel = r.cancel
        /\ q.phase = "preflight" /\ q.payload = r.payload /\ q.pubs = r.pubs
        /\ q.result = r.result /\ q.from = r.from /\ q.error = ""
    <2>1. st \in States
      BY <1>7 DEF States, ActiveStates
    <2>. QED  BY <1>1, <1>2, <2>1 DEF Job, Phases, Errors, SameProgress
  <1> HIDE DEF q
  <1>9. Lifecycle(q)
    BY <1>0, <1>1, <1>2, <1>7, <1>8 DEF Valid, Lifecycle, Going, ActiveStates
  <1>10. Progress(q)
    BY <1>1, <1>8 DEF Valid, Progress, Upper
  <1>11. r.payload \notin {"publishing", "retained"} /\ r.phase = ""
    BY <1>0, <1>1 DEF Valid, Lifecycle, Payload, Going, ActiveStates
  <1>12. Payload(q)
    BY <1>1, <1>7, <1>8, <1>11 DEF Valid, Payload, Private, Upper, Going, ActiveStates
  <1>13. Valid(q) /\ FilesOf(q, files[j])
    BY <1>1, <1>8, <1>9, <1>10, <1>12 DEF Valid, FilesOf
  <1>. QED  BY <1>0, <1>3, <1>4, <1>5, <1>6, <1>8, <1>13, UnownedInv

\* A cancellation makes the worker of the job stale and takes nothing from it.
LEMMA CancelPlace ==
    ASSUME NEW x, NEW y, NEW r, NEW q, NEW f, NEW L, NEW V,
           Place(y, r, f, L, V), x.pc = y.pc, x.job = y.job, x.attempt = y.attempt,
           x.work = y.work, x.rec = y.rec, x.acc = y.acc, x.code = y.code, x.behind,
           q.state = "cancel_requested", q.frozen = r.frozen, q.index = r.index,
           q.cur = r.cur, q.packets = r.packets, q.pending = r.pending,
           q.attempt = r.attempt, q.token = r.token, q.owner = r.owner, q.phase = r.phase,
           q.payload = r.payload, q.pubs = r.pubs, q.result = r.result, q.from = r.from
    PROVE  Place(x, q, f, L, V)
  <1>1. Owner(x, q)
    BY DEF Place, Owner
  <1>2. Starting(x, q)
    BY DEF Place, Starting
  <1>3. Packing(x, q)
    BY DEF Place, Packing
  <1>4. Ending(x, q)
    BY DEF Place, Ending
  <1>5. Opened(x, q)
    BY DEF Place, Opened
  <1>6. Sees(x, q, f, L, V)
    <2>1. Session(q) = Session(r) /\ (Uncounted(y.job, r, L) => Uncounted(x.job, q, L))
      BY DEF Session, Uncounted
    <2>. QED  BY <2>1 DEF Place, Sees
  <1>. QED  BY <1>1, <1>2, <1>3, <1>4, <1>5, <1>6 DEF Place

LEMMA CancelInv ==
    ASSUME Inv, NEW j \in Jobs, Cancel(j)
    PROVE  Inv'
  <1> DEFINE r == jobs[j]  O == Overtaken(j)
             untouched == r.state = "queued" /\ ~r.pending /\ r.payload = ""
  <1>0. /\ r # NoJob /\ r.state \in ActiveStates /\ worker' = O
        /\ UNCHANGED <<files, receipt, ledger, vault>>
        /\ jobs' = [jobs EXCEPT ![j] = Cancellation(r)]
    BY DEF Cancel, Active, outer
  <1>1. r \in Job /\ Valid(r) /\ FilesOf(r, files[j]) /\ Ledgered(j, r, ledger, vault)
    BY <1>0 DEF Inv, Typed, Kept
  <1>2. CASE untouched
    <2> DEFINE q == [r EXCEPT !.state = "cancelled", !.cancel = TRUE, !.phase = "",
                              !.owner = FALSE, !.token = FALSE, !.error = "other"]
    <2>1. Cancellation(r) = q
      BY <1>2 DEF Cancellation
    <2>2. /\ q \in Job /\ SameProgress(q, r) /\ q.frozen = r.frozen /\ q.index = r.index
          /\ q.cur = r.cur /\ q.packets = r.packets /\ q.pending = r.pending
          /\ q.state = "cancelled" /\ q.attempt = r.attempt /\ ~q.token /\ ~q.owner
          /\ q.cancel /\ q.phase = "" /\ q.payload = r.payload /\ q.pubs = r.pubs
          /\ q.result = r.result /\ q.from = r.from
      BY <1>1 DEF Job, States, Phases, Errors, SameProgress
    <2> HIDE DEF q
    <2>3. Lifecycle(q)
      BY <1>1, <1>2, <2>2 DEF Valid, Lifecycle, Going, ActiveStates, Clean
    <2>4. Progress(q)
      BY <1>1, <2>2 DEF Valid, Progress, Upper
    <2>5. Payload(q)
      BY <1>1, <1>2, <2>2 DEF Valid, Payload, Private, Upper
    <2>6. Valid(q) /\ FilesOf(q, files[j])
      BY <1>1, <2>2, <2>3, <2>4, <2>5 DEF Valid, FilesOf
    <2>7. ~r.owner
      BY <1>1, <1>2 DEF Valid, Lifecycle
    <2>8. CASE Workers = {}
      <3>1. worker' \in [Workers -> Worker]
        BY <1>0, OvertakenIs
      <3>2. Ledgered(j, q, ledger, vault)
        BY <1>1, <2>2, SameLedger
      <3>. QED  BY <1>0, <2>1, <2>2, <2>6, <2>8, <3>1, <3>2, Commands
    <2>9. CASE Workers # {}
      <3>1. PICK w : w \in Workers
        BY <2>9
      <3>. QED  BY <1>0, <2>1, <2>2, <2>6, <2>7, <3>1, IdleType, UnownedInv
    <2>. QED  BY <2>8, <2>9
  <1>3. CASE ~untouched
    <2> DEFINE q == [r EXCEPT !.state = "cancel_requested", !.cancel = TRUE]
    <2>1. Cancellation(r) = q
      BY <1>3 DEF Cancellation
    <2>2. /\ q \in Job /\ SameProgress(q, r) /\ q.frozen = r.frozen /\ q.index = r.index
          /\ q.cur = r.cur /\ q.packets = r.packets /\ q.pending = r.pending
          /\ q.state = "cancel_requested" /\ q.attempt = r.attempt /\ q.token = r.token
          /\ q.owner = r.owner
          /\ q.cancel /\ q.phase = r.phase /\ q.payload = r.payload /\ q.pubs = r.pubs
          /\ q.result = r.result /\ q.from = r.from /\ q.error = r.error
      BY <1>1 DEF Job, States, ActiveStates, SameProgress
    <2> HIDE DEF q
    <2>3. Lifecycle(q)
      BY <1>0, <1>1, <2>2 DEF Valid, Lifecycle, Going, ActiveStates, Clean
    <2>4. Progress(q)
      BY <1>1, <2>2 DEF Valid, Progress, Upper
    <2>5. Payload(q)
      BY <1>0, <1>1, <2>2 DEF Valid, Payload, Private, Upper, Going, ActiveStates
    <2>6. Valid(q) /\ FilesOf(q, files[j])
      BY <1>1, <2>2, <2>3, <2>4, <2>5 DEF Valid, FilesOf
    <2>7. Ledgered(j, q, ledger, vault)
      BY <1>1, <2>2, SameLedger
    <2>8. /\ O \in [Workers -> Worker]
          /\ \A v \in Workers : O[v].pc = worker[v].pc /\ O[v].work = worker[v].work
          /\ \A v \in Workers : O[v].job = j \/ O[v] = worker[v]
      BY OvertakenIs
    <2>9. \A v \in Workers : O[v].pc \in {"launch", "spawned"} => ~O[v].work
      BY <2>8 DEF Inv, Placing
    <2>10. ASSUME NEW v \in Workers, O[v].pc \notin Outside, O[v].job = j
           PROVE  Place(O[v], q, files[j], ledger, vault)
      <3> DEFINE x == O[v]  y == worker[v]
      <3>1. /\ x.pc = y.pc /\ x.job = y.job /\ x.attempt = y.attempt /\ x.work = y.work
            /\ x.rec = y.rec /\ x.acc = y.acc /\ x.code = y.code
            /\ y.job = j /\ y.pc \notin Outside /\ x.behind
        BY <2>10, OvertakenIs
      <3>2. Place(y, R(v), Files(v), ledger, vault)
        BY <3>1, Inside
      <3>3. R(v) = r /\ Files(v) = files[j]
        BY <3>1 DEF R, Files
      <3>4. Place(y, r, files[j], ledger, vault)
        BY <3>2, <3>3
      <3> HIDE DEF x, y, r, O
      <3>5. Place(x, q, files[j], ledger, vault)
        BY <2>2, <3>1, <3>4, CancelPlace
      <3>. QED  BY <3>5 DEF x
    <2> HIDE DEF O
    <2>. QED  BY <1>0, <2>1, <2>2, <2>6, <2>7, <2>8, <2>9, <2>10, Commands
  <1>. QED  BY <1>2, <1>3

\* A job that nobody works for is failed.
LEMMA RecoverInv ==
    ASSUME Inv, NEW j \in Jobs, Recover(j)
    PROVE  Inv'
  <1> DEFINE r == jobs[j]
             p == IF r.phase = "applying" /\ ExactRetained(r) THEN "apply_recovery"
                  ELSE IF r.payload \in {"publishing", "retained"} \/ r.pubs > 0
                    THEN "cleanup_pending" ELSE r.payload
             q == [r EXCEPT !.state = "failed", !.phase = "", !.owner = FALSE, !.token = FALSE,
                            !.error = "apply_recovery", !.payload = p]
  <1>0. /\ r # NoJob /\ r.state \in ActiveStates
        /\ UNCHANGED <<worker, files, receipt, ledger, vault>>
        /\ \A v \in Workers : worker[v].pc \in Outside
    BY DEF Recover, Active, LeaseFree, outer
  <1>1. r \in Job /\ Valid(r) /\ FilesOf(r, files[j]) /\ Ledgered(j, r, ledger, vault)
    BY <1>0 DEF Inv, Typed, Kept
  <1>2. jobs' = [jobs EXCEPT ![j] = q]
    <2>1. Interrupted(r) = q
      BY DEF Interrupted
    <2>2. jobs' = [jobs EXCEPT ![j] = Interrupted(jobs[j])]
      BY DEF Recover
    <2>. QED  BY <2>1, <2>2
  <1>3. /\ p \in PayloadStates
        /\ p = "apply_recovery" => r.phase = "applying" /\ r.payload = "retained" /\ r.pubs = 2
        /\ p \notin {"apply_recovery", "cleanup_pending"} => p = r.payload
        /\ p \notin {"publishing", "retained"}
        /\ r.frozen = <<>> => p = ""
    <2>1. r.payload \in PayloadStates /\ r.pubs \in 0..2
      BY <1>1 DEF Job
    <2>2. r.payload = "apply_recovery" => r.pubs = 2
      BY <1>1 DEF Valid, Payload
    <2>3. r.frozen = <<>> => r.payload = "" /\ r.pubs = 0
      BY <1>1 DEF Valid, Progress
    <2>4. CASE r.phase = "applying" /\ r.payload = "retained" /\ r.pubs = 2
      <3>1. p = "apply_recovery"
        BY <2>4 DEF ExactRetained
      <3>2. r.frozen # <<>>
        BY <2>3, <2>4
      <3> HIDE DEF p
      <3>. QED  BY <2>4, <3>1, <3>2 DEF PayloadStates
    <2>5. CASE ~(r.phase = "applying" /\ r.payload = "retained" /\ r.pubs = 2)
      <3>1. ~(r.phase = "applying" /\ ExactRetained(r))
        BY <2>5 DEF ExactRetained
      <3>2. CASE r.payload \in {"publishing", "retained"} \/ r.pubs > 0
        <4>1. p = "cleanup_pending"
          BY <3>1, <3>2
        <4>2. r.frozen # <<>>
          <5>1. CASE r.payload \in {"publishing", "retained"}
            BY <2>3, <5>1
          <5>2. CASE r.pubs > 0
            <6>1. r.pubs # 0
              BY <5>2
            <6>. QED  BY <2>3, <6>1
          <5>. QED  BY <3>2, <5>1, <5>2
        <4> HIDE DEF p
        <4>. QED  BY <4>1, <4>2 DEF PayloadStates
      <3>3. CASE ~(r.payload \in {"publishing", "retained"} \/ r.pubs > 0)
        <4>1. p = r.payload
          BY <3>1, <3>3
        <4>2. r.payload # "apply_recovery"
          BY <2>2, <3>3
        <4> HIDE DEF p
        <4>. QED  BY <2>1, <2>3, <3>3, <4>1, <4>2 DEF PayloadStates
      <3>. QED  BY <3>2, <3>3
    <2>. QED  BY <2>4, <2>5
  <1> HIDE DEF p
  <1>4. /\ q \in Job /\ SameProgress(q, r) /\ q.frozen = r.frozen /\ q.index = r.index
        /\ q.cur = r.cur /\ q.packets = r.packets /\ q.pending = r.pending
        /\ q.state = "failed" /\ q.attempt = r.attempt /\ ~q.token /\ ~q.owner
        /\ q.cancel = r.cancel /\ q.phase = "" /\ q.payload = p /\ q.pubs = r.pubs
        /\ q.result = r.result /\ q.from = r.from /\ q.error = "apply_recovery"
    BY <1>1, <1>3 DEF Job, States, Phases, Errors, SameProgress
  <1> HIDE DEF q
  <1>5. Lifecycle(q)
    BY <1>1, <1>4 DEF Valid, Lifecycle, Going, ActiveStates
  <1>6. Progress(q)
    BY <1>1, <1>3, <1>4 DEF Valid, Progress, Upper
  <1>7. Payload(q)
    BY <1>1, <1>3, <1>4 DEF Valid, Payload, Private, Upper
  <1>8. FilesOf(q, files[j])
    BY <1>1, <1>3, <1>4 DEF FilesOf, Clean
  <1>9. Valid(q) /\ Ledgered(j, q, ledger, vault)
    BY <1>1, <1>4, <1>5, <1>6, <1>7, SameLedger DEF Valid
  <1>10. /\ worker' \in [Workers -> Worker]
         /\ \A v \in Workers : worker'[v] = worker[v]
         /\ \A v \in Workers : worker'[v].pc \in {"launch", "spawned"} => ~worker'[v].work
    BY <1>0 DEF Inv, Typed, Placing
  <1>. QED  BY <1>0, <1>2, <1>4, <1>8, <1>9, <1>10, Commands

------------------------------------------------------------------------------
(* The invariant holds. *)

LEMMA InitInv == Init => Inv
  <1> SUFFICES ASSUME Init PROVE Inv
    OBVIOUS
  <1>1. /\ \A j \in Jobs : jobs[j] = NoJob /\ files[j] = {}
        /\ \A w \in Workers : worker[w] = Idle
        /\ \A s \in 1..Sessions : ledger[s] = <<>> /\ vault[s] = 0
    BY DEF Init
  <1>2. Idle \in Worker /\ Idle.pc = "idle" /\ "idle" \in Outside
    BY IdleType DEF Outside
  <1>3. OuterTyped
    <2>1. <<>> \in Seq(Line) /\ Len(<<>>) = 0 /\ 0 <= MaxLine
      BY ReviewJobAssumption
    <2>2. ledger \in [1..Sessions -> Seq(Line)] /\ vault \in [1..Sessions -> Nat]
      BY <2>1 DEF Init
    <2>3. \A s \in 1..Sessions : vault[s] <= Len(ledger[s]) /\ Len(ledger[s]) <= MaxLine
      BY <1>1, <2>1
    <2>. QED  BY <2>2, <2>3 DEF Init, OuterTyped
  <1>4. Typed
    BY <1>2, <1>3 DEF Init, Typed
  <1>5. OneInside
    BY <1>1, <1>2 DEF OneInside
  <1>6. ASSUME NEW j \in Jobs PROVE Kept(j, jobs[j], files[j], ledger, vault)
    <2>1. LineSet(j, ledger) = {}
      BY <1>1, ReviewJobAssumption DEF LineSet
    <2>2. Lines(j, ledger) = 0
      BY <2>1, FS_EmptySet DEF Lines
    <2>. QED  BY <1>1, <2>2 DEF Kept
  <1>7. ASSUME NEW w \in Workers PROVE Placing(w)
    BY <1>1, <1>2 DEF Placing
  <1>. QED  BY <1>4, <1>5, <1>6, <1>7 DEF Inv

LEMMA StutterInv ==
    ASSUME Inv, UNCHANGED vars
    PROVE  Inv'
  <1>1. UNCHANGED <<jobs, worker, files, receipt, ledger, vault>>
    BY DEF vars
  <1>2. Typed' /\ OneInside'
    BY <1>1 DEF Inv, Typed, OuterTyped, OneInside
  <1>3. ASSUME NEW j \in Jobs PROVE Kept(j, jobs[j], files[j], ledger, vault)'
    BY <1>1 DEF Inv
  <1>4. ASSUME NEW w \in Workers PROVE Placing(w)'
    BY <1>1 DEF Inv, Placing, R
  <1>. QED  BY <1>2, <1>3, <1>4 DEF Inv

LEMMA WorkInv ==
    ASSUME Inv, NEW w \in Workers, Work(w)
    PROVE  Inv'
  <1>1. CASE \/ Spawn(w) \/ Acquire(w) \/ AcquireFails(w) \/ Start(w) \/ Handshake(w)
             \/ Terminalize(w)
    BY <1>1, DieInv, AcquireInv, StartInv, HandshakeInv, TerminalizeInv
  <1>2. CASE \/ Route(w) \/ RouteFails(w) \/ RecoverState(w) \/ RecoverStateFails(w)
             \/ ObserveCancel(w) \/ FinishCancelled(w) \/ FinishCancelledFails(w)
             \/ CancelRemove(w) \/ CancelSettle(w) \/ Cancelled(w)
             \/ Fail(w) \/ FailRemove(w) \/ FailSettle(w)
    BY <1>2, RouteInv, RouteFailsInv, RecoverStateInv, PacketFailsInv, ObserveCancelInv,
       FinishCancelledInv, CancelRemoveInv, CancelSettleInv, CancelledInv, FailInv,
       FailRemoveInv, FailSettleInv
  <1>3. CASE \/ Loop(w) \/ Prepare(w) \/ PacketFails(w) \/ WritePacket(w) \/ KeepPacket(w)
             \/ AgentAnswers(w) \/ AgentIsCancelled(w) \/ WriteProposal(w) \/ KeepProposal(w)
             \/ BeginApply(w)
    BY <1>3, LoopInv, PrepareInv, PacketFailsInv, WritePacketInv, KeepPacketInv,
       AgentAnswersInv, AgentIsCancelledInv, WriteProposalInv, KeepProposalInv, BeginApplyInv
  <1>4. CASE \/ Apply(w) \/ Commit(w) \/ ApplyFails(w) \/ Accept(w)
             \/ Sync(w) \/ SyncEnds(w) \/ SyncFails(w) \/ Clear(w)
    BY <1>4, ApplyInv, CommitInv, ApplyFailsInv, AcceptInv, SyncInv, SyncEndsInv, ClearInv
  <1>5. CASE \/ Mark(w) \/ Remove(w) \/ Settle(w) \/ Advance(w) \/ StaleWrite(w) \/ Complete(w)
    BY <1>5, MarkInv, RemoveInv, SettleInv, AdvanceInv, StaleWriteInv, CompleteInv
  <1>. QED  BY <1>1, <1>2, <1>3, <1>4, <1>5 DEF Work

LEMMA NextInv == Inv /\ [Next]_vars => Inv'
  <1> SUFFICES ASSUME Inv, [Next]_vars PROVE Inv'
    OBVIOUS
  <1>1. ASSUME NEW j \in Jobs, Command(j) PROVE Inv'
    BY <1>1, CancelInv, RecoverInv, CreateJobInv, RetryInv DEF Command
  <1>2. ASSUME NEW w \in Workers, Work(w) PROVE Inv'
    BY <1>2, WorkInv
  <1>3. ASSUME NEW w \in Workers, Die(w) \/ ParentDies(w) PROVE Inv'
    BY <1>3, DieInv
  <1>4. CASE UNCHANGED vars
    BY <1>4, StutterInv
  <1>. QED  BY <1>1, <1>2, <1>3, <1>4 DEF Next

LEMMA Invariance == Spec => []Inv
  <1>1. Init => Inv
    BY InitInv
  <1>2. Inv /\ [Next]_vars => Inv'
    BY NextInv
  <1>. QED  BY <1>1, <1>2, PTL DEF Spec

------------------------------------------------------------------------------
(* What follows for every behaviour. *)

LEMMA RecordIs ==
    ASSUME Inv, NEW j \in Recs
    PROVE  /\ j \in Jobs /\ jobs[j] # NoJob /\ jobs[j] \in Job
           /\ Valid(jobs[j]) /\ FilesOf(jobs[j], files[j])
           /\ Ledgered(j, jobs[j], ledger, vault)
  <1>1. j \in Jobs /\ jobs[j] # NoJob
    BY DEF Recs
  <1>. QED  BY <1>1 DEF Inv, Typed, Kept

\* Types, the exclusive leases, and that every stored record passes types.go
\* Validate: no write of a transition is ever refused by it, however commands,
\* crashes, retries and recoveries follow each other.
THEOREM TypeCorrect == Spec => []TypeOK
  <1>1. ASSUME Inv PROVE TypeOK
    <2>1. Types
      BY <1>1 DEF Inv, Typed, OuterTyped, OneInside, Worker, Types
    <2>2. ASSUME NEW j \in Recs
          PROVE  LET r == jobs[j] IN
                 /\ Active(j) <=> r.phase # ""
                 /\ r.token => Active(j) /\ r.phase = "preflight" /\ ~r.owner
                 /\ r.owner => Active(j)
                 /\ r.index < Len(r.frozen) => r.cur <= Upper(r)
                 /\ r.index = Len(r.frozen) => r.cur = 0
                 /\ r.state = "completed" => r.index = Len(r.frozen)
                 /\ r.payload \in {"publishing", "retained"} => Active(j) /\ r.pubs > 0
                 /\ r.payload = "apply_recovery" =>
                      /\ r.pubs = 2 /\ r.result > 0
                      /\ \/ r.state \in {"running", "retrying", "cancel_requested"} /\ r.error = ""
                         \/ r.state = "failed" /\ r.error \in {"apply_recovery", "agent"}
                 /\ r.pending => r.packets > 0 /\ r.state \notin {"completed", "cancelled"}
      <3> DEFINE r == jobs[j]
      <3>1. /\ j \in Jobs /\ r # NoJob /\ r \in Job
            /\ Lifecycle(r) /\ Progress(r) /\ Payload(r)
        BY <1>1, <2>2, RecordIs DEF Valid
      <3>2. Active(j) <=> Going(r)
        BY <3>1 DEF Active, Going
      <3> HIDE DEF r
      <3>3. /\ Active(j) <=> r.phase # ""
            /\ r.token => Active(j) /\ r.phase = "preflight" /\ ~r.owner
            /\ r.owner => Active(j)
            /\ r.state = "completed" => r.index = Len(r.frozen)
            /\ r.pending => r.state \notin {"completed", "cancelled"}
        BY <3>1, <3>2 DEF Lifecycle
      <3>4. /\ r.index < Len(r.frozen) => r.cur <= Upper(r)
            /\ r.index = Len(r.frozen) => r.cur = 0
            /\ r.pending => r.packets > 0
        BY <3>1 DEF Progress
      <3>5. r.payload \in {"publishing", "retained"} => Active(j) /\ r.pubs > 0
        BY <3>1, <3>2 DEF Payload, Private
      <3>6. ASSUME r.payload = "apply_recovery"
            PROVE  /\ r.pubs = 2 /\ r.result > 0
                   /\ \/ r.state \in {"running", "retrying", "cancel_requested"} /\ r.error = ""
                      \/ r.state = "failed" /\ r.error \in {"apply_recovery", "agent"}
        <4>1. r.pubs = 2 /\ r.result > 0
          BY <3>1, <3>6 DEF Payload
        <4>2. CASE Going(r)
          <5>1. r.error = "" /\ r.state # "queued"
            BY <3>1, <3>6, <4>2 DEF Lifecycle
          <5>. QED  BY <4>1, <4>2, <5>1 DEF Going, ActiveStates
        <4>3. CASE ~Going(r)
          <5>1. r.error \in {"apply_recovery", "agent"}
            BY <3>1, <3>6, <4>3 DEF Payload
          <5>2. r.state \notin {"completed", "cancelled"}
            BY <3>1, <3>6 DEF Lifecycle
          <5>3. r.state = "failed"
            BY <3>1, <4>3, <5>2 DEF Going, Job, States
          <5>. QED  BY <4>1, <5>1, <5>3
        <4>. QED  BY <4>2, <4>3
      <3>. QED  BY <3>3, <3>4, <3>5, <3>6 DEF r
    <2>3. RecordsValid
      BY <2>2 DEF RecordsValid
    <2>. QED  BY <2>1, <2>3 DEF TypeOK
  <1>. QED  BY <1>1, Invariance, PTL

\* No command fails, retries or ends a job under the worker that owns it, although
\* recoveries, retries and launchers act on launch tokens that may have run out.
THEOREM OwnerKeeps == Spec => []OwnerKeepsJob
  <1>1. ASSUME Inv PROVE OwnerKeepsJob
    <2>1. ASSUME NEW w \in Workers, worker[w].pc \in Owned
          PROVE  Active(worker[w].job) /\ R(w).owner /\ R(w).attempt = worker[w].attempt
      <3>1. R(w).owner /\ R(w).attempt = worker[w].attempt /\ Going(R(w)) /\ R(w) # NoJob
        BY <1>1, <2>1, Owning, Inside
      <3>. QED  BY <3>1 DEF Active, Going, R
    <2>. QED  BY <2>1 DEF OwnerKeepsJob
  <1>. QED  BY <1>1, Invariance, PTL

\* The packets a job counts are the lines the ledger has from it, but for at
\* most one that it has not seen yet, through crashes, retries and replays.
THEOREM ProgressAlwaysAccepted == Spec => []ProgressIsAccepted
  <1>1. ASSUME Inv PROVE ProgressIsAccepted
    <2>1. ASSUME NEW j \in Recs
          PROVE  LET r == jobs[j] IN
                 /\ LinesOf(j) - r.packets \in {0, 1}
                 /\ \A i \in 1..Len(r.frozen) :
                      (i <= r.index => Len(ledger[r.frozen[i].session]) >= r.frozen[i].upper)
                 /\ r.index < Len(r.frozen) => r.cur <= Cursor(r)
      <3> DEFINE r == jobs[j]
      <3>1. r \in Job /\ Ledgered(j, r, ledger, vault)
        BY <1>1, <2>1, RecordIs
      <3>2. LinesOf(j) = Lines(j, ledger)
        BY DEF LinesOf, Lines, LineSet
      <3> HIDE DEF r
      <3>3. r.packets \in Nat /\ r.index \in Nat
        BY <3>1, FrozenType, LinesFinite
      <3>4. LinesOf(j) - r.packets \in {0, 1}
        BY <3>1, <3>2, <3>3 DEF Ledgered, Counted
      <3>5. ASSUME NEW i \in 1..Len(r.frozen), i <= r.index
            PROVE  Len(ledger[r.frozen[i].session]) >= r.frozen[i].upper
        <4>1. i \in 1..r.index
          BY <3>3, <3>5
        <4>. QED  BY <3>1, <4>1 DEF Ledgered, Covered
      <3>6. r.index < Len(r.frozen) => r.cur <= Cursor(r)
        BY <3>1 DEF Ledgered, Covered, Cursor
      <3>. QED  BY <3>4, <3>5, <3>6 DEF r
    <2>. QED  BY <2>1 DEF ProgressIsAccepted
  <1>. QED  BY <1>1, Invariance, PTL

\* What a job counts and no sync is pending for is in the vault; a completed
\* job was not cancelled, synced all its lines and left no private file.
THEOREM ProgressAlwaysSynced == Spec => []ProgressIsSynced
  <1>1. ASSUME Inv PROVE ProgressIsSynced
    <2>1. ASSUME NEW j \in Recs
          PROVE  LET r == jobs[j] IN
                 /\ \A i \in 1..Len(r.frozen) : i <= r.index \/ r.state = "completed" =>
                      vault[r.frozen[i].session] >= r.frozen[i].upper
                 /\ r.index < Len(r.frozen) /\ ~r.pending => r.cur <= vault[Session(r)]
                 /\ r.state = "completed" => ~r.cancel /\ files[j] = {}
      <3> DEFINE r == jobs[j]
      <3>1. /\ r \in Job /\ Ledgered(j, r, ledger, vault) /\ Lifecycle(r)
            /\ FilesOf(r, files[j])
        BY <1>1, <2>1, RecordIs DEF Valid
      <3> HIDE DEF r
      <3>2. r.index \in Nat /\ Len(r.frozen) \in Nat
        BY <3>1, FrozenType
      <3>3. ASSUME NEW i \in 1..Len(r.frozen), i <= r.index \/ r.state = "completed"
            PROVE  vault[r.frozen[i].session] >= r.frozen[i].upper
        <4>1. r.state = "completed" => r.index = Len(r.frozen)
          BY <3>1 DEF Lifecycle
        <4>2. i \in 1..r.index
          BY <3>2, <3>3, <4>1
        <4>. QED  BY <3>1, <4>2 DEF Ledgered, Covered
      <3>4. r.index < Len(r.frozen) /\ ~r.pending => r.cur <= vault[Session(r)]
        BY <3>1 DEF Ledgered, Covered
      <3>5. r.state = "completed" => ~r.cancel /\ files[j] = {}
        BY <3>1 DEF Lifecycle, FilesOf
      <3>. QED  BY <3>3, <3>4, <3>5 DEF r
    <2>. QED  BY <2>1 DEF ProgressIsSynced
  <1>. QED  BY <1>1, Invariance, PTL

=============================================================================
