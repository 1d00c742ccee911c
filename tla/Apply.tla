------------------------------- MODULE Apply -------------------------------
(***************************************************************************)
(* Applying review proposals (src/internal/apply) to a project of format   *)
(* 2: a machine ledger and two documents, of which the ledger holds the    *)
(* hashes.  An apply writes a receipt, the three files, the receipt again  *)
(* and the cursor of the session; a process killed anywhere is continued   *)
(* by the next apply of the same proposal, from the receipt.  Sync carries *)
(* the documents to the vault.  It takes what an apply wrote for accepted  *)
(* when applied receipts lead from its merge base to it.                   *)
(*                                                                         *)
(* A document is the proposals accepted into it, the edits of people in it *)
(* and its revision.  The ledger is the proposals it accounts for, the     *)
(* documents it names and the number of its last sync.  Hashes are the     *)
(* contents they stand for, used in comparisons only.                      *)
(***************************************************************************)
EXTENDS Integers, Sequences, FiniteSets

CONSTANTS Procs,               \* processes that apply proposals
          Proposals, Sessions,
          SessionOf, From, To, \* functions of a proposal: its session, and
                               \* the boundaries of the lines it reviews
          Origin,              \* the boundary of an empty cursor
          Empty,               \* proposals that change no file
          Edits,               \* what people add
          SharedLock,          \* applies and syncs exclude each other (Unix)
          None,                \* no receipt, no process, no snapshot
          MaxSyncs,            \* bound: syncs that publish a ledger
          MaxStops,            \* bound: processes killed
          MaxRestores          \* bound: old files put back by people

Boundaries == [line : Nat, hash : {"g", "h"}]

Docs == {"history", "review"}
Order == <<"ledger", "history", "review">>
Files == {"ledger"} \cup Docs

VARIABLES
    file,     \* file[f]: the project's file f
    vault,    \* vault[f]: the vault's copy
    base,     \* base[d]: the merge base of document d
    cursor,   \* cursor[s]: how far session s is accepted
    receipt,  \* receipt[p]: None, or its state and the files it was made for
    root, data, \* who holds the locks on project root and project data
    pc, job,  \* job[i]: the proposal of process i, at step pc[i]
    known,    \* known[i]: the files loaded for a new receipt
    at,       \* at[i]: which file is next
    sync,     \* the sync that runs, with all it holds in memory
    saved, stops, restores \* edits made, and counters

disk == <<file, vault, base, cursor, receipt>>
locals == <<pc, job, known, at>>
people == <<saved, restores>>
vars == <<disk, root, data, locals, sync, people, stops>>

-----------------------------------------------------------------------------
(* Contents.                                                               *)

Bodies == [by : SUBSET Proposals, edits : SUBSET Edits, rev : Nat]
Ledgers == [by : SUBSET Proposals, names : [Docs -> Bodies], stamp : Nat]
Trees == {t \in [Files -> Bodies \cup Ledgers] :
            t["ledger"] \in Ledgers /\ \A d \in Docs : t[d] \in Bodies}

Receipts == [state : {"prepared", "applied"}, before : Trees]

Syncs == [file : Trees, vault : Trees, next : Docs \cup {"align", "ledger"},
          bad : BOOLEAN, publish : BOOLEAN]

ASSUME ApplyAssumption ==
    /\ SessionOf \in [Proposals -> Sessions]
    /\ From \in [Proposals -> Boundaries] /\ To \in [Proposals -> Boundaries]
    /\ Origin \in Boundaries /\ Origin.line = 0
    /\ \A p \in Proposals : From[p].line < To[p].line
    /\ Empty \subseteq Proposals
    /\ SharedLock \in BOOLEAN
    /\ MaxSyncs \in Nat /\ MaxStops \in Nat /\ MaxRestores \in Nat
    /\ "sync" \notin Procs /\ None \notin Procs \cup Proposals \cup {"sync"}
    /\ None \notin Trees /\ None \notin Receipts /\ None \notin Syncs

First == LET body == [by |-> {}, edits |-> {}, rev |-> 0]
         IN [f \in Files |->
               IF f = "ledger"
               THEN [by |-> {}, names |-> [d \in Docs |-> body], stamp |-> 0]
               ELSE body]

Changes(p) == IF p \in Empty THEN {} ELSE Files

\* What ApplyChangeSet makes of the files of a tree t.
Planned(p, t) ==
    LET body(d) == [t[d] EXCEPT !.by = @ \cup {p}, !.rev = @ + 1]
    IN [f \in Files |->
          IF f = "ledger" THEN [t[f] EXCEPT !.by = @ \cup {p},
                                            !.names = [d \in Docs |-> body(d)]]
          ELSE body(f)]

Target(p) == Planned(p, receipt[p].before)

\* LoadExpected: the ledger names the documents, which share one revision.
Whole(t) == /\ \A d \in Docs : t["ledger"].names[d] = t[d]
            /\ t["history"].rev = t["review"].rev

-----------------------------------------------------------------------------
(* Cursors and receipts.                                                   *)

\* Mutant: boundaries are compared by line.
AtBoundary_LineOnly(s, b) == cursor[s].line = b.line

AtBoundary(s, b) == cursor[s] = b

AtOrBeyond(s, b) ==
    \/ cursor[s].line > b.line
    \/ cursor[s] = b /\ b # Origin

AtStart(p) == AtBoundary(SessionOf[p], From[p])
Past(p) == AtOrBeyond(SessionOf[p], To[p])
Applied(p) == receipt[p] # None /\ receipt[p].state = "applied"

Preflight(p) == AtStart(p) \/ (Past(p) /\ receipt[p] # None)

\* rejectOutstandingProjectReceipts.
Outstanding(p) ==
    \E q \in Proposals \ {p} : receipt[q] # None /\ ~ (Applied(q) /\ Past(q))

\* Mutant: a file may hold anything.
Recognised_Always(p, f) == TRUE

Recognised(p, f) ==
    \/ file[f] = receipt[p].before[f]
    \/ f \in Changes(p) /\ file[f] = Target(p)[f]

\* verifyLedgerNamespace.
Undisturbed(p) == \A f \in Files : Recognised(p, f)

\* Mutant: nothing is verified before the cursor moves.
Verified_Never(p) == TRUE

\* verifyReceiptTargets, then verifyLedgerNamespace.
Verified(p) == Undisturbed(p) /\ \A f \in Changes(p) : file[f] = Target(p)[f]

-----------------------------------------------------------------------------
(* One apply.                                                              *)

Go(i, step) == pc' = [pc EXCEPT ![i] = step]

\* Run returns: the locks are released by the deferred calls.
Return(i, answer) ==
    /\ Go(i, answer)
    /\ root' = IF root = i THEN None ELSE root
    /\ data' = IF data = i THEN None ELSE data
    /\ known' = [known EXCEPT ![i] = None]
    /\ at' = [at EXCEPT ![i] = 1]
    /\ UNCHANGED job

\* The process goes on to a step without anything but its place changing.
Continue(i, step) ==
    Go(i, step) /\ UNCHANGED <<root, data, job, known, at>>

Start(i, p) ==
    /\ pc[i] = "idle"
    /\ job' = [job EXCEPT ![i] = p]
    /\ Go(i, IF Preflight(p) THEN "root" ELSE "refused")
    /\ UNCHANGED <<disk, root, data, known, at, sync, people, stops>>

\* The lock on the project root, and the preflight once more under it.
LockRoot(i) ==
    /\ pc[i] = "root" /\ root = None
    /\ IF Preflight(job[i])
       THEN /\ root' = i /\ Go(i, "data")
            /\ UNCHANGED <<data, job, known, at>>
       ELSE Return(i, "refused")
    /\ UNCHANGED <<disk, sync, people, stops>>

\* initializeProjectData locks the project's data, where sync has its lock;
\* on Windows one mutex of the applies stands for both.
LockData(i) ==
    /\ pc[i] = "data"
    /\ IF SharedLock THEN data = None /\ data' = i ELSE UNCHANGED data
    /\ Go(i, "scan")
    /\ UNCHANGED <<disk, root, job, known, at, sync, people, stops>>

TimeOut(i) ==
    /\ \/ pc[i] = "root" /\ root # None
       \/ pc[i] = "data" /\ SharedLock /\ data # None
    /\ Return(i, "refused")
    /\ UNCHANGED <<disk, sync, people, stops>>

CursorCompatible(p) == AtStart(p) \/ Past(p)

\* Mutant: only an applied receipt is continued.
Continues_Applied(p) == Applied(p)

Continues(p) == TRUE

\* scanReceipts and what Run and recoverReceipt decide from it.
ScanReceipts(i) ==
    /\ pc[i] = "scan"
    /\ LET p == job[i]
       IN IF ~ CursorCompatible(p) \/ Outstanding(p) THEN Return(i, "refused")
          ELSE IF receipt[p] # None
          THEN IF Past(p) THEN Continue(i, "again")
               ELSE IF Continues(p) THEN Continue(i, "check")
               ELSE Return(i, "refused")
          ELSE IF Past(p) THEN Return(i, "refused")
          ELSE Continue(i, "load")
    /\ UNCHANGED <<disk, sync, people, stops>>

\* Of an accepted proposal only its files are verified.
VerifyAgain(i) ==
    /\ pc[i] = "again"
    /\ Return(i, IF Verified(job[i]) THEN "already" ELSE "refused")
    /\ UNCHANGED <<disk, sync, people, stops>>

Load(i) ==
    /\ pc[i] = "load"
    /\ IF Whole(file)
       THEN /\ known' = [known EXCEPT ![i] = file] /\ Go(i, "plan")
            /\ UNCHANGED <<root, data, job, at>>
       ELSE Return(i, "refused")
    /\ UNCHANGED <<disk, sync, people, stops>>

\* The loaded state or the proposal may be refused by their validations;
\* verifyLedgerNamespace compares.
Plan(i) ==
    /\ pc[i] = "plan"
    /\ \/ file = known[i] /\ Continue(i, "prepare")
       \/ Return(i, "refused")
    /\ UNCHANGED <<disk, sync, people, stops>>

SavePrepared(i) ==
    /\ pc[i] = "prepare"
    /\ receipt' = [receipt EXCEPT ![job[i]] =
                     [state |-> "prepared", before |-> known[i]]]
    /\ Continue(i, "check")
    /\ UNCHANGED <<file, vault, base, cursor, sync, people, stops>>

\* applyReceiptFiles looks at all files before each one, and at the end.
Check(i) ==
    /\ pc[i] = "check"
    /\ LET p == job[i]
           last == at[i] > Len(Order) \/ Changes(p) = {}
       IN IF ~ Undisturbed(p) THEN Return(i, "refused")
          ELSE Continue(i, IF ~ last THEN "write"
                           ELSE IF Applied(p) THEN "verify" ELSE "mark")
    /\ UNCHANGED <<disk, sync, people, stops>>

\* The file is compared and replaced, or skipped when it is the target.
WriteFile(i) ==
    /\ pc[i] = "write"
    /\ LET p == job[i]
           f == Order[at[i]]
       IN IF Recognised(p, f)
          THEN /\ file' = [file EXCEPT ![f] = Target(p)[f]]
               /\ at' = [at EXCEPT ![i] = @ + 1]
               /\ Go(i, "check")
               /\ UNCHANGED <<root, data, job, known>>
          ELSE Return(i, "refused") /\ UNCHANGED file
    /\ UNCHANGED <<vault, base, cursor, receipt, sync, people, stops>>

MarkApplied(i) ==
    /\ pc[i] = "mark"
    /\ receipt' = [receipt EXCEPT ![job[i]].state = "applied"]
    /\ Continue(i, "verify")
    /\ UNCHANGED <<file, vault, base, cursor, sync, people, stops>>

\* finishReceipt verifies twice, the second time just before it moves the
\* cursor.  Nobody else moves it: the comparison in cursor.Commit holds.
Verify(i) ==
    /\ pc[i] = "verify"
    /\ IF Verified(job[i]) THEN Continue(i, "commit")
       ELSE Return(i, "refused")
    /\ UNCHANGED <<disk, sync, people, stops>>

Commit(i) ==
    /\ pc[i] = "commit"
    /\ IF Verified(job[i])
       THEN /\ cursor' = [cursor EXCEPT ![SessionOf[job[i]]] = To[job[i]]]
            /\ Return(i, "accepted")
       ELSE Return(i, "refused") /\ UNCHANGED cursor
    /\ UNCHANGED <<file, vault, base, receipt, sync, people, stops>>

Ends == {"accepted", "already", "refused"}

\* The answer is printed and the process ends.
Exit(i) ==
    /\ pc[i] \in Ends
    /\ Go(i, "idle")
    /\ job' = [job EXCEPT ![i] = None]
    /\ UNCHANGED <<disk, root, data, known, at, sync, people, stops>>

Stop(i) ==
    /\ pc[i] \notin Ends \cup {"idle"} /\ stops < MaxStops
    /\ stops' = stops + 1
    /\ Go(i, "idle")
    /\ job' = [job EXCEPT ![i] = None]
    /\ known' = [known EXCEPT ![i] = None]
    /\ at' = [at EXCEPT ![i] = 1]
    /\ root' = IF root = i THEN None ELSE root
    /\ data' = IF data = i THEN None ELSE data
    /\ UNCHANGED <<disk, sync, people>>

-----------------------------------------------------------------------------
(* Sync (src/internal/sync), as far as it meets an apply.  Writing one     *)
(* document to both sides and the base is one step here (see EntitySync).  *)

\* Mutant: applies lock something else than syncs.
Free_OfSyncs == sync = None

Free == sync = None /\ (SharedLock => data = None)

EndSync == /\ sync' = None
           /\ data' = IF data = "sync" THEN None ELSE data

Rest == <<cursor, receipt, root, locals, people, stops>>

Revision(t) == t["history"].rev = t["review"].rev

\* loadMachineLedgerSnapshot, which wants equal ledgers, and the inventory.
BeginSync ==
    /\ Free /\ file["ledger"] = vault["ledger"]
    /\ data' = IF SharedLock THEN "sync" ELSE data
    /\ sync' = [file |-> file, vault |-> vault, next |-> "history",
                bad |-> FALSE, publish |-> Revision(file) /\ ~ Whole(file)]
    /\ UNCHANGED <<file, vault, base, Rest>>

\* RepairMachineLedger copies the project's ledger to the vault.
RepairLedger ==
    /\ Free /\ file["ledger"] # vault["ledger"]
    /\ vault' = [vault EXCEPT !["ledger"] = file["ledger"]]
    /\ UNCHANGED <<file, base, data, sync, Rest>>

\* Mutant: receipts of files not yet all written count.
Edges_Prepared(d) ==
    {<<receipt[q].before[d], Target(q)[d]>> :
        q \in {p \in Proposals \ Empty : receipt[p] # None}}

\* Mutant: receipts lead both ways.
Edges_BothWays(d) ==
    LET E == {<<receipt[q].before[d], Target(q)[d]>> :
                 q \in {p \in Proposals \ Empty : Applied(p)}}
    IN E \cup {<<e[2], e[1]>> : e \in E}

Edges(d) == {<<receipt[q].before[d], Target(q)[d]>> :
                q \in {p \in Proposals \ Empty : Applied(p)}}

\* TrustsAppliedTransition: a chain of edges leads from one body to the other.
Trusts(d, from, to) ==
    LET E == Edges(d)
        bodies == {from, to} \cup {e[1] : e \in E} \cup {e[2] : e \in E}
    IN /\ from # to
       /\ \A S \in SUBSET bodies :
            (from \in S /\ \A e \in E : e[1] \in S => e[2] \in S) => to \in S

SameProvenance(x, y) == x.by = y.by /\ x.rev = y.rev

\* What Merge and trustedAppliedProjectResult accept, None for a conflict.
Accepted(d) ==
    LET p == sync.file[d]
        v == sync.vault[d]
        b == base[d]
    IN IF SameProvenance(p, b) /\ SameProvenance(v, b)
       THEN IF p.edits \cup v.edits = b.edits THEN b
            ELSE [b EXCEPT !.edits = p.edits \cup v.edits, !.rev = @ + 1]
       ELSE IF v = b /\ Trusts(d, b, p) THEN p ELSE None

\* The document is written where it differs, unless it was saved meanwhile.
SyncDocument ==
    /\ sync # None /\ sync.next \in Docs
    /\ LET d == sync.next
           a == Accepted(d)
           then == IF d = "history" THEN "review" ELSE "align"
           unseen == file[d] # sync.file[d] \/ vault[d] # sync.vault[d]
       IN IF a = base[d] /\ a = sync.file[d] /\ a = sync.vault[d]
          THEN /\ sync' = [sync EXCEPT !.next = then]
               /\ UNCHANGED <<file, vault, base>>
          ELSE IF a = None \/ unseen
          THEN /\ sync' = [sync EXCEPT !.next = then, !.bad = TRUE]
               /\ UNCHANGED <<file, vault, base>>
          ELSE /\ file' = [file EXCEPT ![d] = a]
               /\ vault' = [vault EXCEPT ![d] = a]
               /\ base' = [base EXCEPT ![d] = a]
               /\ sync' = [sync EXCEPT !.next = then, !.publish = TRUE]
    /\ UNCHANGED <<data, Rest>>

\* alignCompactV2Revisions reads the documents again and raises the lower one.
Align ==
    /\ sync # None /\ sync.next = "align" /\ ~ sync.bad
    /\ LET behind == {d \in Docs : \E e \in Docs : file[d].rev < file[e].rev}
           raised(d) == [file[d] EXCEPT !.rev =
                           CHOOSE r \in {file[e].rev : e \in Docs} : r > file[d].rev]
           all == [d \in Docs |-> IF d \in behind THEN raised(d) ELSE file[d]]
       IN /\ file' = [f \in Files |-> IF f \in behind THEN all[f] ELSE file[f]]
          /\ vault' = [f \in Files |-> IF f \in behind THEN all[f] ELSE vault[f]]
          /\ base' = [d \in Docs |-> IF d \in behind THEN all[d] ELSE base[d]]
          /\ sync' = [sync EXCEPT !.next = "ledger",
                                  !.publish = @ \/ behind # {}]
    /\ UNCHANGED <<data, Rest>>

\* publishMachineLedger: the project's ledger as it was at the beginning,
\* now naming the documents and the time.
Publish ==
    /\ sync # None /\ sync.next = "ledger" /\ sync.publish
    /\ file["ledger"] = sync.file["ledger"] /\ Revision(file)
    /\ file["ledger"].stamp < MaxSyncs
    /\ LET ledger == [file["ledger"] EXCEPT !.names = [d \in Docs |-> file[d]],
                                            !.stamp = @ + 1]
       IN /\ file' = [file EXCEPT !["ledger"] = ledger]
          /\ vault' = [vault EXCEPT !["ledger"] = ledger]
    /\ EndSync
    /\ UNCHANGED <<base, Rest>>

\* Conflicts, nothing to publish, an error or the end of the process.
SyncEnds ==
    /\ sync # None
    /\ EndSync
    /\ UNCHANGED <<file, vault, base, Rest>>

-----------------------------------------------------------------------------
(* People.                                                                 *)

EditProject(d, e) ==
    /\ e \notin saved /\ saved' = saved \cup {e}
    /\ file' = [file EXCEPT ![d].edits = @ \cup {e}]
    /\ UNCHANGED <<vault, base, cursor, receipt, root, data, locals, sync,
                   restores, stops>>

EditVault(d, e) ==
    /\ e \notin saved /\ saved' = saved \cup {e}
    /\ vault' = [vault EXCEPT ![d].edits = @ \cup {e}]
    /\ UNCHANGED <<file, base, cursor, receipt, root, data, locals, sync,
                   restores, stops>>

\* Files of the project are put back to what they were at first.  Not while
\* a sync runs: Align would then carry the old document to the vault.
Restore(F) ==
    /\ restores < MaxRestores /\ sync = None
    /\ restores' = restores + 1
    /\ file' = [f \in Files |-> IF f \in F THEN First[f] ELSE file[f]]
    /\ UNCHANGED <<vault, base, cursor, receipt, root, data, locals, sync,
                   saved, stops>>

-----------------------------------------------------------------------------
Init ==
    /\ file = First /\ vault = First
    /\ base = [d \in Docs |-> First[d]]
    /\ cursor = [s \in Sessions |-> Origin]
    /\ receipt = [p \in Proposals |-> None]
    /\ root = None /\ data = None
    /\ pc = [i \in Procs |-> "idle"] /\ job = [i \in Procs |-> None]
    /\ known = [i \in Procs |-> None] /\ at = [i \in Procs |-> 1]
    /\ sync = None
    /\ saved = {} /\ stops = 0 /\ restores = 0

Step(i) ==
    \/ LockRoot(i) \/ LockData(i) \/ TimeOut(i) \/ ScanReceipts(i)
    \/ VerifyAgain(i) \/ Load(i) \/ Plan(i) \/ SavePrepared(i) \/ Check(i)
    \/ WriteFile(i) \/ MarkApplied(i) \/ Verify(i) \/ Commit(i) \/ Exit(i)

SyncStep == SyncDocument \/ Align \/ Publish \/ SyncEnds

Next ==
    \/ \E i \in Procs : Step(i) \/ Stop(i) \/ \E p \in Proposals : Start(i, p)
    \/ BeginSync \/ RepairLedger \/ SyncStep
    \/ \E d \in Docs, e \in Edits : EditProject(d, e) \/ EditVault(d, e)
    \/ \E F \in SUBSET Files \ {{}} : Restore(F)

Spec == Init /\ [][Next]_vars

-----------------------------------------------------------------------------
(* Properties.                                                             *)

Places == Ends \cup {"idle", "root", "data", "scan", "again", "load", "plan",
                     "prepare", "check", "write", "mark", "verify", "commit"}

Locked == Places \ (Ends \cup {"idle", "root", "data"})

\* A process that has the receipt it works from.
Going == {"check", "write", "mark", "verify", "commit"}

Types ==
    /\ file \in Trees /\ vault \in Trees /\ base \in [Docs -> Bodies]
    /\ cursor \in [Sessions -> Boundaries]
    /\ receipt \in [Proposals -> Receipts \cup {None}]
    /\ root \in Procs \cup {None} /\ data \in Procs \cup {None, "sync"}
    /\ pc \in [Procs -> Places] /\ job \in [Procs -> Proposals \cup {None}]
    /\ known \in [Procs -> Trees \cup {None}] /\ at \in [Procs -> 1 .. 4]
    /\ sync \in Syncs \cup {None}
    /\ saved \subseteq Edits
    /\ stops \in 0 .. MaxStops /\ restores \in 0 .. MaxRestores

Sound(i) ==
    /\ pc[i] = "idle" <=> job[i] = None
    /\ pc[i] \in {"plan", "prepare"} => known[i] # None
    /\ pc[i] = "write" => at[i] \in 1 .. 3
    /\ pc[i] \in Going => receipt[job[i]] # None
    /\ pc[i] \in Locked \cup {"data"} => root = i
    /\ pc[i] \in Locked /\ SharedLock => data = i

\* The variables have their types; a process between its locks and its end
\* holds both, and no sync runs beside it.
TypeOK == /\ Types
          /\ \A i \in Procs : Sound(i)
          /\ sync # None /\ SharedLock => data = "sync"

\* An edit that a person made in a document of the project stays in it,
\* whatever an apply or a sync writes (comment in applyReceiptFiles).
EditsStay == [][\/ restores' # restores
                \/ \A d \in Docs : file[d].edits \subseteq file'[d].edits]_vars

\* The vault shows a proposal only when all its files were written and the
\* receipt says so: neither a sync between two files of an apply nor one
\* after a crash publishes half a proposal (TrustsAppliedTransition).
VaultShowsApplied ==
    \A d \in Docs : \A p \in vault[d].by : Applied(p)

\* A sync never takes a proposal out of the vault again, also when the
\* project's files were put back to an older state (the chain of receipts
\* leads forward only).
VaultNeverForgets == [][\A d \in Docs : vault[d].by \subseteq vault'[d].by]_vars

\* Two proposals of the same lines are never both in the files: not when
\* two applies race for the lock, nor when one was interrupted before.
OncePerLine ==
    \A f \in Files : \A p, q \in file[f].by :
        p # q /\ SessionOf[p] = SessionOf[q] =>
            From[p].line >= To[q].line \/ From[q].line >= To[p].line

\* The cursor passes a proposal only when documents and ledger hold it, also
\* when people saved or restored files since they were written.
CursorFollowsFiles ==
    [][\A p \in Proposals \ Empty :
          cursor[SessionOf[p]] # To[p] /\ cursor'[SessionOf[p]] = To[p]
              /\ receipt[p] # None =>
              \A f \in Files : p \in file[f].by]_vars

Unfinished(p) == receipt[p] # None /\ ~ (Applied(p) /\ Past(p))

Underway == {p \in Proposals : Unfinished(p)}
Done == {p \in Proposals : Applied(p) /\ Past(p)}

History == INSTANCE AtomicLedger WITH
    position <- cursor, underway <- Underway, accepted <- Done

\* Applies accept the proposals of each session one after the other, and one
\* at a time in the project, whatever crashes and whoever comes between.
ImplementsAtomicLedger == History!Spec

-----------------------------------------------------------------------------
(* Liveness: an interrupted apply is repeated by someone until it is done. *)

Retry(p) == Unfinished(p) /\ \E i \in Procs : Start(i, p)

Fairness ==
    /\ \A i \in Procs : WF_vars(Step(i)) /\ SF_vars(LockRoot(i))
                                          /\ SF_vars(LockData(i))
    /\ WF_vars(SyncStep)
    /\ \A p \in Proposals : SF_vars(Retry(p))

FairSpec == Spec /\ Fairness

\* An interrupted apply is finished once it is repeated, however far it had
\* come, unless a file is found that neither it nor its proposal knows.  Lock
\* waits that time out again and again are left out.
Resumes ==
    <>[][\A i \in Procs : ~ TimeOut(i)]_vars =>
        \A p \in Proposals :
            Unfinished(p) ~> (~ Unfinished(p) \/ ~ Undisturbed(p))

-----------------------------------------------------------------------------
(* What the documents say and the code does not do.                        *)

\* README.zh-CN.md:231: an apply interrupted before its cursor is recovered
\* from its receipt; only edits of users and other boundaries prevent it.
OnlyUsersPrevent ==
    saved = {} /\ restores = 0 =>
        \A p \in Proposals : Unfinished(p) => Undisturbed(p)

\* README.zh-CN.md:235: apply updates the ledger and the documents in one
\* transaction, so a ledger that names the documents has their proposals.
LedgerMatches ==
    Whole(file) => \A d \in Docs : file["ledger"].by = file[d].by

\* README.zh-CN.md:231: the apply of an accepted proposal, repeated, says
\* that it is already applied.
RepeatAnswers ==
    [][\A i \in Procs : pc[i] = "again" /\ saved = {} /\ restores = 0 =>
          pc'[i] # "refused"]_vars

=============================================================================
