----------------------------- MODULE MemoryStore -----------------------------
(***************************************************************************)
(* The prepared generation pointer of a project's private store            *)
(* (internal/memorystore/store.go) and the checked file replacement it is  *)
(* written with (internal/atomicfile/write.go).                            *)
(*                                                                         *)
(* Writers are commands that load the pointer and then prepare the first   *)
(* generation or advance the pointer they loaded; each call runs under the *)
(* store lock and starts by reconciling what an earlier call left behind.  *)
(* Readers are read-only commands: they take no lock and repair nothing.   *)
(* Any step of a call may be its last, by a crash or an error.             *)
(***************************************************************************)
EXTENDS Naturals

CONSTANTS Writers,      \* processes that open the store for writing
          Readers,      \* processes that open it read-only
          Gens,         \* generation identifiers
          NoGen,        \* no file, no generation
          Nobody,       \* nobody holds the store lock
          MaxStops,     \* bound: calls that crash or return an error midway
          MaxBadChecks  \* bound: failures of the checks around the rename

ASSUME MemoryStoreAssumption ==
    /\ NoGen \notin Gens
    /\ Nobody \notin Writers
    /\ MaxStops \in Nat
    /\ MaxBadChecks \in Nat

VARIABLES
    generations,    \* the immutable objects generations/<id>.json
    manifest,       \* manifest.json, the prepared pointer
    backup,         \* the rollback hard link of manifest.json
    journal,        \* the prepared advance journal
    lock,           \* who holds locks/scan.lock
    pc,             \* where a writer is in its call
    known,          \* the pointer the writer loaded
    target,         \* the generation it writes, NoGen in a load
    rpc,            \* where a reader is in its call
    seen,           \* the pointer the reader read
    valid,          \* history: what was current during the reader's call
    stops,          \* calls that stopped midway
    badChecks       \* checks that failed

disk == <<generations, manifest, backup, journal>>
call == <<known, target>>
reading == <<rpc, seen>>
counters == <<stops, badChecks>>
vars == <<generations, manifest, backup, journal, lock, pc, known, target,
          rpc, seen, valid, stops, badChecks>>
-----------------------------------------------------------------------------
GenOrNone == Gens \cup {NoGen}
Journals == [expected : Gens, successor : Gens]
NoJournal == [expected |-> NoGen, successor |-> NoGen]

\* Where a writer holds the store lock.
Reconciling == {"reconcile"}
Writing == {"generation", "pointer", "journal", "backup", "rename", "check",
            "dropJournal", "reread"}
Undoing == {"unpublish", "relink", "unlink"}
Holding == Reconciling \cup Writing \cup Undoing \cup {"done"}

\* What the store answers once its journal is reconciled or its advance done:
\* until the journal goes, the expected pointer.
Current == IF journal = NoJournal THEN manifest ELSE journal.expected

Init ==
    /\ generations = {}
    /\ manifest = NoGen
    /\ backup = NoGen
    /\ journal = NoJournal
    /\ lock = Nobody
    /\ pc = [w \in Writers |-> "idle"]
    /\ known = [w \in Writers |-> NoGen]
    /\ target = [w \in Writers |-> NoGen]
    /\ rpc = [r \in Readers |-> "idle"]
    /\ seen = [r \in Readers |-> NoGen]
    /\ valid = [r \in Readers |-> {}]
    /\ stops = 0
    /\ badChecks = 0

GoTo(w, to) == pc' = [pc EXCEPT ![w] = to]

\* The call is over and the deferred unlock runs.
Return(w, to) == GoTo(w, to) /\ lock' = Nobody
-----------------------------------------------------------------------------
(* A call begins: withStoreLock, then the reconciliation.                  *)

\* LoadPrepared.
BeginLoad(w) ==
    /\ pc[w] \in {"idle", "ready"}
    /\ lock = Nobody
    /\ lock' = w
    /\ GoTo(w, "reconcile")
    /\ target' = [target EXCEPT ![w] = NoGen]
    /\ UNCHANGED <<disk, known, reading, counters>>

\* PrepareGeneration when the load found no pointer, AdvancePrepared of the
\* loaded pointer otherwise.
BeginWrite(w) ==
    /\ pc[w] = "ready"
    /\ lock = Nobody
    /\ lock' = w
    /\ GoTo(w, "reconcile")
    /\ \E g \in Gens \ {known[w]} : target' = [target EXCEPT ![w] = g]
    /\ UNCHANGED <<disk, known, reading, counters>>

\* Neither pointer is there: the expected one comes back from the backup.
RestorePointer(w) ==
    /\ pc[w] = "reconcile"
    /\ journal # NoJournal
    /\ manifest = NoGen
    /\ backup = journal.expected
    /\ manifest' = journal.expected
    /\ UNCHANGED <<generations, backup, journal, lock, pc, call, reading, counters>>

\* A backup is dropped when the pointer is decided without it.
DropBackup(w) ==
    /\ pc[w] = "reconcile"
    /\ backup # NoGen
    /\ IF journal = NoJournal
       THEN manifest = backup
       ELSE /\ manifest \in {journal.expected, journal.successor}
            /\ backup = journal.expected
    /\ backup' = NoGen
    /\ UNCHANGED <<generations, manifest, journal, lock, pc, call, reading, counters>>

\* Mutant: the journal goes while the backup is still there.
DropJournal_First(w) ==
    /\ pc[w] = "reconcile"
    /\ journal # NoJournal
    /\ manifest \in {journal.expected, journal.successor}
    /\ journal' = NoJournal
    /\ UNCHANGED <<generations, manifest, backup, lock, pc, call, reading, counters>>

\* Mutant: recovery returns an error for an advance that did not take effect.
DropJournal_OnlyForward(w) ==
    /\ pc[w] = "reconcile"
    /\ journal # NoJournal
    /\ backup = NoGen
    /\ IF manifest = journal.successor
       THEN journal' = NoJournal /\ UNCHANGED <<lock, pc>>
       ELSE Return(w, "idle") /\ UNCHANGED journal
    /\ UNCHANGED <<generations, manifest, backup, call, reading, counters>>

\* The journal goes last: whichever pointer is in place is the decision.
DropJournal(w) ==
    /\ pc[w] = "reconcile"
    /\ journal # NoJournal
    /\ backup = NoGen
    /\ manifest \in {journal.expected, journal.successor}
    /\ journal' = NoJournal
    /\ UNCHANGED <<generations, manifest, backup, lock, pc, call, reading, counters>>

Clean == journal = NoJournal /\ backup = NoGen

\* The load returns the pointer, after checking its generation object.
Load(w) ==
    /\ pc[w] = "reconcile"
    /\ target[w] = NoGen
    /\ Clean
    /\ manifest \in generations \cup {NoGen}
    /\ known' = [known EXCEPT ![w] = manifest]
    /\ Return(w, "ready")
    /\ UNCHANGED <<disk, target, reading, counters>>

\* Mutant: the loaded pointer is not compared again under the lock.
Expected_NotCompared(w) == TRUE

\* The write goes on only from the pointer the caller loaded.
Expected(w) == manifest = known[w]

Compare(w) ==
    /\ pc[w] = "reconcile"
    /\ target[w] # NoGen
    /\ Clean
    /\ Expected(w)
    /\ GoTo(w, "generation")
    /\ UNCHANGED <<disk, lock, call, reading, counters>>

\* ErrPreparedGeneration, or a PrepareGeneration that finds its own pointer in
\* place and has nothing to do.
NothingWritten(w) ==
    /\ pc[w] = "reconcile"
    /\ target[w] # NoGen
    /\ Clean
    /\ ~Expected(w)
    /\ IF known[w] = NoGen /\ manifest = target[w]
       THEN GoTo(w, "done") /\ UNCHANGED lock
       ELSE Return(w, "idle")
    /\ UNCHANGED <<disk, call, reading, counters>>
-----------------------------------------------------------------------------
(* The write.                                                              *)

\* The immutable object, unless it is there already.
WriteGeneration(w) ==
    /\ pc[w] = "generation"
    /\ generations' = generations \cup {target[w]}
    /\ GoTo(w, IF known[w] = NoGen THEN "pointer" ELSE "journal")
    /\ UNCHANGED <<manifest, backup, journal, lock, call, reading, counters>>

\* The first pointer: one rename, with nothing to roll back to.
WritePointer(w) ==
    /\ pc[w] = "pointer"
    /\ manifest' = target[w]
    /\ GoTo(w, "reread")
    /\ UNCHANGED <<generations, backup, journal, lock, call, reading, counters>>

WriteJournal(w) ==
    /\ pc[w] = "journal"
    /\ journal' = [expected |-> known[w], successor |-> target[w]]
    /\ GoTo(w, "backup")
    /\ UNCHANGED <<generations, manifest, backup, lock, call, reading, counters>>

LinkBackup(w) ==
    /\ pc[w] = "backup"
    /\ backup' = manifest
    /\ GoTo(w, "rename")
    /\ UNCHANGED <<generations, manifest, journal, lock, call, reading, counters>>

Rename(w) ==
    /\ pc[w] = "rename"
    /\ manifest' = target[w]
    /\ GoTo(w, "check")
    /\ UNCHANGED <<generations, backup, journal, lock, call, reading, counters>>

\* The check after the rename passed: the way back is given up.
KeepRename(w) ==
    /\ pc[w] = "check"
    /\ backup' = NoGen
    /\ GoTo(w, "dropJournal")
    /\ UNCHANGED <<generations, manifest, journal, lock, call, reading, counters>>

\* The pointer is read again, then the journal is removed.
FinishAdvance(w) ==
    /\ pc[w] = "dropJournal"
    /\ manifest = target[w]
    /\ journal' = NoJournal
    /\ GoTo(w, "done")
    /\ UNCHANGED <<generations, manifest, backup, lock, call, reading, counters>>

\* PrepareGeneration reads its pointer again.
Reread(w) ==
    /\ pc[w] = "reread"
    /\ manifest = target[w]
    /\ GoTo(w, "done")
    /\ UNCHANGED <<disk, lock, call, reading, counters>>

\* The call returns the new pointer.
Succeed(w) ==
    /\ pc[w] = "done"
    /\ Return(w, "idle")
    /\ UNCHANGED <<disk, call, reading, counters>>
-----------------------------------------------------------------------------
(* Errors and crashes.                                                     *)

\* A check around the rename fails and the replacement undoes itself: after
\* the rename it removes the new pointer and links the old one back.
CheckFails(w) ==
    /\ badChecks < MaxBadChecks
    /\ badChecks' = badChecks + 1
    /\ \/ pc[w] = "rename" /\ GoTo(w, "unlink")
       \/ pc[w] = "check" /\ GoTo(w, "unpublish")
    /\ UNCHANGED <<disk, lock, call, reading, stops>>

Unpublish(w) ==
    /\ pc[w] = "unpublish"
    /\ manifest' = NoGen
    /\ GoTo(w, "relink")
    /\ UNCHANGED <<generations, backup, journal, lock, call, reading, counters>>

Relink(w) ==
    /\ pc[w] = "relink"
    /\ manifest' = backup
    /\ GoTo(w, "unlink")
    /\ UNCHANGED <<generations, backup, journal, lock, call, reading, counters>>

\* The backup goes and the call returns its error; the journal stays.
Unlink(w) ==
    /\ pc[w] = "unlink"
    /\ backup' = NoGen
    /\ Return(w, "idle")
    /\ UNCHANGED <<generations, manifest, journal, call, reading, counters>>

\* Mutant: an error path returns without releasing the lock.
Stop_KeepsLock(w) ==
    /\ pc[w] \in Holding
    /\ stops < MaxStops
    /\ stops' = stops + 1
    /\ GoTo(w, "idle")
    /\ UNCHANGED <<disk, lock, call, reading, badChecks>>

\* The process dies, or a step fails and the call returns its error.
Stop(w) ==
    /\ pc[w] \in Holding
    /\ stops < MaxStops
    /\ stops' = stops + 1
    /\ Return(w, "idle")
    /\ UNCHANGED <<disk, call, reading, badChecks>>
-----------------------------------------------------------------------------
(* The read-only LoadPrepared.                                             *)

ReaderAt(r, from, to) ==
    /\ rpc[r] = from
    /\ rpc' = [rpc EXCEPT ![r] = to]
    /\ UNCHANGED <<disk, lock, pc, call, counters>>

\* No journal, then no backup, then the pointer, then no journal again.  A
\* missing pointer is an answer of its own, with no second look.
FirstCheck(r) ==
    /\ journal = NoJournal
    /\ ReaderAt(r, "idle", "backup")
    /\ UNCHANGED seen

BackupCheck(r) ==
    /\ ReaderAt(r, "backup", IF backup = NoGen THEN "read" ELSE "idle")
    /\ UNCHANGED seen

ReadPointer(r) ==
    /\ ReaderAt(r, "read", IF manifest = NoGen THEN "answered" ELSE "again")
    /\ seen' = [seen EXCEPT ![r] = manifest]

\* Mutant: the journal is not looked at again.
SecondCheck_Skipped(r) ==
    /\ ReaderAt(r, "again", "answered")
    /\ UNCHANGED seen

SecondCheck(r) ==
    /\ ReaderAt(r, "again", IF journal = NoJournal THEN "answered" ELSE "idle")
    /\ UNCHANGED seen

Answered(r) ==
    /\ ReaderAt(r, "answered", "idle")
    /\ UNCHANGED seen
-----------------------------------------------------------------------------
Reconcile(w) == RestorePointer(w) \/ DropBackup(w) \/ DropJournal(w)

Write(w) ==
    \/ WriteGeneration(w) \/ WritePointer(w) \/ WriteJournal(w) \/ LinkBackup(w)
    \/ Rename(w) \/ KeepRename(w) \/ FinishAdvance(w) \/ Reread(w) \/ Succeed(w)

UndoWrite(w) == Unpublish(w) \/ Relink(w) \/ Unlink(w)

\* What a writer that holds the lock does when nothing fails.
Work(w) == Reconcile(w) \/ Load(w) \/ Compare(w) \/ NothingWritten(w)
           \/ Write(w) \/ UndoWrite(w)

Writer(w) == BeginLoad(w) \/ BeginWrite(w) \/ Work(w) \/ CheckFails(w) \/ Stop(w)

Reader(r) == FirstCheck(r) \/ BackupCheck(r) \/ ReadPointer(r) \/ SecondCheck(r)
             \/ Answered(r)

\* The history variable: every value that was current while a reader's call ran.
Observe ==
    valid' = [r \in Readers |->
                 IF rpc'[r] = "idle" THEN {}
                 ELSE valid[r] \cup {Current, Current'}]

Next == /\ (\E w \in Writers : Writer(w)) \/ (\E r \in Readers : Reader(r))
        /\ Observe

Spec == Init /\ [][Next]_vars

\* A call that holds the lock goes on, and commands keep coming.
Fairness == /\ \A w \in Writers : WF_vars(Work(w) /\ Observe)
            /\ WF_vars(\E w \in Writers : BeginLoad(w) /\ Observe)

FairSpec == Spec /\ Fairness
-----------------------------------------------------------------------------
(* Properties.                                                             *)

Types ==
    /\ generations \subseteq Gens
    /\ manifest \in GenOrNone
    /\ backup \in GenOrNone
    /\ journal \in Journals \cup {NoJournal}
    /\ lock \in Writers \cup {Nobody}
    /\ pc \in [Writers -> Holding \cup {"idle", "ready"}]
    /\ known \in [Writers -> GenOrNone]
    /\ target \in [Writers -> GenOrNone]
    /\ rpc \in [Readers -> {"idle", "backup", "read", "again", "answered"}]
    /\ seen \in [Readers -> GenOrNone]
    /\ valid \in [Readers -> SUBSET GenOrNone]
    /\ stops \in 0..MaxStops
    /\ badChecks \in 0..MaxBadChecks

\* Types, and the lock: exactly the writer inside a call holds it.
TypeOK == Types /\ \A w \in Writers : (lock = w) <=> (pc[w] \in Holding)

\* No crash, error or interleaving leaves files the reconciliation refuses: a
\* backup without a journal is the pointer itself, and with a journal the
\* pointer is one of its two generations or can be restored from the backup.
Recoverable ==
    IF journal = NoJournal
    THEN backup \in {NoGen, manifest}
    ELSE /\ backup \in {NoGen, journal.expected}
         /\ \/ manifest \in {journal.expected, journal.successor}
            \/ manifest = NoGen /\ backup = journal.expected

\* Every generation a pointer, a backup or the journal names has its object, so
\* that whichever way an advance is decided its generation can be loaded.
PointersHaveObjects ==
    {manifest, backup, journal.expected, journal.successor} \subseteq generations \cup {NoGen}

\* A call that reports success has decided its advance: the pointer is its
\* generation and nothing is left that could take it back.
AckIsCommitted ==
    \A w \in Writers : pc[w] = "done" => Clean /\ manifest = target[w]

\* A read-only load answers with a pointer that was current during the call,
\* never with an advance that is undecided or was rolled back.
AnswersDurable ==
    \A r \in Readers : rpc[r] = "answered" => seen[r] \in valid[r]

\* That holds, however calls stop, as long as no replacement undoes itself after
\* its rename.
ReadersSeeCurrent == badChecks = 0 => AnswersDurable

\* The pointer with its journal is one register that only an advance from its
\* present value changes, however calls crash, fail, and are reconciled.
Register == INSTANCE AtomicPrepared
                WITH prepared <- Current, advance <- journal.successor
Linearizable == Register!Spec

\* An advance that a crash or an error left undecided is decided by later calls.
AdvanceResolves == journal # NoJournal ~> journal = NoJournal
=============================================================================
