-------------------------- MODULE MemoryStoreProofs --------------------------
(***************************************************************************)
(* Proofs about MemoryStore, for any writers, readers, generations and     *)
(* bounds: the files a call leaves behind can always be reconciled, an     *)
(* acknowledged advance is decided, and the pointer with its journal       *)
(* implements the register of AtomicPrepared.                              *)
(*                                                                         *)
(* The invariant says what the files hold at every step of a call.  Only   *)
(* the lock holder changes them, so the clauses of all other writers are   *)
(* void while it works.                                                    *)
(***************************************************************************)
EXTENDS MemoryStore, TLAPS

\* The files while a write has not touched the pointer.
Untouched == {"generation", "pointer", "journal"}

\* The steps of an advance with its journal in place.
Journaled == {"backup", "rename", "check", "dropJournal"} \cup Undoing

Stage(w) ==
    /\ pc[w] \in Writing \cup Undoing \cup {"done"} => target[w] \in Gens
    /\ pc[w] \in Untouched \cup {"reconcile"} => target[w] = NoGen \/ target[w] # known[w]
    /\ pc[w] \in Untouched => Clean /\ manifest = known[w]
    /\ pc[w] = "pointer" => known[w] = NoGen
    /\ pc[w] \in Journaled \cup {"journal"} => known[w] \in Gens
    /\ pc[w] \in {"pointer", "journal"} => target[w] \in generations
    /\ pc[w] \in Journaled => journal = [expected |-> known[w], successor |-> target[w]]
    /\ pc[w] \in {"backup", "rename", "unlink"} => manifest = known[w]
    /\ pc[w] \in {"check", "unpublish", "dropJournal", "reread", "done"} => manifest = target[w]
    /\ pc[w] = "relink" => manifest = NoGen
    /\ pc[w] \in {"rename", "check"} \cup Undoing => backup = known[w]
    /\ pc[w] \in {"backup", "dropJournal"} => backup = NoGen
    /\ pc[w] \in {"reread", "done"} => Clean

IInv == /\ TypeOK
        /\ Recoverable
        /\ PointersHaveObjects
        /\ \A w \in Writers : Stage(w)
-----------------------------------------------------------------------------
\* The empty journal names no generations.
LEMMA NoJournalType == NoJournal \notin Journals /\ NoGen \notin Gens
  BY MemoryStoreAssumption DEF NoJournal, Journals

\* The lock excludes every other writer from a call.
LEMMA OneHolder ==
    ASSUME TypeOK, NEW w \in Writers, lock \in {w, Nobody},
           NEW v \in Writers, v # w
    PROVE  pc[v] \notin Holding
  BY MemoryStoreAssumption DEF TypeOK

\* What the store answers is a generation or nothing.
LEMMA CurrentType ==
    ASSUME Types
    PROVE  Current \in GenOrNone
  BY DEF Types, Current, Journals, GenOrNone

\* The history variable keeps its type.
LEMMA ObserveType ==
    ASSUME Types, Current' \in GenOrNone, Observe,
           rpc' \in [Readers -> {"idle", "backup", "read", "again", "answered"}]
    PROVE  valid' \in [Readers -> SUBSET GenOrNone]
  BY CurrentType DEF Types, Observe

\* Before the first call there are no files.
LEMMA InitInvariant == Init => IInv
  BY MemoryStoreAssumption
    DEF Init, IInv, TypeOK, Types, Recoverable, PointersHaveObjects, Stage, Untouched,
         Journaled, Holding, Reconciling, Writing, Undoing, GenOrNone, NoJournal

\* BeginLoad keeps the invariant.
LEMMA BeginLoadStep ==
    ASSUME IInv, NEW w \in Writers, BeginLoad(w), Observe
    PROVE  IInv'
  <1>. USE MemoryStoreAssumption, NoJournalType
        DEF IInv, BeginLoad, GoTo, Return, disk, call, reading, counters, Holding, Reconciling,
             Writing, Undoing
  <1>1. Types'
    <2>1. Current' \in GenOrNone
      BY DEF TypeOK, Types, Current, Journals, GenOrNone
    <2>2. QED
      BY <2>1, ObserveType DEF TypeOK, Types, GenOrNone
  <1>2. TypeOK'
    BY <1>1 DEF TypeOK, Types
  <1>3. Recoverable' /\ PointersHaveObjects'
    BY DEF Recoverable, PointersHaveObjects
  <1>4. Stage(w)'
    BY DEF TypeOK, Types, Stage, Untouched, Journaled
  <1>5. ASSUME NEW v \in Writers, v # w PROVE Stage(v)'
    <2>1. pc[v] \notin Holding
      BY OneHolder
    <2>2. pc'[v] = pc[v]
      BY <1>5
    <2>3. QED
      BY <2>1, <2>2 DEF Stage, Untouched, Journaled
  <1>6. QED
    BY <1>2, <1>3, <1>4, <1>5

\* BeginWrite keeps the invariant.
LEMMA BeginWriteStep ==
    ASSUME IInv, NEW w \in Writers, BeginWrite(w), Observe
    PROVE  IInv'
  <1>. USE MemoryStoreAssumption, NoJournalType
        DEF IInv, BeginWrite, GoTo, Return, disk, call, reading, counters, Holding,
             Reconciling, Writing, Undoing
  <1>1. Types'
    <2>1. Current' \in GenOrNone
      BY DEF TypeOK, Types, Current, Journals, GenOrNone
    <2>2. QED
      BY <2>1, ObserveType DEF TypeOK, Types, GenOrNone
  <1>2. TypeOK'
    BY <1>1 DEF TypeOK, Types
  <1>3. Recoverable' /\ PointersHaveObjects'
    BY DEF Recoverable, PointersHaveObjects
  <1>4. Stage(w)'
    BY DEF TypeOK, Types, Stage, Untouched, Journaled
  <1>5. ASSUME NEW v \in Writers, v # w PROVE Stage(v)'
    <2>1. pc[v] \notin Holding
      BY OneHolder
    <2>2. pc'[v] = pc[v]
      BY <1>5
    <2>3. QED
      BY <2>1, <2>2 DEF Stage, Untouched, Journaled
  <1>6. QED
    BY <1>2, <1>3, <1>4, <1>5

\* RestorePointer keeps the invariant.
LEMMA RestorePointerStep ==
    ASSUME IInv, NEW w \in Writers, RestorePointer(w), Observe
    PROVE  IInv'
  <1>. USE MemoryStoreAssumption, NoJournalType
        DEF IInv, RestorePointer, GoTo, Return, disk, call, reading, counters, Holding,
             Reconciling, Writing, Undoing
  <1>1. Types'
    <2>1. Current' \in GenOrNone
      BY DEF TypeOK, Types, Current
    <2>2. QED
      BY <2>1, ObserveType DEF TypeOK, Types
  <1>2. TypeOK'
    BY <1>1 DEF TypeOK
  <1>3. Recoverable' /\ PointersHaveObjects'
    BY DEF Recoverable, PointersHaveObjects
  <1>4. Stage(w)'
    BY DEF Stage, Clean
  <1>5. ASSUME NEW v \in Writers, v # w PROVE Stage(v)'
    <2>1. pc[v] \notin Holding
      BY <1>5 DEF TypeOK
    <2>2. pc'[v] = pc[v]
      OBVIOUS
    <2>3. QED
      BY <2>1 DEF Stage, Untouched
  <1>6. QED
    BY <1>2, <1>3, <1>4, <1>5

\* DropBackup keeps the invariant.
LEMMA DropBackupStep ==
    ASSUME IInv, NEW w \in Writers, DropBackup(w), Observe
    PROVE  IInv'
  <1>. USE MemoryStoreAssumption, NoJournalType
        DEF IInv, DropBackup, GoTo, Return, disk, call, reading, counters, Holding,
             Reconciling, Writing, Undoing
  <1>1. Types'
    <2>1. Current' \in GenOrNone
      BY DEF TypeOK, Types, Current
    <2>2. QED
      BY <2>1, ObserveType DEF TypeOK, Types, GenOrNone
  <1>2. TypeOK'
    BY <1>1 DEF TypeOK
  <1>3. Recoverable' /\ PointersHaveObjects'
    BY DEF Recoverable, PointersHaveObjects
  <1>4. Stage(w)'
    BY DEF Stage, Clean
  <1>5. ASSUME NEW v \in Writers, v # w PROVE Stage(v)'
    <2>1. pc[v] \notin Holding
      BY <1>5 DEF TypeOK
    <2>2. pc'[v] = pc[v]
      OBVIOUS
    <2>3. QED
      BY <2>1 DEF Stage, Untouched
  <1>6. QED
    BY <1>2, <1>3, <1>4, <1>5

\* DropJournal keeps the invariant.
LEMMA DropJournalStep ==
    ASSUME IInv, NEW w \in Writers, DropJournal(w), Observe
    PROVE  IInv'
  <1>. USE MemoryStoreAssumption, NoJournalType
        DEF IInv, DropJournal, GoTo, Return, disk, call, reading, counters, Holding,
             Reconciling, Writing, Undoing
  <1>1. Types'
    <2>1. Current' \in GenOrNone
      BY DEF TypeOK, Types, Current
    <2>2. QED
      BY <2>1, ObserveType DEF TypeOK, Types
  <1>2. TypeOK'
    BY <1>1 DEF TypeOK
  <1>3. Recoverable' /\ PointersHaveObjects'
    BY DEF Recoverable, PointersHaveObjects, NoJournal
  <1>4. Stage(w)'
    BY DEF Stage, Clean, Journaled
  <1>5. ASSUME NEW v \in Writers, v # w PROVE Stage(v)'
    <2>1. pc[v] \notin Holding
      BY <1>5 DEF TypeOK
    <2>2. pc'[v] = pc[v]
      OBVIOUS
    <2>3. QED
      BY <2>1 DEF Stage, Untouched, Journaled
  <1>6. QED
    BY <1>2, <1>3, <1>4, <1>5

\* Load keeps the invariant.
LEMMA LoadStep ==
    ASSUME IInv, NEW w \in Writers, Load(w), Observe
    PROVE  IInv'
  <1>. USE MemoryStoreAssumption, NoJournalType
        DEF IInv, Load, GoTo, Return, disk, call, reading, counters, Holding, Reconciling,
             Writing, Undoing
  <1>1. Types'
    <2>1. Current' \in GenOrNone
      BY DEF TypeOK, Types, Current, Journals, GenOrNone
    <2>2. QED
      BY <2>1, ObserveType DEF TypeOK, Types
  <1>2. TypeOK'
    BY <1>1 DEF TypeOK, Types
  <1>3. Recoverable' /\ PointersHaveObjects'
    BY DEF Recoverable, PointersHaveObjects
  <1>4. Stage(w)'
    BY DEF TypeOK, Types, Stage, Clean, Journaled
  <1>5. ASSUME NEW v \in Writers, v # w PROVE Stage(v)'
    <2>1. pc[v] \notin Holding
      BY <1>5 DEF TypeOK
    <2>2. pc'[v] = pc[v]
      BY <1>5
    <2>3. QED
      BY <2>1 DEF Stage, Untouched
  <1>6. QED
    BY <1>2, <1>3, <1>4, <1>5

\* Compare keeps the invariant.
LEMMA CompareStep ==
    ASSUME IInv, NEW w \in Writers, Compare(w), Observe
    PROVE  IInv'
  <1>. USE MemoryStoreAssumption, NoJournalType
        DEF IInv, Compare, GoTo, Return, disk, call, reading, counters, Holding, Reconciling,
             Writing, Undoing
  <1>1. Types'
    <2>1. Current' \in GenOrNone
      BY DEF TypeOK, Types, Current, Journals, GenOrNone
    <2>2. QED
      BY <2>1, ObserveType DEF TypeOK, Types
  <1>2. TypeOK'
    BY <1>1 DEF TypeOK
  <1>3. Recoverable' /\ PointersHaveObjects'
    BY DEF Recoverable, PointersHaveObjects
  <1>4. Stage(w)'
    BY DEF TypeOK, Types, Stage, Clean, Journaled, Expected, GenOrNone
  <1>5. ASSUME NEW v \in Writers, v # w PROVE Stage(v)'
    <2>1. pc[v] \notin Holding
      BY <1>5 DEF TypeOK
    <2>2. pc'[v] = pc[v]
      BY <1>5
    <2>3. QED
      BY <2>1 DEF Stage, Untouched
  <1>6. QED
    BY <1>2, <1>3, <1>4, <1>5

\* NothingWritten keeps the invariant.
LEMMA NothingWrittenStep ==
    ASSUME IInv, NEW w \in Writers, NothingWritten(w), Observe
    PROVE  IInv'
  <1>. USE MemoryStoreAssumption, NoJournalType
        DEF IInv, NothingWritten, GoTo, Return, disk, call, reading, counters, Holding,
             Reconciling, Writing, Undoing
  <1>1. Types'
    <2>1. Current' \in GenOrNone
      BY DEF TypeOK, Types, Current, Journals, GenOrNone
    <2>2. QED
      BY <2>1, ObserveType DEF TypeOK, Types
  <1>2. TypeOK'
    BY <1>1 DEF TypeOK, Types
  <1>3. Recoverable' /\ PointersHaveObjects'
    BY DEF Recoverable, PointersHaveObjects
  <1>4. Stage(w)'
    BY DEF TypeOK, Types, PointersHaveObjects, Stage, Clean, Untouched, Journaled
  <1>5. ASSUME NEW v \in Writers, v # w PROVE Stage(v)'
    <2>1. pc[v] \notin Holding
      BY <1>5 DEF TypeOK
    <2>2. pc'[v] = pc[v]
      BY <1>5 DEF TypeOK, Types
    <2>3. QED
      BY <2>1, <2>2 DEF Stage, Untouched
  <1>6. QED
    BY <1>2, <1>3, <1>4, <1>5

\* WriteGeneration keeps the invariant.
LEMMA WriteGenerationStep ==
    ASSUME IInv, NEW w \in Writers, WriteGeneration(w), Observe
    PROVE  IInv'
  <1>. USE MemoryStoreAssumption, NoJournalType
        DEF IInv, WriteGeneration, GoTo, Return, disk, call, reading, counters, Holding,
             Reconciling, Writing, Undoing
  <1>1. Types'
    <2>1. Current' \in GenOrNone
      BY DEF TypeOK, Types, Current, Journals, GenOrNone
    <2>2. QED
      BY <2>1, ObserveType DEF TypeOK, Types, Stage
  <1>2. TypeOK'
    BY <1>1 DEF TypeOK
  <1>3. Recoverable' /\ PointersHaveObjects'
    BY DEF Recoverable, PointersHaveObjects
  <1>4. Stage(w)'
    BY DEF TypeOK, Types, PointersHaveObjects, Stage, Clean, Untouched, Journaled
  <1>5. ASSUME NEW v \in Writers, v # w PROVE Stage(v)'
    <2>1. pc[v] \notin Holding
      BY <1>5 DEF TypeOK
    <2>2. pc'[v] = pc[v]
      BY <1>5
    <2>3. QED
      BY <2>1 DEF Stage, Untouched
  <1>6. QED
    BY <1>2, <1>3, <1>4, <1>5

\* WritePointer keeps the invariant.
LEMMA WritePointerStep ==
    ASSUME IInv, NEW w \in Writers, WritePointer(w), Observe
    PROVE  IInv'
  <1>. USE MemoryStoreAssumption, NoJournalType
        DEF IInv, WritePointer, GoTo, Return, disk, call, reading, counters, Holding,
             Reconciling, Writing, Undoing
  <1>1. Types'
    <2>1. Current' \in GenOrNone
      BY DEF TypeOK, Types, Current, Journals, GenOrNone
    <2>2. QED
      BY <2>1, ObserveType DEF TypeOK, Types
  <1>2. TypeOK'
    BY <1>1 DEF TypeOK
  <1>3. Recoverable' /\ PointersHaveObjects'
    BY DEF Recoverable, PointersHaveObjects, Stage, Clean, Untouched
  <1>4. Stage(w)'
    BY DEF TypeOK, Types, Stage, Clean, Untouched, Journaled
  <1>5. ASSUME NEW v \in Writers, v # w PROVE Stage(v)'
    <2>1. pc[v] \notin Holding
      BY <1>5 DEF TypeOK
    <2>2. pc'[v] = pc[v]
      BY <1>5
    <2>3. QED
      BY <2>1 DEF Stage, Untouched
  <1>6. QED
    BY <1>2, <1>3, <1>4, <1>5

\* WriteJournal keeps the invariant.
LEMMA WriteJournalStep ==
    ASSUME IInv, NEW w \in Writers, WriteJournal(w), Observe
    PROVE  IInv'
  <1>. USE MemoryStoreAssumption, NoJournalType
        DEF IInv, WriteJournal, GoTo, Return, disk, call, reading, counters, Holding,
             Reconciling, Writing, Undoing
  <1>1. Types'
    <2>1. Current' \in GenOrNone
      BY DEF TypeOK, Types, Current
    <2>2. QED
      BY <2>1, ObserveType DEF TypeOK, Types, Stage, Journals
  <1>2. TypeOK'
    BY <1>1 DEF TypeOK
  <1>3. Recoverable' /\ PointersHaveObjects'
    BY DEF Recoverable, PointersHaveObjects, Stage, Clean, Untouched
  <1>4. Stage(w)'
    BY DEF TypeOK, Types, Stage, Clean, Untouched
  <1>5. ASSUME NEW v \in Writers, v # w PROVE Stage(v)'
    <2>1. pc[v] \notin Holding
      BY <1>5 DEF TypeOK
    <2>2. pc'[v] = pc[v]
      BY <1>5
    <2>3. QED
      BY <2>1 DEF Stage, Untouched, Journaled
  <1>6. QED
    BY <1>2, <1>3, <1>4, <1>5

\* LinkBackup keeps the invariant.
LEMMA LinkBackupStep ==
    ASSUME IInv, NEW w \in Writers, LinkBackup(w), Observe
    PROVE  IInv'
  <1>. USE MemoryStoreAssumption, NoJournalType
        DEF IInv, LinkBackup, GoTo, Return, disk, call, reading, counters, Holding,
             Reconciling, Writing, Undoing
  <1>1. Types'
    <2>1. Current' \in GenOrNone
      BY DEF TypeOK, Types, Current, Journals, GenOrNone
    <2>2. QED
      BY <2>1, ObserveType DEF TypeOK, Types
  <1>2. TypeOK'
    BY <1>1 DEF TypeOK
  <1>3. Recoverable' /\ PointersHaveObjects'
    BY DEF Recoverable, PointersHaveObjects, Stage, Journaled
  <1>4. Stage(w)'
    BY DEF TypeOK, Types, Stage, Untouched, Journaled
  <1>5. ASSUME NEW v \in Writers, v # w PROVE Stage(v)'
    <2>1. pc[v] \notin Holding
      BY <1>5 DEF TypeOK
    <2>2. pc'[v] = pc[v]
      BY <1>5
    <2>3. QED
      BY <2>1 DEF Stage, Untouched
  <1>6. QED
    BY <1>2, <1>3, <1>4, <1>5

\* Rename keeps the invariant.
LEMMA RenameStep ==
    ASSUME IInv, NEW w \in Writers, Rename(w), Observe
    PROVE  IInv'
  <1>. USE MemoryStoreAssumption, NoJournalType
        DEF IInv, Rename, GoTo, Return, disk, call, reading, counters, Holding, Reconciling,
             Writing, Undoing
  <1>1. Types'
    <2>1. Current' \in GenOrNone
      BY DEF TypeOK, Types, Current, Journals, GenOrNone
    <2>2. QED
      BY <2>1, ObserveType DEF TypeOK, Types
  <1>2. TypeOK'
    BY <1>1 DEF TypeOK
  <1>3. Recoverable' /\ PointersHaveObjects'
    BY DEF Recoverable, PointersHaveObjects, Stage, Journaled, Journals
  <1>4. Stage(w)'
    BY DEF TypeOK, Types, Stage, Untouched, Journaled
  <1>5. ASSUME NEW v \in Writers, v # w PROVE Stage(v)'
    <2>1. pc[v] \notin Holding
      BY <1>5 DEF TypeOK
    <2>2. pc'[v] = pc[v]
      BY <1>5
    <2>3. QED
      BY <2>1 DEF Stage, Untouched
  <1>6. QED
    BY <1>2, <1>3, <1>4, <1>5

\* KeepRename keeps the invariant.
LEMMA KeepRenameStep ==
    ASSUME IInv, NEW w \in Writers, KeepRename(w), Observe
    PROVE  IInv'
  <1>. USE MemoryStoreAssumption, NoJournalType
        DEF IInv, KeepRename, GoTo, Return, disk, call, reading, counters, Holding,
             Reconciling, Writing, Undoing
  <1>1. Types'
    <2>1. Current' \in GenOrNone
      BY DEF TypeOK, Types, Current, Journals, GenOrNone
    <2>2. QED
      BY <2>1, ObserveType DEF TypeOK, Types, GenOrNone
  <1>2. TypeOK'
    BY <1>1 DEF TypeOK
  <1>3. Recoverable' /\ PointersHaveObjects'
    BY DEF Recoverable, PointersHaveObjects, Stage
  <1>4. Stage(w)'
    BY DEF TypeOK, Types, Stage, Untouched, Journaled
  <1>5. ASSUME NEW v \in Writers, v # w PROVE Stage(v)'
    <2>1. pc[v] \notin Holding
      BY <1>5 DEF TypeOK
    <2>2. pc'[v] = pc[v]
      BY <1>5
    <2>3. QED
      BY <2>1 DEF Stage, Untouched
  <1>6. QED
    BY <1>2, <1>3, <1>4, <1>5

\* FinishAdvance keeps the invariant.
LEMMA FinishAdvanceStep ==
    ASSUME IInv, NEW w \in Writers, FinishAdvance(w), Observe
    PROVE  IInv'
  <1>. USE MemoryStoreAssumption, NoJournalType
        DEF IInv, FinishAdvance, GoTo, Return, disk, call, reading, counters, Holding,
             Reconciling, Writing, Undoing
  <1>1. Types'
    <2>1. Current' \in GenOrNone
      BY DEF TypeOK, Types, Current
    <2>2. QED
      BY <2>1, ObserveType DEF TypeOK, Types
  <1>2. TypeOK'
    BY <1>1 DEF TypeOK
  <1>3. Recoverable' /\ PointersHaveObjects'
    BY DEF Recoverable, PointersHaveObjects, Stage, NoJournal
  <1>4. Stage(w)'
    BY DEF TypeOK, Types, Stage, Clean, Untouched, Journaled
  <1>5. ASSUME NEW v \in Writers, v # w PROVE Stage(v)'
    <2>1. pc[v] \notin Holding
      BY <1>5 DEF TypeOK
    <2>2. pc'[v] = pc[v]
      BY <1>5
    <2>3. QED
      BY <2>1 DEF Stage, Untouched, Journaled
  <1>6. QED
    BY <1>2, <1>3, <1>4, <1>5

\* Reread keeps the invariant.
LEMMA RereadStep ==
    ASSUME IInv, NEW w \in Writers, Reread(w), Observe
    PROVE  IInv'
  <1>. USE MemoryStoreAssumption, NoJournalType
        DEF IInv, Reread, GoTo, Return, disk, call, reading, counters, Holding, Reconciling,
             Writing, Undoing
  <1>1. Types'
    <2>1. Current' \in GenOrNone
      BY DEF TypeOK, Types, Current, Journals, GenOrNone
    <2>2. QED
      BY <2>1, ObserveType DEF TypeOK, Types
  <1>2. TypeOK'
    BY <1>1 DEF TypeOK
  <1>3. Recoverable' /\ PointersHaveObjects'
    BY DEF Recoverable, PointersHaveObjects
  <1>4. Stage(w)'
    BY DEF Stage, Clean, Untouched, Journaled
  <1>5. ASSUME NEW v \in Writers, v # w PROVE Stage(v)'
    <2>1. pc[v] \notin Holding
      BY <1>5 DEF TypeOK
    <2>2. pc'[v] = pc[v]
      BY <1>5
    <2>3. QED
      BY <2>1 DEF Stage, Untouched
  <1>6. QED
    BY <1>2, <1>3, <1>4, <1>5

\* Succeed keeps the invariant.
LEMMA SucceedStep ==
    ASSUME IInv, NEW w \in Writers, Succeed(w), Observe
    PROVE  IInv'
  <1>. USE MemoryStoreAssumption, NoJournalType
        DEF IInv, Succeed, GoTo, Return, disk, call, reading, counters, Holding, Reconciling,
             Writing, Undoing
  <1>1. Types'
    <2>1. Current' \in GenOrNone
      BY DEF TypeOK, Types, Current, Journals, GenOrNone
    <2>2. QED
      BY <2>1, ObserveType DEF TypeOK, Types
  <1>2. TypeOK'
    BY <1>1 DEF TypeOK, Types
  <1>3. Recoverable' /\ PointersHaveObjects'
    BY DEF Recoverable, PointersHaveObjects
  <1>4. Stage(w)'
    BY DEF TypeOK, Types, Stage, Untouched, Journaled
  <1>5. ASSUME NEW v \in Writers, v # w PROVE Stage(v)'
    <2>1. pc[v] \notin Holding
      BY <1>5 DEF TypeOK
    <2>2. pc'[v] = pc[v]
      BY <1>5
    <2>3. QED
      BY <2>1 DEF Stage, Untouched
  <1>6. QED
    BY <1>2, <1>3, <1>4, <1>5

\* Unpublish keeps the invariant.
LEMMA UnpublishStep ==
    ASSUME IInv, NEW w \in Writers, Unpublish(w), Observe
    PROVE  IInv'
  <1>. USE MemoryStoreAssumption, NoJournalType
        DEF IInv, Unpublish, GoTo, Return, disk, call, reading, counters, Holding, Reconciling,
             Writing, Undoing
  <1>1. Types'
    <2>1. Current' \in GenOrNone
      BY DEF TypeOK, Types, Current, Journals, GenOrNone
    <2>2. QED
      BY <2>1, ObserveType DEF TypeOK, Types, GenOrNone
  <1>2. TypeOK'
    BY <1>1 DEF TypeOK
  <1>3. Recoverable' /\ PointersHaveObjects'
    BY DEF Recoverable, PointersHaveObjects, Stage, Journaled, Journals
  <1>4. Stage(w)'
    BY DEF TypeOK, Types, Stage, Untouched, Journaled
  <1>5. ASSUME NEW v \in Writers, v # w PROVE Stage(v)'
    <2>1. pc[v] \notin Holding
      BY <1>5 DEF TypeOK
    <2>2. pc'[v] = pc[v]
      BY <1>5
    <2>3. QED
      BY <2>1 DEF Stage, Untouched
  <1>6. QED
    BY <1>2, <1>3, <1>4, <1>5

\* Relink keeps the invariant.
LEMMA RelinkStep ==
    ASSUME IInv, NEW w \in Writers, Relink(w), Observe
    PROVE  IInv'
  <1>. USE MemoryStoreAssumption, NoJournalType
        DEF IInv, Relink, GoTo, Return, disk, call, reading, counters, Holding, Reconciling,
             Writing, Undoing
  <1>1. Types'
    <2>1. Current' \in GenOrNone
      BY DEF TypeOK, Types, Current, Journals, GenOrNone
    <2>2. QED
      BY <2>1, ObserveType DEF TypeOK, Types
  <1>2. TypeOK'
    BY <1>1 DEF TypeOK
  <1>3. Recoverable' /\ PointersHaveObjects'
    BY DEF Recoverable, PointersHaveObjects, Stage
  <1>4. Stage(w)'
    BY DEF TypeOK, Types, Stage, Untouched, Journaled
  <1>5. ASSUME NEW v \in Writers, v # w PROVE Stage(v)'
    <2>1. pc[v] \notin Holding
      BY <1>5 DEF TypeOK
    <2>2. pc'[v] = pc[v]
      BY <1>5
    <2>3. QED
      BY <2>1 DEF Stage, Untouched
  <1>6. QED
    BY <1>2, <1>3, <1>4, <1>5

\* Unlink keeps the invariant.
LEMMA UnlinkStep ==
    ASSUME IInv, NEW w \in Writers, Unlink(w), Observe
    PROVE  IInv'
  <1>. USE MemoryStoreAssumption, NoJournalType
        DEF IInv, Unlink, GoTo, Return, disk, call, reading, counters, Holding, Reconciling,
             Writing, Undoing
  <1>1. Types'
    <2>1. Current' \in GenOrNone
      BY DEF TypeOK, Types, Current, Journals, GenOrNone
    <2>2. QED
      BY <2>1, ObserveType DEF TypeOK, Types, GenOrNone
  <1>2. TypeOK'
    BY <1>1 DEF TypeOK, Types
  <1>3. Recoverable' /\ PointersHaveObjects'
    BY DEF Recoverable, PointersHaveObjects, Stage
  <1>4. Stage(w)'
    BY DEF TypeOK, Types, Stage, Untouched, Journaled
  <1>5. ASSUME NEW v \in Writers, v # w PROVE Stage(v)'
    <2>1. pc[v] \notin Holding
      BY <1>5 DEF TypeOK
    <2>2. pc'[v] = pc[v]
      BY <1>5
    <2>3. QED
      BY <2>1 DEF Stage, Untouched
  <1>6. QED
    BY <1>2, <1>3, <1>4, <1>5

\* CheckFails keeps the invariant.
LEMMA CheckFailsStep ==
    ASSUME IInv, NEW w \in Writers, CheckFails(w), Observe
    PROVE  IInv'
  <1>. USE MemoryStoreAssumption, NoJournalType
        DEF IInv, CheckFails, GoTo, Return, disk, call, reading, counters, Holding,
             Reconciling, Writing, Undoing
  <1>1. Types'
    <2>1. Current' \in GenOrNone
      BY DEF TypeOK, Types, Current, Journals, GenOrNone
    <2>2. QED
      BY <2>1, ObserveType DEF TypeOK, Types
  <1>2. TypeOK'
    BY <1>1 DEF TypeOK, Types
  <1>3. Recoverable' /\ PointersHaveObjects'
    BY DEF Recoverable, PointersHaveObjects
  <1>4. Stage(w)'
    BY DEF TypeOK, Types, Stage, Untouched, Journaled
  <1>5. ASSUME NEW v \in Writers, v # w PROVE Stage(v)'
    <2>1. pc[v] \notin Holding
      BY <1>5 DEF TypeOK
    <2>2. pc'[v] = pc[v]
      BY <1>5 DEF TypeOK, Types
    <2>3. QED
      BY <2>1, <2>2 DEF Stage, Untouched
  <1>6. QED
    BY <1>2, <1>3, <1>4, <1>5

\* Stop keeps the invariant.
LEMMA StopStep ==
    ASSUME IInv, NEW w \in Writers, Stop(w), Observe
    PROVE  IInv'
  <1>. USE MemoryStoreAssumption, NoJournalType
        DEF IInv, Stop, GoTo, Return, disk, call, reading, counters, Holding, Reconciling,
             Writing, Undoing
  <1>1. Types'
    <2>1. Current' \in GenOrNone
      BY DEF TypeOK, Types, Current, Journals, GenOrNone
    <2>2. QED
      BY <2>1, ObserveType DEF TypeOK, Types
  <1>2. TypeOK'
    BY <1>1 DEF TypeOK, Types
  <1>3. Recoverable' /\ PointersHaveObjects'
    BY DEF Recoverable, PointersHaveObjects
  <1>4. Stage(w)'
    BY DEF TypeOK, Types, Stage, Untouched, Journaled
  <1>5. ASSUME NEW v \in Writers, v # w PROVE Stage(v)'
    <2>1. pc[v] \notin Holding
      BY <1>5 DEF TypeOK
    <2>2. pc'[v] = pc[v]
      BY <1>5
    <2>3. QED
      BY <2>1 DEF Stage, Untouched
  <1>6. QED
    BY <1>2, <1>3, <1>4, <1>5

\* A reader changes no file, so it keeps the invariant.
LEMMA ReaderStep ==
    ASSUME IInv, NEW r \in Readers, Reader(r), Observe
    PROVE  IInv'
  <1>1. UNCHANGED <<disk, lock, pc, call, counters>>
    BY DEF Reader, FirstCheck, BackupCheck, ReadPointer, SecondCheck, Answered, ReaderAt
  <1>2. /\ rpc' \in [Readers -> {"idle", "backup", "read", "again", "answered"}]
        /\ seen' \in [Readers -> GenOrNone]
    BY
      DEF IInv, TypeOK, Types, Reader, FirstCheck, BackupCheck, ReadPointer, SecondCheck,
           Answered, ReaderAt
  <1>3. Current' \in GenOrNone
    BY <1>1, CurrentType DEF IInv, TypeOK, Current, disk
  <1>4. TypeOK'
    BY <1>1, <1>2, <1>3, ObserveType DEF IInv, TypeOK, Types, disk, call, counters
  <1>5. QED
    BY <1>1, <1>4 DEF IInv, Recoverable, PointersHaveObjects, Stage, Clean, disk, call

\* A step of the specification keeps the invariant.
LEMMA NextInvariant == IInv /\ [Next]_vars => IInv'
  <1>. SUFFICES ASSUME IInv, [Next]_vars PROVE IInv'
    OBVIOUS
  <1>1. CASE \E w \in Writers : Writer(w) /\ Observe
    BY <1>1, BeginLoadStep, BeginWriteStep, RestorePointerStep, DropBackupStep,
         DropJournalStep, LoadStep, CompareStep, NothingWrittenStep, WriteGenerationStep,
         WritePointerStep, WriteJournalStep, LinkBackupStep, RenameStep, KeepRenameStep,
         FinishAdvanceStep, RereadStep, SucceedStep, UnpublishStep, RelinkStep, UnlinkStep,
         CheckFailsStep, StopStep
      DEF Writer, Work, Reconcile, Write, UndoWrite
  <1>2. CASE \E r \in Readers : Reader(r) /\ Observe
    BY <1>2, ReaderStep
  <1>3. CASE UNCHANGED vars
    BY <1>3 DEF vars, IInv, TypeOK, Types, Recoverable, PointersHaveObjects, Stage, Clean
  <1>4. QED
    BY <1>1, <1>2, <1>3 DEF Next
-----------------------------------------------------------------------------
\* The inductive invariant holds throughout.
THEOREM Invariant == Spec => []IInv
  BY InitInvariant, NextInvariant, PTL DEF Spec

\* Types are kept, and exactly the writer inside a call holds the store lock
\* (withStoreLock).
THEOREM TypeCorrect == Spec => []TypeOK
  BY Invariant, PTL DEF IInv

\* Whatever call crashes or fails, the next reconcilePreparedAdvanceUnlocked
\* finds files it can decide.
THEOREM AlwaysRecoverable == Spec => []Recoverable
  BY Invariant, PTL DEF IInv

\* No pointer, backup or journal names a generation without its object.
THEOREM ObjectsFirst == Spec => []PointersHaveObjects
  BY Invariant, PTL DEF IInv

\* A successful return of PrepareGeneration or AdvancePrepared is final.
THEOREM AckCommitted == Spec => []AckIsCommitted
  <1>1. IInv => AckIsCommitted
    BY DEF IInv, Stage, AckIsCommitted
  <1>2. QED
    BY Invariant, <1>1, PTL

\* The store implements the register.
THEOREM Implements == Spec => Linearizable
  <1>1. Init => Register!Init
    BY DEF Init, Register!Init, Current, NoJournal
  <1>2. IInv /\ [Next]_vars => [Register!Next]_Register!vars
    <2>. SUFFICES ASSUME IInv, [Next]_vars PROVE [Register!Next]_Register!vars
      OBVIOUS
    <2>. USE NoJournalType DEF Register!Next, Register!vars, Current
    <2>1. CASE \E w \in Writers : Writer(w) /\ Observe
      <3>1. PICK w \in Writers : Writer(w)
        BY <2>1
      <3>. USE DEF IInv, Stage, disk, Holding, Writing, Undoing
      <3>2. CASE WritePointer(w)
        BY <3>2 DEF WritePointer, Register!Prepare, Untouched, NoJournal
      <3>3. CASE WriteJournal(w)
        BY <3>3 DEF WriteJournal, Register!Start, Untouched, Clean, NoJournal
      <3>4. CASE FinishAdvance(w)
        BY <3>4 DEF FinishAdvance, Register!Commit, Journaled, NoJournal
      <3>5. CASE DropJournal(w)
        BY <3>5
          DEF DropJournal, Register!Commit, Register!Abort, TypeOK, Types, Journals, NoJournal
      <3>6. CASE Rename(w) \/ Unpublish(w) \/ Relink(w) \/ RestorePointer(w)
        BY <3>6 DEF Rename, Unpublish, Relink, RestorePointer, Journaled, NoJournal
      <3>7. CASE manifest' = manifest /\ journal' = journal
        BY <3>7
      <3>8. QED
        BY <3>1, <3>2, <3>3, <3>4, <3>5, <3>6
          DEF Writer, Work, Reconcile, Write, UndoWrite, BeginLoad, BeginWrite, DropBackup,
               Load, Compare, NothingWritten, WriteGeneration, LinkBackup, KeepRename, Reread,
               Succeed, Unlink, CheckFails, Stop
    <2>2. CASE \E r \in Readers : Reader(r) /\ Observe
      BY <2>2
        DEF Reader, FirstCheck, BackupCheck, ReadPointer, SecondCheck, Answered, ReaderAt, disk
    <2>3. CASE UNCHANGED vars
      BY <2>3 DEF vars
    <2>4. QED
      BY <2>1, <2>2, <2>3 DEF Next
  <1>3. QED
    BY Invariant, <1>1, <1>2, PTL DEF Spec, Linearizable, Register!Spec
-----------------------------------------------------------------------------
(* Readers.  An undecided advance they read is one that will be committed,  *)
(* as long as no replacement undoes itself.                                 *)

ReaderStage(r) ==
    /\ rpc[r] = "again" => \/ seen[r] \in valid[r]
                           \/ /\ journal # NoJournal
                              /\ manifest = journal.successor
                              /\ seen[r] = manifest
    /\ rpc[r] = "answered" => seen[r] \in valid[r]

NothingUndone ==
    /\ \A w \in Writers : pc[w] \notin Undoing
    /\ journal # NoJournal => manifest # NoGen

ReadersInv ==
    badChecks = 0 => NothingUndone /\ \A r \in Readers : ReaderStage(r)

\* Once the new pointer is in place, a writer that is not undoing keeps it and
\* at most drops the journal.
LEMMA AdvanceStays ==
    ASSUME IInv, NothingUndone, NEW w \in Writers, Writer(w), badChecks' = 0
    PROVE  /\ NothingUndone'
           /\ journal # NoJournal /\ manifest = journal.successor =>
                /\ manifest' = manifest
                /\ journal' \in {journal, NoJournal}
  <1>. USE NoJournalType DEF IInv, NothingUndone, GoTo, Return, disk, counters
  <1>1. CASE BeginLoad(w) \/ BeginWrite(w) \/ Reconcile(w) \/ Load(w) \/ Compare(w) \/ NothingWritten(w)
    BY <1>1
      DEF TypeOK, Types, BeginLoad, BeginWrite, Reconcile, RestorePointer, DropBackup,
           DropJournal, Load, Compare, NothingWritten, Undoing
  <1>2. CASE Write(w)
    BY <1>2
      DEF TypeOK, Types, Stage, Write, WriteGeneration, WritePointer, WriteJournal, LinkBackup,
           Rename, KeepRename, FinishAdvance, Reread, Succeed, Undoing, Writing, Untouched,
           Journaled, Clean
  <1>3. CASE UndoWrite(w)
    BY <1>3 DEF UndoWrite, Unpublish, Relink, Unlink, Undoing
  <1>4. CASE CheckFails(w)
    BY <1>4 DEF CheckFails, TypeOK, Types
  <1>5. CASE Stop(w)
    BY <1>5 DEF Stop, Undoing
  <1>6. QED
    BY <1>1, <1>2, <1>3, <1>4, <1>5 DEF Writer, Work

\* A call's history keeps what was current, until the reader is idle again.
LEMMA HistoryGrows ==
    ASSUME Types, Observe, NEW r \in Readers, rpc'[r] # "idle"
    PROVE  valid[r] \cup {Current, Current'} \subseteq valid'[r]
  BY DEF Observe

\* A step keeps the readers' invariant.
LEMMA ReadersStep == IInv /\ ReadersInv /\ [Next]_vars => ReadersInv'
  <1>. SUFFICES ASSUME IInv, ReadersInv, [Next]_vars, badChecks' = 0
                PROVE  NothingUndone' /\ \A r \in Readers : ReaderStage(r)'
    BY DEF ReadersInv
  <1>1. CASE \E w \in Writers : Writer(w) /\ Observe
    <2>1. PICK w \in Writers : Writer(w) /\ Observe
      BY <1>1
    <2>2. badChecks = 0 /\ UNCHANGED reading
      BY <2>1
        DEF IInv, TypeOK, Types, Writer, Work, Reconcile, Write, UndoWrite, BeginLoad,
             BeginWrite, RestorePointer, DropBackup, DropJournal, Load, Compare,
             NothingWritten, WriteGeneration, WritePointer, WriteJournal, LinkBackup, Rename,
             KeepRename, FinishAdvance, Reread, Succeed, CheckFails, Unpublish, Relink, Unlink,
             Stop, counters
    <2>3. NothingUndone' /\ (journal # NoJournal /\ manifest = journal.successor =>
                               manifest' = manifest /\ journal' \in {journal, NoJournal})
      BY <2>1, <2>2, AdvanceStays DEF ReadersInv
    <2>4. ASSUME NEW r \in Readers PROVE ReaderStage(r)'
      BY <2>1, <2>2, <2>3, HistoryGrows
        DEF ReadersInv, ReaderStage, reading, Current, IInv, TypeOK
    <2>5. QED
      BY <2>3, <2>4
  <1>2. CASE \E r \in Readers : Reader(r) /\ Observe
    <2>1. PICK r \in Readers : Reader(r) /\ Observe
      BY <1>2
    <2>2. badChecks = 0 /\ UNCHANGED <<disk, pc>>
      BY <2>1
        DEF Reader, FirstCheck, BackupCheck, ReadPointer, SecondCheck, Answered, ReaderAt,
             counters
    <2>3. ReaderStage(r)'
      <3>.
          USE <2>1, <2>2, HistoryGrows
            DEF ReadersInv, ReaderStage, NothingUndone, IInv, TypeOK, Types, ReaderAt, disk
      <3>1. CASE FirstCheck(r) \/ BackupCheck(r) \/ Answered(r)
        BY <3>1 DEF FirstCheck, BackupCheck, Answered
      <3>2. CASE ReadPointer(r)
        BY <3>2 DEF ReadPointer, Recoverable, Current
      <3>3. CASE SecondCheck(r)
        BY <3>3 DEF SecondCheck
      <3>4. QED
        BY <3>1, <3>2, <3>3 DEF Reader
    <2>4. ASSUME NEW q \in Readers, q # r PROVE ReaderStage(q)'
      <3>1. rpc'[q] = rpc[q] /\ seen'[q] = seen[q]
        BY <2>1, <2>4
          DEF IInv, TypeOK, Types, Reader, FirstCheck, BackupCheck, ReadPointer, SecondCheck,
               Answered, ReaderAt
      <3>2. QED
        BY <2>1, <2>2, <3>1, HistoryGrows DEF ReadersInv, ReaderStage, IInv, TypeOK, disk
    <2>5. QED
      BY <2>2, <2>3, <2>4 DEF ReadersInv, NothingUndone, disk
  <1>3. CASE UNCHANGED vars
    BY <1>3 DEF vars, ReadersInv, NothingUndone, ReaderStage
  <1>4. QED
    BY <1>1, <1>2, <1>3 DEF Next

\* A read-only LoadPrepared never answers with an undecided advance, as long as
\* no replacement undoes itself.
THEOREM ReadersCorrect == Spec => []ReadersSeeCurrent
  <1>1. Init => ReadersInv
    BY DEF Init, ReadersInv, NothingUndone, ReaderStage, Undoing
  <1>2. ReadersInv => ReadersSeeCurrent
    BY DEF ReadersInv, ReaderStage, ReadersSeeCurrent, AnswersDurable
  <1>3. QED
    BY Invariant, ReadersStep, <1>1, <1>2, PTL DEF Spec
=============================================================================
