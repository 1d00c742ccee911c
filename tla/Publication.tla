----------------------------- MODULE Publication -----------------------------
(***************************************************************************)
(* Cross-root publication (internal/publication, internal/publicationstate  *)
(* and the planners of internal/syncproject and internal/contextupdate).    *)
(*                                                                         *)
(* A publication replaces the review files under the project and under the  *)
(* vault, moves the published generation pointer, commits the merge base    *)
(* and writes the accepted receipt.  No transaction spans them: a journal   *)
(* intent with the preimage and the desired bytes of every destination lets *)
(* the next lock holder finish the publication or roll it back.  People     *)
(* save the review files at any moment, without any lock.                   *)
(*                                                                         *)
(* Kinds of publication: "edit" merges what people wrote into the three     *)
(* files of the same generation; "scan" also publishes a newly prepared     *)
(* generation, in four files; "generation" is a version-1 intent, the one a *)
(* version-3 scan or a JSON migration writes.                               *)
(***************************************************************************)
EXTENDS Naturals, FiniteSets

CONSTANTS
    Docs,           \* the human documents (review, history)
    Edits,          \* what people may write: each edit is saved at most once
    Formats,        \* project formats, each the kinds of publication it has
    Editable,       \* the files people save, a subset of Dests
    Window,         \* may a save land between a file's check and its rename?
    TornPointer,    \* kinds whose pointer write may fail after it took effect
    NoDest,         \* no file is under the publisher's hand
    MaxGen,         \* bound: generations prepared by scans
    MaxFaults       \* bound: crashes and failed operations

Names == Docs \cup {"ledger", "index"}
Dests == {"project", "vault"} \X Names
Side(s) == {d \in Dests : d[1] = s}

\* Rendering is deterministic, so a file is the generation it was rendered for
\* and the edits it contains.  Generation 0 is none, and a missing file.
Gens == 0..MaxGen
Content == [gen : Gens, edits : SUBSET Edits]
Missing == [gen |-> 0, edits |-> {}]
Bodies == [Dests -> Content]
NoBodies == [d \in Dests |-> Missing]
Bases == [Docs -> Content]
NoBase == [n \in Docs |-> Missing]

Stages == {"prepared", "project_written", "vault_synced", "verified",
           "base_committed", "rollback_required", "committed"}

AllKinds == {"edit", "scan", "generation"}

ASSUME PublicationAssumption ==
    /\ Formats \subseteq SUBSET AllKinds /\ Editable \subseteq Dests
    /\ \A f \in Formats : "generation" \in f => f = {"generation"}
    /\ Docs \cap {"ledger", "index"} = {}
    /\ Window \in BOOLEAN /\ TornPointer \subseteq AllKinds
    /\ NoDest \notin Dests
    /\ MaxGen \in Nat /\ MaxFaults \in Nat

\* A journal intent; a committed one of kind "none" stands for no journal file.
Intent == [kind : AllKinds \cup {"none"}, gen : Gens, stage : Stages,
           outcome : {"none", "accepted", "rolled_back"},
           pre : Bodies, new : Bodies, basePre : Bases, ptrPre : Gens]

NoIntent == [kind |-> "none", gen |-> 0, stage |-> "committed",
             outcome |-> "none", pre |-> NoBodies, new |-> NoBodies,
             basePre |-> NoBase, ptrPre |-> 0]

\* The fields that MarkdownRevisionID hashes, which the receipt repeats.
Revision(i) == [kind |-> i.kind, gen |-> i.gen, pre |-> i.pre,
                new |-> i.new, ptrPre |-> i.ptrPre]
NoReceipt == Revision(NoIntent)

VARIABLES
    format,     \* the kinds of publication of this project's format
    file,       \* file[d] : the contents of the review file d
    base,       \* the merge base: the document pair both sides last agreed on
    receipt,    \* accepted-markdown-v1.json: the last accepted revision
    pointer,    \* published_generation
    prepared,   \* the generation a scan prepared last
    intent,     \* intent-v1.json: the journal
    pc,         \* what the holder of the publication lock does next
    op,         \* the kind of publication it was asked for
    plan,       \* the intent it built in memory, NoIntent while it recovers
    todo,       \* the destinations still to be written, or restored
    cur,        \* the destination checked and not yet written, or restored
    saved,      \* <<e, d>>: edit e was saved by a person in file d
    faults      \* faults so far

disk == <<format, file, base, receipt, pointer, intent>>
holder == <<pc, op, plan, todo, cur>>
vars == <<disk, prepared, holder, saved, faults>>

Targets(i) == IF i.kind = "edit" THEN {d \in Dests : d[2] # "index"} ELSE Dests
BaseOf(bodies) == [n \in Docs |-> bodies[<<"project", n>>]]
Settled == intent.stage = "committed"
Markdown(i) == i.kind \in {"edit", "scan"}

PointerCrossed(i) == i.kind = "scan" /\ i.ptrPre # i.gen /\ pointer = i.gen
ReceiptCommitted(i) == Markdown(i) /\ receipt = Revision(i)

Fault == faults < MaxFaults /\ faults' = faults + 1

Init ==
    /\ format \in Formats
    /\ file = NoBodies /\ base = NoBase /\ receipt = NoReceipt
    /\ pointer = 0 /\ prepared = 0 /\ intent = NoIntent
    /\ pc = "idle" /\ op = "none" /\ plan = NoIntent
    /\ todo = {} /\ cur = NoDest
    /\ saved = {} /\ faults = 0

------------------------------------------------------------------------------
(* Control of the lock holder. *)

GoTo(stage) == pc' = stage /\ todo' = {} /\ cur' = NoDest /\ UNCHANGED <<op, plan>>

\* Every return path releases the lock and forgets what was in memory.
Return ==
    /\ pc' = "idle" /\ op' = "none" /\ plan' = NoIntent
    /\ todo' = {} /\ cur' = NoDest

\* A publication that is over ends the call; a recovered one begins it.
Finish == IF plan = NoIntent THEN GoTo("build") ELSE Return

WalkOver(stage, dests) ==
    pc' = stage /\ todo' = dests /\ cur' = NoDest /\ UNCHANGED <<op, plan>>

\* Rollback starts with the merge base, which a version-1 intent has none of.
Undo ==
    IF Markdown(intent) THEN GoTo("undoBase")
    ELSE WalkOver("undo", Targets(intent))

\* A failed publication is rolled back in process unless its pointer crossed; a
\* failed recovery just returns.
RollBack ==
    IF plan = NoIntent \/ PointerCrossed(intent) THEN Return ELSE Undo

\* A failed acceptance looks for the receipt first.
RollBackUnaccepted == IF ReceiptCommitted(intent) THEN Return ELSE RollBack

------------------------------------------------------------------------------
(* The call: take the lock, resolve an unfinished intent, build a plan. *)

Begin(k) ==
    /\ pc = "idle"
    /\ op' = k /\ pc' = "recover"
    /\ UNCHANGED <<disk, prepared, plan, todo, cur, saved, faults>>

\* Mutant: base_committed goes forward without a look at receipt and pointer.
MustGoForward_ByStage == intent.stage \in {"verified", "base_committed"}

\* Mutant: only the receipt decides, a crossed pointer does not.
MustGoForward_ReceiptOnly == intent.stage = "base_committed" /\ ReceiptCommitted(intent)

MustGoForward ==
    \/ intent.stage = "base_committed" /\ ReceiptCommitted(intent)
    \/ intent.stage \in {"verified", "base_committed"} /\ PointerCrossed(intent)

\* Mutant: a version-1 recovery does not compare the published generation.
RecoveryRefused_AnyPointer == ~Markdown(intent) /\ op # "generation"

\* A Markdown command leaves a version-1 intent alone.  For a version-1 intent
\* any published generation but its own, or its own not verified, is an error.
RecoveryRefused ==
    IF Markdown(intent) THEN FALSE
    ELSE \/ op # "generation"
         \/ pointer # 0 /\ (pointer # intent.gen \/ intent.stage # "verified")

Recover ==
    /\ pc = "recover"
    /\ IF Settled THEN GoTo("build")
       ELSE IF RecoveryRefused THEN Return
       ELSE IF Markdown(intent)
         THEN IF MustGoForward THEN GoTo("accept") ELSE Undo
       ELSE IF pointer = 0 THEN Undo ELSE GoTo("accept")
    /\ UNCHANGED <<disk, prepared, saved, faults>>

\* What buildMarkdownPlan authenticates before it merges.
Authentic ==
    /\ receipt # NoReceipt /\ receipt.gen = pointer
    /\ base = BaseOf(receipt.new)
    /\ \A d \in Dests : d[2] \in {"ledger", "index"} => file[d] = receipt.new[d]

\* A project that was never published.
Fresh ==
    /\ pointer = 0 /\ receipt = NoReceipt /\ base = NoBase /\ file = NoBodies

\* The three-way merge: people add text, so both sides' edits are kept.
Merged(n) == file[<<"project", n>>].edits \cup file[<<"vault", n>>].edits

\* Rendering: the ledger hashes the documents, the index is machine data only.
Render(g) ==
    [d \in Dests |->
       [gen |-> g, edits |-> IF d[2] \in Docs THEN Merged(d[2])
                             ELSE IF d[2] = "ledger" THEN UNION {Merged(n) : n \in Docs}
                             ELSE {}]]

Planned(k, g, new) ==
    [kind |-> k, gen |-> g, stage |-> "prepared", outcome |-> "none",
     pre |-> file, new |-> new,
     basePre |-> IF k = "generation" THEN NoBase ELSE base,
     ptrPre |-> IF k = "scan" THEN pointer ELSE 0]

\* An edit renders the published generation again, a scan the prepared one.
Plan ==
    LET g == IF op = "edit" THEN pointer ELSE prepared
    IN Planned(op, g, Render(g))

Buildable ==
    CASE op = "edit" -> Authentic
      [] op = "scan" -> prepared # 0 /\ (Fresh \/ Authentic)
      [] op = "generation" -> prepared # 0

\* Two sides that both changed a document since the base may conflict.
MayConflict ==
    \E n \in Docs : \A s \in {"project", "vault"} :
        ~(file[<<s, n>>].edits \subseteq base[n].edits)

Build ==
    /\ pc = "build"
    /\ \/ /\ Buildable /\ Plan.new # file
          /\ plan' = Plan /\ pc' = "create"
          /\ UNCHANGED <<op, todo, cur>>
       \/ (Buildable /\ Plan.new # file => MayConflict) /\ Return
    /\ UNCHANGED <<disk, prepared, saved, faults>>

\* The preflight compares every destination, and an edit's index guard.  The
\* receipt and base comparisons before it cannot fail under the lock.
CreateIntent ==
    /\ pc = "create"
    /\ IF plan.gen = prepared /\ plan.pre = file
         THEN intent' = plan /\ WalkOver("check", Targets(plan) \cap Side("project"))
         ELSE Return /\ UNCHANGED intent
    /\ UNCHANGED <<format, file, base, receipt, pointer, prepared, saved, faults>>

------------------------------------------------------------------------------
(* The publication: files, journal stages, verification, pointer. *)

CheckFile(d) ==
    /\ pc = "check" /\ d \in todo
    /\ IF file[d] = intent.pre[d]
         THEN cur' = d /\ pc' = "write" /\ UNCHANGED <<op, plan, todo>>
         ELSE RollBack
    /\ UNCHANGED <<disk, prepared, saved, faults>>

WriteFile ==
    /\ pc = "write"
    /\ file' = [file EXCEPT ![cur] = intent.new[cur]]
    /\ pc' = "check" /\ todo' = todo \ {cur} /\ cur' = NoDest
    /\ UNCHANGED <<format, op, plan, base, receipt, pointer, intent, prepared, saved, faults>>

Advance(stage) ==
    /\ intent' = [intent EXCEPT !.stage = stage]
    /\ UNCHANGED <<format, file, base, receipt, pointer, prepared, saved, faults>>

ProjectWritten ==
    /\ pc = "check" /\ todo = {} /\ intent.stage = "prepared"
    /\ Advance("project_written")
    /\ WalkOver("check", Targets(intent) \cap Side("vault"))

VaultSynced ==
    /\ pc = "check" /\ todo = {} /\ intent.stage = "project_written"
    /\ Advance("vault_synced")
    /\ GoTo("verify")

HoldsDesired == \A d \in Targets(intent) : file[d] = intent.new[d]
IndexGuardHolds == \A s \in {"project", "vault"} : file[<<s, "index">>] = intent.new[<<s, "index">>]

Verify ==
    /\ pc = "verify"
    /\ IF HoldsDesired
         THEN /\ Advance("verified")
              /\ IF intent.kind = "edit" THEN GoTo("accept") ELSE GoTo("pointer")
         ELSE RollBack /\ UNCHANGED <<disk, prepared, saved, faults>>

CommitPointer ==
    /\ pc = "pointer"
    /\ pointer' = intent.gen
    /\ IF Markdown(intent) THEN GoTo("accept") ELSE GoTo("settle")
    /\ UNCHANGED <<format, file, base, receipt, intent, prepared, saved, faults>>

\* Mutant: the roll back of a torn pointer write does not look at the pointer.
CommitPointerTorn_Undo ==
    /\ pc = "pointer" /\ intent.kind \in TornPointer /\ Fault
    /\ pointer' = intent.gen
    /\ Undo
    /\ UNCHANGED <<format, file, base, receipt, intent, prepared, saved>>

\* The write took effect and yet failed: the caller rolls back, and looks at
\* the pointer only for a Markdown intent.
CommitPointerTorn ==
    /\ pc = "pointer" /\ intent.kind \in TornPointer /\ Fault
    /\ pointer' = intent.gen
    /\ IF intent.kind = "scan" /\ intent.ptrPre # intent.gen THEN Return ELSE Undo
    /\ UNCHANGED <<format, file, base, receipt, intent, prepared, saved>>

------------------------------------------------------------------------------
(* Acceptance: the merge base, then the receipt, then the end of the intent. *)

\* A version-1 intent is only verified again when it is recovered.
VerifyAccepted ==
    /\ pc = "accept"
    /\ IF HoldsDesired /\ (Markdown(intent) => IndexGuardHolds)
         THEN IF ~Markdown(intent) THEN GoTo("settle")
              ELSE IF intent.stage = "base_committed" THEN GoTo("receipt")
              ELSE GoTo("base")
         ELSE RollBackUnaccepted
    /\ UNCHANGED <<disk, prepared, saved, faults>>

\* base_committed with any other base than the desired one is an error that
\* cannot happen here: nothing but a publication writes the base.
CommitBase ==
    /\ pc = "base"
    /\ IF base = BaseOf(intent.new) THEN GoTo("baseStage") /\ UNCHANGED base
       ELSE IF base = intent.basePre
         THEN GoTo("baseStage") /\ base' = BaseOf(intent.new)
       ELSE RollBackUnaccepted /\ UNCHANGED base
    /\ UNCHANGED <<format, file, receipt, pointer, intent, prepared, saved, faults>>

BaseCommitted ==
    /\ pc = "baseStage"
    /\ Advance("base_committed")
    /\ GoTo("receipt")

CommitReceipt ==
    /\ pc = "receipt"
    /\ receipt' = Revision(intent)
    /\ GoTo("settle")
    /\ UNCHANGED <<format, file, base, pointer, intent, prepared, saved, faults>>

Settle ==
    /\ pc = "settle"
    /\ intent' = [intent EXCEPT !.stage = "committed",
                    !.outcome = IF Markdown(intent) THEN "accepted" ELSE "none"]
    /\ Finish
    /\ UNCHANGED <<format, file, base, receipt, pointer, prepared, saved, faults>>

------------------------------------------------------------------------------
(* Rollback: the base, then every destination, then the end of the intent. *)

\* Mutant: a base that is already the desired one counts as changed.
UndoBase_RefusesCommitted ==
    /\ pc = "undoBase"
    /\ IF base = intent.basePre THEN WalkOver("undo", Targets(intent)) ELSE Return
    /\ UNCHANGED <<disk, prepared, saved, faults>>

UndoBase ==
    /\ pc = "undoBase"
    /\ IF base = intent.basePre THEN WalkOver("undo", Targets(intent)) /\ UNCHANGED base
       ELSE IF base = BaseOf(intent.new)
         THEN WalkOver("undo", Targets(intent)) /\ base' = intent.basePre
       ELSE Return /\ UNCHANGED base
    /\ UNCHANGED <<format, file, receipt, pointer, intent, prepared, saved, faults>>

\* Mutant: a file that is neither the desired one nor the preimage is restored.
UndoFile_Overwrites(d) ==
    /\ pc = "undo" /\ d \in todo
    /\ IF file[d] # intent.pre[d]
         THEN cur' = d /\ pc' = "restore" /\ UNCHANGED <<op, plan, todo>>
         ELSE todo' = todo \ {d} /\ UNCHANGED <<pc, op, plan, cur>>
    /\ UNCHANGED <<disk, prepared, saved, faults>>

\* Any other content than the desired one or the preimage is a conflict, which
\* leaves the intent unfinished.
UndoFile(d) ==
    /\ pc = "undo" /\ d \in todo
    /\ IF file[d] = intent.new[d] \/ (file[d] = Missing /\ intent.pre[d] # Missing)
         THEN cur' = d /\ pc' = "restore" /\ UNCHANGED <<op, plan, todo>>
       ELSE IF file[d] = intent.pre[d]
         THEN todo' = todo \ {d} /\ UNCHANGED <<pc, op, plan, cur>>
       ELSE Return
    /\ UNCHANGED <<disk, prepared, saved, faults>>

RestoreFile ==
    /\ pc = "restore"
    /\ file' = [file EXCEPT ![cur] = intent.pre[cur]]
    /\ pc' = "undo" /\ todo' = todo \ {cur} /\ cur' = NoDest
    /\ UNCHANGED <<format, op, plan, base, receipt, pointer, intent, prepared, saved, faults>>

RollbackRequired ==
    /\ pc = "undo" /\ todo = {}
    /\ Advance("rollback_required")
    /\ GoTo("undoSettle")

\* Mutant: a Markdown rollback ends as a version-1 one, without an outcome.
RolledBack_NoOutcome ==
    /\ pc = "undoSettle"
    /\ Advance("committed")
    /\ Finish

RolledBack ==
    /\ pc = "undoSettle"
    /\ intent' = [intent EXCEPT !.stage = "committed",
                    !.outcome = IF Markdown(intent) THEN "rolled_back" ELSE "none"]
    /\ Finish
    /\ UNCHANGED <<format, file, base, receipt, pointer, prepared, saved, faults>>

------------------------------------------------------------------------------
(* Failures, people and scans. *)

\* The step under way returns an error.  (A write that fails after it took
\* effect is that write and then a failure; only the pointer's needs a step of
\* its own.)
OperationFails ==
    /\ pc # "idle" /\ Fault
    /\ IF pc \in {"check", "write", "verify", "pointer"} THEN RollBack
       ELSE IF pc \in {"accept", "base", "baseStage", "receipt"} THEN RollBackUnaccepted
       ELSE Return
    /\ UNCHANGED <<disk, prepared, saved>>

Crash ==
    /\ pc # "idle" /\ Fault
    /\ Return
    /\ UNCHANGED <<disk, prepared, saved>>

\* A person saves a file, at any moment.  (A version-1 intent publishes machine
\* files only: what people write there is merged by the entity sync.)
Save(e, d) ==
    /\ format # {"generation"} /\ file[d] # Missing /\ \A s \in saved : s[1] # e
    /\ Window \/ d # cur
    /\ file' = [file EXCEPT ![d].edits = @ \cup {e}]
    /\ saved' = saved \cup {<<e, d>>}
    /\ UNCHANGED <<format, base, receipt, pointer, intent, prepared, holder, faults>>

\* A scan, which takes the publication lock only later, prepares a generation.
Prepare ==
    /\ prepared < MaxGen
    /\ prepared' = prepared + 1
    /\ UNCHANGED <<disk, holder, saved, faults>>

Proceed ==
    \/ Recover \/ Build \/ CreateIntent
    \/ \E d \in Dests : CheckFile(d) \/ UndoFile(d)
    \/ WriteFile \/ ProjectWritten \/ VaultSynced \/ Verify \/ CommitPointer
    \/ VerifyAccepted \/ CommitBase \/ BaseCommitted \/ CommitReceipt \/ Settle
    \/ UndoBase \/ RestoreFile \/ RollbackRequired \/ RolledBack

Next ==
    \/ \E k \in format : Begin(k)
    \/ Proceed
    \/ CommitPointerTorn \/ OperationFails \/ Crash
    \/ \E e \in Edits, d \in Editable : Save(e, d)
    \/ Prepare

Spec == Init /\ [][Next]_vars

\* Commands keep coming, and a command that runs proceeds.
Fairness == WF_vars(Proceed) /\ WF_vars(\E k \in format : Begin(k))

FairSpec == Spec /\ Fairness

------------------------------------------------------------------------------
(* Properties. *)

Types ==
    /\ format \in Formats /\ file \in Bodies /\ base \in Bases /\ pointer \in Gens /\ prepared \in Gens
    /\ receipt \in [kind : AllKinds \cup {"none"}, gen : Gens, pre : Bodies,
                    new : Bodies, ptrPre : Gens]
    /\ intent \in Intent /\ plan \in Intent
    /\ pc \in {"idle", "recover", "build", "create", "check", "write", "verify",
               "pointer", "accept", "base", "baseStage", "receipt", "settle",
               "undoBase", "undo", "restore", "undoSettle"}
    /\ op \in AllKinds \cup {"none"}
    /\ todo \subseteq Dests /\ cur \in Dests \cup {NoDest}
    /\ pc \in {"write", "restore"} <=> cur # NoDest
    /\ saved \subseteq Edits \X Dests /\ faults \in 0..MaxFaults

\* What ValidateIntent says of stage and outcome.
ValidIntent(i) ==
    /\ Markdown(i) => (i.stage = "committed") = (i.outcome # "none")
    /\ ~Markdown(i) => i.outcome = "none" /\ i.stage # "base_committed"

\* Every variable has its type, and every journal on disk passes ValidateIntent:
\* one that does not would make every later command fail.
TypeOK == Types /\ ValidIntent(intent)

\* What a person saved in a file stays in that file, through every publication,
\* rollback, recovery and crash: all of them replace the whole file.
EditsStay == \A s \in saved : s[1] \in file[s[2]].edits

\* Whenever no publication is unfinished, every review file on both sides is the
\* published generation's: no crash leaves a mixed projection behind.
NeverMixed == Settled => \A d \in Dests : file[d].gen = pointer

\* Once the receipt of a publication is written, the merge base and the pointer
\* are its own, and they stay so until the next one: the next edit authenticates.
\* A publication recorded as rolled back left the merge base as it found it,
\* moved no pointer and wrote no receipt.
OutcomesAgree ==
    /\ receipt # NoReceipt /\ (Settled \/ ReceiptCommitted(intent)) =>
          base = BaseOf(receipt.new) /\ pointer = receipt.gen
    /\ intent.outcome = "rolled_back" =>
          base = intent.basePre /\ ~PointerCrossed(intent) /\ ~ReceiptCommitted(intent)

\* The abstract revision of the accepted receipt, and of the unfinished intent.
DocsOf(bodies) == [n \in Docs |-> bodies[<<"project", n>>].edits]
RevisionOf(r) == [gen |-> r.gen, docs |-> DocsOf(r.new)]
Proposed == ~Settled /\ ~ReceiptCommitted(intent)

Atomic == INSTANCE AtomicPublication WITH
    accepted <- RevisionOf(receipt),
    proposal <- RevisionOf(IF Proposed THEN intent ELSE NoIntent),
    status <- IF ~Proposed THEN "none"
              ELSE IF PointerCrossed(intent) THEN "decided" ELSE "tentative"

\* Every step of the publisher, of people and of crashes maps to one step of the
\* abstract publication or to none: its pieces on disk act as one.
Atomicity == Atomic!Spec

\* Somebody saved a destination the unfinished publication has already written
\* or needs unchanged, a documented conflict that waits for a person.
Conflict ==
    \E d \in Dests : \E s \in saved :
        s[2] = d /\ s[1] \notin intent.pre[d].edits

\* An unfinished publication is finished or rolled back by the commands that
\* follow, unless a person saved one of its files meanwhile.
RecoveryEnds == ~Settled ~> Settled \/ Conflict
==============================================================================
