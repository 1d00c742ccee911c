-------------------------- MODULE PublicationProofs --------------------------
(* Proofs about Publication, for any documents, edits, formats and bounds.   *)
EXTENDS Publication, TLAPS

-----------------------------------------------------------------------------
(* The inductive invariants.                                                 *)

MarkdownFormat == "generation" \notin format

Writing == {"check", "write", "verify", "pointer"}
Accepting == {"accept", "base", "baseStage", "receipt", "settle"}
Back == {"undoBase", "undo", "restore", "undoSettle"}

\* What the lock holder was asked for, and what it holds in memory.
Holding ==
    /\ pc # "idle" => op \in format
    /\ pc \in {"idle", "recover", "build"} => plan = NoIntent
    /\ pc = "create" => plan.kind = op /\ plan.stage = "prepared" /\ plan.outcome = "none"
    /\ pc = "accept" /\ ~Markdown(intent) => plan = NoIntent

\* How far the journal is at each place.
Journal ==
    /\ intent.kind \in format \/ (intent.kind = "none" /\ Settled)
    /\ pc \in {"build", "create"} => Settled
    /\ pc \in Writing \cup Accepting \cup Back => ~Settled
    /\ pc \in {"check", "write"} => intent.stage \in {"prepared", "project_written"}
    /\ pc = "verify" => intent.stage = "vault_synced"
    /\ pc = "pointer" => intent.stage = "verified" /\ intent.kind # "edit"
    /\ pc = "accept" => intent.stage \in {"verified", "base_committed"}
    /\ pc \in {"base", "baseStage"} => intent.stage = "verified"
    /\ pc = "receipt" => intent.stage = "base_committed"
    /\ pc = "settle" => intent.stage = IF Markdown(intent) THEN "base_committed" ELSE "verified"
    /\ pc \in {"base", "baseStage", "receipt", "undoBase"} => Markdown(intent)

Control == TypeOK /\ Holding /\ Journal

\* The edits that a rendering of these documents has in a file of that name.
Shown(bodies, n) ==
    IF n \in Docs THEN bodies[<<"project", n>>].edits
    ELSE IF n = "ledger" THEN UNION {bodies[<<"project", m>>].edits : m \in Docs}
    ELSE {}

\* All the files of a revision are renderings of the same documents.
Rendered(r) ==
    \A d \in Dests : r.new[d].gen = r.gen /\ r.new[d].edits = Shown(r.new, d[2])

\* The files are of the generation of these bodies and lost no edit of them.
Carry(bodies) ==
    \A d \in Dests : file[d].gen = bodies[d].gen /\ bodies[d].edits \subseteq file[d].edits

\* The intent replaces the accepted revision by a later one.
Follows(i) ==
    /\ Rendered(i) /\ RevisionOf(i) # RevisionOf(receipt) /\ i.gen >= receipt.gen
    /\ i.basePre = BaseOf(receipt.new)
    /\ i.kind = "edit" => i.gen = receipt.gen
    /\ i.kind = "scan" => i.ptrPre = receipt.gen
    /\ \A d \in Dests : /\ i.pre[d].gen = receipt.gen
                        /\ receipt.new[d].edits \subseteq i.pre[d].edits
                        /\ i.pre[d].edits \subseteq i.new[d].edits

\* The disk of a Markdown project between two publications.
Agreed == base = BaseOf(receipt.new) /\ pointer = receipt.gen /\ Carry(receipt.new)

\* While a publication is unfinished, every piece of the disk is the accepted
\* revision's or the intent's.
Between ==
    /\ Follows(intent)
    /\ base \in {intent.basePre, BaseOf(intent.new)}
    /\ pointer \in {receipt.gen, intent.gen}
    /\ \A d \in Dests : /\ file[d].gen \in {intent.pre[d].gen, intent.new[d].gen}
                        /\ intent.pre[d].edits \subseteq file[d].edits
    /\ PointerCrossed(intent) =>
        /\ intent.stage \in {"verified", "base_committed"} /\ Carry(intent.new)
        /\ intent.stage = "base_committed" => base = BaseOf(intent.new)

\* The receipt is written, and the journal does not know it yet.
Accepted == Agreed /\ intent.stage = "base_committed"

Disk ==
    /\ receipt.gen <= prepared /\ pointer <= prepared /\ intent.gen <= prepared
    /\ Rendered(receipt)
    /\ Settled => Agreed
    /\ Proposed => Between
    /\ ~Settled /\ ReceiptCommitted(intent) => Accepted
    /\ intent.outcome = "rolled_back" =>
          base = intent.basePre /\ ~PointerCrossed(intent) /\ ~ReceiptCommitted(intent)

\* What the lock holder knows of the disk at each place.
Forward ==
    /\ pc = "create" => Follows(plan)
    /\ pc \in {"pointer"} \cup Accepting => Carry(intent.new)
    /\ pc = "pointer" => ~PointerCrossed(intent) /\ ~ReceiptCommitted(intent)
    /\ pc \in {"accept", "base", "baseStage", "receipt"} => pointer = intent.gen
    /\ pc \in {"baseStage", "receipt"} => base = BaseOf(intent.new)
    /\ pc = "accept" /\ intent.stage = "base_committed" => base = BaseOf(intent.new)
    /\ pc = "settle" => ReceiptCommitted(intent)

Backward ==
    /\ pc \in Back => ~PointerCrossed(intent) /\ ~ReceiptCommitted(intent)
    /\ pc \in Back \ {"undoBase"} => base = intent.basePre
    /\ pc \in {"undo", "restore"} => \A d \in Dests \ todo : file[d].gen = intent.pre[d].gen
    /\ pc = "undoSettle" => \A d \in Dests : file[d].gen = intent.pre[d].gen

MarkdownInv == MarkdownFormat => Disk /\ Forward /\ Backward

\* A version-1 project has no merge base, no receipt, and no edits here.
Machine ==
    /\ receipt = NoReceipt /\ base = NoBase /\ saved = {}
    /\ pc = "create" => plan.gen # 0
    /\ ~Settled => intent.gen # 0
MachineInv == ~MarkdownFormat => Machine

\* The generation of the files of a version-1 project.
AllOf(bodies, g) == \A d \in Dests : bodies[d].gen = g

MachineFiles ==
    /\ Settled => AllOf(file, pointer)
    /\ ~Settled =>
        /\ AllOf(intent.new, intent.gen)
        /\ \A d \in Dests : file[d].gen \in {intent.pre[d].gen, intent.gen}
        /\ \/ AllOf(intent.pre, pointer)
           \/ (pointer = intent.gen /\ AllOf(file, intent.gen) /\ intent.stage = "verified")

MachinePlaces ==
    /\ pc = "create" => AllOf(plan.pre, pointer) /\ AllOf(plan.new, plan.gen)
    /\ pc \in Writing \cup Back => AllOf(intent.pre, pointer)
    /\ pc \in {"pointer", "settle"} => AllOf(file, intent.gen)
    /\ pc \in {"accept", "settle"} => pointer = intent.gen
    /\ pc \in {"undo", "restore"} => \A d \in Dests \ todo : file[d].gen = intent.pre[d].gen
    /\ pc = "undoSettle" => AllOf(file, pointer)
GenerationInv == ~MarkdownFormat => MachineFiles /\ MachinePlaces

\* No content has an edit that was not saved.
Known(bodies) == \A d \in Dests : \A e \in bodies[d].edits : \E c \in Dests : <<e, c>> \in saved

\* What the intent is about to write in a file has no edit saved there since.
Fresher(i) == \A s \in saved : s[1] \in i.new[s[2]].edits => s[1] \in i.pre[s[2]].edits

Edited ==
    /\ EditsStay
    /\ Known(file) /\ Known(intent.pre) /\ Known(intent.new)
    /\ pc = "create" => Known(plan.pre) /\ Known(plan.new) /\ Fresher(plan)
    /\ ~Settled => Fresher(intent)
    /\ pc = "write" => file[cur] = intent.pre[cur]
    /\ pc = "restore" => file[cur] = intent.new[cur] \/ file[cur] = Missing

-----------------------------------------------------------------------------
(* Types.                                                                    *)

Stored ==
    /\ format \in Formats /\ file \in Bodies /\ base \in Bases /\ pointer \in Gens
    /\ prepared \in Gens
    /\ receipt \in [kind : AllKinds \cup {"none"}, gen : Gens, pre : Bodies,
                    new : Bodies, ptrPre : Gens]
    /\ intent \in Intent /\ ValidIntent(intent)
    /\ saved \subseteq Edits \X Dests /\ faults \in 0..MaxFaults

Plain == {"idle", "recover", "build", "create"} \cup (Writing \ {"write"}) \cup Accepting
           \cup (Back \ {"restore"})
Places == Plain \cup {"write", "restore"}

Held ==
    /\ plan \in Intent /\ pc \in Places /\ op \in AllKinds \cup {"none"}
    /\ todo \subseteq Dests /\ cur \in Dests \cup {NoDest}
    /\ pc \in {"write", "restore"} <=> cur # NoDest

LEMMA TypeParts == (TypeOK <=> Stored /\ Held) /\ (TypeOK' <=> Stored' /\ Held')
  <1>1. Places = {"idle", "recover", "build", "create", "check", "write", "verify",
                  "pointer", "accept", "base", "baseStage", "receipt", "settle",
                  "undoBase", "undo", "restore", "undoSettle"}
    BY DEF Places, Plain, Writing, Accepting, Back
  <1>. QED  BY <1>1, Zenon DEF TypeOK, Types, Stored, Held

LEMMA NoIntentType == NoIntent \in Intent /\ NoBodies \in Bodies /\ NoBase \in Bases
  <1>1. Missing \in Content
    BY PublicationAssumption DEF Missing, Content, Gens
  <1>. QED  BY <1>1, PublicationAssumption
            DEF NoIntent, Intent, NoBodies, Bodies, NoBase, Bases, Gens, Stages

\* The kinds of a project's format.
LEMMA FormatKinds ==
    ASSUME TypeOK
    PROVE  /\ format \subseteq AllKinds
           /\ MarkdownFormat => format \subseteq {"edit", "scan"}
           /\ ~MarkdownFormat => format = {"generation"}
  BY PublicationAssumption DEF TypeOK, Types, MarkdownFormat, AllKinds

\* Where the holder may go next, whatever it was doing.
LEMMA GoToHeld ==
    ASSUME Held, NEW s \in Plain, GoTo(s)
    PROVE  Held'
  BY DEF Held, GoTo, Plain, Places, Writing, Accepting, Back

LEMMA WalkHeld ==
    ASSUME Held, NEW s \in {"check", "undo"}, NEW D \in SUBSET Dests, WalkOver(s, D)
    PROVE  Held'
  BY DEF Held, WalkOver, Plain, Places, Writing, Accepting, Back

LEMMA ReturnHeld ==
    ASSUME Held, Return
    PROVE  Held' /\ pc' = "idle" /\ plan' = NoIntent
  BY NoIntentType DEF Held, Return, Plain, Places, Writing, Accepting, Back

LEMMA TargetsType == ASSUME NEW i PROVE Targets(i) \subseteq Dests
  BY DEF Targets

\* A failed publication is given up, or undone when nothing of it is accepted.
LEMMA GivingUp ==
    ASSUME RollBack \/ RollBackUnaccepted
    PROVE  \/ Return
           \/ /\ Undo /\ plan # NoIntent /\ ~PointerCrossed(intent)
              /\ RollBackUnaccepted => ~ReceiptCommitted(intent)
  BY DEF RollBack, RollBackUnaccepted

LEMMA UndoHeld ==
    ASSUME Held, Undo
    PROVE  /\ Held' /\ UNCHANGED <<op, plan>>
           /\ \/ Markdown(intent) /\ pc' = "undoBase"
              \/ ~Markdown(intent) /\ pc' = "undo" /\ todo' = Targets(intent)
  <1>1. CASE Markdown(intent) /\ GoTo("undoBase")
    BY <1>1, GoToHeld DEF Plain, Back, GoTo
  <1>2. CASE ~Markdown(intent) /\ WalkOver("undo", Targets(intent))
    BY <1>2, WalkHeld, TargetsType DEF WalkOver
  <1>. QED  BY <1>1, <1>2 DEF Undo

-----------------------------------------------------------------------------
(* What the lock holder holds, and how far the journal is.                   *)

\* Giving up keeps control, whatever the disk holds.
LEMMA ReturnControl ==
    ASSUME Control, Return, Stored', UNCHANGED <<format, intent>>
    PROVE  Control'
  <1>1. Held' /\ pc' = "idle" /\ plan' = NoIntent
    BY TypeParts, ReturnHeld DEF Control
  <1>2. Holding'
    BY <1>1 DEF Holding
  <1>3. Journal'
    BY <1>1 DEF Control, Journal, Writing, Accepting, Back, Settled
  <1>. QED  BY <1>1, <1>2, <1>3, TypeParts DEF Control

LEMMA UndoControl ==
    ASSUME Control, Undo, ~Settled, pc # "idle", Stored', UNCHANGED <<format, intent>>
    PROVE  Control'
  <1>1. /\ Held' /\ UNCHANGED <<op, plan>> /\ pc' \in {"undoBase", "undo"}
        /\ pc' = "undoBase" => Markdown(intent)
    BY TypeParts, UndoHeld DEF Control
  <1>2. Holding'
    BY <1>1 DEF Control, Holding
  <1>3. Journal'
    BY <1>1 DEF Control, Journal, Writing, Accepting, Back, Settled, Markdown
  <1>. QED  BY <1>1, <1>2, <1>3, TypeParts DEF Control

\* A step of the holder that gives up, rolls back or goes on to a plain place.
LEMMA GiveUpControl ==
    ASSUME Control, RollBack \/ RollBackUnaccepted, ~Settled, pc # "idle", Stored',
           UNCHANGED <<format, intent>>
    PROVE  Control'
  BY GivingUp, ReturnControl, UndoControl

LEMMA StoredStays ==
    ASSUME Stored, UNCHANGED <<disk, prepared, saved>>, faults' \in 0..MaxFaults
    PROVE  Stored'
  BY DEF Stored, disk, ValidIntent, Markdown

LEMMA FaultType == ASSUME Stored, Fault PROVE faults' \in 0..MaxFaults
  BY PublicationAssumption DEF Stored, Fault

\* A journal that only changed its stage.
LEMMA AdvanceType ==
    ASSUME Stored, NEW s \in Stages \ {"committed"}, Advance(s), ~Settled, UNCHANGED faults,
           s = "base_committed" => Markdown(intent)
    PROVE  /\ Stored' /\ ~Settled' /\ intent'.stage = s
           /\ intent' = [intent EXCEPT !.stage = s] /\ intent'.kind = intent.kind
           /\ Markdown(intent') = Markdown(intent)
  <1>1. intent' \in Intent /\ intent' = [intent EXCEPT !.stage = s]
    BY DEF Stored, Intent, Advance
  <1>2. intent'.kind = intent.kind /\ intent'.outcome = intent.outcome /\ intent'.stage = s
    BY <1>1 DEF Stored, Intent
  <1>3. ValidIntent(intent')
    BY <1>2 DEF Stored, ValidIntent, Markdown, Settled
  <1>. QED  BY <1>1, <1>2, <1>3 DEF Stored, Advance, Settled, Markdown

LEMMA PlanType ==
    ASSUME TypeOK, op \in AllKinds
    PROVE  /\ Plan \in Intent /\ Plan.kind = op /\ Plan.stage = "prepared"
           /\ Plan.outcome = "none" /\ ValidIntent(Plan)
  <1> DEFINE g == IF op = "edit" THEN pointer ELSE prepared
  <1>1. g \in Gens /\ 0 \in Gens /\ file \in Bodies /\ base \in Bases /\ pointer \in Gens
    BY PublicationAssumption DEF TypeOK, Types, Gens
  <1>2. ASSUME NEW n \in Docs PROVE Merged(n) \in SUBSET Edits
    BY <1>1, <1>2 DEF Merged, Bodies, Content, Dests, Names
  <1>3. Render(g) \in Bodies
    BY <1>1, <1>2 DEF Render, Bodies, Content
  <1>4. Plan = Planned(op, g, Render(g))
    BY DEF Plan
  <1> HIDE DEF g
  <1>5. Plan \in Intent
    BY <1>1, <1>3, <1>4, NoIntentType DEF Planned, Intent, Stages
  <1>. QED  BY <1>4, <1>5 DEF Planned, ValidIntent, Markdown

-----------------------------------------------------------------------------
(* Types and control, action by action.                                      *)

LEMMA InitControl == Init => Control
  <1> SUFFICES ASSUME Init PROVE Control
    OBVIOUS
  <1>1. 0 \in Gens /\ 0 \in 0..MaxFaults /\ NoIntent \in Intent /\ NoBodies \in Bodies /\ NoBase \in Bases
    BY NoIntentType, PublicationAssumption DEF Gens
  <1>2. ValidIntent(NoIntent) /\ NoIntent.kind = "none" /\ NoIntent.stage = "committed"
    BY DEF NoIntent, ValidIntent, Markdown
  <1>3. NoReceipt \in [kind : AllKinds \cup {"none"}, gen : Gens, pre : Bodies,
                       new : Bodies, ptrPre : Gens]
    BY <1>1 DEF NoReceipt, Revision, NoIntent, Intent
  <1>4. Stored
    BY <1>1, <1>2, <1>3 DEF Init, Stored
  <1>5. Held
    BY <1>1 DEF Init, Held, Places, Plain, Writing, Accepting, Back
  <1>. QED  BY <1>2, <1>4, <1>5, TypeParts
            DEF Init, Control, Holding, Journal, Writing, Accepting, Back, Settled

LEMMA BeginControl ==
    ASSUME Control, NEW k \in format, Begin(k)
    PROVE  Control'
  <1>1. Stored'
    BY TypeParts, StoredStays DEF Control, Begin, Stored
  <1>2. Held'
    BY TypeParts, FormatKinds DEF Control, Begin, Held, Places, Plain
  <1>. QED  BY <1>1, <1>2, TypeParts
            DEF Begin, Control, Holding, Journal, Writing, Accepting, Back, disk, Settled, Markdown

LEMMA RecoverControl ==
    ASSUME Control, Recover
    PROVE  Control'
  <1>0. Stored' /\ pc = "recover" /\ UNCHANGED disk
    BY TypeParts, StoredStays DEF Control, Recover, Stored
  <1>1. CASE Settled /\ GoTo("build")
    <2>1. Held'
      BY <1>1, TypeParts, GoToHeld DEF Control, Plain
    <2>. QED  BY <1>0, <1>1, <2>1, TypeParts
              DEF GoTo, Control, Holding, Journal, Writing, Accepting, Back, disk, Settled, Markdown
  <1>2. CASE Return
    BY <1>0, <1>2, ReturnControl DEF disk
  <1>3. CASE ~Settled /\ Undo
    BY <1>0, <1>3, UndoControl DEF disk
  <1>4. CASE /\ ~Settled /\ GoTo("accept")
             /\ IF Markdown(intent) THEN MustGoForward ELSE intent.stage = "verified"
    <2>1. Held'
      BY <1>4, TypeParts, GoToHeld DEF Control, Plain, Accepting
    <2>2. intent.stage \in {"verified", "base_committed"}
      BY <1>4 DEF MustGoForward
    <2>. QED  BY <1>0, <1>4, <2>1, <2>2, TypeParts
              DEF GoTo, Control, Holding, Journal, Writing, Accepting, Back, disk, Settled, Markdown
  <1>. QED  BY <1>1, <1>2, <1>3, <1>4 DEF Recover, RecoveryRefused

LEMMA BuildControl ==
    ASSUME Control, Build
    PROVE  Control'
  <1>0. Stored' /\ pc = "build" /\ UNCHANGED disk /\ op \in format /\ op \in AllKinds /\ Settled
    BY TypeParts, StoredStays, FormatKinds DEF Control, Build, Stored, Holding, Journal
  <1>1. CASE plan' = Plan /\ pc' = "create" /\ UNCHANGED <<op, todo, cur>>
    <2>1. Held'
      BY <1>0, <1>1, PlanType, TypeParts DEF Control, Held, Places, Plain
    <2>. QED  BY <1>0, <1>1, <2>1, PlanType, TypeParts
              DEF Control, Holding, Journal, Writing, Accepting, Back, disk, Settled, Markdown
  <1>2. CASE Return
    BY <1>0, <1>2, ReturnControl DEF disk
  <1>. QED  BY <1>1, <1>2 DEF Build

LEMMA CreateControl ==
    ASSUME Control, CreateIntent
    PROVE  Control'
  <1>0. pc = "create" /\ Stored /\ Held
    BY TypeParts DEF Control, CreateIntent
  <1>1. CASE intent' = plan /\ WalkOver("check", Targets(plan) \cap Side("project"))
    <2>1. Held'
      BY <1>0, <1>1, WalkHeld, TargetsType
    <2>2. plan \in Intent /\ ValidIntent(plan) /\ op \in format
      BY <1>0 DEF Control, Held, Holding, ValidIntent, Markdown
    <2>3. Stored'
      BY <1>0, <1>1, <2>2 DEF CreateIntent, Stored
    <2>. QED  BY <1>0, <1>1, <2>1, <2>2, <2>3, TypeParts DEF CreateIntent, WalkOver, Control,
                 Holding, Journal, Writing, Accepting, Back, Settled, Markdown
  <1>2. CASE Return /\ UNCHANGED intent
    <2>1. Stored'
      BY <1>0, <1>2 DEF CreateIntent, Stored
    <2>. QED  BY <1>2, <2>1, ReturnControl DEF CreateIntent
  <1>. QED  BY <1>1, <1>2 DEF CreateIntent

LEMMA CheckControl ==
    ASSUME Control, NEW d \in Dests, CheckFile(d) \/ UndoFile(d)
    PROVE  Control'
  <1>0. Stored' /\ pc \in {"check", "undo"} /\ UNCHANGED disk /\ ~Settled /\ Held /\ d # NoDest
    BY TypeParts, StoredStays, PublicationAssumption
       DEF Control, CheckFile, UndoFile, Stored, Journal, Writing, Back
  <1>1. CASE cur' = d /\ pc' \in {"write", "restore"} /\ UNCHANGED <<op, plan, todo>>
             /\ (pc' = "write" => pc = "check")
    <2>1. Held'
      BY <1>0, <1>1 DEF Held, Places
    <2>. QED  BY <1>0, <1>1, <2>1, TypeParts DEF Control, Holding, Journal, Writing, Accepting,
                 Back, disk, Settled, Markdown
  <1>2. CASE todo' = todo \ {d} /\ UNCHANGED <<pc, op, plan, cur>>
    <2>1. Held'
      BY <1>0, <1>2 DEF Held
    <2>. QED  BY <1>0, <1>2, <2>1, TypeParts DEF Control, Holding, Journal, Writing, Accepting,
                 Back, disk, Settled, Markdown
  <1>3. CASE Return \/ RollBack
    BY <1>0, <1>3, ReturnControl, GiveUpControl DEF disk
  <1>. QED  BY <1>1, <1>2, <1>3 DEF CheckFile, UndoFile

LEMMA WriteControl ==
    ASSUME Control, WriteFile \/ RestoreFile
    PROVE  Control'
  <1>0. /\ Stored /\ Held /\ pc \in {"write", "restore"} /\ ~Settled
        /\ UNCHANGED <<format, op, plan, base, receipt, pointer, intent, prepared, saved, faults>>
        /\ pc' = IF pc = "write" THEN "check" ELSE "undo"
        /\ todo' = todo \ {cur} /\ cur' = NoDest
    BY TypeParts DEF Control, WriteFile, RestoreFile, Journal, Writing, Back
  <1>1. cur \in Dests /\ intent.new[cur] \in Content /\ intent.pre[cur] \in Content
    BY <1>0 DEF Held, Stored, Intent, Bodies
  <1>2. file' \in Bodies
    BY <1>0, <1>1 DEF WriteFile, RestoreFile, Stored, Bodies
  <1>3. Stored'
    BY <1>0, <1>2 DEF Stored, ValidIntent, Markdown
  <1>4. Held'
    BY <1>0 DEF Held, Places, Plain, Writing, Back
  <1>. QED  BY <1>0, <1>3, <1>4, TypeParts DEF Control, Holding, Journal, Writing, Accepting,
               Back, Settled, Markdown

LEMMA AdvanceControl ==
    ASSUME Control, ProjectWritten \/ VaultSynced \/ Verify \/ BaseCommitted \/ RollbackRequired
    PROVE  Control'
  <1>0. Stored /\ Held /\ ~Settled /\ pc # "idle"
    BY TypeParts DEF Control, Journal, Writing, Accepting, Back, ProjectWritten, VaultSynced,
       Verify, BaseCommitted, RollbackRequired
  <1>1. CASE ProjectWritten
    <2>1. /\ Stored' /\ ~Settled' /\ intent'.stage = "project_written"
          /\ intent'.kind = intent.kind /\ Markdown(intent') = Markdown(intent)
      BY <1>0, <1>1, AdvanceType DEF ProjectWritten, Stages, Advance
    <2>2. Held'
      BY <1>0, <1>1, WalkHeld, TargetsType DEF ProjectWritten
    <2>. QED  BY <1>1, <2>1, <2>2, TypeParts DEF ProjectWritten, Advance, WalkOver, Control,
                 Holding, Journal, Writing, Accepting, Back
  <1>2. CASE VaultSynced
    <2>1. /\ Stored' /\ ~Settled' /\ intent'.stage = "vault_synced"
          /\ intent'.kind = intent.kind /\ Markdown(intent') = Markdown(intent)
      BY <1>0, <1>2, AdvanceType DEF VaultSynced, Stages, Advance
    <2>2. Held'
      BY <1>0, <1>2, GoToHeld DEF VaultSynced, Plain, Writing
    <2>. QED  BY <1>2, <2>1, <2>2, TypeParts DEF VaultSynced, Advance, GoTo, Control,
                 Holding, Journal, Writing, Accepting, Back
  <1>3. CASE Verify /\ HoldsDesired
    <2>1. /\ Stored' /\ ~Settled' /\ intent'.stage = "verified"
          /\ intent'.kind = intent.kind /\ Markdown(intent') = Markdown(intent)
      BY <1>0, <1>3, AdvanceType DEF Verify, Stages, Advance
    <2>2. Held'
      BY <1>0, <1>3, GoToHeld DEF Verify, Plain, Writing, Accepting
    <2>. QED  BY <1>3, <2>1, <2>2, TypeParts DEF Verify, Advance, GoTo, Control, Markdown,
                 Holding, Journal, Writing, Accepting, Back
  <1>4. CASE Verify /\ ~HoldsDesired
    BY <1>0, <1>4, GiveUpControl, StoredStays DEF disk, Stored, Verify
  <1>5. CASE BaseCommitted
    <2>1. /\ Stored' /\ ~Settled' /\ intent'.stage = "base_committed"
          /\ intent'.kind = intent.kind /\ Markdown(intent') = Markdown(intent)
      BY <1>0, <1>5, AdvanceType DEF BaseCommitted, Stages, Advance, Control, Journal
    <2>2. Held'
      BY <1>0, <1>5, GoToHeld DEF BaseCommitted, Plain, Accepting
    <2>. QED  BY <1>5, <2>1, <2>2, TypeParts DEF BaseCommitted, Advance, GoTo, Control,
                 Holding, Journal, Writing, Accepting, Back
  <1>6. CASE RollbackRequired
    <2>1. /\ Stored' /\ ~Settled' /\ intent'.stage = "rollback_required"
          /\ intent'.kind = intent.kind /\ Markdown(intent') = Markdown(intent)
      BY <1>0, <1>6, AdvanceType DEF RollbackRequired, Stages, Advance
    <2>2. Held'
      BY <1>0, <1>6, GoToHeld DEF RollbackRequired, Plain, Back
    <2>. QED  BY <1>6, <2>1, <2>2, TypeParts DEF RollbackRequired, Advance, GoTo, Control,
                 Holding, Journal, Writing, Accepting, Back
  <1>. QED  BY <1>1, <1>2, <1>3, <1>4, <1>5, <1>6 DEF Verify

LEMMA PointerControl ==
    ASSUME Control, CommitPointer \/ CommitPointerTorn
    PROVE  Control'
  <1>0. /\ Stored /\ Held /\ ~Settled /\ pc = "pointer" /\ pointer' = intent.gen
        /\ UNCHANGED <<format, file, base, receipt, intent, prepared, saved>>
        /\ faults' \in 0..MaxFaults
    BY TypeParts, FaultType DEF Control, Journal, Writing, CommitPointer, CommitPointerTorn, Stored
  <1>1. Stored'
    BY <1>0 DEF Stored, Intent, ValidIntent, Markdown
  <1>2. CASE \/ GoTo("accept") /\ Markdown(intent)
             \/ GoTo("settle") /\ ~Markdown(intent)
    <2>1. Held'
      BY <1>0, <1>2, GoToHeld DEF Plain, Accepting
    <2>. QED  BY <1>0, <1>1, <1>2, <2>1, TypeParts DEF GoTo, Control, Holding, Journal,
                 Writing, Accepting, Back, Settled, Markdown
  <1>3. CASE Return \/ Undo
    BY <1>0, <1>1, <1>3, ReturnControl, UndoControl
  <1>. QED  BY <1>2, <1>3 DEF CommitPointer, CommitPointerTorn

LEMMA AcceptControl ==
    ASSUME Control, VerifyAccepted \/ CommitBase \/ CommitReceipt
    PROVE  Control'
  <1>0. /\ Stored /\ Held /\ ~Settled /\ pc \in {"accept", "base", "receipt"}
        /\ UNCHANGED <<format, file, intent, pointer, prepared, saved, faults>>
    BY TypeParts DEF Control, Journal, Accepting, VerifyAccepted, CommitBase, CommitReceipt, disk
  <1>1. BaseOf(intent.new) \in Bases /\ Revision(intent) \in
          [kind : AllKinds \cup {"none"}, gen : Gens, pre : Bodies, new : Bodies, ptrPre : Gens]
    BY <1>0 DEF Stored, Intent, Revision, BaseOf, Bases, Bodies, Dests, Names
  <1>2. Stored'
    BY <1>0, <1>1 DEF VerifyAccepted, CommitBase, CommitReceipt, Stored, ValidIntent, Markdown, disk
  <1>3. CASE RollBackUnaccepted
    BY <1>0, <1>2, <1>3, GiveUpControl
  <1>4. CASE VerifyAccepted /\ ~RollBackUnaccepted
    <2>1. /\ GoTo(pc') /\ pc' \in {"settle", "receipt", "base"}
          /\ pc' = "settle" <=> ~Markdown(intent)
          /\ intent.stage = IF pc' = "receipt" THEN "base_committed" ELSE "verified"
      BY <1>0, <1>4 DEF VerifyAccepted, GoTo, Stored, ValidIntent, Control, Journal
    <2>2. Held'
      <3> DEFINE s == pc'
      <3>1. s \in Plain /\ GoTo(s)
        BY <2>1 DEF Plain, Accepting
      <3> HIDE DEF s
      <3>. QED  BY <1>0, <3>1, GoToHeld
    <2>. QED  BY <1>0, <1>2, <1>4, <2>1, <2>2, TypeParts DEF VerifyAccepted, GoTo, Control,
                 Holding, Journal, Writing, Accepting, Back, Settled, Markdown
  <1>5. CASE CommitBase /\ ~RollBackUnaccepted
    <2>1. GoTo("baseStage") /\ pc = "base"
      BY <1>5 DEF CommitBase
    <2>2. Held'
      BY <1>0, <2>1, GoToHeld DEF Plain, Accepting
    <2>. QED  BY <1>0, <1>2, <2>1, <2>2, TypeParts DEF GoTo, Control,
                 Holding, Journal, Writing, Accepting, Back, Settled, Markdown
  <1>6. CASE CommitReceipt
    <2>1. GoTo("settle") /\ pc = "receipt"
      BY <1>6 DEF CommitReceipt
    <2>2. Held'
      BY <1>0, <2>1, GoToHeld DEF Plain, Accepting
    <2>. QED  BY <1>0, <1>2, <2>1, <2>2, TypeParts DEF GoTo, Control,
                 Holding, Journal, Writing, Accepting, Back, Settled, Markdown
  <1>. QED  BY <1>3, <1>4, <1>5, <1>6

\* A journal that is over, with its outcome.
LEMMA EndType ==
    ASSUME Stored, NEW o \in {"accepted", "rolled_back"},
           intent' = [intent EXCEPT !.stage = "committed",
                        !.outcome = IF Markdown(intent) THEN o ELSE "none"],
           UNCHANGED <<format, file, base, receipt, pointer, prepared, saved, faults>>
    PROVE  /\ Stored' /\ Settled' /\ intent'.kind = intent.kind
           /\ Markdown(intent') = Markdown(intent)
  <1>1. /\ intent' \in Intent /\ intent'.kind = intent.kind /\ intent'.stage = "committed"
        /\ intent'.outcome = IF Markdown(intent) THEN o ELSE "none"
    BY DEF Stored, Intent, Stages
  <1>. QED  BY <1>1 DEF Stored, ValidIntent, Markdown, Settled

LEMMA EndControl ==
    ASSUME Control, Settle \/ RolledBack
    PROVE  Control'
  <1>0. Stored /\ Held /\ Finish /\ pc # "idle" /\ op \in format
    BY TypeParts DEF Control, Holding, Settle, RolledBack
  <1>1. Stored' /\ Settled' /\ intent'.kind = intent.kind /\ UNCHANGED format
    BY <1>0, EndType DEF Settle, RolledBack
  <1>2. CASE plan = NoIntent /\ GoTo("build")
    <2>1. Held'
      BY <1>0, <1>2, GoToHeld DEF Plain
    <2>. QED  BY <1>0, <1>1, <1>2, <2>1, TypeParts DEF GoTo, Control, Holding, Journal,
                 Writing, Accepting, Back
  <1>3. CASE Return
    <2>1. Held' /\ pc' = "idle" /\ plan' = NoIntent
      BY <1>0, <1>3, ReturnHeld
    <2>. QED  BY <1>0, <1>1, <2>1, TypeParts DEF Control, Holding, Journal,
                 Writing, Accepting, Back
  <1>. QED  BY <1>0, <1>2, <1>3 DEF Finish

LEMMA UndoBaseControl ==
    ASSUME Control, UndoBase
    PROVE  Control'
  <1>0. /\ Stored /\ Held /\ ~Settled /\ pc = "undoBase" /\ Markdown(intent)
        /\ UNCHANGED <<format, file, receipt, pointer, intent, prepared, saved, faults>>
    BY TypeParts DEF Control, Journal, Back, UndoBase
  <1>1. Stored'
    <2>1. base' \in {base, intent.basePre}
      BY DEF UndoBase
    <2>. QED  BY <1>0, <2>1 DEF Stored, Intent, ValidIntent, Markdown
  <1>2. CASE WalkOver("undo", Targets(intent))
    <2>1. Held'
      BY <1>0, <1>2, WalkHeld, TargetsType
    <2>. QED  BY <1>0, <1>1, <1>2, <2>1, TypeParts DEF WalkOver, Control, Holding, Journal,
                 Writing, Accepting, Back, Settled, Markdown
  <1>3. CASE Return
    BY <1>0, <1>1, <1>3, ReturnControl
  <1>. QED  BY <1>2, <1>3 DEF UndoBase

LEMMA FailureControl ==
    ASSUME Control, OperationFails \/ Crash
    PROVE  Control'
  <1>0. Stored' /\ UNCHANGED disk /\ pc # "idle"
    BY TypeParts, FaultType, StoredStays DEF Control, OperationFails, Crash
  <1>1. CASE Return
    BY <1>0, <1>1, ReturnControl DEF disk
  <1>2. CASE OperationFails /\ ~Return
    <2>1. (RollBack \/ RollBackUnaccepted) /\ pc \in Writing \cup Accepting
      BY <1>2 DEF OperationFails, Writing, Accepting
    <2>2. ~Settled
      BY <2>1 DEF Control, Journal
    <2>. QED  BY <1>0, <2>1, <2>2, GiveUpControl DEF disk
  <1>. QED  BY <1>1, <1>2 DEF Crash

LEMMA OutsideControl ==
    ASSUME Control, Prepare \/ (\E e \in Edits, d \in Editable : Save(e, d)) \/ UNCHANGED vars
    PROVE  Control'
  <1>1. CASE Prepare
    <2>1. Stored'
      BY <1>1, TypeParts, PublicationAssumption
         DEF Control, Prepare, Stored, disk, ValidIntent, Markdown, Gens
    <2>2. Held'
      BY <1>1, TypeParts DEF Control, Prepare, Held, holder
    <2>. QED  BY <1>1, <2>1, <2>2, TypeParts DEF Prepare, Control, Holding, Journal, disk,
                 holder, Settled, Markdown
  <1>2. ASSUME NEW e \in Edits, NEW d \in Editable, Save(e, d)
        PROVE  Control'
    <2>0. Stored /\ d \in Dests
      BY TypeParts, PublicationAssumption DEF Control
    <2>1. file' \in Bodies
      <3>1. file[d].edits \cup {e} \in SUBSET Edits
        BY <2>0 DEF Stored, Bodies, Content
      <3>. QED  BY <1>2, <2>0, <3>1 DEF Stored, Save, Bodies, Content
    <2>2. Stored'
      BY <1>2, <2>0, <2>1 DEF Stored, Save, ValidIntent, Markdown
    <2>3. Held'
      BY <1>2, TypeParts DEF Control, Save, Held, holder
    <2>. QED  BY <1>2, <2>2, <2>3, TypeParts DEF Save, Control, Holding, Journal,
                 holder, Settled, Markdown
  <1>3. CASE UNCHANGED vars
    BY ZenonT(60), <1>3, TypeParts
       DEF vars, disk, holder, Control, Holding, Journal, Stored, Held, Settled, Markdown, ValidIntent
  <1>. QED  BY <1>1, <1>2, <1>3

LEMMA NextControl == Control /\ [Next]_vars => Control'
  <1> SUFFICES ASSUME Control, [Next]_vars PROVE Control'
    OBVIOUS
  <1>1. CASE \E k \in format : Begin(k)
    BY <1>1, BeginControl
  <1>2. CASE Proceed
    BY <1>2, RecoverControl, BuildControl, CreateControl, CheckControl, WriteControl,
       AdvanceControl, PointerControl, AcceptControl, EndControl, UndoBaseControl DEF Proceed
  <1>3. CASE CommitPointerTorn \/ OperationFails \/ Crash
    BY <1>3, PointerControl, FailureControl
  <1>4. CASE Prepare \/ (\E e \in Edits, d \in Editable : Save(e, d)) \/ UNCHANGED vars
    BY <1>4, OutsideControl
  <1>. QED  BY <1>1, <1>2, <1>3, <1>4 DEF Next

\* Every variable keeps its type, and every journal passes its own validation.
THEOREM TypeCorrect == Spec => []TypeOK
  <1>1. Spec => []Control
    BY InitControl, NextControl, PTL DEF Spec
  <1>. QED  BY <1>1, PTL DEF Control

-----------------------------------------------------------------------------
(* Revisions.                                                                *)

SameIntent ==
    /\ intent'.kind = intent.kind /\ intent'.gen = intent.gen
    /\ intent'.pre = intent.pre /\ intent'.new = intent.new
    /\ intent'.basePre = intent.basePre /\ intent'.ptrPre = intent.ptrPre

LEMMA RevisionFacts ==
    ASSUME NEW i
    PROVE  /\ Revision(i).new = i.new /\ Revision(i).gen = i.gen
           /\ RevisionOf(Revision(i)) = RevisionOf(i)
           /\ Rendered(Revision(i)) <=> Rendered(i)
  <1>1. Revision(i).new = i.new /\ Revision(i).gen = i.gen
    BY DEF Revision
  <1>. QED  BY <1>1 DEF RevisionOf, Rendered

\* An intent that follows the accepted revision is not the accepted one.
LEMMA FollowsDiffers ==
    ASSUME NEW i, Follows(i)
    PROVE  receipt # Revision(i)
  BY RevisionFacts DEF Follows

LEMMA AdvanceSame ==
    ASSUME Stored, NEW s, Advance(s)
    PROVE  SameIntent /\ intent'.outcome = intent.outcome /\ intent'.stage = s
  BY DEF Stored, Intent, Advance, SameIntent

LEMMA SameFacts ==
    ASSUME SameIntent, UNCHANGED <<receipt, pointer>>
    PROVE  /\ Follows(intent)' <=> Follows(intent)
           /\ PointerCrossed(intent)' <=> PointerCrossed(intent)
           /\ ReceiptCommitted(intent)' <=> ReceiptCommitted(intent)
           /\ Revision(intent)' = Revision(intent)
  <1>1. RevisionOf(intent)' = RevisionOf(intent) /\ RevisionOf(receipt)' = RevisionOf(receipt)
    BY DEF SameIntent, RevisionOf, DocsOf
  <1>2. Rendered(intent)' <=> Rendered(intent)
    BY DEF SameIntent, Rendered, Shown
  <1>3. Revision(intent)' = Revision(intent)
    BY DEF SameIntent, Revision
  <1>4. Follows(intent)' <=> Follows(intent)
    BY <1>1, <1>2 DEF SameIntent, Follows, BaseOf
  <1>. QED  BY <1>3, <1>4 DEF SameIntent, PointerCrossed, ReceiptCommitted, Markdown

\* Every unfinished intent of a Markdown project is a Markdown intent.
LEMMA MarkdownIntent ==
    ASSUME Control, MarkdownFormat
    PROVE  /\ ~Settled => Markdown(intent)
           /\ pc # "idle" => op \in {"edit", "scan"}
  BY FormatKinds DEF Control, Journal, Holding, Markdown

\* A publication that is not at its receipt yet is proposed.
LEMMA Early ==
    ASSUME Disk, ~Settled, intent.stage # "base_committed"
    PROVE  Proposed /\ Between /\ ~ReceiptCommitted(intent) /\ Follows(intent)
  BY DEF Disk, Proposed, Accepted, Between

\* The files of a revision under way, and the receipt of the one before.
LEMMA GenTypes ==
    ASSUME Stored
    PROVE  /\ receipt.gen \in Nat /\ intent.gen \in Nat /\ pointer \in Nat /\ prepared \in Nat
           /\ intent.ptrPre \in Nat
           /\ \A d \in Dests : /\ file[d] \in Content /\ intent.pre[d] \in Content
                               /\ intent.new[d] \in Content /\ receipt.new[d] \in Content
                               /\ file[d].gen \in Nat
  BY PublicationAssumption DEF Stored, Intent, Gens, Bodies, Content

-----------------------------------------------------------------------------
(* The disk of a Markdown project: the steps that leave it alone.            *)

MInv == Control /\ MarkdownFormat /\ Disk /\ Forward /\ Backward

LEMMA DiskStays ==
    ASSUME Disk, UNCHANGED <<disk, prepared>>
    PROVE  Disk'
  <1>1. /\ Follows(intent)' <=> Follows(intent)
        /\ PointerCrossed(intent)' <=> PointerCrossed(intent)
        /\ ReceiptCommitted(intent)' <=> ReceiptCommitted(intent)
    BY SameFacts DEF SameIntent, disk
  <1>2. Rendered(receipt)' <=> Rendered(receipt)
    BY DEF Rendered, Shown, disk
  <1>3. /\ (Carry(intent.new)' <=> Carry(intent.new)) /\ (Agreed' <=> Agreed)
        /\ BaseOf(intent.new)' = BaseOf(intent.new) /\ (Settled' <=> Settled)
    BY DEF Carry, Agreed, BaseOf, disk, Settled
  <1>4. Between' <=> Between
    BY <1>1, <1>3 DEF Between, disk
  <1>. QED  BY <1>1, <1>2, <1>3, <1>4 DEF Disk, Proposed, Accepted, disk

LEMMA Parked ==
    ASSUME pc' \in {"idle", "recover", "build"}
    PROVE  Forward' /\ Backward'
  BY DEF Forward, Backward, Accepting, Back

LEMMA ReturnParks == ASSUME Return PROVE pc' = "idle"
  BY DEF Return

LEMMA UndoStarts ==
    ASSUME MInv, Undo, ~Settled, UNCHANGED <<disk, prepared>>,
           ~PointerCrossed(intent), ~ReceiptCommitted(intent)
    PROVE  Forward' /\ Backward'
  <1>1. pc' = "undoBase"
    BY MarkdownIntent DEF MInv, Undo, GoTo
  <1>. QED  BY <1>1 DEF Forward, Backward, Accepting, Back, PointerCrossed, ReceiptCommitted, disk,
                        Markdown, Revision

LEMMA GiveUp ==
    ASSUME MInv, ~Settled, UNCHANGED <<disk, prepared>>,
           RollBackUnaccepted \/ (RollBack /\ ~ReceiptCommitted(intent))
    PROVE  Disk' /\ Forward' /\ Backward'
  <1>1. Disk'
    BY DiskStays DEF MInv
  <1>2. Return \/ (Undo /\ ~PointerCrossed(intent) /\ ~ReceiptCommitted(intent))
    BY GivingUp
  <1>. QED  BY <1>1, <1>2, Parked, ReturnParks, UndoStarts

LEMMA RecoverDisk ==
    ASSUME MInv, Recover
    PROVE  Disk' /\ Forward' /\ Backward'
  <1>0. UNCHANGED <<disk, prepared>> /\ Disk'
    BY DiskStays DEF Recover, MInv
  <1>1. CASE Settled
    BY <1>0, <1>1, Parked DEF Recover, GoTo
  <1>2. CASE Return
    BY <1>0, <1>2, Parked, ReturnParks
  <1>3. CASE ~Settled /\ ~Return
    <2>0. Markdown(intent)
      BY <1>3, MarkdownIntent DEF MInv
    <2>1. CASE MustGoForward /\ GoTo("accept")
      <3>1. /\ pointer = intent.gen /\ Carry(intent.new)
            /\ intent.stage = "base_committed" => base = BaseOf(intent.new)
        <4>1. CASE ReceiptCommitted(intent)
          BY <1>3, <4>1, RevisionFacts
             DEF MInv, Disk, Accepted, Agreed, ReceiptCommitted, Carry
        <4>2. CASE ~ReceiptCommitted(intent)
          <5>1. PointerCrossed(intent) /\ Between
            BY <1>3, <2>1, <4>2 DEF MustGoForward, MInv, Disk, Proposed
          <5>. QED  BY <5>1 DEF Between, PointerCrossed
        <4>. QED  BY <4>1, <4>2
      <3>. QED  BY <1>0, <2>1, <3>1 DEF GoTo, Forward, Backward, Accepting, Back, disk, Carry, BaseOf
    <2>2. CASE ~MustGoForward /\ Undo
      <3>1. ~PointerCrossed(intent) /\ ~ReceiptCommitted(intent)
        BY <1>3, <2>2 DEF MInv, Disk, Accepted, Proposed, Between, MustGoForward
      <3>. QED  BY <1>0, <1>3, <2>2, <3>1, UndoStarts
    <2>. QED  BY <1>3, <2>0, <2>1, <2>2 DEF Recover, RecoveryRefused
  <1>. QED  BY <1>1, <1>2, <1>3

\* Both sides get the merged documents, and the ledger what the documents say.
LEMMA RenderFacts ==
    ASSUME NEW g
    PROVE  /\ \A d \in Dests : /\ Render(g)[d].gen = g
                               /\ Render(g)[d].edits = Shown(Render(g), d[2])
           /\ \A d \in Dests : d[2] \in Docs => Render(g)[d].edits = Merged(d[2])
           /\ Render(g) = [d \in Dests |-> Render(g)[d]]
           /\ \A d \in Dests : Render(g)[d] = [gen |-> g, edits |-> Render(g)[d].edits]
  <1>1. \A n \in Docs : <<"project", n>> \in Dests /\ <<"project", n>>[2] = n
    BY DEF Dests, Names
  <1>2. \A n \in Docs : Render(g)[<<"project", n>>].edits = Merged(n)
    BY <1>1 DEF Render
  <1>3. UNION {Render(g)[<<"project", n>>].edits : n \in Docs} = UNION {Merged(n) : n \in Docs}
    BY <1>2
  <1>4. ASSUME NEW d \in Dests
        PROVE  /\ Render(g)[d].gen = g /\ Render(g)[d].edits = Shown(Render(g), d[2])
               /\ d[2] \in Docs => Render(g)[d].edits = Merged(d[2])
               /\ Render(g)[d] = [gen |-> g, edits |-> Render(g)[d].edits]
    <2>1. Render(g)[d] = [gen |-> g, edits |-> IF d[2] \in Docs THEN Merged(d[2])
                             ELSE IF d[2] = "ledger" THEN UNION {Merged(n) : n \in Docs}
                             ELSE {}]
      BY DEF Render
    <2>2. Render(g)[d].gen = g /\ Render(g)[d] = [gen |-> g, edits |-> Render(g)[d].edits]
      BY <2>1
    <2>3. d[2] \in Docs => Render(g)[d].edits = Merged(d[2])
      BY <2>1
    <2>4. d[2] \notin Docs /\ d[2] = "ledger" => Render(g)[d].edits = UNION {Merged(n) : n \in Docs}
      BY <2>1
    <2>5. d[2] \notin Docs /\ d[2] # "ledger" => Render(g)[d].edits = {}
      BY <2>1
    <2>6. Render(g)[d].edits = Shown(Render(g), d[2])
      BY <1>2, <1>3, <2>3, <2>4, <2>5, Zenon DEF Shown
    <2>. QED  BY <2>2, <2>3, <2>6
  <1>. QED  BY <1>4 DEF Render

LEMMA Sides ==
    ASSUME NEW d \in Dests, d[2] \in Docs
    PROVE  /\ file[d].edits \subseteq Merged(d[2])
           /\ <<"project", d[2]>> \in Dests
           /\ Shown(receipt.new, d[2]) = receipt.new[<<"project", d[2]>>].edits
           /\ <<"project", d[2]>>[2] = d[2]
  <1>1. d = <<d[1], d[2]>> /\ d[1] \in {"project", "vault"}
    BY DEF Dests
  <1>2. d = <<"project", d[2]>> \/ d = <<"vault", d[2]>>
    BY <1>1
  <1>. QED  BY <1>2 DEF Merged, Dests, Names, Shown

LEMMA Other == ASSUME NEW d \in Dests, d[2] \notin Docs PROVE d[2] \in {"ledger", "index"}
  BY DEF Dests, Names

\* Where the accepted documents would be rendered again nothing has changed.
LEMMA SameDocuments ==
    ASSUME MInv, Authentic, Agreed,
           NEW g, g = receipt.gen, DocsOf(Render(g)) = DocsOf(receipt.new)
    PROVE  Render(g) = file
  <1>0. Stored /\ Rendered(receipt) /\ Carry(receipt.new) /\ file \in Bodies
    BY TypeParts DEF MInv, Control, Disk, Agreed, Stored
  <1>1. \A n \in Docs : Merged(n) = receipt.new[<<"project", n>>].edits
    <2>1. \A n \in Docs : Render(g)[<<"project", n>>].edits = receipt.new[<<"project", n>>].edits
      BY DEF DocsOf
    <2>2. \A n \in Docs : <<"project", n>> \in Dests /\ <<"project", n>>[2] = n
      BY DEF Dests, Names
    <2>3. \A n \in Docs : Render(g)[<<"project", n>>].edits = Merged(n)
      <3>1. ASSUME NEW n \in Docs PROVE Render(g)[<<"project", n>>].edits = Merged(n)
        <4> DEFINE d == <<"project", n>>
        <4>1. d \in Dests /\ d[2] = n
          BY <2>2
        <4> HIDE DEF d
        <4>2. Render(g)[d].edits = Merged(n)
          BY <4>1, RenderFacts
        <4>. QED  BY <4>2 DEF d
      <3>. QED  BY <3>1
    <2>. QED  BY <2>1, <2>3
  <1>2. ASSUME NEW d \in Dests PROVE Render(g)[d] = file[d]
    <2>1. file[d].gen = g /\ file[d] \in Content
      BY <1>0, GenTypes DEF Carry, Rendered
    <2>2. CASE d[2] \in Docs
      <3>1. file[d].edits \subseteq Merged(d[2]) /\ receipt.new[d].edits = Merged(d[2])
        BY <1>0, <1>1, <2>2, Sides DEF Rendered
      <3>2. receipt.new[d].edits \subseteq file[d].edits
        BY <1>0 DEF Carry
      <3>3. Render(g)[d].edits = Merged(d[2]) /\ file[d].edits = Merged(d[2])
        BY ZenonT(60), <2>2, <3>1, <3>2, RenderFacts
      <3>. QED  BY <2>1, <3>3, RenderFacts DEF Content
    <2>3. CASE d[2] \notin Docs
      <3>1. file[d] = receipt.new[d]
        BY <2>3, Other DEF Authentic
      <3>2. Shown(Render(g), d[2]) = Shown(receipt.new, d[2])
        <4>1. \A n \in Docs : Render(g)[<<"project", n>>].edits = receipt.new[<<"project", n>>].edits
          BY DEF DocsOf
        <4>2. {Render(g)[<<"project", n>>].edits : n \in Docs} =
                {receipt.new[<<"project", n>>].edits : n \in Docs}
          BY <4>1
        <4>. QED  BY <2>3, <4>2 DEF Shown
      <3>3. Render(g)[d].edits = file[d].edits
        BY <1>0, <3>1, <3>2, RenderFacts DEF Rendered
      <3>. QED  BY <2>1, <3>3, RenderFacts DEF Content
    <2>. QED  BY <2>2, <2>3
  <1>3. file = [d \in Dests |-> file[d]]
    BY <1>0 DEF Bodies
  <1>. QED  BY <1>2, <1>3, RenderFacts

\* The plan keeps every edit of the files, and more than the receipt has.
LEMMA PlanKeepsEdits ==
    ASSUME MInv, Agreed, Fresh \/ Authentic, NEW g, NEW d \in Dests
    PROVE  /\ file[d].gen = receipt.gen
           /\ receipt.new[d].edits \subseteq file[d].edits
           /\ file[d].edits \subseteq Render(g)[d].edits
  <1>0. Rendered(receipt) /\ Carry(receipt.new)
    BY DEF MInv, Disk, Agreed
  <1>1. file[d].gen = receipt.gen /\ receipt.new[d].edits \subseteq file[d].edits
    BY <1>0 DEF Carry, Rendered
  <1>2. CASE d[2] \in Docs
    <2>1. file[d].edits \subseteq Merged(d[2])
      BY <1>2, Sides
    <2>2. Render(g)[d].edits = Merged(d[2])
      BY <1>2, RenderFacts
    <2>. QED  BY <1>1, <2>1, <2>2
  <1>3. CASE Fresh
    <2>1. file[d].edits = {}
      BY <1>3 DEF Fresh, NoBodies, Missing
    <2>. QED  BY <1>1, <2>1
  <1>4. CASE d[2] \notin Docs /\ Authentic
    <2>1. file[d].edits = Shown(receipt.new, d[2])
      BY <1>0, <1>4, Other DEF Authentic, Rendered
    <2>2. \A n \in Docs : receipt.new[<<"project", n>>].edits \subseteq Render(g)[<<"project", n>>].edits
      <3>1. ASSUME NEW n \in Docs
            PROVE  receipt.new[<<"project", n>>].edits \subseteq Render(g)[<<"project", n>>].edits
        <4> DEFINE c == <<"project", n>>
        <4>1. c \in Dests /\ c[2] = n /\ c[2] \in Docs
          BY DEF Dests, Names
        <4> HIDE DEF c
        <4>2. file[c].edits \subseteq Render(g)[c].edits
          <5>1. file[c].edits \subseteq Merged(c[2])
            BY <4>1, Sides
          <5>2. Render(g)[c].edits = Merged(c[2])
            BY <4>1, RenderFacts
          <5>. QED  BY <5>1, <5>2
        <4>3. receipt.new[c].edits \subseteq Render(g)[c].edits
          BY <1>0, <4>1, <4>2 DEF Carry
        <4>. QED  BY <4>3 DEF c
      <3>. QED  BY <3>1
    <2>3. Shown(receipt.new, d[2]) \subseteq Shown(Render(g), d[2])
      BY <1>4, <2>2 DEF Shown
    <2>. QED  BY <1>1, <2>1, <2>3, RenderFacts
  <1>. QED  BY <1>2, <1>3, <1>4

LEMMA BuildFollows ==
    ASSUME MInv, pc = "build", Buildable, Plan.new # file
    PROVE  Follows(Plan)
  <1> DEFINE g == IF op = "edit" THEN pointer ELSE prepared
  <1>0. /\ Stored /\ Agreed /\ op \in {"edit", "scan"} /\ Settled
        /\ receipt.gen <= prepared
    BY TypeParts, MarkdownIntent DEF MInv, Control, Disk, Journal
  <1>1. Fresh \/ Authentic
    BY <1>0 DEF Buildable
  <1>2. /\ Plan.new = Render(g) /\ Plan.gen = g /\ Plan.pre = file /\ Plan.basePre = base
        /\ Plan.kind = op /\ Plan.ptrPre = IF op = "scan" THEN pointer ELSE 0
    BY <1>0 DEF Plan, Planned
  <1>3. g >= receipt.gen /\ (op = "edit" => g = receipt.gen)
    BY <1>0, GenTypes DEF Agreed
  <1> HIDE DEF g
  <1>4. Rendered(Plan)
    BY <1>2, RenderFacts DEF Rendered
  <1>5. RevisionOf(Plan) # RevisionOf(receipt)
    <2>1. SUFFICES ASSUME g = receipt.gen, DocsOf(Render(g)) = DocsOf(receipt.new) PROVE FALSE
      BY <1>2 DEF RevisionOf
    <2>2. CASE Authentic
      BY <1>0, <1>2, <2>1, <2>2, SameDocuments
    <2>3. CASE Fresh /\ ~Authentic
      <3>1. op = "scan" /\ prepared # 0
        BY <1>0, <2>3 DEF Buildable
      <3>2. receipt.gen = 0
        BY <2>3 DEF Fresh, NoReceipt, Revision, NoIntent
      <3>. QED  BY <2>1, <3>1, <3>2 DEF g
    <2>. QED  BY <1>1, <2>2, <2>3
  <1>6. \A d \in Dests : /\ file[d].gen = receipt.gen
                         /\ receipt.new[d].edits \subseteq file[d].edits
                         /\ file[d].edits \subseteq Render(g)[d].edits
    BY <1>0, <1>1, PlanKeepsEdits
  <1>. QED  BY <1>0, <1>2, <1>3, <1>4, <1>5, <1>6 DEF Follows, Agreed

LEMMA PlanFollows ==
    ASSUME NEW i, Follows(i), plan' = i, UNCHANGED receipt
    PROVE  Follows(plan)'
  <1>1. RevisionOf(plan)' = RevisionOf(i) /\ RevisionOf(receipt)' = RevisionOf(receipt)
    BY DEF RevisionOf, DocsOf
  <1>2. Rendered(plan)' <=> Rendered(i)
    BY DEF Rendered, Shown
  <1>. QED  BY <1>1, <1>2 DEF Follows, BaseOf

LEMMA IntentFollows ==
    ASSUME Follows(plan), intent' = plan, UNCHANGED receipt
    PROVE  Follows(intent)'
  <1>1. RevisionOf(intent)' = RevisionOf(plan) /\ RevisionOf(receipt)' = RevisionOf(receipt)
    BY DEF RevisionOf, DocsOf
  <1>2. Rendered(intent)' <=> Rendered(plan)
    BY DEF Rendered, Shown
  <1>. QED  BY <1>1, <1>2 DEF Follows, BaseOf

LEMMA BuildDisk ==
    ASSUME MInv, Build
    PROVE  Disk' /\ Forward' /\ Backward'
  <1>0. UNCHANGED <<disk, prepared>> /\ Disk' /\ pc = "build"
    BY DiskStays DEF Build, MInv
  <1>1. CASE Buildable /\ Plan.new # file /\ plan' = Plan /\ pc' = "create"
    <2>1. Follows(plan)'
      BY <1>0, <1>1, BuildFollows, PlanFollows DEF disk
    <2>. QED  BY <1>0, <1>1, <2>1 DEF Forward, Backward, Accepting, Back
  <1>2. CASE Return
    BY <1>0, <1>2, Parked, ReturnParks
  <1>. QED  BY <1>1, <1>2 DEF Build

LEMMA CreateDisk ==
    ASSUME MInv, CreateIntent
    PROVE  Disk' /\ Forward' /\ Backward'
  <1>0. /\ pc = "create" /\ Follows(plan) /\ Settled /\ Agreed /\ Stored /\ plan.outcome = "none"
        /\ plan.stage = "prepared"
        /\ UNCHANGED <<format, file, base, receipt, pointer, prepared>>
    BY TypeParts DEF CreateIntent, MInv, Forward, Control, Journal, Disk, Holding
  <1>1. CASE Return /\ UNCHANGED intent
    BY <1>0, <1>1, DiskStays, Parked, ReturnParks DEF MInv, disk
  <1>2. CASE /\ intent' = plan /\ pc' = "check"
             /\ plan.gen = prepared /\ plan.pre = file
    <2>1. ~Settled' /\ intent'.outcome = "none" /\ Follows(intent)'
      BY <1>0, <1>2, IntentFollows DEF Settled
    <2>2. ~ReceiptCommitted(intent)'
      BY <1>0, <1>2, FollowsDiffers DEF ReceiptCommitted, Revision
    <2>3. ~PointerCrossed(intent)'
      BY <1>0, <1>2 DEF PointerCrossed, Follows, Agreed
    <2>4. base' = intent'.basePre /\ pointer' = receipt.gen
      BY <1>0, <1>2 DEF Follows, Agreed
    <2>5. Between'
      BY <1>0, <1>2, <2>1, <2>3, <2>4 DEF Between
    <2>6. Rendered(receipt)'
      BY ZenonT(60), <1>0 DEF MInv, Disk, Rendered, Shown
    <2>7. Disk'
      BY <1>0, <1>2, <2>1, <2>2, <2>5, <2>6, GenTypes DEF MInv, Disk
    <2>8. Forward' /\ Backward'
      BY <1>2 DEF Forward, Backward, Accepting, Back
    <2>. QED  BY <2>7, <2>8
  <1>. QED  BY <1>1, <1>2 DEF CreateIntent, WalkOver

\* The fields of the journal while files are written or put back.
LEMMA FileStep ==
    ASSUME UNCHANGED <<base, receipt, pointer, intent, prepared>>
    PROVE  /\ Follows(intent)' <=> Follows(intent)
           /\ PointerCrossed(intent)' <=> PointerCrossed(intent)
           /\ ReceiptCommitted(intent)' <=> ReceiptCommitted(intent)
           /\ Rendered(receipt)' <=> Rendered(receipt)
           /\ Settled' <=> Settled
  BY SameFacts DEF SameIntent, Rendered, Shown, Settled

LEMMA WriteDisk ==
    ASSUME MInv, WriteFile
    PROVE  Disk' /\ Forward' /\ Backward'
  <1>0. /\ pc = "write" /\ pc' = "check" /\ Stored /\ Held /\ ~Settled /\ cur \in Dests
        /\ intent.stage \notin {"verified", "base_committed"}
        /\ UNCHANGED <<format, base, receipt, pointer, intent, prepared>>
    BY TypeParts DEF WriteFile, MInv, Control, Journal, Writing, Held
  <1>1. Proposed /\ Between /\ ~ReceiptCommitted(intent) /\ Follows(intent)
    BY <1>0, Early DEF MInv
  <1>2. ~PointerCrossed(intent)
    BY <1>0, <1>1 DEF Between
  <1>3. \A d \in Dests : file'[d] = IF d = cur THEN intent.new[d] ELSE file[d]
    BY <1>0 DEF WriteFile, Stored, Bodies
  <1>4. \A d \in Dests : intent.pre[d].edits \subseteq intent.new[d].edits
    BY <1>1 DEF Follows
  <1>5. \A d \in Dests : /\ file'[d].gen \in {intent.pre[d].gen, intent.new[d].gen}
                         /\ intent.pre[d].edits \subseteq file'[d].edits
    BY <1>1, <1>3, <1>4 DEF Between
  <1>6. Between'
    BY <1>0, <1>1, <1>2, <1>5, FileStep DEF Between, BaseOf
  <1>7. Disk'
    BY <1>0, <1>1, <1>6, FileStep DEF MInv, Control, Disk, Stored, ValidIntent, Settled
  <1>. QED  BY <1>0, <1>7 DEF Forward, Backward, Accepting, Back

LEMMA RestoreDisk ==
    ASSUME MInv, RestoreFile
    PROVE  Disk' /\ Forward' /\ Backward'
  <1>0. /\ pc = "restore" /\ pc' = "undo" /\ todo' = todo \ {cur}
        /\ Stored /\ Held /\ ~Settled /\ cur \in Dests
        /\ ~PointerCrossed(intent) /\ ~ReceiptCommitted(intent)
        /\ base = intent.basePre
        /\ UNCHANGED <<format, base, receipt, pointer, intent, prepared>>
    BY TypeParts DEF RestoreFile, MInv, Control, Journal, Held, Backward, Back
  <1>1. Between
    BY <1>0 DEF MInv, Disk, Proposed
  <1>3. \A d \in Dests : file'[d] = IF d = cur THEN intent.pre[d] ELSE file[d]
    BY <1>0 DEF RestoreFile, Stored, Bodies
  <1>5. \A d \in Dests : /\ file'[d].gen \in {intent.pre[d].gen, intent.new[d].gen}
                         /\ intent.pre[d].edits \subseteq file'[d].edits
    BY <1>1, <1>3 DEF Between
  <1>6. Between'
    BY <1>0, <1>1, <1>5, FileStep DEF Between, BaseOf
  <1>7. Disk'
    BY <1>0, <1>6, FileStep DEF MInv, Control, Disk, Stored, ValidIntent, Settled
  <1>8. \A d \in Dests \ todo' : file'[d].gen = intent.pre[d].gen
    BY <1>0, <1>3 DEF MInv, Backward
  <1>. QED  BY <1>0, <1>7, <1>8, FileStep DEF Forward, Backward, Accepting, Back

LEMMA AdvanceDisk ==
    ASSUME MInv, NEW s \in Stages \ {"committed"}, Advance(s), ~Settled,
           Between, ~ReceiptCommitted(intent),
           PointerCrossed(intent) =>
              s \in {"verified", "base_committed"} /\ (s = "base_committed" => base = BaseOf(intent.new))
    PROVE  /\ Disk' /\ ~Settled' /\ SameIntent /\ intent'.stage = s
           /\ ~ReceiptCommitted(intent)'
           /\ PointerCrossed(intent)' <=> PointerCrossed(intent)
           /\ UNCHANGED <<file, base, receipt, pointer>>
  <1>1. /\ SameIntent /\ intent'.outcome = intent.outcome /\ intent'.stage = s
        /\ UNCHANGED <<file, base, receipt, pointer, prepared>>
    BY AdvanceSame, TypeParts DEF MInv, Control, Advance
  <1>2. ~Settled' /\ intent'.outcome = "none"
    BY <1>1, TypeParts, MarkdownIntent DEF MInv, Control, Settled, Stored, ValidIntent
  <1>3. /\ Follows(intent)' <=> Follows(intent)
        /\ PointerCrossed(intent)' <=> PointerCrossed(intent)
        /\ ReceiptCommitted(intent)' <=> ReceiptCommitted(intent)
    BY <1>1, SameFacts
  <1>4. (Carry(intent.new)' <=> Carry(intent.new)) /\ BaseOf(intent.new)' = BaseOf(intent.new)
    BY <1>1 DEF SameIntent, Carry, BaseOf
  <1>5. Between'
    BY <1>1, <1>3, <1>4 DEF Between, SameIntent
  <1>6. Rendered(receipt)'
    BY ZenonT(60), <1>1 DEF MInv, Disk, Rendered, Shown
  <1>7. Disk'
    BY <1>1, <1>2, <1>3, <1>5, <1>6 DEF MInv, Disk, SameIntent
  <1>. QED  BY <1>1, <1>2, <1>3, <1>7

\* Where the targets hold the desired bytes, every file carries the new revision:
\* an edit leaves the index alone, whose bytes are the generation's only.
LEMMA DesiredCarried ==
    ASSUME Between, HoldsDesired
    PROVE  Carry(intent.new)
  <1>1. ASSUME NEW d \in Dests
        PROVE  file[d].gen = intent.new[d].gen /\ intent.new[d].edits \subseteq file[d].edits
    <2>1. CASE d \in Targets(intent)
      BY <2>1 DEF HoldsDesired
    <2>2. CASE d \notin Targets(intent)
      <3>1. intent.kind = "edit" /\ d[2] = "index"
        BY <2>2 DEF Targets
      <3>2. file[d].gen = intent.new[d].gen
        BY <3>1 DEF Between, Follows, Rendered
      <3>3. d[2] \notin Docs /\ d[2] # "ledger"
        BY <3>1, PublicationAssumption
      <3>4. intent.new[d].edits = {}
        BY <3>3 DEF Between, Follows, Rendered, Shown
      <3>. QED  BY <3>2, <3>4
    <2>. QED  BY <2>1, <2>2
  <1>. QED  BY <1>1 DEF Carry

LEMMA Carried ==
    ASSUME SameIntent, UNCHANGED file, Carry(intent.new)
    PROVE  Carry(intent.new)'
  BY DEF SameIntent, Carry

LEMMA CheckSteps ==
    ASSUME MInv, ProjectWritten \/ VaultSynced
    PROVE  Disk' /\ Forward' /\ Backward'
  <1>0. ~Settled /\ intent.stage \in {"prepared", "project_written"}
    BY DEF ProjectWritten, VaultSynced, MInv, Control, Journal, Writing
  <1>1. Between /\ ~ReceiptCommitted(intent) /\ ~PointerCrossed(intent)
    BY <1>0, Early DEF MInv, Between
  <1>2. CASE ProjectWritten
    <2>1. Disk' /\ pc' = "check"
      BY <1>0, <1>1, <1>2, AdvanceDisk DEF ProjectWritten, WalkOver, Stages
    <2>. QED  BY <2>1 DEF Forward, Backward, Accepting, Back
  <1>3. CASE VaultSynced
    <2>1. Disk' /\ pc' = "verify"
      BY <1>0, <1>1, <1>3, AdvanceDisk DEF VaultSynced, GoTo, Stages
    <2>. QED  BY <2>1 DEF Forward, Backward, Accepting, Back
  <1>. QED  BY <1>2, <1>3

LEMMA VerifyDisk ==
    ASSUME MInv, Verify
    PROVE  Disk' /\ Forward' /\ Backward'
  <1>0. ~Settled /\ intent.stage = "vault_synced" /\ intent.kind \in {"edit", "scan"}
    BY MarkdownIntent DEF Verify, MInv, Control, Journal, Writing, Markdown
  <1>1. Between /\ ~ReceiptCommitted(intent) /\ ~PointerCrossed(intent)
    BY <1>0, Early DEF MInv, Between
  <1>2. CASE ~HoldsDesired
    BY <1>0, <1>1, <1>2, GiveUp DEF Verify
  <1>3. CASE HoldsDesired /\ Advance("verified")
    <2>1. /\ Disk' /\ SameIntent /\ ~ReceiptCommitted(intent)' /\ ~PointerCrossed(intent)'
          /\ intent'.stage = "verified" /\ UNCHANGED <<file, pointer>>
      BY <1>0, <1>1, <1>3, AdvanceDisk DEF Stages
    <2>2. Carry(intent.new)'
      BY <1>1, <1>3, <2>1, DesiredCarried, Carried
    <2>3. CASE intent.kind = "edit" /\ pc' = "accept"
      <3>1. pointer' = intent'.gen
        BY <1>1, <2>1, <2>3 DEF Between, Follows, SameIntent
      <3>. QED  BY <2>1, <2>2, <2>3, <3>1 DEF Forward, Backward, Accepting, Back
    <2>4. CASE pc' = "pointer"
      BY <2>1, <2>2, <2>4 DEF Forward, Backward, Accepting, Back
    <2>. QED  BY <1>3, <2>3, <2>4 DEF Verify, GoTo
  <1>. QED  BY <1>2, <1>3 DEF Verify

LEMMA PointerDisk ==
    ASSUME MInv, CommitPointer \/ CommitPointerTorn
    PROVE  Disk' /\ Forward' /\ Backward'
  <1>0. /\ pc = "pointer" /\ ~Settled /\ Stored /\ pointer' = intent.gen /\ Carry(intent.new)
        /\ intent.stage = "verified" /\ intent.kind = "scan" /\ Markdown(intent)
        /\ UNCHANGED <<format, file, base, receipt, intent, prepared>>
    BY MarkdownIntent, TypeParts DEF CommitPointer, CommitPointerTorn, MInv, Control, Journal,
       Writing, Markdown, Forward
  <1>1. Between /\ ~ReceiptCommitted(intent)
    BY <1>0, Early DEF MInv
  <1>2. /\ ~ReceiptCommitted(intent)' /\ ~Settled' /\ Carry(intent.new)'
        /\ (Follows(intent)' <=> Follows(intent)) /\ (Rendered(receipt)' <=> Rendered(receipt))
        /\ PointerCrossed(intent)' <=> intent.ptrPre # intent.gen
    <2>1. RevisionOf(intent)' = RevisionOf(intent) /\ RevisionOf(receipt)' = RevisionOf(receipt)
      BY <1>0 DEF RevisionOf, DocsOf
    <2>2. (Rendered(intent)' <=> Rendered(intent)) /\ (Rendered(receipt)' <=> Rendered(receipt))
      BY <1>0 DEF Rendered, Shown
    <2>3. Follows(intent)' <=> Follows(intent)
      BY <1>0, <2>1, <2>2 DEF Follows, BaseOf
    <2>. QED  BY <1>0, <1>1, <2>2, <2>3
              DEF ReceiptCommitted, Markdown, Revision, Settled, Carry, PointerCrossed
  <1>3. Between'
    BY <1>0, <1>1, <1>2 DEF Between, BaseOf
  <1>4. Disk'
    BY <1>0, <1>2, <1>3 DEF MInv, Control, Disk, Stored, ValidIntent, Settled
  <1>5. CASE GoTo("accept")
    BY <1>0, <1>2, <1>4, <1>5 DEF GoTo, Forward, Backward, Accepting, Back
  <1>6. CASE Return
    BY <1>4, <1>6, Parked, ReturnParks
  <1>7. CASE Undo /\ intent.ptrPre = intent.gen
    <2>1. pc' = "undoBase"
      BY <1>0, <1>7 DEF Undo, GoTo
    <2>. QED  BY <1>2, <1>4, <1>7, <2>1 DEF Forward, Backward, Accepting, Back
  <1>. QED  BY <1>0, <1>5, <1>6, <1>7 DEF CommitPointer, CommitPointerTorn

LEMMA VerifyAcceptedDisk ==
    ASSUME MInv, VerifyAccepted
    PROVE  Disk' /\ Forward' /\ Backward'
  <1>0. /\ ~Settled /\ Markdown(intent) /\ pc = "accept"
        /\ UNCHANGED <<disk, prepared>> /\ Disk'
    BY MarkdownIntent, DiskStays DEF VerifyAccepted, MInv, Control, Journal, Accepting
  <1>1. CASE RollBackUnaccepted
    BY <1>0, <1>1, GiveUp
  <1>2. CASE \/ intent.stage = "base_committed" /\ pc' = "receipt"
             \/ pc' = "base"
    <2>1. /\ Carry(intent.new) /\ pointer = intent.gen
          /\ intent.stage = "base_committed" => base = BaseOf(intent.new)
      BY <1>0 DEF MInv, Forward, Accepting
    <2>2. Carry(intent.new)' /\ pointer' = intent'.gen /\ base' = base
          /\ BaseOf(intent.new)' = BaseOf(intent.new)
      BY <1>0, <2>1 DEF Carry, disk, BaseOf
    <2>. QED  BY <1>0, <1>2, <2>1, <2>2 DEF Forward, Backward, Accepting, Back
  <1>. QED  BY <1>0, <1>1, <1>2 DEF VerifyAccepted, GoTo

LEMMA CommitBaseDisk ==
    ASSUME MInv, CommitBase
    PROVE  Disk' /\ Forward' /\ Backward'
  <1>0. /\ ~Settled /\ Markdown(intent) /\ pc = "base" /\ intent.stage = "verified"
        /\ Carry(intent.new) /\ pointer = intent.gen /\ Stored
        /\ UNCHANGED <<format, file, receipt, pointer, intent, prepared>>
    BY MarkdownIntent, TypeParts DEF CommitBase, MInv, Control, Journal, Accepting, Forward
  <1>1. Between /\ ~ReceiptCommitted(intent)
    BY <1>0, Early DEF MInv
  <1>2. CASE RollBackUnaccepted /\ UNCHANGED base
    BY <1>0, <1>2, GiveUp DEF disk
  <1>3. CASE base' = BaseOf(intent.new) /\ GoTo("baseStage")
    <2>1. /\ (Follows(intent)' <=> Follows(intent)) /\ (Rendered(receipt)' <=> Rendered(receipt))
          /\ (PointerCrossed(intent)' <=> PointerCrossed(intent)) /\ ~ReceiptCommitted(intent)'
      BY <1>0, <1>1, SameFacts DEF SameIntent, Rendered, Shown
    <2>2. ~Settled' /\ Carry(intent.new)' /\ BaseOf(intent.new)' = BaseOf(intent.new)
      BY <1>0 DEF Settled, Carry, BaseOf
    <2>3. Between'
      BY <1>0, <1>1, <1>3, <2>1, <2>2 DEF Between
    <2>4. Disk'
      BY <1>0, <2>1, <2>2, <2>3 DEF MInv, Control, Disk, Stored, ValidIntent, Settled
    <2>. QED  BY <1>0, <1>3, <2>2, <2>4 DEF GoTo, Forward, Backward, Accepting, Back
  <1>. QED  BY <1>2, <1>3 DEF CommitBase

LEMMA BaseCommittedDisk ==
    ASSUME MInv, BaseCommitted
    PROVE  Disk' /\ Forward' /\ Backward'
  <1>0. /\ ~Settled /\ pc = "baseStage" /\ pc' = "receipt" /\ intent.stage = "verified"
        /\ Carry(intent.new) /\ pointer = intent.gen /\ base = BaseOf(intent.new)
    BY DEF BaseCommitted, GoTo, MInv, Control, Journal, Accepting, Forward
  <1>1. Between /\ ~ReceiptCommitted(intent)
    BY <1>0, Early DEF MInv
  <1>2. /\ Disk' /\ SameIntent /\ UNCHANGED <<file, base, pointer>>
    BY <1>0, <1>1, AdvanceDisk DEF BaseCommitted, Stages
  <1>3. Carry(intent.new)' /\ BaseOf(intent.new)' = BaseOf(intent.new) /\ pointer' = intent'.gen
    BY <1>0, <1>2, Carried DEF SameIntent, BaseOf
  <1>. QED  BY <1>0, <1>2, <1>3 DEF Forward, Backward, Accepting, Back

LEMMA ReceiptDisk ==
    ASSUME MInv, CommitReceipt
    PROVE  Disk' /\ Forward' /\ Backward'
  <1>0. /\ ~Settled /\ pc = "receipt" /\ pc' = "settle" /\ intent.stage = "base_committed"
        /\ Markdown(intent) /\ Stored
        /\ Carry(intent.new) /\ pointer = intent.gen /\ base = BaseOf(intent.new)
        /\ receipt' = Revision(intent)
        /\ UNCHANGED <<format, file, base, pointer, intent, prepared>>
    BY TypeParts DEF CommitReceipt, GoTo, MInv, Control, Journal, Accepting, Forward
  <1>1. Rendered(intent)
    <2>1. CASE ReceiptCommitted(intent)
      BY <2>1, RevisionFacts DEF MInv, Disk, ReceiptCommitted
    <2>2. CASE ~ReceiptCommitted(intent)
      BY <1>0, <2>2 DEF MInv, Disk, Proposed, Between, Follows
    <2>. QED  BY <2>1, <2>2
  <1>2. receipt'.new = intent.new /\ receipt'.gen = intent.gen /\ Rendered(receipt)'
    <2>1. receipt'.new = intent.new /\ receipt'.gen = intent.gen
      BY <1>0, RevisionFacts
    <2>2. Rendered(receipt)' <=> Rendered(Revision(intent))
      BY <1>0 DEF Rendered, Shown
    <2>. QED  BY <1>1, <2>1, <2>2, RevisionFacts
  <1>3. Agreed' /\ Carry(intent.new)'
    BY <1>0, <1>2 DEF Agreed, BaseOf, Carry
  <1>4. ReceiptCommitted(intent)' /\ ~Settled' /\ intent'.stage = "base_committed"
        /\ intent'.outcome = "none"
    BY <1>0 DEF ReceiptCommitted, Markdown, Revision, Settled, Stored, ValidIntent
  <1>5. Disk'
    BY <1>0, <1>2, <1>3, <1>4 DEF MInv, Disk, Proposed, Accepted
  <1>. QED  BY <1>0, <1>3, <1>4, <1>5 DEF Forward, Backward, Accepting, Back

\* A journal that is over frees the lock or begins the call.
LEMMA FinishParks == ASSUME Finish PROVE pc' \in {"idle", "build"}
  BY DEF Finish, GoTo, Return

LEMMA EndSame ==
    ASSUME Stored, NEW o,
           intent' = [intent EXCEPT !.stage = "committed",
                        !.outcome = IF Markdown(intent) THEN o ELSE "none"]
    PROVE  /\ SameIntent /\ Settled'
           /\ intent'.outcome = IF Markdown(intent) THEN o ELSE "none"
  BY DEF Stored, Intent, SameIntent, Settled

LEMMA SettleDisk ==
    ASSUME MInv, Settle
    PROVE  Disk' /\ Forward' /\ Backward'
  <1>0. /\ ~Settled /\ pc = "settle" /\ Markdown(intent) /\ Stored /\ ReceiptCommitted(intent)
        /\ UNCHANGED <<format, file, base, receipt, pointer, prepared>>
    BY TypeParts, MarkdownIntent DEF Settle, MInv, Control, Journal, Accepting, Forward
  <1>1. SameIntent /\ Settled' /\ intent'.outcome = "accepted"
    BY <1>0, EndSame DEF Settle
  <1>2. Agreed' /\ Rendered(receipt)'
    <2>1. Rendered(receipt)' <=> Rendered(receipt)
      BY <1>0 DEF Rendered, Shown
    <2>2. Agreed' <=> Agreed
      BY <1>0 DEF Agreed, Carry, BaseOf
    <2>. QED  BY <1>0, <2>1, <2>2 DEF MInv, Disk, Accepted
  <1>3. Disk'
    BY <1>0, <1>1, <1>2 DEF MInv, Disk, SameIntent, Proposed
  <1>. QED  BY <1>3, FinishParks, Parked DEF Settle

LEMMA UndoBaseDisk ==
    ASSUME MInv, UndoBase
    PROVE  Disk' /\ Forward' /\ Backward'
  <1>0. /\ ~Settled /\ pc = "undoBase" /\ Stored
        /\ ~PointerCrossed(intent) /\ ~ReceiptCommitted(intent)
        /\ UNCHANGED <<format, file, receipt, pointer, intent, prepared>>
    BY TypeParts DEF UndoBase, MInv, Control, Journal, Back, Backward
  <1>1. Between
    BY <1>0 DEF MInv, Disk, Proposed
  <1>2. CASE Return /\ UNCHANGED base
    BY <1>0, <1>2, DiskStays, Parked, ReturnParks DEF MInv, disk
  <1>3. CASE WalkOver("undo", Targets(intent)) /\ base' = intent.basePre
    <2>1. /\ (Follows(intent)' <=> Follows(intent)) /\ (Rendered(receipt)' <=> Rendered(receipt))
          /\ ~PointerCrossed(intent)' /\ ~ReceiptCommitted(intent)' /\ ~Settled'
      BY <1>0, SameFacts DEF SameIntent, Rendered, Shown, Settled
    <2>2. Between'
      BY <1>0, <1>1, <1>3, <2>1 DEF Between
    <2>3. Disk'
      BY <1>0, <2>1, <2>2 DEF MInv, Control, Disk, Stored, ValidIntent, Settled
    <2>4. ASSUME NEW d \in Dests \ Targets(intent) PROVE file[d].gen = intent.pre[d].gen
      <3>1. intent.kind = "edit"
        BY DEF Targets
      <3>. QED  BY <1>1, <3>1 DEF Between, Follows, Rendered
    <2>5. pc' = "undo" /\ todo' = Targets(intent)
      BY <1>3 DEF WalkOver
    <2>. QED  BY <1>0, <1>3, <2>1, <2>3, <2>4, <2>5 DEF Forward, Backward, Accepting, Back
  <1>. QED  BY <1>2, <1>3 DEF UndoBase

LEMMA CheckFileDisk ==
    ASSUME MInv, NEW d \in Dests, CheckFile(d)
    PROVE  Disk' /\ Forward' /\ Backward'
  <1>0. ~Settled /\ intent.stage # "base_committed" /\ UNCHANGED <<disk, prepared>> /\ Disk'
    BY DiskStays DEF CheckFile, MInv, Control, Journal, Writing
  <1>1. CASE RollBack
    BY <1>0, <1>1, Early, GiveUp DEF MInv
  <1>2. CASE pc' = "write"
    BY <1>0, <1>2 DEF Forward, Backward, Accepting, Back
  <1>. QED  BY <1>1, <1>2 DEF CheckFile

LEMMA UndoFileDisk ==
    ASSUME MInv, NEW d \in Dests, UndoFile(d)
    PROVE  Disk' /\ Forward' /\ Backward'
  <1>0. /\ pc = "undo" /\ UNCHANGED <<disk, prepared>> /\ Disk'
        /\ ~PointerCrossed(intent)' /\ ~ReceiptCommitted(intent)' /\ base' = intent'.basePre
    BY DiskStays, SameFacts DEF UndoFile, MInv, Backward, Back, disk, SameIntent
  <1>1. CASE Return
    BY <1>0, <1>1, Parked, ReturnParks
  <1>2. CASE pc' = "restore" /\ todo' = todo
    BY <1>0, <1>2 DEF MInv, Forward, Backward, Accepting, Back, disk
  <1>3. CASE file[d] = intent.pre[d] /\ todo' = todo \ {d} /\ pc' = pc
    BY <1>0, <1>3 DEF MInv, Forward, Backward, Accepting, Back, disk
  <1>. QED  BY <1>1, <1>2, <1>3 DEF UndoFile

LEMMA RollbackRequiredDisk ==
    ASSUME MInv, RollbackRequired
    PROVE  Disk' /\ Forward' /\ Backward'
  <1>0. /\ ~Settled /\ pc = "undo" /\ todo = {} /\ pc' = "undoSettle"
        /\ ~PointerCrossed(intent) /\ ~ReceiptCommitted(intent) /\ base = intent.basePre
        /\ \A d \in Dests : file[d].gen = intent.pre[d].gen
    BY DEF RollbackRequired, GoTo, MInv, Control, Journal, Back, Backward
  <1>1. Between
    BY <1>0 DEF MInv, Disk, Proposed
  <1>2. /\ Disk' /\ SameIntent /\ ~ReceiptCommitted(intent)' /\ ~PointerCrossed(intent)'
        /\ UNCHANGED <<file, base>>
    BY <1>0, <1>1, AdvanceDisk DEF RollbackRequired, Stages
  <1>. QED  BY <1>0, <1>2 DEF Forward, Backward, Accepting, Back, SameIntent

LEMMA RolledBackDisk ==
    ASSUME MInv, RolledBack
    PROVE  Disk' /\ Forward' /\ Backward'
  <1>0. /\ ~Settled /\ pc = "undoSettle" /\ Markdown(intent) /\ Stored
        /\ ~PointerCrossed(intent) /\ ~ReceiptCommitted(intent) /\ base = intent.basePre
        /\ \A d \in Dests : file[d].gen = intent.pre[d].gen
        /\ UNCHANGED <<format, file, base, receipt, pointer, prepared>>
    BY TypeParts, MarkdownIntent DEF RolledBack, MInv, Control, Journal, Back, Backward
  <1>1. Between
    BY <1>0 DEF MInv, Disk, Proposed
  <1>2. SameIntent /\ Settled'
    BY <1>0, EndSame DEF RolledBack
  <1>3. ~PointerCrossed(intent)' /\ ~ReceiptCommitted(intent)'
    BY <1>0, <1>2, SameFacts
  <1>4. pointer = receipt.gen
    BY <1>0, <1>1 DEF Between, Follows, PointerCrossed, Markdown
  <1>5. Carry(receipt.new)
    BY <1>0, <1>1 DEF Between, Follows, Carry, MInv, Disk, Rendered
  <1>6. Agreed' /\ Rendered(receipt)'
    <2>1. Rendered(receipt)' <=> Rendered(receipt)
      BY <1>0 DEF Rendered, Shown
    <2>2. Agreed
      BY <1>0, <1>1, <1>4, <1>5 DEF Between, Follows, Agreed
    <2>3. Agreed' <=> Agreed
      BY <1>0 DEF Agreed, Carry, BaseOf
    <2>. QED  BY <2>1, <2>2, <2>3 DEF MInv, Disk
  <1>7. Disk'
    BY <1>0, <1>2, <1>3, <1>6 DEF MInv, Disk, SameIntent, Proposed
  <1>. QED  BY <1>7, FinishParks, Parked DEF RolledBack

LEMMA FailureDisk ==
    ASSUME MInv, OperationFails \/ Crash \/ \E k \in format : Begin(k)
    PROVE  Disk' /\ Forward' /\ Backward'
  <1>0. UNCHANGED <<disk, prepared>> /\ Disk'
    BY DiskStays DEF OperationFails, Crash, Begin, MInv
  <1>1. CASE Return \/ pc' = "recover"
    BY <1>0, <1>1, Parked, ReturnParks
  <1>2. CASE RollBackUnaccepted /\ pc \in Accepting
    <2>1. ~Settled
      BY <1>2 DEF MInv, Control, Journal
    <2>. QED  BY <1>0, <1>2, <2>1, GiveUp
  <1>3. CASE RollBack /\ pc \in Writing
    <2>1. ~Settled /\ intent.stage # "base_committed"
      BY <1>3 DEF MInv, Control, Journal, Writing
    <2>. QED  BY <1>0, <1>3, <2>1, GiveUp, Early DEF MInv
  <1>. QED  BY <1>1, <1>2, <1>3 DEF OperationFails, Crash, Begin, Writing, Accepting

\* Files that only gained edits, in a disk that is otherwise as it was.
LEMMA GrownDisk ==
    ASSUME MInv, UNCHANGED <<format, base, receipt, pointer, intent, holder>>,
           prepared' \in Nat, prepared' >= prepared,
           \A d \in Dests : file'[d].gen = file[d].gen /\ file[d].edits \subseteq file'[d].edits
    PROVE  Disk' /\ Forward' /\ Backward'
  <1>0. Stored
    BY TypeParts DEF MInv, Control
  <1>1. /\ (Follows(intent)' <=> Follows(intent)) /\ (Rendered(receipt)' <=> Rendered(receipt))
        /\ (PointerCrossed(intent)' <=> PointerCrossed(intent))
        /\ (ReceiptCommitted(intent)' <=> ReceiptCommitted(intent))
        /\ (Settled' <=> Settled)
    BY SameFacts DEF SameIntent, Rendered, Shown, Settled
  <1>2. /\ Carry(intent.new) => Carry(intent.new)'
        /\ Carry(receipt.new) => Carry(receipt.new)'
    BY DEF Carry
  <1>3. (Agreed => Agreed') /\ BaseOf(intent.new)' = BaseOf(intent.new)
    BY <1>2 DEF Agreed, BaseOf
  <1>4. Between => Between'
    BY <1>1, <1>2, <1>3 DEF Between
  <1>5. receipt'.gen <= prepared' /\ pointer' <= prepared' /\ intent'.gen <= prepared'
    BY <1>0, GenTypes DEF MInv, Disk
  <1>6. Disk'
    BY <1>1, <1>3, <1>4, <1>5 DEF MInv, Disk, Proposed, Accepted
  <1>7. Follows(plan) => Follows(plan)'
    BY PlanFollows DEF holder
  <1>. QED  BY <1>1, <1>2, <1>3, <1>6, <1>7 DEF MInv, Forward, Backward, holder

LEMMA OutsideDisk ==
    ASSUME MInv, Prepare \/ (\E e \in Edits, d \in Editable : Save(e, d)) \/ UNCHANGED vars
    PROVE  Disk' /\ Forward' /\ Backward'
  <1>0. Stored /\ prepared \in Nat
    BY TypeParts, GenTypes DEF MInv, Control
  <1>1. CASE Prepare
    BY <1>0, <1>1, GrownDisk DEF Prepare, disk
  <1>2. ASSUME NEW e \in Edits, NEW d \in Editable, Save(e, d)
        PROVE  Disk' /\ Forward' /\ Backward'
    <2>1. \A c \in Dests : file'[c].gen = file[c].gen /\ file[c].edits \subseteq file'[c].edits
      <3>1. file' = [file EXCEPT ![d].edits = @ \cup {e}] /\ file \in Bodies
        BY <1>0, <1>2 DEF Save, Stored
      <3>2. \A c \in Dests : /\ file[c] \in Content
                             /\ file'[c] = IF c = d THEN [file[c] EXCEPT !.edits = @ \cup {e}] ELSE file[c]
        BY <3>1 DEF Bodies
      <3>. QED  BY ZenonT(60), <3>2 DEF Content
    <2>. QED  BY <1>0, <1>2, <2>1, GrownDisk DEF Save
  <1>3. CASE UNCHANGED vars
    BY <1>0, <1>3, GrownDisk DEF vars, disk
  <1>. QED  BY <1>1, <1>2, <1>3

LEMMA InitDisk == Init => Disk /\ Forward /\ Backward
  <1> SUFFICES ASSUME Init PROVE Disk /\ Forward /\ Backward
    OBVIOUS
  <1>1. /\ NoIntent.gen = 0 /\ NoIntent.new = NoBodies /\ NoIntent.stage = "committed"
        /\ NoIntent.outcome = "none" /\ NoIntent.kind = "none"
    BY DEF NoIntent
  <1>2. NoReceipt.gen = 0 /\ NoReceipt.new = NoBodies
    BY <1>1, RevisionFacts DEF NoReceipt
  <1>3. \A d \in Dests : NoBodies[d] = Missing /\ Missing.gen = 0 /\ Missing.edits = {}
    BY DEF NoBodies, Missing
  <1>4. \A n \in Docs : <<"project", n>> \in Dests
    BY DEF Dests, Names
  <1>5. \A n : Shown(NoBodies, n) = {}
    BY <1>3, <1>4 DEF Shown
  <1>6. BaseOf(NoBodies) = NoBase
    BY <1>3, <1>4 DEF BaseOf, NoBase
  <1>7. Rendered(NoReceipt)
    BY <1>2, <1>3, <1>5 DEF Rendered
  <1>8. Agreed /\ Settled /\ Rendered(receipt)
    BY <1>1, <1>2, <1>3, <1>6, <1>7 DEF Init, Agreed, Carry, Settled
  <1>9. Disk
    BY <1>1, <1>2, <1>8 DEF Init, Disk, Proposed
  <1>. QED  BY <1>9 DEF Init, Forward, Backward, Accepting, Back

LEMMA NextDisk ==
    ASSUME MInv, [Next]_vars
    PROVE  Disk' /\ Forward' /\ Backward'
  <1>1. CASE \E k \in format : Begin(k)
    BY <1>1, FailureDisk
  <1>2. CASE Proceed
    BY <1>2, RecoverDisk, BuildDisk, CreateDisk, CheckFileDisk, UndoFileDisk, WriteDisk,
       CheckSteps, VerifyDisk, PointerDisk, VerifyAcceptedDisk, CommitBaseDisk,
       BaseCommittedDisk, ReceiptDisk, SettleDisk, UndoBaseDisk, RestoreDisk,
       RollbackRequiredDisk, RolledBackDisk DEF Proceed
  <1>3. CASE CommitPointerTorn \/ OperationFails \/ Crash
    BY <1>3, PointerDisk, FailureDisk
  <1>4. CASE Prepare \/ (\E e \in Edits, d \in Editable : Save(e, d)) \/ UNCHANGED vars
    BY <1>4, OutsideDisk
  <1>. QED  BY <1>1, <1>2, <1>3, <1>4 DEF Next

\* No step changes the format of the project.
LEMMA FormatStays == Control /\ [Next]_vars => UNCHANGED format
  <1> SUFFICES ASSUME Control, [Next]_vars PROVE UNCHANGED format
    OBVIOUS
  <1>1. CASE Proceed
    BY <1>1, Zenon DEF Proceed, Recover, Build, CreateIntent, CheckFile, UndoFile, WriteFile,
       ProjectWritten, VaultSynced, Verify, CommitPointer, VerifyAccepted, CommitBase,
       BaseCommitted, CommitReceipt, Settle, UndoBase, RestoreFile, RollbackRequired,
       RolledBack, Advance, disk
  <1>. QED  BY <1>1 DEF Next, Begin, CommitPointerTorn, OperationFails, Crash, Save, Prepare,
               vars, disk

LEMMA NextMarkdown == Control /\ MarkdownInv /\ [Next]_vars => MarkdownInv'
  <1> SUFFICES ASSUME Control, MarkdownInv, [Next]_vars, MarkdownFormat' PROVE MarkdownInv'
    BY DEF MarkdownInv
  <1>1. MarkdownFormat
    BY FormatStays DEF MarkdownFormat
  <1>. QED  BY <1>1, NextDisk DEF MarkdownInv, MInv

-----------------------------------------------------------------------------
(* The disk of a version-1 project.                                          *)

LEMMA MachineIntent ==
    ASSUME Control, ~MarkdownFormat
    PROVE  /\ ~Settled => intent.kind = "generation"
           /\ ~Settled => ~Markdown(intent)
           /\ ~Settled => Targets(intent) = Dests
           /\ pc # "idle" => op = "generation"
           /\ pc \notin {"base", "baseStage", "receipt", "undoBase"}
  <1>1. (~Settled => intent.kind = "generation") /\ (pc # "idle" => op = "generation")
    BY FormatKinds DEF Control, Journal, Holding
  <1>2. ~Settled => ~Markdown(intent) /\ Targets(intent) = Dests
    BY <1>1 DEF Markdown, Targets
  <1>. QED  BY <1>1, <1>2 DEF Control, Journal, Accepting, Back

\* Nobody edits the machine files, and nothing commits a base or a receipt.
LEMMA MachineQuiet ==
    ASSUME Control, ~MarkdownFormat, [Next]_vars
    PROVE  UNCHANGED <<receipt, base, saved>>
  <1>1. pc \notin {"base", "baseStage", "receipt", "undoBase"} /\ format = {"generation"}
    BY MachineIntent, FormatKinds DEF Control
  <1>2. CASE Proceed
    BY <1>1, <1>2, Zenon DEF Proceed, Recover, Build, CreateIntent, CheckFile, UndoFile, WriteFile,
       ProjectWritten, VaultSynced, Verify, CommitPointer, VerifyAccepted, CommitBase,
       BaseCommitted, CommitReceipt, Settle, UndoBase, RestoreFile, RollbackRequired,
       RolledBack, Advance, disk
  <1>. QED  BY <1>1, <1>2 DEF Next, Begin, CommitPointerTorn, OperationFails, Crash, Save, Prepare,
               vars, disk

\* The steps that touch the journal or the plan.
Journaling == \/ Build \/ CreateIntent \/ ProjectWritten \/ VaultSynced \/ Verify
              \/ BaseCommitted \/ RollbackRequired \/ Settle \/ RolledBack

LEMMA MachineOther ==
    ASSUME Control, [Next]_vars, ~Journaling
    PROVE  UNCHANGED intent /\ (pc' = "create" => pc = "create" /\ plan' = plan)
  <1> USE DEF disk, holder, GoTo, WalkOver, Return, Undo, RollBack, RollBackUnaccepted
  <1>1. CASE Recover \/ VerifyAccepted \/ \E k \in format : Begin(k)
    BY <1>1 DEF Recover, VerifyAccepted, Begin
  <1>2. ASSUME NEW d \in Dests, CheckFile(d) \/ UndoFile(d)
        PROVE  UNCHANGED intent /\ (pc' = "create" => pc = "create" /\ plan' = plan)
    BY <1>2 DEF CheckFile, UndoFile
  <1>3. CASE WriteFile \/ RestoreFile \/ CommitReceipt
    BY <1>3 DEF WriteFile, RestoreFile, CommitReceipt
  <1>4. CASE CommitPointer \/ CommitPointerTorn
    BY <1>4 DEF CommitPointer, CommitPointerTorn
  <1>5. CASE CommitBase \/ UndoBase
    BY <1>5 DEF CommitBase, UndoBase
  <1>6. CASE OperationFails \/ Crash
    BY <1>6 DEF OperationFails, Crash
  <1>7. CASE Prepare \/ (\E e \in Edits, d \in Editable : Save(e, d)) \/ UNCHANGED vars
    BY <1>7 DEF Prepare, Save, vars
  <1>. QED  BY <1>1, <1>2, <1>3, <1>4, <1>5, <1>6, <1>7 DEF Next, Proceed, Journaling

LEMMA JournalingKeeps ==
    ASSUME Control, Journaling, pc \notin {"build", "create"}
    PROVE  /\ ~Settled /\ SameIntent /\ pc' # "create"
           /\ UNCHANGED <<file, saved>> /\ pc' \notin {"write", "restore"}
  <1>0. Stored
    BY TypeParts DEF Control
  <1>1. CASE ProjectWritten \/ VaultSynced \/ BaseCommitted \/ RollbackRequired
    <2>1. PICK s : Advance(s)
      BY <1>1 DEF ProjectWritten, VaultSynced, BaseCommitted, RollbackRequired
    <2>. QED  BY <1>0, <1>1, <2>1, AdvanceSame DEF ProjectWritten, VaultSynced, BaseCommitted,
                 RollbackRequired, GoTo, WalkOver, Control, Journal, Writing, Accepting, Back, Advance
  <1>2. CASE Verify
    <2>0. ~Settled
      BY <1>2 DEF Verify, Control, Journal, Writing
    <2>1. CASE HoldsDesired
      <3>1. Advance("verified") /\ pc' \in {"accept", "pointer"}
        BY <1>2, <2>1 DEF Verify, GoTo
      <3>. QED  BY <1>0, <2>0, <3>1, AdvanceSame DEF Advance
    <2>2. CASE ~HoldsDesired
      BY <1>2, <2>0, <2>2 DEF Verify, RollBack, Return, Undo, GoTo, WalkOver, SameIntent, disk
    <2>. QED  BY <2>1, <2>2
  <1>3. CASE Settle \/ RolledBack
    <2>1. SameIntent /\ Settled'
      BY <1>0, <1>3, EndSame DEF Settle, RolledBack
    <2>. QED  BY <1>3, <2>1, FinishParks
              DEF Settle, RolledBack, Control, Journal, Accepting, Back
  <1>4. ~Build /\ ~CreateIntent
    BY DEF Build, CreateIntent
  <1>. QED  BY <1>1, <1>2, <1>3, <1>4 DEF Journaling

LEMMA NextMachine == Control /\ MachineInv /\ [Next]_vars => MachineInv'
  <1> SUFFICES ASSUME Control, MachineInv, [Next]_vars, ~MarkdownFormat' PROVE Machine'
    BY DEF MachineInv
  <1>1. ~MarkdownFormat /\ Machine /\ UNCHANGED <<receipt, base, saved>>
    BY FormatStays, MachineQuiet DEF MarkdownFormat, MachineInv
  <1>2. CASE ~Journaling
    BY <1>1, <1>2, MachineOther DEF Machine, Settled
  <1>3. CASE Journaling /\ pc \notin {"build", "create"}
    BY <1>1, <1>3, JournalingKeeps DEF Machine, SameIntent
  <1>4. CASE Build /\ pc = "build"
    <2>1. op = "generation" /\ UNCHANGED intent /\ Settled
      BY <1>1, <1>4, MachineIntent DEF Build, disk, Control, Journal
    <2>2. CASE Buildable /\ plan' = Plan
      <3>1. Plan.gen = prepared /\ prepared # 0
        BY <2>1, <2>2 DEF Buildable, Plan, Planned
      <3>. QED  BY <1>1, <2>1, <2>2, <3>1 DEF Machine, Settled
    <2>3. CASE Return
      BY <1>1, <2>1, <2>3 DEF Machine, Settled, Return
    <2>. QED  BY <1>4, <2>2, <2>3 DEF Build
  <1>5. CASE CreateIntent /\ pc = "create"
    BY <1>1, <1>5 DEF Machine, CreateIntent, WalkOver, Return, Settled, Control, Journal
  <1>6. Journaling /\ pc \in {"build", "create"} => (Build \/ CreateIntent)
    BY DEF Journaling, ProjectWritten, VaultSynced, Verify, BaseCommitted, RollbackRequired,
           Settle, RolledBack
  <1>. QED  BY <1>2, <1>3, <1>4, <1>5, <1>6 DEF Build, CreateIntent

GInv == /\ Control /\ ~MarkdownFormat /\ Machine /\ MachineFiles /\ MachinePlaces
        /\ "generation" \notin TornPointer

MachineKept == MachineFiles' /\ MachinePlaces'

LEMMA MachineFilesStay ==
    ASSUME GInv, UNCHANGED disk
    PROVE  MachineFiles'
  BY DEF GInv, MachineFiles, disk, Settled, AllOf

LEMMA MachineParked == ASSUME pc' \in {"idle", "recover", "build"} PROVE MachinePlaces'
  BY DEF MachinePlaces, Writing, Back

\* Putting the files back is safe as long as their preimages are the pointer's.
LEMMA MachineUndo ==
    ASSUME GInv, ~Settled, Undo, UNCHANGED disk, AllOf(intent.pre, pointer)
    PROVE  MachineKept
  <1>1. pc' = "undo" /\ todo' = Dests
    BY MachineIntent DEF GInv, Undo, WalkOver
  <1>. QED  BY <1>1, MachineFilesStay
            DEF MachineKept, MachinePlaces, Writing, Back, disk, AllOf

LEMMA MachineQuietSteps ==
    ASSUME GInv, \/ Recover \/ VerifyAccepted \/ OperationFails \/ Crash
                 \/ \E k \in format : Begin(k)
                 \/ \E d \in Dests : CheckFile(d) \/ UndoFile(d)
    PROVE  MachineKept
  <1>0. UNCHANGED disk /\ MachineFiles'
    BY MachineFilesStay DEF Recover, VerifyAccepted, OperationFails, Crash, Begin, CheckFile, UndoFile
  <1>1. CASE Return \/ pc' = "recover"
    BY <1>0, <1>1, MachineParked, ReturnParks DEF MachineKept
  <1>2. CASE Recover /\ ~Return
    <2>1. CASE Settled
      BY <1>0, <1>2, <2>1, MachineParked DEF Recover, GoTo, MachineKept
    <2>2. CASE ~Settled /\ pointer = 0 /\ Undo
      <3>1. AllOf(intent.pre, pointer)
        BY <2>2 DEF GInv, Machine, MachineFiles
      <3>. QED  BY <1>0, <2>2, <3>1, MachineUndo
    <2>3. CASE ~Settled /\ pc' = "accept" /\ pointer = intent.gen
      BY <1>0, <2>3 DEF MachineKept, MachinePlaces, Writing, Back, disk
    <2>4. ~Settled => ~Markdown(intent)
      BY MachineIntent DEF GInv
    <2>. QED  BY <1>2, <2>1, <2>2, <2>3, <2>4 DEF Recover, RecoveryRefused, GoTo
  <1>3. CASE VerifyAccepted /\ ~Return
    <2>1. ~Settled /\ ~Markdown(intent) /\ plan = NoIntent /\ pointer = intent.gen
          /\ Targets(intent) = Dests
      BY <1>3, MachineIntent DEF GInv, VerifyAccepted, Control, Holding, Journal, Accepting, MachinePlaces
    <2>2. HoldsDesired /\ GoTo("settle")
      BY <1>3, <2>1 DEF VerifyAccepted, RollBackUnaccepted, RollBack
    <2>3. AllOf(file, intent.gen)
      BY <2>1, <2>2 DEF HoldsDesired, GInv, MachineFiles, AllOf
    <2>. QED  BY <1>0, <2>1, <2>2, <2>3
              DEF MachineKept, MachinePlaces, GoTo, Writing, Back, AllOf, disk
  <1>4. CASE (OperationFails \/ \E d \in Dests : CheckFile(d)) /\ Undo /\ ~Return
    <2>1. pc \in Writing
      <3>1. OperationFails /\ pc \in Accepting => RollBackUnaccepted /\ pc = "accept"
        BY <1>4, MachineIntent DEF GInv, OperationFails, Accepting
      <3>2. pc = "accept" => plan = NoIntent
        BY MachineIntent DEF GInv, Control, Holding, Journal, Accepting
      <3>3. ~(OperationFails /\ pc \in Accepting)
        BY <1>4, <3>1, <3>2 DEF RollBackUnaccepted, RollBack
      <3>. QED  BY <1>4, <3>3 DEF OperationFails, CheckFile, Writing, Accepting
    <2>2. ~Settled /\ AllOf(intent.pre, pointer)
      BY <2>1 DEF GInv, Control, Journal, MachinePlaces
    <2>. QED  BY <1>0, <1>4, <2>2, MachineUndo
  <1>5. CASE pc = "check" /\ pc' = "write"
    BY <1>0, <1>5 DEF GInv, MachineKept, MachinePlaces, Writing, Back, AllOf, disk
  <1>6. ASSUME NEW d \in Dests, UndoFile(d), ~Return
        PROVE  MachineKept
    <2>1. /\ pc = "undo" /\ pc' \in {"undo", "restore"}
          /\ todo' = todo \/ (todo' = todo \ {d} /\ file[d] = intent.pre[d])
      BY <1>6 DEF UndoFile
    <2>. QED  BY <1>0, <2>1 DEF GInv, MachineKept, MachinePlaces, Writing, Back, AllOf, disk
  <1>7. ASSUME NEW d \in Dests, CheckFile(d), ~Return, ~Undo
        PROVE  pc = "check" /\ pc' = "write"
    BY <1>7 DEF CheckFile, RollBack
  <1>8. OperationFails => Return \/ Undo
    BY DEF OperationFails, RollBack, RollBackUnaccepted
  <1>. QED  BY <1>1, <1>2, <1>3, <1>4, <1>5, <1>6, <1>7, <1>8 DEF Crash, Begin

LEMMA MachineBuild ==
    ASSUME GInv, Build \/ CreateIntent
    PROVE  MachineKept
  <1>0. Settled /\ AllOf(file, pointer) /\ op = "generation"
    BY MachineIntent DEF GInv, Control, Journal, MachineFiles, Build, CreateIntent
  <1>1. CASE Return /\ UNCHANGED disk
    BY <1>1, MachineFilesStay, MachineParked, ReturnParks DEF MachineKept
  <1>2. CASE Build /\ plan' = Plan /\ pc' = "create"
    <2>1. Plan.pre = file /\ AllOf(Plan.new, Plan.gen)
      BY <1>0, RenderFacts DEF Plan, Planned, AllOf
    <2>2. MachineFiles' /\ UNCHANGED disk
      BY <1>2, MachineFilesStay DEF Build
    <2>3. AllOf(plan'.pre, pointer') /\ AllOf(plan'.new, plan'.gen)
      BY <1>0, <1>2, <2>1, <2>2 DEF disk
    <2>. QED  BY <1>2, <2>2, <2>3 DEF MachineKept, MachinePlaces, Writing, Back, AllOf
  <1>3. CASE CreateIntent /\ intent' = plan /\ pc' = "check" /\ plan.pre = file
    <2>1. /\ AllOf(plan.pre, pointer) /\ AllOf(plan.new, plan.gen) /\ UNCHANGED <<file, pointer>>
          /\ plan.stage = "prepared"
      BY <1>3 DEF CreateIntent, GInv, MachinePlaces, Control, Holding
    <2>2. MachineFiles'
      BY <1>3, <2>1 DEF MachineFiles, Settled, AllOf
    <2>. QED  BY <1>3, <2>1, <2>2 DEF MachineKept, MachinePlaces, Writing, Back, AllOf
  <1>. QED  BY <1>1, <1>2, <1>3 DEF Build, CreateIntent, WalkOver, disk

LEMMA MachineWrites ==
    ASSUME GInv, WriteFile \/ RestoreFile
    PROVE  MachineKept
  <1>0. /\ ~Settled /\ Stored /\ cur \in Dests /\ pc \in Writing \cup Back
        /\ AllOf(intent.pre, pointer) /\ AllOf(intent.new, intent.gen)
        /\ UNCHANGED <<pointer, intent>> /\ todo' = todo \ {cur}
    BY TypeParts DEF GInv, Control, Journal, Held, WriteFile, RestoreFile, Writing, Back,
       MachineFiles, MachinePlaces
  <1>1. \A d \in Dests : file'[d] = IF d # cur THEN file[d]
                                    ELSE IF pc = "write" THEN intent.new[d] ELSE intent.pre[d]
    BY <1>0 DEF WriteFile, RestoreFile, Stored, Bodies
  <1>2. MachineFiles'
    BY <1>0, <1>1 DEF GInv, MachineFiles, Settled, AllOf
  <1>3. CASE WriteFile
    BY <1>0, <1>2, <1>3 DEF WriteFile, MachineKept, MachinePlaces, Writing, Back, AllOf
  <1>4. CASE RestoreFile
    BY <1>0, <1>1, <1>2, <1>4
       DEF RestoreFile, GInv, MachineKept, MachinePlaces, Writing, Back, AllOf
  <1>. QED  BY <1>3, <1>4

LEMMA MachineAdvances ==
    ASSUME GInv, ProjectWritten \/ VaultSynced \/ Verify \/ RollbackRequired
    PROVE  MachineKept
  <1>0. /\ ~Settled /\ Stored /\ pc \in Writing \cup Back /\ intent.kind = "generation"
        /\ AllOf(intent.pre, pointer) /\ AllOf(intent.new, intent.gen) /\ Targets(intent) = Dests
    BY TypeParts, MachineIntent DEF GInv, Control, Journal, ProjectWritten, VaultSynced, Verify,
       RollbackRequired, Writing, Back, MachineFiles, MachinePlaces
  <1>1. ASSUME NEW s \in Stages \ {"committed"}, Advance(s)
        PROVE  MachineFiles' /\ SameIntent /\ UNCHANGED <<file, pointer>>
    <2>1. SameIntent /\ intent'.stage = s /\ UNCHANGED <<file, pointer>>
      BY <1>0, <1>1, AdvanceSame DEF Advance
    <2>. QED  BY <1>0, <2>1 DEF GInv, MachineFiles, SameIntent, AllOf, Settled
  <1>2. CASE ProjectWritten \/ VaultSynced
    <2>1. MachineFiles' /\ SameIntent /\ UNCHANGED <<file, pointer>>
      <3>1. PICK s \in Stages \ {"committed"} : Advance(s)
        BY <1>2 DEF ProjectWritten, VaultSynced, Stages
      <3>. QED  BY <1>1, <3>1
    <2>2. pc' \in {"check", "verify"}
      BY <1>2 DEF ProjectWritten, VaultSynced, GoTo, WalkOver
    <2>. QED  BY <1>0, <2>1, <2>2 DEF MachineKept, MachinePlaces, SameIntent, Writing, Back, AllOf
  <1>3. CASE Verify /\ HoldsDesired
    <2>1. MachineFiles' /\ SameIntent /\ UNCHANGED <<file, pointer>> /\ pc' = "pointer"
      BY <1>0, <1>1, <1>3 DEF Verify, Stages, GoTo
    <2>2. AllOf(file, intent.gen)
      BY <1>0, <1>3 DEF HoldsDesired, AllOf
    <2>. QED  BY <1>0, <2>1, <2>2 DEF MachineKept, MachinePlaces, SameIntent, Writing, Back, AllOf
  <1>4. CASE Verify /\ ~HoldsDesired
    <2>1. UNCHANGED disk /\ (Return \/ Undo)
      BY <1>4 DEF Verify, RollBack
    <2>. QED  BY <1>0, <2>1, MachineUndo, MachineFilesStay, MachineParked, ReturnParks DEF MachineKept
  <1>5. CASE RollbackRequired
    <2>1. MachineFiles' /\ SameIntent /\ UNCHANGED <<file, pointer>> /\ pc' = "undoSettle"
      BY <1>1, <1>5 DEF RollbackRequired, Stages, GoTo
    <2>2. AllOf(file, pointer)
      BY <1>0, <1>5 DEF RollbackRequired, GInv, MachinePlaces, AllOf
    <2>. QED  BY <1>0, <2>1, <2>2 DEF MachineKept, MachinePlaces, SameIntent, Writing, Back, AllOf
  <1>. QED  BY <1>2, <1>3, <1>4, <1>5

LEMMA MachinePointer ==
    ASSUME GInv, CommitPointer
    PROVE  MachineKept
  <1>0. /\ ~Settled /\ pc' = "settle" /\ pointer' = intent.gen /\ UNCHANGED <<file, intent>>
        /\ intent.stage = "verified" /\ AllOf(file, intent.gen) /\ AllOf(intent.new, intent.gen)
    BY MachineIntent DEF GInv, CommitPointer, Control, Journal, Writing, GoTo, MachineFiles,
       MachinePlaces
  <1>1. MachineFiles'
    BY <1>0 DEF MachineFiles, Settled, AllOf
  <1>. QED  BY <1>0, <1>1 DEF MachineKept, MachinePlaces, Writing, Back, AllOf

LEMMA MachineEnds ==
    ASSUME GInv, Settle \/ RolledBack
    PROVE  MachineKept
  <1>1. AllOf(file, pointer) /\ UNCHANGED <<file, pointer>>
    BY DEF GInv, Settle, RolledBack, MachinePlaces, AllOf
  <1>2. Settled'
    BY TypeParts, EndSame DEF GInv, Control, Settle, RolledBack
  <1>3. pc' \in {"idle", "build"}
    BY FinishParks DEF Settle, RolledBack
  <1>. QED  BY <1>1, <1>2, <1>3, MachineParked DEF MachineKept, MachineFiles, AllOf

LEMMA MachineOutside ==
    ASSUME GInv, Prepare \/ UNCHANGED vars
    PROVE  MachineKept
  <1>1. UNCHANGED <<disk, holder>>
    BY DEF Prepare, vars
  <1>. QED  BY <1>1, MachineFilesStay
            DEF GInv, MachineKept, MachinePlaces, disk, holder, AllOf

LEMMA NextGenerations ==
    ASSUME "generation" \notin TornPointer
    PROVE  Control /\ MachineInv /\ GenerationInv /\ [Next]_vars => GenerationInv'
  <1> SUFFICES ASSUME Control, MachineInv, GenerationInv, [Next]_vars, ~MarkdownFormat'
               PROVE  MachineKept
    BY DEF GenerationInv, MachineKept
  <1>1. GInv /\ format = {"generation"}
    BY FormatStays, FormatKinds DEF Control, MarkdownFormat, MachineInv, GenerationInv, GInv
  <1>2. \A e \in Edits, d \in Editable : ~Save(e, d)
    BY <1>1 DEF Save
  <1>3. ~CommitPointerTorn
    BY <1>1, MachineIntent DEF GInv, CommitPointerTorn, Control, Journal, Writing
  <1>4. ~CommitBase /\ ~BaseCommitted /\ ~CommitReceipt /\ ~UndoBase
    BY <1>1, MachineIntent DEF GInv, CommitBase, BaseCommitted, CommitReceipt, UndoBase
  <1>. QED  BY <1>1, <1>2, <1>3, <1>4, MachineQuietSteps, MachineBuild, MachineWrites,
               MachineAdvances, MachinePointer, MachineEnds, MachineOutside DEF Next, Proceed

LEMMA InitMachine == Init => Machine /\ MachineFiles /\ MachinePlaces
  <1> SUFFICES ASSUME Init PROVE Machine /\ MachineFiles /\ MachinePlaces
    OBVIOUS
  <1>1. NoIntent.stage = "committed"
    BY DEF NoIntent
  <1>2. AllOf(file, pointer)
    BY DEF Init, AllOf, NoBodies, Missing
  <1>. QED  BY <1>1, <1>2 DEF Init, Machine, MachineFiles, MachinePlaces, Settled, Writing, Back

-----------------------------------------------------------------------------
(* What the disk shows.                                                      *)

Inv == Control /\ MarkdownInv /\ MachineInv

LEMMA AlwaysInv == Spec => []Inv
  <1>1. Init => Inv
    BY InitControl, InitDisk, InitMachine DEF Inv, MarkdownInv, MachineInv
  <1>2. Inv /\ [Next]_vars => Inv'
    BY NextControl, NextMarkdown, NextMachine DEF Inv
  <1>. QED  BY <1>1, <1>2, PTL DEF Spec

\* Whatever crashes, the receipt, the merge base and the pointer agree, and what
\* was rolled back left none of them changed.
THEOREM OutcomesAlwaysAgree == Spec => []OutcomesAgree
  <1>1. ASSUME Inv PROVE OutcomesAgree
    <2>1. CASE MarkdownFormat
      <3>1. Disk
        BY <1>1, <2>1 DEF Inv, MarkdownInv
      <3>. QED  BY <3>1 DEF Disk, Accepted, Agreed, OutcomesAgree
    <2>2. CASE ~MarkdownFormat
      <3>1. receipt = NoReceipt
        BY <1>1, <2>2 DEF Inv, MachineInv, Machine
      <3>3. intent.outcome = "none"
        <4>1. intent.kind = "generation" \/ intent.kind = "none"
          BY <1>1, <2>2, FormatKinds DEF Inv, Control, Journal
        <4>. QED  BY <1>1, <4>1, TypeParts DEF Inv, Control, Stored, ValidIntent, Markdown
      <3>. QED  BY <3>1, <3>3 DEF OutcomesAgree
    <2>. QED  BY <2>1, <2>2
  <1>. QED  BY <1>1, AlwaysInv, PTL

\* No crash leaves a mixed projection behind: between two publications every
\* file is the published generation's.  (The pointer of a version-1 publication
\* must not be torn: the code then rolls its files back under the new pointer.)
THEOREM NeverMixedProjection ==
    ASSUME "generation" \notin TornPointer
    PROVE  Spec => []NeverMixed
  <1>1. ASSUME Inv, GenerationInv PROVE NeverMixed
    <2>1. CASE MarkdownFormat
      BY <1>1, <2>1 DEF Inv, MarkdownInv, Disk, Agreed, Carry, Rendered, NeverMixed
    <2>2. CASE ~MarkdownFormat
      BY <1>1, <2>2 DEF GenerationInv, MachineFiles, AllOf, NeverMixed
    <2>. QED  BY <2>1, <2>2
  <1>2. Init => GenerationInv
    BY InitMachine DEF GenerationInv
  <1>3. Inv /\ GenerationInv /\ [Next]_vars => GenerationInv'
    BY NextGenerations DEF Inv
  <1>4. Spec => []GenerationInv
    BY <1>2, <1>3, AlwaysInv, PTL DEF Spec
  <1>. QED  BY <1>1, <1>4, AlwaysInv, PTL

-----------------------------------------------------------------------------
(* What people wrote.                                                        *)

EInv == Inv /\ Edited /\ ~Window

\* The parts of Edited that do not depend on the place.
EditedFiles == EditsStay /\ Known(file)
EditedJournal == Known(intent.pre) /\ Known(intent.new) /\ (~Settled => Fresher(intent))
EditedPlaces ==
    /\ pc = "create" => Known(plan.pre) /\ Known(plan.new) /\ Fresher(plan)
    /\ pc = "write" => file[cur] = intent.pre[cur]
    /\ pc = "restore" => file[cur] = intent.new[cur] \/ file[cur] = Missing

LEMMA EditedParts ==
    /\ Edited <=> EditedFiles /\ EditedJournal /\ EditedPlaces
    /\ Edited' <=> EditedFiles' /\ EditedJournal' /\ EditedPlaces'
  BY DEF Edited, EditedFiles, EditedJournal, EditedPlaces

LEMMA FilesStay ==
    ASSUME EditedFiles, UNCHANGED <<file, saved>> PROVE EditedFiles'
  BY DEF EditedFiles, EditsStay, Known

LEMMA JournalStays ==
    ASSUME EditedJournal, SameIntent, UNCHANGED saved, ~Settled' => ~Settled
    PROVE  EditedJournal'
  BY DEF EditedJournal, SameIntent, Known, Fresher

\* A disk that is left alone, at a place where nothing is about to be written.
LEMMA EditsQuiet ==
    ASSUME EInv, SameIntent, UNCHANGED <<file, saved>>, ~Settled' => ~Settled,
           pc' \notin {"create", "write", "restore"}
    PROVE  Edited'
  <1>1. EditedFiles' /\ EditedJournal'
    BY EditedParts, FilesStay, JournalStays DEF EInv
  <1>. QED  BY <1>1, EditedParts DEF EditedPlaces

LEMMA QuietPlaces ==
    ASSUME \/ Recover \/ VerifyAccepted \/ OperationFails \/ Crash \/ CommitPointer
           \/ CommitPointerTorn \/ CommitBase \/ CommitReceipt \/ UndoBase
           \/ \E k \in format : Begin(k)
    PROVE  UNCHANGED <<file, intent, saved>> /\ pc' \notin {"create", "write", "restore"}
  <1> USE DEF disk, holder, GoTo, WalkOver, Return, Undo, RollBack, RollBackUnaccepted
  <1>1. CASE Recover \/ VerifyAccepted \/ \E k \in format : Begin(k)
    BY <1>1 DEF Recover, VerifyAccepted, Begin
  <1>2. CASE OperationFails \/ Crash
    BY <1>2 DEF OperationFails, Crash
  <1>3. CASE CommitPointer \/ CommitPointerTorn \/ CommitReceipt
    BY <1>3 DEF CommitPointer, CommitPointerTorn, CommitReceipt
  <1>4. CASE CommitBase \/ UndoBase
    BY <1>4 DEF CommitBase, UndoBase
  <1>. QED  BY <1>1, <1>2, <1>3, <1>4

\* What a plan would write was saved, and is in the files it read.
LEMMA PlanKnown ==
    ASSUME EInv, op \in AllKinds
    PROVE  Known(Plan.pre) /\ Known(Plan.new) /\ Fresher(Plan)
  <1> DEFINE g == IF op = "edit" THEN pointer ELSE prepared
  <1>1. Plan.pre = file /\ Plan.new = Render(g)
    BY DEF Plan, Planned
  <1> HIDE DEF g
  <1>2. Known(file) /\ EditsStay
    BY EditedParts DEF EInv, EditedFiles
  <1>3. ASSUME NEW n \in Docs, NEW e \in Merged(n) PROVE \E c \in Dests : <<e, c>> \in saved
    <2>1. <<"project", n>> \in Dests /\ <<"vault", n>> \in Dests
      BY DEF Dests, Names
    <2>. QED  BY <1>2, <1>3, <2>1 DEF Known, Merged
  <1>4. ASSUME NEW d \in Dests, NEW e \in Render(g)[d].edits
        PROVE  \E c \in Dests : <<e, c>> \in saved
    <2>1. CASE d[2] \in Docs
      <3>1. e \in Merged(d[2])
        BY <1>4, <2>1, RenderFacts
      <3>. QED  BY <1>3, <2>1, <3>1
    <2>2. CASE d[2] \notin Docs
      <3>1. e \in UNION {Merged(n) : n \in Docs}
        BY <1>4, <2>2 DEF Render
      <3>2. PICK n \in Docs : e \in Merged(n)
        BY <3>1
      <3>. QED  BY <1>3, <3>2
    <2>. QED  BY <2>1, <2>2
  <1>5. Known(Plan.new)
    BY <1>1, <1>4 DEF Known
  <1>6. Fresher(Plan)
    BY <1>1, <1>2 DEF Fresher, EditsStay
  <1>. QED  BY <1>1, <1>2, <1>5, <1>6

LEMMA EditsBuild ==
    ASSUME EInv, Build
    PROVE  Edited'
  <1>0. op \in AllKinds /\ UNCHANGED <<disk, saved>>
    BY FormatKinds DEF EInv, Inv, Control, Holding, Build
  <1>1. EditedFiles' /\ EditedJournal'
    BY <1>0, EditedParts, FilesStay, JournalStays DEF EInv, disk, SameIntent, Settled
  <1>2. CASE plan' = Plan /\ pc' = "create"
    <2>1. Known(plan.pre)' /\ Known(plan.new)' /\ Fresher(plan)'
      BY <1>0, <1>2, PlanKnown DEF Known, Fresher
    <2>. QED  BY <1>1, <1>2, <2>1, EditedParts DEF EditedPlaces
  <1>3. CASE Return
    BY <1>1, <1>3, EditedParts, ReturnParks DEF EditedPlaces
  <1>. QED  BY <1>2, <1>3 DEF Build

LEMMA EditsCreate ==
    ASSUME EInv, CreateIntent
    PROVE  Edited'
  <1>0. UNCHANGED <<file, saved>> /\ EditedFiles' /\ pc' \in {"check", "idle"} /\ pc = "create"
    BY EditedParts, FilesStay DEF EInv, CreateIntent, WalkOver, Return
  <1>1. CASE intent' = plan
    <2>1. Known(plan.pre) /\ Known(plan.new) /\ Fresher(plan)
      BY <1>0, EditedParts DEF EInv, EditedPlaces
    <2>2. EditedJournal'
      BY <1>0, <1>1, <2>1 DEF EditedJournal, Known, Fresher
    <2>. QED  BY <1>0, <2>2, EditedParts DEF EditedPlaces
  <1>2. CASE UNCHANGED intent
    BY <1>0, <1>2, EditsQuiet DEF SameIntent, Settled
  <1>. QED  BY <1>1, <1>2 DEF CreateIntent

LEMMA EditsCheck ==
    ASSUME EInv, NEW d \in Dests, CheckFile(d) \/ UndoFile(d)
    PROVE  Edited'
  <1>0. UNCHANGED <<file, intent, saved>>
    BY DEF CheckFile, UndoFile, disk
  <1>1. EditedFiles' /\ EditedJournal'
    BY <1>0, EditedParts, FilesStay, JournalStays DEF EInv, SameIntent, Settled
  <1>2. EditedPlaces'
    BY <1>0 DEF CheckFile, UndoFile, EditedPlaces, Return, RollBack, Undo, GoTo, WalkOver
  <1>. QED  BY <1>1, <1>2, EditedParts

\* The file that is written is the one that was checked: nobody saved it since,
\* and what it is replaced by has all its edits.
LEMMA EditsWrite ==
    ASSUME EInv, WriteFile
    PROVE  Edited'
  <1>0. /\ pc = "write" /\ pc' = "check" /\ Stored /\ ~Settled /\ cur \in Dests
        /\ intent.stage # "base_committed" /\ UNCHANGED <<intent, saved>>
        /\ EditedFiles /\ EditedJournal /\ file[cur] = intent.pre[cur]
    BY TypeParts, EditedParts DEF EInv, Inv, Control, Journal, Writing, Held, WriteFile, EditedPlaces
  <1>1. \A d \in Dests : file'[d] = IF d = cur THEN intent.new[d] ELSE file[d]
    BY <1>0 DEF WriteFile, Stored, Bodies
  <1>2. Known(file)'
    BY <1>0, <1>1 DEF Known, EditedFiles, EditedJournal
  <1>3. EditsStay'
    <2>1. CASE MarkdownFormat
      <3>1. file[cur].edits \subseteq intent.new[cur].edits
        BY <1>0, <2>1, Early DEF EInv, Inv, MarkdownInv, Follows
      <3>2. saved \subseteq Edits \X Dests
        BY <1>0 DEF Stored
      <3>3. \A s \in saved : s[2] \in Dests /\ s[1] \in file[s[2]].edits
        BY <1>0, <3>2 DEF EditedFiles, EditsStay
      <3>4. ASSUME NEW s \in saved PROVE s[1] \in file'[s[2]].edits
        BY <1>1, <3>1, <3>3
      <3>. QED  BY <1>0, <3>4 DEF EditsStay
    <2>2. CASE ~MarkdownFormat
      BY <1>0, <2>2 DEF EInv, Inv, MachineInv, Machine, EditsStay
    <2>. QED  BY <2>1, <2>2
  <1>4. EditedJournal'
    BY <1>0, JournalStays DEF SameIntent, Settled
  <1>. QED  BY <1>0, <1>2, <1>3, <1>4, EditedParts DEF EditedFiles, EditedPlaces

\* A file is put back only where it is what the publication wrote: nothing was
\* saved in it since, and its preimage has what was saved before.
LEMMA EditsRestore ==
    ASSUME EInv, RestoreFile
    PROVE  Edited'
  <1>0. /\ pc = "restore" /\ pc' = "undo" /\ Stored /\ ~Settled /\ cur \in Dests
        /\ UNCHANGED <<intent, saved>> /\ EditedFiles /\ EditedJournal
        /\ file[cur] = intent.new[cur] \/ file[cur] = Missing
    BY TypeParts, EditedParts DEF EInv, Inv, Control, Journal, Back, Held, RestoreFile, EditedPlaces
  <1>1. \A d \in Dests : file'[d] = IF d = cur THEN intent.pre[d] ELSE file[d]
    BY <1>0 DEF RestoreFile, Stored, Bodies
  <1>2. Known(file)'
    BY <1>0, <1>1 DEF Known, EditedFiles, EditedJournal
  <1>3. EditsStay'
    <2>1. \A s \in saved : s[2] \in Dests /\ s[1] \in file[s[2]].edits
      BY <1>0 DEF EditedFiles, EditsStay, Stored
    <2>2. ASSUME NEW s \in saved PROVE s[1] \in file'[s[2]].edits
      <3>1. CASE s[2] # cur
        BY <1>1, <2>1, <3>1
      <3>2. CASE s[2] = cur
        <4>1. s[1] \in intent.new[cur].edits
          BY <1>0, <2>1, <3>2 DEF Missing
        <4>2. s[1] \in intent.pre[cur].edits
          BY <1>0, <3>2, <4>1 DEF EditedJournal, Fresher
        <4>. QED  BY <1>0, <1>1, <3>2, <4>2
      <3>. QED  BY <3>1, <3>2
    <2>. QED  BY <1>0, <2>2 DEF EditsStay
  <1>4. EditedJournal'
    BY <1>0, JournalStays DEF SameIntent, Settled
  <1>. QED  BY <1>0, <1>2, <1>3, <1>4, EditedParts DEF EditedFiles, EditedPlaces

\* A new edit is in no preimage, no rendering and no file under a hand.
LEMMA EditsSave ==
    ASSUME EInv, NEW e \in Edits, NEW d \in Editable, Save(e, d)
    PROVE  Edited'
  <1>0. /\ Stored /\ d \in Dests /\ d # cur /\ UNCHANGED <<intent, pc, plan, cur>>
        /\ \A s \in saved : s[1] # e
        /\ saved' = saved \cup {<<e, d>>}
        /\ EditedFiles /\ EditedJournal /\ EditedPlaces
        /\ saved \subseteq Edits \X Dests
    BY TypeParts, EditedParts, PublicationAssumption
       DEF EInv, Inv, Control, Save, holder, Stored
  <1>1. \A c \in Dests : /\ c # d => file'[c] = file[c]
                         /\ file'[c].edits = IF c = d THEN file[c].edits \cup {e} ELSE file[c].edits
    <2>1. file' = [file EXCEPT ![d].edits = @ \cup {e}] /\ file \in Bodies
      BY <1>0 DEF Save, Stored
    <2>2. \A c \in Dests : /\ file[c] \in Content
                           /\ file'[c] = IF c = d THEN [file[c] EXCEPT !.edits = @ \cup {e}] ELSE file[c]
      BY <2>1 DEF Bodies
    <2>. QED  BY <2>2 DEF Content
  <1>2. ASSUME NEW b, Known(b)
        PROVE  /\ \A c \in Dests : e \notin b[c].edits
               /\ \A c \in Dests : \A x \in b[c].edits : \E y \in Dests : <<x, y>> \in saved'
    <2>1. \A c \in Dests : \A x \in b[c].edits : \E y \in Dests : <<x, y>> \in saved
      BY <1>2 DEF Known
    <2>2. \A y \in Dests : <<e, y>> \notin saved
      BY <1>0
    <2>. QED  BY <1>0, <2>1, <2>2
  <1>3. Known(file)'
    <2>1. \A c \in Dests : \A x \in file[c].edits : \E y \in Dests : <<x, y>> \in saved'
      BY <1>0, <1>2 DEF EditedFiles
    <2>2. ASSUME NEW c \in Dests, NEW x \in file'[c].edits
          PROVE  \E y \in Dests : <<x, y>> \in saved'
      <3>1. CASE x \in file[c].edits
        BY <2>1, <3>1
      <3>2. CASE x \notin file[c].edits
        <4>1. x = e
          BY <1>1, <3>2
        <4>. QED  BY <1>0, <4>1
      <3>. QED  BY <3>1, <3>2
    <2>. QED  BY <2>2 DEF Known
  <1>4. EditsStay'
    <2>1. \A s \in saved : s[2] \in Dests /\ s[1] \in file[s[2]].edits
      BY <1>0 DEF EditedFiles, EditsStay
    <2>2. \A s \in saved : s[1] \in file'[s[2]].edits
      BY <1>1, <2>1
    <2>3. <<e, d>>[1] \in file'[<<e, d>>[2]].edits
      BY <1>0, <1>1
    <2>. QED  BY <1>0, <2>2, <2>3 DEF EditsStay
  <1>5. ASSUME NEW i, Known(i.new), Fresher(i)
        PROVE  \A s \in saved' : s[1] \in i.new[s[2]].edits => s[1] \in i.pre[s[2]].edits
    <2>1. e \notin i.new[d].edits
      BY <1>0, <1>2, <1>5
    <2>. QED  BY <1>0, <1>5, <2>1 DEF Fresher
  <1>6. EditedJournal'
    BY <1>0, <1>2, <1>5 DEF EditedJournal, Known, Fresher, Settled
  <1>7. EditedPlaces'
    <2>1. pc = "create" => Known(plan.pre)' /\ Known(plan.new)' /\ Fresher(plan)'
      BY <1>0, <1>2, <1>5 DEF EditedPlaces, Known, Fresher
    <2>2. pc \in {"write", "restore"} => file'[cur] = file[cur]
      BY <1>0, <1>1, TypeParts DEF EInv, Inv, Control, Held
    <2>. QED  BY <1>0, <2>1, <2>2 DEF EditedPlaces
  <1>. QED  BY <1>3, <1>4, <1>6, <1>7, EditedParts DEF EditedFiles

LEMMA NextEdited ==
    ASSUME ~Window
    PROVE  Inv /\ Edited /\ [Next]_vars => Edited'
  <1> SUFFICES ASSUME EInv, [Next]_vars PROVE Edited'
    BY DEF EInv
  <1>1. CASE \/ Recover \/ VerifyAccepted \/ OperationFails \/ Crash \/ CommitPointer
             \/ CommitPointerTorn \/ CommitBase \/ CommitReceipt \/ UndoBase
             \/ \E k \in format : Begin(k)
    BY <1>1, QuietPlaces, EditsQuiet DEF SameIntent, Settled
  <1>2. CASE Journaling /\ ~Build /\ ~CreateIntent
    <2>1. pc \notin {"build", "create"}
      BY <1>2 DEF Journaling, ProjectWritten, VaultSynced, Verify, BaseCommitted,
         RollbackRequired, Settle, RolledBack
    <2>2. /\ ~Settled /\ SameIntent /\ pc' \notin {"create", "write", "restore"}
          /\ UNCHANGED <<file, saved>>
      BY <1>2, <2>1, JournalingKeeps DEF EInv, Inv
    <2>. QED  BY <2>2, EditsQuiet
  <1>3. CASE Prepare \/ UNCHANGED vars
    <2>1. UNCHANGED <<file, intent, saved, holder>>
      BY <1>3 DEF Prepare, vars, disk
    <2>. QED  BY <2>1 DEF EInv, Edited, EditsStay, Known, Fresher, Settled, holder
  <1>. QED  BY <1>1, <1>2, <1>3, EditsBuild, EditsCreate, EditsCheck, EditsWrite, EditsRestore,
               EditsSave DEF Next, Proceed, Journaling

\* What a person saved in a file stays in that file, through every publication,
\* rollback, recovery and crash.  (No save falls between the check of that file
\* and its rename.)
THEOREM EditsAlwaysStay ==
    ASSUME ~Window
    PROVE  Spec => []EditsStay
  <1>1. Init => Edited
    <2>1. NoIntent.pre = NoBodies /\ NoIntent.new = NoBodies /\ NoIntent.stage = "committed"
      BY DEF NoIntent
    <2>2. \A d \in Dests : NoBodies[d].edits = {}
      BY DEF NoBodies, Missing
    <2>. QED  BY <2>1, <2>2 DEF Init, Edited, EditsStay, Known, Settled
  <1>2. Edited => EditsStay
    BY DEF Edited
  <1>. QED  BY <1>1, <1>2, NextEdited, AlwaysInv, PTL DEF Spec

-----------------------------------------------------------------------------
(* The pieces on disk act as one.                                            *)

Proposal == RevisionOf(IF Proposed THEN intent ELSE NoIntent)
Status == IF ~Proposed THEN "none"
          ELSE IF PointerCrossed(intent) THEN "decided" ELSE "tentative"
AtomicStep == Atomic!Next \/ UNCHANGED <<RevisionOf(receipt), Proposal, Status>>

LEMMA Nothing == RevisionOf(NoIntent) = Atomic!Nothing /\ RevisionOf(NoReceipt) = Atomic!Nothing
  <1>1. NoIntent.gen = 0 /\ NoIntent.new = NoBodies
    BY DEF NoIntent
  <1>2. \A n \in Docs : NoBodies[<<"project", n>>].edits = {}
    BY DEF NoBodies, Missing, Dests, Names
  <1>3. RevisionOf(NoIntent) = Atomic!Nothing
    BY <1>1, <1>2 DEF RevisionOf, DocsOf, Atomic!Nothing
  <1>. QED  BY <1>3, RevisionFacts DEF NoReceipt

\* A step that changes neither the revisions nor how far they are.
LEMMA AtomicStutters ==
    ASSUME SameIntent, UNCHANGED <<receipt, pointer>>, Settled' <=> Settled
    PROVE  AtomicStep
  <1>1. (Proposed' <=> Proposed) /\ (PointerCrossed(intent)' <=> PointerCrossed(intent))
    BY SameFacts DEF Proposed
  <1>2. RevisionOf(intent)' = RevisionOf(intent) /\ RevisionOf(receipt)' = RevisionOf(receipt)
    BY DEF SameIntent, RevisionOf, DocsOf
  <1>3. Proposal' = Proposal
    <2>1. CASE Proposed
      <3>1. Proposal = RevisionOf(intent)
        BY <2>1 DEF Proposal
      <3>2. Proposal' = RevisionOf(intent)'
        BY <1>1, <2>1 DEF Proposal
      <3>. QED  BY <1>2, <3>1, <3>2
    <2>2. CASE ~Proposed
      <3>1. Proposal = RevisionOf(NoIntent) /\ Proposal' = RevisionOf(NoIntent)
        BY <1>1, <2>2 DEF Proposal
      <3>. QED  BY <3>1
    <2>. QED  BY <2>1, <2>2
  <1>. QED  BY <1>1, <1>2, <1>3 DEF AtomicStep, Status

\* The proposal as it stands, before and after a step.
LEMMA ProposalIs ==
    /\ Proposed => Proposal = RevisionOf(intent)
    /\ ~Proposed => Proposal = Atomic!Nothing /\ Status = "none"
    /\ Proposed' => Proposal' = RevisionOf(intent)'
    /\ ~Proposed' => Proposal' = Atomic!Nothing /\ Status' = "none"
  BY Nothing DEF Proposal, Status

LEMMA RevisionType == ASSUME NEW i \in Intent PROVE RevisionOf(i) \in Atomic!Revisions
  <1>1. \A n \in Docs : i.new[<<"project", n>>].edits \in SUBSET Edits
    BY DEF Intent, Bodies, Content, Dests, Names
  <1>2. DocsOf(i.new) \in [Docs -> SUBSET Edits]
    BY <1>1 DEF DocsOf
  <1>. QED  BY <1>2 DEF RevisionOf, Intent, Gens, Atomic!Revisions

\* A new intent replaces the accepted revision by one that extends it.
LEMMA CreateProposes ==
    ASSUME Inv, CreateIntent
    PROVE  AtomicStep
  <1>0. /\ Stored /\ Held /\ pc = "create" /\ Settled /\ UNCHANGED <<receipt, pointer>>
        /\ plan.kind \in format /\ plan.stage = "prepared" /\ plan \in Intent
    BY TypeParts DEF Inv, Control, Journal, Holding, Held, CreateIntent
  <1>1. CASE UNCHANGED intent
    BY <1>0, <1>1, AtomicStutters DEF SameIntent, Settled
  <1>2. CASE intent' = plan
    <2> DEFINE r == RevisionOf(plan)
    <2>1. /\ Atomic!Extends(r, RevisionOf(receipt)) /\ r # RevisionOf(receipt)
          /\ ~ReceiptCommitted(intent)' /\ ~PointerCrossed(intent)'
      <3>1. CASE MarkdownFormat
        <4>1. Follows(plan) /\ Agreed
          BY <1>0, <3>1 DEF Inv, MarkdownInv, Forward, Disk
        <4>2. \A n \in Docs : receipt.new[<<"project", n>>].edits \subseteq plan.new[<<"project", n>>].edits
          BY <4>1 DEF Follows, Dests, Names
        <4>3. Atomic!Extends(r, RevisionOf(receipt))
          BY <4>1, <4>2 DEF Follows, RevisionOf, DocsOf, Atomic!Extends
        <4>4. ~ReceiptCommitted(intent)'
          BY <1>0, <1>2, <4>1, FollowsDiffers DEF ReceiptCommitted, Revision
        <4>5. ~PointerCrossed(intent)'
          BY <1>0, <1>2, <4>1 DEF PointerCrossed, Follows, Agreed
        <4>. QED  BY <4>1, <4>3, <4>4, <4>5 DEF Follows
      <3>2. CASE ~MarkdownFormat
        <4>1. receipt = NoReceipt /\ plan.gen # 0 /\ plan.kind = "generation"
          BY <1>0, <3>2, FormatKinds DEF Inv, Control, MachineInv, Machine
        <4>2. r.gen = plan.gen /\ plan.gen \in Nat
          BY <1>0, PublicationAssumption DEF RevisionOf, Intent, Gens
        <4>3. Atomic!Extends(r, Atomic!Nothing) /\ r # Atomic!Nothing
          BY <4>1, <4>2 DEF Atomic!Extends, Atomic!Nothing
        <4>. QED  BY <1>2, <4>1, <4>3, Nothing DEF ReceiptCommitted, PointerCrossed, Markdown
      <3>. QED  BY <3>1, <3>2
    <2>2. r \in Atomic!Revisions
      BY <1>0, RevisionType
    <2>3. ~Proposed /\ Proposed' /\ Status = "none" /\ Status' = "tentative"
      BY <1>0, <1>2, <2>1 DEF Proposed, Settled, Status
    <2>4. Proposal' = r
      <3>1. RevisionOf(intent)' = r
        BY <1>2 DEF RevisionOf, DocsOf
      <3>. QED  BY <2>3, <3>1, ProposalIs
    <2>5. RevisionOf(receipt)' = RevisionOf(receipt)
      BY <1>0 DEF RevisionOf, DocsOf
    <2> HIDE DEF r
    <2>6. Atomic!Propose
      BY <2>1, <2>2, <2>3, <2>4, <2>5 DEF Atomic!Propose, Proposal, Status
    <2>. QED  BY <2>6 DEF AtomicStep, Atomic!Next
  <1>. QED  BY <1>1, <1>2 DEF CreateIntent

\* The pointer of a new generation decides it.
LEMMA PointerDecides ==
    ASSUME Inv, CommitPointer \/ CommitPointerTorn
    PROVE  AtomicStep
  <1>0. /\ pc = "pointer" /\ ~Settled /\ UNCHANGED <<receipt, intent>> /\ pointer' = intent.gen
        /\ intent.stage = "verified"
    BY DEF Inv, Control, Journal, Writing, CommitPointer, CommitPointerTorn
  <1>1. /\ RevisionOf(intent)' = RevisionOf(intent) /\ RevisionOf(receipt)' = RevisionOf(receipt)
        /\ (ReceiptCommitted(intent)' <=> ReceiptCommitted(intent)) /\ ~Settled'
    BY <1>0 DEF RevisionOf, DocsOf, ReceiptCommitted, Revision, Markdown, Settled
  <1>2. ~PointerCrossed(intent) /\ ~ReceiptCommitted(intent)
    <2>1. CASE MarkdownFormat
      BY <1>0, <2>1 DEF Inv, MarkdownInv, Forward
    <2>2. CASE ~MarkdownFormat
      BY <1>0, <2>2, MachineIntent DEF Inv, PointerCrossed, ReceiptCommitted
    <2>. QED  BY <2>1, <2>2
  <1>3. /\ Proposed /\ Proposed' /\ Proposal' = Proposal /\ Status = "tentative"
        /\ Status' \in {"tentative", "decided"}
    BY <1>0, <1>1, <1>2, ProposalIs DEF Proposed, Status
  <1>4. CASE Status' = "tentative"
    BY <1>1, <1>3, <1>4 DEF AtomicStep
  <1>5. CASE Status' = "decided"
    <2>1. Atomic!Decide
      BY <1>1, <1>3, <1>5 DEF Atomic!Decide, Proposal, Status
    <2>. QED  BY <2>1 DEF AtomicStep, Atomic!Next
  <1>. QED  BY <1>3, <1>4, <1>5

\* The receipt accepts it.
LEMMA ReceiptAccepts ==
    ASSUME Inv, CommitReceipt
    PROVE  AtomicStep
  <1>0. /\ pc = "receipt" /\ ~Settled /\ Markdown(intent) /\ UNCHANGED <<intent, pointer>>
        /\ receipt' = Revision(intent)
    BY DEF Inv, Control, Journal, Accepting, CommitReceipt
  <1>1. CASE ReceiptCommitted(intent)
    <2>1. UNCHANGED receipt
      BY <1>0, <1>1 DEF ReceiptCommitted
    <2>. QED  BY <1>0, <2>1, AtomicStutters DEF SameIntent, Settled
  <1>2. CASE ~ReceiptCommitted(intent)
    <2>1. Proposed /\ ~Proposed' /\ Status \in {"tentative", "decided"}
      BY <1>0, <1>2 DEF Proposed, ReceiptCommitted, Revision, Markdown, Status
    <2>2. RevisionOf(receipt)' = Proposal
      <3>1. RevisionOf(receipt)' = RevisionOf(Revision(intent))
        BY <1>0 DEF RevisionOf, DocsOf
      <3>. QED  BY <2>1, <3>1, RevisionFacts, ProposalIs
    <2>3. Proposal' = Atomic!Nothing /\ Status' = "none"
      BY <2>1, ProposalIs
    <2>4. Atomic!Accept
      BY <2>1, <2>2, <2>3 DEF Atomic!Accept, Proposal, Status
    <2>. QED  BY <2>4 DEF AtomicStep, Atomic!Next
  <1>. QED  BY <1>1, <1>2

\* The end of the intent changes nothing once the receipt is written; before
\* that it gives the proposal up, which nothing had decided.
LEMMA EndAbandons ==
    ASSUME Inv, Settle \/ RolledBack
    PROVE  AtomicStep
  <1>0. /\ Stored /\ ~Settled /\ UNCHANGED <<receipt, pointer>>
    BY TypeParts DEF Inv, Control, Journal, Accepting, Back, Settle, RolledBack
  <1>1. SameIntent /\ Settled'
    BY <1>0, EndSame DEF Settle, RolledBack
  <1>2. ~Proposed' /\ RevisionOf(receipt)' = RevisionOf(receipt)
    BY <1>0, <1>1 DEF Proposed, RevisionOf, DocsOf
  <1>3. CASE ReceiptCommitted(intent)
    <2>1. ~Proposed
      BY <1>3 DEF Proposed
    <2>. QED  BY <1>2, <2>1, ProposalIs DEF AtomicStep
  <1>4. CASE ~ReceiptCommitted(intent)
    <2>1. ~PointerCrossed(intent)
      <3>1. CASE MarkdownFormat
        BY <1>4, <3>1 DEF Inv, MarkdownInv, Forward, Backward, Back, Settle, RolledBack
      <3>2. CASE ~MarkdownFormat
        BY <1>0, <3>2, MachineIntent DEF Inv, PointerCrossed
      <3>. QED  BY <3>1, <3>2
    <2>2. Proposed /\ Status = "tentative"
      BY <1>0, <1>4, <2>1 DEF Proposed, Status
    <2>3. Atomic!Abandon
      BY <1>2, <2>2, ProposalIs DEF Atomic!Abandon, Proposal, Status
    <2>. QED  BY <2>3 DEF AtomicStep, Atomic!Next
  <1>. QED  BY <1>3, <1>4

LEMMA NextAtomic == Inv /\ [Next]_vars => [Atomic!Next]_Atomic!vars
  <1> SUFFICES ASSUME Inv, [Next]_vars PROVE AtomicStep
    BY DEF AtomicStep, Atomic!vars, Proposal, Status
  <1>1. CASE CreateIntent \/ CommitPointer \/ CommitPointerTorn \/ CommitReceipt \/ Settle \/ RolledBack
    BY <1>1, CreateProposes, PointerDecides, ReceiptAccepts, EndAbandons
  <1>2. CASE \/ Recover \/ VerifyAccepted \/ OperationFails \/ Crash \/ CommitBase \/ UndoBase
             \/ Build \/ WriteFile \/ RestoreFile \/ Prepare \/ UNCHANGED vars
             \/ \E k \in format : Begin(k)
             \/ \E d \in Dests : CheckFile(d) \/ UndoFile(d)
             \/ \E e \in Edits, d \in Editable : Save(e, d)
    <2>1. UNCHANGED <<receipt, pointer, intent>>
      BY <1>2, Zenon DEF Recover, VerifyAccepted, OperationFails, Crash, CommitBase, UndoBase,
         Build, WriteFile, RestoreFile, Prepare, vars, Begin, CheckFile, UndoFile, Save, disk
    <2>. QED  BY <2>1, AtomicStutters DEF SameIntent, Settled
  <1>3. CASE ProjectWritten \/ VaultSynced \/ Verify \/ BaseCommitted \/ RollbackRequired
    <2>1. pc \notin {"build", "create"} /\ Journaling
      BY <1>3 DEF Journaling, ProjectWritten, VaultSynced, Verify, BaseCommitted, RollbackRequired
    <2>2. ~Settled /\ SameIntent
      BY <2>1, JournalingKeeps DEF Inv
    <2>3. UNCHANGED <<receipt, pointer>> /\ ~Settled'
      <3>1. Stored
        BY TypeParts DEF Inv, Control
      <3>2. ASSUME NEW s \in Stages \ {"committed"}, Advance(s)
            PROVE  UNCHANGED <<receipt, pointer>> /\ ~Settled'
        BY <3>1, <3>2, AdvanceSame DEF Advance, Settled
      <3>3. \/ \E s \in Stages \ {"committed"} : Advance(s)
            \/ UNCHANGED disk
        BY <1>3 DEF ProjectWritten, VaultSynced, Verify, BaseCommitted, RollbackRequired, Stages
      <3>. QED  BY <2>2, <3>2, <3>3 DEF disk, Settled
    <2>. QED  BY <2>2, <2>3, AtomicStutters
  <1>. QED  BY <1>1, <1>2, <1>3 DEF Next, Proceed

\* Every step of the publisher, of people and of crashes maps to one step of the
\* abstract publication or to none.
THEOREM PublishesAtomically == Spec => Atomicity
  <1>1. Init => Atomic!Init
    <2> SUFFICES ASSUME Init PROVE Atomic!Init
      OBVIOUS
    <2>1. ~Proposed
      BY DEF Init, Proposed, Settled, NoIntent
    <2>2. RevisionOf(receipt) = Atomic!Nothing
      BY Nothing DEF Init
    <2>. QED  BY <2>1, <2>2, Nothing DEF Atomic!Init
  <1>. QED  BY <1>1, AlwaysInv, NextAtomic, PTL DEF Spec, Atomicity, Atomic!Spec

=============================================================================
