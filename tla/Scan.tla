-------------------------------- MODULE Scan --------------------------------
(***************************************************************************)
(* Scans and the source catalog (src/internal/scan/service.go,             *)
(* src/internal/sourcecatalog/catalog.go).  A scan of a project reads the  *)
(* session logs, writes what it found about each into the catalog that all *)
(* projects share, and advances the project's prepared generation.  The    *)
(* catalog is one file per session; a batch of records is announced by a   *)
(* journal that any later user replays.  catalog.lock covers each call on  *)
(* the catalog, not the scan: scans of different projects interleave.      *)
(*                                                                         *)
(* A digest is the value it stands for.  The prepared pointer is a         *)
(* register here (see MemoryStore), and one scan runs per project          *)
(* (acquireScanLock).                                                      *)
(***************************************************************************)
EXTENDS Naturals, Sequences, FiniteSets

CONSTANTS Projects, Sessions,
          Texts,       \* what a line of a log may say
          Start,       \* Start[s]: the log of session s before the first scan
          Nobody,      \* no project holds the lock
          Nothing,     \* no session
          MaxLines,    \* bound: the length of a log
          MaxChanges,  \* bound: changes of the logs
          MaxStops     \* bound: crashes and failed steps

ASSUME ScanAssumption ==
    /\ Nobody \notin Projects /\ Nothing \notin Sessions
    /\ Texts # {} /\ MaxLines \in Nat \ {0}
    /\ MaxChanges \in Nat /\ MaxStops \in Nat
    /\ Start \in [Sessions -> Seq([project : Projects, text : Texts])]
    /\ \A s \in Sessions : Len(Start[s]) \in 1 .. MaxLines

Line == [project : Projects, text : Texts]
Content == UNION {[1 .. n -> Line] : n \in 1 .. MaxLines}
Record == [content : Content, available : BOOLEAN, projects : SUBSET Projects]
NoRecord == [content |-> <<>>, available |-> FALSE, projects |-> {}]
Records == Record \cup {NoRecord}
Revision == [session : Sessions, at : 1 .. MaxLines, line : Line]

VARIABLES
    log, present,  \* the session logs, and which of them can be found
    record,        \* record[s]: the catalog's file about session s
    staging,       \* .batch-mutation-v1.staging: "none", "torn" or "full"
    journal,       \* batch-mutation-v1.json exists
    batch,         \* the entries of the staging or journal file
    temp,          \* the session whose record has a temporary file
    lock,          \* the holder of catalog.lock
    todo,          \* records the holder has yet to write
    prepared,      \* prepared[p]: the SessionViews of the prepared generation
    stored,        \* stored[p]: the observation chunks in p's store
    pc,            \* pc[p]: the next step of p's scan
    work,          \* work[p]: what p's scan holds in memory
    changes, stops

files == <<record, staging, journal, batch, temp>>
logs == <<log, present, changes>>
outcome == <<prepared, stored>>
vars == <<logs, files, lock, todo, outcome, pc, work, stops>>

NoWork == [base |-> <<>>, frozen |-> <<>>, mutation |-> <<>>, plan |-> <<>>]

Init ==
    /\ log = Start
    /\ present = [s \in Sessions |-> TRUE]
    /\ record = [s \in Sessions |-> NoRecord]
    /\ staging = "none" /\ journal = FALSE /\ batch = <<>> /\ temp = Nothing
    /\ lock = Nobody /\ todo = {}
    /\ prepared = [p \in Projects |-> <<>>]
    /\ stored = [p \in Projects |-> {}]
    /\ pc = [p \in Projects |-> "idle"]
    /\ work = [p \in Projects |-> NoWork]
    /\ changes = 0 /\ stops = 0

-----------------------------------------------------------------------------
(* The agents that write the logs, and whoever moves them away and back.   *)

Disturb == /\ changes < MaxChanges
           /\ changes' = changes + 1
           /\ UNCHANGED <<files, lock, todo, outcome, pc, work, stops>>

Extend(s) == /\ present[s]
             /\ \E n \in 1 .. MaxLines - Len(log[s]) : \E more \in [1 .. n -> Line] :
                   log' = [log EXCEPT ![s] = @ \o more]
             /\ UNCHANGED present
             /\ Disturb

Truncate(s) == /\ present[s]
               /\ \E n \in 1 .. Len(log[s]) - 1 :
                     log' = [log EXCEPT ![s] = SubSeq(@, 1, n)]
               /\ UNCHANGED present
               /\ Disturb

Move(s) == /\ present' = [present EXCEPT ![s] = ~ @]
           /\ UNCHANGED log
           /\ Disturb

-----------------------------------------------------------------------------
(* The catalog under its lock.                                             *)

Prefix(c, d) == Len(c) <= Len(d) /\ SubSeq(d, 1, Len(c)) = c

\* How a log read again relates to what the catalog has of it.
Relation(old, content) ==
    CASE old = NoRecord -> "initial"
      [] old.content = content -> "unchanged"
      [] Len(old.content) < Len(content) /\ Prefix(old.content, content) -> "append"
      [] OTHER -> "replacement"

\* Mutant: the record forgets the projects of earlier scans.
Merged_Alone(old, m) == m.desired

\* The record a mutation leaves; a project once associated stays.
Merged(old, m) == [m.desired EXCEPT !.projects = @ \cup old.projects]

\* Mutant: a replacement must be shorter than what it replaces.
Accepts_Shorter(old, m) ==
    \/ old = Merged(old, m)
    \/ m.relation = "initial" /\ old = NoRecord
    \/ /\ old = m.expected /\ old # NoRecord
       /\ CASE m.relation = "unchanged" -> m.desired.content = old.content
            [] m.relation = "append" -> Len(old.content) < Len(m.desired.content)
            [] m.relation = "replacement" -> Len(m.desired.content) < Len(old.content)
            [] OTHER -> FALSE

\* A replacement may not advance the boundary, other relations but the first
\* want the record the scan started from.
Accepts(old, m) ==
    \/ old = Merged(old, m)
    \/ m.relation = "initial" /\ old = NoRecord
    \/ /\ old = m.expected /\ old # NoRecord
       /\ CASE m.relation = "unchanged" -> m.desired.content = old.content
            [] m.relation = "append" -> Len(old.content) < Len(m.desired.content)
            [] m.relation = "replacement" -> Len(m.desired.content) <= Len(old.content)
            [] OTHER -> FALSE

Accepted(mutation) == \A s \in DOMAIN mutation : Accepts(record[s], mutation[s])

Results(mutation) == [s \in DOMAIN mutation |-> Merged(record[s], mutation[s])]

\* planBatch leaves out what the catalog holds already.
Entries(mutation) ==
    [s \in {s \in DOMAIN mutation : record[s] # Merged(record[s], mutation[s])}
       |-> [old |-> record[s], new |-> Merged(record[s], mutation[s])]]

\* No temporary file and no journal: the call on the catalog may begin.
Clean == staging = "none" /\ ~ journal /\ temp = Nothing

\* A temporary file of a record, or half a staging file, is taken for a
\* journal that cannot be read.  Only its writer removes it.
Blocked == lock = Nobody /\ (temp # Nothing \/ staging = "torn")

UsesCatalog(p) == pc[p] \in {"idle", "collect", "plan", "apply", "commit"}

\* The call of p runs, alone and on a reconciled catalog.
Locked(p) == lock \in {Nobody, p} /\ Clean

Done(p) == pc' = [pc EXCEPT ![p] = "idle"] /\ work' = [work EXCEPT ![p] = NoWork]

GoTo(p, step) == pc' = [pc EXCEPT ![p] = step]

\* Mutant: the next holder drops the journal instead of replaying it.
TakeLock_Drops(p) == /\ UsesCatalog(p) /\ lock = Nobody
                     /\ ~ Clean /\ ~ Blocked
                     /\ lock' = p
                     /\ todo' = {}
                     /\ UNCHANGED <<logs, files, outcome, pc, work, stops>>

\* Whoever takes the lock first finishes the batch it finds.
TakeLock(p) == /\ UsesCatalog(p) /\ lock = Nobody
               /\ ~ Clean /\ ~ Blocked
               /\ lock' = p
               /\ todo' = DOMAIN batch
               /\ UNCHANGED <<logs, files, outcome, pc, work, stops>>

\* The link is what makes a batch irrevocable.
LinkStaging(p) == /\ lock = p /\ staging = "full" /\ ~ journal
                  /\ journal' = TRUE
                  /\ UNCHANGED <<logs, record, staging, batch, temp, lock, todo,
                                 outcome, pc, work, stops>>

UnlinkStaging(p) == /\ lock = p /\ staging = "full" /\ journal
                    /\ staging' = "none"
                    /\ UNCHANGED <<logs, record, journal, batch, temp, lock, todo,
                                   outcome, pc, work, stops>>

WriteTemp(p, s) == /\ lock = p /\ journal /\ staging = "none"
                   /\ temp = Nothing /\ s \in todo
                   /\ temp' = s
                   /\ UNCHANGED <<logs, record, staging, journal, batch, lock, todo,
                                  outcome, pc, work, stops>>

RenameTemp(p) == /\ lock = p /\ temp # Nothing
                 /\ record' = [record EXCEPT ![temp] = batch[temp].new]
                 /\ todo' = todo \ {temp}
                 /\ temp' = Nothing
                 /\ UNCHANGED <<logs, staging, journal, batch, lock, outcome, pc,
                                work, stops>>

\* The plan is empty when the batch turned out different from it.
RemoveJournal(p) ==
    /\ lock = p /\ journal /\ staging = "none" /\ temp = Nothing /\ todo = {}
    /\ journal' = FALSE /\ batch' = <<>>
    /\ IF pc[p] # "batch" THEN UNCHANGED <<lock, pc, work>>
       ELSE /\ lock' = Nobody
            /\ IF work[p].plan = <<>> THEN Done(p)
               ELSE GoTo(p, "persist") /\ UNCHANGED work
    /\ UNCHANGED <<logs, record, staging, temp, todo, outcome, stops>>

\* One call under the lock: catalog files stay as they are.
Call(p) == /\ Locked(p)
           /\ lock' = Nobody
           /\ UNCHANGED <<logs, files, todo, stops>>

\* A call that returns an error ends the scan.
Refused(p) == Call(p) /\ Done(p) /\ UNCHANGED outcome

MeetsTemp(p) == /\ UsesCatalog(p) /\ Blocked
                /\ Done(p)
                /\ UNCHANGED <<logs, files, lock, todo, outcome, stops>>

-----------------------------------------------------------------------------
(* The scan.                                                               *)

Mentioned(content) == {content[i].project : i \in DOMAIN content}

Observed(p, s, content) ==
    {[session |-> s, at |-> i, line |-> content[i]] :
        i \in {i \in DOMAIN content : content[i].project = p}}

\* Logs that can be found, each with the catalog's record of it.
Discover(p) ==
    /\ pc[p] = "idle"
    /\ Call(p)
    /\ work' = [work EXCEPT ![p] = [NoWork EXCEPT !.base =
                   [s \in {s \in Sessions : present[s]} |-> record[s]]]]
    /\ GoTo(p, "freeze")
    /\ UNCHANGED outcome

\* A log that has gone meanwhile is an issue like one that was never found.
Freeze(p) ==
    /\ pc[p] = "freeze"
    /\ work' = [work EXCEPT ![p].frozen =
                   [s \in {s \in DOMAIN work[p].base : present[s]} |-> log[s]]]
    /\ GoTo(p, "collect")
    /\ UNCHANGED <<logs, files, lock, todo, outcome, stops>>

\* Decoding reads the frozen bytes again.
Readable(p) == \A s \in DOMAIN work[p].frozen :
                  present[s] /\ Prefix(work[p].frozen[s], log[s])

Decoded(p) == {s \in DOMAIN work[p].frozen : p \in Mentioned(work[p].frozen[s])}

Missing(p) == {s \in Sessions \ DOMAIN work[p].frozen : p \in record[s].projects}

MutationOf(p, s) ==
    IF s \in Missing(p)
    THEN [relation |-> "unchanged", expected |-> record[s],
          desired |-> [record[s] EXCEPT !.available = FALSE]]
    ELSE LET old == work[p].base[s]  content == work[p].frozen[s]
         IN  [relation |-> Relation(old, content), expected |-> old,
              desired |-> [content |-> content, available |-> TRUE, projects |-> {p}]]

CollectTerminals(p) ==
    /\ pc[p] = "collect"
    /\ LET terminals == Decoded(p) \cup Missing(p)
       IN  IF Readable(p) /\ terminals # {}
           THEN /\ Call(p)
                /\ work' = [work EXCEPT ![p] = [NoWork EXCEPT !.mutation =
                               [s \in terminals |-> MutationOf(p, s)]]]
                /\ GoTo(p, "plan")
                /\ UNCHANGED outcome
           ELSE Refused(p)

\* A source that cannot be read keeps what the last generation knew of it.
Buildable(p, results) == \A s \in DOMAIN results :
                            results[s].available \/ s \in DOMAIN prepared[p]

Plan(p) ==
    /\ pc[p] = "plan"
    /\ LET m == work[p].mutation
       IN  IF Accepted(m) /\ Buildable(p, Results(m))
           THEN /\ Call(p)
                /\ work' = [work EXCEPT ![p].plan = Results(m)]
                /\ GoTo(p, "apply")
                /\ UNCHANGED outcome
           ELSE Refused(p)

\* ApplyBatch: nothing to write, or the staging file is begun.
Apply(p) ==
    /\ pc[p] = "apply" /\ Locked(p)
    /\ LET m == work[p].mutation
           agreed == Results(m) = work[p].plan
       IN  \/ ~ Accepted(m) /\ Refused(p)
           \/ /\ Accepted(m) /\ Entries(m) = <<>> /\ Call(p)
              /\ IF agreed THEN GoTo(p, "persist") /\ UNCHANGED work ELSE Done(p)
              /\ UNCHANGED outcome
           \/ /\ Accepted(m) /\ Entries(m) # <<>>
              /\ lock' = p
              /\ staging' = "torn" /\ batch' = Entries(m)
              /\ todo' = DOMAIN batch'
              /\ work' = [work EXCEPT ![p].plan = IF agreed THEN @ ELSE <<>>]
              /\ GoTo(p, "batch")
              /\ UNCHANGED <<logs, record, journal, temp, outcome, stops>>

CompleteStaging(p) == /\ lock = p /\ staging = "torn"
                      /\ staging' = "full"
                      /\ UNCHANGED <<logs, record, journal, batch, temp, lock, todo,
                                     outcome, pc, work, stops>>

\* Mutant: only what the last view calls active counts as stored.
Known_Active(p, s) == IF s \in DOMAIN prepared[p] THEN prepared[p][s].active ELSE {}

Known(p, s) == IF s \in DOMAIN prepared[p] THEN UNION prepared[p][s].chunks ELSE {}

OldChunks(p, s) == IF s \in DOMAIN prepared[p] THEN prepared[p][s].chunks ELSE {}

NewObservations(p, s) == Observed(p, s, work[p].plan[s].content) \ Known(p, s)

NewChunks(p, s) ==
    IF work[p].plan[s].available THEN {NewObservations(p, s)} \ {{}} ELSE {}

SessionView(p, s) ==
    LET r == work[p].plan[s]
    IN  IF r.available
        THEN [record |-> r, active |-> Observed(p, s, r.content),
              chunks |-> OldChunks(p, s) \cup NewChunks(p, s)]
        ELSE [prepared[p][s] EXCEPT !.record = r]

\* Chunks and views are named by their digests: written twice is once.
Persist(p) ==
    /\ pc[p] = "persist"
    /\ stored' = [stored EXCEPT ![p] = @ \cup
                     UNION {NewChunks(p, s) : s \in DOMAIN work[p].plan}]
    /\ GoTo(p, "commit")
    /\ UNCHANGED <<logs, files, lock, todo, prepared, work, stops>>

\* WithBatchSnapshot: every record is still the one the views were built on.
Commit(p) ==
    /\ pc[p] = "commit"
    /\ LET plan == work[p].plan
       IN  IF \A s \in DOMAIN plan : record[s] = plan[s]
           THEN /\ Call(p) /\ Done(p)
                /\ prepared' = [prepared EXCEPT ![p] =
                                   [s \in DOMAIN plan |-> SessionView(p, s)]]
                /\ UNCHANGED stored
           ELSE Refused(p)

\* An error removes the temporary file, and the staging file before its link.
Stops(p, crash) ==
    /\ stops < MaxStops
    /\ lock = p \/ pc[p] # "idle"
    /\ stops' = stops + 1
    /\ Done(p)
    /\ IF lock = p THEN lock' = Nobody /\ todo' = {} ELSE UNCHANGED <<lock, todo>>
    /\ IF ~ crash /\ lock = p
       THEN /\ temp' = Nothing
            /\ IF pc[p] = "batch" /\ ~ journal
               THEN staging' = "none" /\ batch' = <<>>
               ELSE UNCHANGED <<staging, batch>>
       ELSE UNCHANGED <<temp, staging, batch>>
    /\ UNCHANGED <<logs, record, journal, outcome>>

-----------------------------------------------------------------------------

Step(p) ==
    \/ TakeLock(p) \/ LinkStaging(p) \/ UnlinkStaging(p) \/ RenameTemp(p)
    \/ \E s \in Sessions : WriteTemp(p, s)
    \/ RemoveJournal(p) \/ MeetsTemp(p)
    \/ Discover(p) \/ Freeze(p) \/ CollectTerminals(p) \/ Plan(p)
    \/ Apply(p) \/ CompleteStaging(p) \/ Persist(p) \/ Commit(p)

Next ==
    \/ \E s \in Sessions : Extend(s) \/ Truncate(s) \/ Move(s)
    \/ \E p \in Projects : Step(p) \/ \E crash \in BOOLEAN : Stops(p, crash)

Spec == Init /\ [][Next]_vars

\* A scan that runs proceeds, and scans keep being started.
FairSpec == Spec /\ \A p \in Projects : WF_vars(Step(p))

-----------------------------------------------------------------------------
(* What must hold.                                                         *)

Within(f, S, T) == DOMAIN f \subseteq S /\ \A x \in DOMAIN f : f[x] \in T

Change == [old : Records, new : Record]
Relations == {"initial", "unchanged", "append", "replacement"}
Mutation == [relation : Relations, expected : Records, desired : Record]
View == [record : Record, active : SUBSET Revision, chunks : SUBSET SUBSET Revision]

FileTypes ==
    /\ log \in [Sessions -> Content] /\ present \in [Sessions -> BOOLEAN]
    /\ record \in [Sessions -> Records]
    /\ staging \in {"none", "torn", "full"} /\ journal \in BOOLEAN
    /\ Within(batch, Sessions, Change)
    /\ temp \in Sessions \cup {Nothing}
    /\ lock \in Projects \cup {Nobody}
    /\ todo \subseteq DOMAIN batch
    /\ changes \in 0 .. MaxChanges /\ stops \in 0 .. MaxStops

ScanTypes(p) ==
    /\ pc[p] \in {"idle", "freeze", "collect", "plan", "apply", "batch", "persist",
                  "commit"}
    /\ DOMAIN work[p] = {"base", "frozen", "mutation", "plan"}
    /\ Within(work[p].base, Sessions, Records)
    /\ Within(work[p].frozen, DOMAIN work[p].base, Content)
    /\ Within(work[p].mutation, Sessions, Mutation)
    /\ Within(work[p].plan, DOMAIN work[p].mutation, Record)
    /\ Within(prepared[p], Sessions, View)
    /\ stored[p] \subseteq SUBSET Revision

Types ==
    /\ FileTypes
    /\ DOMAIN pc = Projects /\ DOMAIN work = Projects
    /\ DOMAIN prepared = Projects /\ DOMAIN stored = Projects
    /\ \A p \in Projects : ScanTypes(p)

\* A batch that is only staged has written nothing.  The replay of a journal
\* meets the old or the new record, never another (validateJournalUnlocked
\* would refuse that for ever), and is over only with all of them written.
Replayable ==
    /\ staging = "none" /\ ~ journal => batch = <<>>
    /\ \A s \in DOMAIN batch :
          /\ record[s] = batch[s].old \/ (journal /\ record[s] = batch[s].new)
          /\ lock # Nobody /\ s \notin todo => record[s] = batch[s].new
    /\ lock # Nobody /\ temp # Nothing =>
          temp \in todo /\ journal /\ staging = "none"

\* Types; every journal on disk can be replayed, and only the holder of the
\* lock is in the middle of a batch (catalog.go validateJournalUnlocked).
TypeOK == /\ Types /\ Replayable
          /\ \A p \in Projects : pc[p] = "batch" => lock = p

\* Every observation a prepared view calls active is in exactly one of the
\* chunks the view names, and all of these are in the store: whatever was
\* appended, rewritten, moved away or left behind by an interrupted scan
\* (selectNewObservations, Materialize).
ActiveAreStored ==
    \A p \in Projects : \A s \in DOMAIN prepared[p] :
        LET view == prepared[p][s]
        IN  /\ view.chunks \subseteq stored[p]
            /\ \A r \in view.active :
                  Cardinality({c \in view.chunks : r \in c}) = 1

\* The catalog as a user of it sees it: a linked journal counts as written.
Catalog == [s \in Sessions |-> IF journal /\ s \in DOMAIN batch
                               THEN batch[s].new ELSE record[s]]

Sources == [p \in Projects |-> [s \in DOMAIN prepared[p] |-> prepared[p][s].record]]

Abstract == INSTANCE AtomicCatalog WITH catalog <- Catalog, prepared <- Sources

\* Batches are atomic and take no project out of a record, and a project
\* prepares from one state of the catalog (ApplyBatch, WithBatchSnapshot).
CatalogIsAtomic == Abstract!Spec

CaughtUp(p) ==
    \A s \in Sessions :
        /\ present[s] /\ p \in Mentioned(log[s]) =>
              /\ s \in DOMAIN prepared[p]
              /\ prepared[p][s].record.content = log[s]
              /\ prepared[p][s].record.available
        /\ ~ present[s] /\ s \in DOMAIN prepared[p] =>
              ~ prepared[p][s].record.available

\* A log of the project that has gone while the last generation has no view of it.
Orphaned(p) == \E s \in Sessions :
                  ~ present[s] /\ p \in record[s].projects /\ s \notin DOMAIN prepared[p]

\* A log rewritten past its boundary waits for a confirmation.
Rewritten(s) == /\ record[s] # NoRecord
                /\ Len(log[s]) > Len(record[s].content)
                /\ ~ Prefix(record[s].content, log[s])

\* Once the logs rest, every project's prepared generation describes them,
\* whichever scans conflicted or were interrupted: except that a temporary
\* file left in the catalog, a log that has gone before a view of it was
\* prepared, or a log rewritten past its boundary stops the project's scans.
ScansCatchUp ==
    \A p \in Projects :
        <>[](CaughtUp(p) \/ Blocked \/ Orphaned(p) \/ \E s \in Sessions : Rewritten(s))

\* "A recovered journal always converges to the complete desired batch"
\* (catalog.go:169): a linked journal is replayed in the end.
JournalConverges == journal ~> ~ journal
=============================================================================
