------------------------------ MODULE ScanProofs ------------------------------
(* Proofs about Scan, for any projects, sessions, logs and bounds.  Three      *)
(* invariants on top of one another: the types with what a running scan        *)
(* proposes, what a batch may change, and how views name their chunks.         *)
EXTENDS Scan, SequenceTheorems, FiniteSetTheorems, TLAPS

\* A scan proposes what it read itself, or that a log of its project has gone.
Read(p, m) == m.desired.available /\ m.desired.projects = {p}

Gone(p, m) == /\ m.relation = "unchanged" /\ m.expected # NoRecord
              /\ p \in m.expected.projects
              /\ m.desired = [m.expected EXCEPT !.available = FALSE]

\* Every record a scan plans with is the project's, and can be viewed.
Planned(p) ==
    /\ \A s \in DOMAIN work[p].mutation :
          Read(p, work[p].mutation[s]) \/ Gone(p, work[p].mutation[s])
    /\ \A s \in DOMAIN work[p].plan :
          /\ p \in work[p].plan[s].projects
          /\ work[p].plan[s].available \/ s \in DOMAIN prepared[p]

Holder == \A p \in Projects : pc[p] = "batch" => lock = p

Typed == Types /\ Replayable /\ Holder /\ \A p \in Projects : Planned(p)

-------------------------------------------------------------------------------
(* Data.                                                                      *)

LEMMA ContentIsSeq == Content = {c \in Seq(Line) : Len(c) \in 1 .. MaxLines}
  <1>1. ASSUME NEW c \in Content PROVE c \in Seq(Line) /\ Len(c) \in 1 .. MaxLines
    <2>1. PICK n \in 1 .. MaxLines : c \in [1 .. n -> Line]
      BY <1>1 DEF Content
    <2>2. n \in Nat
      BY ScanAssumption
    <2>. QED  BY <2>1, <2>2
  <1>2. ASSUME NEW c \in Seq(Line), Len(c) \in 1 .. MaxLines PROVE c \in Content
    <2>1. c \in [1 .. Len(c) -> Line]
      BY LenProperties
    <2>. QED  BY <1>2, <2>1 DEF Content
  <1>. QED  BY <1>1, <1>2

LEMMA ContentLines ==
    ASSUME NEW c \in Content
    PROVE  /\ DOMAIN c \subseteq 1 .. MaxLines
           /\ \A i \in DOMAIN c : c[i] \in Line
  <1>1. PICK n \in 1 .. MaxLines : c \in [1 .. n -> Line]
    BY DEF Content
  <1>. QED  BY <1>1, ScanAssumption

LEMMA Extended ==
    ASSUME NEW c \in Content, NEW n \in 1 .. MaxLines - Len(c),
           NEW more \in [1 .. n -> Line]
    PROVE  c \o more \in Content
  <1>1. c \in Seq(Line) /\ Len(c) \in 1 .. MaxLines /\ MaxLines \in Nat
    BY ContentIsSeq, ScanAssumption
  <1>2. n \in Nat /\ more \in Seq(Line) /\ Len(more) = n
    BY <1>1
  <1>3. c \o more \in Seq(Line) /\ Len(c \o more) = Len(c) + n
    BY <1>1, <1>2, ConcatProperties
  <1>4. Len(c) + n \in 1 .. MaxLines
    BY <1>1, <1>2
  <1>. QED  BY <1>3, <1>4, ContentIsSeq

LEMMA Cut ==
    ASSUME NEW c \in Content, NEW n \in 1 .. Len(c) - 1
    PROVE  SubSeq(c, 1, n) \in Content
  <1>1. c \in Seq(Line) /\ Len(c) \in 1 .. MaxLines /\ MaxLines \in Nat
    BY ContentIsSeq, ScanAssumption
  <1>2. \A i \in 1 .. n : c[i] \in Line
    BY <1>1, ElementOfSeq
  <1>3. SubSeq(c, 1, n) \in Seq(Line) /\ Len(SubSeq(c, 1, n)) = n
    BY <1>1, <1>2, SubSeqProperties
  <1>. QED  BY <1>1, <1>3, ContentIsSeq

\* What is observed of a log.
LEMMA ObservedType ==
    ASSUME NEW p, NEW s \in Sessions, NEW c \in Content
    PROVE  Observed(p, s, c) \subseteq Revision
  BY ContentLines DEF Observed, Revision

LEMMA EmptyFunction == DOMAIN <<>> = {}
  OBVIOUS

LEMMA NoWorkFields ==
    /\ DOMAIN NoWork = {"base", "frozen", "mutation", "plan"}
    /\ NoWork.base = <<>> /\ NoWork.frozen = <<>>
    /\ NoWork.mutation = <<>> /\ NoWork.plan = <<>>
  BY DEF NoWork

\* The record a mutation leaves is a record.
LEMMA MergedType ==
    ASSUME NEW old \in Records, NEW m \in Mutation
    PROVE  Merged(old, m) \in Record
  BY DEF Merged, Mutation, Record, Records, NoRecord

-------------------------------------------------------------------------------
(* One project's scan moves.                                                  *)

\* What a step of p leaves alone.
Apart(p) ==
    /\ DOMAIN pc' = Projects /\ DOMAIN work' = Projects
    /\ DOMAIN prepared' = Projects /\ DOMAIN stored' = Projects
    /\ \A q \in Projects \ {p} : /\ pc'[q] = pc[q] /\ work'[q] = work[q]
                                 /\ prepared'[q] = prepared[q]
                                 /\ stored'[q] = stored[q]

LEMMA ScanMoves ==
    ASSUME Typed, NEW p \in Projects, Apart(p), FileTypes', ScanTypes(p)', Planned(p)'
    PROVE  Types' /\ \A q \in Projects : Planned(q)'
  <1>1. ASSUME NEW q \in Projects PROVE ScanTypes(q)' /\ Planned(q)'
    <2>1. CASE q = p
      BY <2>1
    <2>2. CASE q # p
      BY <2>2 DEF Typed, Types, Apart, ScanTypes, Planned
    <2>. QED  BY <2>1, <2>2
  <1>. QED  BY <1>1 DEF Types, Apart

\* The files change, the scans do not.
LEMMA ScansRest ==
    ASSUME Typed, UNCHANGED <<pc, work, outcome>>, FileTypes'
    PROVE  Types' /\ \A q \in Projects : Planned(q)'
  BY DEF Typed, Types, outcome, ScanTypes, Planned

\* A call on the catalog changes no file and releases the lock.
LEMMA CallEnds ==
    ASSUME Typed, NEW p \in Projects, Call(p), Apart(p), pc'[p] # "batch"
    PROVE  FileTypes' /\ Replayable' /\ Holder'
  <1>1. FileTypes'
    BY DEF Call, Typed, Types, FileTypes, logs, files
  <1>2. Replayable'
    BY DEF Call, Typed, Replayable, files
  <1>3. ASSUME NEW q \in Projects, pc'[q] = "batch" PROVE FALSE
    <2>1. q # p /\ pc[q] = "batch"
      BY <1>3 DEF Apart
    <2>2. lock = q
      BY <2>1 DEF Typed, Holder
    <2>. QED  BY <2>1, <2>2, ScanAssumption DEF Call, Locked
  <1>. QED  BY <1>1, <1>2, <1>3 DEF Holder

\* The next step of p.
LEMMA Goes ==
    ASSUME Typed, NEW p \in Projects, NEW step,
           pc' = [pc EXCEPT ![p] = step]
    PROVE  DOMAIN pc' = Projects /\ pc'[p] = step /\ \A q \in Projects \ {p} : pc'[q] = pc[q]
  BY DEF Typed, Types

LEMMA Works ==
    ASSUME Typed, NEW p \in Projects, NEW w,
           work' = [work EXCEPT ![p] = w]
    PROVE  DOMAIN work' = Projects /\ work'[p] = w /\ \A q \in Projects \ {p} : work'[q] = work[q]
  BY DEF Typed, Types

\* A scan that ends forgets what it had read.
LEMMA Ends ==
    ASSUME Typed, NEW p \in Projects, Done(p), UNCHANGED outcome
    PROVE  Apart(p) /\ pc'[p] = "idle" /\ ScanTypes(p)' /\ Planned(p)'
  <1>1. /\ DOMAIN pc' = Projects /\ pc'[p] = "idle"
        /\ \A q \in Projects \ {p} : pc'[q] = pc[q]
    BY Goes DEF Done
  <1>2. /\ DOMAIN work' = Projects /\ work'[p] = NoWork
        /\ \A q \in Projects \ {p} : work'[q] = work[q]
    BY Works DEF Done
  <1>3. Apart(p)
    BY <1>1, <1>2 DEF Apart, outcome, Typed, Types
  <1>4. ScanTypes(p) /\ UNCHANGED <<prepared, stored>>
    BY DEF Typed, Types, outcome
  <1>5. ScanTypes(p)'
    BY <1>1, <1>2, <1>4, NoWorkFields, EmptyFunction DEF ScanTypes, Within
  <1>6. Planned(p)'
    BY <1>2, NoWorkFields, EmptyFunction DEF Planned
  <1>. QED  BY <1>1, <1>3, <1>5, <1>6

LEMMA RefusedKeeps ==
    ASSUME Typed, NEW p \in Projects, Refused(p)
    PROVE  Typed'
  <1>1. Call(p) /\ Done(p) /\ UNCHANGED outcome
    BY DEF Refused
  <1>2. Apart(p) /\ pc'[p] = "idle" /\ ScanTypes(p)' /\ Planned(p)'
    BY <1>1, Ends
  <1>3. FileTypes' /\ Replayable' /\ Holder'
    BY <1>1, <1>2, CallEnds
  <1>. QED  BY <1>2, <1>3, ScanMoves DEF Typed

-------------------------------------------------------------------------------
(* The steps under the lock.                                                  *)

LEMMA TakeLockKeeps ==
    ASSUME Typed, NEW p \in Projects, TakeLock(p)
    PROVE  Typed'
  <1>1. temp = Nothing
    BY DEF TakeLock, Blocked
  <1>2. FileTypes'
    BY DEF TakeLock, Typed, Types, FileTypes, logs, files
  <1>3. Replayable'
    BY <1>1 DEF TakeLock, Typed, Replayable, files
  <1>4. Holder'
    BY ScanAssumption DEF TakeLock, Typed, Holder
  <1>. QED  BY <1>2, <1>3, <1>4, ScansRest DEF TakeLock, Typed

LEMMA LinkStagingKeeps ==
    ASSUME Typed, NEW p \in Projects, LinkStaging(p)
    PROVE  Typed'
  <1>1. FileTypes'
    BY DEF LinkStaging, Typed, Types, FileTypes, logs
  <1>2. Replayable'
    BY ScanAssumption DEF LinkStaging, Typed, Replayable
  <1>3. Holder'
    BY DEF LinkStaging, Typed, Holder
  <1>. QED  BY <1>1, <1>2, <1>3, ScansRest DEF LinkStaging, Typed

LEMMA UnlinkStagingKeeps ==
    ASSUME Typed, NEW p \in Projects, UnlinkStaging(p)
    PROVE  Typed'
  <1>1. FileTypes'
    BY DEF UnlinkStaging, Typed, Types, FileTypes, logs
  <1>2. Replayable'
    BY ScanAssumption DEF UnlinkStaging, Typed, Replayable
  <1>3. Holder'
    BY DEF UnlinkStaging, Typed, Holder
  <1>. QED  BY <1>1, <1>2, <1>3, ScansRest DEF UnlinkStaging, Typed

LEMMA WriteTempKeeps ==
    ASSUME Typed, NEW p \in Projects, NEW s \in Sessions, WriteTemp(p, s)
    PROVE  Typed'
  <1>1. FileTypes'
    BY DEF WriteTemp, Typed, Types, FileTypes, logs
  <1>2. Replayable'
    BY ScanAssumption DEF WriteTemp, Typed, Replayable
  <1>3. Holder'
    BY DEF WriteTemp, Typed, Holder
  <1>. QED  BY <1>1, <1>2, <1>3, ScansRest DEF WriteTemp, Typed

LEMMA RenameTempKeeps ==
    ASSUME Typed, NEW p \in Projects, RenameTemp(p)
    PROVE  Typed'
  <1>1. /\ lock # Nobody /\ temp \in todo /\ todo \subseteq DOMAIN batch
        /\ journal /\ staging = "none" /\ temp \in Sessions
    BY ScanAssumption DEF RenameTemp, Typed, Types, FileTypes, Replayable
  <1>2. batch[temp].new \in Records
    BY <1>1 DEF Typed, Types, FileTypes, Within, Change, Records
  <1>3. record' \in [Sessions -> Records]
    BY <1>1, <1>2 DEF RenameTemp, Typed, Types, FileTypes
  <1>4. FileTypes'
    BY <1>3 DEF RenameTemp, Typed, Types, FileTypes, logs
  <1>5. \A s \in DOMAIN batch :
           record'[s] = IF s = temp THEN batch[s].new ELSE record[s]
    BY DEF RenameTemp, Typed, Types, FileTypes, Within
  <1>6. Replayable'
    BY <1>1, <1>5 DEF RenameTemp, Typed, Replayable
  <1>7. Holder'
    BY DEF RenameTemp, Typed, Holder
  <1>. QED  BY <1>4, <1>6, <1>7, ScansRest DEF RenameTemp, Typed

LEMMA RemoveJournalKeeps ==
    ASSUME Typed, NEW p \in Projects, RemoveJournal(p)
    PROVE  Typed'
  <1>1. FileTypes'
    BY EmptyFunction DEF RemoveJournal, Done, GoTo, Typed, Types, FileTypes, Within, logs
  <1>2. Replayable'
    BY EmptyFunction DEF RemoveJournal, Typed, Replayable
  <1>3. CASE pc[p] # "batch"
    <2>1. Holder'
      BY <1>3 DEF RemoveJournal, Typed, Holder
    <2>2. UNCHANGED <<pc, work, outcome>>
      BY <1>3 DEF RemoveJournal
    <2>. QED  BY <1>1, <1>2, <2>1, <2>2, ScansRest DEF Typed
  <1>4. CASE pc[p] = "batch" /\ work[p].plan = <<>>
    <2>1. Done(p) /\ UNCHANGED outcome
      BY <1>4 DEF RemoveJournal
    <2>2. Apart(p) /\ pc'[p] = "idle" /\ ScanTypes(p)' /\ Planned(p)'
      BY <2>1, Ends
    <2>3. Holder'
      BY <2>2 DEF RemoveJournal, Typed, Holder, Apart
    <2>. QED  BY <1>1, <1>2, <2>2, <2>3, ScanMoves DEF Typed
  <1>5. CASE pc[p] = "batch" /\ work[p].plan # <<>>
    <2>1. pc' = [pc EXCEPT ![p] = "persist"] /\ UNCHANGED <<work, outcome>>
      BY <1>5 DEF RemoveJournal, GoTo
    <2>2. pc'[p] = "persist" /\ Apart(p)
      BY <2>1, Goes DEF Apart, outcome, Typed, Types
    <2>3. ScanTypes(p)' /\ Planned(p)'
      BY <2>1, <2>2 DEF ScanTypes, Planned, Typed, Types, outcome
    <2>4. Holder'
      BY <2>2 DEF RemoveJournal, Typed, Holder, Apart
    <2>. QED  BY <1>1, <1>2, <2>2, <2>3, <2>4, ScanMoves DEF Typed
  <1>. QED  BY <1>3, <1>4, <1>5

LEMMA MeetsTempKeeps ==
    ASSUME Typed, NEW p \in Projects, MeetsTemp(p)
    PROVE  Typed'
  <1>1. Apart(p) /\ pc'[p] = "idle" /\ ScanTypes(p)' /\ Planned(p)'
    BY Ends DEF MeetsTemp
  <1>2. FileTypes' /\ Replayable'
    BY DEF MeetsTemp, Typed, Types, FileTypes, Replayable, logs, files
  <1>3. Holder'
    BY <1>1 DEF MeetsTemp, Typed, Holder, Apart
  <1>. QED  BY <1>1, <1>2, <1>3, ScanMoves DEF Typed

-------------------------------------------------------------------------------
(* The steps of the scan.                                                     *)

LEMMA DiscoverKeeps ==
    ASSUME Typed, NEW p \in Projects, Discover(p)
    PROVE  Typed'
  <1> DEFINE base == [s \in {s \in Sessions : present[s]} |-> record[s]]
             w == [NoWork EXCEPT !.base = base]
  <1>1. /\ DOMAIN pc' = Projects /\ pc'[p] = "freeze"
        /\ \A q \in Projects \ {p} : pc'[q] = pc[q]
    BY Goes DEF Discover, GoTo
  <1>2. /\ DOMAIN work' = Projects /\ work'[p] = w
        /\ \A q \in Projects \ {p} : work'[q] = work[q]
    BY Works DEF Discover
  <1>3. Apart(p) /\ UNCHANGED <<prepared, stored>>
    BY <1>1, <1>2 DEF Apart, outcome, Typed, Types, Discover
  <1>4. Within(base, Sessions, Records)
    BY DEF Within, Typed, Types, FileTypes
  <1>5. /\ DOMAIN w = {"base", "frozen", "mutation", "plan"} /\ w.base = base
        /\ w.frozen = <<>> /\ w.mutation = <<>> /\ w.plan = <<>>
    BY NoWorkFields
  <1> HIDE DEF w, base
  <1>6. ScanTypes(p)
    BY DEF Typed, Types
  <1>7. ScanTypes(p)'
    BY <1>1, <1>2, <1>3, <1>4, <1>5, <1>6, EmptyFunction DEF ScanTypes, Within
  <1>8. Planned(p)'
    BY <1>2, <1>5, EmptyFunction DEF Planned
  <1>9. FileTypes' /\ Replayable' /\ Holder'
    BY <1>1, <1>3, CallEnds DEF Discover
  <1>. QED  BY <1>3, <1>7, <1>8, <1>9, ScanMoves DEF Typed

LEMMA FreezeKeeps ==
    ASSUME Typed, NEW p \in Projects, Freeze(p)
    PROVE  Typed'
  <1> DEFINE frozen == [s \in {s \in DOMAIN work[p].base : present[s]} |-> log[s]]
             w == [work[p] EXCEPT !.frozen = frozen]
  <1>1. /\ DOMAIN pc' = Projects /\ pc'[p] = "collect"
        /\ \A q \in Projects \ {p} : pc'[q] = pc[q]
    BY Goes DEF Freeze, GoTo
  <1>2. work' = [work EXCEPT ![p] = w]
    BY DEF Freeze
  <1>3. /\ DOMAIN work' = Projects /\ work'[p] = w
        /\ \A q \in Projects \ {p} : work'[q] = work[q]
    BY <1>2, Works
  <1>4. Apart(p) /\ UNCHANGED <<prepared, stored>>
    BY <1>1, <1>3 DEF Apart, outcome, Typed, Types, Freeze
  <1>5. ScanTypes(p) /\ Planned(p)
    BY DEF Typed, Types
  <1>6. Within(frozen, DOMAIN work[p].base, Content)
    BY <1>5 DEF Within, Typed, Types, FileTypes, ScanTypes
  <1>7. /\ DOMAIN w = {"base", "frozen", "mutation", "plan"} /\ w.frozen = frozen
        /\ w.base = work[p].base /\ w.mutation = work[p].mutation /\ w.plan = work[p].plan
    BY <1>5 DEF ScanTypes
  <1> HIDE DEF w, frozen
  <1>8. ScanTypes(p)'
    BY <1>1, <1>3, <1>4, <1>5, <1>6, <1>7 DEF ScanTypes
  <1>9. Planned(p)'
    BY <1>3, <1>4, <1>5, <1>7 DEF Planned
  <1>10. FileTypes' /\ Replayable'
    BY DEF Freeze, Typed, Types, FileTypes, Replayable, logs, files
  <1>11. Holder'
    BY <1>1 DEF Freeze, Typed, Holder
  <1>. QED  BY <1>4, <1>8, <1>9, <1>10, <1>11, ScanMoves DEF Typed

\* What a scan proposes about a log.
LEMMA Proposals ==
    ASSUME Typed, NEW p \in Projects, NEW s \in Decoded(p) \cup Missing(p)
    PROVE  /\ MutationOf(p, s) \in Mutation
           /\ Read(p, MutationOf(p, s)) \/ Gone(p, MutationOf(p, s))
  <1>1. record[s] \in Records /\ s \in Sessions
    BY DEF Typed, Types, FileTypes, ScanTypes, Within, Decoded, Missing
  <1>2. CASE s \in Missing(p)
    <2>1. p \in record[s].projects
      BY <1>2 DEF Missing
    <2>2. record[s] # NoRecord /\ record[s] \in Record
      BY <1>1, <2>1 DEF Records, NoRecord
    <2>3. [record[s] EXCEPT !.available = FALSE] \in Record
      BY <2>2 DEF Record
    <2>4. MutationOf(p, s) = [relation |-> "unchanged", expected |-> record[s],
                              desired |-> [record[s] EXCEPT !.available = FALSE]]
      BY <1>2 DEF MutationOf
    <2>5. MutationOf(p, s) \in Mutation
      BY <1>1, <2>3, <2>4 DEF Mutation, Relations
    <2>. QED  BY <2>1, <2>2, <2>4, <2>5 DEF Gone
  <1>3. CASE s \notin Missing(p)
    <2> DEFINE old == work[p].base[s]
               content == work[p].frozen[s]
    <2>1. s \in DOMAIN work[p].frozen
      BY <1>3 DEF Decoded
    <2>2. old \in Records /\ content \in Content
      BY <2>1 DEF Typed, Types, ScanTypes, Within
    <2>3. MutationOf(p, s) =
            [relation |-> Relation(old, content), expected |-> old,
             desired |-> [content |-> content, available |-> TRUE, projects |-> {p}]]
      BY <1>3 DEF MutationOf
    <2>4. Relation(old, content) \in Relations
      BY DEF Relation, Relations
    <2>5. [content |-> content, available |-> TRUE, projects |-> {p}] \in Record
      BY <2>2 DEF Record
    <2> HIDE DEF old, content
    <2>6. MutationOf(p, s) \in Mutation
      BY <2>2, <2>3, <2>4, <2>5 DEF Mutation
    <2>. QED  BY <2>3, <2>6 DEF Read
  <1>. QED  BY <1>2, <1>3

LEMMA CollectTerminalsKeeps ==
    ASSUME Typed, NEW p \in Projects, CollectTerminals(p)
    PROVE  Typed'
  <1> DEFINE mutation == [s \in Decoded(p) \cup Missing(p) |-> MutationOf(p, s)]
             w == [NoWork EXCEPT !.mutation = mutation]
  <1>1. CASE Refused(p)
    BY <1>1, RefusedKeeps
  <1>2. CASE ~ Refused(p)
    <2>1. /\ Call(p) /\ work' = [work EXCEPT ![p] = w]
          /\ pc' = [pc EXCEPT ![p] = "plan"] /\ UNCHANGED outcome
      BY <1>2 DEF CollectTerminals, GoTo
    <2>2. /\ DOMAIN pc' = Projects /\ pc'[p] = "plan"
          /\ \A q \in Projects \ {p} : pc'[q] = pc[q]
      BY <2>1, Goes
    <2>3. /\ DOMAIN work' = Projects /\ work'[p] = w
          /\ \A q \in Projects \ {p} : work'[q] = work[q]
      BY <2>1, Works
    <2>4. Apart(p) /\ UNCHANGED <<prepared, stored>>
      BY <2>1, <2>2, <2>3 DEF Apart, outcome, Typed, Types
    <2>5. Decoded(p) \cup Missing(p) \subseteq Sessions
      BY DEF Typed, Types, ScanTypes, Within, Decoded, Missing
    <2>6. Within(mutation, Sessions, Mutation)
      BY <2>5, Proposals DEF Within
    <2>7. \A s \in DOMAIN mutation : Read(p, mutation[s]) \/ Gone(p, mutation[s])
      BY Proposals
    <2>8. /\ DOMAIN w = {"base", "frozen", "mutation", "plan"} /\ w.mutation = mutation
          /\ w.base = <<>> /\ w.frozen = <<>> /\ w.plan = <<>>
      BY NoWorkFields
    <2> HIDE DEF w, mutation
    <2>9. ScanTypes(p)
      BY DEF Typed, Types
    <2>10. ScanTypes(p)'
      BY <2>2, <2>3, <2>4, <2>6, <2>8, <2>9, EmptyFunction DEF ScanTypes, Within
    <2>11. Planned(p)'
      BY <2>3, <2>7, <2>8, EmptyFunction DEF Planned
    <2>12. FileTypes' /\ Replayable' /\ Holder'
      BY <2>1, <2>2, <2>4, CallEnds
    <2>. QED  BY <2>4, <2>10, <2>11, <2>12, ScanMoves DEF Typed
  <1>. QED  BY <1>1, <1>2

\* What a scan proposes belongs to its project.
LEMMA ProposedProject ==
    ASSUME NEW p, NEW m \in Mutation, Read(p, m) \/ Gone(p, m)
    PROVE  m.desired \in Record /\ p \in m.desired.projects
  <1>1. m.desired \in Record /\ m.expected \in Records
    BY DEF Mutation
  <1>2. CASE Read(p, m)
    BY <1>1, <1>2 DEF Read
  <1>3. CASE Gone(p, m)
    <2>1. m.expected \in Record
      BY <1>1, <1>3 DEF Gone, Records
    <2>2. m.desired.projects = m.expected.projects
      BY <1>3, <2>1 DEF Gone, Record
    <2>. QED  BY <1>1, <1>3, <2>2 DEF Gone
  <1>. QED  BY <1>2, <1>3

LEMMA PlanKeeps ==
    ASSUME Typed, NEW p \in Projects, Plan(p)
    PROVE  Typed'
  <1> DEFINE m == work[p].mutation
             plan == Results(m)
             w == [work[p] EXCEPT !.plan = plan]
  <1>1. CASE Refused(p)
    BY <1>1, RefusedKeeps
  <1>2. CASE ~ Refused(p)
    <2>1. /\ Call(p) /\ work' = [work EXCEPT ![p] = w] /\ Buildable(p, plan)
          /\ pc' = [pc EXCEPT ![p] = "apply"] /\ UNCHANGED outcome
      BY <1>2 DEF Plan, GoTo
    <2>2. /\ DOMAIN pc' = Projects /\ pc'[p] = "apply"
          /\ \A q \in Projects \ {p} : pc'[q] = pc[q]
      BY <2>1, Goes
    <2>3. /\ DOMAIN work' = Projects /\ work'[p] = w
          /\ \A q \in Projects \ {p} : work'[q] = work[q]
      BY <2>1, Works
    <2>4. Apart(p) /\ UNCHANGED <<prepared, stored>>
      BY <2>1, <2>2, <2>3 DEF Apart, outcome, Typed, Types
    <2>5. ScanTypes(p) /\ Planned(p)
      BY DEF Typed, Types
    <2>6. DOMAIN m \subseteq Sessions /\ \A s \in DOMAIN m : m[s] \in Mutation
      BY <2>5 DEF ScanTypes, Within
    <2>7. DOMAIN plan = DOMAIN m
      BY DEF Results
    <2>8. ASSUME NEW s \in DOMAIN plan
          PROVE  /\ plan[s] \in Record /\ p \in plan[s].projects
                 /\ plan[s].available \/ s \in DOMAIN prepared[p]
      <3>1. s \in DOMAIN m /\ record[s] \in Records /\ m[s] \in Mutation
        BY <2>6, <2>7 DEF Typed, Types, FileTypes
      <3>2. plan[s] = Merged(record[s], m[s])
        BY <3>1 DEF Results
      <3>3. plan[s] \in Record
        BY <3>1, <3>2, MergedType
      <3>4. m[s].desired \in Record /\ p \in m[s].desired.projects
        BY <2>5, <3>1, ProposedProject DEF Planned
      <3>5. p \in plan[s].projects
        BY <3>2, <3>4 DEF Merged, Record
      <3>. QED  BY <2>1, <3>3, <3>5 DEF Buildable
    <2>9. Within(plan, DOMAIN m, Record)
      BY <2>7, <2>8 DEF Within
    <2>10. /\ DOMAIN w = {"base", "frozen", "mutation", "plan"} /\ w.plan = plan
           /\ w.base = work[p].base /\ w.frozen = work[p].frozen /\ w.mutation = m
      BY <2>5 DEF ScanTypes
    <2> HIDE DEF w, plan
    <2>11. ScanTypes(p)'
      BY <2>2, <2>3, <2>4, <2>5, <2>9, <2>10 DEF ScanTypes
    <2>12. Planned(p)'
      BY <2>3, <2>4, <2>5, <2>8, <2>10 DEF Planned
    <2>13. FileTypes' /\ Replayable' /\ Holder'
      BY <2>1, <2>2, <2>4, CallEnds
    <2>. QED  BY <2>4, <2>11, <2>12, <2>13, ScanMoves DEF Typed
  <1>. QED  BY <1>1, <1>2

\* What a batch holds.
LEMMA EntriesType ==
    ASSUME Typed, NEW p \in Projects
    PROVE  LET entries == Entries(work[p].mutation)
           IN  /\ Within(entries, Sessions, Change)
               /\ \A s \in DOMAIN entries : entries[s].old = record[s]
  <1> DEFINE m == work[p].mutation
             entries == Entries(m)
  <1>1. DOMAIN m \subseteq Sessions /\ \A s \in DOMAIN m : m[s] \in Mutation
    BY DEF Typed, Types, ScanTypes, Within
  <1>2. ASSUME NEW s \in DOMAIN entries
        PROVE  s \in Sessions /\ entries[s] \in Change /\ entries[s].old = record[s]
    <2>1. s \in DOMAIN m /\ entries[s] = [old |-> record[s], new |-> Merged(record[s], m[s])]
      BY DEF Entries
    <2>2. s \in Sessions /\ record[s] \in Records /\ m[s] \in Mutation
      BY <1>1, <2>1 DEF Typed, Types, FileTypes
    <2>. QED  BY <2>1, <2>2, MergedType DEF Change
  <1>. QED  BY <1>2 DEF Within

LEMMA ApplyKeeps ==
    ASSUME Typed, NEW p \in Projects, Apply(p)
    PROVE  Typed'
  <1> DEFINE m == work[p].mutation
             plan == IF Results(m) = work[p].plan THEN work[p].plan ELSE <<>>
             w == [work[p] EXCEPT !.plan = plan]
  <1>0. ScanTypes(p) /\ Planned(p) /\ Locked(p)
    BY DEF Typed, Types, Apply
  <1>1. CASE Refused(p)
    BY <1>1, RefusedKeeps
  <1>2. CASE Call(p) /\ Done(p) /\ UNCHANGED outcome
    BY <1>2, RefusedKeeps DEF Refused
  <1>3. CASE Call(p) /\ GoTo(p, "persist") /\ UNCHANGED <<work, outcome>>
    <2>1. pc'[p] = "persist" /\ Apart(p) /\ UNCHANGED <<prepared, stored>>
      BY <1>3, Goes DEF GoTo, Apart, outcome, Typed, Types
    <2>2. ScanTypes(p)' /\ Planned(p)'
      BY <1>0, <1>3, <2>1 DEF ScanTypes, Planned
    <2>3. FileTypes' /\ Replayable' /\ Holder'
      BY <1>3, <2>1, CallEnds
    <2>. QED  BY <2>1, <2>2, <2>3, ScanMoves DEF Typed
  <1>4. CASE /\ lock' = p /\ staging' = "torn" /\ batch' = Entries(m) /\ todo' = DOMAIN batch'
             /\ work' = [work EXCEPT ![p] = w] /\ pc' = [pc EXCEPT ![p] = "batch"]
             /\ UNCHANGED <<logs, record, journal, temp, outcome, stops>>
    <2>1. /\ DOMAIN pc' = Projects /\ pc'[p] = "batch"
          /\ \A q \in Projects \ {p} : pc'[q] = pc[q]
      BY <1>4, Goes
    <2>2. /\ DOMAIN work' = Projects /\ work'[p] = w
          /\ \A q \in Projects \ {p} : work'[q] = work[q]
      BY <1>4, Works
    <2>3. Apart(p) /\ UNCHANGED <<prepared, stored>>
      BY <1>4, <2>1, <2>2 DEF Apart, outcome, Typed, Types
    <2>4. /\ DOMAIN w = {"base", "frozen", "mutation", "plan"} /\ w.plan = plan
          /\ w.base = work[p].base /\ w.frozen = work[p].frozen /\ w.mutation = m
      BY <1>0 DEF ScanTypes
    <2>5. plan = work[p].plan \/ plan = <<>>
      OBVIOUS
    <2> HIDE DEF w, plan
    <2>6. ScanTypes(p)'
      BY <1>0, <2>1, <2>2, <2>3, <2>4, <2>5, EmptyFunction DEF ScanTypes, Within
    <2>7. Planned(p)'
      BY <1>0, <2>2, <2>3, <2>4, <2>5, EmptyFunction DEF Planned
    <2>8. Within(batch', Sessions, Change) /\ \A s \in DOMAIN batch' : batch'[s].old = record[s]
      BY <1>4, EntriesType
    <2>9. FileTypes'
      BY <1>4, <2>8 DEF Typed, Types, FileTypes, logs
    <2>10. Replayable'
      BY <1>0, <1>4, <2>8 DEF Replayable, Locked, Clean
    <2>11. ASSUME NEW q \in Projects, pc'[q] = "batch" PROVE lock' = q
      <3>1. q # p => lock = q
        BY <2>1, <2>11 DEF Typed, Holder
      <3>. QED  BY <1>0, <1>4, <3>1, ScanAssumption DEF Locked
    <2>. QED  BY <2>3, <2>6, <2>7, <2>9, <2>10, <2>11, ScanMoves DEF Typed, Holder
  <1>5. Apply(p) => \/ Refused(p)
                    \/ Call(p) /\ Done(p) /\ UNCHANGED outcome
                    \/ Call(p) /\ GoTo(p, "persist") /\ UNCHANGED <<work, outcome>>
                    \/ /\ lock' = p /\ staging' = "torn" /\ batch' = Entries(m) /\ todo' = DOMAIN batch'
                       /\ work' = [work EXCEPT ![p] = w] /\ pc' = [pc EXCEPT ![p] = "batch"]
                       /\ UNCHANGED <<logs, record, journal, temp, outcome, stops>>
    BY DEF Apply, GoTo
  <1>. QED  BY <1>1, <1>2, <1>3, <1>4, <1>5

LEMMA CompleteStagingKeeps ==
    ASSUME Typed, NEW p \in Projects, CompleteStaging(p)
    PROVE  Typed'
  <1>1. FileTypes'
    BY DEF CompleteStaging, Typed, Types, FileTypes, logs
  <1>2. Replayable'
    BY ScanAssumption DEF CompleteStaging, Typed, Replayable
  <1>3. Holder'
    BY DEF CompleteStaging, Typed, Holder
  <1>. QED  BY <1>1, <1>2, <1>3, ScansRest DEF CompleteStaging, Typed

\* What a planned record adds to the store.
LEMMA NewChunksType ==
    ASSUME Typed, NEW p \in Projects, NEW s \in DOMAIN work[p].plan
    PROVE  NewChunks(p, s) \subseteq SUBSET Revision
  <1>1. s \in Sessions /\ work[p].plan[s].content \in Content
    BY DEF Typed, Types, ScanTypes, Within, Record
  <1>2. Observed(p, s, work[p].plan[s].content) \subseteq Revision
    BY <1>1, ObservedType
  <1>. QED  BY <1>2 DEF NewChunks, NewObservations

LEMMA PersistKeeps ==
    ASSUME Typed, NEW p \in Projects, Persist(p)
    PROVE  Typed'
  <1> DEFINE new == UNION {NewChunks(p, s) : s \in DOMAIN work[p].plan}
  <1>1. /\ DOMAIN pc' = Projects /\ pc'[p] = "commit"
        /\ \A q \in Projects \ {p} : pc'[q] = pc[q]
    BY Goes DEF Persist, GoTo
  <1>2. UNCHANGED <<work, prepared>>
    BY DEF Persist
  <1>3. /\ DOMAIN stored' = Projects /\ stored'[p] = stored[p] \cup new
        /\ \A q \in Projects \ {p} : stored'[q] = stored[q]
    BY DEF Persist, Typed, Types
  <1>4. Apart(p)
    BY <1>1, <1>2, <1>3 DEF Apart, Typed, Types
  <1>5. new \subseteq SUBSET Revision
    BY NewChunksType
  <1>6. ScanTypes(p) /\ Planned(p)
    BY DEF Typed, Types
  <1> HIDE DEF new
  <1>7. ScanTypes(p)'
    BY <1>1, <1>2, <1>3, <1>5, <1>6 DEF ScanTypes
  <1>8. Planned(p)'
    BY <1>2, <1>6 DEF Planned
  <1>9. FileTypes' /\ Replayable'
    BY DEF Persist, Typed, Types, FileTypes, Replayable, logs, files
  <1>10. Holder'
    BY <1>1 DEF Persist, Typed, Holder
  <1>. QED  BY <1>4, <1>7, <1>8, <1>9, <1>10, ScanMoves DEF Typed

\* The view of a planned record.
LEMMA SessionViewType ==
    ASSUME Typed, NEW p \in Projects, NEW s \in DOMAIN work[p].plan
    PROVE  SessionView(p, s) \in View /\ SessionView(p, s).record = work[p].plan[s]
  <1> DEFINE r == work[p].plan[s]
  <1>1. ScanTypes(p) /\ Planned(p)
    BY DEF Typed, Types
  <1>2. s \in Sessions /\ r \in Record
    BY <1>1 DEF ScanTypes, Within
  <1>3. CASE r.available
    <2>1. Observed(p, s, r.content) \subseteq Revision
      BY <1>2, ObservedType DEF Record
    <2>2. OldChunks(p, s) \subseteq SUBSET Revision
      BY <1>1 DEF OldChunks, ScanTypes, Within, View
    <2>3. NewChunks(p, s) \subseteq SUBSET Revision
      BY NewChunksType
    <2>4. SessionView(p, s) = [record |-> r, active |-> Observed(p, s, r.content),
                               chunks |-> OldChunks(p, s) \cup NewChunks(p, s)]
      BY <1>3 DEF SessionView
    <2>. QED  BY <1>2, <2>1, <2>2, <2>3, <2>4 DEF View
  <1>4. CASE ~ r.available
    <2>1. prepared[p][s] \in View
      BY <1>1, <1>4 DEF Planned, ScanTypes, Within
    <2>2. SessionView(p, s) = [prepared[p][s] EXCEPT !.record = r]
      BY <1>4 DEF SessionView
    <2>. QED  BY <1>2, <2>1, <2>2 DEF View
  <1>. QED  BY <1>3, <1>4

LEMMA CommitKeeps ==
    ASSUME Typed, NEW p \in Projects, Commit(p)
    PROVE  Typed'
  <1> DEFINE views == [s \in DOMAIN work[p].plan |-> SessionView(p, s)]
  <1>1. CASE Refused(p)
    BY <1>1, RefusedKeeps
  <1>2. CASE ~ Refused(p)
    <2>1. /\ Call(p) /\ Done(p) /\ UNCHANGED stored
          /\ prepared' = [prepared EXCEPT ![p] = views]
      BY <1>2 DEF Commit
    <2>2. /\ DOMAIN pc' = Projects /\ pc'[p] = "idle"
          /\ \A q \in Projects \ {p} : pc'[q] = pc[q]
      BY <2>1, Goes DEF Done
    <2>3. /\ DOMAIN work' = Projects /\ work'[p] = NoWork
          /\ \A q \in Projects \ {p} : work'[q] = work[q]
      BY <2>1, Works DEF Done
    <2>4. /\ DOMAIN prepared' = Projects /\ prepared'[p] = views
          /\ \A q \in Projects \ {p} : prepared'[q] = prepared[q]
      BY <2>1 DEF Typed, Types
    <2>5. Apart(p)
      BY <2>1, <2>2, <2>3, <2>4 DEF Apart, Typed, Types
    <2>6. ScanTypes(p)
      BY DEF Typed, Types
    <2>7. Within(views, Sessions, View)
      BY <2>6, SessionViewType DEF Within, ScanTypes
    <2> HIDE DEF views
    <2>8. ScanTypes(p)'
      BY <2>1, <2>2, <2>3, <2>4, <2>6, <2>7, NoWorkFields, EmptyFunction DEF ScanTypes, Within
    <2>9. Planned(p)'
      BY <2>3, NoWorkFields, EmptyFunction DEF Planned
    <2>10. FileTypes' /\ Replayable' /\ Holder'
      BY <2>1, <2>2, <2>5, CallEnds
    <2>. QED  BY <2>5, <2>8, <2>9, <2>10, ScanMoves DEF Typed
  <1>. QED  BY <1>1, <1>2

LEMMA StopsKeeps ==
    ASSUME Typed, NEW p \in Projects, NEW crash \in BOOLEAN, Stops(p, crash)
    PROVE  Typed'
  <1>1. Apart(p) /\ pc'[p] = "idle" /\ ScanTypes(p)' /\ Planned(p)'
    BY Ends DEF Stops
  <1>2. ASSUME lock = p, batch' = <<>>
        PROVE  todo' = {} /\ DOMAIN batch' = {}
    BY <1>2, EmptyFunction DEF Stops
  <1>3. CASE batch' = <<>> /\ staging' = "none" /\ lock = p
    <2>1. /\ todo' = {} /\ lock' = Nobody /\ DOMAIN batch' = {}
          /\ temp' \in {temp, Nothing} /\ stops' = stops + 1 /\ stops < MaxStops
          /\ UNCHANGED <<logs, record, journal>>
      BY <1>2, <1>3 DEF Stops
    <2>2. FileTypes'
      BY <1>3, <2>1, ScanAssumption DEF Typed, Types, FileTypes, Within, logs
    <2>3. Replayable'
      BY <1>3, <2>1 DEF Replayable
    <2>. QED  BY <1>1, <2>2, <2>3, ScanMoves DEF Typed, Holder, Stops, Apart
  <1>4. CASE UNCHANGED <<staging, batch>>
    <2>1. /\ \/ lock = p /\ lock' = Nobody /\ todo' = {} /\ temp' \in {temp, Nothing}
             \/ lock # p /\ UNCHANGED <<lock, todo, temp>>
          /\ stops' = stops + 1 /\ stops < MaxStops
          /\ UNCHANGED <<logs, record, journal, staging, batch>>
      BY <1>4 DEF Stops
    <2>2. FileTypes'
      BY <2>1, ScanAssumption DEF Typed, Types, FileTypes, logs
    <2>3. Replayable'
      BY <2>1 DEF Typed, Replayable
    <2>4. Holder'
      BY <1>1, <2>1 DEF Typed, Holder, Apart
    <2>. QED  BY <1>1, <2>2, <2>3, <2>4, ScanMoves DEF Typed
  <1>5. \/ batch' = <<>> /\ staging' = "none" /\ lock = p
        \/ UNCHANGED <<staging, batch>>
    BY DEF Stops
  <1>. QED  BY <1>3, <1>4, <1>5

\* Whatever happens to the logs.
LEMMA DisturbKeeps ==
    ASSUME Typed, Disturb, log' \in [Sessions -> Content],
           present' \in [Sessions -> BOOLEAN]
    PROVE  Typed'
  <1>1. FileTypes'
    BY ScanAssumption DEF Disturb, Typed, Types, FileTypes, files
  <1>2. Replayable' /\ Holder'
    BY DEF Disturb, Typed, Replayable, Holder, files
  <1>. QED  BY <1>1, <1>2, ScansRest DEF Disturb, Typed

LEMMA LogsKeep ==
    ASSUME Typed, NEW s \in Sessions, Extend(s) \/ Truncate(s) \/ Move(s)
    PROVE  Typed'
  <1>1. log \in [Sessions -> Content] /\ present \in [Sessions -> BOOLEAN]
    BY DEF Typed, Types, FileTypes
  <1>2. CASE Extend(s)
    <2>1. PICK n \in 1 .. MaxLines - Len(log[s]) : \E more \in [1 .. n -> Line] :
             log' = [log EXCEPT ![s] = log[s] \o more]
      BY <1>2 DEF Extend
    <2>2. PICK more \in [1 .. n -> Line] : log' = [log EXCEPT ![s] = log[s] \o more]
      BY <2>1
    <2>3. log[s] \o more \in Content
      BY <1>1, Extended
    <2>. QED  BY <1>1, <1>2, <2>2, <2>3, DisturbKeeps DEF Extend
  <1>3. CASE Truncate(s)
    <2>1. PICK n \in 1 .. Len(log[s]) - 1 : log' = [log EXCEPT ![s] = SubSeq(log[s], 1, n)]
      BY <1>3 DEF Truncate
    <2>2. SubSeq(log[s], 1, n) \in Content
      BY <1>1, Cut
    <2>. QED  BY <1>1, <1>3, <2>1, <2>2, DisturbKeeps DEF Truncate
  <1>4. CASE Move(s)
    BY <1>1, <1>4, DisturbKeeps DEF Move
  <1>. QED  BY <1>2, <1>3, <1>4

LEMMA InitTyped == Init => Typed
  <1> SUFFICES ASSUME Init PROVE Typed
    OBVIOUS
  <1>1. \A s \in Sessions : Start[s] \in Seq(Line) /\ Len(Start[s]) \in 1 .. MaxLines
    BY ScanAssumption DEF Line
  <1>2. Start \in [Sessions -> Content]
    BY <1>1, ContentIsSeq, ScanAssumption
  <1>3. FileTypes
    <2>1. log \in [Sessions -> Content]
      BY <1>2 DEF Init
    <2>2. present \in [Sessions -> BOOLEAN] /\ record \in [Sessions -> Records]
      BY DEF Init, Records
    <2>3. Within(batch, Sessions, Change) /\ todo \subseteq DOMAIN batch
      BY EmptyFunction DEF Init, Within
    <2>4. changes \in 0 .. MaxChanges /\ stops \in 0 .. MaxStops
      BY ScanAssumption DEF Init
    <2>. QED  BY <2>1, <2>2, <2>3, <2>4 DEF Init, FileTypes
  <1>4. ASSUME NEW p \in Projects PROVE ScanTypes(p) /\ Planned(p)
    <2>1. /\ pc[p] = "idle" /\ work[p] = NoWork
          /\ prepared[p] = <<>> /\ stored[p] = {}
      BY DEF Init
    <2>. QED  BY <2>1, NoWorkFields, EmptyFunction DEF ScanTypes, Planned, Within
  <1>5. Replayable /\ Holder
    BY EmptyFunction DEF Init, Replayable, Holder
  <1>. QED  BY <1>3, <1>4, <1>5 DEF Init, Typed, Types

LEMMA NextTyped == Typed /\ [Next]_vars => Typed'
  <1> SUFFICES ASSUME Typed, [Next]_vars PROVE Typed'
    OBVIOUS
  <1>1. CASE UNCHANGED vars
    <2>1. FileTypes' /\ Replayable' /\ Holder'
      BY <1>1 DEF vars, logs, files, Typed, Types, FileTypes, Replayable, Holder
    <2>. QED  BY <1>1, <2>1, ScansRest DEF vars, Typed
  <1>2. ASSUME NEW s \in Sessions, Extend(s) \/ Truncate(s) \/ Move(s) PROVE Typed'
    BY <1>2, LogsKeep
  <1>3. ASSUME NEW p \in Projects, Step(p) PROVE Typed'
    BY <1>3, TakeLockKeeps, LinkStagingKeeps, UnlinkStagingKeeps, RenameTempKeeps,
       WriteTempKeeps, RemoveJournalKeeps, MeetsTempKeeps, DiscoverKeeps, FreezeKeeps,
       CollectTerminalsKeeps, PlanKeeps, ApplyKeeps, CompleteStagingKeeps, PersistKeeps,
       CommitKeeps
       DEF Step
  <1>4. ASSUME NEW p \in Projects, NEW crash \in BOOLEAN, Stops(p, crash) PROVE Typed'
    BY <1>4, StopsKeeps
  <1>. QED  BY <1>1, <1>2, <1>3, <1>4 DEF Next

\* The state stays well formed, a batch is in the hands of its holder, and every
\* journal that a crash can leave behind meets only the old or the new records of
\* its batch, so that whoever takes the lock can replay it
\* (catalog.go validateJournalUnlocked), for any number of projects and stops.
THEOREM TypeCorrect == Spec => []TypeOK
  <1>1. Typed => TypeOK
    BY DEF Typed, TypeOK, Holder
  <1>. QED  BY <1>1, InitTyped, NextTyped, PTL DEF Spec

-------------------------------------------------------------------------------
(* Scans implement the atomic catalog.                                        *)

\* A batch on disk is one that its project may commit.
Entitled(p) == \A s \in DOMAIN batch : Abstract!Written(p, batch[s].old, batch[s].new)

BatchInv == DOMAIN batch = {} \/ \E p \in Projects : Entitled(p)

\* What an accepted mutation changes is what the abstract catalog lets a project
\* change: it joins the project to the record and takes no other out.
LEMMA WrittenEntry ==
    ASSUME NEW p, NEW old \in Records, NEW m \in Mutation, Read(p, m) \/ Gone(p, m),
           Accepts(old, m), old # Merged(old, m)
    PROVE  Abstract!Written(p, old, Merged(old, m))
  <1> DEFINE new == Merged(old, m)
  <1>1. m.desired \in Record /\ p \in m.desired.projects
    BY ProposedProject
  <1>2. /\ new.projects = m.desired.projects \cup old.projects
        /\ new.available = m.desired.available /\ new.content = m.desired.content
    BY <1>1 DEF Merged, Record
  <1>3. new # NoRecord
    BY <1>1, <1>2 DEF NoRecord
  <1>4. NoRecord.projects = {}
    BY DEF NoRecord
  <1>5. CASE Read(p, m)
    <2>1. m.desired.available /\ m.desired.projects = {p}
      BY <1>5 DEF Read
    <2>. QED  BY <1>2, <1>3, <1>4, <2>1 DEF Abstract!Written
  <1>6. CASE Gone(p, m)
    <2>1. /\ m.relation = "unchanged" /\ m.expected # NoRecord /\ p \in m.expected.projects
          /\ m.desired = [m.expected EXCEPT !.available = FALSE]
      BY <1>6 DEF Gone
    <2>2. old = m.expected /\ old # NoRecord /\ m.desired.content = old.content
      BY <2>1 DEF Accepts
    <2>3. old \in Record
      BY <2>2 DEF Records
    <2>4. m.desired.projects = old.projects /\ p \in old.projects
      BY <2>1, <2>2, <2>3 DEF Record
    <2>. QED  BY <1>2, <1>3, <2>2, <2>4 DEF Abstract!Written
  <1>. QED  BY <1>5, <1>6

\* Only a scan that begins to stage brings a batch.
LEMMA ApplyBatchInv ==
    ASSUME Typed, BatchInv, NEW p \in Projects, Apply(p)
    PROVE  BatchInv'
  <1> DEFINE m == work[p].mutation
  <1>1. CASE UNCHANGED batch
    BY <1>1 DEF BatchInv, Entitled
  <1>2. CASE Accepted(m) /\ batch' = Entries(m)
    <2>1. ASSUME NEW s \in DOMAIN batch'
          PROVE  Abstract!Written(p, batch'[s].old, batch'[s].new)
      <3>1. /\ s \in DOMAIN m /\ record[s] # Merged(record[s], m[s])
            /\ batch'[s] = [old |-> record[s], new |-> Merged(record[s], m[s])]
        BY <1>2, <2>1 DEF Entries
      <3>2. m[s] \in Mutation /\ record[s] \in Records /\ (Read(p, m[s]) \/ Gone(p, m[s]))
        BY <3>1 DEF Typed, Types, FileTypes, ScanTypes, Within, Planned
      <3>3. Accepts(record[s], m[s])
        BY <1>2, <3>1 DEF Accepted
      <3>4. Abstract!Written(p, record[s], Merged(record[s], m[s]))
        BY <3>1, <3>2, <3>3, WrittenEntry
      <3>. QED  BY <3>1, <3>4
    <2>. QED  BY <2>1 DEF BatchInv, Entitled
  <1>3. UNCHANGED batch \/ (Accepted(m) /\ batch' = Entries(m))
    BY DEF Apply, Refused, Call, files
  <1>. QED  BY <1>1, <1>2, <1>3

LEMMA NextBatchInv == Typed /\ BatchInv /\ [Next]_vars => BatchInv'
  <1> SUFFICES ASSUME Typed, BatchInv, [Next]_vars PROVE BatchInv'
    OBVIOUS
  <1>1. CASE UNCHANGED batch
    BY <1>1 DEF BatchInv, Entitled
  <1>2. CASE batch' = <<>>
    BY <1>2, EmptyFunction DEF BatchInv
  <1>3. ASSUME NEW s \in Sessions, Extend(s) \/ Truncate(s) \/ Move(s)
        PROVE  UNCHANGED batch
    BY <1>3 DEF Extend, Truncate, Move, Disturb, files
  <1>4. ASSUME NEW p \in Projects, Step(p), ~ Apply(p)
        PROVE  UNCHANGED batch \/ batch' = <<>>
    BY <1>4 DEF Step, TakeLock, LinkStaging, UnlinkStaging, RenameTemp, WriteTemp,
       RemoveJournal, MeetsTemp, Discover, Freeze, CollectTerminals, Plan, CompleteStaging,
       Persist, Commit, Refused, Call, files
  <1>5. ASSUME NEW p \in Projects, NEW crash \in BOOLEAN, Stops(p, crash)
        PROVE  UNCHANGED batch \/ batch' = <<>>
    BY <1>5 DEF Stops
  <1>6. CASE UNCHANGED vars
    BY <1>1, <1>6 DEF vars, files
  <1>. QED  BY <1>1, <1>2, <1>3, <1>4, <1>5, <1>6, ApplyBatchInv DEF Next

\* As long as no journal is linked or removed and no record is renamed.
LEMMA CatalogRests ==
    ASSUME UNCHANGED <<record, journal, prepared>>, UNCHANGED batch \/ ~ journal
    PROVE  UNCHANGED Abstract!vars
  BY DEF Abstract!vars, Catalog, Sources

\* The link commits the whole batch.
LEMMA LinkCommits ==
    ASSUME Typed, BatchInv, NEW p \in Projects, LinkStaging(p)
    PROVE  [Abstract!Next]_Abstract!vars
  <1>1. ~ journal /\ journal' /\ UNCHANGED <<record, batch, prepared>>
    BY DEF LinkStaging, outcome
  <1>2. UNCHANGED Sources
    BY <1>1 DEF Sources
  <1>3. \A s \in Sessions :
           /\ Catalog[s] = record[s]
           /\ Catalog'[s] = IF s \in DOMAIN batch THEN batch[s].new ELSE record[s]
    BY <1>1 DEF Catalog
  <1>4. \A s \in DOMAIN batch : record[s] = batch[s].old
    BY <1>1 DEF Typed, Replayable
  <1>5. CASE DOMAIN batch = {}
    <2>1. UNCHANGED Catalog
      BY <1>1, <1>5 DEF Catalog
    <2>. QED  BY <1>2, <2>1 DEF Abstract!vars
  <1>6. ASSUME NEW q \in Projects, Entitled(q) PROVE Abstract!Next
    <2>1. \A s \in Sessions :
             Catalog'[s] = Catalog[s] \/ Abstract!Written(q, Catalog[s], Catalog'[s])
      BY <1>3, <1>4, <1>6 DEF Entitled
    <2>2. Abstract!CommitBatch(q)
      BY <1>2, <2>1 DEF Abstract!CommitBatch
    <2>. QED  BY <2>2 DEF Abstract!Next
  <1>. QED  BY <1>5, <1>6 DEF BatchInv

\* The replay writes what the link announced.
LEMMA ReplayRests ==
    ASSUME Typed, NEW p \in Projects, RenameTemp(p) \/ RemoveJournal(p)
    PROVE  UNCHANGED Abstract!vars
  <1>1. lock # Nobody /\ journal /\ UNCHANGED prepared
    BY ScanAssumption DEF RenameTemp, RemoveJournal, outcome, Typed, Types, FileTypes, Replayable
  <1>2. CASE RenameTemp(p)
    <2>1. temp \in todo /\ todo \subseteq DOMAIN batch
      BY <1>1, <1>2 DEF RenameTemp, Typed, Types, FileTypes, Replayable
    <2>2. \A s \in Sessions : record'[s] = IF s = temp THEN batch[s].new ELSE record[s]
      BY <1>2 DEF RenameTemp, Typed, Types, FileTypes
    <2>3. UNCHANGED <<journal, batch>>
      BY <1>2 DEF RenameTemp
    <2>4. UNCHANGED Catalog
      BY <1>1, <2>1, <2>2, <2>3 DEF Catalog
    <2>. QED  BY <1>1, <2>4 DEF Abstract!vars, Sources
  <1>3. CASE RemoveJournal(p)
    <2>1. todo = {} /\ ~ journal' /\ UNCHANGED record
      BY <1>3 DEF RemoveJournal
    <2>2. \A s \in DOMAIN batch : record[s] = batch[s].new
      BY <1>1, <2>1 DEF Typed, Replayable
    <2>3. UNCHANGED Catalog
      BY <1>1, <2>1, <2>2 DEF Catalog
    <2>. QED  BY <1>1, <2>3 DEF Abstract!vars, Sources
  <1>. QED  BY <1>2, <1>3

\* A commit prepares from what the catalog holds at once.
LEMMA CommitPrepares ==
    ASSUME Typed, NEW p \in Projects, Commit(p), ~ Refused(p)
    PROVE  Abstract!Next
  <1> DEFINE plan == work[p].plan
             S == DOMAIN plan
  <1>1. /\ \A s \in S : record[s] = plan[s]
        /\ ~ journal /\ UNCHANGED <<record, journal, batch>>
        /\ prepared' = [prepared EXCEPT ![p] = [s \in S |-> SessionView(p, s)]]
    BY DEF Commit, Call, Locked, Clean, files
  <1>2. S \subseteq Sessions /\ \A s \in S : plan[s] \in Record /\ p \in plan[s].projects
    BY DEF Typed, Types, ScanTypes, Within, Planned
  <1>3. \A s \in Sessions : Catalog[s] = record[s]
    BY <1>1 DEF Catalog
  <1>4. \A s \in S : Catalog[s] = plan[s] /\ Catalog[s] # NoRecord /\ p \in Catalog[s].projects
    BY <1>1, <1>2, <1>3 DEF NoRecord
  <1>5. UNCHANGED Catalog
    BY <1>1 DEF Catalog
  <1>6. Sources' = [Sources EXCEPT ![p] = [s \in S |-> Catalog[s]]]
    <2>1. ASSUME NEW q \in Projects \ {p} PROVE Sources'[q] = Sources[q]
      BY <1>1 DEF Sources, Typed, Types
    <2>2. Sources'[p] = [s \in S |-> SessionView(p, s).record]
      BY <1>1 DEF Sources, Typed, Types
    <2>3. Sources'[p] = [s \in S |-> Catalog[s]]
      BY <1>4, <2>2, SessionViewType
    <2>4. DOMAIN Sources = Projects /\ DOMAIN Sources' = Projects
      BY DEF Sources
    <2>5. Sources = [q \in Projects |-> Sources[q]] /\ Sources' = [q \in Projects |-> Sources'[q]]
      BY DEF Sources
    <2>. QED  BY <2>1, <2>3, <2>4, <2>5
  <1>7. Abstract!Prepare(p)
    BY <1>2, <1>4, <1>5, <1>6 DEF Abstract!Prepare
  <1>. QED  BY <1>7 DEF Abstract!Next

\* Every other step leaves what users of the catalog see as it is.
LEMMA OthersRest ==
    ASSUME Typed, NEW p \in Projects,
           \/ Refused(p) \/ TakeLock(p) \/ UnlinkStaging(p) \/ MeetsTemp(p)
           \/ Discover(p) \/ Freeze(p) \/ CollectTerminals(p) \/ Plan(p) \/ Apply(p)
           \/ CompleteStaging(p) \/ Persist(p)
           \/ \E s \in Sessions : WriteTemp(p, s)
           \/ \E crash \in BOOLEAN : Stops(p, crash)
    PROVE  UNCHANGED Abstract!vars
  <1>1. CASE Apply(p)
    <2>1. UNCHANGED <<record, journal, prepared>> /\ ~ journal
      BY <1>1 DEF Apply, Locked, Clean, Refused, Call, files, outcome
    <2>. QED  BY <2>1, CatalogRests
  <1>2. CASE \E crash \in BOOLEAN : Stops(p, crash)
    <2>1. UNCHANGED <<record, journal, prepared>> /\ (UNCHANGED batch \/ ~ journal)
      BY <1>2 DEF Stops, outcome
    <2>. QED  BY <2>1, CatalogRests
  <1>3. CASE ~ Apply(p) /\ ~ \E crash \in BOOLEAN : Stops(p, crash)
    <2>1. UNCHANGED <<record, journal, prepared, batch>>
      BY <1>3 DEF Refused, TakeLock, UnlinkStaging, MeetsTemp, Discover, Freeze,
         CollectTerminals, Plan, CompleteStaging, Persist, WriteTemp, Call, files, outcome
    <2>. QED  BY <2>1, CatalogRests
  <1>. QED  BY <1>1, <1>2, <1>3

LEMMA AbstractStep == Typed /\ BatchInv /\ [Next]_vars => [Abstract!Next]_Abstract!vars
  <1> SUFFICES ASSUME Typed, BatchInv, [Next]_vars PROVE [Abstract!Next]_Abstract!vars
    OBVIOUS
  <1>1. ASSUME NEW s \in Sessions, Extend(s) \/ Truncate(s) \/ Move(s)
        PROVE  UNCHANGED Abstract!vars
    BY <1>1, CatalogRests DEF Extend, Truncate, Move, Disturb, files, outcome
  <1>2. ASSUME NEW p \in Projects, Step(p) PROVE [Abstract!Next]_Abstract!vars
    BY <1>2, LinkCommits, ReplayRests, CommitPrepares, OthersRest DEF Step
  <1>3. ASSUME NEW p \in Projects, NEW crash \in BOOLEAN, Stops(p, crash)
        PROVE  UNCHANGED Abstract!vars
    BY <1>3, OthersRest
  <1>4. CASE UNCHANGED vars
    BY <1>4, CatalogRests DEF vars, files, outcome
  <1>. QED  BY <1>1, <1>2, <1>3, <1>4 DEF Next

\* Whatever the number of projects that scan at once, and wherever they stop: the
\* records of a batch change together, a batch joins its project to the records it
\* writes and takes no other project out of them, and a generation is prepared from
\* records the catalog held at one moment (catalog.go ApplyBatch,
\* WithBatchSnapshot; service.go).
THEOREM AtomicBatches == Spec => CatalogIsAtomic
  <1>1. Init => BatchInv
    BY EmptyFunction DEF Init, BatchInv
  <1>2. Init => Abstract!Init
    <2> SUFFICES ASSUME Init PROVE Abstract!Init
      OBVIOUS
    <2>1. Catalog = [s \in Sessions |-> NoRecord]
      BY DEF Init, Catalog
    <2>2. \A p \in Projects : prepared[p] = <<>>
      BY DEF Init
    <2>3. [s \in DOMAIN <<>> |-> <<>>[s].record] = <<>>
      BY EmptyFunction
    <2>4. Sources = [p \in Projects |-> <<>>]
      BY <2>2, <2>3 DEF Sources
    <2>. QED  BY <2>1, <2>4 DEF Abstract!Init
  <1>. QED  BY <1>1, <1>2, InitTyped, NextTyped, NextBatchInv, AbstractStep, PTL
            DEF Spec, CatalogIsAtomic, Abstract!Spec

-------------------------------------------------------------------------------
(* Views and their chunks.                                                    *)

\* The chunks of a view are stored, cover what is active, and share nothing.
Kept(p, view) ==
    /\ view.chunks \subseteq stored[p]
    /\ view.active \subseteq UNION view.chunks
    /\ \A c, d \in view.chunks : c # d => c \cap d = {}

\* Before its commit a scan has stored the chunks it adds.
Persisted(p) ==
    pc[p] = "commit" => \A s \in DOMAIN work[p].plan : NewChunks(p, s) \subseteq stored[p]

ViewInv == \A p \in Projects : /\ \A s \in DOMAIN prepared[p] : Kept(p, prepared[p][s])
                               /\ Persisted(p)

\* The step stores nothing, prepares nothing and brings no scan to its commit.
Idles(p) == UNCHANGED outcome /\ Apart(p) /\ pc'[p] # "commit"

LEMMA IdlesKeeps ==
    ASSUME Typed, ViewInv, NEW p \in Projects,
           Idles(p) \/ UNCHANGED <<outcome, pc, work>>
    PROVE  ViewInv'
  <1>1. UNCHANGED <<prepared, stored>>
    BY DEF Idles, outcome
  <1>2. ASSUME NEW q \in Projects PROVE Persisted(q)'
    <2>1. CASE q = p /\ Idles(p)
      BY <2>1 DEF Idles, Persisted
    <2>2. CASE pc'[q] = pc[q] /\ work'[q] = work[q]
      BY <1>1, <2>2 DEF ViewInv, Persisted, NewChunks, NewObservations, Known
    <2>. QED  BY <2>1, <2>2 DEF Idles, Apart
  <1>. QED  BY <1>1, <1>2 DEF ViewInv, Kept

LEMMA EndIdles ==
    ASSUME Typed, NEW p \in Projects, Done(p), UNCHANGED outcome
    PROVE  Idles(p)
  BY Ends DEF Idles

LEMMA GoingIdles ==
    ASSUME Typed, NEW p \in Projects, NEW step, step # "commit", GoTo(p, step),
           NEW w, work' = [work EXCEPT ![p] = w] \/ UNCHANGED work, UNCHANGED outcome
    PROVE  Idles(p)
  <1>1. /\ DOMAIN pc' = Projects /\ pc'[p] = step
        /\ \A q \in Projects \ {p} : pc'[q] = pc[q]
    BY Goes DEF GoTo
  <1>2. DOMAIN work' = Projects /\ \A q \in Projects \ {p} : work'[q] = work[q]
    BY Works DEF Typed, Types
  <1>. QED  BY <1>1, <1>2 DEF Idles, Apart, outcome, Typed, Types

LEMMA StepIdles ==
    ASSUME Typed, NEW p \in Projects, Step(p), ~ Persist(p), Refused(p) \/ ~ Commit(p)
    PROVE  Idles(p) \/ UNCHANGED <<outcome, pc, work>>
  <1>1. CASE Refused(p)
    BY <1>1, EndIdles DEF Refused
  <1>2. CASE \/ TakeLock(p) \/ LinkStaging(p) \/ UnlinkStaging(p) \/ RenameTemp(p)
             \/ CompleteStaging(p) \/ \E s \in Sessions : WriteTemp(p, s)
    BY <1>2 DEF TakeLock, LinkStaging, UnlinkStaging, RenameTemp, CompleteStaging, WriteTemp
  <1>3. CASE RemoveJournal(p)
    <2>1. \/ UNCHANGED <<outcome, pc, work>>
          \/ Done(p) /\ UNCHANGED outcome
          \/ GoTo(p, "persist") /\ UNCHANGED <<work, outcome>>
      BY <1>3 DEF RemoveJournal
    <2>. QED  BY <2>1, EndIdles, GoingIdles
  <1>4. CASE MeetsTemp(p)
    BY <1>4, EndIdles DEF MeetsTemp
  <1>5. CASE Discover(p)
    BY <1>5, GoingIdles DEF Discover
  <1>6. CASE Freeze(p)
    <2>1. PICK w : work' = [work EXCEPT ![p] = w]
      BY <1>6 DEF Freeze
    <2>. QED  BY <1>6, <2>1, GoingIdles DEF Freeze
  <1>7. CASE CollectTerminals(p) /\ ~ Refused(p)
    BY <1>7, GoingIdles DEF CollectTerminals
  <1>8. CASE Plan(p) /\ ~ Refused(p)
    <2>1. PICK w : work' = [work EXCEPT ![p] = w]
      BY <1>8 DEF Plan
    <2>. QED  BY <1>8, <2>1, GoingIdles DEF Plan
  <1>9. CASE Apply(p) /\ ~ Refused(p)
    <2>1. CASE Call(p)
      <3>1. \/ Done(p) /\ UNCHANGED outcome
            \/ GoTo(p, "persist") /\ UNCHANGED <<work, outcome>>
        BY <1>9, <2>1, ScanAssumption DEF Apply, Call
      <3>. QED  BY <3>1, EndIdles, GoingIdles
    <2>2. CASE ~ Call(p)
      <3>1. PICK w : work' = [work EXCEPT ![p] = w]
        BY <1>9, <2>2 DEF Apply
      <3>2. GoTo(p, "batch") /\ UNCHANGED outcome
        BY <1>9, <2>2 DEF Apply
      <3>. QED  BY <3>1, <3>2, GoingIdles
    <2>. QED  BY <2>1, <2>2
  <1>. QED  BY <1>1, <1>2, <1>3, <1>4, <1>5, <1>6, <1>7, <1>8, <1>9 DEF Step

LEMMA PersistViewInv ==
    ASSUME Typed, ViewInv, NEW p \in Projects, Persist(p)
    PROVE  ViewInv'
  <1> DEFINE new == UNION {NewChunks(p, s) : s \in DOMAIN work[p].plan}
  <1>1. UNCHANGED <<work, prepared>>
    BY DEF Persist
  <1>2. /\ stored'[p] = stored[p] \cup new
        /\ \A q \in Projects \ {p} : stored'[q] = stored[q]
    BY DEF Persist, Typed, Types
  <1>3. \A q \in Projects \ {p} : pc'[q] = pc[q]
    BY Goes DEF Persist, GoTo
  <1>4. \A q, s : NewChunks(q, s)' = NewChunks(q, s)
    BY <1>1 DEF NewChunks, NewObservations, Known
  <1>5. \A s \in DOMAIN work[p].plan : NewChunks(p, s) \subseteq new
    OBVIOUS
  <1> HIDE DEF new
  <1>6. ASSUME NEW q \in Projects PROVE Persisted(q)'
    <2>1. CASE q = p
      BY <1>1, <1>2, <1>4, <1>5, <2>1 DEF Persisted
    <2>2. CASE q # p
      BY <1>1, <1>2, <1>3, <1>4, <2>2 DEF Persisted, ViewInv
    <2>. QED  BY <2>1, <2>2
  <1>7. ASSUME NEW q \in Projects, NEW s \in DOMAIN prepared'[q]
        PROVE  Kept(q, prepared[q][s])'
    <2>1. Kept(q, prepared[q][s]) /\ stored[q] \subseteq stored'[q]
      BY <1>1, <1>2, <1>7 DEF ViewInv
    <2>. QED  BY <1>1, <2>1 DEF Kept
  <1>. QED  BY <1>6, <1>7 DEF ViewInv

\* The view of a planned record keeps its chunks.
LEMMA SessionViewKept ==
    ASSUME Typed, ViewInv, NEW p \in Projects, pc[p] = "commit",
           NEW s \in DOMAIN work[p].plan
    PROVE  Kept(p, SessionView(p, s))
  <1> DEFINE r == work[p].plan[s]
             active == Observed(p, s, r.content)
  <1>1. s \in DOMAIN prepared[p] =>
           /\ Kept(p, prepared[p][s])
           /\ prepared[p][s] \in View
    BY DEF ViewInv, Typed, Types, ScanTypes, Within
  <1>2. CASE r.available
    <2>1. SessionView(p, s) = [record |-> r, active |-> active,
                               chunks |-> OldChunks(p, s) \cup NewChunks(p, s)]
      BY <1>2 DEF SessionView
    <2>2. NewChunks(p, s) \subseteq stored[p] /\ OldChunks(p, s) \subseteq stored[p]
      BY <1>1 DEF ViewInv, Persisted, OldChunks, Kept
    <2>3. Known(p, s) = UNION OldChunks(p, s)
      BY DEF Known, OldChunks
    <2>4. NewChunks(p, s) = {active \ Known(p, s)} \ {{}}
      BY <1>2 DEF NewChunks, NewObservations
    <2>5. \A c, d \in OldChunks(p, s) : c # d => c \cap d = {}
      BY <1>1 DEF OldChunks, Kept
    <2> HIDE DEF r, active
    <2>6. active \subseteq UNION (OldChunks(p, s) \cup NewChunks(p, s))
      BY <2>3, <2>4
    <2>7. \A c, d \in OldChunks(p, s) \cup NewChunks(p, s) : c # d => c \cap d = {}
      BY <2>3, <2>4, <2>5
    <2>. QED  BY <2>1, <2>2, <2>6, <2>7 DEF Kept
  <1>3. CASE ~ r.available
    <2>1. s \in DOMAIN prepared[p]
      BY <1>3 DEF Typed, Planned
    <2>2. SessionView(p, s) = [prepared[p][s] EXCEPT !.record = r]
      BY <1>3 DEF SessionView
    <2>3. /\ SessionView(p, s).active = prepared[p][s].active
          /\ SessionView(p, s).chunks = prepared[p][s].chunks
      BY <1>1, <2>1, <2>2 DEF View
    <2>. QED  BY <1>1, <2>1, <2>3 DEF Kept
  <1>. QED  BY <1>2, <1>3

LEMMA CommitViewInv ==
    ASSUME Typed, ViewInv, NEW p \in Projects, Commit(p), ~ Refused(p)
    PROVE  ViewInv'
  <1> DEFINE views == [s \in DOMAIN work[p].plan |-> SessionView(p, s)]
  <1>1. /\ pc[p] = "commit" /\ Done(p) /\ UNCHANGED stored
        /\ prepared' = [prepared EXCEPT ![p] = views]
    BY DEF Commit
  <1>2. pc'[p] = "idle" /\ \A q \in Projects \ {p} : pc'[q] = pc[q]
    BY <1>1, Goes DEF Done
  <1>3. \A q \in Projects \ {p} : work'[q] = work[q]
    BY <1>1, Works DEF Done
  <1>4. prepared'[p] = views /\ \A q \in Projects \ {p} : prepared'[q] = prepared[q]
    BY <1>1 DEF Typed, Types
  <1>5. \A s \in DOMAIN views : Kept(p, views[s])
    BY <1>1, SessionViewKept
  <1> HIDE DEF views
  <1>6. ASSUME NEW q \in Projects
        PROVE  (\A s \in DOMAIN prepared'[q] : Kept(q, prepared[q][s])') /\ Persisted(q)'
    <2>1. CASE q = p
      BY <1>1, <1>2, <1>4, <1>5, <2>1 DEF Kept, Persisted
    <2>2. CASE q # p
      BY <1>1, <1>2, <1>3, <1>4, <2>2
         DEF ViewInv, Kept, Persisted, NewChunks, NewObservations, Known
    <2>. QED  BY <2>1, <2>2
  <1>. QED  BY <1>6 DEF ViewInv

LEMMA NextViewInv == Typed /\ ViewInv /\ [Next]_vars => ViewInv'
  <1> SUFFICES ASSUME Typed, ViewInv, [Next]_vars PROVE ViewInv'
    OBVIOUS
  <1>1. CASE UNCHANGED <<outcome, pc, work>>
    BY <1>1 DEF ViewInv, Kept, Persisted, outcome, NewChunks, NewObservations, Known
  <1>2. ASSUME NEW s \in Sessions, Extend(s) \/ Truncate(s) \/ Move(s)
        PROVE  UNCHANGED <<outcome, pc, work>>
    BY <1>2 DEF Extend, Truncate, Move, Disturb
  <1>3. ASSUME NEW p \in Projects, Step(p) PROVE ViewInv'
    BY <1>3, StepIdles, IdlesKeeps, PersistViewInv, CommitViewInv
  <1>4. ASSUME NEW p \in Projects, NEW crash \in BOOLEAN, Stops(p, crash) PROVE ViewInv'
    BY <1>4, EndIdles, IdlesKeeps DEF Stops
  <1>5. CASE UNCHANGED vars
    BY <1>1, <1>5 DEF vars
  <1>. QED  BY <1>1, <1>2, <1>3, <1>4, <1>5 DEF Next

\* A prepared generation can be read whole: every observation a view calls active
\* is in exactly one chunk the view names, and the store has all of them, however
\* a log was appended to, rewritten or moved away, and wherever scans stopped
\* (service.go selectNewObservations, Materialize).
THEOREM ViewsAreStored == Spec => []ActiveAreStored
  <1>1. Init => ViewInv
    BY EmptyFunction DEF Init, ViewInv, Persisted
  <1>2. Typed /\ ViewInv => ActiveAreStored
    <2> SUFFICES ASSUME ViewInv, NEW p \in Projects, NEW s \in DOMAIN prepared[p]
                 PROVE  LET view == prepared[p][s]
                        IN  /\ view.chunks \subseteq stored[p]
                            /\ \A r \in view.active :
                                  Cardinality({c \in view.chunks : r \in c}) = 1
      BY DEF ActiveAreStored
    <2> DEFINE view == prepared[p][s]
    <2>1. Kept(p, view)
      BY DEF ViewInv
    <2>2. ASSUME NEW r \in view.active
          PROVE  Cardinality({c \in view.chunks : r \in c}) = 1
      <3>1. PICK c \in view.chunks : r \in c
        BY <2>1 DEF Kept
      <3>2. {d \in view.chunks : r \in d} = {c}
        BY <2>1, <3>1 DEF Kept
      <3>. QED  BY <3>2, FS_Singleton
    <2>. QED  BY <2>1, <2>2 DEF Kept
  <1>. QED  BY <1>1, <1>2, InitTyped, NextTyped, NextViewInv, PTL DEF Spec
===============================================================================
