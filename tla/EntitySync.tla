----------------------------- MODULE EntitySync -----------------------------
(***************************************************************************)
(* The entity sync engine (src/internal/sync): the two review documents    *)
(* kept in the project and in the vault are merged three ways against a    *)
(* merge base, under locks/sync.lock.  Every change of the two trees is    *)
(* announced by a transaction file that holds hashes and no text, and is   *)
(* finished, or dropped, by the next run.  People save, delete and         *)
(* recreate the documents at any moment and never take the lock.           *)
(*                                                                         *)
(* A document is its units and its revision.  A unit holds the number of   *)
(* the edit that last wrote it, so that each edit can be followed.  Hashes *)
(* are the contents they stand for, used in comparisons only.              *)
(***************************************************************************)
EXTENDS Naturals, Sequences, FiniteSets

CONSTANTS History, Overview,   \* the entities project-history, project-overview
          Ledger,              \* the hidden file .session-reviewer/ledger.json
          Units,               \* the units of a document that people edit
          Tampered,            \* a vault ledger that somebody changed
          None,                \* an absent file, an empty hash, no value
          MaxSaves,            \* bound: saves by people
          MaxFaults,           \* bound: crashes and failed writes
          Counted              \* the known losses (see Forgiven) to be counted

\* The two documents differ, and neither an absent file nor the ledger's name
\* is a text or a conflict record.
ASSUME SyncAssumption ==
    LET texts == [units : [Units -> Nat], rev : Nat \ {0}]
        some == texts \cup {None}
    IN /\ MaxSaves \in Nat /\ MaxFaults \in Nat
       /\ History # Overview
       /\ None \notin texts \cup [accepted : some]
       /\ Ledger \notin [entity : {History, Overview}, base : some,
                          project : some, vault : some]

Entities == {History, Overview}
Sides == {"project", "vault"}
Stages == <<"planned", "project_written", "vault_written", "base_committed">>
Docs == [units : [Units -> 0 .. MaxSaves], rev : Nat \ {0}]

VARIABLES
    doc,       \* doc[s][e]: the document of entity e on side s
    base,      \* base[e]: the merge base
    hidden,    \* hidden[s]: the ledger and the conflict records, by file
    txn,       \* the transaction files
    pc, op,    \* where the engine is, and for which operation
    seen,      \* what the operation read and still uses
    todo,      \* entities Reconcile has yet to look at
    cur,       \* the transaction being carried out, with its text
    note,      \* Resolve: the conflict record to close after the document
    bad,       \* the report has conflicts or errors
    committed, \* an entity was written in this run
    report,    \* the last Reconcile said: current
    saves, faults,
    held,        \* edits that nobody superseded or dropped
    undisturbed, \* nobody saved since the operation began
    disturbed    \* somebody saved while a sync ran or was interrupted

world == <<doc, base, hidden, txn>>
locals == <<op, seen, todo, cur, note, bad, committed>>
people == <<saves, held, undisturbed, disturbed>>
vars == <<world, pc, locals, report, people, faults>>

-----------------------------------------------------------------------------
(* Documents and the three-way merge.                                      *)

Edits(d) == IF d = None THEN {} ELSE {d.units[u] : u \in Units} \ {0}

\* An absent candidate counts as unchanged.
Candidate(b, d) == IF d = None THEN b ELSE d

UnitClash(x, y, z) == y # x /\ z # x /\ y # z

\* A person may not change the revision (ErrProtectedProvenance).
Clash(b, p, v) ==
    IF b = None THEN None \notin {p, v} /\ p # v
    ELSE \/ \E d \in {p, v} \ {None} : d.rev # b.rev
         \/ \E u \in Units : UnitClash(b.units[u], Candidate(b, p).units[u],
                                       Candidate(b, v).units[u])

\* Mutant: an accepted merge keeps the revision of its base.
FinalizeHumanMerge_SameRevision(b, units) == [units |-> units, rev |-> b.rev]

FinalizeHumanMerge(b, units) ==
    IF units = b.units THEN b ELSE [units |-> units, rev |-> b.rev + 1]

Accepted(b, p, v) ==
    IF b = None THEN (IF p = None THEN v ELSE p)
    ELSE FinalizeHumanMerge(b, [u \in Units |->
             IF Candidate(b, p).units[u] # b.units[u]
             THEN Candidate(b, p).units[u] ELSE Candidate(b, v).units[u]])

-----------------------------------------------------------------------------
(* Files.                                                                  *)

At(s, f) == IF f \in DOMAIN hidden[s] THEN hidden[s][f] ELSE None

Put(s, f, body) ==
    hidden' = [hidden EXCEPT ![s] = [g \in DOMAIN @ \cup {f} |->
                                       IF g = f THEN body ELSE @[g]]]

After(stage) == CHOOSE t \in {Stages[i] : i \in 2 .. 4} :
                  \E i \in 1 .. 3 : Stages[i] = stage /\ Stages[i + 1] = t

Transaction(kind, of, desired, expected, p, v) ==
    [kind |-> kind, of |-> of, desired |-> desired, base |-> expected,
     project |-> p, vault |-> v, stage |-> "planned"]

Pending(kinds) == {t \in txn : t.kind \in kinds}

\* Mutant: the next stage is a file of its own.
Advance_KeepsFile ==
    LET next == [cur.t EXCEPT !.stage = After(@)]
    IN txn' = txn \cup {next} /\ cur' = [cur EXCEPT !.t = next]

\* Saving the next stage rewrites the file of the same kind and entity.
Advance ==
    LET next == [cur.t EXCEPT !.stage = After(@)]
    IN /\ txn' = (txn \ {cur.t}) \cup {next}
       /\ cur' = [cur EXCEPT !.t = next]

OpenNote == [accepted |-> None]

\* A conflict is identified by the texts that clash.
ConflictID(e, b, p, v) == [entity |-> e, base |-> b, project |-> p, vault |-> v]

-----------------------------------------------------------------------------
(* Ends of an operation: the lock is released and the locals are gone.     *)

Reset ==
    /\ pc' = "idle" /\ op' = None /\ seen' = None /\ todo' = <<>>
    /\ cur' = None /\ note' = None /\ bad' = FALSE /\ committed' = FALSE

Abort == Reset /\ UNCHANGED report

\* applyAccepted and persistConflictRecord fail for one entity, and Reconcile
\* goes on with the next; anywhere else the operation returns the error.
Fail ==
    IF cur.next = "entity"
    THEN /\ pc' = "entity" /\ bad' = TRUE /\ cur' = None
         /\ UNCHANGED <<op, seen, todo, note, committed, report>>
    ELSE Abort

Finish ==
    /\ pc = "done"
    /\ Reset
    /\ report' = (op.kind = "reconcile")
    /\ UNCHANGED <<world, people, faults>>

Begin(o) ==
    /\ pc = "idle"
    /\ op' = o
    /\ pc' = IF txn = {} THEN "ready" ELSE "authenticate"
    /\ report' = FALSE /\ undisturbed' = TRUE
    /\ UNCHANGED <<world, seen, todo, cur, note, bad, committed, saves, held,
                   disturbed, faults>>

-----------------------------------------------------------------------------
(* Recovery of transaction files.                                          *)

Authenticate ==
    /\ pc = "authenticate"
    /\ IF \E t \in Pending({"entity"}) :
            /\ t.stage # "planned"
            /\ t.desired \notin {base[t.of], doc["project"][t.of], doc["vault"][t.of]}
       THEN Abort
       ELSE pc' = "recover" /\ UNCHANGED <<locals, report>>
    /\ UNCHANGED <<world, people, faults>>

Drop(t) ==
    /\ txn' = txn \ {t}
    /\ UNCHANGED <<doc, base, hidden, pc, locals, report>>

\* The hidden files are written by one procedure, whatever they hold.
Resume(t, body, p, v, next) ==
    /\ cur' = [t |-> t, body |-> body, next |-> next,
               pre |-> [project |-> p, vault |-> v]]
    /\ pc' = "hidden"
    /\ UNCHANGED <<op, seen, todo, note, bad, committed, report>>

RecoverLedger(t) ==
    LET p == At("project", Ledger)
        v == At("vault", Ledger)
    IN IF p # t.desired
       THEN IF t.stage = "planned" /\ p = t.project
            THEN Drop(t) ELSE Abort /\ UNCHANGED world
       ELSE /\ UNCHANGED world
            /\ IF v \notin {t.vault, t.desired} THEN Abort
               ELSE Resume(t, p, p, IF t.vault = None THEN None ELSE v, "recover")

\* Mutant: a record found in the project counts as written.
RecoverRecord_ProjectOnly(t) ==
    IF At("project", t.of) = t.desired \/ t.stage = "planned"
    THEN Drop(t)
    ELSE Abort /\ UNCHANGED world

RecoverRecord(t) ==
    LET p == At("project", t.of)
        v == At("vault", t.of)
    IN IF t.desired \notin {p, v}
       THEN IF t.stage = "planned" /\ p = t.project /\ v = t.vault
            THEN Drop(t) ELSE Abort /\ UNCHANGED world
       ELSE /\ UNCHANGED world
            /\ IF \/ p \notin {None, t.desired, t.project}
                  \/ v \notin {None, t.desired, t.vault}
               THEN Abort
               ELSE Resume(t, t.desired, p, v, "recover")

\* Mutant: a planned resolution is finished whatever the document became.
RecoverResolution_Trusts(t) ==
    IF t.stage = "planned"
    THEN Resume(t, t.desired, t.base, t.base, "recover") /\ UNCHANGED world
    ELSE Abort /\ UNCHANGED world

\* The text of a resolved record is found on a side, or rebuilt from the
\* document that the resolution accepted.
RecoverResolution(t) ==
    LET p == At("project", t.of)
        v == At("vault", t.of)
        rebuilt == [accepted |-> doc["project"][t.of.entity]]
    IN IF \/ ~({p, v} \subseteq {t.base, t.desired})
          \/ t.base \notin {p, v}
       THEN Abort /\ UNCHANGED world
       ELSE IF t.desired \in {p, v, rebuilt}
       THEN Resume(t, t.desired, t.base, t.base, "recover") /\ UNCHANGED world
       ELSE IF t.stage = "planned" THEN Drop(t)
       ELSE Abort /\ UNCHANGED world

\* Mutant: a resolution is recovered before the document that it decided.
Recover_ResolutionsFirst ==
    /\ pc = "recover"
    /\ LET first == Pending({"publish", "repair", "record"})
           last == Pending({"resolve"})
       IN IF last # {} THEN \E t \in last : RecoverResolution(t)
          ELSE IF first # {}
          THEN \E t \in first :
                 IF t.kind = "record" THEN RecoverRecord(t) ELSE RecoverLedger(t)
          ELSE IF Pending({"entity"}) # {}
          THEN /\ seen' = [doc |-> doc, base |-> base]
               /\ pc' = "recoverEntity"
               /\ UNCHANGED <<world, op, todo, cur, note, bad, committed, report>>
          ELSE /\ pc' = "ready" /\ seen' = None
               /\ UNCHANGED <<world, op, todo, cur, note, bad, committed, report>>
    /\ UNCHANGED <<people, faults>>

Recover ==
    /\ pc = "recover"
    /\ LET first == Pending({"publish", "repair", "record"})
           last == Pending({"resolve"})
       IN IF first # {}
          THEN \E t \in first :
                 IF t.kind = "record" THEN RecoverRecord(t) ELSE RecoverLedger(t)
          ELSE IF Pending({"entity"}) # {}
          THEN /\ seen' = [doc |-> doc, base |-> base]
               /\ pc' = "recoverEntity"
               /\ UNCHANGED <<world, op, todo, cur, note, bad, committed, report>>
          ELSE IF last # {} THEN \E t \in last : RecoverResolution(t)
          ELSE /\ pc' = "ready" /\ seen' = None
               /\ UNCHANGED <<world, op, todo, cur, note, bad, committed, report>>
    /\ UNCHANGED <<people, faults>>

\* Mutant: a plan that nothing followed is an error.
RecoverEntity_KeepsPlans ==
    /\ pc = "recoverEntity"
    /\ IF Pending({"entity"}) = {}
       THEN pc' = "recover" /\ UNCHANGED <<world, locals, report>>
       ELSE \E t \in Pending({"entity"}) :
              LET b == seen.base[t.of]
                  at == [s \in Sides |-> seen.doc[s][t.of]]
              IN IF b = t.desired THEN Drop(t)
                 ELSE IF b # None /\ b # t.base THEN Abort /\ UNCHANGED world
                 ELSE IF t.desired \notin {at["project"], at["vault"]}
                 THEN Abort /\ UNCHANGED world
                 ELSE /\ cur' = [t |-> t, body |-> t.desired, pre |-> at,
                                 write |-> {s \in Sides : at[s] # t.desired},
                                 side |-> "project", next |-> "recoverEntity"]
                      /\ pc' = "write"
                      /\ UNCHANGED <<world, op, seen, todo, note, bad,
                                     committed, report>>
    /\ UNCHANGED <<people, faults>>

\* The desired text is taken from whichever side has it.
RecoverEntity ==
    /\ pc = "recoverEntity"
    /\ IF Pending({"entity"}) = {}
       THEN pc' = "recover" /\ UNCHANGED <<world, locals, report>>
       ELSE \E t \in Pending({"entity"}) :
              LET b == seen.base[t.of]
                  at == [s \in Sides |-> seen.doc[s][t.of]]
              IN IF b = t.desired THEN Drop(t)
                 ELSE IF b # None /\ b # t.base THEN Abort /\ UNCHANGED world
                 ELSE IF t.desired \notin {at["project"], at["vault"]}
                 THEN IF t.stage = "planned" THEN Drop(t)
                      ELSE Abort /\ UNCHANGED world
                 ELSE /\ cur' = [t |-> t, body |-> t.desired, pre |-> at,
                                 write |-> {s \in Sides : at[s] # t.desired},
                                 side |-> "project", next |-> "recoverEntity"]
                      /\ pc' = "write"
                      /\ UNCHANGED <<world, op, seen, todo, note, bad,
                                     committed, report>>
    /\ UNCHANGED <<people, faults>>

-----------------------------------------------------------------------------
(* Writing one document to both sides and to the base.                     *)

Recovering == cur.next = "recoverEntity"

\* applyAccepted saves its transaction before anything else.
Plan(e, body, p, v, next) ==
    LET t == Transaction("entity", e, body, base[e], p, v)
    IN /\ txn' = txn \cup {t}
       /\ cur' = [t |-> t, body |-> body, next |-> next, side |-> "project",
                  pre |-> [project |-> p, vault |-> v],
                  write |-> IF next = "entity"
                            THEN {s \in Sides : t[s] # body} ELSE Sides]
       /\ pc' = "write"

\* Mutant: recovery overwrites a side whatever it holds.
ChangedSincePlan_Never(s) == FALSE

\* In recovery: a side that is neither what the plan saw nor what it wants.
ChangedSincePlan(s) ==
    LET e == cur.t.of
        now == cur.pre[s]
    IN now # None /\ IF cur.t[s] # None THEN now # cur.t[s]
                     ELSE seen.base[e] # None /\ now # seen.base[e]

NextSide ==
    IF cur.side = "project"
    THEN cur' = [cur EXCEPT !.side = "vault"] /\ pc' = "write"
    ELSE pc' = "commit" /\ UNCHANGED cur

Written == IF Recovering THEN NextSide ELSE pc' = "verify" /\ UNCHANGED cur

\* WriteIfUnchanged compares the file with the preimage ...
Write ==
    /\ pc = "write"
    /\ LET s == cur.side
       IN IF s \notin cur.write
          THEN Written /\ UNCHANGED <<op, seen, todo, note, bad, committed, report>>
          ELSE IF \/ Recovering /\ ChangedSincePlan(s)
                  \/ doc[s][cur.t.of] # cur.pre[s]
          THEN Fail
          ELSE pc' = "replace" /\ UNCHANGED <<locals, report>>
    /\ UNCHANGED <<world, people, faults>>

\* ... and renames the new file over whatever is there by then.
Forgiven(s) ==
    LET now == doc[s][cur.t.of]
    IN (IF "replace" \notin Counted /\ now # cur.pre[s] THEN Edits(now) ELSE {})
       \cup
       (IF /\ "create" \notin Counted /\ Recovering
           /\ cur.t[s] = None /\ base[cur.t.of] = None
        THEN Edits(now) ELSE {})

Replace ==
    /\ pc = "replace"
    /\ doc' = [doc EXCEPT ![cur.side][cur.t.of] = cur.body]
    /\ held' = held \ (Forgiven(cur.side) \ Edits(cur.body))
    /\ Written
    /\ UNCHANGED <<base, hidden, txn, op, seen, todo, note, bad, committed,
                   report, saves, undisturbed, disturbed, faults>>

Verify ==
    /\ pc = "verify"
    /\ IF doc[cur.side][cur.t.of] # cur.body
       THEN Fail /\ UNCHANGED txn
       ELSE /\ LET next == [cur.t EXCEPT !.stage = After(@)]
               IN /\ txn' = (txn \ {cur.t}) \cup {next}
                  /\ cur' = [cur EXCEPT !.t = next, !.side = "vault"]
            /\ pc' = IF cur.side = "project" THEN "write" ELSE "commit"
            /\ UNCHANGED <<op, seen, todo, note, bad, committed, report>>
    /\ UNCHANGED <<doc, base, hidden, people, faults>>

Commit ==
    /\ pc = "commit"
    /\ IF base[cur.t.of] # cur.t.base
       THEN Fail /\ UNCHANGED base
       ELSE /\ base' = [base EXCEPT ![cur.t.of] = cur.body]
            /\ pc' = IF Recovering THEN "remove" ELSE "seal"
            /\ UNCHANGED <<locals, report>>
    /\ UNCHANGED <<doc, hidden, txn, people, faults>>

Seal ==
    /\ pc = "seal"
    /\ Advance
    /\ pc' = "remove"
    /\ UNCHANGED <<doc, base, hidden, op, seen, todo, note, bad, committed,
                   report, people, faults>>

Remove ==
    /\ pc = "remove"
    /\ txn' = txn \ {cur.t}
    /\ IF cur.next = "note"
       THEN cur' = note /\ pc' = "hidden"
       ELSE cur' = None /\ pc' = cur.next
    /\ UNCHANGED <<doc, base, hidden, op, seen, todo, note, bad, committed,
                   report, people, faults>>

-----------------------------------------------------------------------------
(* Writing one hidden file to both sides.                                  *)

HiddenSide == IF cur.t.stage = "planned" THEN "project" ELSE "vault"

HiddenWrite ==
    /\ pc = "hidden" /\ cur.t.stage \in {"planned", "project_written"}
    /\ LET now == At(HiddenSide, cur.t.of)
       IN IF now \notin {cur.body, cur.pre[HiddenSide]}
          THEN Fail /\ UNCHANGED hidden
          ELSE /\ Put(HiddenSide, cur.t.of, cur.body)
               /\ pc' = "hiddenStage"
               /\ UNCHANGED <<locals, report>>
    /\ UNCHANGED <<doc, base, txn, people, faults>>

HiddenStage ==
    /\ pc = "hiddenStage"
    /\ IF At(HiddenSide, cur.t.of) # cur.body
       THEN Fail /\ UNCHANGED txn
       ELSE /\ Advance /\ pc' = "hidden"
            /\ UNCHANGED <<op, seen, todo, note, bad, committed, report>>
    /\ UNCHANGED <<doc, base, hidden, people, faults>>

HiddenVerify ==
    /\ pc = "hidden" /\ cur.t.stage \in {"vault_written", "base_committed"}
    /\ IF \E s \in Sides : At(s, cur.t.of) # cur.body
       THEN Fail /\ UNCHANGED txn
       ELSE IF cur.t.stage = "vault_written"
       THEN /\ Advance
            /\ UNCHANGED <<pc, op, seen, todo, note, bad, committed, report>>
       ELSE /\ txn' = txn \ {cur.t}
            /\ pc' = cur.next /\ cur' = None
            /\ UNCHANGED <<op, seen, todo, note, bad, committed, report>>
    /\ UNCHANGED <<doc, base, hidden, people, faults>>

-----------------------------------------------------------------------------
(* Reconcile.                                                              *)

LedgerOf(docs, stamp) ==
    [rev |-> docs[Overview].rev, docs |-> docs, stamp |-> stamp]

OneRevision(docs) == /\ None \notin {docs[e] : e \in Entities}
                     /\ docs[Overview].rev = docs[History].rev

\* Mutant: only a commit of this run renews the ledger.
BehindProject_Never(ledger) == FALSE

BehindProject(ledger) ==
    /\ OneRevision(doc["project"])
    /\ LedgerOf(doc["project"], ledger.stamp) # ledger

\* Reconcile and Resolve stop at a changed vault ledger; repair needs one.
Snapshot ==
    /\ pc = "ready"
    /\ LET p == At("project", Ledger)
           v == At("vault", Ledger)
           t == Transaction("repair", Ledger, p, p, p, v)
       IN CASE op.kind = "repair" /\ v \notin {None, p} ->
                 /\ txn' = txn \cup {t}
                 /\ cur' = [t |-> t, body |-> p, next |-> "done",
                            pre |-> [project |-> p, vault |-> v]]
                 /\ pc' = "hidden"
                 /\ UNCHANGED <<op, seen, todo, note, bad, committed, report>>
            [] op.kind # "repair" /\ v \in {None, p} ->
                 /\ seen' = [project |-> p, vault |-> v, stale |-> BehindProject(p)]
                 /\ pc' = "scan"
                 /\ UNCHANGED <<txn, op, todo, cur, note, bad, committed, report>>
            [] OTHER -> Abort /\ UNCHANGED txn
    /\ UNCHANGED <<doc, base, hidden, people, faults>>

\* Both trees and the merge bases are read once for the whole run.
Scan ==
    /\ pc = "scan"
    /\ seen' = [project |-> seen.project, vault |-> seen.vault,
                stale |-> seen.stale, doc |-> doc, base |-> base]
    /\ IF op.kind = "resolve" THEN pc' = "choose" /\ UNCHANGED todo
       ELSE pc' = "entity" /\ todo' = <<History, Overview>>
    /\ UNCHANGED <<world, op, cur, note, bad, committed, report, people, faults>>

SeenClash(e) ==
    Clash(seen.base[e], seen.doc["project"][e], seen.doc["vault"][e])

\* persistConflictRecord: the record must be open wherever it exists already.
PersistConflictRecord(e) ==
    LET p == seen.doc["project"][e]
        v == seen.doc["vault"][e]
        id == ConflictID(e, seen.base[e], p, v)
        at == [s \in Sides |-> At(s, id)]
        t == Transaction("record", id, OpenNote, OpenNote, at["project"], at["vault"])
    IN /\ bad' = TRUE
       /\ IF None \in {at["project"], at["vault"]}
             /\ {at["project"], at["vault"]} \subseteq {None, OpenNote}
          THEN /\ txn' = txn \cup {t}
               /\ cur' = [t |-> t, body |-> OpenNote, next |-> "entity", pre |-> at]
               /\ pc' = "hidden"
          ELSE UNCHANGED <<txn, cur, pc>>

\* A document that is nowhere is not looked at.
Entity ==
    /\ pc = "entity" /\ todo # <<>>
    /\ todo' = Tail(todo)
    /\ LET e == Head(todo)
           p == seen.doc["project"][e]
           v == seen.doc["vault"][e]
           body == Accepted(seen.base[e], p, v)
       IN IF SeenClash(e)
          THEN PersistConflictRecord(e) /\ UNCHANGED committed
          ELSE IF body = None \/ (p = body /\ v = body /\ seen.base[e] # None)
          THEN UNCHANGED <<txn, pc, cur, bad, committed>>
          ELSE /\ Plan(e, body, p, v, "entity")
               /\ committed' = TRUE
               /\ UNCHANGED bad
    /\ UNCHANGED <<doc, base, hidden, op, seen, note, report, people, faults>>

EndEntities ==
    /\ pc = "entity" /\ todo = <<>>
    /\ IF bad THEN Abort
       ELSE pc' = "align" /\ UNCHANGED <<locals, report>>
    /\ UNCHANGED <<world, people, faults>>

Behind ==
    {e \in Entities : \E f \in Entities : doc["project"][e].rev < doc["project"][f].rev}

Lifted(e) ==
    LET now == doc["project"]
        top == CHOOSE r \in {now[f].rev : f \in Entities} : r # now[e].rev
    IN [now[e] EXCEPT !.rev = top]

\* The document that is behind takes the higher revision.  It is read again
\* from the project alone and written to both sides.  Nothing compares it with
\* the merge base: one put back to an older revision is lifted to a revision
\* that may be that of another text, and no edit of the document is safe then.
Lift(e) ==
    IF base[e] = None THEN Abort /\ UNCHANGED <<txn, held>>
    ELSE /\ Plan(e, Lifted(e), doc["project"][e], doc["vault"][e], "publish")
         /\ committed' = TRUE
         /\ held' = IF "align" \in Counted THEN held
                    ELSE IF doc["project"][e].rev < base[e].rev
                    THEN held \ UNION {Edits(d) : d \in
                                         {doc["project"][e], doc["vault"][e], base[e]}}
                    ELSE held \ (Edits(doc["vault"][e]) \ Edits(Lifted(e)))
         /\ UNCHANGED <<op, seen, todo, note, bad, report>>

Align ==
    /\ pc = "align"
    /\ IF None \in {doc[s][e] : s \in Sides, e \in Entities}
       THEN Abort /\ UNCHANGED <<txn, held>>
       ELSE IF Behind = {}
       THEN pc' = "publish" /\ UNCHANGED <<txn, locals, report, held>>
       ELSE \E e \in Behind : Lift(e)
    /\ UNCHANGED <<doc, base, hidden, saves, undisturbed, disturbed, faults>>

Publish ==
    /\ pc = "publish"
    /\ LET docs == doc["project"]
           renew == committed \/ seen.stale
           body == IF renew THEN LedgerOf(docs, seen.project.stamp + 1)
                            ELSE seen.project
           t == Transaction("publish", Ledger, body, seen.project,
                            seen.project, seen.vault)
       IN IF ~renew /\ seen.vault # None
          THEN pc' = "done" /\ UNCHANGED <<txn, locals, report>>
          ELSE IF \/ At("project", Ledger) # seen.project
                  \/ renew /\ ~OneRevision(docs)
          THEN Abort /\ UNCHANGED txn
          ELSE /\ txn' = txn \cup {t}
               /\ cur' = [t |-> t, body |-> body, next |-> "done",
                          pre |-> [project |-> seen.project, vault |-> seen.vault]]
               /\ pc' = "hidden"
               /\ UNCHANGED <<op, seen, todo, note, bad, committed, report>>
    /\ UNCHANGED <<doc, base, hidden, people, faults>>

-----------------------------------------------------------------------------
(* Resolve: a person chose a side, or wrote a merge of both, for a recorded *)
(* conflict that is still the present one.                                  *)

Choices(p, v) ==
    {[p EXCEPT !.units = mix] :
       mix \in {m \in [Units -> 0 .. MaxSaves] :
                  \A u \in Units : m[u] \in {p.units[u], v.units[u]}}}

Resolvable(id) ==
    LET e == id.entity
    IN /\ At("project", id) = OpenNote /\ At("vault", id) = OpenNote
       /\ seen.base[e] # None /\ seen.base[e] = id.base
       /\ seen.doc["project"][e] = id.project
       /\ seen.doc["vault"][e] = id.vault
       /\ None \notin {id.project, id.vault}
       /\ id.project.rev = id.base.rev /\ id.vault.rev = id.base.rev
       /\ SeenClash(e)

\* The resolution of the record is announced before the document is written.
Choose ==
    /\ pc = "choose"
    /\ LET id == op.id
           others == \E e \in Entities \ {id.entity} :
                        seen.base[e] # None /\ SeenClash(e)
       IN IF ~Resolvable(id) THEN Abort /\ UNCHANGED <<txn, held>>
          ELSE \E choice \in Choices(id.project, id.vault) :
                 LET body == FinalizeHumanMerge(id.base, choice.units)
                     t == Transaction("resolve", id, [accepted |-> body],
                                      OpenNote, OpenNote, OpenNote)
                 IN /\ txn' = txn \cup {t}
                    /\ note' = [t |-> t, body |-> [accepted |-> body],
                                pre |-> [project |-> OpenNote, vault |-> OpenNote],
                                next |-> IF others THEN "done" ELSE "align"]
                    /\ held' = held \ ((Edits(id.project) \cup Edits(id.vault))
                                         \ Edits(body))
                    /\ pc' = "resolve"
                    /\ UNCHANGED <<op, seen, todo, cur, bad, committed, report>>
    /\ UNCHANGED <<doc, base, hidden, saves, undisturbed, disturbed, faults>>

ResolveDocument ==
    /\ pc = "resolve"
    /\ LET id == op.id
       IN Plan(id.entity, note.body.accepted, id.project, id.vault, "note")
    /\ committed' = TRUE
    /\ UNCHANGED <<doc, base, hidden, op, seen, todo, note, bad, report,
                   people, faults>>

-----------------------------------------------------------------------------
(* People, and faults.                                                     *)

Save(s, e, d, dropped) ==
    /\ saves < MaxSaves /\ saves' = saves + 1
    /\ doc' = [doc EXCEPT ![s][e] = d]
    /\ held' = (held \ dropped) \cup (Edits(d) \cap {saves'})
    /\ undisturbed' = FALSE
    /\ disturbed' = (disturbed \/ pc # "idle" \/ txn # {})
    /\ report' = FALSE
    /\ UNCHANGED <<base, hidden, txn, pc, locals, faults>>

Edit(s, e, u) ==
    /\ doc[s][e] # None
    /\ Save(s, e, [doc[s][e] EXCEPT !.units[u] = saves + 1], {doc[s][e].units[u]})

Delete(s, e) ==
    /\ doc[s][e] # None
    /\ \E o \in Sides \ {s} : Save(s, e, None, Edits(doc[s][e]) \ Edits(doc[o][e]))

\* A deleted, or not yet synced, document comes back as an edited copy.
Recreate(s, e, u) ==
    /\ doc[s][e] = None
    /\ \E o \in Sides \ {s} :
         LET copy == IF base[e] = None THEN doc[o][e] ELSE base[e]
         IN /\ copy # None
            /\ Save(s, e, [copy EXCEPT !.units[u] = saves + 1], {copy.units[u]})

TamperLedger ==
    /\ saves < MaxSaves /\ saves' = saves + 1
    /\ At("vault", Ledger) # None
    /\ Put("vault", Ledger, Tampered)
    /\ undisturbed' = FALSE
    /\ disturbed' = (disturbed \/ pc # "idle" \/ txn # {})
    /\ report' = FALSE
    /\ UNCHANGED <<doc, base, txn, pc, locals, held, faults>>

People == \/ \E s \in Sides, e \in Entities :
               \/ Delete(s, e)
               \/ \E u \in Units : Edit(s, e, u) \/ Recreate(s, e, u)
          \/ TamperLedger

\* A resolution that stops when both records are closed is never finished.
HalfClosed == \E t \in Pending({"resolve"}) : \A s \in Sides : At(s, t.of) = t.desired

Crash ==
    /\ pc # "idle" /\ faults < MaxFaults /\ faults' = faults + 1
    /\ Abort
    /\ disturbed' = (disturbed \/ ("resolution" \notin Counted /\ HalfClosed))
    /\ UNCHANGED <<world, saves, held, undisturbed>>

\* A write that still fails after its retries.
WriteFails ==
    /\ pc \in {"write", "replace"} \/ (pc = "hidden" /\ cur.t.stage # "base_committed")
    /\ faults < MaxFaults /\ faults' = faults + 1
    /\ Fail
    /\ disturbed' = (disturbed \/ ("resolution" \notin Counted /\ HalfClosed))
    /\ UNCHANGED <<world, saves, held, undisturbed>>

-----------------------------------------------------------------------------
Init ==
    LET fresh == [e \in Entities |-> [units |-> [u \in Units |-> 0], rev |-> 1]]
        none == [e \in Entities |-> None]
    IN /\ doc = [s \in Sides |-> IF s = "project" THEN fresh ELSE none]
       /\ base = none
       /\ hidden = [s \in Sides |->
                      IF s = "project" THEN [f \in {Ledger} |-> LedgerOf(fresh, 0)]
                                       ELSE [f \in {} |-> None]]
       /\ txn = {}
       /\ pc = "idle" /\ op = None /\ seen = None /\ todo = <<>>
       /\ cur = None /\ note = None /\ bad = FALSE /\ committed = FALSE
       /\ report = FALSE /\ saves = 0 /\ faults = 0 /\ held = {}
       /\ undisturbed = TRUE /\ disturbed = FALSE

Reconcile == Begin([kind |-> "reconcile"])

Resolve == \E id \in DOMAIN hidden["project"] \ {Ledger} :
             Begin([kind |-> "resolve", id |-> id])

RepairMachineLedger == Begin([kind |-> "repair"])

Engine ==
    \/ Authenticate \/ Recover \/ RecoverEntity
    \/ Snapshot \/ Scan \/ Entity \/ EndEntities \/ Align \/ Publish \/ Finish
    \/ Choose \/ ResolveDocument
    \/ Write \/ Replace \/ Verify \/ Commit \/ Seal \/ Remove
    \/ HiddenWrite \/ HiddenStage \/ HiddenVerify

Next == \/ Engine \/ Reconcile \/ Resolve \/ RepairMachineLedger
        \/ People \/ Crash \/ WriteFails

Spec == Init /\ [][Next]_vars

\* A started operation runs on; the periodic trigger starts the next one.
Fairness == WF_vars(Engine) /\ WF_vars(Reconcile)

FairSpec == Spec /\ Fairness

-----------------------------------------------------------------------------
(* Properties.                                                             *)

\* Types, and at most one transaction file for an entity or hidden file.
TypeOK ==
    /\ doc \in [Sides -> [Entities -> Docs \cup {None}]]
    /\ base \in [Entities -> Docs \cup {None}]
    /\ \A t \in txn : t.stage \in {Stages[i] : i \in 1 .. 4}
    /\ \A t1, t2 \in txn : t1.kind = t2.kind /\ t1.of = t2.of => t1 = t2
    /\ saves \in 0 .. MaxSaves /\ faults \in 0 .. MaxFaults
    /\ held \subseteq 1 .. MaxSaves

\* An edit that nobody replaced, deleted or decided against is in the project
\* or in the vault, whatever the engine, the crashes and other saves do.
EditsKept ==
    \A n \in held : \E s \in Sides, e \in Entities : n \in Edits(doc[s][e])

\* When Reconcile reports current and nobody saved meanwhile, both sides and
\* the merge base hold the same documents, and both ledgers name them.  When no
\* transaction is pending, both sides hold the same conflict records: a crash
\* between the two writes never leaves a half-published record behind.
SidesAgree ==
    /\ report /\ undisturbed =>
         /\ \A e \in Entities :
               doc["project"][e] = base[e] /\ doc["vault"][e] = base[e]
         /\ At("project", Ledger) = At("vault", Ledger)
         /\ LedgerOf(base, At("project", Ledger).stamp) = At("project", Ledger)
    /\ txn = {} => \A id \in (DOMAIN hidden["project"] \cup DOMAIN hidden["vault"])
                              \ {Ledger} :
                     At("project", id) = At("vault", id)

\* Align accepted a project document that somebody put back to an older
\* revision than the merge base while the sync ran.
Lowered(e) == cur.t.project # None /\ cur.t.project.rev < base[e].rev

\* A new merge base has a higher revision, so that a revision names one text
\* (but for Lowered); and a record is closed only with the text that became the
\* merge base.
BasesAreFinal ==
    [][/\ \A e \in Entities :
            base[e] # None /\ base'[e] # base[e] =>
               base'[e].rev > base[e].rev \/ Lowered(e)
       /\ \A s \in Sides : \A id \in DOMAIN hidden'[s] \ {Ledger} :
            /\ hidden'[s][id] # At(s, id)
            /\ hidden'[s][id] # OpenNote
            => base[id.entity] = hidden'[s][id].accepted]_vars

\* What is pending, as AtomicSync sees it.
Plans == {[of |-> t.of, from |-> t.base, to |-> t.desired] : t \in Pending({"entity"})}

Decisions == {[id |-> t.of, text |-> t.desired.accepted] : t \in Pending({"resolve"})}

Records == [id \in DOMAIN hidden["project"] \ {Ledger} |-> hidden["project"][id].accepted]

Agreement == INSTANCE AtomicSync WITH
    Texts <- Docs, plans <- Plans, records <- Records, decisions <- Decisions

\* Merge bases and conflict records change as AtomicSync promises: a base by the
\* change announced for it, under a decision by that decision alone, and a record
\* is closed once, by it.
ImplementsAtomicSync == Agreement!Spec

\* Recovery drops a resolution whose record is open only if its document was
\* never committed, as the comment at conflict.go:853 has it.  It is not so when
\* the project's document was saved after the commit.
DroppedUncommitted ==
    [][\A d \in Decisions \ Decisions' :
          Records[d.id] = None => base[d.id.entity] # d.text]_vars

\* Whatever crashes and failed writes leave behind, later runs clear it, as
\* long as nobody saves while a sync runs or is interrupted.
Settles == []<>(txn = {} \/ disturbed)
=============================================================================
