-------------------------- MODULE EntitySyncProofs --------------------------
(***************************************************************************)
(* Proofs about EntitySync, for any units and bounds: its types and the one *)
(* transaction file of each document or record, merge bases and closed      *)
(* records that are final, sides that agree, edits that are kept, and the   *)
(* refinement of AtomicSync.                                               *)
(***************************************************************************)
EXTENDS EntitySync, TLAPS

\* The texts written so far: every unit comes from an edit already made.
Texts == [units : [Units -> 0 .. saves], rev : Nat \ {0}]
Maybe == Texts \cup {None}
Bases == [Entities -> Maybe]
Trees == [Sides -> [Entities -> Maybe]]
Ids == [entity : Entities, base : Maybe, project : Maybe, vault : Maybe]

World ==
    /\ doc \in Trees
    /\ base \in Bases
    /\ DOMAIN hidden = Sides
    /\ \A s \in Sides : DOMAIN hidden[s] \subseteq {Ledger} \cup Ids
    /\ saves \in 0 .. MaxSaves /\ faults \in 0 .. MaxFaults
    /\ held \subseteq 1 .. MaxSaves

-----------------------------------------------------------------------------
(* Transaction files.                                                      *)

StageNames == {"planned", "project_written", "vault_written", "base_committed"}

Close(body) == body = [accepted |-> body.accepted] /\ body.accepted \in Texts

File(t) ==
    /\ t = [kind |-> t.kind, of |-> t.of, desired |-> t.desired, base |-> t.base,
            project |-> t.project, vault |-> t.vault, stage |-> t.stage]
    /\ t.stage \in StageNames
    /\ \/ /\ t.kind = "entity" /\ t.of \in Entities /\ t.desired \in Texts
          /\ t.base \in Maybe /\ t.project \in Maybe /\ t.vault \in Maybe
       \/ t.kind \in {"publish", "repair"} /\ t.of = Ledger
       \/ t.kind = "record" /\ t.of \in Ids \ {Ledger} /\ t.desired = OpenNote
       \/ /\ t.kind = "resolve" /\ t.of \in Ids \ {Ledger}
          /\ Close(t.desired) /\ t.base = OpenNote

Keyed == \A t1, t2 \in txn : t1.kind = t2.kind /\ t1.of = t2.of => t1 = t2

\* The text planned for a document raises the revision of the merge base, or
\* it lifts a project document that had fallen behind the merge base.
Raises(t) ==
    t.kind = "entity" /\ t.base # None =>
       \/ t.desired = t.base
       \/ t.desired.rev > t.base.rev
       \/ t.project # None /\ t.project.rev < t.base.rev

\* Beside a resolution only the document it decides is on its way, and until
\* that document is the merge base the records stay open and no side has it.
Undecided(t) ==
    \A s \in Sides : /\ At(s, t.of) = OpenNote
                     /\ doc[s][t.of.entity] = t.desired.accepted =>
                           \E f \in txn : f.kind = "entity"
Decides(t) ==
    t.kind = "resolve" =>
       /\ \A f \in txn : f.kind = "entity" =>
             f.of = t.of.entity /\ f.desired = t.desired.accepted
       /\ base[t.of.entity] = t.desired.accepted \/ Undecided(t)

Files == Keyed /\ \A t \in txn : File(t) /\ Raises(t) /\ Decides(t)

-----------------------------------------------------------------------------
(* The engine.                                                             *)

Quiet == {"ready", "scan", "choose", "align", "publish", "done"}
Writing == {"write", "replace", "verify", "commit", "seal", "remove"}
Hiding == {"hidden", "hiddenStage"}
Places == {"idle", "authenticate", "recover", "recoverEntity", "entity", "resolve"}
             \cup Quiet \cup Writing \cup Hiding

Asked ==
    /\ op.kind \in {"reconcile", "resolve", "repair"}
    /\ op.kind = "resolve" => op.id \in Ids \ {Ledger}

\* The entities Reconcile has yet to look at, and the files of the others.
Rest == {todo[i] : i \in DOMAIN todo}
Subject(t) == IF t.kind = "entity" THEN t.of ELSE t.of.entity

Left(files) ==
    /\ \A t \in files : t.kind \in {"entity", "record"} /\ Subject(t) \notin Rest
    /\ files # {} => bad

Walking ==
    /\ todo \in {<<History, Overview>>, <<Overview>>, <<>>}
    /\ seen.doc \in Trees /\ seen.base \in Bases
    /\ \A e \in Rest : base[e] = seen.base[e]

\* What recovery saw of the documents whose transactions are left.
Looking(files) ==
    /\ seen.doc \in Trees /\ seen.base \in Bases
    /\ \A t \in files : t.kind = "entity" =>
          /\ base[t.of] = seen.base[t.of]
          /\ \A s \in Sides : doc[s][t.of] = t.desired => seen.doc[s][t.of] = t.desired

\* Nobody writes a revision, so no side is ahead of what was seen.
Choosing ==
    /\ op.kind = "resolve" /\ seen.doc \in Trees /\ seen.base = base
    /\ \A s \in Sides, e \in Entities : base[e] # None /\ doc[s][e] # None =>
          \/ doc[s][e].rev = base[e].rev
          \/ seen.doc[s][e] # None /\ doc[s][e].rev = seen.doc[s][e].rev

\* The record that is closed after its document.
Noted ==
    /\ note = [t |-> note.t, body |-> note.body, pre |-> note.pre, next |-> note.next]
    /\ note.t \in txn /\ note.t.kind = "resolve" /\ note.body = note.t.desired
    /\ note.next \in {"done", "align"}
    /\ op.kind = "resolve"

Resolving ==
    /\ Noted /\ txn = {note.t} /\ note.t.of = op.id
    /\ base[op.id.entity] # None
    /\ note.body.accepted.rev > base[op.id.entity].rev

WritingStage ==
    /\ pc \in {"write", "replace", "verify"} =>
          cur.t.stage = IF cur.side = "project" THEN "planned" ELSE "project_written"
    /\ pc \in {"commit", "seal"} => cur.t.stage = "vault_written"

WritingOK ==
    /\ cur = [t |-> cur.t, body |-> cur.body, next |-> cur.next, side |-> cur.side,
              pre |-> cur.pre, write |-> cur.write]
    /\ cur.t \in txn /\ cur.t.kind = "entity" /\ cur.body = cur.t.desired
    /\ cur.side \in Sides
    /\ cur.next \in {"entity", "publish", "note", "recoverEntity"}
    /\ pc \in {"seal", "remove"} => base[cur.t.of] = cur.body
    /\ cur.next = "recoverEntity" =>
          pc \notin {"verify", "seal"} /\ Looking(txn \ {cur.t})
    /\ cur.next # "recoverEntity" => WritingStage
    /\ cur.next = "entity" =>
          Walking /\ Left(txn \ {cur.t}) /\ cur.t.of \notin Rest
    /\ cur.next = "publish" => txn = {cur.t}
    /\ cur.next = "note" => Noted /\ txn = {cur.t, note.t}

HidingOK ==
    /\ cur = [t |-> cur.t, body |-> cur.body, next |-> cur.next, pre |-> cur.pre]
    /\ cur.t \in txn /\ cur.t.kind # "entity"
    /\ cur.t.kind \in {"record", "resolve"} => cur.body = cur.t.desired
    /\ cur.t.kind = "resolve" => base[cur.t.of.entity] = cur.body.accepted
    /\ cur.next \in {"recover", "entity", "done", "align"}
    /\ pc = "hiddenStage" => cur.t.stage \in {"planned", "project_written"}
    /\ cur.next = "entity" =>
          /\ cur.t.kind = "record" /\ bad
          /\ Walking /\ Left(txn \ {cur.t}) /\ Subject(cur.t) \notin Rest
    /\ cur.next \in {"done", "align"} => txn = {cur.t}

Engaged ==
    /\ pc \in Places
    /\ pc # "idle" => Asked
    /\ pc \in Quiet => txn = {}
    /\ pc = "choose" => Choosing
    /\ pc = "resolve" => Resolving
    /\ pc = "entity" => Walking /\ Left(txn)
    /\ pc = "recoverEntity" => Looking(txn)
    /\ pc \in Writing => WritingOK
    /\ pc \in Hiding => HidingOK

Inv == World /\ Files /\ Engaged

-----------------------------------------------------------------------------
(* Stages, texts and files. *)

LEMMA StageSet == StageNames = {Stages[i] : i \in 1 .. 4}
  BY DEF StageNames, Stages

\* The stage after each of the first three.
LEMMA NextStage ==
    /\ After("planned") = "project_written"
    /\ After("project_written") = "vault_written"
    /\ After("vault_written") = "base_committed"
  <1> DEFINE S == {Stages[i] : i \in 2 .. 4}
             P(x, t) == \E i \in 1 .. 3 : Stages[i] = x /\ Stages[i + 1] = t
  <1>1. S = {"project_written", "vault_written", "base_committed"}
    BY DEF Stages
  <1>2. \A x, t : P(x, t) <=> \/ x = "planned" /\ t = "project_written"
                              \/ x = "project_written" /\ t = "vault_written"
                              \/ x = "vault_written" /\ t = "base_committed"
    BY DEF Stages
  <1>3. \A x : After(x) = CHOOSE t \in S : P(x, t)
    BY DEF After
  <1> HIDE DEF S, P
  <1>4. (CHOOSE t \in S : P("planned", t)) = "project_written"
    BY <1>1, <1>2
  <1>5. (CHOOSE t \in S : P("project_written", t)) = "vault_written"
    BY <1>1, <1>2
  <1>6. (CHOOSE t \in S : P("vault_written", t)) = "base_committed"
    BY <1>1, <1>2
  <1> QED BY <1>3, <1>4, <1>5, <1>6

\* What SyncAssumption says, in the names of this module.
LEMMA Distinct ==
    /\ MaxSaves \in Nat /\ MaxFaults \in Nat /\ History # Overview
    /\ saves \in Nat => None \notin Texts /\ Ledger \notin Ids
  <1> SUFFICES ASSUME saves \in Nat PROVE None \notin Texts /\ Ledger \notin Ids
    BY SyncAssumption
  <1> DEFINE all == [units : [Units -> Nat], rev : Nat \ {0}]
             some == all \cup {None}
             ids == [entity : {History, Overview}, base : some,
                     project : some, vault : some]
  <1>1. Texts \subseteq all
    <2> SUFFICES ASSUME NEW d \in Texts PROVE d \in all
      OBVIOUS
    <2>1. d = [units |-> d.units, rev |-> d.rev] /\ d.units \in [Units -> 0 .. saves]
          /\ d.rev \in Nat \ {0}
      BY DEF Texts
    <2>2. d.units \in [Units -> Nat]
      BY <2>1
    <2> QED BY <2>1, <2>2
  <1>2. None \notin all /\ Ledger \notin ids
    BY SyncAssumption
  <1> HIDE DEF all
  <1>3. Maybe \subseteq some
    BY <1>1 DEF Maybe
  <1> HIDE DEF some
  <1>4. Ids \subseteq ids
    BY <1>3 DEF Ids, Entities
  <1> QED BY <1>1, <1>2, <1>4

LEMMA Worldly == World => saves \in Nat /\ None \notin Texts /\ Ledger \notin Ids
  BY Distinct DEF World

\* More saves, more texts.
LEMMA MoreTexts ==
    ASSUME saves \in Nat, saves' \in Nat, saves <= saves'
    PROVE  /\ Texts \subseteq Texts' /\ Maybe \subseteq Maybe' /\ Ids \subseteq Ids'
           /\ Bases \subseteq Bases' /\ Trees \subseteq Trees'
  <1>1. Texts \subseteq Texts'
    <2> SUFFICES ASSUME NEW d \in Texts PROVE d \in Texts'
      OBVIOUS
    <2>1. d = [units |-> d.units, rev |-> d.rev] /\ d.units \in [Units -> 0 .. saves]
          /\ d.rev \in Nat \ {0}
      BY DEF Texts
    <2>2. d.units \in [Units -> 0 .. saves']
      BY <2>1
    <2> QED BY <2>1, <2>2 DEF Texts
  <1>2. Maybe \subseteq Maybe'
    BY <1>1 DEF Maybe
  <1>3. Ids \subseteq Ids'
    BY <1>2 DEF Ids
  <1>4. Bases \subseteq Bases'
    BY <1>2 DEF Bases
  <1>5. Trees \subseteq Trees'
    BY <1>2 DEF Trees
  <1> QED BY <1>1, <1>2, <1>3, <1>4, <1>5

\* A file keeps its shape at another stage and beside other texts.
LEMMA FileStage ==
    ASSUME NEW t, File(t), NEW x \in StageNames
    PROVE  LET n == [t EXCEPT !.stage = x]
           IN /\ File(n) /\ n.stage = x /\ n.kind = t.kind /\ n.of = t.of
              /\ n.desired = t.desired /\ n.base = t.base
              /\ n.project = t.project /\ n.vault = t.vault
              /\ (Raises(t) => Raises(n)) /\ Subject(n) = Subject(t)
  <1> DEFINE n == [t EXCEPT !.stage = x]
  <1>1. t = [kind |-> t.kind, of |-> t.of, desired |-> t.desired, base |-> t.base,
             project |-> t.project, vault |-> t.vault, stage |-> t.stage]
    BY DEF File
  <1>2. n = [kind |-> t.kind, of |-> t.of, desired |-> t.desired, base |-> t.base,
             project |-> t.project, vault |-> t.vault, stage |-> x]
    BY <1>1
  <1> HIDE DEF n
  <1>3. /\ n.stage = x /\ n.kind = t.kind /\ n.of = t.of
        /\ n.desired = t.desired /\ n.base = t.base
        /\ n.project = t.project /\ n.vault = t.vault
    BY <1>2
  <1>4. File(n)
    BY <1>2, <1>3 DEF File
  <1>5. (Raises(t) => Raises(n)) /\ Subject(n) = Subject(t)
    BY <1>3 DEF Raises, Subject
  <1> QED BY <1>3, <1>4, <1>5 DEF n

LEMMA FileSaves ==
    ASSUME NEW t, File(t), saves \in Nat, saves' \in Nat, saves <= saves'
    PROVE  File(t)'
  <1>1. Texts \subseteq Texts' /\ Maybe \subseteq Maybe' /\ Ids \subseteq Ids'
    BY MoreTexts
  <1> QED BY <1>1 DEF File, Close

\* Saving the next stage of a file, and removing a file.
LEMMA FilesAdvance ==
    ASSUME Files, NEW t \in txn, NEW x \in StageNames,
           txn' = (txn \ {t}) \cup {[t EXCEPT !.stage = x]},
           UNCHANGED <<doc, base, hidden, saves>>
    PROVE  Files'
  <1> DEFINE n == [t EXCEPT !.stage = x]
  <1>1. File(t) /\ Raises(t) /\ Decides(t)
    BY DEF Files
  <1>2. /\ File(n) /\ n.kind = t.kind /\ n.of = t.of /\ n.desired = t.desired
        /\ Raises(n)
    BY <1>1, FileStage
  <1>3. txn' = (txn \ {t}) \cup {n}
    OBVIOUS
  <1> HIDE DEF n
  <1>4. Keyed'
    BY <1>2, <1>3 DEF Files, Keyed
  <1>5. ASSUME NEW f PROVE (File(f)' <=> File(f)) /\ (Raises(f)' <=> Raises(f))
    BY DEF File, Raises, Close, Ids, Maybe, Texts
  <1>6. ASSUME NEW f, f \in txn \/ f = n, Decides(f) PROVE Decides(f)'
    <2> SUFFICES ASSUME f.kind = "resolve" PROVE Decides(f)'
      BY DEF Decides
    <2>1. \A g \in txn' : g.kind = "entity" =>
             g.of = f.of.entity /\ g.desired = f.desired.accepted
      BY <1>2, <1>3, <1>6 DEF Decides
    <2>2. CASE base[f.of.entity] = f.desired.accepted
      BY <2>1, <2>2 DEF Decides
    <2>3. CASE Undecided(f)
      <3>1. (\E g \in txn : g.kind = "entity") => \E g \in txn' : g.kind = "entity"
        BY <1>2, <1>3
      <3>2. \A s \in Sides : At(s, f.of)' = At(s, f.of)
        BY DEF At
      <3>3. Undecided(f)'
        BY <2>3, <3>1, <3>2 DEF Undecided
      <3> QED BY <2>1, <3>3 DEF Decides
    <2> QED BY <2>2, <2>3, <1>6 DEF Decides
  <1>7. Decides(n)
    BY <1>1, <1>2 DEF Decides, Undecided
  <1> QED BY <1>2, <1>3, <1>4, <1>5, <1>6, <1>7 DEF Files

LEMMA FilesRemove ==
    ASSUME Files, NEW t, txn' = txn \ {t}, UNCHANGED <<doc, base, hidden, saves>>,
           t \in txn /\ t.kind = "entity" =>
              base[t.of] = t.desired \/ \A s \in Sides : doc[s][t.of] # t.desired
    PROVE  Files'
  <1>1. Keyed'
    BY DEF Files, Keyed
  <1>2. ASSUME NEW f PROVE (File(f)' <=> File(f)) /\ (Raises(f)' <=> Raises(f))
    BY DEF File, Raises, Close, Ids, Maybe, Texts
  <1>3. ASSUME NEW f \in txn, f # t PROVE Decides(f)'
    <2> SUFFICES ASSUME f.kind = "resolve" PROVE Decides(f)'
      BY DEF Decides
    <2>0. Decides(f)
      BY DEF Files
    <2>1. \A g \in txn' : g.kind = "entity" =>
             g.of = f.of.entity /\ g.desired = f.desired.accepted
      BY <2>0 DEF Decides
    <2>2. CASE base[f.of.entity] = f.desired.accepted
      BY <2>1, <2>2 DEF Decides
    <2>3. CASE base[f.of.entity] # f.desired.accepted
      <3>1. Undecided(f)
        BY <2>0, <2>3 DEF Decides
      <3>2. ASSUME NEW s \in Sides, doc[s][f.of.entity] = f.desired.accepted
            PROVE  \E g \in txn' : g.kind = "entity"
        <4>1. PICK g \in txn : g.kind = "entity"
          BY <3>1, <3>2 DEF Undecided
        <4>2. g.of = f.of.entity /\ g.desired = f.desired.accepted
          BY <2>0, <4>1 DEF Decides
        <4>3. g # t
          BY <4>1, <4>2, <2>3, <3>2
        <4> QED BY <4>1, <4>3
      <3>3. \A s \in Sides : At(s, f.of)' = At(s, f.of)
        BY DEF At
      <3>4. Undecided(f)'
        BY <3>1, <3>2, <3>3 DEF Undecided
      <3> QED BY <2>1, <3>4 DEF Decides
    <2> QED BY <2>2, <2>3
  <1> QED BY <1>1, <1>2, <1>3 DEF Files

LEMMA FilesAdd ==
    ASSUME Files, NEW t, txn' = txn \cup {t}, UNCHANGED <<doc, base, hidden, saves>>,
           File(t), Raises(t), \A r \in txn : r.kind # t.kind \/ r.of # t.of,
           t.kind = "entity" => \A r \in txn : r.kind = "resolve" =>
              t.of = r.of.entity /\ t.desired = r.desired.accepted,
           t.kind = "resolve" => Decides(t)'
    PROVE  Files'
  <1>1. Keyed'
    BY DEF Files, Keyed
  <1>2. ASSUME NEW f PROVE (File(f)' <=> File(f)) /\ (Raises(f)' <=> Raises(f))
    BY DEF File, Raises, Close, Ids, Maybe, Texts
  <1>3. ASSUME NEW f \in txn PROVE Decides(f)'
    <2> SUFFICES ASSUME f.kind = "resolve" PROVE Decides(f)'
      BY DEF Decides
    <2>0. Decides(f)
      BY DEF Files
    <2>1. \A g \in txn' : g.kind = "entity" =>
             g.of = f.of.entity /\ g.desired = f.desired.accepted
      BY <2>0 DEF Decides
    <2>2. \A s \in Sides : At(s, f.of)' = At(s, f.of)
      BY DEF At
    <2>3. Undecided(f) => Undecided(f)'
      BY <2>2 DEF Undecided
    <2> QED BY <2>0, <2>1, <2>3 DEF Decides
  <1>4. Decides(t)'
    BY DEF Decides
  <1> QED BY <1>1, <1>2, <1>3, <1>4 DEF Files

\* The merge base takes the text of a planned file.
LEMMA FilesCommit ==
    ASSUME World, Files, NEW t \in txn, t.kind = "entity",
           base' = [base EXCEPT ![t.of] = t.desired],
           UNCHANGED <<doc, txn, hidden, saves>>
    PROVE  Files' /\ base' \in Bases'
  <1>0. File(t)
    BY DEF Files
  <1>1. t.of \in Entities /\ t.desired \in Texts
    BY <1>0 DEF File
  <1>2. base' \in Bases'
    BY <1>1 DEF World, Bases, Maybe, Texts
  <1>3. ASSUME NEW f \in txn PROVE Decides(f)'
    <2> SUFFICES ASSUME f.kind = "resolve" PROVE Decides(f)'
      BY DEF Decides
    <2>0. Decides(f)
      BY DEF Files
    <2>1. t.of = f.of.entity /\ t.desired = f.desired.accepted
      BY <2>0 DEF Decides
    <2>2. base'[f.of.entity] = f.desired.accepted
      BY <1>1, <2>1 DEF World, Bases
    <2> QED BY <2>0, <2>2 DEF Decides
  <1>4. ASSUME NEW f PROVE (File(f)' <=> File(f)) /\ (Raises(f)' <=> Raises(f))
    BY DEF File, Raises, Close, Ids, Maybe, Texts
  <1> QED BY <1>2, <1>3, <1>4 DEF Files, Keyed

\* A side takes the text of a planned file.
LEMMA FilesReplace ==
    ASSUME World, Files, NEW t \in txn, t.kind = "entity", NEW z \in Sides,
           doc' = [doc EXCEPT ![z][t.of] = t.desired],
           UNCHANGED <<base, txn, hidden, saves>>
    PROVE  Files' /\ doc' \in Trees'
  <1>0. File(t)
    BY DEF Files
  <1>1. t.of \in Entities /\ t.desired \in Texts
    BY <1>0 DEF File
  <1>2. doc' \in Trees'
    BY <1>1 DEF World, Trees, Maybe, Texts
  <1>3. ASSUME NEW f \in txn PROVE Decides(f)'
    <2>0. Decides(f)
      BY DEF Files
    <2>1. \A s \in Sides : At(s, f.of)' = At(s, f.of)
      BY DEF At
    <2>2. Undecided(f) => Undecided(f)'
      BY <2>1 DEF Undecided
    <2> QED BY <2>0, <2>2 DEF Decides
  <1>4. ASSUME NEW f PROVE (File(f)' <=> File(f)) /\ (Raises(f)' <=> Raises(f))
    BY DEF File, Raises, Close, Ids, Maybe, Texts
  <1> QED BY <1>2, <1>3, <1>4 DEF Files, Keyed

\* Writing a hidden file.
LEMMA PutAt ==
    ASSUME World, NEW z \in Sides, NEW f, NEW body, Put(z, f, body)
    PROVE  /\ DOMAIN hidden' = Sides
           /\ \A s \in Sides : DOMAIN hidden'[s] = IF s = z THEN DOMAIN hidden[s] \cup {f}
                                                   ELSE DOMAIN hidden[s]
           /\ \A s \in Sides : \A g : At(s, g)' = IF s = z /\ g = f THEN body ELSE At(s, g)
  <1>1. DOMAIN hidden = Sides
    BY DEF World
  <1>2. hidden' = [hidden EXCEPT ![z] = [g \in DOMAIN hidden[z] \cup {f} |->
                                           IF g = f THEN body ELSE hidden[z][g]]]
    BY DEF Put
  <1>3. DOMAIN hidden' = Sides
    BY <1>1, <1>2
  <1>4. \A s \in Sides : hidden'[s] =
           IF s = z THEN [g \in DOMAIN hidden[z] \cup {f} |->
                             IF g = f THEN body ELSE hidden[z][g]]
           ELSE hidden[s]
    BY <1>1, <1>2
  <1>5. \A s \in Sides : DOMAIN hidden'[s] = IF s = z THEN DOMAIN hidden[s] \cup {f}
                                             ELSE DOMAIN hidden[s]
    BY <1>4
  <1>6. ASSUME NEW s \in Sides, NEW g
        PROVE  At(s, g)' = IF s = z /\ g = f THEN body ELSE At(s, g)
    <2>1. CASE s = z
      <3>1. hidden'[z] = [h \in DOMAIN hidden[z] \cup {f} |->
                             IF h = f THEN body ELSE hidden[z][h]]
        BY <1>4
      <3>2. CASE g \in DOMAIN hidden[z] \cup {f}
        BY <3>1, <3>2, <2>1 DEF At
      <3>3. CASE g \notin DOMAIN hidden[z] \cup {f}
        BY <3>1, <3>3, <2>1 DEF At
      <3> QED BY <3>2, <3>3
    <2>2. CASE s # z
      BY <1>4, <2>2 DEF At
    <2> QED BY <2>1, <2>2
  <1> QED BY <1>3, <1>5, <1>6

LEMMA FilesPut ==
    ASSUME World, Files, NEW z \in Sides, NEW of \in Ids \cup {Ledger}, NEW body,
           Put(z, of, body), UNCHANGED <<doc, base, txn, saves>>,
           \/ of = Ledger \/ body = OpenNote
           \/ \A r \in txn : r.kind = "resolve" /\ r.of = of =>
                 base[r.of.entity] = r.desired.accepted
    PROVE  /\ Files' /\ DOMAIN hidden' = Sides
           /\ \A s \in Sides : DOMAIN hidden'[s] \subseteq {Ledger} \cup Ids'
  <1>1. /\ DOMAIN hidden' = Sides
        /\ \A s \in Sides : DOMAIN hidden'[s] = IF s = z THEN DOMAIN hidden[s] \cup {of}
                                                ELSE DOMAIN hidden[s]
        /\ \A s \in Sides : \A g : At(s, g)' = IF s = z /\ g = of THEN body ELSE At(s, g)
    BY PutAt
  <1>2. \A s \in Sides : DOMAIN hidden'[s] \subseteq {Ledger} \cup Ids'
    <2>1. Ids' = Ids
      BY DEF Ids, Maybe, Texts
    <2> QED BY <1>1, <2>1 DEF World
  <1>3. ASSUME NEW f \in txn PROVE Decides(f)'
    <2> SUFFICES ASSUME f.kind = "resolve" PROVE Decides(f)'
      BY DEF Decides
    <2>0. Decides(f) /\ f.of \in Ids \ {Ledger}
      BY DEF Files, File
    <2>1. CASE base[f.of.entity] = f.desired.accepted
      BY <2>0, <2>1 DEF Decides
    <2>2. CASE base[f.of.entity] # f.desired.accepted
      <3>1. Undecided(f)
        BY <2>0, <2>2 DEF Decides
      <3>2. f.of = of => body = OpenNote
        BY <2>0, <2>2
      <3>3. Undecided(f)'
        BY <1>1, <3>1, <3>2 DEF Undecided
      <3> QED BY <2>0, <3>3 DEF Decides
    <2> QED BY <2>1, <2>2
  <1>4. ASSUME NEW f PROVE (File(f)' <=> File(f)) /\ (Raises(f)' <=> Raises(f))
    BY DEF File, Raises, Close, Ids, Maybe, Texts
  <1> QED BY <1>1, <1>2, <1>3, <1>4 DEF Files, Keyed

LEMMA FilesStay ==
    ASSUME Files, UNCHANGED <<txn, doc, base, hidden, saves>>
    PROVE  Files'
  <1>1. ASSUME NEW f PROVE /\ File(f)' <=> File(f)
                           /\ Raises(f)' <=> Raises(f)
                           /\ Decides(f)' <=> Decides(f)
    BY DEF File, Raises, Close, Ids, Maybe, Texts, Decides, Undecided, At
  <1> QED BY <1>1 DEF Files, Keyed

LEMMA WorldStay ==
    ASSUME World, UNCHANGED <<doc, base, hidden, saves>>,
           faults' \in 0 .. MaxFaults, held' \subseteq held
    PROVE  World'
  BY DEF World, Trees, Bases, Ids, Maybe, Texts

\* A person leaves no file, or one with an edit that no text had before.
LEMMA FilesSave ==
    ASSUME World, Files, saves' = saves + 1, UNCHANGED <<base, txn, hidden>>,
           NEW z \in Sides, NEW e \in Entities, NEW d \in Maybe' \ Texts,
           doc' = [doc EXCEPT ![z][e] = d]
    PROVE  Files'
  <1>0. saves \in Nat
    BY Worldly
  <1>1. ASSUME NEW f \in txn PROVE File(f)' /\ Raises(f)'
    BY <1>0, FileSaves DEF Files, Raises
  <1>2. ASSUME NEW f \in txn PROVE Decides(f)'
    <2> SUFFICES ASSUME f.kind = "resolve" PROVE Decides(f)'
      BY DEF Decides
    <2>0. Decides(f) /\ f.desired.accepted \in Texts
      BY DEF Files, File, Close
    <2>1. \A s \in Sides : At(s, f.of)' = At(s, f.of)
      BY DEF At
    <2>2. f.of.entity \in Entities
      BY DEF Files, File, Ids
    <2>3. \A s \in Sides : doc'[s][f.of.entity] = f.desired.accepted =>
             doc[s][f.of.entity] = f.desired.accepted
      BY <2>0, <2>2 DEF World, Trees
    <2>4. Undecided(f) => Undecided(f)'
      BY <2>1, <2>3 DEF Undecided
    <2> QED BY <2>0, <2>4 DEF Decides
  <1> QED BY <1>1, <1>2 DEF Files, Keyed

-----------------------------------------------------------------------------
(* Steps of the engine that end an operation or go to the next file.       *)

LEMMA AskedStay ==
    ASSUME Engaged, pc # "idle", UNCHANGED <<op, saves>>
    PROVE  Asked'
  BY DEF Engaged, Asked, Ids, Maybe, Texts

LEMMA EngagedPlain ==
    ASSUME pc' \in {"idle", "authenticate", "recover"}, pc' # "idle" => Asked'
    PROVE  Engaged'
  BY DEF Engaged, Places, Quiet, Writing, Hiding

LEMMA EngagedQuiet ==
    ASSUME pc' \in Quiet \ {"choose"}, Asked', txn' = {}
    PROVE  Engaged'
  BY DEF Engaged, Places, Quiet, Writing, Hiding

LEMMA AbortEngaged == ASSUME Abort PROVE Engaged'
  BY EngagedPlain DEF Abort, Reset

LEMMA FailEngaged ==
    ASSUME Inv, pc \in Writing \cup Hiding, Fail, UNCHANGED <<doc, base, txn, saves>>
    PROVE  Engaged'
  <1>1. CASE cur.next # "entity"
    BY <1>1, AbortEngaged DEF Fail
  <1>2. CASE cur.next = "entity"
    <2>1. pc' = "entity" /\ bad' = TRUE /\ UNCHANGED <<op, seen, todo>>
      BY <1>2 DEF Fail
    <2>2. Walking /\ Left(txn \ {cur.t}) /\ Subject(cur.t) \notin Rest
          /\ cur.t.kind \in {"entity", "record"}
      BY <1>2 DEF Inv, Engaged, WritingOK, HidingOK, Subject
    <2>3. Walking'
      BY <2>1, <2>2 DEF Walking, Trees, Bases, Maybe, Texts, Rest
    <2>4. Left(txn)'
      BY <2>1, <2>2 DEF Left, Rest, Subject
    <2>5. Asked'
      BY <2>1, AskedStay DEF Inv, Writing, Hiding
    <2> QED BY <2>1, <2>3, <2>4, <2>5 DEF Engaged, Places, Quiet, Writing, Hiding
  <1> QED BY <1>1, <1>2

\* A step of the engine that leaves the files and the documents alone.
LEMMA StayInv ==
    ASSUME Inv, UNCHANGED <<world, saves>>, faults' \in 0 .. MaxFaults,
           held' \subseteq held, Engaged'
    PROVE  Inv'
  <1>1. UNCHANGED <<doc, base, hidden, txn, saves>>
    BY DEF world
  <1>2. World'
    BY <1>1, WorldStay DEF Inv
  <1>3. Files'
    BY <1>1, FilesStay DEF Inv
  <1> QED BY <1>2, <1>3 DEF Inv

LEMMA BeginInv ==
    ASSUME Inv, NEW o, Begin(o), o.kind \in {"reconcile", "resolve", "repair"},
           o.kind = "resolve" => o.id \in Ids \ {Ledger}
    PROVE  Inv'
  <1>1. UNCHANGED <<world, saves, faults, held>> /\ op' = o
        /\ pc' = IF txn = {} THEN "ready" ELSE "authenticate"
    BY DEF Begin
  <1>2. UNCHANGED saves /\ UNCHANGED txn
    BY <1>1 DEF world
  <1>3. Asked'
    BY <1>1, <1>2 DEF Asked, Ids, Maybe, Texts
  <1>4. Engaged'
    BY <1>1, <1>2, <1>3, EngagedPlain, EngagedQuiet DEF Quiet
  <1> QED BY <1>1, <1>4, StayInv DEF Inv, World

LEMMA FinishInv == ASSUME Inv, Finish PROVE Inv'
  <1>1. UNCHANGED <<world, saves, faults, held>> /\ pc' = "idle"
    BY DEF Finish, people, Reset
  <1> QED BY <1>1, EngagedPlain, StayInv DEF Inv, World

LEMMA AuthenticateInv == ASSUME Inv, Authenticate PROVE Inv'
  <1>1. UNCHANGED <<world, saves, faults, held>> /\ pc = "authenticate"
    BY DEF Authenticate, people
  <1>2. CASE Abort
    BY <1>1, <1>2, AbortEngaged, StayInv DEF Inv, World
  <1>3. CASE pc' = "recover" /\ UNCHANGED locals
    <2>1. Asked'
      BY <1>1, <1>3, AskedStay DEF Inv, locals
    <2> QED BY <1>1, <1>3, <2>1, EngagedPlain, StayInv DEF Inv, World
  <1> QED BY <1>2, <1>3 DEF Authenticate

\* A pending file that is dropped, or carried out by writing a hidden file.
LEMMA DropInv ==
    ASSUME Inv, NEW t \in txn, Drop(t), pc = "recover" \/ pc = "recoverEntity",
           UNCHANGED <<people, faults>>,
           t.kind = "entity" =>
              base[t.of] = t.desired \/ \A s \in Sides : doc[s][t.of] # t.desired
    PROVE  Inv'
  <1>1. /\ txn' = txn \ {t} /\ UNCHANGED <<doc, base, hidden, pc, saves, faults, held>>
        /\ UNCHANGED <<op, seen>>
    BY DEF Drop, people, locals
  <1>2. Files'
    BY <1>1, FilesRemove DEF Inv
  <1>3. World'
    BY <1>1, WorldStay DEF Inv, World
  <1>4. Asked'
    BY <1>1, AskedStay DEF Inv
  <1>5. pc = "recoverEntity" => Looking(txn)'
    <2> SUFFICES ASSUME pc = "recoverEntity" PROVE Looking(txn)'
      OBVIOUS
    <2>1. Looking(txn)
      BY DEF Inv, Engaged
    <2> QED BY <2>1, <1>1 DEF Looking, Trees, Bases, Maybe, Texts
  <1>6. Engaged'
    BY <1>1, <1>4, <1>5 DEF Engaged, Places, Quiet, Writing, Hiding
  <1> QED BY <1>2, <1>3, <1>6 DEF Inv

LEMMA ResumeInv ==
    ASSUME Inv, NEW t \in txn, NEW body, NEW p, NEW v, Resume(t, body, p, v, "recover"),
           pc = "recover", UNCHANGED world, UNCHANGED <<people, faults>>,
           t.kind # "entity",
           t.kind \in {"record", "resolve"} => body = t.desired,
           t.kind = "resolve" => base[t.of.entity] = t.desired.accepted
    PROVE  Inv'
  <1>1. /\ cur' = [t |-> t, body |-> body, next |-> "recover",
                   pre |-> [project |-> p, vault |-> v]]
        /\ pc' = "hidden" /\ UNCHANGED op
    BY DEF Resume
  <1>2. UNCHANGED <<saves, faults, held, txn, base>>
    BY DEF people, world
  <1>3. cur'.t = t /\ cur'.body = body /\ cur'.next = "recover"
    BY <1>1
  <1>4. HidingOK'
    BY <1>1, <1>2, <1>3 DEF HidingOK
  <1>5. Asked'
    BY <1>1, <1>2, AskedStay DEF Inv
  <1>6. Engaged'
    BY <1>1, <1>4, <1>5 DEF Engaged, Places, Quiet, Writing, Hiding
  <1> QED BY <1>2, <1>6, StayInv DEF Inv, World

LEMMA RecoverAbortInv ==
    ASSUME Inv, Abort, UNCHANGED world, UNCHANGED <<people, faults>>
    PROVE  Inv'
  BY AbortEngaged, StayInv DEF Inv, World, people

LEMMA RecoverLedgerInv ==
    ASSUME Inv, pc = "recover", UNCHANGED <<people, faults>>,
           NEW t \in txn, t.kind \in {"publish", "repair"}, RecoverLedger(t)
    PROVE  Inv'
  <1>1. CASE Drop(t)
    BY <1>1, DropInv
  <1>2. CASE Abort /\ UNCHANGED world
    BY <1>2, RecoverAbortInv
  <1>3. CASE /\ UNCHANGED world
             /\ \E body, p, v : Resume(t, body, p, v, "recover")
    BY <1>3, ResumeInv
  <1> QED BY <1>1, <1>2, <1>3 DEF RecoverLedger

LEMMA RecoverRecordInv ==
    ASSUME Inv, pc = "recover", UNCHANGED <<people, faults>>,
           NEW t \in txn, t.kind = "record", RecoverRecord(t)
    PROVE  Inv'
  <1>1. CASE Drop(t)
    BY <1>1, DropInv
  <1>2. CASE Abort /\ UNCHANGED world
    BY <1>2, RecoverAbortInv
  <1>3. CASE /\ UNCHANGED world
             /\ \E p, v : Resume(t, t.desired, p, v, "recover")
    BY <1>3, ResumeInv
  <1> QED BY <1>1, <1>2, <1>3 DEF RecoverRecord

LEMMA RecoverResolutionInv ==
    ASSUME Inv, pc = "recover", UNCHANGED <<people, faults>>, Pending({"entity"}) = {},
           NEW t \in txn, t.kind = "resolve", RecoverResolution(t)
    PROVE  Inv'
  <1>1. CASE Drop(t)
    BY <1>1, DropInv
  <1>2. CASE Abort /\ UNCHANGED world
    BY <1>2, RecoverAbortInv
  <1>3. CASE /\ t.desired \in {At("project", t.of), At("vault", t.of),
                               [accepted |-> doc["project"][t.of.entity]]}
             /\ Resume(t, t.desired, t.base, t.base, "recover") /\ UNCHANGED world
    <2>1. Decides(t) /\ Close(t.desired)
      BY DEF Inv, Files, File
    <2>2. t.desired.accepted # None
      BY <2>1, Worldly DEF Inv, Close
    <2>3. t.desired # OpenNote
      BY <2>2 DEF OpenNote
    <2>4. base[t.of.entity] = t.desired.accepted
      <3> SUFFICES ASSUME Undecided(t) PROVE FALSE
        BY <2>1 DEF Decides
      <3>1. t.desired = [accepted |-> doc["project"][t.of.entity]]
        BY <1>3, <2>3 DEF Undecided, Sides
      <3>2. doc["project"][t.of.entity] = t.desired.accepted
        BY <3>1
      <3>3. \E f \in txn : f.kind = "entity"
        BY <3>2 DEF Undecided, Sides
      <3> QED BY <3>3 DEF Pending
    <2> QED BY <1>3, <2>4, ResumeInv
  <1> QED BY <1>1, <1>2, <1>3 DEF RecoverResolution

LEMMA RecoverInv == ASSUME Inv, Recover PROVE Inv'
  <1> DEFINE first == Pending({"publish", "repair", "record"})
             last == Pending({"resolve"})
  <1>0. pc = "recover" /\ UNCHANGED <<people, faults>>
    BY DEF Recover
  <1>1. CASE first # {}
    <2>1. PICK t \in first : IF t.kind = "record" THEN RecoverRecord(t)
                                                  ELSE RecoverLedger(t)
      BY <1>1 DEF Recover
    <2>2. t \in txn /\ t.kind \in {"publish", "repair", "record"}
      BY DEF Pending
    <2> QED BY <1>0, <2>1, <2>2, RecoverRecordInv, RecoverLedgerInv
  <1>2. CASE first = {} /\ Pending({"entity"}) # {}
    <2>1. /\ seen' = [doc |-> doc, base |-> base] /\ pc' = "recoverEntity"
          /\ UNCHANGED world /\ UNCHANGED op
      BY <1>2 DEF Recover
    <2>2. UNCHANGED <<doc, base, txn, saves, faults, held>>
      BY <1>0, <2>1 DEF people, world
    <2>3. seen'.doc = doc /\ seen'.base = base
      BY <2>1
    <2>4. Looking(txn)'
      BY <2>2, <2>3 DEF Looking, Inv, World, Trees, Bases, Maybe, Texts
    <2>5. Asked'
      BY <1>0, <2>1, <2>2, AskedStay DEF Inv
    <2>6. Engaged'
      BY <2>1, <2>4, <2>5 DEF Engaged, Places, Quiet, Writing, Hiding
    <2> QED BY <2>1, <2>2, <2>6, StayInv DEF Inv, World
  <1>3. CASE first = {} /\ Pending({"entity"}) = {} /\ last # {}
    <2>1. PICK t \in last : RecoverResolution(t)
      BY <1>3 DEF Recover
    <2>2. t \in txn /\ t.kind = "resolve"
      BY DEF Pending
    <2> QED BY <1>0, <1>3, <2>1, <2>2, RecoverResolutionInv
  <1>4. CASE first = {} /\ Pending({"entity"}) = {} /\ last = {}
    <2>1. pc' = "ready" /\ UNCHANGED world /\ UNCHANGED op
      BY <1>4 DEF Recover
    <2>2. UNCHANGED <<txn, saves, faults, held>>
      BY <1>0, <2>1 DEF people, world
    <2>3. txn = {}
      <3> SUFFICES ASSUME NEW t \in txn PROVE FALSE
        OBVIOUS
      <3>1. t.kind \in {"publish", "repair", "record", "entity", "resolve"}
        BY DEF Inv, Files, File
      <3> QED BY <1>4, <3>1 DEF Pending
    <2>4. Asked'
      BY <1>0, <2>1, <2>2, AskedStay DEF Inv
    <2>5. Engaged'
      BY <2>1, <2>2, <2>3, <2>4, EngagedQuiet DEF Quiet
    <2> QED BY <2>1, <2>2, <2>5, StayInv DEF Inv, World
  <1> QED BY <1>1, <1>2, <1>3, <1>4

LEMMA RecoverEntityInv == ASSUME Inv, RecoverEntity PROVE Inv'
  <1>0. pc = "recoverEntity" /\ UNCHANGED <<people, faults>> /\ Looking(txn)
    BY DEF RecoverEntity, Inv, Engaged
  <1>1. CASE Pending({"entity"}) = {}
    <2>1. pc' = "recover" /\ UNCHANGED world /\ UNCHANGED op
      BY <1>1 DEF RecoverEntity, locals
    <2>2. UNCHANGED <<saves, faults, held>>
      BY <1>0 DEF people
    <2>3. Asked'
      BY <1>0, <2>1, <2>2, AskedStay DEF Inv
    <2> QED BY <2>1, <2>2, <2>3, EngagedPlain, StayInv DEF Inv, World
  <1>2. CASE Pending({"entity"}) # {}
    <2> DEFINE b(t) == seen.base[t.of]
               at(t) == [s \in Sides |-> seen.doc[s][t.of]]
    <2>1. PICK t \in Pending({"entity"}) :
             IF b(t) = t.desired THEN Drop(t)
             ELSE IF b(t) # None /\ b(t) # t.base THEN Abort /\ UNCHANGED world
             ELSE IF t.desired \notin {at(t)["project"], at(t)["vault"]}
             THEN IF t.stage = "planned" THEN Drop(t) ELSE Abort /\ UNCHANGED world
             ELSE /\ cur' = [t |-> t, body |-> t.desired, pre |-> at(t),
                             write |-> {s \in Sides : at(t)[s] # t.desired},
                             side |-> "project", next |-> "recoverEntity"]
                  /\ pc' = "write"
                  /\ UNCHANGED <<world, op, seen, todo, note, bad, committed, report>>
      BY <1>2 DEF RecoverEntity
    <2>2. t \in txn /\ t.kind = "entity"
      BY DEF Pending
    <2>3. CASE Drop(t) /\ b(t) = t.desired
      <3>1. base[t.of] = t.desired
        BY <1>0, <2>2, <2>3 DEF Looking
      <3> QED BY <1>0, <2>2, <2>3, <3>1, DropInv
    <2>4. CASE Drop(t) /\ t.desired \notin {at(t)["project"], at(t)["vault"]}
      <3>1. \A s \in Sides : seen.doc[s][t.of] # t.desired
        BY <2>4 DEF Sides
      <3>2. \A s \in Sides : doc[s][t.of] # t.desired
        BY <1>0, <2>2, <3>1 DEF Looking
      <3> QED BY <1>0, <2>2, <2>4, <3>2, DropInv
    <2>5. CASE Abort /\ UNCHANGED world
      BY <1>0, <2>5, RecoverAbortInv
    <2>6. CASE /\ cur' = [t |-> t, body |-> t.desired, pre |-> at(t),
                          write |-> {s \in Sides : at(t)[s] # t.desired},
                          side |-> "project", next |-> "recoverEntity"]
               /\ pc' = "write"
               /\ UNCHANGED <<world, op, seen, todo, note, bad, committed, report>>
      <3>1. UNCHANGED <<doc, base, txn, saves, faults, held, op, seen>>
        BY <1>0, <2>6 DEF people, world
      <3>2. /\ cur'.t = t /\ cur'.body = t.desired /\ cur'.next = "recoverEntity"
            /\ cur'.side = "project"
            /\ cur' = [t |-> cur'.t, body |-> cur'.body, next |-> cur'.next,
                       side |-> cur'.side, pre |-> cur'.pre, write |-> cur'.write]
        BY <2>6
      <3>3. Looking(txn \ {cur.t})'
        BY <1>0, <3>1, <3>2 DEF Looking, Trees, Bases, Maybe, Texts
      <3>4. WritingOK'
        BY <2>2, <2>6, <3>1, <3>2, <3>3 DEF WritingOK, Sides
      <3>5. Asked'
        BY <1>0, <3>1, AskedStay DEF Inv
      <3>6. Engaged'
        BY <2>6, <3>4, <3>5 DEF Engaged, Places, Quiet, Writing, Hiding
      <3> QED BY <2>6, <3>1, <3>6, StayInv DEF Inv, World
    <2> QED BY SMTT(60), <2>1, <2>3, <2>4, <2>5, <2>6
  <1> QED BY <1>1, <1>2

-----------------------------------------------------------------------------
(* Writing a document.                                                     *)

\* Two pending files of one document are one.
LEMMA OneOfEach ==
    ASSUME Inv, NEW t \in txn, NEW f \in txn, t.kind = f.kind, t # f
    PROVE  t.of # f.of
  BY DEF Inv, Files, Keyed

LEMMA WritingMove ==
    ASSUME Inv, pc \in {"write", "replace"}, pc' \in Writing,
           UNCHANGED <<op, seen, todo, note, bad, base, txn, saves>>,
           \/ doc' = doc
           \/ \E z \in Sides : doc' = [doc EXCEPT ![z][cur.t.of] = cur.body],
           cur' = cur \/ cur' = [cur EXCEPT !.side = "vault"],
           IF cur.next = "recoverEntity" THEN pc' \in {"write", "replace", "commit"}
           ELSE cur' = cur /\ pc' \in {"replace", "verify"}
    PROVE  Engaged'
  <1>1. WritingOK
    BY DEF Inv, Engaged, Writing
  <1>2. /\ cur'.t = cur.t /\ cur'.body = cur.body /\ cur'.next = cur.next
        /\ cur'.side \in Sides
        /\ cur' = [t |-> cur'.t, body |-> cur'.body, next |-> cur'.next,
                   side |-> cur'.side, pre |-> cur'.pre, write |-> cur'.write]
    <2>1. cur = [t |-> cur.t, body |-> cur.body, next |-> cur.next,
                 side |-> cur.side, pre |-> cur.pre, write |-> cur.write]
      BY <1>1 DEF WritingOK
    <2>2. CASE cur' = cur
      BY <1>1, <2>2 DEF WritingOK
    <2>3. CASE cur' = [cur EXCEPT !.side = "vault"]
      <3>1. cur' = [t |-> cur.t, body |-> cur.body, next |-> cur.next,
                    side |-> "vault", pre |-> cur.pre, write |-> cur.write]
        BY <2>1, <2>3
      <3> QED BY <3>1 DEF Sides
    <2> QED BY <2>2, <2>3
  <1>3. cur.next = "recoverEntity" => Looking(txn \ {cur.t})'
    <2> SUFFICES ASSUME cur.next = "recoverEntity" PROVE Looking(txn \ {cur.t})'
      OBVIOUS
    <2>1. Looking(txn \ {cur.t}) /\ cur.t \in txn /\ cur.t.kind = "entity"
      BY <1>1 DEF WritingOK
    <2>2. seen'.doc \in Trees' /\ seen'.base \in Bases'
      BY <2>1 DEF Looking, Trees, Bases, Maybe, Texts
    <2>3. ASSUME NEW t \in txn \ {cur.t}, t.kind = "entity", NEW s \in Sides
          PROVE  doc'[s][t.of] = doc[s][t.of]
      <3>1. t.of # cur.t.of
        BY <2>1, <2>3, OneOfEach
      <3>2. File(t) /\ File(cur.t)
        BY <2>1 DEF Inv, Files
      <3>3. t.of \in Entities /\ cur.t.of \in Entities
        BY <3>2, <2>1, <2>3 DEF File
      <3> QED BY SMTT(60), <3>1, <3>3 DEF Inv, World, Trees
    <2>4. txn' \ {cur'.t} = txn \ {cur.t}
      BY <1>2
    <2> QED BY <1>2, <2>1, <2>2, <2>3 DEF Looking
  <1>4. cur.next = "entity" =>
            Walking' /\ Left(txn \ {cur.t})' /\ (cur.t.of \notin Rest)'
    BY <1>1, <1>2 DEF WritingOK, Walking, Left, Rest, Trees, Bases, Maybe, Texts, Subject
  <1>5. cur.next = "note" => Noted'
    BY <1>1 DEF WritingOK, Noted
  <1>6. cur.next # "recoverEntity" => WritingStage'
    BY <1>1 DEF WritingOK, WritingStage
  <1>7. WritingOK'
    BY <1>1, <1>2, <1>3, <1>4, <1>5, <1>6 DEF WritingOK
  <1>8. Asked'
    BY AskedStay DEF Inv
  <1> QED BY <1>7, <1>8 DEF Engaged, Places, Quiet, Writing, Hiding

LEMMA WrittenMoves ==
    ASSUME Inv, Written, pc \in {"write", "replace"}
    PROVE  /\ pc' \in Writing /\ (cur' = cur \/ cur' = [cur EXCEPT !.side = "vault"])
           /\ IF cur.next = "recoverEntity" THEN pc' \in {"write", "replace", "commit"}
              ELSE cur' = cur /\ pc' \in {"replace", "verify"}
  BY DEF Written, NextSide, Recovering, Writing

LEMMA WriteInv == ASSUME Inv, Write PROVE Inv'
  <1>0. pc = "write" /\ UNCHANGED <<world, people, faults>>
    BY DEF Write
  <1>1. UNCHANGED <<doc, base, txn, saves, held, faults>>
    BY <1>0 DEF world, people
  <1>2. CASE Written /\ UNCHANGED <<op, seen, todo, note, bad, committed, report>>
    BY <1>0, <1>1, <1>2, WrittenMoves, WritingMove, StayInv DEF Inv, World
  <1>3. CASE Fail
    BY <1>0, <1>1, <1>3, FailEngaged, StayInv DEF Inv, World, Writing
  <1>4. CASE pc' = "replace" /\ UNCHANGED <<locals, report>>
    <2>1. UNCHANGED <<op, seen, todo, note, bad, cur>>
      BY <1>4 DEF locals
    <2> QED BY <1>0, <1>1, <1>4, <2>1, WritingMove, StayInv DEF Inv, World, Writing
  <1> QED BY <1>2, <1>3, <1>4 DEF Write

LEMMA ReplaceInv == ASSUME Inv, Replace PROVE Inv'
  <1>0. /\ pc = "replace" /\ Written
        /\ doc' = [doc EXCEPT ![cur.side][cur.t.of] = cur.body]
        /\ held' \subseteq held
        /\ UNCHANGED <<base, hidden, txn, op, seen, todo, note, bad, saves, faults>>
    BY DEF Replace
  <1>1. cur.t \in txn /\ cur.t.kind = "entity" /\ cur.body = cur.t.desired
        /\ cur.side \in Sides
    BY <1>0 DEF Inv, Engaged, Writing, WritingOK
  <1>2. Files' /\ doc' \in Trees'
    BY <1>0, <1>1, FilesReplace DEF Inv
  <1>3. World'
    BY <1>0, <1>2 DEF Inv, World, Bases, Ids, Maybe, Texts
  <1>4. Engaged'
    BY <1>0, <1>1, WrittenMoves, WritingMove
  <1> QED BY <1>2, <1>3, <1>4 DEF Inv

\* The next stage of the file that is carried out.
LEMMA AdvanceFiles ==
    ASSUME Inv, pc \in Writing \cup Hiding, cur.t \in txn,
           cur.t.stage \in {"planned", "project_written", "vault_written"},
           NEW n, n = [cur.t EXCEPT !.stage = After(@)],
           txn' = (txn \ {cur.t}) \cup {n}, UNCHANGED <<doc, base, hidden, saves>>
    PROVE  /\ Files' /\ n \in txn' /\ n.kind = cur.t.kind /\ n.of = cur.t.of
           /\ n.desired = cur.t.desired /\ n.stage = After(cur.t.stage)
           /\ Subject(n) = Subject(cur.t) /\ txn' \ {n} \subseteq txn \ {cur.t}
  <1>1. File(cur.t)
    BY DEF Inv, Files
  <1>2. After(cur.t.stage) \in StageNames
    BY NextStage DEF StageNames
  <1>3. n = [cur.t EXCEPT !.stage = After(cur.t.stage)]
    OBVIOUS
  <1>4. Files'
    BY <1>2, <1>3, FilesAdvance DEF Inv
  <1> QED BY <1>1, <1>2, <1>3, <1>4, FileStage

LEMMA VerifyInv == ASSUME Inv, Verify PROVE Inv'
  <1>0. pc = "verify" /\ UNCHANGED <<doc, base, hidden, people, faults>>
    BY DEF Verify
  <1>1. UNCHANGED <<doc, base, hidden, saves, held, faults>>
    BY <1>0 DEF people
  <1>2. CASE Fail /\ UNCHANGED txn
    BY <1>0, <1>1, <1>2, FailEngaged, StayInv DEF Inv, World, Writing, world
  <1>3. CASE /\ \E n : /\ n = [cur.t EXCEPT !.stage = After(@)]
                       /\ txn' = (txn \ {cur.t}) \cup {n}
                       /\ cur' = [cur EXCEPT !.t = n, !.side = "vault"]
             /\ pc' = IF cur.side = "project" THEN "write" ELSE "commit"
             /\ UNCHANGED <<op, seen, todo, note, bad, committed, report>>
    <2>1. PICK n : /\ n = [cur.t EXCEPT !.stage = After(@)]
                   /\ txn' = (txn \ {cur.t}) \cup {n}
                   /\ cur' = [cur EXCEPT !.t = n, !.side = "vault"]
      BY <1>3
    <2>2. WritingOK /\ cur.next # "recoverEntity"
      BY <1>0 DEF Inv, Engaged, Writing, WritingOK
    <2>3. cur.t.stage = IF cur.side = "project" THEN "planned" ELSE "project_written"
      BY <1>0, <2>2 DEF WritingOK, WritingStage
    <2>4. cur.t \in txn /\ cur.t.kind = "entity" /\ cur.body = cur.t.desired
      BY <2>2 DEF WritingOK
    <2>5. /\ Files' /\ n \in txn' /\ n.kind = cur.t.kind /\ n.of = cur.t.of
          /\ n.desired = cur.t.desired /\ n.stage = After(cur.t.stage)
          /\ Subject(n) = Subject(cur.t) /\ txn' \ {n} \subseteq txn \ {cur.t}
      BY <1>0, <1>1, <2>1, <2>3, <2>4, AdvanceFiles DEF Writing
    <2>6. cur' = [t |-> n, body |-> cur.body, next |-> cur.next, side |-> "vault",
                  pre |-> cur.pre, write |-> cur.write]
      BY <2>1, <2>2 DEF WritingOK
    <2>7. cur'.t = n /\ cur'.body = cur.body /\ cur'.next = cur.next
          /\ cur'.side = "vault"
      BY <2>6
    <2>8. WritingStage'
      BY <1>3, <2>3, <2>5, <2>7, NextStage DEF WritingStage
    <2>9. cur.next = "entity" =>
              Walking' /\ Left(txn \ {cur.t})' /\ (cur.t.of \notin Rest)'
      <3>1. cur.next = "entity" => Walking'
        BY <1>1, <1>3, <2>2 DEF WritingOK, Walking, Rest, Trees, Bases, Maybe, Texts
      <3>2. cur.next = "entity" => Left(txn \ {cur.t})'
        BY <1>3, <2>2, <2>5, <2>7 DEF WritingOK, Left, Rest, Subject
      <3>3. cur.next = "entity" => (cur.t.of \notin Rest)'
        BY <1>3, <2>2, <2>5, <2>7 DEF WritingOK, Rest
      <3> QED BY <3>1, <3>2, <3>3
    <2>10. cur.next = "note" => Noted' /\ txn' = {n, note'.t}
      <3> SUFFICES ASSUME cur.next = "note" PROVE Noted' /\ txn' = {n, note'.t}
        OBVIOUS
      <3>1. Noted /\ txn = {cur.t, note.t} /\ note.t # cur.t
        BY <2>2, <2>4 DEF WritingOK, Noted
      <3> QED BY <1>3, <2>1, <3>1 DEF Noted
    <2>11. cur.next = "publish" => txn' = {n}
      BY <2>1, <2>2 DEF WritingOK
    <2>12. WritingOK'
      BY <1>3, <2>2, <2>4, <2>5, <2>6, <2>7, <2>8, <2>9, <2>10, <2>11 DEF WritingOK, Sides
    <2>13. Asked'
      BY <1>0, <1>1, <1>3, AskedStay DEF Inv
    <2>14. Engaged'
      BY <1>3, <2>12, <2>13 DEF Engaged, Places, Quiet, Writing, Hiding
    <2>15. World'
      BY <1>1, WorldStay DEF Inv, World
    <2> QED BY <2>5, <2>14, <2>15 DEF Inv
  <1> QED BY <1>2, <1>3 DEF Verify

LEMMA CommitInv == ASSUME Inv, Commit PROVE Inv'
  <1>0. pc = "commit" /\ UNCHANGED <<doc, hidden, txn, people, faults>>
    BY DEF Commit
  <1>1. UNCHANGED <<doc, txn, hidden, saves, held, faults>>
    BY <1>0 DEF people
  <1>2. CASE Fail /\ UNCHANGED base
    BY <1>0, <1>1, <1>2, FailEngaged, StayInv DEF Inv, World, Writing, world
  <1>3. CASE /\ base' = [base EXCEPT ![cur.t.of] = cur.body]
             /\ pc' = IF Recovering THEN "remove" ELSE "seal"
             /\ UNCHANGED <<locals, report>>
    <2>1. WritingOK
      BY <1>0 DEF Inv, Engaged, Writing
    <2>2. cur.t \in txn /\ cur.t.kind = "entity" /\ cur.body = cur.t.desired
      BY <2>1 DEF WritingOK
    <2>3. Files' /\ base' \in Bases'
      BY <1>1, <1>3, <2>2, FilesCommit DEF Inv
    <2>4. UNCHANGED <<op, seen, todo, cur, note, bad>>
      BY <1>3 DEF locals
    <2>5. \A t \in txn : t.kind = "entity" => t.of \in Entities
      BY DEF Inv, Files, File
    <2>6. \A e \in Entities : base'[e] = IF e = cur.t.of THEN cur.body ELSE base[e]
      BY <1>3 DEF Inv, World, Bases
    <2>7. cur.next = "recoverEntity" => Looking(txn \ {cur.t})'
      <3> SUFFICES ASSUME cur.next = "recoverEntity" PROVE Looking(txn \ {cur.t})'
        OBVIOUS
      <3>1. Looking(txn \ {cur.t})
        BY <2>1 DEF WritingOK
      <3>2. seen'.doc \in Trees' /\ seen'.base \in Bases'
        BY <1>1, <2>4, <3>1 DEF Looking, Trees, Bases, Maybe, Texts
      <3>3. ASSUME NEW t \in txn \ {cur.t}, t.kind = "entity"
            PROVE  base'[t.of] = base[t.of]
        BY <2>2, <2>5, <2>6, <3>3, OneOfEach
      <3>4. txn' \ {cur'.t} = txn \ {cur.t}
        BY <1>1, <2>4
      <3> QED BY <1>1, <2>4, <3>1, <3>2, <3>3 DEF Looking
    <2>8. cur.next = "entity" =>
              Walking' /\ Left(txn \ {cur.t})' /\ (cur.t.of \notin Rest)'
      <3> SUFFICES ASSUME cur.next = "entity"
                   PROVE  Walking' /\ Left(txn \ {cur.t})' /\ (cur.t.of \notin Rest)'
        OBVIOUS
      <3>1. Walking /\ Left(txn \ {cur.t}) /\ cur.t.of \notin Rest
        BY <2>1 DEF WritingOK
      <3>2. Rest \subseteq Entities
        BY <3>1 DEF Walking, Rest, Entities
      <3>3. \A e \in Rest : base'[e] = seen.base[e]
        BY <2>6, <3>1, <3>2 DEF Walking
      <3>4. Walking'
        BY <1>1, <2>4, <3>1, <3>3 DEF Walking, Rest, Trees, Bases, Maybe, Texts
      <3> QED BY <1>1, <2>4, <3>1, <3>4 DEF Left, Rest, Subject
    <2>9. cur.next = "note" => Noted'
      BY <1>1, <2>1, <2>4 DEF WritingOK, Noted
    <2>10. base'[cur.t.of] = cur.body
      BY <2>2, <2>5, <2>6
    <2>11. cur.next # "recoverEntity" => WritingStage'
      BY <1>0, <1>3, <2>1, <2>4 DEF WritingOK, WritingStage, Recovering
    <2>12. WritingOK'
      BY <1>1, <1>3, <2>1, <2>4, <2>7, <2>8, <2>9, <2>10, <2>11
      DEF WritingOK, Recovering
    <2>13. Asked'
      BY <1>0, <1>1, <2>4, AskedStay DEF Inv
    <2>14. Engaged'
      BY <1>3, <2>12, <2>13 DEF Engaged, Places, Quiet, Writing, Hiding
    <2>15. World'
      BY <1>1, <2>3 DEF Inv, World, Trees, Ids, Maybe, Texts
    <2> QED BY <2>3, <2>14, <2>15 DEF Inv
  <1> QED BY <1>2, <1>3 DEF Commit

LEMMA SealInv == ASSUME Inv, Seal PROVE Inv'
  <1>0. /\ pc = "seal" /\ pc' = "remove" /\ Advance
        /\ UNCHANGED <<doc, base, hidden, op, seen, todo, note, bad, people, faults>>
    BY DEF Seal
  <1>1. UNCHANGED <<doc, base, hidden, saves, held, faults, op, seen, todo, note, bad>>
    BY <1>0 DEF people
  <1> DEFINE n == [cur.t EXCEPT !.stage = After(@)]
  <1>2. txn' = (txn \ {cur.t}) \cup {n} /\ cur' = [cur EXCEPT !.t = n]
    BY <1>0 DEF Advance
  <1> HIDE DEF n
  <1>3. WritingOK /\ cur.next # "recoverEntity"
    BY <1>0 DEF Inv, Engaged, Writing, WritingOK
  <1>4. /\ cur.t \in txn /\ cur.t.kind = "entity" /\ cur.body = cur.t.desired
        /\ cur.t.stage = "vault_written" /\ base[cur.t.of] = cur.body
    BY <1>0, <1>3 DEF WritingOK, WritingStage
  <1>5. /\ Files' /\ n \in txn' /\ n.kind = cur.t.kind /\ n.of = cur.t.of
        /\ n.desired = cur.t.desired
        /\ Subject(n) = Subject(cur.t) /\ txn' \ {n} \subseteq txn \ {cur.t}
    BY <1>0, <1>1, <1>2, <1>4, AdvanceFiles DEF Writing, n
  <1>6. cur' = [t |-> n, body |-> cur.body, next |-> cur.next, side |-> cur.side,
                pre |-> cur.pre, write |-> cur.write]
    BY <1>2, <1>3 DEF WritingOK
  <1>7. cur'.t = n /\ cur'.body = cur.body /\ cur'.next = cur.next
        /\ cur'.side = cur.side
    BY <1>6
  <1>8. cur.next = "entity" =>
            Walking' /\ Left(txn \ {cur.t})' /\ (cur.t.of \notin Rest)'
    <2>1. cur.next = "entity" => Walking'
      BY <1>1, <1>3 DEF WritingOK, Walking, Rest, Trees, Bases, Maybe, Texts
    <2>2. cur.next = "entity" => Left(txn \ {cur.t})'
      BY <1>1, <1>3, <1>5, <1>7 DEF WritingOK, Left, Rest, Subject
    <2>3. cur.next = "entity" => (cur.t.of \notin Rest)'
      BY <1>1, <1>3, <1>5, <1>7 DEF WritingOK, Rest
    <2> QED BY <2>1, <2>2, <2>3
  <1>9. cur.next = "note" => Noted' /\ txn' = {n, note'.t}
    <2> SUFFICES ASSUME cur.next = "note" PROVE Noted' /\ txn' = {n, note'.t}
      OBVIOUS
    <2>1. Noted /\ txn = {cur.t, note.t} /\ note.t # cur.t
      BY <1>3, <1>4 DEF WritingOK, Noted
    <2> QED BY <1>1, <1>2, <2>1 DEF Noted
  <1>10. cur.next = "publish" => txn' = {n}
    BY <1>2, <1>3 DEF WritingOK
  <1>11. WritingOK'
    BY <1>0, <1>1, <1>3, <1>4, <1>5, <1>6, <1>7, <1>8, <1>9, <1>10
    DEF WritingOK, WritingStage
  <1>12. Asked'
    BY <1>0, <1>1, AskedStay DEF Inv
  <1>13. Engaged'
    BY <1>0, <1>11, <1>12 DEF Engaged, Places, Quiet, Writing, Hiding
  <1>14. World'
    BY <1>1, WorldStay DEF Inv, World
  <1> QED BY <1>5, <1>13, <1>14 DEF Inv

LEMMA RemoveInv == ASSUME Inv, Remove PROVE Inv'
  <1>0. /\ pc = "remove" /\ txn' = txn \ {cur.t}
        /\ UNCHANGED <<doc, base, hidden, op, seen, todo, note, bad, people, faults>>
    BY DEF Remove
  <1>1. UNCHANGED <<doc, base, hidden, saves, held, faults, op, seen, todo, note, bad>>
    BY <1>0 DEF people
  <1>2. WritingOK
    BY <1>0 DEF Inv, Engaged, Writing
  <1>3. /\ cur.t \in txn /\ cur.t.kind = "entity" /\ cur.body = cur.t.desired
        /\ base[cur.t.of] = cur.body
    BY <1>0, <1>2 DEF WritingOK
  <1>4. Files'
    BY <1>0, <1>1, <1>3, FilesRemove DEF Inv
  <1>5. World'
    BY <1>1, WorldStay DEF Inv, World
  <1>6. Asked'
    BY <1>0, <1>1, AskedStay DEF Inv
  <1>7. CASE cur.next = "note"
    <2>1. cur' = note /\ pc' = "hidden"
      BY <1>7 DEF Remove
    <2>2. Noted /\ txn = {cur.t, note.t} /\ note.t # cur.t
      BY <1>2, <1>3, <1>7 DEF WritingOK, Noted
    <2>3. txn' = {note.t}
      BY <1>0, <2>2
    <2>4. base[note.t.of.entity] = note.body.accepted
      <3>1. Decides(note.t)
        BY <2>2 DEF Inv, Files
      <3>2. cur.t.of = note.t.of.entity /\ cur.t.desired = note.t.desired.accepted
        BY <1>3, <2>2, <3>1 DEF Decides, Noted
      <3> QED BY <1>3, <2>2, <3>2 DEF Noted
    <2>5. HidingOK'
      BY <1>1, <2>1, <2>2, <2>3, <2>4 DEF HidingOK, Noted
    <2> QED BY <1>4, <1>5, <1>6, <2>1, <2>5
            DEF Inv, Engaged, Places, Quiet, Writing, Hiding
  <1>8. CASE cur.next # "note"
    <2>1. pc' = cur.next
      BY <1>8 DEF Remove
    <2>2. CASE cur.next = "entity"
      <3>1. Walking /\ Left(txn \ {cur.t})
        BY <1>2, <2>2 DEF WritingOK
      <3>2. Walking'
        BY <1>1, <3>1 DEF Walking, Rest, Trees, Bases, Maybe, Texts
      <3>3. Left(txn)'
        BY <1>0, <1>1, <3>1 DEF Left, Rest, Subject
      <3> QED BY <1>4, <1>5, <1>6, <2>1, <2>2, <3>2, <3>3
              DEF Inv, Engaged, Places, Quiet, Writing, Hiding
    <2>3. CASE cur.next = "publish"
      <3>1. txn' = {}
        BY <1>0, <1>2, <2>3 DEF WritingOK
      <3> QED BY <1>4, <1>5, <1>6, <2>1, <2>3, <3>1, EngagedQuiet DEF Inv, Quiet
    <2>4. CASE cur.next = "recoverEntity"
      <3>1. Looking(txn \ {cur.t})
        BY <1>2, <2>4 DEF WritingOK
      <3>2. Looking(txn)'
        BY <1>0, <1>1, <3>1 DEF Looking, Trees, Bases, Maybe, Texts
      <3> QED BY <1>4, <1>5, <1>6, <2>1, <2>4, <3>2
              DEF Inv, Engaged, Places, Quiet, Writing, Hiding
    <2> QED BY <1>2, <1>8, <2>2, <2>3, <2>4 DEF WritingOK
  <1> QED BY <1>7, <1>8

-----------------------------------------------------------------------------
(* Writing a hidden file.                                                  *)

LEMMA HiddenWriteInv == ASSUME Inv, HiddenWrite PROVE Inv'
  <1>0. /\ pc = "hidden" /\ cur.t.stage \in {"planned", "project_written"}
        /\ UNCHANGED <<doc, base, txn, people, faults>>
    BY DEF HiddenWrite
  <1>1. UNCHANGED <<doc, base, txn, saves, held, faults>>
    BY <1>0 DEF people
  <1>2. HidingOK
    BY <1>0 DEF Inv, Engaged, Hiding
  <1>3. CASE Fail /\ UNCHANGED hidden
    BY <1>0, <1>1, <1>3, FailEngaged, StayInv DEF Inv, World, Hiding, world
  <1>4. CASE /\ Put(HiddenSide, cur.t.of, cur.body)
             /\ pc' = "hiddenStage" /\ UNCHANGED <<locals, report>>
    <2>1. UNCHANGED <<op, seen, todo, cur, note, bad>>
      BY <1>4 DEF locals
    <2>2. cur.t \in txn /\ File(cur.t) /\ cur.t.kind # "entity"
      BY <1>2 DEF HidingOK, Inv, Files
    <2>3. cur.t.of \in Ids \cup {Ledger}
      BY <2>2 DEF File
    <2>4. \/ cur.t.of = Ledger \/ cur.body = OpenNote
          \/ \A r \in txn : r.kind = "resolve" /\ r.of = cur.t.of =>
                base[r.of.entity] = r.desired.accepted
      <3>1. CASE cur.t.kind \in {"publish", "repair"}
        BY <2>2, <3>1 DEF File
      <3>2. CASE cur.t.kind = "record"
        BY <1>2, <2>2, <3>2 DEF File, HidingOK
      <3>3. CASE cur.t.kind = "resolve"
        <4> SUFFICES ASSUME NEW r \in txn, r.kind = "resolve", r.of = cur.t.of
                     PROVE  base[r.of.entity] = r.desired.accepted
          OBVIOUS
        <4>1. r = cur.t
          BY <2>2, <3>3 DEF Inv, Files, Keyed
        <4> QED BY <1>2, <3>3, <4>1 DEF HidingOK
      <3> QED BY <2>2, <3>1, <3>2, <3>3 DEF File
    <2>5. HiddenSide \in Sides
      BY DEF HiddenSide, Sides
    <2>6. /\ Files' /\ DOMAIN hidden' = Sides
          /\ \A s \in Sides : DOMAIN hidden'[s] \subseteq {Ledger} \cup Ids'
      BY <1>1, <1>4, <2>3, <2>4, <2>5, FilesPut DEF Inv
    <2>7. World'
      BY <1>1, <2>6 DEF Inv, World, Trees, Bases, Maybe, Texts
    <2>8. HidingOK'
      BY <1>0, <1>1, <1>2, <1>4, <2>1
      DEF HidingOK, Walking, Left, Rest, Subject, Trees, Bases, Maybe, Texts
    <2>9. Asked'
      BY <1>0, <1>1, <2>1, AskedStay DEF Inv
    <2> QED BY <1>4, <2>6, <2>7, <2>8, <2>9
            DEF Inv, Engaged, Places, Quiet, Writing, Hiding
  <1> QED BY <1>3, <1>4 DEF HiddenWrite

\* The next stage of a hidden file.
LEMMA AdvanceHidden ==
    ASSUME Inv, pc \in Hiding, pc' = "hidden", Advance,
           cur.t.stage \in {"planned", "project_written", "vault_written"},
           UNCHANGED <<doc, base, hidden, op, seen, todo, note, bad, people, faults>>
    PROVE  Inv'
  <1>1. UNCHANGED <<doc, base, hidden, saves, held, faults, op, seen, todo, note, bad>>
    BY DEF people
  <1> DEFINE n == [cur.t EXCEPT !.stage = After(@)]
  <1>2. txn' = (txn \ {cur.t}) \cup {n} /\ cur' = [cur EXCEPT !.t = n]
    BY DEF Advance
  <1> HIDE DEF n
  <1>3. HidingOK
    BY DEF Inv, Engaged
  <1>4. cur.t \in txn /\ cur.t.kind # "entity"
    BY <1>3 DEF HidingOK
  <1>5. /\ Files' /\ n \in txn' /\ n.kind = cur.t.kind /\ n.of = cur.t.of
        /\ n.desired = cur.t.desired
        /\ Subject(n) = Subject(cur.t) /\ txn' \ {n} \subseteq txn \ {cur.t}
    BY <1>1, <1>2, <1>4, AdvanceFiles DEF n
  <1>6. cur' = [t |-> n, body |-> cur.body, next |-> cur.next, pre |-> cur.pre]
    BY <1>2, <1>3 DEF HidingOK
  <1>7. cur'.t = n /\ cur'.body = cur.body /\ cur'.next = cur.next
    BY <1>6
  <1>8. cur.next = "entity" =>
            Walking' /\ Left(txn \ {cur.t})' /\ (Subject(cur.t) \notin Rest)'
    <2>1. cur.next = "entity" => Walking'
      BY <1>1, <1>3 DEF HidingOK, Walking, Rest, Trees, Bases, Maybe, Texts
    <2>2. cur.next = "entity" => Left(txn \ {cur.t})'
      BY <1>1, <1>3, <1>5, <1>7 DEF HidingOK, Left, Rest, Subject
    <2>3. cur.next = "entity" => (Subject(cur.t) \notin Rest)'
      BY <1>1, <1>3, <1>5, <1>7 DEF HidingOK, Rest, Subject
    <2> QED BY <2>1, <2>2, <2>3
  <1>9. cur.next \in {"done", "align"} => txn' = {n}
    BY <1>2, <1>3 DEF HidingOK
  <1>10. HidingOK'
    BY <1>1, <1>3, <1>4, <1>5, <1>6, <1>7, <1>8, <1>9 DEF HidingOK
  <1>11. Asked'
    BY <1>1, AskedStay DEF Inv, Hiding
  <1>12. World'
    BY <1>1, WorldStay DEF Inv, World
  <1> QED BY <1>5, <1>10, <1>11, <1>12 DEF Inv, Engaged, Places, Quiet, Writing, Hiding

LEMMA HiddenStageInv == ASSUME Inv, HiddenStage PROVE Inv'
  <1>0. pc = "hiddenStage" /\ UNCHANGED <<doc, base, hidden, people, faults>>
    BY DEF HiddenStage
  <1>1. CASE Fail /\ UNCHANGED txn
    BY <1>0, <1>1, FailEngaged, StayInv DEF Inv, World, Hiding, world, people
  <1>2. CASE /\ Advance /\ pc' = "hidden"
             /\ UNCHANGED <<op, seen, todo, note, bad, committed, report>>
    <2>1. cur.t.stage \in {"planned", "project_written"}
      BY <1>0 DEF Inv, Engaged, Hiding, HidingOK
    <2> QED BY <1>0, <1>2, <2>1, AdvanceHidden DEF Hiding
  <1> QED BY <1>1, <1>2 DEF HiddenStage

LEMMA HiddenVerifyInv == ASSUME Inv, HiddenVerify PROVE Inv'
  <1>0. /\ pc = "hidden" /\ UNCHANGED <<doc, base, hidden, people, faults>>
        /\ cur.t.stage \in {"vault_written", "base_committed"}
    BY DEF HiddenVerify
  <1>1. UNCHANGED <<doc, base, hidden, saves, held, faults>>
    BY <1>0 DEF people
  <1>2. CASE Fail /\ UNCHANGED txn
    BY <1>0, <1>1, <1>2, FailEngaged, StayInv DEF Inv, World, Hiding, world
  <1>3. CASE /\ cur.t.stage = "vault_written" /\ Advance
             /\ UNCHANGED <<pc, op, seen, todo, note, bad, committed, report>>
    BY <1>0, <1>3, AdvanceHidden DEF Hiding
  <1>4. CASE /\ txn' = txn \ {cur.t} /\ pc' = cur.next
             /\ UNCHANGED <<op, seen, todo, note, bad, committed, report>>
    <2>1. HidingOK
      BY <1>0 DEF Inv, Engaged, Hiding
    <2>2. Files'
      BY <1>1, <1>4, <2>1, FilesRemove DEF Inv, HidingOK
    <2>3. World'
      BY <1>1, WorldStay DEF Inv, World
    <2>4. Asked'
      BY <1>0, <1>1, <1>4, AskedStay DEF Inv
    <2>5. CASE cur.next = "recover"
      BY <1>4, <2>2, <2>3, <2>4, <2>5, EngagedPlain DEF Inv
    <2>6. CASE cur.next \in {"done", "align"}
      <3>1. txn' = {}
        BY <1>4, <2>1, <2>6 DEF HidingOK
      <3> QED BY <1>4, <2>2, <2>3, <2>4, <2>6, <3>1, EngagedQuiet DEF Inv, Quiet
    <2>7. CASE cur.next = "entity"
      <3>1. Walking /\ Left(txn \ {cur.t})
        BY <2>1, <2>7 DEF HidingOK
      <3>2. Walking'
        BY <1>1, <1>4, <3>1 DEF Walking, Rest, Trees, Bases, Maybe, Texts
      <3>3. Left(txn)'
        BY <1>1, <1>4, <3>1 DEF Left, Rest, Subject
      <3> QED BY <1>4, <2>2, <2>3, <2>4, <2>7, <3>2, <3>3
              DEF Inv, Engaged, Places, Quiet, Writing, Hiding
    <2> QED BY <2>1, <2>5, <2>6, <2>7 DEF HidingOK
  <1> QED BY <1>2, <1>3, <1>4 DEF HiddenVerify

-----------------------------------------------------------------------------
(* The merge.                                                              *)

\* An edited copy of a text is a text, and the merge of texts is one.
LEMMA MixText ==
    ASSUME NEW b \in Texts, NEW units \in [Units -> 0 .. saves]
    PROVE  LET m == FinalizeHumanMerge(b, units)
           IN /\ m \in Texts /\ (m = b \/ m.rev > b.rev)
              /\ (units # b.units => m.rev = b.rev + 1 /\ m.units = units)
  <1>1. b.rev \in Nat \ {0}
    BY DEF Texts
  <1>2. CASE units = b.units
    BY <1>2 DEF FinalizeHumanMerge
  <1>3. CASE units # b.units
    <2>1. FinalizeHumanMerge(b, units) = [units |-> units, rev |-> b.rev + 1]
      BY <1>3 DEF FinalizeHumanMerge
    <2>2. b.rev + 1 \in Nat \ {0} /\ b.rev + 1 > b.rev
      BY <1>1
    <2>3. [units |-> units, rev |-> b.rev + 1] \in Texts
      BY <2>2 DEF Texts
    <2> QED BY <1>3, <2>1, <2>2, <2>3
  <1> QED BY <1>2, <1>3

LEMMA UnitsText == ASSUME NEW d \in Texts PROVE d.units \in [Units -> 0 .. saves]
  BY DEF Texts

\* The merge of what may be absent is a text, or absent when all are.
LEMMA AcceptedText ==
    ASSUME None \notin Texts, NEW b \in Maybe, NEW p \in Maybe, NEW v \in Maybe
    PROVE  LET m == Accepted(b, p, v)
           IN m \in Maybe /\ (b # None => m \in Texts /\ (m = b \/ m.rev > b.rev))
  <1>1. CASE b = None
    BY <1>1 DEF Accepted, Maybe
  <1>2. CASE b # None
    <2> DEFINE units == [u \in Units |->
                            IF Candidate(b, p).units[u] # b.units[u]
                            THEN Candidate(b, p).units[u] ELSE Candidate(b, v).units[u]]
    <2>1. b \in Texts
      BY <1>2 DEF Maybe
    <2>2. Candidate(b, p) \in Texts /\ Candidate(b, v) \in Texts
      BY <2>1 DEF Candidate, Maybe
    <2>3. \A u \in Units : /\ Candidate(b, p).units[u] \in 0 .. saves
                           /\ Candidate(b, v).units[u] \in 0 .. saves
      BY <2>2, UnitsText
    <2>4. units \in [Units -> 0 .. saves]
      BY <2>3
    <2>5. Accepted(b, p, v) = FinalizeHumanMerge(b, units)
      BY <1>2 DEF Accepted
    <2> HIDE DEF units
    <2> QED BY <1>2, <2>1, <2>4, <2>5, MixText DEF Maybe
  <1> QED BY <1>1, <1>2

LEMMA RestOf ==
    ASSUME todo \in {<<History, Overview>>, <<Overview>>, <<>>}
    PROVE  /\ Rest \subseteq Entities
           /\ todo # <<>> =>
                /\ Head(todo) \in Rest /\ Tail(todo) \in {<<Overview>>, <<>>}
                /\ {Tail(todo)[i] : i \in DOMAIN Tail(todo)} = Rest \ {Head(todo)}
  <1>1. CASE todo = <<>>
    BY <1>1 DEF Rest
  <1>2. CASE todo = <<Overview>>
    <2>1. Rest = {Overview} /\ Head(todo) = Overview /\ Tail(todo) = <<>>
      BY <1>2 DEF Rest
    <2> QED BY <2>1 DEF Entities
  <1>3. CASE todo = <<History, Overview>>
    <2>1. Rest = {History, Overview} /\ Head(todo) = History /\ Tail(todo) = <<Overview>>
      BY <1>3 DEF Rest
    <2>2. {Tail(todo)[i] : i \in DOMAIN Tail(todo)} = {Overview}
      BY <2>1
    <2>3. {History, Overview} \ {History} = {Overview}
      BY Distinct
    <2>4. todo # <<>>
      BY <1>3
    <2> QED BY <2>1, <2>2, <2>3, <2>4 DEF Entities
  <1> QED BY <1>1, <1>2, <1>3

-----------------------------------------------------------------------------
(* Reconcile and Resolve.                                                  *)

\* A planned document, whoever plans it.
LEMMA PlanFiles ==
    ASSUME Inv, UNCHANGED <<doc, base, hidden, saves>>,
           NEW e \in Entities, NEW body \in Texts, NEW p \in Maybe, NEW v \in Maybe,
           NEW next, Plan(e, body, p, v, next),
           base[e] # None => \/ body = base[e] \/ body.rev > base[e].rev
                             \/ p # None /\ p.rev < base[e].rev,
           \A r \in txn : r.kind = "entity" => r.of # e,
           \A r \in txn : r.kind = "resolve" =>
              e = r.of.entity /\ body = r.desired.accepted
    PROVE  /\ Files' /\ pc' = "write"
           /\ txn' = txn \cup {cur'.t} /\ cur'.t \notin txn
           /\ cur' = [t |-> cur'.t, body |-> cur'.body, next |-> cur'.next,
                      side |-> cur'.side, pre |-> cur'.pre, write |-> cur'.write]
           /\ cur'.t.kind = "entity" /\ cur'.t.of = e /\ cur'.t.stage = "planned"
           /\ cur'.t.desired = body /\ cur'.body = body /\ cur'.next = next
           /\ cur'.side = "project"
  <1> DEFINE t == Transaction("entity", e, body, base[e], p, v)
             w == IF next = "entity" THEN {s \in Sides : t[s] # body} ELSE Sides
  <1>1. /\ t = [kind |-> "entity", of |-> e, desired |-> body, base |-> base[e],
                project |-> p, vault |-> v, stage |-> "planned"]
    BY DEF Transaction
  <1>2. /\ txn' = txn \cup {t} /\ pc' = "write"
        /\ cur' = [t |-> t, body |-> body, next |-> next, side |-> "project",
                   pre |-> [project |-> p, vault |-> v], write |-> w]
    BY DEF Plan
  <1> HIDE DEF t, w
  <1>3. /\ t.kind = "entity" /\ t.of = e /\ t.desired = body /\ t.base = base[e]
        /\ t.project = p /\ t.vault = v /\ t.stage = "planned"
    BY <1>1
  <1>4. base[e] \in Maybe
    BY DEF Inv, World, Bases
  <1>5. File(t)
    BY <1>1, <1>3, <1>4 DEF File, StageNames
  <1>6. Raises(t)
    BY <1>3 DEF Raises
  <1>7. Files'
    BY <1>2, <1>3, <1>5, <1>6, FilesAdd DEF Inv
  <1>8. t \notin txn
    BY <1>3
  <1> QED BY <1>2, <1>3, <1>7, <1>8

LEMMA SnapshotInv == ASSUME Inv, Snapshot PROVE Inv'
  <1>0. pc = "ready" /\ UNCHANGED <<doc, base, hidden, people, faults>> /\ txn = {}
    BY DEF Snapshot, Inv, Engaged, Quiet
  <1>1. UNCHANGED <<doc, base, hidden, saves, held, faults>>
    BY <1>0 DEF people
  <1> DEFINE p == At("project", Ledger)
             v == At("vault", Ledger)
             t == Transaction("repair", Ledger, p, p, p, v)
  <1>2. CASE Abort /\ UNCHANGED txn
    BY <1>1, <1>2, AbortEngaged, StayInv DEF Inv, World, world
  <1>3. CASE /\ pc' = "scan" /\ UNCHANGED <<txn, op, todo, cur, note, bad, committed, report>>
    <2>1. Asked'
      BY <1>0, <1>1, <1>3, AskedStay DEF Inv
    <2>2. Engaged'
      BY <1>0, <1>3, <2>1, EngagedQuiet DEF Quiet
    <2> QED BY <1>1, <1>3, <2>2, StayInv DEF Inv, World, world
  <1>4. CASE /\ txn' = txn \cup {t} /\ pc' = "hidden"
             /\ cur' = [t |-> t, body |-> p, next |-> "done",
                        pre |-> [project |-> p, vault |-> v]]
             /\ UNCHANGED <<op, seen, todo, note, bad, committed, report>>
    <2> DEFINE body == p
    <2>1. t = [kind |-> "repair", of |-> Ledger, desired |-> p, base |-> p,
               project |-> p, vault |-> v, stage |-> "planned"]
      BY DEF Transaction
    <2> HIDE DEF t, p, v
    <2>2. t.kind = "repair" /\ t.of = Ledger /\ t.stage = "planned"
      BY <2>1
    <2>3. File(t) /\ Raises(t)
      BY <2>1, <2>2 DEF File, Raises, StageNames
    <2>4. Files'
      BY <1>0, <1>1, <1>4, <2>2, <2>3, FilesAdd DEF Inv
    <2>5. cur'.t = t /\ cur'.next = "done"
          /\ cur' = [t |-> cur'.t, body |-> cur'.body, next |-> cur'.next, pre |-> cur'.pre]
      BY <1>4
    <2>6. HidingOK'
      BY <1>0, <1>4, <2>2, <2>5 DEF HidingOK
    <2>7. Asked'
      BY <1>0, <1>1, <1>4, AskedStay DEF Inv
    <2>8. World'
      BY <1>1, WorldStay DEF Inv, World
    <2> QED BY <1>4, <2>4, <2>6, <2>7, <2>8
            DEF Inv, Engaged, Places, Quiet, Writing, Hiding
  <1> QED BY <1>2, <1>3, <1>4 DEF Snapshot

LEMMA ScanInv == ASSUME Inv, Scan PROVE Inv'
  <1>0. /\ pc = "scan" /\ UNCHANGED <<world, op, cur, note, bad, people, faults>>
        /\ txn = {}
        /\ seen' = [project |-> seen.project, vault |-> seen.vault,
                    stale |-> seen.stale, doc |-> doc, base |-> base]
    BY DEF Scan, Inv, Engaged, Quiet
  <1>1. UNCHANGED <<doc, base, txn, saves, held, faults>>
        /\ seen'.doc = doc /\ seen'.base = base
    BY <1>0 DEF people, world
  <1>2. Asked'
    BY <1>0, <1>1, AskedStay DEF Inv
  <1>3. seen'.doc \in Trees' /\ seen'.base \in Bases'
    BY <1>1 DEF Inv, World, Trees, Bases, Maybe, Texts
  <1>4. CASE op.kind = "resolve"
    <2>1. pc' = "choose"
      BY <1>4 DEF Scan
    <2>2. Choosing'
      BY <1>0, <1>1, <1>3, <1>4 DEF Choosing
    <2>3. Engaged'
      BY <1>0, <1>1, <1>2, <2>1, <2>2 DEF Engaged, Places, Quiet, Writing, Hiding
    <2> QED BY <1>0, <1>1, <2>3, StayInv DEF Inv, World
  <1>5. CASE op.kind # "resolve"
    <2>1. pc' = "entity" /\ todo' = <<History, Overview>>
      BY <1>5 DEF Scan
    <2>2. Rest' \subseteq Entities
      BY <2>1 DEF Rest, Entities
    <2>3. Walking' /\ Left(txn)'
      BY <1>0, <1>1, <1>3, <2>1 DEF Walking, Left
    <2>4. Engaged'
      BY <1>2, <2>1, <2>3 DEF Engaged, Places, Quiet, Writing, Hiding
    <2> QED BY <1>0, <1>1, <2>4, StayInv DEF Inv, World
  <1> QED BY <1>4, <1>5

LEMMA EndEntitiesInv == ASSUME Inv, EndEntities PROVE Inv'
  <1>0. pc = "entity" /\ UNCHANGED <<world, people, faults>> /\ Left(txn)
    BY DEF EndEntities, Inv, Engaged
  <1>1. UNCHANGED <<txn, saves, held, faults>>
    BY <1>0 DEF people, world
  <1>2. CASE Abort
    BY <1>0, <1>1, <1>2, AbortEngaged, StayInv DEF Inv, World
  <1>3. CASE ~bad /\ pc' = "align" /\ UNCHANGED locals
    <2>1. UNCHANGED op /\ txn = {}
      BY <1>0, <1>3 DEF locals, Left
    <2>2. Asked'
      BY <1>0, <1>1, <2>1, AskedStay DEF Inv
    <2>3. Engaged'
      BY <1>1, <1>3, <2>1, <2>2, EngagedQuiet DEF Quiet
    <2> QED BY <1>0, <1>1, <2>3, StayInv DEF Inv, World
  <1> QED BY <1>2, <1>3 DEF EndEntities

LEMMA EntityInv == ASSUME Inv, Entity PROVE Inv'
  <1> DEFINE e == Head(todo)
             p == seen.doc["project"][e]
             v == seen.doc["vault"][e]
             b == seen.base[e]
             body == Accepted(b, p, v)
  <1>0. /\ pc = "entity" /\ todo # <<>> /\ todo' = Tail(todo)
        /\ UNCHANGED <<doc, base, hidden, op, seen, note, people, faults>>
        /\ Walking /\ Left(txn)
    BY DEF Entity, Inv, Engaged
  <1>1. UNCHANGED <<doc, base, hidden, saves, held, faults, op, seen>>
    BY <1>0 DEF people
  <1>2. /\ Rest \subseteq Entities /\ e \in Rest
        /\ todo' \in {<<Overview>>, <<>>} /\ Rest' = Rest \ {e}
    <2>1. Rest' = {Tail(todo)[i] : i \in DOMAIN Tail(todo)}
      BY <1>0 DEF Rest
    <2> QED BY <1>0, <2>1, RestOf DEF Walking
  <1>3. /\ e \in Entities /\ base[e] = b
        /\ p \in Maybe /\ v \in Maybe /\ b \in Maybe
    BY <1>0, <1>2 DEF Walking, Trees, Bases, Sides
  <1>4. Walking'
    BY <1>0, <1>1, <1>2 DEF Walking, Trees, Bases, Maybe, Texts
  <1>5. \A t \in txn : t.kind \in {"entity", "record"} /\ Subject(t) \notin Rest
    BY <1>0 DEF Left
  <1>6. Asked'
    BY <1>0, <1>1, AskedStay DEF Inv
  <1>7. World'
    BY <1>1, WorldStay DEF Inv, World
  <1> HIDE DEF e, p, v, b, body
  <1>8. CASE UNCHANGED <<txn, pc, cur>> /\ (bad' = bad \/ bad' = TRUE)
    <2>1. Left(txn)'
      BY <1>0, <1>2, <1>5, <1>8 DEF Left, Subject
    <2>2. Files'
      BY <1>1, <1>8, FilesStay DEF Inv
    <2> QED BY <1>0, <1>4, <1>6, <1>7, <1>8, <2>1, <2>2
            DEF Inv, Engaged, Places, Quiet, Writing, Hiding
  <1>9. CASE SeenClash(e) /\ PersistConflictRecord(e) /\ pc' = "hidden"
    <2> DEFINE id == ConflictID(e, b, p, v)
               at == [s \in Sides |-> At(s, id)]
               t == Transaction("record", id, OpenNote, OpenNote,
                                at["project"], at["vault"])
    <2>1. /\ bad' = TRUE /\ txn' = txn \cup {t}
          /\ cur' = [t |-> t, body |-> OpenNote, next |-> "entity", pre |-> at]
      BY <1>0, <1>9 DEF PersistConflictRecord, e, p, v, b
    <2>2. t = [kind |-> "record", of |-> id, desired |-> OpenNote, base |-> OpenNote,
               project |-> at["project"], vault |-> at["vault"], stage |-> "planned"]
      BY DEF Transaction
    <2>3. id = [entity |-> e, base |-> b, project |-> p, vault |-> v]
      BY DEF ConflictID
    <2> HIDE DEF t, at, id
    <2>4. id \in Ids \ {Ledger} /\ id.entity = e
      BY <1>3, <2>3, Worldly DEF Ids, Inv
    <2>5. /\ t.kind = "record" /\ t.of = id /\ t.desired = OpenNote
          /\ t.stage = "planned"
      BY <2>2
    <2>6. File(t) /\ Raises(t)
      BY <2>2, <2>4, <2>5 DEF File, Raises, StageNames
    <2>7. \A r \in txn : r.kind # "record" \/ r.of # id
      BY <1>2, <1>5, <2>4 DEF Subject
    <2>8. Files'
      BY <1>1, <2>1, <2>5, <2>6, <2>7, FilesAdd DEF Inv
    <2>9. /\ cur'.t = t /\ cur'.body = OpenNote /\ cur'.next = "entity"
          /\ cur' = [t |-> cur'.t, body |-> cur'.body, next |-> cur'.next, pre |-> cur'.pre]
      BY <2>1
    <2>10. Subject(t) = e
      BY <2>4, <2>5 DEF Subject
    <2>11. Left(txn \ {cur.t})' /\ (Subject(cur.t) \notin Rest)'
      BY <1>2, <1>5, <2>1, <2>9, <2>10 DEF Left, Subject
    <2>12. HidingOK'
      BY <1>4, <1>9, <2>1, <2>5, <2>9, <2>11 DEF HidingOK
    <2> QED BY SMTT(60), <1>6, <1>7, <1>9, <2>8, <2>12
            DEF Inv, Engaged, Places, Quiet, Writing, Hiding
  <1>10. CASE body # None /\ Plan(e, body, p, v, "entity") /\ bad' = bad
    <2>1. body \in Texts /\ (b # None => body = b \/ body.rev > b.rev)
      BY <1>3, <1>10, AcceptedText, Worldly DEF Inv, Maybe, body
    <2>2. \A r \in txn : r.kind = "entity" => r.of # e
      BY <1>2, <1>5 DEF Subject
    <2>3. /\ Files' /\ pc' = "write"
          /\ txn' = txn \cup {cur'.t}
          /\ cur' = [t |-> cur'.t, body |-> cur'.body, next |-> cur'.next,
                     side |-> cur'.side, pre |-> cur'.pre, write |-> cur'.write]
          /\ cur'.t.kind = "entity" /\ cur'.t.of = e /\ cur'.t.stage = "planned"
          /\ cur'.t.desired = body /\ cur'.body = body /\ cur'.next = "entity"
          /\ cur'.side = "project"
      BY <1>1, <1>3, <1>5, <1>10, <2>1, <2>2, PlanFiles
    <2>4. Left(txn \ {cur.t})'
      BY <1>0, <1>2, <1>5, <1>10, <2>3 DEF Left, Subject
    <2>5. WritingOK'
      BY <1>2, <1>4, <2>3, <2>4 DEF WritingOK, WritingStage, Sides
    <2> QED BY <1>6, <1>7, <2>3, <2>5 DEF Inv, Engaged, Places, Quiet, Writing, Hiding
  <1>11. \/ SeenClash(e) /\ PersistConflictRecord(e)
         \/ UNCHANGED <<txn, pc, cur, bad, committed>>
         \/ body # None /\ Plan(e, body, p, v, "entity") /\ UNCHANGED bad
    BY DEF Entity, e, p, v, b, body
  <1>12. ASSUME SeenClash(e), PersistConflictRecord(e)
         PROVE  pc' = "hidden" \/ (UNCHANGED <<txn, pc, cur>> /\ bad' = TRUE)
    BY <1>12 DEF PersistConflictRecord
  <1> QED BY <1>8, <1>9, <1>10, <1>11, <1>12

\* The lifted text is the project document at a higher revision.
LEMMA LiftedText ==
    ASSUME Inv, None \notin {doc[s][e] : s \in Sides, e \in Entities}, NEW e \in Behind
    PROVE  /\ e \in Entities /\ doc["project"][e] \in Texts /\ doc["vault"][e] \in Texts
           /\ Lifted(e) \in Texts /\ Lifted(e).units = doc["project"][e].units
           /\ Lifted(e).rev > doc["project"][e].rev
  <1> DEFINE now == doc["project"]
             top == CHOOSE r \in {now[f].rev : f \in Entities} : r # now[e].rev
             body == Lifted(e)
  <1>0. e \in Entities /\ (\A f \in Entities : now[f] \in Texts) /\ doc["vault"][e] \in Texts
    BY DEF Behind, Inv, World, Trees, Maybe, Sides
  <1>1. PICK f \in Entities : now[e].rev < now[f].rev
    BY DEF Behind
  <1>2. \A g \in Entities : now[g].rev \in Nat \ {0}
    BY <1>0 DEF Texts
  <1>3. top \in {now[g].rev : g \in Entities} /\ top # now[e].rev
    <2>1. now[f].rev \in {now[g].rev : g \in Entities} /\ now[f].rev # now[e].rev
      BY <1>0, <1>1, <1>2
    <2> QED BY <2>1
  <1>4. top = now[f].rev
    <2>1. PICK g \in Entities : top = now[g].rev
      BY <1>3
    <2>2. g # e /\ f # e
      BY <1>0, <1>1, <1>2, <1>3, <2>1
    <2>3. g = f
      BY <1>0, <2>2 DEF Entities
    <2> QED BY <2>1, <2>3
  <1>5. top \in Nat \ {0} /\ now[e].rev < top
    BY <1>1, <1>2, <1>4
  <1>6. now[e] = [units |-> now[e].units, rev |-> now[e].rev]
        /\ now[e].units \in [Units -> 0 .. saves]
    BY <1>0 DEF Texts
  <1>70. body = [now[e] EXCEPT !.rev = top]
    BY DEF Lifted
  <1>7. body = [units |-> now[e].units, rev |-> top]
    <2> HIDE DEF top, body
    <2> QED BY <1>6, <1>70
  <1> HIDE DEF top
  <1>8. body \in Texts /\ body.rev = top
    BY <1>5, <1>6, <1>7 DEF Texts
  <1> QED BY <1>0, <1>5, <1>7, <1>8

LEMMA AlignInv == ASSUME Inv, Align PROVE Inv'
  <1> DEFINE now == doc["project"]
  <1>0. /\ pc = "align" /\ txn = {}
        /\ UNCHANGED <<doc, base, hidden, saves, undisturbed, disturbed, faults>>
    BY DEF Align, Inv, Engaged, Quiet
  <1>1. CASE Abort /\ UNCHANGED <<txn, held>>
    BY <1>0, <1>1, AbortEngaged, StayInv DEF Inv, World, world
  <1>2. CASE pc' = "publish" /\ UNCHANGED <<txn, locals, report, held>>
    <2>1. UNCHANGED op
      BY <1>2 DEF locals
    <2>2. Asked'
      BY <1>0, <2>1, AskedStay DEF Inv
    <2>3. Engaged'
      BY <1>0, <1>2, <2>2, EngagedQuiet DEF Quiet
    <2> QED BY <1>0, <1>2, <2>3, StayInv DEF Inv, World, world
  <1>3. ASSUME None \notin {doc[s][e] : s \in Sides, e \in Entities},
               NEW e \in Behind, base[e] # None, Lift(e)
        PROVE  Inv'
    <2> DEFINE body == Lifted(e)
    <2>0. /\ e \in Entities /\ now[e] \in Texts /\ doc["vault"][e] \in Texts
          /\ body \in Texts /\ body.rev > now[e].rev
      BY <1>3, LiftedText
    <2> HIDE DEF body
    <2>9. base[e] # None /\ Plan(e, body, now[e], doc["vault"][e], "publish")
          /\ held' \subseteq held /\ UNCHANGED <<op, seen, todo, note, bad>>
      BY <1>3 DEF Lift, body
    <2>10. now[e] \in Maybe /\ doc["vault"][e] \in Maybe /\ now[e] # None
      BY <2>0, Worldly DEF Inv, Maybe
    <2>11. base[e] \in Texts
      BY <2>0, <2>9 DEF Inv, World, Bases, Maybe
    <2>12. body.rev > base[e].rev \/ now[e].rev < base[e].rev
      <3>1. base[e].rev \in Nat /\ now[e].rev \in Nat /\ body.rev \in Nat
        BY <2>0, <2>11 DEF Texts
      <3> QED BY <2>0, <3>1
    <2>13. UNCHANGED <<doc, base, hidden, saves>>
      BY <1>0
    <2>14. /\ Files' /\ pc' = "write"
           /\ txn' = txn \cup {cur'.t}
           /\ cur' = [t |-> cur'.t, body |-> cur'.body, next |-> cur'.next,
                      side |-> cur'.side, pre |-> cur'.pre, write |-> cur'.write]
           /\ cur'.t.kind = "entity" /\ cur'.t.of = e /\ cur'.t.stage = "planned"
           /\ cur'.t.desired = body /\ cur'.body = body /\ cur'.next = "publish"
           /\ cur'.side = "project"
      BY <1>0, <2>0, <2>9, <2>10, <2>12, <2>13, PlanFiles
    <2>15. WritingOK'
      BY <1>0, <2>14 DEF WritingOK, WritingStage, Sides
    <2>16. Asked'
      BY <1>0, <2>9, AskedStay DEF Inv
    <2>17. World'
      BY <1>0, <2>9, WorldStay DEF Inv, World
    <2> QED BY <2>14, <2>15, <2>16, <2>17
            DEF Inv, Engaged, Places, Quiet, Writing, Hiding
  <1>4. ASSUME NEW e \in Behind, base[e] = None, Lift(e)
        PROVE  Inv'
    BY <1>1, <1>4 DEF Lift
  <1> QED BY <1>1, <1>2, <1>3, <1>4 DEF Align

LEMMA PublishInv == ASSUME Inv, Publish PROVE Inv'
  <1>0. pc = "publish" /\ UNCHANGED <<doc, base, hidden, people, faults>> /\ txn = {}
    BY DEF Publish, Inv, Engaged, Quiet
  <1>1. UNCHANGED <<doc, base, hidden, saves, held, faults>>
    BY <1>0 DEF people
  <1>2. CASE Abort /\ UNCHANGED txn
    BY <1>1, <1>2, AbortEngaged, StayInv DEF Inv, World, world
  <1>3. CASE pc' = "done" /\ UNCHANGED <<txn, locals, report>>
    <2>1. Asked'
      BY <1>0, <1>1, <1>3, AskedStay DEF Inv, locals
    <2>2. Engaged'
      BY <1>0, <1>3, <2>1, EngagedQuiet DEF Quiet
    <2> QED BY <1>1, <1>3, <2>2, StayInv DEF Inv, World, world
  <1>4. ASSUME NEW body, NEW t,
               t = Transaction("publish", Ledger, body, seen.project,
                               seen.project, seen.vault),
               txn' = txn \cup {t}, pc' = "hidden",
               cur' = [t |-> t, body |-> body, next |-> "done",
                       pre |-> [project |-> seen.project, vault |-> seen.vault]],
               UNCHANGED <<op, seen, todo, note, bad, committed, report>>
        PROVE  Inv'
    <2>1. t = [kind |-> "publish", of |-> Ledger, desired |-> body,
               base |-> seen.project, project |-> seen.project, vault |-> seen.vault,
               stage |-> "planned"]
      BY <1>4 DEF Transaction
    <2>2. t.kind = "publish" /\ t.of = Ledger /\ t.stage = "planned"
      BY <2>1
    <2>3. File(t) /\ Raises(t)
      BY <2>1, <2>2 DEF File, Raises, StageNames
    <2>4. Files'
      BY <1>0, <1>1, <1>4, <2>2, <2>3, FilesAdd DEF Inv
    <2>5. cur'.t = t /\ cur'.next = "done"
          /\ cur' = [t |-> cur'.t, body |-> cur'.body, next |-> cur'.next, pre |-> cur'.pre]
      BY <1>4
    <2>6. HidingOK'
      BY <1>0, <1>4, <2>2, <2>5 DEF HidingOK
    <2>7. Asked'
      BY <1>0, <1>1, <1>4, AskedStay DEF Inv
    <2>8. World'
      BY <1>1, WorldStay DEF Inv, World
    <2> QED BY <1>4, <2>4, <2>6, <2>7, <2>8
            DEF Inv, Engaged, Places, Quiet, Writing, Hiding
  <1> QED BY <1>2, <1>3, <1>4 DEF Publish

\* Where both sides changed a unit, a choice between them is a new text.
LEMMA ChoiceText ==
    ASSUME NEW b \in Texts, NEW p \in Texts, NEW v \in Texts,
           p # None, v # None, b # None, Clash(b, p, v), p.rev = b.rev, v.rev = b.rev,
           NEW choice \in Choices(p, v)
    PROVE  LET m == FinalizeHumanMerge(b, choice.units)
           IN m \in Texts /\ m.rev = b.rev + 1
  <1>1. PICK mix \in [Units -> 0 .. MaxSaves] :
           /\ \A u \in Units : mix[u] \in {p.units[u], v.units[u]}
           /\ choice = [p EXCEPT !.units = mix]
    BY DEF Choices
  <1>2. p = [units |-> p.units, rev |-> p.rev]
    BY DEF Texts
  <1>3. choice.units = mix
    BY <1>1, <1>2
  <1>4. \A u \in Units : mix[u] \in 0 .. saves
    <2>1. \A u \in Units : p.units[u] \in 0 .. saves /\ v.units[u] \in 0 .. saves
      BY UnitsText
    <2> QED BY <1>1, <2>1
  <1>5. mix \in [Units -> 0 .. saves]
    BY <1>4
  <1>6. PICK u \in Units : UnitClash(b.units[u], p.units[u], v.units[u])
    BY DEF Clash, Candidate
  <1>7. mix # b.units
    BY <1>1, <1>6 DEF UnitClash
  <1> QED BY <1>3, <1>5, <1>7, MixText

LEMMA ChooseInv == ASSUME Inv, Choose PROVE Inv'
  <1>0. /\ pc = "choose" /\ txn = {} /\ Choosing
        /\ UNCHANGED <<doc, base, hidden, saves, undisturbed, disturbed, faults>>
    BY DEF Choose, Inv, Engaged, Quiet
  <1>1. CASE Abort /\ UNCHANGED <<txn, held>>
    BY <1>0, <1>1, AbortEngaged, StayInv DEF Inv, World, world
  <1>2. ASSUME NEW id, id = op.id, Resolvable(id), NEW e, e = id.entity,
               NEW choice \in Choices(id.project, id.vault), NEW next,
               NEW body, body = FinalizeHumanMerge(id.base, choice.units),
               NEW t, t = Transaction("resolve", id, [accepted |-> body],
                                      OpenNote, OpenNote, OpenNote),
               txn' = txn \cup {t},
               note' = [t |-> t, body |-> [accepted |-> body],
                        pre |-> [project |-> OpenNote, vault |-> OpenNote],
                        next |-> next],
               next \in {"done", "align"}, held' \subseteq held, pc' = "resolve",
               UNCHANGED <<op, seen, todo, cur, bad, committed, report>>
        PROVE  Inv'
    <2>1. id \in Ids \ {Ledger} /\ op.kind = "resolve"
      BY <1>0, <1>2 DEF Inv, Engaged, Asked, Choosing
    <2>2. /\ e \in Entities /\ id.base \in Maybe
          /\ id.project \in Maybe /\ id.vault \in Maybe
      BY <1>2, <2>1 DEF Ids
    <2>3. /\ At("project", id) = OpenNote /\ At("vault", id) = OpenNote
          /\ base[e] # None /\ base[e] = id.base
          /\ seen.doc["project"][e] = id.project /\ seen.doc["vault"][e] = id.vault
          /\ None \notin {id.project, id.vault}
          /\ id.project.rev = id.base.rev /\ id.vault.rev = id.base.rev
          /\ Clash(id.base, id.project, id.vault)
      BY <1>0, <1>2 DEF Resolvable, Choosing, SeenClash
    <2>4. id.base \in Texts /\ id.project \in Texts /\ id.vault \in Texts
      BY <2>2, <2>3 DEF Maybe
    <2>5. body \in Texts /\ body.rev = id.base.rev + 1
      BY <1>2, <2>3, <2>4, ChoiceText
    <2>6. id.base.rev \in Nat
      BY <2>4 DEF Texts
    <2>7. /\ txn' = txn \cup {t}
          /\ note' = [t |-> t, body |-> [accepted |-> body],
                      pre |-> [project |-> OpenNote, vault |-> OpenNote], next |-> next]
      BY <1>2
    <2>8. t = [kind |-> "resolve", of |-> id, desired |-> [accepted |-> body],
               base |-> OpenNote, project |-> OpenNote, vault |-> OpenNote,
               stage |-> "planned"]
      BY <1>2 DEF Transaction
    <2>9. /\ t.kind = "resolve" /\ t.of = id /\ t.desired = [accepted |-> body]
          /\ t.desired.accepted = body /\ t.base = OpenNote /\ t.stage = "planned"
      BY <2>8
    <2>10. File(t) /\ Raises(t)
      BY <2>1, <2>5, <2>8, <2>9 DEF File, Raises, StageNames, Close
    <2>11. Decides(t)'
      <3>1. \A f \in txn' : f.kind # "entity"
        BY <1>0, <2>7, <2>9
      <3>2. ASSUME NEW s \in Sides PROVE At(s, id)' = OpenNote /\ doc'[s][e] # body
        <4>1. At(s, id)' = At(s, id)
          BY <1>0 DEF At
        <4>2. At(s, id) = OpenNote
          BY <2>3 DEF Sides
        <4>3. ASSUME doc[s][e] = body PROVE FALSE
          <5>1. doc[s][e] # None
            BY <2>5, <4>3, Worldly DEF Inv
          <5>2. seen.doc[s][e].rev = id.base.rev
            BY <2>3 DEF Sides
          <5>3. doc[s][e].rev = id.base.rev
            BY <1>0, <2>2, <2>3, <5>1, <5>2 DEF Choosing
          <5> QED BY <2>5, <2>6, <4>3, <5>3
        <4> QED BY <1>0, <4>1, <4>2, <4>3
      <3>3. Undecided(t)'
        BY <1>2, <2>9, <3>2 DEF Undecided
      <3> QED BY <3>1, <3>3 DEF Decides
    <2>12. UNCHANGED <<doc, base, hidden, saves>>
      BY <1>0
    <2>13. Files'
      BY <1>0, <2>7, <2>9, <2>10, <2>11, <2>12, FilesAdd DEF Inv
    <2>14. /\ note'.t = t /\ note'.body = t.desired /\ note'.next = next
           /\ note' = [t |-> note'.t, body |-> note'.body, pre |-> note'.pre,
                       next |-> note'.next]
           /\ note'.body.accepted = body
      BY <2>7, <2>9
    <2>15. body.rev > id.base.rev
      BY <2>5, <2>6
    <2>16. op' = op
      BY <1>2
    <2>17. Noted' /\ txn' = {t}
      BY <1>0, <1>2, <2>1, <2>7, <2>9, <2>14, <2>16 DEF Noted
    <2>18. Resolving'
      BY <1>2, <2>3, <2>9, <2>12, <2>14, <2>15, <2>16, <2>17 DEF Resolving
    <2>19. Asked'
      BY <1>0, <2>16, AskedStay DEF Inv
    <2>20. World'
      BY <1>0, <1>2, WorldStay DEF Inv, World
    <2> QED BY <1>2, <2>13, <2>18, <2>19, <2>20
            DEF Inv, Engaged, Places, Quiet, Writing, Hiding
  <1>3. CASE Resolvable(op.id)
    <2> DEFINE id == op.id
    <2>1. PICK choice \in Choices(id.project, id.vault) :
             LET body == FinalizeHumanMerge(id.base, choice.units)
                 t == Transaction("resolve", id, [accepted |-> body],
                                  OpenNote, OpenNote, OpenNote)
                 others == \E f \in Entities \ {id.entity} :
                              seen.base[f] # None /\ SeenClash(f)
             IN /\ txn' = txn \cup {t}
                /\ note' = [t |-> t, body |-> [accepted |-> body],
                            pre |-> [project |-> OpenNote, vault |-> OpenNote],
                            next |-> IF others THEN "done" ELSE "align"]
                /\ held' = held \ ((Edits(id.project) \cup Edits(id.vault))
                                     \ Edits(body))
                /\ pc' = "resolve"
                /\ UNCHANGED <<op, seen, todo, cur, bad, committed, report>>
      BY <1>3 DEF Choose
    <2> DEFINE next == IF \E f \in Entities \ {id.entity} :
                              seen.base[f] # None /\ SeenClash(f)
                       THEN "done" ELSE "align"
    <2>2. next \in {"done", "align"}
      OBVIOUS
    <2>3. held' \subseteq held
      BY <2>1
    <2> QED BY <1>2, <1>3, <2>1, <2>2, <2>3
  <1> QED BY <1>1, <1>3 DEF Choose

LEMMA ResolveDocumentInv == ASSUME Inv, ResolveDocument PROVE Inv'
  <1> DEFINE id == op.id
             e == id.entity
             body == note.body.accepted
  <1>0. /\ pc = "resolve" /\ Plan(e, body, id.project, id.vault, "note")
        /\ UNCHANGED <<doc, base, hidden, op, seen, todo, note, bad, people, faults>>
        /\ Resolving
    BY DEF ResolveDocument, Inv, Engaged
  <1>1. UNCHANGED <<doc, base, hidden, saves, held, faults, op, seen, todo, note, bad>>
    BY <1>0 DEF people
  <1>2. Noted /\ txn = {note.t} /\ note.t.of = id /\ op.kind = "resolve"
    BY <1>0 DEF Resolving, Noted
  <1>3. id \in Ids
    BY <1>0, <1>2 DEF Inv, Engaged, Asked
  <1>4. e \in Entities /\ id.project \in Maybe /\ id.vault \in Maybe
    BY <1>3 DEF Ids
  <1>5. note.t \in txn /\ note.t.kind = "resolve" /\ body = note.t.desired.accepted
    BY <1>2 DEF Noted
  <1>6. body \in Texts
    BY <1>5 DEF Inv, Files, File, Close
  <1>7. body.rev > base[e].rev
    BY <1>0 DEF Resolving
  <1> HIDE DEF e, id, body
  <1>8. /\ Files' /\ pc' = "write"
        /\ txn' = txn \cup {cur'.t}
        /\ cur' = [t |-> cur'.t, body |-> cur'.body, next |-> cur'.next,
                   side |-> cur'.side, pre |-> cur'.pre, write |-> cur'.write]
        /\ cur'.t.kind = "entity" /\ cur'.t.of = e /\ cur'.t.stage = "planned"
        /\ cur'.t.desired = body /\ cur'.body = body /\ cur'.next = "note"
        /\ cur'.side = "project"
    <2>1. \A r \in txn : r.kind = "resolve" =>
             e = r.of.entity /\ body = r.desired.accepted
      BY <1>2, <1>5 DEF e
    <2>2. \A r \in txn : r.kind = "entity" => r.of # e
      BY <1>2, <1>5
    <2> QED BY <1>0, <1>1, <1>4, <1>6, <1>7, <2>1, <2>2, PlanFiles
  <1>9. Noted' /\ txn' = {cur'.t, note'.t}
    BY <1>1, <1>2, <1>8 DEF Noted
  <1>10. WritingOK'
    BY <1>8, <1>9 DEF WritingOK, WritingStage, Sides
  <1>11. Asked'
    BY <1>0, <1>1, AskedStay DEF Inv
  <1>12. World'
    BY <1>1, WorldStay DEF Inv, World
  <1> QED BY <1>8, <1>10, <1>11, <1>12 DEF Inv, Engaged, Places, Quiet, Writing, Hiding

-----------------------------------------------------------------------------
(* People, and faults.                                                     *)

\* A save changes nothing that a step under way relies on: its text has an
\* edit that no planned text has, and it keeps a revision.
LEMMA SaveEngaged ==
    ASSUME Inv, saves' = saves + 1, UNCHANGED <<base, txn, pc, locals>>,
           \A s \in Sides, e \in Entities :
              /\ doc'[s][e] \in Texts => doc'[s][e] = doc[s][e]
              /\ base[e] # None /\ doc'[s][e] # None =>
                    \/ doc'[s][e].rev = base[e].rev
                    \/ doc[s][e] # None /\ doc'[s][e].rev = doc[s][e].rev
    PROVE  Engaged'
  <1>0. UNCHANGED <<base, txn, pc, op, seen, todo, cur, note, bad>> /\ saves \in Nat
    BY Worldly DEF locals, Inv
  <1>1. /\ Ids \subseteq Ids' /\ Bases \subseteq Bases' /\ Trees \subseteq Trees'
    BY <1>0, MoreTexts
  <1>2. pc # "idle" => Asked'
    BY <1>0, <1>1 DEF Inv, Engaged, Asked
  <1>3. pc = "choose" => Choosing'
    <2> SUFFICES ASSUME Choosing PROVE Choosing'
      BY DEF Inv, Engaged
    <2>1. \A s \in Sides, e \in Entities : base[e] # None /\ doc'[s][e] # None =>
             \/ doc'[s][e].rev = base[e].rev
             \/ seen.doc[s][e] # None /\ doc'[s][e].rev = seen.doc[s][e].rev
      BY DEF Choosing
    <2> QED BY <1>0, <1>1, <2>1 DEF Choosing
  <1>4. Resolving => Resolving'
    BY <1>0 DEF Resolving, Noted
  <1>5. Walking => Walking'
    BY <1>0, <1>1 DEF Walking, Rest
  <1>6. ASSUME NEW files, files \subseteq txn, Looking(files) PROVE Looking(files)'
    <2> SUFFICES ASSUME NEW t \in files, t.kind = "entity", NEW s \in Sides,
                        doc'[s][t.of] = t.desired
                 PROVE  seen.doc[s][t.of] = t.desired
      BY <1>0, <1>1, <1>6 DEF Looking
    <2>1. t.of \in Entities /\ t.desired \in Texts
      BY <1>6 DEF Inv, Files, File
    <2>2. doc[s][t.of] = t.desired
      BY <2>1
    <2> QED BY <1>6, <2>2 DEF Looking
  <1>7. ASSUME NEW files PROVE Left(files)' <=> Left(files)
    BY <1>0 DEF Left, Rest, Subject
  <1>8. pc \in Writing => WritingOK'
    <2> SUFFICES ASSUME WritingOK PROVE WritingOK'
      BY DEF Inv, Engaged
    <2>1. cur.next = "recoverEntity" => Looking(txn \ {cur.t})'
      <3>1. txn \ {cur.t} \subseteq txn
        OBVIOUS
      <3> QED BY <1>0, <1>6, <3>1 DEF WritingOK
    <2>2. cur.next # "recoverEntity" => WritingStage'
      BY <1>0 DEF WritingOK, WritingStage
    <2>3. cur.next = "entity" =>
             Walking' /\ Left(txn \ {cur.t})' /\ (cur.t.of \notin Rest)'
      BY <1>0, <1>5, <1>7 DEF WritingOK, Rest
    <2>4. cur.next = "note" => Noted' /\ (txn = {cur.t, note.t})'
      BY <1>0 DEF WritingOK, Noted
    <2> QED BY <1>0, <2>1, <2>2, <2>3, <2>4 DEF WritingOK
  <1>9. pc \in Hiding => HidingOK'
    <2> SUFFICES ASSUME HidingOK PROVE HidingOK'
      BY DEF Inv, Engaged
    <2>1. cur.next = "entity" =>
             Walking' /\ Left(txn \ {cur.t})' /\ (Subject(cur.t) \notin Rest)'
      BY <1>0, <1>5, <1>7 DEF HidingOK, Rest, Subject
    <2> QED BY <1>0, <2>1 DEF HidingOK
  <1>10. pc = "recoverEntity" => Looking(txn)'
    BY <1>0, <1>6 DEF Inv, Engaged
  <1>11. pc = "entity" => Walking' /\ Left(txn)'
    BY <1>0, <1>5, <1>7 DEF Inv, Engaged
  <1> QED BY <1>0, <1>2, <1>3, <1>4, <1>8, <1>9, <1>10, <1>11 DEF Inv, Engaged

LEMMA SaveInv ==
    ASSUME Inv, NEW z \in Sides, NEW e \in Entities, NEW d \in Maybe' \ Texts,
           NEW dropped, Save(z, e, d, dropped),
           d # None => \/ base[e] # None => d.rev = base[e].rev
                       \/ doc[z][e] # None /\ d.rev = doc[z][e].rev
    PROVE  Inv'
  <1>1. /\ saves < MaxSaves /\ saves' = saves + 1
        /\ doc' = [doc EXCEPT ![z][e] = d]
        /\ held' \subseteq held \cup {saves'}
        /\ UNCHANGED <<base, hidden, txn, pc, locals, faults>>
    BY DEF Save
  <1>2. saves \in Nat /\ MaxSaves \in Nat
    BY Worldly, Distinct DEF Inv
  <1>3. /\ Ids \subseteq Ids' /\ Bases \subseteq Bases' /\ Trees \subseteq Trees'
    BY <1>1, <1>2, MoreTexts
  <1>4. \A s \in Sides, f \in Entities :
           doc'[s][f] = IF s = z /\ f = e THEN d ELSE doc[s][f]
    BY <1>1 DEF Inv, World, Trees
  <1>5. doc' \in Trees'
    <2>1. doc \in Trees'
      BY <1>3 DEF Inv, World
    <2> QED BY <1>1, <2>1 DEF Trees
  <1>6. World'
    <2>1. saves' \in 0 .. MaxSaves /\ saves' \in 1 .. MaxSaves
      BY <1>1, <1>2
    <2>2. held' \subseteq 1 .. MaxSaves
      BY <1>1, <2>1 DEF Inv, World
    <2> QED BY <1>1, <1>3, <1>5, <2>1, <2>2 DEF Inv, World
  <1>7. Files'
    BY <1>1, FilesSave DEF Inv
  <1>8. Engaged'
    BY <1>1, <1>4, SaveEngaged
  <1> QED BY <1>6, <1>7, <1>8 DEF Inv

\* An edited unit holds an edit that no text had before.
LEMMA FreshText ==
    ASSUME World, saves' = saves + 1, NEW d \in Texts, NEW u \in Units,
           NEW w, w = [d EXCEPT !.units[u] = saves + 1]
    PROVE  w \in Texts' \ Texts /\ w.rev = d.rev
  <1>0. saves \in Nat
    BY Worldly
  <1>1. /\ d = [units |-> d.units, rev |-> d.rev] /\ d.rev \in Nat \ {0}
        /\ d.units \in [Units -> 0 .. saves]
    BY DEF Texts
  <1>2. w = [units |-> [d.units EXCEPT ![u] = saves + 1], rev |-> d.rev]
    BY <1>1
  <1> DEFINE m == [d.units EXCEPT ![u] = saves + 1]
  <1>3. m[u] = saves + 1 /\ m \in [Units -> 0 .. saves']
    <2>1. saves + 1 \in 0 .. saves' /\ 0 .. saves \subseteq 0 .. saves'
      BY <1>0
    <2> QED BY <1>1, <2>1
  <1>4. w.units = m /\ w.rev = d.rev
    BY <1>2
  <1>5. w \in Texts'
    <2> HIDE DEF m
    <2>1. w = [units |-> m, rev |-> d.rev]
      BY <1>2 DEF m
    <2> QED BY <1>1, <1>3, <2>1 DEF Texts
  <1>6. ASSUME w \in Texts PROVE FALSE
    <2>1. w.units[u] \in 0 .. saves
      BY <1>6 DEF Texts
    <2> QED BY <1>0, <1>3, <1>4, <2>1
  <1> QED BY <1>4, <1>5, <1>6

LEMMA EditInv ==
    ASSUME Inv, NEW s \in Sides, NEW e \in Entities, NEW u \in Units, Edit(s, e, u)
    PROVE  Inv'
  <1> DEFINE d == [doc[s][e] EXCEPT !.units[u] = saves + 1]
  <1>1. doc[s][e] # None /\ Save(s, e, d, {doc[s][e].units[u]})
    BY DEF Edit
  <1>2. doc[s][e] \in Texts /\ saves' = saves + 1
    BY <1>1 DEF Inv, World, Trees, Maybe, Save
  <1> HIDE DEF d
  <1>3. d \in Texts' \ Texts /\ d.rev = doc[s][e].rev
    BY <1>2, FreshText DEF d, Inv
  <1>4. d \in Maybe' \ Texts
    BY <1>3 DEF Maybe
  <1> QED BY <1>1, <1>3, <1>4, SaveInv

LEMMA DeleteInv ==
    ASSUME Inv, NEW s \in Sides, NEW e \in Entities, Delete(s, e)
    PROVE  Inv'
  <1>1. PICK o \in Sides \ {s} : Save(s, e, None, Edits(doc[s][e]) \ Edits(doc[o][e]))
    BY DEF Delete
  <1>2. None \in Maybe' \ Texts
    BY Worldly DEF Inv, Maybe
  <1> QED BY <1>1, <1>2, SaveInv

LEMMA RecreateInv ==
    ASSUME Inv, NEW s \in Sides, NEW e \in Entities, NEW u \in Units, Recreate(s, e, u)
    PROVE  Inv'
  <1>1. PICK o \in Sides \ {s} :
           LET copy == IF base[e] = None THEN doc[o][e] ELSE base[e]
           IN /\ copy # None
              /\ Save(s, e, [copy EXCEPT !.units[u] = saves + 1], {copy.units[u]})
    BY DEF Recreate
  <1> DEFINE copy == IF base[e] = None THEN doc[o][e] ELSE base[e]
             d == [copy EXCEPT !.units[u] = saves + 1]
  <1>2. copy \in Texts /\ Save(s, e, d, {copy.units[u]})
    BY <1>1 DEF Inv, World, Trees, Bases, Maybe
  <1>3. saves' = saves + 1 /\ (base[e] # None => copy = base[e])
    BY <1>2 DEF Save
  <1> HIDE DEF copy
  <1>4. d = [copy EXCEPT !.units[u] = saves + 1]
    OBVIOUS
  <1> HIDE DEF d
  <1>5. d \in Texts' \ Texts /\ d.rev = copy.rev
    BY <1>2, <1>3, <1>4, FreshText DEF Inv
  <1>6. d \in Maybe' \ Texts
    BY <1>5 DEF Maybe
  <1> QED BY <1>2, <1>3, <1>5, <1>6, SaveInv

LEMMA TamperLedgerInv == ASSUME Inv, TamperLedger PROVE Inv'
  <1>1. /\ saves < MaxSaves /\ saves' = saves + 1 /\ Put("vault", Ledger, Tampered)
        /\ UNCHANGED <<doc, base, txn, pc, locals, held, faults>>
    BY DEF TamperLedger
  <1>2. saves \in Nat /\ MaxSaves \in Nat /\ "vault" \in Sides
    BY Worldly, Distinct DEF Inv, Sides
  <1>3. /\ Ids \subseteq Ids' /\ Bases \subseteq Bases' /\ Trees \subseteq Trees'
    BY <1>1, <1>2, MoreTexts
  <1>4. /\ DOMAIN hidden' = Sides
        /\ \A s \in Sides : DOMAIN hidden'[s] = IF s = "vault"
                                                THEN DOMAIN hidden[s] \cup {Ledger}
                                                ELSE DOMAIN hidden[s]
        /\ \A s \in Sides : \A g : At(s, g)' = IF s = "vault" /\ g = Ledger THEN Tampered
                                           ELSE At(s, g)
    BY <1>1, <1>2, PutAt DEF Inv
  <1>5. World'
    <2>1. saves' \in 0 .. MaxSaves
      BY <1>1, <1>2
    <2> QED BY <1>1, <1>3, <1>4, <2>1 DEF Inv, World
  <1>6. Files'
    <2>1. ASSUME NEW f \in txn PROVE File(f)' /\ Raises(f)'
      BY <1>1, <1>2, FileSaves DEF Inv, Files, Raises
    <2>2. ASSUME NEW f \in txn PROVE Decides(f)'
      <3> SUFFICES ASSUME f.kind = "resolve" PROVE Decides(f)'
        BY DEF Decides
      <3>1. Decides(f) /\ f.of # Ledger
        BY DEF Inv, Files, File
      <3>2. \A s \in Sides : At(s, f.of)' = At(s, f.of)
        BY <1>4, <3>1
      <3>3. Undecided(f) => Undecided(f)'
        BY <1>1, <3>2 DEF Undecided
      <3> QED BY <1>1, <3>1, <3>3 DEF Decides
    <2> QED BY <1>1, <2>1, <2>2 DEF Inv, Files, Keyed
  <1>7. Engaged'
    <2>1. UNCHANGED <<base, txn, pc, locals, doc>>
      BY <1>1
    <2>2. \A s \in Sides, e \in Entities :
             /\ doc'[s][e] \in Texts => doc'[s][e] = doc[s][e]
             /\ base[e] # None /\ doc'[s][e] # None =>
                   \/ doc'[s][e].rev = base[e].rev
                   \/ doc[s][e] # None /\ doc'[s][e].rev = doc[s][e].rev
      BY <2>1
    <2> QED BY <1>1, <2>1, <2>2, SaveEngaged
  <1> QED BY <1>5, <1>6, <1>7 DEF Inv

LEMMA PeopleInv == ASSUME Inv, People PROVE Inv'
  BY EditInv, DeleteInv, RecreateInv, TamperLedgerInv DEF People

LEMMA FaultsInv == ASSUME Inv, Crash \/ WriteFails PROVE Inv'
  <1>1. /\ UNCHANGED <<world, saves, held>> /\ faults < MaxFaults
        /\ faults' = faults + 1
    BY DEF Crash, WriteFails
  <1>2. faults' \in 0 .. MaxFaults
    BY <1>1, Distinct DEF Inv, World
  <1>3. CASE Crash
    BY <1>1, <1>2, <1>3, AbortEngaged, StayInv DEF Crash
  <1>4. CASE WriteFails
    <2>1. Fail /\ pc \in Writing \cup Hiding
      BY <1>4 DEF WriteFails, Writing, Hiding
    <2> QED BY <1>1, <1>2, <2>1, FailEngaged, StayInv DEF world
  <1> QED BY <1>3, <1>4

-----------------------------------------------------------------------------
(* The invariant.                                                          *)

LEMMA InitInv == ASSUME Init PROVE Inv
  <1> DEFINE fresh == [e \in Entities |-> [units |-> [u \in Units |-> 0], rev |-> 1]]
             none == [e \in Entities |-> None]
  <1>1. /\ doc = [s \in Sides |-> IF s = "project" THEN fresh ELSE none]
        /\ base = none /\ txn = {} /\ pc = "idle"
        /\ saves = 0 /\ faults = 0 /\ held = {}
    BY DEF Init
  <1>2. fresh \in Bases /\ none \in Bases
    <2>1. [units |-> [u \in Units |-> 0], rev |-> 1] \in Texts
      BY <1>1 DEF Texts
    <2> QED BY <2>1 DEF Bases, Maybe
  <1>3. doc \in Trees /\ base \in Bases
    <2> HIDE DEF fresh, none
    <2>1. doc \in [Sides -> Bases]
      BY <1>1, <1>2
    <2> QED BY <1>1, <1>2, <2>1 DEF Trees, Bases
  <1>4. /\ DOMAIN hidden = Sides
        /\ \A s \in Sides : DOMAIN hidden[s] \subseteq {Ledger}
    <2>1. hidden = [s \in Sides |->
                      IF s = "project" THEN [f \in {Ledger} |-> LedgerOf(fresh, 0)]
                                       ELSE [f \in {} |-> None]]
      BY DEF Init
    <2> QED BY <2>1
  <1>5. World
    <2>1. \A s \in Sides : DOMAIN hidden[s] \subseteq {Ledger} \cup Ids
      BY <1>4
    <2>2. saves \in 0 .. MaxSaves /\ faults \in 0 .. MaxFaults
      BY <1>1, Distinct
    <2>3. held \subseteq 1 .. MaxSaves
      BY <1>1
    <2> QED BY <1>3, <1>4, <2>1, <2>2, <2>3 DEF World
  <1>6. Files
    BY <1>1 DEF Files, Keyed
  <1>7. Engaged
    BY <1>1 DEF Engaged, Places, Quiet, Writing, Hiding
  <1> QED BY <1>5, <1>6, <1>7 DEF Inv

LEMMA StutterInv == ASSUME Inv, UNCHANGED vars PROVE Inv'
  <1>1. UNCHANGED <<doc, base, hidden, txn, pc, locals, saves, held, faults>>
        /\ UNCHANGED <<op, seen, todo, cur, note, bad>>
    BY DEF vars, world, locals, people
  <1>2. World'
    BY <1>1, WorldStay DEF Inv, World
  <1>3. Files'
    BY <1>1, FilesStay DEF Inv
  <1>4. Engaged'
    <2>1. /\ Asked' = Asked /\ Choosing' = Choosing /\ Resolving' = Resolving
          /\ Walking' = Walking /\ Left(txn)' = Left(txn) /\ Looking(txn)' = Looking(txn)
          /\ WritingOK' = WritingOK /\ HidingOK' = HidingOK
      BY <1>1 DEF Asked, Choosing, Resolving, Noted, Walking, Left, Looking, WritingOK,
                  WritingStage, HidingOK, Rest, Subject, Trees, Bases, Ids, Maybe, Texts
    <2> QED BY <1>1, <2>1 DEF Inv, Engaged
  <1> QED BY <1>2, <1>3, <1>4 DEF Inv

LEMMA StartInv == ASSUME Inv, Reconcile \/ Resolve \/ RepairMachineLedger PROVE Inv'
  <1>1. CASE Reconcile
    <2> DEFINE o == [kind |-> "reconcile"]
    <2>1. Begin(o) /\ o.kind = "reconcile"
      BY <1>1 DEF Reconcile
    <2> HIDE DEF o
    <2> QED BY <2>1, BeginInv
  <1>2. CASE RepairMachineLedger
    <2> DEFINE o == [kind |-> "repair"]
    <2>1. Begin(o) /\ o.kind = "repair"
      BY <1>2 DEF RepairMachineLedger
    <2> HIDE DEF o
    <2> QED BY <2>1, BeginInv
  <1>3. CASE Resolve
    <2>1. PICK id \in DOMAIN hidden["project"] \ {Ledger} :
             Begin([kind |-> "resolve", id |-> id])
      BY <1>3 DEF Resolve
    <2> DEFINE o == [kind |-> "resolve", id |-> id]
    <2>2. id \in Ids \ {Ledger}
      BY DEF Inv, World, Sides
    <2>3. Begin(o) /\ o.kind = "resolve" /\ o.id \in Ids \ {Ledger}
      BY <2>1, <2>2
    <2> HIDE DEF o
    <2> QED BY <2>3, BeginInv
  <1> QED BY <1>1, <1>2, <1>3

LEMMA NextInv == ASSUME Inv, [Next]_vars PROVE Inv'
  <1>1. CASE UNCHANGED vars
    BY <1>1, StutterInv
  <1>2. CASE Reconcile \/ Resolve \/ RepairMachineLedger
    BY <1>2, StartInv
  <1>3. CASE People \/ Crash \/ WriteFails
    BY <1>3, PeopleInv, FaultsInv
  <1>4. CASE Authenticate \/ Recover \/ RecoverEntity
    BY <1>4, AuthenticateInv, RecoverInv, RecoverEntityInv
  <1>5. CASE Snapshot \/ Scan \/ Entity \/ EndEntities
    BY <1>5, SnapshotInv, ScanInv, EntityInv, EndEntitiesInv
  <1>6. CASE Align \/ Publish \/ Finish \/ Choose \/ ResolveDocument
    BY <1>6, AlignInv, PublishInv, FinishInv, ChooseInv, ResolveDocumentInv
  <1>7. CASE Write \/ Replace \/ Verify \/ Commit \/ Seal \/ Remove
    BY <1>7, WriteInv, ReplaceInv, VerifyInv, CommitInv, SealInv, RemoveInv
  <1>8. CASE HiddenWrite \/ HiddenStage \/ HiddenVerify
    BY <1>8, HiddenWriteInv, HiddenStageInv, HiddenVerifyInv
  <1> QED BY <1>1, <1>2, <1>3, <1>4, <1>5, <1>6, <1>7, <1>8 DEF Next, Engine

\* The transaction files on disk and what the engine knows at each of its steps
\* fit together, whatever people, crashes and failed writes do.
THEOREM AlwaysInv == Spec => []Inv
  BY InitInv, NextInv, PTL DEF Spec

\* The types hold, and no document or hidden file has two transaction files,
\* whatever the engine, the crashes and the saves do: the code finds the file
\* of a document by its name and rewrites it.
THEOREM TypeCorrect == Spec => []TypeOK
  <1>1. ASSUME Inv PROVE TypeOK
    <2>1. Texts \subseteq Docs
      <3> SUFFICES ASSUME NEW d \in Texts PROVE d \in Docs
        OBVIOUS
      <3>1. saves \in 0 .. MaxSaves /\ MaxSaves \in Nat
        BY <1>1, Distinct DEF Inv, World
      <3>2. d = [units |-> d.units, rev |-> d.rev] /\ d.units \in [Units -> 0 .. saves]
            /\ d.rev \in Nat \ {0}
        BY DEF Texts
      <3>3. 0 .. saves \subseteq 0 .. MaxSaves
        BY <3>1
      <3>4. d.units \in [Units -> 0 .. MaxSaves]
        BY <3>2, <3>3
      <3> QED BY <3>2, <3>4 DEF Docs
    <2>2. Maybe \subseteq Docs \cup {None}
      BY <2>1 DEF Maybe
    <2>3. /\ doc \in [Sides -> [Entities -> Docs \cup {None}]]
          /\ base \in [Entities -> Docs \cup {None}]
      BY <1>1, <2>2 DEF Inv, World, Trees, Bases
    <2>4. \A t \in txn : t.stage \in {Stages[i] : i \in 1 .. 4}
      BY <1>1, StageSet DEF Inv, Files, File
    <2> QED BY <1>1, <2>3, <2>4 DEF TypeOK, Inv, World, Files, Keyed
  <1> QED BY <1>1, AlwaysInv, PTL

\* People write documents, and the ledger.
LEMMA PeopleMove == ASSUME People PROVE TamperLedger \/ UNCHANGED <<base, hidden, txn>>
  <1>1. ASSUME NEW s, NEW e, NEW d, NEW dropped, Save(s, e, d, dropped)
        PROVE  UNCHANGED <<base, hidden, txn>>
    BY <1>1 DEF Save
  <1>2. ASSUME NEW s \in Sides, NEW e \in Entities, Delete(s, e)
        PROVE  UNCHANGED <<base, hidden, txn>>
    BY <1>1, <1>2 DEF Delete
  <1>3. ASSUME NEW s \in Sides, NEW e \in Entities, NEW u \in Units, Edit(s, e, u)
        PROVE  UNCHANGED <<base, hidden, txn>>
    BY <1>1, <1>3 DEF Edit
  <1>4. ASSUME NEW s \in Sides, NEW e \in Entities, NEW u \in Units, Recreate(s, e, u)
        PROVE  UNCHANGED <<base, hidden, txn>>
    BY <1>1, <1>4 DEF Recreate
  <1> QED BY <1>2, <1>3, <1>4 DEF People

\* Only a commit moves the merge base, and it takes the planned text.
LEMMA BaseMoves ==
    ASSUME Inv, [Next]_vars, base' # base
    PROVE  Commit /\ base' = [base EXCEPT ![cur.t.of] = cur.body]
  <1>1. ~UNCHANGED vars
    BY DEF vars, world
  <1>2. ~(Reconcile \/ Resolve \/ RepairMachineLedger \/ Crash \/ WriteFails \/ Finish)
    BY DEF Reconcile, Resolve, RepairMachineLedger, Begin, Crash, WriteFails, Finish,
           world
  <1>3. ~People
    BY PeopleMove DEF TamperLedger
  <1>4. ~(Authenticate \/ Recover \/ RecoverEntity)
    BY DEF Authenticate, Recover, RecoverEntity, RecoverLedger, RecoverRecord,
           RecoverResolution, Drop, world
  <1>5. ~(Snapshot \/ Scan \/ Entity \/ EndEntities \/ Align \/ Publish \/ Choose
             \/ ResolveDocument)
    BY DEF Snapshot, Scan, Entity, EndEntities, Align, Publish, Choose,
           ResolveDocument, world
  <1>6. ~(Write \/ Replace \/ Verify \/ Seal \/ Remove)
    BY DEF Write, Replace, Verify, Seal, Remove, world
  <1>7. ~(HiddenWrite \/ HiddenStage \/ HiddenVerify)
    BY DEF HiddenWrite, HiddenStage, HiddenVerify
  <1>8. Commit
    BY <1>1, <1>2, <1>3, <1>4, <1>5, <1>6, <1>7 DEF Next, Engine
  <1> QED BY <1>8 DEF Commit

\* Only one step of the engine writes a hidden file; people change the ledger.
LEMMA HiddenMoves ==
    ASSUME Inv, [Next]_vars, hidden' # hidden
    PROVE  TamperLedger \/ (HiddenWrite /\ Put(HiddenSide, cur.t.of, cur.body))
  <1>1. ~UNCHANGED vars
    BY DEF vars, world
  <1>2. ~(Reconcile \/ Resolve \/ RepairMachineLedger \/ Crash \/ WriteFails \/ Finish)
    BY DEF Reconcile, Resolve, RepairMachineLedger, Begin, Crash, WriteFails, Finish,
           world
  <1>3. People => TamperLedger
    BY PeopleMove
  <1>4. ~(Authenticate \/ Recover \/ RecoverEntity)
    BY DEF Authenticate, Recover, RecoverEntity, RecoverLedger, RecoverRecord,
           RecoverResolution, Drop, world
  <1>5. ~(Snapshot \/ Scan \/ Entity \/ EndEntities \/ Align \/ Publish \/ Choose
             \/ ResolveDocument)
    BY DEF Snapshot, Scan, Entity, EndEntities, Align, Publish, Choose,
           ResolveDocument, world
  <1>6. ~(Write \/ Replace \/ Verify \/ Commit \/ Seal \/ Remove)
    BY DEF Write, Replace, Verify, Commit, Seal, Remove, world
  <1>7. ~(HiddenStage \/ HiddenVerify)
    BY DEF HiddenStage, HiddenVerify
  <1>8. TamperLedger \/ HiddenWrite
    BY <1>1, <1>2, <1>3, <1>4, <1>5, <1>6, <1>7 DEF Next, Engine
  <1> QED BY <1>8 DEF HiddenWrite

\* A merge base is only ever followed by a text of a higher revision (but for
\* a project document that fell behind it while a sync ran), and a conflict
\* record is closed only with the text that became the merge base: the plan
\* raises the revision, a commit compares the base with the plan's, and beside
\* a resolution no other document is on its way.
THEOREM BasesStayFinal == Spec => BasesAreFinal
  <1> DEFINE Raised ==
               \A e \in Entities : base[e] # None /\ base'[e] # base[e] =>
                  base'[e].rev > base[e].rev \/ Lowered(e)
             Closed ==
               \A s \in Sides : \A id \in DOMAIN hidden'[s] \ {Ledger} :
                  /\ hidden'[s][id] # At(s, id)
                  /\ hidden'[s][id] # OpenNote
                  => base[id.entity] = hidden'[s][id].accepted
  <1>1. ASSUME Inv, [Next]_vars PROVE Raised
    <2> SUFFICES ASSUME NEW e \in Entities, base[e] # None, base'[e] # base[e]
                 PROVE  base'[e].rev > base[e].rev \/ Lowered(e)
      OBVIOUS
    <2>1. Commit /\ base' = [base EXCEPT ![cur.t.of] = cur.body]
      BY <1>1, BaseMoves
    <2>2. WritingOK /\ pc = "commit"
      BY <1>1, <2>1 DEF Commit, Inv, Engaged, Writing
    <2>3. e = cur.t.of /\ base'[e] = cur.body
      BY <1>1, <2>1 DEF Inv, World, Bases
    <2>4. cur.t.base = base[e]
      <3>1. CASE base[cur.t.of] # cur.t.base
        BY <2>1, <3>1 DEF Commit
      <3> QED BY <2>3, <3>1
    <2>5. Raises(cur.t) /\ cur.t.kind = "entity" /\ cur.body = cur.t.desired
      BY <1>1, <2>2 DEF WritingOK, Inv, Files
    <2> QED BY <2>3, <2>4, <2>5 DEF Raises, Lowered
  <1>2. ASSUME Inv, [Next]_vars PROVE Closed
    <2> SUFFICES ASSUME NEW s \in Sides, NEW id \in DOMAIN hidden'[s] \ {Ledger},
                        hidden'[s][id] # At(s, id), hidden'[s][id] # OpenNote
                 PROVE  base[id.entity] = hidden'[s][id].accepted
      OBVIOUS
    <2>1. hidden' # hidden
      BY DEF At
    <2>2. At(s, id)' = hidden'[s][id]
      BY DEF At
    <2>3. ~TamperLedger
      <3> SUFFICES ASSUME TamperLedger PROVE FALSE
        OBVIOUS
      <3>1. Put("vault", Ledger, Tampered) /\ "vault" \in Sides
        BY DEF TamperLedger, Sides
      <3>2. At(s, id)' = At(s, id)
        BY <1>2, <3>1, PutAt DEF Inv
      <3> QED BY <2>2, <3>2
    <2>4. HiddenWrite /\ Put(HiddenSide, cur.t.of, cur.body)
      BY <1>2, <2>1, <2>3, HiddenMoves
    <2>5. HiddenSide \in Sides
      BY DEF HiddenSide, Sides
    <2>6. id = cur.t.of /\ hidden'[s][id] = cur.body
      BY <1>2, <2>2, <2>4, <2>5, PutAt DEF Inv
    <2>7. HidingOK
      BY <1>2, <2>4 DEF HiddenWrite, Inv, Engaged, Hiding
    <2>8. File(cur.t) /\ cur.t.kind # "entity"
      BY <1>2, <2>7 DEF HidingOK, Inv, Files
    <2>9. cur.t.kind = "resolve"
      BY <2>6, <2>7, <2>8 DEF File, HidingOK
    <2> QED BY <2>6, <2>7, <2>9 DEF HidingOK
  <1>3. ASSUME Inv, [Next]_vars PROVE Raised /\ Closed
    BY <1>1, <1>2, <1>3
  <1> QED BY <1>3, AlwaysInv, PTL DEF Spec, BasesAreFinal

(* Sides that agree.                                                       *)

\* A conflict record that the sides do not share has its transaction file,
\* which found no other record on either side.
Mirrored ==
    /\ \A id : id # Ledger /\ At("project", id) # At("vault", id) =>
          \E t \in txn : t.kind \in {"record", "resolve"} /\ t.of = id
    /\ \A t \in txn : t.kind = "record" =>
          {t.project, t.vault} \subseteq {None, OpenNote}

Synced(e) == \A s \in Sides : doc[s][e] = base[e]

Agreed ==
    /\ \A e \in Entities : Synced(e)
    /\ At("project", Ledger) = At("vault", Ledger)
    /\ LedgerOf(base, At("project", Ledger).stamp) = At("project", Ledger)

\* The ledgers are as they were read, and whether they are behind is known as
\* long as this run has changed no document.
Ledgers ==
    /\ seen.project = At("project", Ledger) /\ seen.vault = At("vault", Ledger)
    /\ seen.vault \in {None, seen.project}
    /\ committed \/ seen.stale = BehindProject(seen.project)

\* Nobody saved since the scan, so the documents to come are as it saw them.
Stepping(met) ==
    /\ Ledgers
    /\ \A e \in Rest, s \in Sides : seen.doc[s][e] = doc[s][e]
    /\ bad \/ \A e \in met : Synced(e)

\* The sides that were verified hold the accepted text.
Landed ==
    /\ cur.side = "vault" => doc["project"][cur.t.of] = cur.body
    /\ pc \in {"commit", "seal", "remove"} =>
          \A s \in Sides : doc[s][cur.t.of] = cur.body

Agreeing ==
    /\ pc = "scan" => Ledgers
    /\ pc = "entity" => Stepping(Entities \ Rest)
    /\ pc \in {"align", "publish"} => Ledgers /\ \A e \in Entities : Synced(e)
    /\ pc = "publish" => OneRevision(base)
    /\ pc = "done" => Agreed
    /\ pc \in Writing /\ cur.next = "entity" =>
          committed /\ Landed /\ Stepping(Entities \ (Rest \cup {cur.t.of}))
    /\ pc \in Writing /\ cur.next = "publish" =>
          /\ committed /\ Landed /\ Ledgers
          /\ \A e \in Entities \ {cur.t.of} :
                Synced(e) /\ base[e] # None /\ base[e].rev = cur.body.rev
    /\ pc \in Hiding => cur.next # "align"
    /\ pc \in Hiding /\ cur.next = "entity" => Stepping({})
    /\ pc \in Hiding /\ cur.next = "done" =>
          /\ cur.t.of = Ledger /\ \A e \in Entities : Synced(e)
          /\ LedgerOf(base, cur.body.stamp) = cur.body

AgreeInv ==
    /\ report => pc = "idle" /\ (undisturbed => Agreed)
    /\ pc # "idle" /\ undisturbed /\ op.kind = "reconcile" => Agreeing

-----------------------------------------------------------------------------
\* What the steps of the engine do to the transaction files.
LEMMA MirrorSame == ASSUME Mirrored, UNCHANGED <<hidden, txn>> PROVE Mirrored'
  BY DEF Mirrored, At

LEMMA MirrorAdd ==
    ASSUME Mirrored, UNCHANGED hidden, NEW t, txn' = txn \cup {t},
           t.kind = "record" => {t.project, t.vault} \subseteq {None, OpenNote}
    PROVE  Mirrored'
  <1>1. \A s, id : At(s, id)' = At(s, id)
    BY DEF At
  <1> QED BY <1>1 DEF Mirrored

LEMMA MirrorRemove ==
    ASSUME Mirrored, UNCHANGED hidden, NEW t, txn' = txn \ {t},
           t.kind \in {"record", "resolve"} =>
              At("project", t.of) = At("vault", t.of)
    PROVE  Mirrored'
  <1>1. \A s, id : At(s, id)' = At(s, id)
    BY DEF At
  <1>2. ASSUME NEW id, id # Ledger, At("project", id) # At("vault", id)
        PROVE  \E r \in txn' : r.kind \in {"record", "resolve"} /\ r.of = id
    <2>1. PICK r \in txn : r.kind \in {"record", "resolve"} /\ r.of = id
      BY <1>2 DEF Mirrored
    <2> QED BY <1>2, <2>1
  <1> QED BY <1>1, <1>2 DEF Mirrored

LEMMA MirrorAdvance ==
    ASSUME Inv, Mirrored, UNCHANGED hidden, cur.t \in txn,
           txn' = (txn \ {cur.t}) \cup {[cur.t EXCEPT !.stage = After(@)]}
    PROVE  Mirrored'
  <1> DEFINE t == cur.t
             n == [t EXCEPT !.stage = After(@)]
  <1>1. t = [kind |-> t.kind, of |-> t.of, desired |-> t.desired, base |-> t.base,
             project |-> t.project, vault |-> t.vault, stage |-> t.stage]
    BY DEF Inv, Files, File
  <1>2. n = [kind |-> t.kind, of |-> t.of, desired |-> t.desired, base |-> t.base,
             project |-> t.project, vault |-> t.vault, stage |-> After(t.stage)]
    BY <1>1
  <1>3. txn' = (txn \ {t}) \cup {n} /\ t \in txn
    OBVIOUS
  <1> HIDE DEF n, t
  <1>4. n.kind = t.kind /\ n.of = t.of /\ n.project = t.project /\ n.vault = t.vault
    BY <1>2
  <1>5. \A s, id : At(s, id)' = At(s, id)
    BY DEF At
  <1>6. \A r \in txn : \E q \in txn' : q.kind = r.kind /\ q.of = r.of
    BY <1>3, <1>4
  <1>7. \A q \in txn' : q.kind = "record" =>
           {q.project, q.vault} \subseteq {None, OpenNote}
    BY <1>3, <1>4 DEF Mirrored
  <1>8. ASSUME NEW id, id # Ledger, At("project", id) # At("vault", id)
        PROVE  \E q \in txn' : q.kind \in {"record", "resolve"} /\ q.of = id
    BY <1>6, <1>8 DEF Mirrored
  <1> QED BY <1>5, <1>7, <1>8 DEF Mirrored

\* A record that is written has its file.
LEMMA MirrorPut ==
    ASSUME World, Mirrored, UNCHANGED txn, NEW z \in Sides, NEW of, NEW body,
           Put(z, of, body),
           of # Ledger => \E t \in txn : t.kind \in {"record", "resolve"} /\ t.of = of
    PROVE  Mirrored'
  <1>1. \A s \in Sides : \A g : g # of => At(s, g)' = At(s, g)
    BY PutAt
  <1>2. \A g : g # of => /\ At("project", g)' = At("project", g)
                         /\ At("vault", g)' = At("vault", g)
    BY <1>1 DEF Sides
  <1> QED BY <1>2 DEF Mirrored

LEMMA PlanMirrored ==
    ASSUME Mirrored, UNCHANGED hidden, NEW e, NEW body, NEW p, NEW v, NEW next,
           Plan(e, body, p, v, next)
    PROVE  Mirrored'
  <1> DEFINE t == Transaction("entity", e, body, base[e], p, v)
  <1>1. txn' = txn \cup {t}
    BY DEF Plan
  <1>2. t.kind = "entity"
    BY DEF Transaction
  <1> HIDE DEF t
  <1> QED BY <1>1, <1>2, MirrorAdd

LEMMA RecoverMirrored == ASSUME Inv, Mirrored, Recover PROVE Mirrored'
  <1> DEFINE first == Pending({"publish", "repair", "record"})
             last == Pending({"resolve"})
             p(t) == At("project", t.of)
             v(t) == At("vault", t.of)
  <1>1. ASSUME NEW t \in txn, t.kind = "record", RecoverRecord(t)
        PROVE  Mirrored'
    <2>1. CASE UNCHANGED world
      BY <2>1, MirrorSame DEF world
    <2>2. CASE /\ t.desired \notin {p(t), v(t)} /\ p(t) = t.project /\ v(t) = t.vault
               /\ Drop(t)
      <3>1. t.desired = OpenNote
        BY <1>1 DEF Inv, Files, File
      <3>2. {t.project, t.vault} \subseteq {None, OpenNote}
        BY <1>1 DEF Mirrored
      <3>3. p(t) = None /\ v(t) = None
        BY <2>2, <3>1, <3>2
      <3> QED BY <2>2, <3>3, MirrorRemove DEF Drop
    <2> QED BY <1>1, <2>1, <2>2 DEF RecoverRecord
  <1>2. ASSUME NEW t \in txn, t.kind \notin {"record", "resolve"}, RecoverLedger(t)
        PROVE  Mirrored'
    <2>1. CASE UNCHANGED world
      BY <2>1, MirrorSame DEF world
    <2>2. CASE Drop(t)
      BY <1>2, <2>2, MirrorRemove DEF Drop
    <2> QED BY <1>2, <2>1, <2>2 DEF RecoverLedger
  <1>3. ASSUME NEW t \in txn, t.kind = "resolve", RecoverResolution(t)
        PROVE  Mirrored'
    <2>1. CASE UNCHANGED world
      BY <2>1, MirrorSame DEF world
    <2>2. CASE /\ {p(t), v(t)} \subseteq {t.base, t.desired}
               /\ t.desired \notin {p(t), v(t)} /\ Drop(t)
      <3>1. p(t) = v(t)
        BY <2>2
      <3> QED BY <2>2, <3>1, MirrorRemove DEF Drop
    <2> QED BY <1>3, <2>1, <2>2 DEF RecoverResolution
  <1>4. CASE first # {}
    <2>1. PICK t \in first : IF t.kind = "record" THEN RecoverRecord(t)
                                                  ELSE RecoverLedger(t)
      BY <1>4 DEF Recover
    <2> QED BY <1>1, <1>2, <2>1 DEF Pending
  <1>5. CASE first = {} /\ Pending({"entity"}) = {} /\ last # {}
    <2>1. PICK t \in last : RecoverResolution(t)
      BY <1>5 DEF Recover
    <2> QED BY <1>3, <2>1 DEF Pending
  <1>6. CASE UNCHANGED world
    BY <1>6, MirrorSame DEF world
  <1> QED BY <1>4, <1>5, <1>6 DEF Recover

LEMMA RecoverEntityMirrored == ASSUME Mirrored, RecoverEntity PROVE Mirrored'
  <1>1. CASE UNCHANGED world
    BY <1>1, MirrorSame DEF world
  <1>2. CASE \E t \in Pending({"entity"}) : Drop(t)
    BY <1>2, MirrorRemove DEF Drop, Pending
  <1> QED BY <1>1, <1>2 DEF RecoverEntity

LEMMA EntityMirrored == ASSUME Mirrored, Entity PROVE Mirrored'
  <1> DEFINE e == Head(todo)
             p == seen.doc["project"][e]
             v == seen.doc["vault"][e]
             body == Accepted(seen.base[e], p, v)
  <1>0. UNCHANGED hidden
    BY DEF Entity
  <1>1. CASE UNCHANGED txn
    BY <1>0, <1>1, MirrorSame
  <1>2. CASE Plan(e, body, p, v, "entity")
    BY <1>0, <1>2, PlanMirrored
  <1>3. CASE PersistConflictRecord(e) /\ ~UNCHANGED txn
    <2> DEFINE id == ConflictID(e, seen.base[e], p, v)
               at == [s \in Sides |-> At(s, id)]
               t == Transaction("record", id, OpenNote, OpenNote,
                                at["project"], at["vault"])
    <2>1. txn' = txn \cup {t} /\ {at["project"], at["vault"]} \subseteq {None, OpenNote}
      BY <1>3 DEF PersistConflictRecord
    <2>2. t.project = at["project"] /\ t.vault = at["vault"]
      BY DEF Transaction
    <2> HIDE DEF t, at
    <2> QED BY SMTT(60), <1>0, <2>1, <2>2, MirrorAdd
  <1> HIDE DEF p, v, e, body
  <1> QED BY <1>1, <1>2, <1>3 DEF Entity, p, v, e, body

LEMMA HiddenMirrored ==
    ASSUME Inv, Mirrored, HiddenWrite \/ HiddenStage \/ HiddenVerify PROVE Mirrored'
  <1>0. HidingOK /\ cur.t \in txn /\ File(cur.t) /\ cur.t.kind # "entity"
    <2>1. HidingOK
      BY DEF HiddenWrite, HiddenStage, HiddenVerify, Inv, Engaged, Hiding
    <2> QED BY <2>1 DEF HidingOK, Inv, Files
  <1>1. CASE HiddenWrite
    <2>1. CASE UNCHANGED hidden
      BY <1>1, <2>1, MirrorSame DEF HiddenWrite
    <2>2. CASE Put(HiddenSide, cur.t.of, cur.body)
      <3>1. HiddenSide \in Sides
        BY DEF HiddenSide, Sides
      <3>2. cur.t.of # Ledger => cur.t.kind \in {"record", "resolve"}
        BY <1>0 DEF File
      <3>3. UNCHANGED txn /\ World
        BY <1>1 DEF HiddenWrite, Inv
      <3> QED BY <1>0, <2>2, <3>1, <3>2, <3>3, MirrorPut
    <2> QED BY <1>1, <2>1, <2>2 DEF HiddenWrite
  <1>2. CASE HiddenStage
    <2>1. UNCHANGED hidden
      BY <1>2 DEF HiddenStage
    <2>2. CASE UNCHANGED txn
      BY <2>1, <2>2, MirrorSame
    <2>3. CASE Advance
      BY <1>0, <2>1, <2>3, MirrorAdvance DEF Advance
    <2> QED BY <1>2, <2>2, <2>3 DEF HiddenStage
  <1>3. CASE HiddenVerify
    <2>1. UNCHANGED hidden
      BY <1>3 DEF HiddenVerify
    <2>2. CASE UNCHANGED txn
      BY <2>1, <2>2, MirrorSame
    <2>3. CASE Advance
      BY <1>0, <2>1, <2>3, MirrorAdvance DEF Advance
    <2>4. CASE txn' = txn \ {cur.t} /\ \A s \in Sides : At(s, cur.t.of) = cur.body
      <3>1. At("project", cur.t.of) = At("vault", cur.t.of)
        BY <2>4 DEF Sides
      <3> QED BY <2>1, <2>4, <3>1, MirrorRemove
    <2> QED BY <1>3, <2>2, <2>3, <2>4 DEF HiddenVerify
  <1> QED BY <1>1, <1>2, <1>3

LEMMA WritingMirrored ==
    ASSUME Inv, Mirrored, Write \/ Replace \/ Verify \/ Commit \/ Seal \/ Remove
    PROVE  Mirrored'
  <1>0. WritingOK /\ cur.t \in txn /\ cur.t.kind = "entity"
    <2>1. WritingOK
      BY DEF Write, Replace, Verify, Commit, Seal, Remove, Inv, Engaged, Writing
    <2> QED BY <2>1 DEF WritingOK
  <1>1. UNCHANGED hidden
    BY DEF Write, Replace, Verify, Commit, Seal, Remove, world
  <1>2. CASE UNCHANGED txn
    BY <1>1, <1>2, MirrorSame
  <1>3. CASE txn' = (txn \ {cur.t}) \cup {[cur.t EXCEPT !.stage = After(@)]}
    BY <1>0, <1>1, <1>3, MirrorAdvance
  <1>4. CASE txn' = txn \ {cur.t}
    BY <1>0, <1>1, <1>4, MirrorRemove
  <1>5. Write \/ Replace \/ Commit => UNCHANGED txn
    BY DEF Write, Replace, Commit, world
  <1>6. Verify => \/ UNCHANGED txn
                  \/ txn' = (txn \ {cur.t}) \cup {[cur.t EXCEPT !.stage = After(@)]}
    BY DEF Verify
  <1> QED BY <1>2, <1>3, <1>4, <1>5, <1>6 DEF Seal, Advance, Remove

LEMMA MirroredStep == ASSUME Inv, Mirrored, [Next]_vars PROVE Mirrored'
  <1>1. CASE UNCHANGED <<hidden, txn>>
    BY <1>1, MirrorSame
  <1>2. CASE TamperLedger
    BY <1>2, MirrorPut DEF TamperLedger, Inv, Sides
  <1>3. CASE Recover \/ RecoverEntity \/ Entity
    BY <1>3, RecoverMirrored, RecoverEntityMirrored, EntityMirrored
  <1>4. CASE \/ Write \/ Replace \/ Verify \/ Commit \/ Seal \/ Remove
             \/ HiddenWrite \/ HiddenStage \/ HiddenVerify
    BY <1>4, WritingMirrored, HiddenMirrored
  <1>5. CASE Snapshot
    <2> DEFINE pr == At("project", Ledger)
               va == At("vault", Ledger)
               t == Transaction("repair", Ledger, pr, pr, pr, va)
    <2>1. CASE txn' = txn \cup {t}
      <3>1. t.kind = "repair"
        BY DEF Transaction
      <3> HIDE DEF t
      <3> QED BY <1>5, <2>1, <3>1, MirrorAdd DEF Snapshot
    <2>2. CASE UNCHANGED txn
      BY <1>5, <2>2, MirrorSame DEF Snapshot
    <2> QED BY <1>5, <2>1, <2>2 DEF Snapshot
  <1>6. CASE Align
    <2>1. CASE UNCHANGED txn
      BY <1>6, <2>1, MirrorSame DEF Align
    <2>2. CASE \E e \in Behind : Plan(e, Lifted(e), doc["project"][e],
                                      doc["vault"][e], "publish")
      BY <1>6, <2>2, PlanMirrored DEF Align
    <2> QED BY <1>6, <2>1, <2>2 DEF Align, Lift
  <1>7. CASE Publish
    <2>1. CASE UNCHANGED txn
      BY <1>7, <2>1, MirrorSame DEF Publish
    <2>2. ASSUME NEW body, NEW t,
                 t = Transaction("publish", Ledger, body, seen.project,
                                 seen.project, seen.vault),
                 txn' = txn \cup {t}
          PROVE  Mirrored'
      <3>1. t.kind = "publish"
        BY <2>2 DEF Transaction
      <3> QED BY <1>7, <2>2, <3>1, MirrorAdd DEF Publish
    <2> QED BY <1>7, <2>1, <2>2 DEF Publish
  <1>8. CASE Choose
    <2>1. CASE UNCHANGED txn
      BY <1>8, <2>1, MirrorSame DEF Choose
    <2>2. ASSUME NEW body, NEW t,
                 t = Transaction("resolve", op.id, [accepted |-> body],
                                 OpenNote, OpenNote, OpenNote),
                 txn' = txn \cup {t}
          PROVE  Mirrored'
      <3>1. t.kind = "resolve"
        BY <2>2 DEF Transaction
      <3> QED BY <1>8, <2>2, <3>1, MirrorAdd DEF Choose
    <2> QED BY <1>8, <2>1, <2>2 DEF Choose
  <1>9. CASE ResolveDocument
    BY <1>9, PlanMirrored DEF ResolveDocument
  <1>10. CASE Authenticate \/ Scan \/ EndEntities \/ Finish
    BY <1>10, MirrorSame DEF Authenticate, Scan, EndEntities, Finish, world
  <1>11. CASE Reconcile \/ Resolve \/ RepairMachineLedger \/ Crash \/ WriteFails
    BY <1>11, MirrorSame DEF Reconcile, Resolve, RepairMachineLedger, Begin, Crash,
                             WriteFails, world
  <1>12. CASE UNCHANGED vars
    BY <1>12, MirrorSame DEF vars, world
  <1>13. CASE People
    BY <1>1, <1>2, <1>13, PeopleMove
  <1> QED BY <1>2, <1>3, <1>4, <1>5, <1>6, <1>7, <1>8, <1>9, <1>10, <1>11, <1>12,
             <1>13 DEF Next, Engine

\* Steps that leave nothing to agree about: the lock is released, or a pending
\* file is being recovered.
LEMMA IdleAgree ==
    ASSUME AgreeInv, pc # "idle", UNCHANGED report, pc' = "idle"
    PROVE  AgreeInv'
  BY DEF AgreeInv

LEMMA AbortAgree == ASSUME AgreeInv, pc # "idle", Abort PROVE AgreeInv'
  BY IdleAgree DEF Abort, Reset

LEMMA PlainAgree ==
    ASSUME AgreeInv, pc # "idle", UNCHANGED report,
           \/ pc' \in {"authenticate", "recover", "recoverEntity", "ready"}
           \/ pc' \in Writing /\ cur'.next = "recoverEntity"
           \/ pc' \in Hiding /\ cur'.next = "recover"
    PROVE  AgreeInv'
  <1>1. ~report'
    BY DEF AgreeInv
  <1>2. Agreeing'
    BY DEF Agreeing, Writing, Hiding
  <1> QED BY <1>1, <1>2 DEF AgreeInv

\* A step of a running operation.
LEMMA RunAgree ==
    ASSUME AgreeInv, pc # "idle", UNCHANGED <<op, undisturbed, report>>,
           undisturbed /\ op.kind = "reconcile" /\ Agreeing => Agreeing'
    PROVE  AgreeInv'
  BY DEF AgreeInv

LEMMA LedgersStay ==
    ASSUME Ledgers, UNCHANGED <<hidden, seen>>,
           committed' \/ UNCHANGED <<doc, committed>>
    PROVE  Ledgers'
  BY DEF Ledgers, At, BehindProject, OneRevision, LedgerOf

LEMMA SteppingStay ==
    ASSUME NEW met, Stepping(met), UNCHANGED <<hidden, seen, doc, base, todo>>,
           committed' \/ UNCHANGED committed, bad' = bad \/ bad' = TRUE
    PROVE  Stepping(met)'
  <1>1. Ledgers'
    BY LedgersStay DEF Stepping
  <1>2. Rest' = Rest /\ \A e : Synced(e)' <=> Synced(e)
    BY DEF Rest, Synced
  <1> QED BY <1>1, <1>2 DEF Stepping

LEMMA FailAgree ==
    ASSUME Inv, AgreeInv, pc \in Writing \cup Hiding, Fail,
           UNCHANGED <<doc, base, hidden, undisturbed>>
    PROVE  AgreeInv'
  <1>0. pc # "idle"
    BY DEF Writing, Hiding
  <1>1. CASE cur.next # "entity"
    BY <1>0, <1>1, AbortAgree DEF Fail
  <1>2. CASE cur.next = "entity"
    <2>1. /\ pc' = "entity" /\ bad' = TRUE
          /\ UNCHANGED <<op, seen, todo, committed, report>>
      BY <1>2 DEF Fail
    <2>2. ASSUME Agreeing PROVE Agreeing'
      <3>1. PICK met : Stepping(met)
        BY <1>2, <2>2 DEF Agreeing
      <3>2. Stepping(met)'
        BY <2>1, <3>1, SteppingStay
      <3>3. Stepping(Entities \ Rest)'
        BY <2>1, <3>2 DEF Stepping
      <3> QED BY <2>1, <3>3 DEF Agreeing, Writing, Hiding
    <2> QED BY <1>0, <2>1, <2>2, RunAgree
  <1> QED BY <1>1, <1>2

LEMMA DropAgree ==
    ASSUME AgreeInv, NEW t, Drop(t), pc \in {"recover", "recoverEntity"}
    PROVE  AgreeInv'
  BY PlainAgree DEF Drop

LEMMA ResumeAgree ==
    ASSUME AgreeInv, NEW t, NEW body, NEW p, NEW v, Resume(t, body, p, v, "recover"),
           pc = "recover"
    PROVE  AgreeInv'
  <1>1. cur'.next = "recover" /\ pc' = "hidden" /\ UNCHANGED report
    BY DEF Resume
  <1> QED BY <1>1, PlainAgree DEF Hiding

LEMMA RecoverAgree == ASSUME AgreeInv, Recover PROVE AgreeInv'
  <1> DEFINE first == Pending({"publish", "repair", "record"})
             last == Pending({"resolve"})
  <1>0. pc = "recover"
    BY DEF Recover
  <1>1. ASSUME NEW t, RecoverRecord(t) PROVE AgreeInv'
    BY <1>0, <1>1, DropAgree, ResumeAgree, AbortAgree DEF RecoverRecord
  <1>2. ASSUME NEW t, RecoverLedger(t) PROVE AgreeInv'
    BY <1>0, <1>2, DropAgree, ResumeAgree, AbortAgree DEF RecoverLedger
  <1>3. ASSUME NEW t, RecoverResolution(t) PROVE AgreeInv'
    BY <1>0, <1>3, DropAgree, ResumeAgree, AbortAgree DEF RecoverResolution
  <1>4. CASE first # {}
    <2>1. PICK t \in first : IF t.kind = "record" THEN RecoverRecord(t)
                                                  ELSE RecoverLedger(t)
      BY <1>4 DEF Recover
    <2> QED BY <1>1, <1>2, <2>1
  <1>5. CASE first = {} /\ Pending({"entity"}) = {} /\ last # {}
    <2>1. PICK t \in last : RecoverResolution(t)
      BY <1>5 DEF Recover
    <2> QED BY <1>3, <2>1
  <1>6. CASE pc' \in {"recoverEntity", "ready"} /\ UNCHANGED report
    BY SMTT(60), <1>0, <1>6, PlainAgree
  <1> QED BY <1>4, <1>5, <1>6 DEF Recover

LEMMA RecoverEntityAgree == ASSUME AgreeInv, RecoverEntity PROVE AgreeInv'
  <1>0. pc = "recoverEntity"
    BY DEF RecoverEntity
  <1>1. CASE \E t : Drop(t)
    BY <1>0, <1>1, DropAgree
  <1>2. CASE Abort
    BY <1>0, <1>2, AbortAgree
  <1>3. CASE pc' = "recover" /\ UNCHANGED report
    BY <1>0, <1>3, PlainAgree
  <1>4. ASSUME NEW t, NEW at, NEW w, pc' = "write", UNCHANGED report,
               cur' = [t |-> t, body |-> t.desired, pre |-> at, write |-> w,
                       side |-> "project", next |-> "recoverEntity"]
        PROVE  AgreeInv'
    <2>1. cur'.next = "recoverEntity"
      BY <1>4
    <2> QED BY <1>0, <1>4, <2>1, PlainAgree DEF Writing
  <1>5. CASE Pending({"entity"}) = {}
    BY <1>3, <1>5 DEF RecoverEntity
  <1>6. CASE Pending({"entity"}) # {}
    BY ZenonT(60), <1>1, <1>2, <1>4, <1>6 DEF RecoverEntity
  <1> QED BY <1>5, <1>6

LEMMA SnapshotAgree == ASSUME Inv, AgreeInv, Snapshot PROVE AgreeInv'
  <1> DEFINE p == At("project", Ledger)
             v == At("vault", Ledger)
  <1>0. pc = "ready" /\ UNCHANGED <<doc, base, hidden, undisturbed>>
    BY DEF Snapshot, people
  <1>1. CASE Abort
    BY <1>0, <1>1, AbortAgree
  <1>2. CASE op.kind = "repair" /\ UNCHANGED <<op, report>>
    BY <1>0, <1>2, RunAgree
  <1>3. CASE /\ v \in {None, p} /\ pc' = "scan"
             /\ seen' = [project |-> p, vault |-> v, stale |-> BehindProject(p)]
             /\ UNCHANGED <<op, report>>
    <2>1. seen'.project = p /\ seen'.vault = v /\ seen'.stale = BehindProject(p)
      BY <1>3
    <2>2. p' = p /\ v' = v /\ BehindProject(p)' = BehindProject(p)
      BY <1>0 DEF At, BehindProject, OneRevision, LedgerOf
    <2>3. Ledgers'
      <3> HIDE DEF p, v
      <3>1. At("project", Ledger)' = p /\ At("vault", Ledger)' = v
        BY <2>2 DEF p, v
      <3>2. BehindProject(seen.project)' = BehindProject(p)
        <4>1. BehindProject(seen.project)' =
                 (OneRevision(doc["project"]) /\ LedgerOf(doc["project"], p.stamp) # p)
          BY <1>0, <2>1 DEF BehindProject, OneRevision, LedgerOf
        <4> QED BY <4>1 DEF BehindProject
      <3> QED BY <1>3, <2>1, <3>1, <3>2 DEF Ledgers
    <2>4. Agreeing'
      BY <1>3, <2>3 DEF Agreeing, Writing, Hiding
    <2> QED BY <1>0, <1>3, <2>4, RunAgree
  <1> QED BY <1>1, <1>2, <1>3 DEF Snapshot

LEMMA ScanAgree == ASSUME Inv, AgreeInv, Scan PROVE AgreeInv'
  <1>0. /\ pc = "scan" /\ UNCHANGED <<world, op, bad, committed, report, undisturbed>>
        /\ seen' = [project |-> seen.project, vault |-> seen.vault,
                    stale |-> seen.stale, doc |-> doc, base |-> base]
    BY DEF Scan, people
  <1>1. CASE op.kind = "resolve"
    BY <1>0, <1>1, RunAgree
  <1>2. CASE op.kind # "resolve"
    <2>1. pc' = "entity" /\ todo' = <<History, Overview>>
      BY <1>2 DEF Scan
    <2>2. /\ seen'.project = seen.project /\ seen'.vault = seen.vault
          /\ seen'.stale = seen.stale /\ seen'.doc = doc
      BY <1>0
    <2>3. UNCHANGED <<doc, hidden, committed>>
      BY <1>0 DEF world
    <2>4. Rest' = {History, Overview}
      BY <2>1 DEF Rest
    <2>5. ASSUME Agreeing PROVE Agreeing'
      <3>1. Ledgers
        BY <1>0, <2>5 DEF Agreeing
      <3>2. Ledgers'
        BY <2>2, <2>3, <3>1 DEF Ledgers, At, BehindProject, OneRevision, LedgerOf
      <3>3. Stepping(Entities \ Rest)'
        <4>1. \A e : e \notin Entities' \ Rest'
          BY <2>4 DEF Entities
        <4> QED BY <2>2, <2>3, <3>2, <4>1 DEF Stepping
      <3> QED BY <2>1, <3>3 DEF Agreeing, Writing, Hiding
    <2> QED BY <1>0, <2>5, RunAgree
  <1> QED BY <1>1, <1>2

LEMMA EndEntitiesAgree == ASSUME Inv, AgreeInv, EndEntities PROVE AgreeInv'
  <1>0. pc = "entity" /\ todo = <<>> /\ UNCHANGED <<world, undisturbed>>
    BY DEF EndEntities, people
  <1>1. CASE Abort
    BY <1>0, <1>1, AbortAgree
  <1>2. CASE ~bad /\ pc' = "align" /\ UNCHANGED <<locals, report>>
    <2>1. UNCHANGED <<doc, base, hidden, op, seen, committed>>
      BY <1>0, <1>2 DEF world, locals
    <2>2. ASSUME Agreeing PROVE Agreeing'
      <3>1. Stepping(Entities \ Rest) /\ Rest = {}
        BY <1>0, <2>2 DEF Agreeing, Rest
      <3>2. Ledgers /\ \A e \in Entities : Synced(e)
        BY <1>2, <3>1 DEF Stepping
      <3>3. Ledgers'
        BY <2>1, <3>2, LedgersStay
      <3>4. \A e \in Entities : Synced(e)'
        BY <2>1, <3>2 DEF Synced
      <3> QED BY <1>2, <3>3, <3>4 DEF Agreeing, Writing, Hiding
    <2> QED BY <1>0, <1>2, <2>1, <2>2, RunAgree
  <1> QED BY <1>1, <1>2 DEF EndEntities

\* Two sides that need no merge hold the merge base.
LEMMA NothingToMerge ==
    ASSUME None \notin Texts, NEW b \in Texts, NEW p \in Texts, ~Clash(b, p, p),
           Accepted(b, p, p) = p
    PROVE  p = b
  <1> DEFINE units == [u \in Units |-> IF p.units[u] # b.units[u]
                                       THEN p.units[u] ELSE p.units[u]]
  <1>1. p # None /\ b # None
    OBVIOUS
  <1>2. p.rev = b.rev
    BY <1>1 DEF Clash
  <1>3. p.units \in [Units -> 0 .. saves] /\ b.units \in [Units -> 0 .. saves]
    BY UnitsText
  <1>4. units = p.units
    BY <1>3
  <1>5. Accepted(b, p, p) = FinalizeHumanMerge(b, units)
    BY <1>1 DEF Accepted, Candidate
  <1>6. p = FinalizeHumanMerge(b, p.units)
    BY <1>4, <1>5
  <1>7. b.rev \in Nat /\ b.rev + 1 # b.rev
    BY DEF Texts
  <1>8. CASE p.units = b.units
    BY <1>6, <1>8 DEF FinalizeHumanMerge
  <1>9. CASE p.units # b.units
    <2>1. p.rev = b.rev + 1
      BY <1>3, <1>6, <1>9, MixText
    <2> QED BY <1>2, <1>7, <2>1
  <1> QED BY <1>8, <1>9

\* A document of which nothing is left to accept was nowhere.
LEMMA NowhereToMerge ==
    ASSUME None \notin Texts, NEW b \in Maybe, NEW p \in Maybe, NEW v \in Maybe,
           Accepted(b, p, v) = None
    PROVE  b = None /\ p = None /\ v = None
  <1>1. b = None
    BY AcceptedText
  <1> QED BY <1>1 DEF Accepted

LEMMA EntityAgree == ASSUME Inv, AgreeInv, Entity PROVE AgreeInv'
  <1> DEFINE e == Head(todo)
             p == seen.doc["project"][e]
             v == seen.doc["vault"][e]
             b == seen.base[e]
             body == Accepted(b, p, v)
  <1>0. /\ pc = "entity" /\ todo # <<>> /\ todo' = Tail(todo) /\ Walking
        /\ UNCHANGED <<doc, base, hidden, op, seen, report, undisturbed>>
    BY DEF Entity, Inv, Engaged, people
  <1>1. /\ Rest \subseteq Entities /\ e \in Rest /\ Rest' = Rest \ {e}
    <2>1. Rest' = {Tail(todo)[i] : i \in DOMAIN Tail(todo)}
      BY <1>0 DEF Rest
    <2> QED BY <1>0, <2>1, RestOf DEF Walking
  <1>2. /\ e \in Entities /\ base[e] = b
        /\ p \in Maybe /\ v \in Maybe /\ b \in Maybe /\ None \notin Texts
    BY <1>0, <1>1, Worldly DEF Walking, Trees, Bases, Sides, Inv
  <1> HIDE DEF e, p, v, b, body
  <1>3. SUFFICES ASSUME Agreeing PROVE Agreeing'
    BY <1>0, RunAgree
  <1>4. Stepping(Entities \ Rest)
    BY <1>0, <1>3 DEF Agreeing
  <1>5. ASSUME committed' \/ UNCHANGED committed PROVE Ledgers'
    BY <1>0, <1>4, <1>5, LedgersStay DEF Stepping
  <1>6. \A f \in Rest', s \in Sides : seen'.doc[s][f] = doc'[s][f]
    BY <1>0, <1>1, <1>4 DEF Stepping
  <1>7. \A f : Synced(f)' <=> Synced(f)
    BY <1>0 DEF Synced
  <1>8. ASSUME bad', UNCHANGED committed, NEW met PROVE Stepping(met)'
    BY <1>5, <1>6, <1>8 DEF Stepping
  <1>9. CASE SeenClash(e) /\ PersistConflictRecord(e) /\ UNCHANGED committed
    <2>1. bad' = TRUE
      BY <1>9 DEF PersistConflictRecord
    <2>2. CASE UNCHANGED pc
      <3>1. Stepping(Entities \ Rest)'
        BY <1>8, <1>9, <2>1 DEF Stepping
      <3> QED BY <1>0, <2>2, <3>1 DEF Agreeing, Writing, Hiding
    <2>3. ASSUME NEW t, NEW at, pc' = "hidden",
                 cur' = [t |-> t, body |-> OpenNote, next |-> "entity", pre |-> at]
          PROVE  Agreeing'
      <3>1. cur'.next = "entity"
        BY <2>3
      <3>2. Stepping({})'
        BY <1>8, <1>9, <2>1 DEF Stepping
      <3> QED BY <2>3, <3>1, <3>2 DEF Agreeing, Writing, Hiding
    <2> QED BY <1>9, <2>2, <2>3 DEF PersistConflictRecord
  <1>10. CASE /\ ~SeenClash(e) /\ (body = None \/ (p = body /\ v = body /\ b # None))
              /\ UNCHANGED <<pc, bad, committed>>
    <2>1. seen.doc["project"][e] = doc["project"][e] /\ seen.doc["vault"][e] = doc["vault"][e]
      BY <1>1, <1>4 DEF Stepping, Sides
    <2>2. p = b /\ v = b
      <3>1. CASE body = None
        BY <1>2, <3>1, NowhereToMerge DEF body
      <3>2. CASE p = body /\ v = body /\ b # None /\ body # None
        <4>1. p \in Texts /\ b \in Texts /\ v = p
          BY <1>2, <3>2 DEF Maybe
        <4>2. ~Clash(b, p, p)
          BY <1>10, <4>1 DEF SeenClash, b, p, v
        <4>3. Accepted(b, p, p) = p
          BY <3>2 DEF body
        <4> QED BY <1>2, <4>1, <4>2, <4>3, NothingToMerge
      <3> QED BY <1>10, <3>1, <3>2
    <2>3. Synced(e)
      BY <1>2, <2>1, <2>2 DEF Synced, Sides, p, v
    <2>4. bad' \/ \A f \in Entities \ Rest' : Synced(f)'
      BY <1>1, <1>4, <1>7, <1>10, <2>3 DEF Stepping
    <2>5. Stepping(Entities \ Rest)'
      BY <1>5, <1>6, <1>10, <2>4 DEF Stepping, Entities
    <2> QED BY <1>0, <1>10, <2>5 DEF Agreeing, Writing, Hiding
  <1>11. CASE /\ Plan(e, body, p, v, "entity") /\ committed' = TRUE /\ UNCHANGED bad
    <2>1. /\ pc' = "write" /\ cur'.next = "entity" /\ cur'.side = "project"
          /\ cur'.t.of = e
      <3> DEFINE t == Transaction("entity", e, body, base[e], p, v)
                 w == {s \in Sides : t[s] # body}
      <3>1. t.of = e
        BY DEF Transaction
      <3>2. pc' = "write" /\ cur' = [t |-> t, body |-> body, next |-> "entity",
                                     side |-> "project",
                                     pre |-> [project |-> p, vault |-> v], write |-> w]
        BY <1>11 DEF Plan
      <3> HIDE DEF t, w
      <3> QED BY <3>1, <3>2
    <2>2. Rest' \cup {e} = Rest
      BY <1>1
    <2>3. bad' \/ \A f \in Entities \ (Rest' \cup {e}) : Synced(f)'
      BY <1>4, <1>7, <1>11, <2>2 DEF Stepping
    <2>4. Stepping(Entities \ (Rest \cup {cur.t.of}))'
      BY <1>5, <1>6, <1>11, <2>1, <2>3 DEF Stepping, Entities
    <2>5. Landed'
      BY <2>1 DEF Landed
    <2> QED BY <1>11, <2>1, <2>4, <2>5 DEF Agreeing, Writing, Hiding
  <1> QED BY <1>9, <1>10, <1>11 DEF Entity, e, p, v, b, body

LEMMA AlignAgree == ASSUME Inv, AgreeInv, Align PROVE AgreeInv'
  <1>0. pc = "align" /\ UNCHANGED <<doc, base, hidden, undisturbed>>
    BY DEF Align
  <1>1. CASE Abort
    BY <1>0, <1>1, AbortAgree
  <1>2. CASE /\ None \notin {doc[s][e] : s \in Sides, e \in Entities} /\ Behind = {}
             /\ pc' = "publish" /\ UNCHANGED <<locals, report>>
    <2>1. UNCHANGED <<op, seen, committed>>
      BY <1>2 DEF locals
    <2>2. ASSUME Agreeing PROVE Agreeing'
      <3>1. Ledgers /\ \A e \in Entities : Synced(e)
        BY <1>0, <2>2 DEF Agreeing
      <3>2. \A e \in Entities : doc["project"][e] = base[e] /\ base[e] # None
        BY <1>2, <3>1 DEF Synced, Sides
      <3>3. \A e \in Entities : base[e].rev \in Nat
        BY <3>2 DEF Inv, World, Bases, Maybe, Texts
      <3>4. History \in Entities /\ Overview \in Entities
        BY DEF Entities
      <3>5. \A e, f \in Entities : ~(base[e].rev < base[f].rev)
        BY <1>2, <3>2 DEF Behind
      <3>6. base[Overview].rev = base[History].rev
        BY <3>3, <3>4, <3>5
      <3>7. OneRevision(base)'
        BY <1>0, <3>2, <3>6 DEF OneRevision
      <3>8. Ledgers'
        BY <1>0, <2>1, <3>1, LedgersStay
      <3>9. \A e \in Entities : Synced(e)'
        BY <1>0, <3>1 DEF Synced
      <3> QED BY <1>2, <3>7, <3>8, <3>9 DEF Agreeing, Writing, Hiding
    <2> QED BY <1>0, <1>2, <2>1, <2>2, RunAgree
  <1>3. ASSUME None \notin {doc[s][e] : s \in Sides, e \in Entities},
               NEW e \in Behind, Lift(e), ~Abort
        PROVE  AgreeInv'
    <2> DEFINE now == doc["project"]
               top == CHOOSE r \in {now[f].rev : f \in Entities} : r # now[e].rev
               body == Lifted(e)
    <2>1. /\ Plan(e, body, now[e], doc["vault"][e], "publish") /\ committed' = TRUE
          /\ UNCHANGED <<op, seen, report>>
      BY <1>3 DEF Lift
    <2>2. /\ pc' = "write" /\ cur'.next = "publish" /\ cur'.side = "project"
          /\ cur'.t.of = e /\ cur'.body = body
      <3> DEFINE t == Transaction("entity", e, body, base[e], now[e], doc["vault"][e])
      <3>1. t.of = e
        BY DEF Transaction
      <3>2. pc' = "write" /\ cur' = [t |-> t, body |-> body, next |-> "publish",
                                     side |-> "project",
                                     pre |-> [project |-> now[e],
                                              vault |-> doc["vault"][e]],
                                     write |-> Sides]
        BY <2>1 DEF Plan
      <3> HIDE DEF t, body, now
      <3> QED BY <3>1, <3>2
    <2>3. e \in Entities /\ \A f \in Entities : now[f] \in Texts
      BY <1>3 DEF Behind, Inv, World, Trees, Maybe, Sides
    <2>4. PICK f \in Entities : now[e].rev < now[f].rev
      BY DEF Behind
    <2>5. \A g \in Entities : now[g].rev \in Nat
      BY <2>3 DEF Texts
    <2>6. top \in {now[g].rev : g \in Entities} /\ top # now[e].rev
      <3>1. now[f].rev \in {now[g].rev : g \in Entities} /\ now[f].rev # now[e].rev
        BY <2>3, <2>4, <2>5
      <3> QED BY <3>1
    <2>7. \A g \in Entities \ {e} : top = now[g].rev
      <3>1. PICK g \in Entities : top = now[g].rev
        BY <2>6
      <3> QED BY <2>3, <2>6, <3>1 DEF Entities
    <2>8. body.rev = top
      <3>1. body = [now[e] EXCEPT !.rev = top]
        BY DEF Lifted
      <3>2. now[e] = [units |-> now[e].units, rev |-> now[e].rev]
        BY <2>3 DEF Texts
      <3> HIDE DEF body, top
      <3> QED BY <3>1, <3>2
    <2> HIDE DEF body, top
    <2>9. ASSUME Agreeing PROVE Agreeing'
      <3>1. Ledgers /\ \A g \in Entities : Synced(g)
        BY <1>0, <2>9 DEF Agreeing
      <3>2. Ledgers'
        BY <1>0, <2>1, <3>1, LedgersStay
      <3>3. ASSUME NEW g \in Entities \ {e}
            PROVE  Synced(g)' /\ base'[g] # None /\ base'[g].rev = body.rev
        <4>1. now[g] = base[g] /\ base[g] # None
          BY <1>3, <3>1 DEF Synced, Sides
        <4>2. Synced(g)'
          BY <1>0, <3>1 DEF Synced
        <4> QED BY <1>0, <2>7, <2>8, <4>1, <4>2
      <3>4. Landed'
        BY <2>2 DEF Landed
      <3> QED BY <2>1, <2>2, <3>2, <3>3, <3>4 DEF Agreeing, Writing, Hiding, Entities
    <2> QED BY <1>0, <2>1, <2>9, RunAgree
  <1> QED BY <1>1, <1>2, <1>3 DEF Align

\* Where both trees hold the merge base, so does the project's as a whole.
LEMMA ProjectIsBase ==
    ASSUME World, \A e \in Entities : Synced(e)
    PROVE  doc["project"] = base
  <1>1. doc["project"] \in [Entities -> Maybe] /\ base \in [Entities -> Maybe]
    BY DEF World, Trees, Bases, Sides
  <1>2. \A e \in Entities : doc["project"][e] = base[e]
    BY DEF Synced, Sides
  <1> QED BY <1>1, <1>2

LEMMA PublishAgree == ASSUME Inv, AgreeInv, Publish PROVE AgreeInv'
  <1> DEFINE renew == committed \/ seen.stale
             body == IF renew THEN LedgerOf(doc["project"], seen.project.stamp + 1)
                              ELSE seen.project
  <1>0. pc = "publish" /\ UNCHANGED <<doc, base, hidden, undisturbed>>
    BY DEF Publish, people
  <1>1. CASE Abort
    BY <1>0, <1>1, AbortAgree
  <1>2. ASSUME Agreeing
        PROVE  /\ Ledgers /\ \A e \in Entities : Synced(e)
               /\ LedgerOf(base, body.stamp) = body
               /\ ~renew => body = seen.project
    <2>1. Ledgers /\ (\A e \in Entities : Synced(e)) /\ OneRevision(base)
      BY <1>0, <1>2 DEF Agreeing
    <2>2. doc["project"] = base
      BY <2>1, ProjectIsBase DEF Inv
    <2>3. CASE renew
      <3>1. body = LedgerOf(base, seen.project.stamp + 1)
        BY <2>2, <2>3
      <3>2. body.stamp = seen.project.stamp + 1
        BY <3>1 DEF LedgerOf
      <3> QED BY <2>1, <2>3, <3>1, <3>2
    <2>4. CASE ~renew
      <3>1. ~BehindProject(seen.project)
        BY <2>1, <2>4 DEF Ledgers
      <3>2. LedgerOf(base, seen.project.stamp) = seen.project
        BY <2>1, <2>2, <3>1 DEF BehindProject
      <3> QED BY <2>1, <2>4, <3>2
    <2> QED BY <2>3, <2>4
  <1>3. CASE /\ ~renew /\ seen.vault # None
             /\ pc' = "done" /\ UNCHANGED <<locals, report>>
    <2>1. UNCHANGED op
      BY <1>3 DEF locals
    <2>2. ASSUME Agreeing PROVE Agreeing'
      <3>1. Ledgers /\ (\A e \in Entities : Synced(e))
            /\ LedgerOf(base, seen.project.stamp) = seen.project
        BY <1>2, <1>3, <2>2
      <3>2. At("project", Ledger) = seen.project /\ At("vault", Ledger) = seen.project
        BY <1>3, <3>1 DEF Ledgers
      <3>3. Agreed
        BY <3>1, <3>2 DEF Agreed
      <3>4. Agreed'
        BY <1>0, <3>3 DEF Agreed, Synced, At, LedgerOf
      <3> QED BY <1>3, <3>4 DEF Agreeing, Writing, Hiding
    <2> QED BY <1>0, <1>3, <2>1, <2>2, RunAgree
  <1>4. ASSUME NEW t, NEW pre,
               t = Transaction("publish", Ledger, body, seen.project,
                               seen.project, seen.vault),
               cur' = [t |-> t, body |-> body, next |-> "done", pre |-> pre],
               pc' = "hidden", UNCHANGED <<op, report>>
        PROVE  AgreeInv'
    <2>1. t.of = Ledger
      BY <1>4 DEF Transaction
    <2> HIDE DEF body, renew
    <2>2. cur'.t = t /\ cur'.body = body /\ cur'.next = "done"
      BY <1>4
    <2>3. ASSUME Agreeing PROVE Agreeing'
      <3>1. (\A e \in Entities : Synced(e)) /\ LedgerOf(base, body.stamp) = body
        BY <1>2, <2>3
      <3>2. \A e \in Entities : Synced(e)'
        BY <1>0, <3>1 DEF Synced
      <3>3. LedgerOf(base, cur.body.stamp)' = cur'.body
        BY <1>0, <2>2, <3>1 DEF LedgerOf
      <3> QED BY <1>4, <2>1, <2>2, <3>2, <3>3 DEF Agreeing, Writing, Hiding
    <2> QED BY <1>0, <1>4, <2>3, RunAgree
  <1> QED BY <1>1, <1>3, <1>4 DEF Publish

LEMMA FinishAgree == ASSUME AgreeInv, Finish PROVE AgreeInv'
  <1>1. /\ pc = "done" /\ pc' = "idle" /\ report' = (op.kind = "reconcile")
        /\ UNCHANGED <<doc, base, hidden, undisturbed>>
    BY DEF Finish, Reset, world, people
  <1>2. report' /\ undisturbed' => Agreed
    BY <1>1 DEF AgreeInv, Agreeing
  <1>3. Agreed' <=> Agreed
    BY <1>1 DEF Agreed, Synced, At, LedgerOf
  <1> QED BY <1>1, <1>2, <1>3 DEF AgreeInv

\* A resolution announces nothing that Reconcile reports.
LEMMA ResolveAgree == ASSUME Inv, AgreeInv, Choose \/ ResolveDocument PROVE AgreeInv'
  <1>0. pc \in {"choose", "resolve"} /\ op.kind = "resolve" /\ UNCHANGED undisturbed
    BY DEF Choose, ResolveDocument, Inv, Engaged, Choosing, Resolving, Noted, people
  <1>1. CASE Abort
    BY <1>0, <1>1, AbortAgree
  <1>2. CASE UNCHANGED <<op, report>>
    BY <1>0, <1>2, RunAgree
  <1> QED BY <1>1, <1>2 DEF Choose, ResolveDocument

\* A step that writes a document keeps what is known of the others.
LEMMA WritingAgree ==
    ASSUME Inv, AgreeInv, pc \in Writing, pc' \in Writing,
           UNCHANGED <<hidden, op, seen, todo, bad, committed, report, undisturbed>>,
           cur'.t.of = cur.t.of /\ cur'.body = cur.body /\ cur'.next = cur.next,
           \A e \in Entities \ {cur.t.of} :
              base'[e] = base[e] /\ \A s \in Sides : doc'[s][e] = doc[s][e],
           cur.next \in {"entity", "publish"} /\ Landed => Landed'
    PROVE  AgreeInv'
  <1>0. pc # "idle" /\ pc' \notin Hiding /\ cur.t.of \in Entities
    <2>1. WritingOK
      BY DEF Inv, Engaged
    <2>2. cur.t.of \in Entities
      BY <2>1 DEF WritingOK, Inv, Files, File
    <2> QED BY <2>2 DEF Writing, Hiding
  <1>1. SUFFICES ASSUME Agreeing PROVE Agreeing'
    BY <1>0, RunAgree
  <1>2. \A e \in Entities \ {cur.t.of} : Synced(e) => Synced(e)'
    BY DEF Synced
  <1>3. Rest' = Rest
    BY DEF Rest
  <1>4. ASSUME Ledgers, committed PROVE Ledgers'
    BY <1>4, LedgersStay
  <1>5. CASE cur.next = "entity"
    <2>1. committed /\ Landed /\ Stepping(Entities \ (Rest \cup {cur.t.of}))
      BY <1>1, <1>5 DEF Agreeing
    <2>2. cur.t.of \notin Rest /\ Rest \subseteq Entities
      <3>1. WritingOK
        BY DEF Inv, Engaged
      <3>2. cur.t.of \notin Rest /\ Walking
        BY <1>5, <3>1 DEF WritingOK
      <3> QED BY <3>2, RestOf DEF Walking
    <2>3. \A e \in Rest', s \in Sides : seen'.doc[s][e] = doc'[s][e]
      BY <1>3, <2>1, <2>2 DEF Stepping
    <2>4. bad' \/ \A e \in Entities \ (Rest' \cup {cur'.t.of}) : Synced(e)'
      BY <1>2, <1>3, <2>1 DEF Stepping
    <2>5. Stepping(Entities \ (Rest \cup {cur.t.of}))'
      BY <1>4, <2>1, <2>3, <2>4 DEF Stepping, Entities
    <2> QED BY <1>0, <1>5, <2>1, <2>5 DEF Agreeing, Writing
  <1>6. CASE cur.next = "publish"
    <2>1. /\ committed /\ Landed /\ Ledgers
          /\ \A e \in Entities \ {cur.t.of} :
                Synced(e) /\ base[e] # None /\ base[e].rev = cur.body.rev
      BY <1>1, <1>6 DEF Agreeing
    <2>2. \A e \in Entities \ {cur'.t.of} :
                Synced(e)' /\ base'[e] # None /\ base'[e].rev = cur'.body.rev
      BY <1>2, <2>1
    <2>3. Ledgers'
      BY <1>4, <2>1
    <2> QED BY <1>0, <1>6, <2>1, <2>2, <2>3 DEF Agreeing, Writing, Entities
  <1>7. CASE cur.next \notin {"entity", "publish"}
    BY <1>0, <1>7 DEF Agreeing, Writing
  <1> QED BY <1>5, <1>6, <1>7

LEMMA CurSide ==
    ASSUME WritingOK, cur' = [cur EXCEPT !.side = "vault"]
    PROVE  /\ cur'.t = cur.t /\ cur'.body = cur.body /\ cur'.next = cur.next
           /\ cur'.side = "vault"
  <1>1. cur = [t |-> cur.t, body |-> cur.body, next |-> cur.next,
               side |-> cur.side, pre |-> cur.pre, write |-> cur.write]
    BY DEF WritingOK
  <1>2. cur' = [t |-> cur.t, body |-> cur.body, next |-> cur.next,
                side |-> "vault", pre |-> cur.pre, write |-> cur.write]
    BY <1>1
  <1> QED BY <1>2

\* Where the next stage is saved, the file of the same document is meant.
LEMMA CurStage ==
    ASSUME WritingOK \/ HidingOK, Inv, NEW side,
           LET n == [cur.t EXCEPT !.stage = After(@)]
           IN \/ cur' = [cur EXCEPT !.t = n]
              \/ WritingOK /\ cur' = [cur EXCEPT !.t = n, !.side = side]
    PROVE  /\ cur'.t.of = cur.t.of /\ cur'.body = cur.body /\ cur'.next = cur.next
           /\ cur'.t.kind = cur.t.kind
           /\ WritingOK => cur'.side = cur.side \/ cur'.side = side
  <1> DEFINE t == cur.t
             n == [t EXCEPT !.stage = After(@)]
  <1>1. t = [kind |-> t.kind, of |-> t.of, desired |-> t.desired, base |-> t.base,
             project |-> t.project, vault |-> t.vault, stage |-> t.stage]
    BY DEF WritingOK, HidingOK, Inv, Files, File
  <1>2. n = [kind |-> t.kind, of |-> t.of, desired |-> t.desired, base |-> t.base,
             project |-> t.project, vault |-> t.vault, stage |-> After(t.stage)]
    BY <1>1
  <1>3. \/ cur' = [cur EXCEPT !.t = n]
        \/ WritingOK /\ cur' = [cur EXCEPT !.t = n, !.side = side]
    OBVIOUS
  <1>4. t = cur.t
    OBVIOUS
  <1> HIDE DEF n, t
  <1>5. n.of = t.of /\ n.kind = t.kind
    BY <1>2
  <1>6. CASE WritingOK
    <2>1. cur = [t |-> cur.t, body |-> cur.body, next |-> cur.next,
                 side |-> cur.side, pre |-> cur.pre, write |-> cur.write]
      BY <1>6 DEF WritingOK
    <2>2. CASE cur' = [cur EXCEPT !.t = n]
      <3>1. cur' = [t |-> n, body |-> cur.body, next |-> cur.next,
                    side |-> cur.side, pre |-> cur.pre, write |-> cur.write]
        BY <2>1, <2>2
      <3> QED BY <1>4, <1>5, <3>1
    <2>3. CASE cur' = [cur EXCEPT !.t = n, !.side = side]
      <3>1. cur' = [t |-> n, body |-> cur.body, next |-> cur.next,
                    side |-> side, pre |-> cur.pre, write |-> cur.write]
        BY <2>1, <2>3
      <3> QED BY <1>4, <1>5, <3>1
    <2> QED BY <1>3, <2>2, <2>3
  <1>7. CASE ~WritingOK
    <2>1. cur = [t |-> cur.t, body |-> cur.body, next |-> cur.next, pre |-> cur.pre]
      BY <1>7 DEF HidingOK
    <2>2. cur' = [t |-> n, body |-> cur.body, next |-> cur.next, pre |-> cur.pre]
      BY <1>3, <1>7, <2>1
    <2> QED BY <1>4, <1>5, <1>7, <2>2
  <1> QED BY <1>6, <1>7

LEMMA WriteAgree == ASSUME Inv, AgreeInv, Write PROVE AgreeInv'
  <1>0. /\ pc = "write" /\ UNCHANGED <<doc, base, hidden, undisturbed>> /\ WritingOK
    BY DEF Write, world, people, Inv, Engaged, Writing
  <1>1. CASE Fail
    BY <1>0, <1>1, FailAgree DEF Writing
  <1>2. CASE pc' = "replace" /\ UNCHANGED <<locals, report>>
    <2>1. UNCHANGED <<op, seen, todo, cur, bad, committed>>
      BY <1>2 DEF locals
    <2>2. Landed => Landed'
      BY <1>0, <1>2, <2>1 DEF Landed
    <2> QED BY <1>0, <1>2, <2>1, <2>2, WritingAgree DEF Writing
  <1>3. CASE Written /\ UNCHANGED <<op, seen, todo, bad, committed, report>>
    <2>1. /\ pc' \in Writing
          /\ cur'.t.of = cur.t.of /\ cur'.body = cur.body /\ cur'.next = cur.next
      BY <1>0, <1>3, WrittenMoves, CurSide
    <2>2. cur.next # "recoverEntity" => UNCHANGED cur /\ pc' = "verify"
      BY <1>3 DEF Written, Recovering
    <2>3. cur.next \in {"entity", "publish"} /\ Landed => Landed'
      BY <1>0, <2>2 DEF Landed
    <2> QED BY <1>0, <1>3, <2>1, <2>3, WritingAgree DEF Writing
  <1> QED BY <1>1, <1>2, <1>3 DEF Write

LEMMA ReplaceAgree == ASSUME Inv, AgreeInv, Replace PROVE AgreeInv'
  <1>0. /\ pc = "replace" /\ Written /\ WritingOK
        /\ doc' = [doc EXCEPT ![cur.side][cur.t.of] = cur.body]
        /\ UNCHANGED <<base, hidden, op, seen, todo, bad, committed, report, undisturbed>>
    BY DEF Replace, Inv, Engaged, Writing
  <1>1. /\ pc' \in Writing
        /\ cur'.t.of = cur.t.of /\ cur'.body = cur.body /\ cur'.next = cur.next
    BY <1>0, WrittenMoves, CurSide
  <1>2. cur.next # "recoverEntity" => UNCHANGED cur /\ pc' = "verify"
    BY <1>0 DEF Written, Recovering
  <1>3. cur.side \in Sides /\ cur.t.of \in Entities
    BY <1>0 DEF WritingOK, Inv, Files, File
  <1>4. \A s \in Sides, e \in Entities :
           doc'[s][e] = IF s = cur.side /\ e = cur.t.of THEN cur.body ELSE doc[s][e]
    BY <1>0, <1>3 DEF Inv, World, Trees
  <1>5. cur.next \in {"entity", "publish"} /\ Landed => Landed'
    BY <1>0, <1>2, <1>3, <1>4 DEF Landed, Sides
  <1> QED BY <1>0, <1>1, <1>4, <1>5, WritingAgree DEF Writing

LEMMA VerifyAgree == ASSUME Inv, AgreeInv, Verify PROVE AgreeInv'
  <1>0. pc = "verify" /\ UNCHANGED <<doc, base, hidden, undisturbed>> /\ WritingOK
    BY DEF Verify, people, Inv, Engaged, Writing
  <1>1. CASE Fail
    BY <1>0, <1>1, FailAgree DEF Writing
  <1>2. CASE ~Fail
    <2> DEFINE n == [cur.t EXCEPT !.stage = After(@)]
    <2>1. /\ doc[cur.side][cur.t.of] = cur.body
          /\ cur' = [cur EXCEPT !.t = n, !.side = "vault"]
          /\ pc' = IF cur.side = "project" THEN "write" ELSE "commit"
          /\ UNCHANGED <<op, seen, todo, note, bad, committed, report>>
      BY <1>2 DEF Verify
    <2>2. cur'.t.of = cur.t.of /\ cur'.body = cur.body /\ cur'.next = cur.next
      BY <1>0, <2>1, CurStage
    <2>3. pc' \in Writing /\ cur.side \in Sides
      BY <1>0, <2>1 DEF Writing, WritingOK
    <2>4. Landed => Landed'
      <3>1. CASE cur.side = "project"
        BY <1>0, <2>1, <2>2, <3>1 DEF Landed
      <3>2. CASE cur.side = "vault"
        BY <1>0, <2>1, <2>2, <3>2 DEF Landed, Sides
      <3> QED BY <2>3, <3>1, <3>2 DEF Sides
    <2> QED BY <1>0, <2>1, <2>2, <2>3, <2>4, WritingAgree DEF Writing
  <1> QED BY <1>1, <1>2

LEMMA CommitAgree == ASSUME Inv, AgreeInv, Commit PROVE AgreeInv'
  <1>0. pc = "commit" /\ UNCHANGED <<doc, hidden, undisturbed>> /\ WritingOK
    BY DEF Commit, people, Inv, Engaged, Writing
  <1>1. CASE Fail /\ UNCHANGED base
    BY <1>0, <1>1, FailAgree DEF Writing
  <1>2. CASE /\ base' = [base EXCEPT ![cur.t.of] = cur.body]
             /\ pc' = IF Recovering THEN "remove" ELSE "seal"
             /\ UNCHANGED <<locals, report>>
    <2>1. UNCHANGED <<op, seen, todo, cur, bad, committed>>
      BY <1>2 DEF locals
    <2>2. Landed => Landed'
      BY <1>0, <1>2, <2>1 DEF Landed
    <2>3. \A e \in Entities \ {cur.t.of} : base'[e] = base[e]
      BY <1>2 DEF Inv, World, Bases
    <2> QED BY <1>0, <1>2, <2>1, <2>2, <2>3, WritingAgree DEF Writing
  <1> QED BY <1>1, <1>2 DEF Commit

LEMMA SealAgree == ASSUME Inv, AgreeInv, Seal PROVE AgreeInv'
  <1>0. /\ pc = "seal" /\ pc' = "remove" /\ WritingOK
        /\ UNCHANGED <<doc, base, hidden, op, seen, todo, bad, committed, report, undisturbed>>
        /\ cur' = [cur EXCEPT !.t = [cur.t EXCEPT !.stage = After(@)]]
    BY DEF Seal, Advance, people, Inv, Engaged, Writing
  <1>1. /\ cur'.t.of = cur.t.of /\ cur'.body = cur.body /\ cur'.next = cur.next
        /\ cur'.side = cur.side
    BY <1>0, CurStage
  <1>2. Landed => Landed'
    BY <1>0, <1>1 DEF Landed
  <1> QED BY <1>0, <1>1, <1>2, WritingAgree DEF Writing

\* The last step for a document: both sides and the merge base hold it.
LEMMA RemoveAgree == ASSUME Inv, AgreeInv, Remove PROVE AgreeInv'
  <1>0. /\ pc = "remove" /\ WritingOK
        /\ UNCHANGED <<doc, base, hidden, op, seen, todo, bad, committed, report, undisturbed>>
        /\ IF cur.next = "note" THEN cur' = note /\ pc' = "hidden"
           ELSE cur' = None /\ pc' = cur.next
    BY DEF Remove, people, Inv, Engaged, Writing
  <1>1. cur.t.of \in Entities /\ base[cur.t.of] = cur.body /\ cur.body \in Texts
    BY <1>0 DEF WritingOK, Inv, Files, File
  <1>2. Landed => Synced(cur.t.of)
    BY <1>0, <1>1 DEF Landed, Synced
  <1>3. \A e : Synced(e)' <=> Synced(e)
    BY <1>0 DEF Synced
  <1>4. CASE cur.next = "note"
    <2>1. op.kind = "resolve"
      BY <1>0, <1>4 DEF WritingOK, Noted
    <2> QED BY <1>0, <2>1, RunAgree
  <1>5. CASE cur.next = "recoverEntity"
    BY <1>0, <1>5, PlainAgree
  <1>6. CASE cur.next = "entity"
    <2>1. ASSUME Agreeing PROVE Agreeing'
      <3>1. Landed /\ Stepping(Entities \ (Rest \cup {cur.t.of}))
        BY <1>0, <1>6, <2>1 DEF Agreeing, Writing
      <3>2. bad \/ \A e \in Entities \ Rest : Synced(e)
        BY <1>2, <3>1 DEF Stepping
      <3>3. Stepping(Entities \ Rest)
        BY <3>1, <3>2 DEF Stepping
      <3>4. Stepping(Entities \ Rest)'
        <4>1. \A met : Stepping(met) => Stepping(met)'
          BY <1>0, SteppingStay
        <4>2. Rest' = Rest
          BY <1>0 DEF Rest
        <4> QED BY <3>3, <4>1, <4>2 DEF Entities
      <3> QED BY <1>0, <1>6, <3>4 DEF Agreeing, Writing, Hiding
    <2> QED BY <1>0, <2>1, RunAgree
  <1>7. CASE cur.next = "publish"
    <2>1. ASSUME Agreeing PROVE Agreeing'
      <3>1. /\ Landed /\ Ledgers
            /\ \A e \in Entities \ {cur.t.of} :
                  Synced(e) /\ base[e] # None /\ base[e].rev = cur.body.rev
        BY <1>0, <1>7, <2>1 DEF Agreeing, Writing
      <3>2. \A e \in Entities : Synced(e)'
        BY <1>2, <1>3, <3>1
      <3>3. \A e \in Entities : base[e] # None /\ base[e].rev = cur.body.rev
        BY <1>1, <3>1, Worldly DEF Inv
      <3>4. OneRevision(base)'
        BY <1>0, <3>3 DEF OneRevision, Entities
      <3>5. Ledgers'
        BY <1>0, <3>1, LedgersStay
      <3> QED BY <1>0, <1>7, <3>2, <3>4, <3>5 DEF Agreeing, Writing, Hiding
    <2> QED BY <1>0, <2>1, RunAgree
  <1> QED BY <1>0, <1>4, <1>5, <1>6, <1>7 DEF WritingOK

\* A step that writes a hidden file, other than the last one.
LEMMA HidingAgree ==
    ASSUME Inv, AgreeInv, pc \in Hiding, pc' \in Hiding,
           UNCHANGED <<doc, base, op, seen, todo, bad, committed, report, undisturbed>>,
           cur'.t.of = cur.t.of /\ cur'.body = cur.body /\ cur'.next = cur.next,
           cur.next = "entity" => \A s \in Sides : At(s, Ledger)' = At(s, Ledger)
    PROVE  AgreeInv'
  <1>0. pc # "idle" /\ pc' \notin Writing /\ pc \notin Writing
    BY DEF Writing, Hiding
  <1>1. SUFFICES ASSUME Agreeing PROVE Agreeing'
    BY <1>0, RunAgree
  <1>2. \A e : Synced(e)' <=> Synced(e)
    BY DEF Synced
  <1>3. CASE cur.next = "entity"
    <2>1. Stepping({})
      BY <1>1, <1>3 DEF Agreeing
    <2>2. Ledgers'
      BY ZenonT(60), <1>3, <2>1 DEF Stepping, Ledgers, Sides, BehindProject, OneRevision, LedgerOf
    <2>3. Stepping({})'
      BY <1>2, <2>1, <2>2 DEF Stepping, Rest
    <2> QED BY <1>0, <1>3, <2>3 DEF Agreeing, Hiding
  <1>4. CASE cur.next = "done"
    <2>1. /\ cur.t.of = Ledger /\ \A e \in Entities : Synced(e)
          /\ LedgerOf(base, cur.body.stamp) = cur.body
      BY <1>1, <1>4 DEF Agreeing
    <2>2. LedgerOf(base, cur.body.stamp)' = cur'.body
      BY <2>1 DEF LedgerOf
    <2> QED BY <1>0, <1>2, <1>4, <2>1, <2>2 DEF Agreeing, Hiding
  <1>5. CASE cur.next \notin {"entity", "done"}
    BY <1>0, <1>1, <1>5 DEF Agreeing, Hiding
  <1> QED BY <1>3, <1>4, <1>5

LEMMA HiddenWriteAgree == ASSUME Inv, AgreeInv, HiddenWrite PROVE AgreeInv'
  <1>0. pc = "hidden" /\ UNCHANGED <<doc, base, undisturbed>> /\ HidingOK
    BY DEF HiddenWrite, people, Inv, Engaged, Hiding
  <1>1. CASE Fail /\ UNCHANGED hidden
    BY <1>0, <1>1, FailAgree DEF Hiding
  <1>2. CASE /\ Put(HiddenSide, cur.t.of, cur.body)
             /\ pc' = "hiddenStage" /\ UNCHANGED <<locals, report>>
    <2>1. UNCHANGED <<op, seen, todo, cur, bad, committed>>
      BY <1>2 DEF locals
    <2>2. HiddenSide \in Sides
      BY DEF HiddenSide, Sides
    <2>3. cur.next = "entity" => cur.t.of # Ledger
      BY <1>0 DEF HidingOK, Inv, Files, File
    <2>4. cur.next = "entity" => \A s \in Sides : At(s, Ledger)' = At(s, Ledger)
      BY <1>2, <2>2, <2>3, PutAt DEF Inv
    <2> QED BY <1>0, <1>2, <2>1, <2>4, HidingAgree DEF Hiding
  <1> QED BY <1>1, <1>2 DEF HiddenWrite

LEMMA HiddenAdvanceAgree ==
    ASSUME Inv, AgreeInv, pc \in Hiding, pc' \in Hiding, Advance,
           UNCHANGED <<doc, base, hidden, op, seen, todo, bad, committed, report, undisturbed>>
    PROVE  AgreeInv'
  <1>1. HidingOK /\ cur' = [cur EXCEPT !.t = [cur.t EXCEPT !.stage = After(@)]]
    BY DEF Advance, Inv, Engaged
  <1>2. cur'.t.of = cur.t.of /\ cur'.body = cur.body /\ cur'.next = cur.next
    BY <1>1, CurStage
  <1>3. \A s \in Sides : At(s, Ledger)' = At(s, Ledger)
    BY DEF At
  <1> QED BY <1>2, <1>3, HidingAgree

LEMMA HiddenStageAgree == ASSUME Inv, AgreeInv, HiddenStage PROVE AgreeInv'
  <1>0. pc = "hiddenStage" /\ UNCHANGED <<doc, base, hidden, undisturbed>>
    BY DEF HiddenStage, people
  <1>1. CASE Fail
    BY <1>0, <1>1, FailAgree DEF Hiding
  <1>2. CASE ~Fail
    BY <1>0, <1>2, HiddenAdvanceAgree DEF HiddenStage, Hiding
  <1> QED BY <1>1, <1>2

\* The last step for a hidden file: both sides hold it.
LEMMA HiddenVerifyAgree == ASSUME Inv, AgreeInv, HiddenVerify PROVE AgreeInv'
  <1>0. pc = "hidden" /\ UNCHANGED <<doc, base, hidden, undisturbed>> /\ HidingOK
    BY DEF HiddenVerify, people, Inv, Engaged, Hiding
  <1>1. CASE Fail
    BY <1>0, <1>1, FailAgree DEF Hiding
  <1>2. CASE Advance /\ UNCHANGED <<pc, op, seen, todo, note, bad, committed, report>>
    BY <1>0, <1>2, HiddenAdvanceAgree DEF Hiding
  <1>3. CASE /\ \A s \in Sides : At(s, cur.t.of) = cur.body
             /\ pc' = cur.next /\ cur' = None
             /\ UNCHANGED <<op, seen, todo, note, bad, committed, report>>
    <2>1. CASE cur.next = "recover"
      BY <1>0, <1>3, <2>1, PlainAgree
    <2>2. CASE cur.next = "entity"
      <3>1. ASSUME Agreeing PROVE Agreeing'
        <4>1. Stepping({}) /\ bad
          BY <1>0, <2>2, <3>1 DEF Agreeing, Hiding, HidingOK
        <4>2. Stepping(Entities \ Rest)
          BY <4>1 DEF Stepping
        <4>3. Stepping(Entities \ Rest)'
          <5>1. \A met : Stepping(met) => Stepping(met)'
            BY <1>0, <1>3, SteppingStay
          <5>2. Rest' = Rest
            BY <1>3 DEF Rest
          <5> QED BY <4>2, <5>1, <5>2 DEF Entities
        <4> QED BY <1>3, <2>2, <4>3 DEF Agreeing, Writing, Hiding
      <3> QED BY <1>0, <1>3, <3>1, RunAgree
    <2>3. CASE cur.next = "done"
      <3>1. ASSUME Agreeing PROVE Agreeing'
        <4>1. /\ cur.t.of = Ledger /\ \A e \in Entities : Synced(e)
              /\ LedgerOf(base, cur.body.stamp) = cur.body
          BY <1>0, <2>3, <3>1 DEF Agreeing, Hiding
        <4>2. Agreed
          BY <1>3, <4>1 DEF Agreed, Sides
        <4>3. Agreed'
          BY <1>0, <4>2 DEF Agreed, Synced, At, LedgerOf
        <4> QED BY <1>3, <2>3, <4>3 DEF Agreeing, Writing, Hiding
      <3> QED BY <1>0, <1>3, <3>1, RunAgree
    <2>4. CASE cur.next = "align"
      <3>1. ~Agreeing
        BY <1>0, <2>4 DEF Agreeing, Hiding
      <3> QED BY <1>0, <1>3, <3>1, RunAgree
    <2> QED BY <1>0, <2>1, <2>2, <2>3, <2>4 DEF HidingOK
  <1> QED BY <1>1, <1>2, <1>3 DEF HiddenVerify

\* A save ends what the present run could report.
LEMMA PeopleAgree == ASSUME People PROVE AgreeInv'
  <1>1. ASSUME NEW s, NEW e, NEW d, NEW dropped, Save(s, e, d, dropped)
        PROVE  ~report' /\ ~undisturbed'
    BY <1>1 DEF Save
  <1>2. ASSUME NEW s \in Sides, NEW e \in Entities, Delete(s, e)
        PROVE  ~report' /\ ~undisturbed'
    BY <1>1, <1>2 DEF Delete
  <1>3. ASSUME NEW s \in Sides, NEW e \in Entities, NEW u \in Units, Edit(s, e, u)
        PROVE  ~report' /\ ~undisturbed'
    BY <1>1, <1>3 DEF Edit
  <1>4. ASSUME NEW s \in Sides, NEW e \in Entities, NEW u \in Units, Recreate(s, e, u)
        PROVE  ~report' /\ ~undisturbed'
    BY <1>1, <1>4 DEF Recreate
  <1>5. TamperLedger => ~report' /\ ~undisturbed'
    BY DEF TamperLedger
  <1>6. ~report' /\ ~undisturbed'
    BY <1>2, <1>3, <1>4, <1>5 DEF People
  <1> QED BY <1>6 DEF AgreeInv

LEMMA BeginAgree == ASSUME NEW o, Begin(o) PROVE AgreeInv'
  <1>1. ~report' /\ pc' \in {"ready", "authenticate"}
    BY DEF Begin
  <1> QED BY <1>1 DEF AgreeInv, Agreeing, Writing, Hiding

LEMMA FaultsAgree == ASSUME Inv, AgreeInv, Crash \/ WriteFails PROVE AgreeInv'
  <1>1. CASE Crash
    BY <1>1, AbortAgree DEF Crash
  <1>2. CASE WriteFails
    BY <1>2, FailAgree DEF WriteFails, Writing, Hiding, world
  <1> QED BY <1>1, <1>2

LEMMA AgreeStutter == ASSUME AgreeInv, UNCHANGED vars PROVE AgreeInv'
  <1>1. UNCHANGED <<doc, base, hidden, pc, op, seen, todo, cur, bad, committed,
                    report, undisturbed>>
    BY DEF vars, world, locals, people
  <1>2. \A e : Synced(e)' <=> Synced(e)
    BY <1>1 DEF Synced
  <1>3. (Ledgers' <=> Ledgers) /\ (Agreed' <=> Agreed) /\ (Landed' <=> Landed)
    BY <1>1, <1>2 DEF Ledgers, Agreed, Landed, At, BehindProject, OneRevision, LedgerOf
  <1>4. Rest' = Rest
    BY <1>1 DEF Rest
  <1>5. \A met : Stepping(met)' <=> Stepping(met)
    BY <1>1, <1>2, <1>3, <1>4 DEF Stepping
  <1>6. Agreeing' <=> Agreeing
    BY <1>1, <1>2, <1>3, <1>4, <1>5
    DEF Agreeing, Entities, Writing, Hiding, OneRevision, LedgerOf
  <1> QED BY <1>1, <1>3, <1>6 DEF AgreeInv

LEMMA AgreeStep == ASSUME Inv, AgreeInv, [Next]_vars PROVE AgreeInv'
  <1>1. CASE UNCHANGED vars
    BY <1>1, AgreeStutter
  <1>2. CASE Reconcile \/ Resolve \/ RepairMachineLedger
    BY <1>2, BeginAgree DEF Reconcile, Resolve, RepairMachineLedger
  <1>3. CASE People \/ Crash \/ WriteFails
    BY <1>3, PeopleAgree, FaultsAgree
  <1>4. CASE Authenticate
    BY <1>4, AbortAgree, PlainAgree DEF Authenticate
  <1>5. CASE Recover \/ RecoverEntity \/ Snapshot \/ Scan \/ Entity \/ EndEntities
    BY <1>5, RecoverAgree, RecoverEntityAgree, SnapshotAgree, ScanAgree, EntityAgree,
       EndEntitiesAgree
  <1>6. CASE Align \/ Publish \/ Finish \/ Choose \/ ResolveDocument
    BY <1>6, AlignAgree, PublishAgree, FinishAgree, ResolveAgree
  <1>7. CASE Write \/ Replace \/ Verify \/ Commit \/ Seal \/ Remove
    BY <1>7, WriteAgree, ReplaceAgree, VerifyAgree, CommitAgree, SealAgree, RemoveAgree
  <1>8. CASE HiddenWrite \/ HiddenStage \/ HiddenVerify
    BY <1>8, HiddenWriteAgree, HiddenStageAgree, HiddenVerifyAgree
  <1> QED BY <1>1, <1>2, <1>3, <1>4, <1>5, <1>6, <1>7, <1>8 DEF Next, Engine

LEMMA InitAgree == ASSUME Init PROVE AgreeInv /\ Mirrored
  <1>1. AgreeInv
    BY DEF Init, AgreeInv
  <1>2. Mirrored
    <2> DEFINE fresh == [e \in Entities |-> [units |-> [u \in Units |-> 0], rev |-> 1]]
    <2>1. hidden = [s \in Sides |->
                      IF s = "project" THEN [f \in {Ledger} |-> LedgerOf(fresh, 0)]
                                       ELSE [f \in {} |-> None]]
          /\ txn = {}
      BY DEF Init
    <2>2. \A id : id # Ledger => At("project", id) = None /\ At("vault", id) = None
      BY <2>1 DEF At, Sides
    <2> QED BY <2>1, <2>2 DEF Mirrored
  <1> QED BY <1>1, <1>2

\* When Reconcile reports current and nobody saved since it began, both sides
\* and the merge base hold the same documents and both ledgers name them, and
\* without pending files the sides hold the same conflict records: a document
\* is committed only after both sides were verified, the documents yet to be
\* looked at are as the scan saw them, and a record that one side lacks has its
\* transaction file until both sides have it.
THEOREM SidesAlwaysAgree == Spec => []SidesAgree
  <1> DEFINE All == Inv /\ AgreeInv /\ Mirrored
  <1>1. Init => All
    BY InitInv, InitAgree
  <1>2. All /\ [Next]_vars => All'
    BY NextInv, AgreeStep, MirroredStep
  <1>3. All => SidesAgree
    <2> SUFFICES ASSUME Inv, AgreeInv, Mirrored PROVE SidesAgree
      OBVIOUS
    <2>1. ASSUME report, undisturbed
          PROVE  /\ \A e \in Entities :
                       doc["project"][e] = base[e] /\ doc["vault"][e] = base[e]
                 /\ At("project", Ledger) = At("vault", Ledger)
                 /\ LedgerOf(base, At("project", Ledger).stamp) = At("project", Ledger)
      BY <2>1 DEF AgreeInv, Agreed, Synced, Sides
    <2>2. ASSUME txn = {}, NEW id, id # Ledger
          PROVE  At("project", id) = At("vault", id)
      BY <2>2 DEF Mirrored
    <2> QED BY <2>1, <2>2 DEF SidesAgree
  <1> HIDE DEF All
  <1> QED BY <1>1, <1>2, <1>3, PTL DEF Spec

(* Edits that are kept.                                                    *)

\* The text `d` has the held edits of `x`, each in its unit.
Keeps(d, x) == \A u \in Units : x.units[u] \in held => d.units[u] = x.units[u]

\* A side at the revision of its merge base was made from it.
Rooted ==
    \A s \in Sides, e \in Entities :
       base[e] # None /\ doc[s][e] # None /\ doc[s][e].rev = base[e].rev =>
          Keeps(doc[s][e], base[e])

\* So it is with the text on its way, which lacks no held edit of the texts
\* that its plan saw.
Careful(t) ==
    /\ \A s \in Sides : LET d == doc[s][t.of]
                        IN d # None /\ d.rev = t.desired.rev => Keeps(d, t.desired)
    /\ base[t.of] # None /\ base[t.of].rev = t.desired.rev =>
          Keeps(base[t.of], t.desired) /\ Keeps(t.desired, base[t.of])
    /\ held \cap (Edits(t.project) \cup Edits(t.vault)) \subseteq Edits(t.desired)
    /\ None \in {t.project, t.vault} => held \cap Edits(t.base) \subseteq Edits(t.desired)

CarefulFiles == \A t \in txn : t.kind = "entity" => Careful(t)

\* No side is ahead of the merge base.
Level(e) ==
    base[e] # None => \A s \in Sides : doc[s][e] # None => doc[s][e].rev <= base[e].rev

\* What the scan saw of an entity that is still to be merged.
Merging(e) ==
    LET b == seen.base[e]
        body == Accepted(b, seen.doc["project"][e], seen.doc["vault"][e])
    IN /\ b # None => \A s \in Sides : LET d == seen.doc[s][e]
                                       IN d # None /\ d.rev = b.rev => Keeps(d, b)
       /\ ~SeenClash(e) => \A s \in Sides : LET d == doc[s][e]
             IN d # None => IF b # None THEN d.rev = b.rev
                            ELSE body # None /\ d.rev = body.rev /\ Keeps(d, body)

\* The entities before the present one have a merge base that no side passed.
Merged(met) ==
    /\ \A e \in Rest : Merging(e)
    /\ bad \/ \A e \in met : Level(e)

\* A resolution that goes on to the alignment has left no other conflict.
Alone == note.next = "align" => \A e \in Entities \ {note.t.of.entity} : Level(e)

Unchanged(s) == LET e == cur.t.of IN
    cur.pre[s] # None => IF cur.t[s] # None THEN cur.pre[s] = cur.t[s]
                         ELSE seen.base[e] = None \/ cur.pre[s] = seen.base[e]

Carrying ==
    /\ cur.next # "recoverEntity" =>
          cur.pre = [project |-> cur.t.project, vault |-> cur.t.vault]
    /\ cur.next = "recoverEntity" /\ pc # "remove" =>
          /\ base[cur.t.of] = seen.base[cur.t.of]
          /\ seen.base[cur.t.of] \in {None, cur.t.base}
          /\ pc = "replace" => Unchanged(cur.side)
    /\ cur.next \in {"entity", "note"} =>
          \A d \in {base[cur.t.of], doc["project"][cur.t.of], doc["vault"][cur.t.of]} :
             d # None => d.rev <= cur.body.rev
    /\ cur.next = "entity" => Merged(Entities \ (Rest \cup {cur.t.of}))
    /\ cur.next = "note" => Alone

Deciding ==
    LET id == op.id
    IN /\ \A s \in Sides : LET d == doc[s][id.entity]
                           IN d # None => d.rev = base[id.entity].rev
       /\ held \cap (Edits(id.project) \cup Edits(id.vault))
             \subseteq Edits(note.body.accepted)
       /\ None \notin {id.project, id.vault}
       /\ Alone

Keeping ==
    /\ pc = "entity" => Merged(Entities \ Rest)
    /\ pc = "align" => \A e \in Entities : Level(e)
    /\ pc = "resolve" => Deciding
    /\ pc \in Writing => Carrying
    /\ pc \in Hiding /\ cur.next = "entity" => Merged(Entities \ Rest)
    /\ pc \in Hiding /\ cur.next = "align" => \A e \in Entities : Level(e)

Core == EditsKept /\ Rooted /\ CarefulFiles
KeepInv == Core /\ Keeping

-----------------------------------------------------------------------------
\* Two files that differ at most in their stage.
Alike(t, r) ==
    /\ t.kind = r.kind /\ t.of = r.of /\ t.desired = r.desired /\ t.base = r.base
    /\ t.project = r.project /\ t.vault = r.vault

\* Steps that write no document and no merge base.
LEMMA CoreStay ==
    ASSUME Core, UNCHANGED <<doc, base>>, held' \subseteq held,
           \A t \in txn' : t.kind = "entity" =>
              Careful(t)' \/ \E r \in txn : Alike(t, r)
    PROVE  Core'
  <1>1. EditsKept'
    BY DEF Core, EditsKept, Edits
  <1>2. Rooted'
    BY DEF Core, Rooted, Keeps
  <1>3. ASSUME NEW t \in txn', t.kind = "entity" PROVE Careful(t)'
    <2> SUFFICES ASSUME NEW r \in txn, Alike(t, r) PROVE Careful(t)'
      BY <1>3
    <2>1. Careful(r)
      BY <1>3 DEF Core, CarefulFiles, Alike
    <2>2. Careful(t)
      BY <2>1 DEF Careful, Alike
    <2> QED BY <2>2 DEF Careful, Keeps, Edits
  <1> QED BY <1>1, <1>2, <1>3 DEF Core, CarefulFiles

LEMMA CoreSame == ASSUME Core, UNCHANGED <<doc, base, held>>, txn' \subseteq txn PROVE Core'
  BY CoreStay DEF Alike

\* The steps that announce or finish a hidden file.
LEMMA CoreHidden ==
    ASSUME Core, UNCHANGED <<doc, base>>, held' \subseteq held,
           NEW t, t.kind # "entity", txn' \subseteq txn \cup {t}
    PROVE  Core'
  BY CoreStay DEF Alike

\* The places where nothing is known of the documents.
LEMMA KeepingPlain ==
    ASSUME pc' \in {"idle", "authenticate", "recover", "recoverEntity", "ready", "scan",
                    "choose", "publish", "done"}
    PROVE  Keeping'
  BY DEF Keeping, Writing, Hiding

LEMMA KeepingHidden ==
    ASSUME pc' \in Hiding, cur'.next \in {"recover", "done"} PROVE Keeping'
  BY DEF Keeping, Writing, Hiding

LEMMA LevelStay ==
    ASSUME NEW e, base'[e] = base[e], \A s \in Sides : doc'[s][e] = doc[s][e], Level(e)
    PROVE  Level(e)'
  BY DEF Level

LEMMA MergingStay ==
    ASSUME NEW e, UNCHANGED seen, \A s \in Sides : doc'[s][e] = doc[s][e],
           held' \subseteq held, Merging(e)
    PROVE  Merging(e)'
  <1>1. \A d, x : Keeps(d, x) => Keeps(d, x)'
    BY DEF Keeps
  <1>2. SeenClash(e)' <=> SeenClash(e)
    BY DEF SeenClash
  <1> DEFINE body == Accepted(seen.base[e], seen.doc["project"][e], seen.doc["vault"][e])
  <1>3. body' = body
    OBVIOUS
  <1> QED BY <1>1, <1>2, <1>3 DEF Merging

LEMMA MergedStay ==
    ASSUME UNCHANGED <<seen, todo, doc, base>>, held' \subseteq held,
           bad' = bad \/ bad' = TRUE, NEW met, Merged(met)
    PROVE  Merged(met)'
  <1>1. Rest' = Rest
    BY DEF Rest
  <1>2. ASSUME NEW e \in Rest' PROVE Merging(e)'
    BY <1>1, <1>2, MergingStay DEF Merged
  <1>3. bad' \/ \A e \in met : Level(e)'
    BY LevelStay DEF Merged
  <1> QED BY <1>2, <1>3 DEF Merged

\* Where a document or a record fails, Reconcile goes on and stops later.
LEMMA FailKeep ==
    ASSUME Inv, KeepInv, pc \in Writing \cup Hiding, Fail,
           UNCHANGED <<doc, base, held>>, txn' \subseteq txn
    PROVE  KeepInv'
  <1>1. Core'
    BY CoreSame DEF KeepInv
  <1>2. CASE Abort
    BY <1>1, <1>2, KeepingPlain DEF Abort, Reset, KeepInv
  <1>3. CASE cur.next = "entity"
    <2>1. pc' = "entity" /\ bad' = TRUE /\ UNCHANGED <<seen, todo>>
      BY <1>3 DEF Fail
    <2>2. \A e \in Rest : Merging(e)
      BY <1>3 DEF KeepInv, Keeping, Carrying, Merged
    <2>3. Rest' = Rest
      BY <2>1 DEF Rest
    <2>4. \A e \in Rest' : Merging(e)'
      BY <2>1, <2>2, <2>3, MergingStay
    <2>5. Merged(Entities \ Rest)'
      BY <2>1, <2>4 DEF Merged
    <2>6. Keeping'
      BY <2>1, <2>5 DEF Keeping, Writing, Hiding
    <2> QED BY <1>1, <2>6 DEF KeepInv
  <1> QED BY <1>2, <1>3 DEF Fail

LEMMA AbortKeep ==
    ASSUME KeepInv, Abort, UNCHANGED <<doc, base, held>>, txn' \subseteq txn
    PROVE  KeepInv'
  BY CoreSame, KeepingPlain DEF Abort, Reset, KeepInv

LEMMA PlainKeep ==
    ASSUME KeepInv, UNCHANGED <<doc, base, held>>, txn' \subseteq txn,
           pc' \in {"idle", "authenticate", "recover", "recoverEntity", "ready", "scan",
                    "choose", "publish", "done"}
    PROVE  KeepInv'
  BY CoreSame, KeepingPlain DEF KeepInv

\* Recovery, and what Reconcile does before and after the documents.
LEMMA DropKeep ==
    ASSUME KeepInv, NEW t, Drop(t), pc \in {"recover", "recoverEntity"}, UNCHANGED held
    PROVE  KeepInv'
  BY PlainKeep DEF Drop

LEMMA ResumeKeep ==
    ASSUME KeepInv, NEW t, NEW body, NEW p, NEW v, Resume(t, body, p, v, "recover"),
           UNCHANGED <<doc, base, txn, held>>
    PROVE  KeepInv'
  <1>1. pc' = "hidden" /\ cur'.next = "recover"
    BY DEF Resume
  <1> QED BY <1>1, CoreSame, KeepingHidden DEF KeepInv, Hiding

LEMMA RecoverKeep == ASSUME Inv, KeepInv, Recover PROVE KeepInv'
  <1> DEFINE first == Pending({"publish", "repair", "record"})
             last == Pending({"resolve"})
  <1>0. pc = "recover" /\ UNCHANGED held
    BY DEF Recover, people
  <1>1. ASSUME NEW t, RecoverRecord(t) PROVE KeepInv'
    BY <1>0, <1>1, DropKeep, AbortKeep, ResumeKeep DEF RecoverRecord, world
  <1>2. ASSUME NEW t, RecoverLedger(t) PROVE KeepInv'
    BY <1>0, <1>2, DropKeep, AbortKeep, ResumeKeep DEF RecoverLedger, world
  <1>3. ASSUME NEW t, RecoverResolution(t) PROVE KeepInv'
    BY <1>0, <1>3, DropKeep, AbortKeep, ResumeKeep DEF RecoverResolution, world
  <1>4. CASE pc' \in {"recoverEntity", "ready"} /\ UNCHANGED world
    BY <1>0, <1>4, PlainKeep DEF world
  <1> QED BY <1>1, <1>2, <1>3, <1>4 DEF Recover

LEMMA RecoverEntityKeep == ASSUME Inv, KeepInv, RecoverEntity PROVE KeepInv'
  <1>0. pc = "recoverEntity" /\ UNCHANGED held /\ Looking(txn)
    BY DEF RecoverEntity, people, Inv, Engaged
  <1>1. CASE pc' = "recover" /\ UNCHANGED world
    BY <1>0, <1>1, PlainKeep DEF world
  <1>2. ASSUME NEW t \in Pending({"entity"}),
               LET b == seen.base[t.of]
                   at == [s \in Sides |-> seen.doc[s][t.of]]
               IN /\ b # None => b = t.base
                  /\ cur' = [t |-> t, body |-> t.desired, pre |-> at,
                             write |-> {s \in Sides : at[s] # t.desired},
                             side |-> "project", next |-> "recoverEntity"]
                  /\ pc' = "write" /\ UNCHANGED <<world, seen>>
        PROVE  KeepInv'
    <2>1. base[t.of] = seen.base[t.of]
      BY <1>0, <1>2 DEF Looking, Pending
    <2>2. cur'.t = t /\ cur'.next = "recoverEntity"
      BY <1>2
    <2>3. Carrying'
      BY <1>2, <2>1, <2>2 DEF Carrying, world
    <2>4. Keeping'
      BY <1>2, <2>3 DEF Keeping, Writing, Hiding
    <2> QED BY <1>0, <1>2, <2>4, CoreSame DEF KeepInv, world
  <1>3. CASE UNCHANGED world /\ Abort
    BY <1>0, <1>3, AbortKeep DEF world
  <1>4. ASSUME NEW t, Drop(t) PROVE KeepInv'
    BY <1>0, <1>4, DropKeep
  <1>5. CASE Pending({"entity"}) # {}
    <2>1. PICK t \in Pending({"entity"}) :
            LET b == seen.base[t.of]
                at == [s \in Sides |-> seen.doc[s][t.of]]
            IN IF b = t.desired THEN Drop(t)
               ELSE IF b # None /\ b # t.base THEN Abort /\ UNCHANGED world
               ELSE IF t.desired \notin {at["project"], at["vault"]}
               THEN IF t.stage = "planned" THEN Drop(t)
                    ELSE Abort /\ UNCHANGED world
               ELSE /\ cur' = [t |-> t, body |-> t.desired, pre |-> at,
                               write |-> {s \in Sides : at[s] # t.desired},
                               side |-> "project", next |-> "recoverEntity"]
                    /\ pc' = "write"
                    /\ UNCHANGED <<world, op, seen, todo, note, bad,
                                   committed, report>>
      BY <1>5 DEF RecoverEntity
    <2> QED BY SMTT(60), <1>2, <1>3, <1>4, <2>1
  <1> QED BY <1>1, <1>5 DEF RecoverEntity

LEMMA SnapshotKeep == ASSUME Inv, KeepInv, Snapshot PROVE KeepInv'
  <1> DEFINE p == At("project", Ledger)
             v == At("vault", Ledger)
             t == Transaction("repair", Ledger, p, p, p, v)
  <1>0. UNCHANGED <<doc, base, held>>
    BY DEF Snapshot, people
  <1>1. CASE /\ txn' = txn \cup {t} /\ pc' = "hidden"
             /\ cur' = [t |-> t, body |-> p, next |-> "done",
                        pre |-> [project |-> p, vault |-> v]]
    <2>1. t.kind # "entity"
      BY DEF Transaction
    <2>2. cur'.next = "done"
      BY <1>1
    <2> HIDE DEF t
    <2>3. Core'
      BY <1>0, <1>1, <2>1, CoreHidden DEF KeepInv
    <2> QED BY <1>1, <2>2, <2>3, KeepingHidden DEF KeepInv, Hiding
  <1>2. CASE pc' = "scan" /\ UNCHANGED txn
    BY <1>0, <1>2, PlainKeep
  <1>3. CASE Abort /\ UNCHANGED txn
    BY <1>0, <1>3, AbortKeep
  <1> QED BY <1>1, <1>2, <1>3 DEF Snapshot

\* The scan sees texts that are rooted in their merge bases.
LEMMA ScanKeep == ASSUME Inv, KeepInv, Scan PROVE KeepInv'
  <1>1. /\ UNCHANGED <<doc, base, txn, held>>
        /\ seen' = [project |-> seen.project, vault |-> seen.vault,
                    stale |-> seen.stale, doc |-> doc, base |-> base]
        /\ \/ pc' = "choose"
           \/ pc' = "entity" /\ todo' = <<History, Overview>>
    BY DEF Scan, world, people
  <1>2. CASE pc' = "choose"
    BY <1>1, <1>2, PlainKeep
  <1>3. CASE pc' = "entity" /\ todo' = <<History, Overview>>
    <2>1. seen'.doc = doc /\ seen'.base = base
      BY <1>1
    <2>2. Rest' = Entities
      <3>1. Rest' = {todo'[i] : i \in DOMAIN todo'} /\ DOMAIN todo' = 1 .. 2
        BY <1>3 DEF Rest
      <3> QED BY <1>3, <3>1 DEF Entities
    <2>3. ASSUME NEW e \in Entities PROVE Merging(e)'
      <3> DEFINE b == base[e]
                 p == doc["project"][e]
                 v == doc["vault"][e]
                 body == Accepted(b, p, v)
      <3>1. \A s \in Sides : b # None /\ doc[s][e] # None /\ doc[s][e].rev = b.rev =>
               Keeps(doc[s][e], b)'
        BY <1>1 DEF KeepInv, Core, Rooted, Keeps
      <3>2. SeenClash(e)' <=> Clash(b, p, v)
        BY <2>1 DEF SeenClash
      <3>3. ASSUME ~Clash(b, p, v), NEW s \in Sides, doc[s][e] # None
            PROVE  IF b # None THEN doc[s][e].rev = b.rev
                   ELSE body # None /\ doc[s][e] = body
        <4>1. doc[s][e] \in {p, v}
          BY DEF Sides
        <4>2. CASE b # None
          BY <3>3, <4>1, <4>2 DEF Clash
        <4>3. CASE b = None
          BY <3>3, <4>1, <4>3 DEF Clash, Accepted
        <4> QED BY <4>2, <4>3
      <3>4. Accepted(seen.base[e], seen.doc["project"][e], seen.doc["vault"][e])' = body
        BY <2>1
      <3>5. \A d : Keeps(d, d)'
        BY DEF Keeps
      <3> HIDE DEF body
      <3> QED BY <1>1, <2>1, <3>1, <3>2, <3>3, <3>4, <3>5 DEF Merging
    <2>4. Merged(Entities \ Rest)'
      BY <2>2, <2>3 DEF Merged, Entities
    <2>5. Keeping'
      BY <1>3, <2>4 DEF Keeping, Writing, Hiding
    <2> QED BY <1>1, <2>5, CoreSame DEF KeepInv
  <1> QED BY <1>1, <1>2, <1>3

LEMMA EndEntitiesKeep == ASSUME Inv, KeepInv, EndEntities PROVE KeepInv'
  <1>0. pc = "entity" /\ todo = <<>> /\ UNCHANGED <<doc, base, txn, held>>
    BY DEF EndEntities, world, people
  <1>1. CASE Abort
    BY <1>0, <1>1, AbortKeep
  <1>2. CASE ~bad /\ pc' = "align"
    <2>1. Merged(Entities \ Rest)
      BY <1>0 DEF KeepInv, Keeping
    <2>2. Rest = {}
      BY <1>0 DEF Rest
    <2>3. \A e \in Entities : Level(e)'
      BY <1>0, <1>2, <2>1, <2>2, LevelStay DEF Merged
    <2>4. Keeping'
      BY <1>2, <2>3 DEF Keeping, Writing, Hiding, Entities
    <2> QED BY <1>0, <2>4, CoreSame DEF KeepInv
  <1> QED BY <1>1, <1>2 DEF EndEntities

LEMMA PublishKeep == ASSUME Inv, KeepInv, Publish PROVE KeepInv'
  <1> DEFINE docs == doc["project"]
             renew == committed \/ seen.stale
             body == IF renew THEN LedgerOf(docs, seen.project.stamp + 1)
                              ELSE seen.project
             t == Transaction("publish", Ledger, body, seen.project,
                              seen.project, seen.vault)
  <1>0. UNCHANGED <<doc, base, held>>
    BY DEF Publish, people
  <1>1. CASE pc' = "done" /\ UNCHANGED txn
    BY <1>0, <1>1, PlainKeep
  <1>2. CASE Abort /\ UNCHANGED txn
    BY <1>0, <1>2, AbortKeep
  <1>3. CASE /\ txn' = txn \cup {t} /\ pc' = "hidden"
             /\ cur' = [t |-> t, body |-> body, next |-> "done",
                        pre |-> [project |-> seen.project, vault |-> seen.vault]]
    <2>1. t.kind # "entity"
      BY DEF Transaction
    <2> HIDE DEF t, body
    <2>2. cur'.next = "done"
      BY <1>3
    <2>3. Core'
      BY <1>0, <1>3, <2>1, CoreHidden DEF KeepInv
    <2> QED BY <1>3, <2>2, <2>3, KeepingHidden DEF KeepInv, Hiding
  <1> QED BY <1>1, <1>2, <1>3 DEF Publish

-----------------------------------------------------------------------------
(* People.                                                                 *)

\* What a person may start from: the file, or for an absent one the merge
\* base, or before the first sync the other side.
Sources(s, e) ==
    {doc[s][e]} \cup IF base[e] # None THEN {base[e]} ELSE {doc[o][e] : o \in Sides}

\* The new text of a side keeps what the one it was made from kept.
Heir(s, e) ==
    doc'[s][e] # None => \E x \in Sources(s, e) \cap Texts :
                            /\ doc'[s][e].rev = x.rev
                            /\ \A y \in Texts : Keeps(x, y) => Keeps(doc[s][e], y)'

LEMMA KeepsOld ==
    ASSUME World, held' \subseteq held \cup {saves + 1}
    PROVE  /\ \A x, y : y \in Texts /\ Keeps(x, y) => Keeps(x, y)'
           /\ \A y \in Maybe : held' \cap Edits(y) \subseteq held \cap Edits(y)
           /\ \A y \in Texts, u \in Units : y.units[u] \in held' => y.units[u] \in held
  <1>1. saves \in Nat /\ None \notin Texts
    BY Worldly
  <1>2. \A y \in Texts, u \in Units : y.units[u] \in 0 .. saves
    BY DEF Texts
  <1>3. \A y \in Texts, u \in Units : y.units[u] \in held' => y.units[u] \in held
    BY <1>1, <1>2
  <1>4. \A y \in Texts : held' \cap Edits(y) \subseteq held \cap Edits(y)
    BY <1>1, <1>3 DEF Edits
  <1> QED BY <1>3, <1>4 DEF Keeps, Edits, Maybe

LEMMA HeirsCore ==
    ASSUME Inv, Core, held' \subseteq held \cup {saves + 1}, UNCHANGED <<base, txn>>,
           \A s \in Sides, e \in Entities : Heir(s, e), EditsKept'
    PROVE  Core'
  <1>0. /\ \A x, y : y \in Texts /\ Keeps(x, y) => Keeps(x, y)'
        /\ \A y \in Maybe : held' \cap Edits(y) \subseteq held \cap Edits(y)
        /\ \A y \in Texts, u \in Units : y.units[u] \in held' => y.units[u] \in held
    BY KeepsOld DEF Inv
  <1>1. ASSUME NEW s \in Sides, NEW e \in Entities, base[e] # None, doc'[s][e] # None,
               doc'[s][e].rev = base[e].rev
        PROVE  Keeps(doc[s][e], base[e])'
    <2>1. PICK x \in Sources(s, e) \cap Texts :
             /\ doc'[s][e].rev = x.rev
             /\ \A y \in Texts : Keeps(x, y) => Keeps(doc[s][e], y)'
      BY <1>1 DEF Heir
    <2>2. x \in {doc[s][e], base[e]} /\ x # None
      BY <1>1, <2>1, Worldly DEF Sources, Inv
    <2>3. Keeps(x, base[e])
      BY ZenonT(60), <1>1, <2>1, <2>2 DEF Core, Rooted, Keeps
    <2>4. base[e] \in Texts /\ base' = base
      BY <1>1 DEF Inv, World, Bases, Maybe
    <2>5. \A y \in Texts : y = base[e] => Keeps(doc[s][e], y)'
      BY <2>1, <2>3
    <2> QED BY <2>4, <2>5 DEF Keeps
  <1>2. ASSUME NEW t \in txn, t.kind = "entity" PROVE Careful(t)'
    <2> DEFINE e == t.of
               b == base[e]
    <2>0. /\ Careful(t) /\ e \in Entities /\ t.desired \in Texts
          /\ t.base \in Maybe /\ t.project \in Maybe /\ t.vault \in Maybe
      BY <1>2 DEF Core, CarefulFiles, Inv, Files, File
    <2>1. ASSUME NEW s \in Sides, doc'[s][e] # None, doc'[s][e].rev = t.desired.rev
          PROVE  Keeps(doc[s][e], t.desired)'
      <3>1. PICK x \in Sources(s, e) \cap Texts :
               /\ doc'[s][e].rev = x.rev
               /\ \A y \in Texts : Keeps(x, y) => Keeps(doc[s][e], y)'
        BY <2>0, <2>1 DEF Heir
      <3>2. x # None /\ x \in {b} \cup {doc[o][e] : o \in Sides}
        BY <3>1, Worldly DEF Sources, Inv
      <3>3. Keeps(x, t.desired)
        BY <2>0, <2>1, <3>1, <3>2 DEF Careful
      <3> QED BY <2>0, <3>1, <3>3
    <2>2. b # None /\ b.rev = t.desired.rev =>
             Keeps(b, t.desired)' /\ Keeps(t.desired, b)'
      <3>1. b # None => b \in Texts
        BY <2>0 DEF Inv, World, Bases, Maybe
      <3>2. b' = b
        OBVIOUS
      <3> SUFFICES ASSUME b # None, b.rev = t.desired.rev
                   PROVE  Keeps(b, t.desired)' /\ Keeps(t.desired, b)'
        OBVIOUS
      <3>3. Keeps(b, t.desired) /\ Keeps(t.desired, b)
        BY <2>0 DEF Careful
      <3> HIDE DEF b
      <3>4. Keeps(b, t.desired)'
        BY <1>0, <2>0, <3>2, <3>3 DEF Keeps
      <3>5. Keeps(t.desired, b)'
        BY <1>0, <3>1, <3>2, <3>3 DEF Keeps
      <3> QED BY <3>4, <3>5
    <2>3. held' \cap (Edits(t.project) \cup Edits(t.vault)) \subseteq Edits(t.desired)
      BY <1>0, <2>0 DEF Careful
    <2>4. None \in {t.project, t.vault} => held' \cap Edits(t.base) \subseteq Edits(t.desired)
      BY <1>0, <2>0 DEF Careful
    <2> QED BY <2>1, <2>2, <2>3, <2>4 DEF Careful, Edits
  <1> QED BY <1>1, <1>2 DEF Core, Rooted, CarefulFiles

\* Nobody writes a revision.
LEMMA HeirsLevel ==
    ASSUME Inv, NEW e \in Entities, base'[e] = base[e], \A s \in Sides : Heir(s, e),
           Level(e)
    PROVE  Level(e)'
  <1> SUFFICES ASSUME NEW s \in Sides, base[e] # None, doc'[s][e] # None
               PROVE  doc'[s][e].rev <= base[e].rev
    BY DEF Level
  <1>1. PICK x \in Sources(s, e) \cap Texts : doc'[s][e].rev = x.rev
    BY DEF Heir
  <1>2. x \in {doc[s][e], base[e]} /\ x # None
    BY <1>1, Worldly DEF Sources, Inv
  <1>3. base[e].rev \in Nat
    BY DEF Inv, World, Bases, Maybe, Texts
  <1> QED BY <1>1, <1>2, <1>3 DEF Level

LEMMA HeirsMerged ==
    ASSUME Inv, Walking, held' \subseteq held \cup {saves + 1},
           UNCHANGED <<base, seen, todo, bad>>,
           \A s \in Sides, e \in Entities : Heir(s, e),
           NEW met \in SUBSET Entities, Merged(met)
    PROVE  Merged(met)'
  <1>0. \A x, y : y \in Texts /\ Keeps(x, y) => Keeps(x, y)'
    BY KeepsOld DEF Inv
  <1>1. Rest' = Rest /\ Rest \subseteq Entities
    BY RestOf DEF Rest, Walking
  <1>2. ASSUME NEW e \in Rest PROVE Merging(e)'
    <2> DEFINE b == seen.base[e]
               p == seen.doc["project"][e]
               v == seen.doc["vault"][e]
               body == Accepted(b, p, v)
    <2>1. Merging(e) /\ base[e] = b /\ e \in Entities
      BY <1>1, <1>2 DEF Merged, Walking
    <2>2. b \in Maybe /\ p \in Maybe /\ v \in Maybe /\ body \in Maybe
      <3>1. b \in Maybe /\ p \in Maybe /\ v \in Maybe
        BY <2>1 DEF Walking, Trees, Bases, Sides
      <3> QED BY <3>1, AcceptedText, Worldly DEF Inv
    <2>3. b # None => \A s \in Sides : LET d == seen.doc[s][e]
                                       IN d # None /\ d.rev = b.rev => Keeps(d, b)'
      BY <1>0, <2>1, <2>2 DEF Merging, Maybe
    <2>4. ASSUME ~SeenClash(e), NEW s \in Sides, doc'[s][e] # None
          PROVE  IF b # None THEN doc'[s][e].rev = b.rev
                 ELSE /\ body # None /\ doc'[s][e].rev = body.rev
                      /\ Keeps(doc[s][e], body)'
      <3>1. PICK x \in Sources(s, e) \cap Texts :
               /\ doc'[s][e].rev = x.rev
               /\ \A y \in Texts : Keeps(x, y) => Keeps(doc[s][e], y)'
        BY <2>1, <2>4 DEF Heir
      <3>2. x # None
        BY <3>1, Worldly DEF Inv
      <3>3. CASE b # None
        <4>1. x \in {doc[s][e], b}
          BY <2>1, <3>1, <3>3 DEF Sources
        <4> QED BY <2>1, <2>4, <3>1, <3>2, <3>3, <4>1 DEF Merging
      <3>4. CASE b = None
        <4>1. PICK o \in Sides : x = doc[o][e]
          BY <2>1, <3>1, <3>4 DEF Sources
        <4>2. body # None /\ x.rev = body.rev /\ Keeps(x, body)
          BY <2>1, <2>4, <3>2, <3>4, <4>1 DEF Merging
        <4>3. body \in Texts
          BY <2>2, <4>2 DEF Maybe
        <4>4. \A y \in Texts : y = body => Keeps(doc[s][e], y)'
          BY <3>1, <4>2
        <4>5. body' = body
          OBVIOUS
        <4> HIDE DEF body
        <4> QED BY <3>1, <3>4, <4>2, <4>3, <4>4, <4>5 DEF Keeps
      <3> QED BY <3>3, <3>4
    <2>5. SeenClash(e)' <=> SeenClash(e)
      BY DEF SeenClash
    <2>6. body' = body /\ b' = b
      OBVIOUS
    <2> HIDE DEF body
    <2>7. body = Accepted(b, p, v)
      BY DEF body
    <2> QED BY <2>3, <2>4, <2>5, <2>6, <2>7 DEF Merging
  <1>3. bad' \/ \A e \in met : Level(e)'
    BY HeirsLevel DEF Merged
  <1> QED BY <1>1, <1>2, <1>3 DEF Merged

LEMMA HeirsDeciding ==
    ASSUME Inv, KeepInv, pc = "resolve", held' \subseteq held \cup {saves + 1},
           UNCHANGED <<base, op, note>>,
           \A s \in Sides, e \in Entities : Heir(s, e)
    PROVE  Deciding'
  <1> DEFINE id == op.id
             e == id.entity
  <1>0. /\ Deciding /\ Resolving /\ Asked /\ op.kind = "resolve"
    BY DEF Inv, Engaged, KeepInv, Keeping, Resolving, Noted
  <1>1. /\ id \in Ids /\ base[e] # None
    BY <1>0 DEF Asked, Resolving
  <1>2. e \in Entities /\ id.project \in Maybe /\ id.vault \in Maybe
    BY <1>1 DEF Ids
  <1>3. ASSUME NEW s \in Sides, doc'[s][e] # None PROVE doc'[s][e].rev = base[e].rev
    <2>1. PICK x \in Sources(s, e) \cap Texts : doc'[s][e].rev = x.rev
      BY <1>2, <1>3 DEF Heir
    <2>2. x \in {doc[s][e], base[e]} /\ x # None
      BY <1>1, <2>1, Worldly DEF Sources, Inv
    <2> QED BY <1>0, <2>1, <2>2 DEF Deciding
  <1>4. held' \cap (Edits(id.project) \cup Edits(id.vault)) \subseteq Edits(note.body.accepted)
    BY <1>0, <1>2, KeepsOld DEF Deciding, Inv
  <1>5. Alone'
    BY <1>0, HeirsLevel DEF Deciding, Alone, Entities
  <1> QED BY <1>0, <1>3, <1>4, <1>5 DEF Deciding, Edits

LEMMA HeirsCarrying ==
    ASSUME Inv, KeepInv, pc \in Writing, held' \subseteq held \cup {saves + 1},
           UNCHANGED <<base, txn, pc, locals>>,
           \A s \in Sides, e \in Entities : Heir(s, e)
    PROVE  Carrying'
  <1> DEFINE e == cur.t.of
  <1>0. /\ Carrying /\ WritingOK /\ UNCHANGED <<seen, todo, cur, note, bad>>
    BY DEF Inv, Engaged, KeepInv, Keeping, locals
  <1>1. e \in Entities
    BY <1>0 DEF WritingOK, Inv, Files, File
  <1>2. ASSUME cur.next \in {"entity", "note"},
               NEW s \in Sides, doc'[s][e] # None
        PROVE  doc'[s][e].rev <= cur.body.rev
    <2>1. PICK x \in Sources(s, e) \cap Texts : doc'[s][e].rev = x.rev
      BY <1>1, <1>2 DEF Heir
    <2>2. x # None /\ x \in {base[e], doc["project"][e], doc["vault"][e]}
      BY <2>1, Worldly DEF Sources, Inv, Sides
    <2> QED BY <1>0, <1>2, <2>1, <2>2 DEF Carrying
  <1>3. cur.next = "entity" => Merged(Entities \ (Rest \cup {e}))'
    <2> SUFFICES ASSUME cur.next = "entity"
                 PROVE  Merged(Entities \ (Rest \cup {e}))'
      OBVIOUS
    <2> DEFINE met == Entities \ (Rest \cup {e})
    <2>1. Walking /\ Merged(met)
      BY <1>0 DEF Carrying, WritingOK
    <2>2. met' = met
      BY <1>0 DEF Rest, Entities
    <2>3. \A m \in SUBSET Entities : Merged(m) => Merged(m)'
      BY <1>0, <2>1, HeirsMerged
    <2>4. met \in SUBSET Entities
      OBVIOUS
    <2>5. \A m : Merged(m)' /\ met' = m => Merged(met)'
      BY DEF Merged
    <2> HIDE DEF met
    <2> QED BY <2>1, <2>2, <2>3, <2>4, <2>5 DEF met
  <1>4. cur.next = "note" => Alone'
    BY <1>0, HeirsLevel DEF Carrying, Alone, Entities
  <1>5. Unchanged(cur.side)' <=> Unchanged(cur.side)
    BY <1>0 DEF Unchanged
  <1>6. cur.next \in {"entity", "note"} =>
          \A d \in {base[e], doc'["project"][e], doc'["vault"][e]} :
             d # None => d.rev <= cur.body.rev
    BY <1>0, <1>2 DEF Carrying, Sides
  <1> QED BY <1>0, <1>3, <1>4, <1>5, <1>6 DEF Carrying

LEMMA HeirsKeep ==
    ASSUME Inv, KeepInv, held' \subseteq held \cup {saves + 1},
           UNCHANGED <<base, txn, pc, locals>>,
           \A s \in Sides, e \in Entities : Heir(s, e), EditsKept'
    PROVE  KeepInv'
  <1>0. UNCHANGED <<op, seen, todo, cur, note, bad>>
    BY DEF locals
  <1>1. ASSUME Walking, Merged(Entities \ Rest) PROVE Merged(Entities \ Rest)'
    <2> DEFINE met == Entities \ Rest
    <2>1. met' = met /\ met \in SUBSET Entities
      BY <1>0 DEF Rest, Entities
    <2>2. \A m \in SUBSET Entities : Merged(m) => Merged(m)'
      BY <1>0, <1>1, HeirsMerged
    <2>3. \A m : Merged(m)' /\ met' = m => Merged(met)'
      BY DEF Merged
    <2> HIDE DEF met
    <2> QED BY <1>1, <2>1, <2>2, <2>3 DEF met
  <1>2. (\A e \in Entities : Level(e)) => \A e \in Entities : Level(e)'
    BY HeirsLevel
  <1>3. pc = "entity" => Merged(Entities \ Rest)'
    BY <1>1 DEF KeepInv, Keeping, Inv, Engaged
  <1>4. pc = "align" => \A e \in Entities : Level(e)'
    BY <1>2 DEF KeepInv, Keeping
  <1>5. pc \in Hiding /\ cur.next = "entity" => Merged(Entities \ Rest)'
    BY <1>1 DEF KeepInv, Keeping, Inv, Engaged, HidingOK
  <1>6. pc \in Hiding /\ cur.next = "align" => \A e \in Entities : Level(e)'
    BY <1>2 DEF KeepInv, Keeping
  <1>7. pc = "resolve" => Deciding'
    BY <1>0, HeirsDeciding
  <1>8. pc \in Writing => Carrying'
    BY HeirsCarrying
  <1>9. Keeping'
    BY <1>0, <1>3, <1>4, <1>5, <1>6, <1>7, <1>8
    DEF Keeping, Writing, Hiding, Entities
  <1> QED BY <1>9, HeirsCore DEF KeepInv

\* A save that leaves the file, or makes it from one of its sources.
LEMMA SaveKeep ==
    ASSUME Inv, KeepInv, NEW z \in Sides, NEW e \in Entities, NEW d, NEW dropped,
           Save(z, e, d, dropped),
           held \cap Edits(doc[z][e]) \subseteq
              dropped \cup Edits(d) \cup UNION {Edits(doc[o][e]) : o \in Sides \ {z}},
           d = None \/ \E x \in Sources(z, e) \cap Texts, u \in Units :
              d = [x EXCEPT !.units[u] = saves + 1] /\ dropped = {x.units[u]}
    PROVE  KeepInv'
  <1>1. /\ doc' = [doc EXCEPT ![z][e] = d]
        /\ held' = (held \ dropped) \cup (Edits(d) \cap {saves + 1})
        /\ UNCHANGED <<base, txn, pc, locals>>
    BY DEF Save
  <1>2. \A s \in Sides, f \in Entities :
           doc'[s][f] = IF s = z /\ f = e THEN d ELSE doc[s][f]
    BY <1>1 DEF Inv, World, Trees
  <1>3. EditsKept'
    <2> SUFFICES ASSUME NEW n \in held'
                 PROVE  \E s \in Sides, f \in Entities : n \in Edits(doc[s][f])'
      BY DEF EditsKept
    <2>1. \A s \in Sides, f \in Entities : Edits(doc[s][f])' = Edits(doc'[s][f])
      BY DEF Edits
    <2>2. CASE n \in Edits(d)
      BY <1>2, <2>1, <2>2
    <2>3. CASE n \in held \ dropped /\ n \notin Edits(d)
      <3>1. PICK s \in Sides, f \in Entities : n \in Edits(doc[s][f])
        BY <2>3 DEF KeepInv, Core, EditsKept
      <3>2. CASE s = z /\ f = e
        <4>1. PICK o \in Sides \ {z} : n \in Edits(doc[o][e])
          BY <2>3, <3>1, <3>2
        <4> QED BY <1>2, <2>1, <4>1
      <3> QED BY <1>2, <2>1, <3>1, <3>2
    <2> QED BY <1>1, <2>2, <2>3
  <1>4. ASSUME NEW s \in Sides, NEW f \in Entities PROVE Heir(s, f)
    <2>1. saves \in Nat /\ None \notin Texts
      BY Worldly DEF Inv
    <2>2. CASE ~(s = z /\ f = e)
      <3> SUFFICES ASSUME doc'[s][f] # None PROVE Heir(s, f)
        BY DEF Heir
      <3>1. doc'[s][f] = doc[s][f] /\ doc[s][f] \in Texts
        BY <1>2, <2>2 DEF Inv, World, Trees, Maybe
      <3>2. ASSUME NEW y \in Texts, Keeps(doc[s][f], y) PROVE Keeps(doc[s][f], y)'
        <4>1. held' \subseteq held \cup {saves + 1}
          BY <1>1
        <4>2. \A u \in Units : y.units[u] \in held' => y.units[u] \in held
          BY <4>1, KeepsOld DEF Inv
        <4> QED BY <3>1, <3>2, <4>2 DEF Keeps
      <3> QED BY <3>1, <3>2 DEF Heir, Sources
    <2>3. CASE s = z /\ f = e /\ d # None
      <3>1. PICK x \in Sources(z, e) \cap Texts, u \in Units :
               d = [x EXCEPT !.units[u] = saves + 1] /\ dropped = {x.units[u]}
        BY <2>3
      <3>2. /\ d = [units |-> [x.units EXCEPT ![u] = saves + 1], rev |-> x.rev]
            /\ x.units \in [Units -> 0 .. saves]
        BY <3>1 DEF Texts
      <3>3. ASSUME NEW y \in Texts, Keeps(x, y) PROVE Keeps(doc[s][f], y)'
        <4>1. \A w \in Units : y.units[w] \in held' =>
                 y.units[w] \in held /\ y.units[w] # x.units[u]
          BY <1>1, <2>1, <3>1 DEF Texts
        <4>2. ASSUME NEW w \in Units, y.units[w] \in held' PROVE d.units[w] = y.units[w]
          <5>1. x.units[w] = y.units[w] /\ w # u
            BY <3>3, <4>1, <4>2 DEF Keeps
          <5> QED BY <3>2, <5>1
        <4>3. doc'[s][f] = d
          BY <1>2, <2>3
        <4> HIDE <3>1, <3>2
        <4> QED BY <4>2, <4>3 DEF Keeps
      <3>4. doc'[s][f].rev = x.rev
        BY <1>2, <2>3, <3>2
      <3> QED BY <2>3, <3>1, <3>3, <3>4 DEF Heir
    <2>4. CASE s = z /\ f = e /\ d = None
      BY <1>2, <2>4 DEF Heir
    <2> QED BY <2>2, <2>3, <2>4
  <1>5. held' \subseteq held \cup {saves + 1}
    BY <1>1
  <1> QED BY <1>1, <1>3, <1>4, <1>5, HeirsKeep

LEMMA EditKeep ==
    ASSUME Inv, KeepInv, NEW s \in Sides, NEW e \in Entities, NEW u \in Units, Edit(s, e, u)
    PROVE  KeepInv'
  <1> DEFINE x == doc[s][e]
             d == [x EXCEPT !.units[u] = saves + 1]
  <1>1. x # None /\ Save(s, e, d, {x.units[u]})
    BY DEF Edit
  <1>2. x \in Sources(s, e) \cap Texts
    BY <1>1 DEF Sources, Inv, World, Trees, Maybe
  <1>3. saves \in Nat /\ None \notin Texts
    BY Worldly DEF Inv
  <1>4. d = [units |-> [x.units EXCEPT ![u] = saves + 1], rev |-> x.rev]
        /\ x.units \in [Units -> 0 .. saves]
    BY <1>2 DEF Texts
  <1>5. d # None
    <2>1. d.units \in [Units -> Nat] /\ d.rev \in Nat \ {0}
      BY <1>2, <1>3, <1>4 DEF Texts
    <2> HIDE DEF d, x
    <2>2. d \in [units : [Units -> Nat], rev : Nat \ {0}]
      BY <1>4, <2>1
    <2> QED BY <2>2, SyncAssumption
  <1>6. Edits(x) \subseteq {x.units[u]} \cup Edits(d)
    <2> HIDE DEF x, d
    <2>1. \A w \in Units : w # u => d.units[w] = x.units[w]
      BY <1>4
    <2> QED BY <1>1, <1>5, <2>1 DEF Edits
  <1> QED BY <1>1, <1>2, <1>6, SaveKeep

LEMMA DeleteKeep ==
    ASSUME Inv, KeepInv, NEW s \in Sides, NEW e \in Entities, Delete(s, e)
    PROVE  KeepInv'
  <1>1. PICK o \in Sides \ {s} : Save(s, e, None, Edits(doc[s][e]) \ Edits(doc[o][e]))
    BY DEF Delete
  <1> QED BY <1>1, SaveKeep

LEMMA RecreateKeep ==
    ASSUME Inv, KeepInv, NEW s \in Sides, NEW e \in Entities, NEW u \in Units,
           Recreate(s, e, u)
    PROVE  KeepInv'
  <1>1. PICK o \in Sides \ {s} :
           LET copy == IF base[e] = None THEN doc[o][e] ELSE base[e]
           IN /\ copy # None
              /\ Save(s, e, [copy EXCEPT !.units[u] = saves + 1], {copy.units[u]})
    BY DEF Recreate
  <1> DEFINE copy == IF base[e] = None THEN doc[o][e] ELSE base[e]
             d == [copy EXCEPT !.units[u] = saves + 1]
  <1>2. copy \in Sources(s, e) \cap Texts
    BY <1>1 DEF Sources, Inv, World, Trees, Bases, Maybe
  <1>3. Save(s, e, d, {copy.units[u]}) /\ doc[s][e] = None
    BY <1>1 DEF Recreate
  <1> HIDE DEF copy
  <1> QED BY <1>2, <1>3, SaveKeep DEF Edits

\* A step that leaves the documents and the engine alone.
LEMMA StillKeep ==
    ASSUME Inv, KeepInv, UNCHANGED <<doc, base, txn, pc, locals, held>>
    PROVE  KeepInv'
  <1>1. EditsKept'
    BY DEF KeepInv, Core, EditsKept, Edits
  <1>2. ASSUME NEW s \in Sides, NEW e \in Entities PROVE Heir(s, e)
    <2>1. doc[s][e] \in Maybe
      BY DEF Inv, World, Trees
    <2>2. doc'[s][e] = doc[s][e]
      OBVIOUS
    <2>3. \A y : Keeps(doc[s][e], y) => Keeps(doc[s][e], y)'
      BY DEF Keeps
    <2>4. doc[s][e] # None => doc[s][e] \in Sources(s, e) \cap Texts
      BY <2>1 DEF Sources, Maybe
    <2> QED BY <2>2, <2>3, <2>4 DEF Heir
  <1> QED BY <1>1, <1>2, HeirsKeep

LEMMA PeopleKeep == ASSUME Inv, KeepInv, People PROVE KeepInv'
  <1>1. CASE TamperLedger
    BY <1>1, StillKeep DEF TamperLedger
  <1> QED BY <1>1, EditKeep, DeleteKeep, RecreateKeep DEF People

-----------------------------------------------------------------------------
(* Plans.                                                                  *)

\* A plan that keeps the held edits of all that it replaces.
KeepsIn(h, d, x) == \A u \in Units : x.units[u] \in h => d.units[u] = x.units[u]

LEMMA PlanKeep ==
    ASSUME Core, UNCHANGED <<doc, base>>, held' \subseteq held, NEW e \in Entities,
           NEW body, NEW p, NEW v, NEW next, Plan(e, body, p, v, next),
           \A s \in Sides : LET d == doc[s][e]
                            IN d # None /\ d.rev = body.rev => KeepsIn(held', d, body),
           base[e] # None /\ base[e].rev = body.rev =>
              KeepsIn(held', base[e], body) /\ KeepsIn(held', body, base[e]),
           held' \cap (Edits(p) \cup Edits(v)) \subseteq Edits(body),
           None \in {p, v} => held' \cap Edits(base[e]) \subseteq Edits(body)
    PROVE  /\ Core' /\ pc' = "write"
           /\ cur'.t.of = e /\ cur'.body = body /\ cur'.next = next
           /\ cur'.pre = [project |-> cur'.t.project, vault |-> cur'.t.vault]
  <1> DEFINE t == Transaction("entity", e, body, base[e], p, v)
  <1>1. /\ txn' = txn \cup {t} /\ pc' = "write"
        /\ cur' = [t |-> t, body |-> body, next |-> next, side |-> "project",
                   pre |-> [project |-> p, vault |-> v],
                   write |-> IF next = "entity"
                             THEN {s \in Sides : t[s] # body} ELSE Sides]
    BY DEF Plan
  <1>2. /\ t.kind = "entity" /\ t.of = e /\ t.desired = body /\ t.base = base[e]
        /\ t.project = p /\ t.vault = v
    BY DEF Transaction
  <1> HIDE DEF t
  <1>3. ASSUME NEW r, r = t PROVE Careful(r)'
    <2>1. /\ r.of = e /\ r.desired = body /\ r.base = base[e]
          /\ r.project = p /\ r.vault = v
      BY <1>2, <1>3
    <2>2. Keeps(base[e], body)' <=> KeepsIn(held', base'[e], body)
      BY DEF Keeps, KeepsIn
    <2>3. Careful(r)' <=>
             /\ \A s \in Sides : LET d == doc'[s][r.of]
                   IN d # None /\ d.rev = r.desired.rev => KeepsIn(held', d, r.desired)
             /\ base'[r.of] # None /\ base'[r.of].rev = r.desired.rev =>
                   /\ KeepsIn(held', base'[r.of], r.desired)
                   /\ KeepsIn(held', r.desired, base'[r.of])
             /\ held' \cap (Edits(r.project) \cup Edits(r.vault)) \subseteq Edits(r.desired)
             /\ None \in {r.project, r.vault} =>
                   held' \cap Edits(r.base) \subseteq Edits(r.desired)
      BY DEF Careful, Keeps, KeepsIn, Edits
    <2> QED BY <2>1, <2>3
  <1>4. Core'
    BY <1>1, <1>3, CoreStay DEF Alike
  <1>5. /\ cur'.t = t /\ cur'.body = body /\ cur'.next = next
        /\ cur'.pre = [project |-> p, vault |-> v]
    BY <1>1
  <1> QED BY <1>1, <1>2, <1>4, <1>5

\* The three-way merge of texts that keep the held edits of their base keeps
\* the held edits of all three.
LEMMA MergeKeeps ==
    ASSUME World, NEW b \in Texts, NEW p \in Maybe, NEW v \in Maybe, ~Clash(b, p, v),
           \A d \in {p, v} : d # None /\ d.rev = b.rev => Keeps(d, b)
    PROVE  LET body == Accepted(b, p, v)
           IN /\ held \cap (Edits(p) \cup Edits(v)) \subseteq Edits(body)
              /\ None \in {p, v} => held \cap Edits(b) \subseteq Edits(body)
  <1> DEFINE P == Candidate(b, p)
             V == Candidate(b, v)
             mix == [u \in Units |-> IF P.units[u] # b.units[u] THEN P.units[u]
                                                               ELSE V.units[u]]
             body == Accepted(b, p, v)
  <1>0. None \notin Texts /\ b # None
    BY Worldly
  <1>1. body = FinalizeHumanMerge(b, mix)
    BY <1>0 DEF Accepted
  <1>2. body.units = mix
    BY <1>1 DEF FinalizeHumanMerge
  <1>3. body # None
    BY <1>0, AcceptedText DEF Maybe
  <1>4. \A d \in {p, v} : d # None => Keeps(d, b)
    BY <1>0 DEF Clash
  <1>5. Keeps(P, b) /\ Keeps(V, b)
    BY <1>4 DEF Candidate, Keeps
  <1>6. \A u \in Units : ~UnitClash(b.units[u], P.units[u], V.units[u])
    BY <1>0 DEF Clash
  <1>7. \A u \in Units : body.units[u] = IF P.units[u] # b.units[u] THEN P.units[u]
                                                                   ELSE V.units[u]
    BY <1>2
  <1> HIDE DEF P, V, body, mix
  <1>8. ASSUME NEW u \in Units
        PROVE  /\ P.units[u] \in held => body.units[u] = P.units[u]
               /\ V.units[u] \in held => body.units[u] = V.units[u]
    BY <1>5, <1>6, <1>7 DEF Keeps, UnitClash
  <1>9. held \cap (Edits(P) \cup Edits(V)) \subseteq Edits(body)
    BY <1>3, <1>8 DEF Edits
  <1>10. /\ p # None => P = p
         /\ v # None => V = v
         /\ p = None => P = b
         /\ v = None => V = b
    BY DEF P, V, Candidate
  <1>11. held \cap (Edits(p) \cup Edits(v)) \subseteq Edits(body)
    BY <1>9, <1>10 DEF Edits
  <1>12. None \in {p, v} => held \cap Edits(b) \subseteq Edits(body)
    BY <1>9, <1>10
  <1> QED BY <1>11, <1>12 DEF body

LEMMA EntityKeep == ASSUME Inv, KeepInv, Entity PROVE KeepInv'
  <1> DEFINE e == Head(todo)
             p == seen.doc["project"][e]
             v == seen.doc["vault"][e]
             b == seen.base[e]
             body == Accepted(b, p, v)
  <1>0. /\ pc = "entity" /\ todo # <<>> /\ todo' = Tail(todo) /\ Walking
        /\ UNCHANGED <<doc, base, seen, held>>
        /\ Merged(Entities \ Rest)
    BY DEF Entity, Inv, Engaged, KeepInv, Keeping, people
  <1>1. /\ e \in Rest /\ Rest \subseteq Entities /\ Rest' = Rest \ {e}
    <2>1. Rest' = {Tail(todo)[i] : i \in DOMAIN Tail(todo)}
      BY <1>0 DEF Rest
    <2> QED BY <1>0, <2>1, RestOf DEF Walking
  <1>2. /\ e \in Entities /\ base[e] = b
        /\ p \in Maybe /\ v \in Maybe /\ b \in Maybe
    BY <1>0, <1>1 DEF Walking, Trees, Bases, Sides
  <1>3. Merging(e)
    BY <1>0, <1>1 DEF Merged
  <1>4. /\ body \in Maybe
        /\ b # None => body \in Texts /\ (body = b \/ body.rev > b.rev)
    BY <1>2, AcceptedText, Worldly DEF Inv
  <1>5. \A f \in Rest' : Merging(f)'
    BY <1>0, <1>1, MergingStay DEF Merged
  <1>6. bad \/ \A f \in Entities \ Rest : Level(f)'
    BY <1>0, LevelStay DEF Merged
  <1> HIDE DEF e, p, v, b, body
  <1>7. CASE SeenClash(e) /\ PersistConflictRecord(e)
    <2> DEFINE id == ConflictID(e, b, p, v)
               at == [s \in Sides |-> At(s, id)]
               t == Transaction("record", id, OpenNote, OpenNote,
                                at["project"], at["vault"])
    <2>1. bad' = TRUE
      BY <1>7 DEF PersistConflictRecord
    <2>2. \/ /\ txn' = txn \cup {t} /\ pc' = "hidden"
             /\ cur' = [t |-> t, body |-> OpenNote, next |-> "entity", pre |-> at]
          \/ UNCHANGED <<txn, pc>>
      BY <1>7 DEF PersistConflictRecord, b, p, v
    <2>3. t.kind # "entity"
      BY DEF Transaction
    <2> HIDE DEF t, at
    <2>4. pc' = "hidden" => cur'.next = "entity"
      BY <1>0, <2>2
    <2>5. Merged(Entities \ Rest)'
      BY <1>5, <2>1 DEF Merged
    <2>6. Keeping'
      BY <1>0, <2>2, <2>4, <2>5 DEF Keeping, Writing, Hiding
    <2>7. Core'
      BY <1>0, <2>2, <2>3, CoreHidden DEF KeepInv
    <2> QED BY <2>6, <2>7 DEF KeepInv
  <1>8. CASE /\ ~SeenClash(e) /\ UNCHANGED <<txn, pc, cur, bad>>
             /\ body = None \/ b # None
    <2>1. Level(e)
      <3>1. CASE b # None
        <4>1. \A s \in Sides : doc[s][e] # None => doc[s][e].rev = b.rev
          BY <1>3, <1>8, <3>1 DEF Merging, b
        <4>2. b.rev \in Nat
          BY <1>2, <3>1 DEF Maybe, Texts
        <4> QED BY <1>2, <4>1, <4>2 DEF Level
      <3>2. CASE b = None
        BY <1>2, <3>2 DEF Level
      <3> QED BY <3>1, <3>2
    <2>2. \A f : f = e => Level(f)'
      BY <1>0, <2>1, LevelStay
    <2>3. \A f \in Entities \ Rest' : f = e \/ f \in Entities \ Rest
      BY <1>1
    <2>4. Merged(Entities \ Rest)'
      BY <1>5, <1>6, <1>8, <2>2, <2>3 DEF Merged, Entities
    <2>5. Keeping'
      BY <1>0, <1>8, <2>4 DEF Keeping, Writing, Hiding
    <2> QED BY <1>0, <1>8, <2>5, CoreSame DEF KeepInv
  <1>9. CASE ~SeenClash(e) /\ body # None /\ Plan(e, body, p, v, "entity") /\ UNCHANGED bad
    <2>1. body \in Texts /\ saves \in Nat /\ None \notin Texts
      BY <1>4, <1>9, Worldly DEF Maybe, Inv
    <2>2. ~Clash(b, p, v)
      BY <1>9 DEF SeenClash, b, p, v
    <2>3. \A s \in Sides : LET d == doc[s][e]
                           IN d # None => IF b # None THEN d.rev = b.rev
                                          ELSE d.rev = body.rev /\ Keeps(d, body)
      BY <1>3, <1>9 DEF Merging, b, body, p, v
    <2>4. /\ held \cap (Edits(p) \cup Edits(v)) \subseteq Edits(body)
          /\ None \in {p, v} => held \cap Edits(b) \subseteq Edits(body)
      <3>1. CASE b # None
        <4>1. b \in Texts
          BY <1>2, <3>1 DEF Maybe
        <4>2. \A d \in {p, v} : d # None /\ d.rev = b.rev => Keeps(d, b)
          BY <1>3, <3>1 DEF Merging, b, p, v, Sides
        <4> QED BY <1>2, <2>2, <4>1, <4>2, MergeKeeps DEF body, Inv
      <3>2. CASE b = None
        <4>1. body \in {p, v} /\ (p # None /\ v # None => p = v)
          BY <2>2, <3>2 DEF body, Accepted, Clash
        <4> QED BY <1>9, <3>2, <4>1 DEF Edits
      <3> QED BY <3>1, <3>2
    <2>5. b # None => b.rev \in Nat /\ b.rev <= body.rev /\ (b.rev = body.rev => body = b)
      BY <1>2, <1>4, <2>1 DEF Maybe, Texts
    <2>6. \A s \in Sides : LET d == doc[s][e]
                           IN d # None /\ d.rev = body.rev => KeepsIn(held', d, body)
      <3> SUFFICES ASSUME NEW s \in Sides, doc[s][e] # None, doc[s][e].rev = body.rev
                   PROVE  KeepsIn(held', doc[s][e], body)
        OBVIOUS
      <3>1. Keeps(doc[s][e], body)
        <4>1. CASE b = None
          BY <2>3, <4>1
        <4>2. CASE b # None
          <5>1. body = b /\ doc[s][e].rev = base[e].rev /\ base[e] = b
            BY <1>2, <2>3, <2>5, <4>2
          <5> QED BY <1>2, <4>2, <5>1 DEF KeepInv, Core, Rooted
        <4> QED BY <4>1, <4>2
      <3> QED BY <1>0, <3>1 DEF Keeps, KeepsIn
    <2>7. base[e] # None /\ base[e].rev = body.rev =>
             KeepsIn(held', base[e], body) /\ KeepsIn(held', body, base[e])
      BY <1>2, <2>5 DEF KeepsIn
    <2>8. /\ held' \cap (Edits(p) \cup Edits(v)) \subseteq Edits(body)
          /\ None \in {p, v} => held' \cap Edits(base[e]) \subseteq Edits(body)
      BY <1>0, <1>2, <2>4
    <2>9. /\ Core' /\ pc' = "write"
          /\ cur'.t.of = e /\ cur'.body = body /\ cur'.next = "entity"
          /\ cur'.pre = [project |-> cur'.t.project, vault |-> cur'.t.vault]
      BY <1>0, <1>2, <1>9, <2>6, <2>7, <2>8, PlanKeep DEF KeepInv
    <2>10. \A d \in {base[e], doc["project"][e], doc["vault"][e]} :
              d # None => d.rev <= body.rev
      <3>1. body.rev \in Nat
        BY <2>1 DEF Texts
      <3> QED BY <1>2, <2>3, <2>5, <3>1 DEF Sides
    <2>11. \A f \in Entities \ (Rest' \cup {e}) : f \in Entities \ Rest
      BY <1>1
    <2>12. Merged(Entities \ (Rest \cup {cur.t.of}))'
      BY <1>5, <1>6, <1>9, <2>9, <2>11 DEF Merged, Entities
    <2>13. Carrying'
      BY <1>0, <2>9, <2>10, <2>12 DEF Carrying
    <2>14. Keeping'
      BY <2>9, <2>13 DEF Keeping, Writing, Hiding
    <2> QED BY <2>9, <2>14 DEF KeepInv
  <1> QED BY <1>0, <1>7, <1>8, <1>9 DEF Entity, e, p, v, b, body

\* The alignment lifts the project document above the merge base, unless the
\* document was put back below it.
LEMMA AlignKeep ==
    ASSUME Inv, KeepInv, Align, "align" \notin Counted PROVE KeepInv'
  <1> DEFINE now == doc["project"]
  <1>0. pc = "align" /\ UNCHANGED <<doc, base>> /\ \A e \in Entities : Level(e)
    BY DEF Align, KeepInv, Keeping
  <1>1. CASE Abort /\ UNCHANGED <<txn, held>>
    BY <1>0, <1>1, AbortKeep
  <1>2. CASE pc' = "publish" /\ UNCHANGED <<txn, held>>
    BY <1>0, <1>2, PlainKeep
  <1>3. ASSUME None \notin {doc[s][e] : s \in Sides, e \in Entities},
               NEW e \in Behind, base[e] # None, Lift(e)
        PROVE  KeepInv'
    <2> DEFINE body == Lifted(e)
               v == doc["vault"][e]
    <2>1. /\ e \in Entities /\ now[e] \in Texts /\ v \in Texts
          /\ body \in Texts /\ body.units = now[e].units /\ body.rev > now[e].rev
      BY <1>3, LiftedText
    <2>2. /\ Plan(e, body, now[e], v, "publish")
          /\ held' = IF now[e].rev < base[e].rev
                     THEN held \ UNION {Edits(d) : d \in {now[e], v, base[e]}}
                     ELSE held \ (Edits(v) \ Edits(body))
      BY <1>3 DEF Lift
    <2> HIDE DEF body
    <2>3. base[e] \in Texts /\ None \notin {now[e], v, body, base[e]}
      BY <1>3, <2>1, Worldly DEF Inv, World, Bases, Maybe
    <2>4. now[e].rev \in Nat /\ base[e].rev \in Nat /\ v.rev \in Nat /\ body.rev \in Nat
      BY <2>1, <2>3 DEF Texts
    <2>5. now[e].rev <= base[e].rev /\ v.rev <= base[e].rev
      BY <1>0, <2>1, <2>3 DEF Level, Sides
    <2>6. \A s \in Sides : doc[s][e] \in {now[e], v}
      BY DEF Sides
    <2>7. held' \subseteq held /\ 0 \notin held
      BY <2>2 DEF Inv, World
    <2>8. Edits(body) = Edits(now[e])
      BY <2>1, <2>3 DEF Edits
    <2>9. held' \cap (Edits(now[e]) \cup Edits(v)) \subseteq Edits(body)
      BY <2>2, <2>8
    <2>10. CASE now[e].rev < base[e].rev
      <3>1. held' \cap (Edits(now[e]) \cup Edits(v) \cup Edits(base[e])) = {}
        BY <2>2, <2>10
      <3>2. \A u \in Units : /\ now[e].units[u] \notin held' /\ v.units[u] \notin held'
                             /\ base[e].units[u] \notin held' /\ body.units[u] \notin held'
        BY <2>1, <2>3, <2>7, <3>1 DEF Edits
      <3>3. /\ \A s \in Sides : KeepsIn(held', doc[s][e], body)
            /\ KeepsIn(held', base[e], body) /\ KeepsIn(held', body, base[e])
        BY SMTT(60), <3>2 DEF KeepsIn
      <3>4. /\ Core' /\ pc' = "write" /\ cur'.next = "publish"
            /\ cur'.pre = [project |-> cur'.t.project, vault |-> cur'.t.vault]
        BY ZenonT(60), <1>0, <2>1, <2>2, <2>3, <2>7, <2>9, <3>3, PlanKeep DEF KeepInv
      <3>5. Keeping'
        BY <3>4 DEF Keeping, Carrying, Writing, Hiding
      <3> QED BY <3>4, <3>5 DEF KeepInv
    <2>11. CASE ~(now[e].rev < base[e].rev)
      <3>1. body.rev > base[e].rev
        BY <2>1, <2>4, <2>5, <2>11
      <3>2. base[e].rev # body.rev /\ \A s \in Sides : doc[s][e].rev # body.rev
        BY <2>4, <2>5, <2>6, <3>1
      <3>20. /\ \A s \in Sides : LET d == doc[s][e]
                   IN d # None /\ d.rev = body.rev => KeepsIn(held', d, body)
             /\ base[e] # None /\ base[e].rev = body.rev =>
                   KeepsIn(held', base[e], body) /\ KeepsIn(held', body, base[e])
        BY <3>2
      <3>21. /\ None \in {now[e], v} => held' \cap Edits(base[e]) \subseteq Edits(body)
             /\ held' \subseteq held
        BY <2>3, <2>7
      <3> HIDE DEF now, v
      <3>3. /\ Core' /\ pc' = "write" /\ cur'.next = "publish"
            /\ cur'.pre = [project |-> cur'.t.project, vault |-> cur'.t.vault]
        BY ZenonT(60), <1>0, <2>1, <2>2, <2>3, <2>9, <3>20, <3>21, PlanKeep DEF KeepInv
      <3>4. Keeping'
        BY <3>3 DEF Keeping, Carrying, Writing, Hiding
      <3> QED BY <3>3, <3>4 DEF KeepInv
    <2> QED BY <2>10, <2>11
  <1>4. ASSUME NEW e \in Behind, base[e] = None, Lift(e) PROVE KeepInv'
    BY <1>0, <1>4, AbortKeep DEF Lift
  <1> QED BY <1>1, <1>2, <1>3, <1>4 DEF Align

\* The person decides between the texts that clash, and the edits of the text
\* not chosen are given up.
LEMMA ChooseKeep == ASSUME Inv, KeepInv, Choose PROVE KeepInv'
  <1> DEFINE id == op.id
             e == id.entity
  <1>0. pc = "choose" /\ Choosing /\ UNCHANGED <<doc, base>>
    BY DEF Choose, Inv, Engaged
  <1>1. CASE Abort /\ UNCHANGED <<txn, held>>
    BY <1>0, <1>1, AbortKeep
  <1>2. ASSUME Resolvable(id), NEW body, NEW next, NEW t, t.kind = "resolve", t.of = id,
               next = "align" => \A f \in Entities \ {e} :
                                    seen.base[f] # None => ~SeenClash(f),
               txn' = txn \cup {t},
               note' = [t |-> t, body |-> [accepted |-> body],
                        pre |-> [project |-> OpenNote, vault |-> OpenNote],
                        next |-> next],
               held' = held \ ((Edits(id.project) \cup Edits(id.vault)) \ Edits(body)),
               pc' = "resolve", op' = op
        PROVE  KeepInv'
    <2>1. e \in Entities
      BY <1>0 DEF Inv, Engaged, Asked, Choosing, Ids
    <2>2. /\ base[e] # None /\ base[e] = id.base
          /\ seen.doc["project"][e] = id.project /\ seen.doc["vault"][e] = id.vault
          /\ None \notin {id.project, id.vault}
          /\ id.project.rev = id.base.rev /\ id.vault.rev = id.base.rev
      BY <1>0, <1>2 DEF Resolvable, Choosing
    <2>3. Core'
      BY <1>0, <1>2, CoreHidden DEF KeepInv
    <2>4. \A s \in Sides : doc[s][e] # None => doc[s][e].rev = base[e].rev
      BY SMTT(60), <1>0, <2>1, <2>2 DEF Choosing, Sides
    <2>5. /\ note'.t.of.entity = e /\ note'.body.accepted = body /\ note'.next = next
      BY <1>2
    <2>6. ASSUME next = "align", NEW f \in Entities \ {e} PROVE Level(f)
      <3> SUFFICES ASSUME base[f] # None, NEW s \in Sides, doc[s][f] # None
                   PROVE  doc[s][f].rev <= base[f].rev
        BY DEF Level
      <3>1. seen.base = base /\ ~SeenClash(f)
        BY <1>0, <1>2, <2>6 DEF Choosing
      <3>2. seen.doc[s][f] # None => seen.doc[s][f].rev = base[f].rev
        BY <3>1 DEF SeenClash, Clash, Sides
      <3>3. doc[s][f].rev = base[f].rev
        BY <1>0, <3>2 DEF Choosing
      <3>4. base[f].rev \in Nat
        BY DEF Inv, World, Bases, Maybe, Texts
      <3> QED BY <3>3, <3>4
    <2>7. Alone'
      BY <1>0, <2>5, <2>6, LevelStay DEF Alone, Entities
    <2>8. held' \cap (Edits(id.project) \cup Edits(id.vault)) \subseteq Edits(body)
      BY SMTT(60), <1>2
    <2>9. Deciding'
      BY <1>0, <1>2, <2>2, <2>4, <2>5, <2>7, <2>8 DEF Deciding, Edits
    <2>10. Keeping'
      BY <1>2, <2>9 DEF Keeping, Writing, Hiding
    <2> QED BY <2>3, <2>10 DEF KeepInv
  <1>3. CASE Resolvable(id)
    <2> DEFINE others == \E f \in Entities \ {e} : seen.base[f] # None /\ SeenClash(f)
               next == IF others THEN "done" ELSE "align"
    <2>1. PICK choice \in Choices(id.project, id.vault) :
             LET body == FinalizeHumanMerge(id.base, choice.units)
                 t == Transaction("resolve", id, [accepted |-> body],
                                  OpenNote, OpenNote, OpenNote)
             IN /\ txn' = txn \cup {t}
                /\ note' = [t |-> t, body |-> [accepted |-> body],
                            pre |-> [project |-> OpenNote, vault |-> OpenNote],
                            next |-> next]
                /\ held' = held \ ((Edits(id.project) \cup Edits(id.vault))
                                     \ Edits(body))
                /\ pc' = "resolve" /\ op' = op
      BY <1>3 DEF Choose
    <2> DEFINE body == FinalizeHumanMerge(id.base, choice.units)
               t == Transaction("resolve", id, [accepted |-> body],
                                OpenNote, OpenNote, OpenNote)
    <2>2. t.kind = "resolve" /\ t.of = id
      BY DEF Transaction
    <2>3. next = "align" => \A f \in Entities \ {e} : seen.base[f] # None => ~SeenClash(f)
      OBVIOUS
    <2> HIDE DEF body, t, next
    <2>4. /\ txn' = txn \cup {t} /\ pc' = "resolve" /\ op' = op
          /\ note' = [t |-> t, body |-> [accepted |-> body],
                      pre |-> [project |-> OpenNote, vault |-> OpenNote], next |-> next]
          /\ held' = held \ ((Edits(id.project) \cup Edits(id.vault)) \ Edits(body))
      BY <2>1 DEF body, t
    <2> QED BY <1>2, <1>3, <2>2, <2>3, <2>4
  <1> QED BY <1>1, <1>3 DEF Choose

\* The resolution plans a text above the merge base and both sides.
LEMMA ResolveDocumentKeep == ASSUME Inv, KeepInv, ResolveDocument PROVE KeepInv'
  <1> DEFINE id == op.id
             e == id.entity
             body == note.body.accepted
  <1>0. /\ pc = "resolve" /\ Plan(e, body, id.project, id.vault, "note")
        /\ UNCHANGED <<doc, base, note, held>> /\ Resolving /\ Deciding
    BY DEF ResolveDocument, people, Inv, Engaged, KeepInv, Keeping
  <1>1. Noted /\ note.t.of = id /\ base[e] # None /\ body.rev > base[e].rev
    BY <1>0 DEF Resolving
  <1>2. e \in Entities
    BY <1>0, <1>1 DEF Noted, Inv, Engaged, Asked, Ids
  <1>3. body \in Texts /\ base[e] \in Texts
    BY <1>1, <1>2 DEF Noted, Inv, Files, File, Close, World, Bases, Maybe
  <1>4. base[e].rev \in Nat /\ body.rev \in Nat
    BY <1>3 DEF Texts
  <1>5. \A s \in Sides : doc[s][e] # None => doc[s][e].rev = base[e].rev
    BY <1>0 DEF Deciding
  <1>6. /\ held \cap (Edits(id.project) \cup Edits(id.vault)) \subseteq Edits(body)
        /\ None \notin {id.project, id.vault}
    BY <1>0 DEF Deciding
  <1> HIDE DEF body, e
  <1>7. /\ Core' /\ pc' = "write"
        /\ cur'.t.of = e /\ cur'.body = body /\ cur'.next = "note"
        /\ cur'.pre = [project |-> cur'.t.project, vault |-> cur'.t.vault]
    <2>1. /\ base[e].rev # body.rev
          /\ \A s \in Sides : doc[s][e] # None => doc[s][e].rev # body.rev
      BY <1>1, <1>4, <1>5
    <2> QED BY <1>0, <1>2, <1>6, <2>1, PlanKeep DEF KeepInv
  <1>8. \A d \in {base[e], doc["project"][e], doc["vault"][e]} :
           d # None => d.rev <= body.rev
    BY <1>1, <1>4, <1>5 DEF Sides
  <1>9. Alone'
    BY <1>0, LevelStay DEF Deciding, Alone
  <1>10. Carrying'
    BY <1>0, <1>7, <1>8, <1>9 DEF Carrying
  <1>11. Keeping'
    BY <1>7, <1>10 DEF Keeping, Writing, Hiding
  <1> QED BY <1>7, <1>11 DEF KeepInv
-----------------------------------------------------------------------------
(* Writing a document keeps the edits.                                     *)

\* The next stage of a file changes nothing else of it, nor of the steps.
LEMMA StageKeeps ==
    ASSUME Inv, WritingOK, pc # "remove", cur.next # "recoverEntity",
           NEW n, n = [cur.t EXCEPT !.stage = After(@)],
           \/ cur' = [cur EXCEPT !.t = n]
           \/ cur' = [cur EXCEPT !.t = n, !.side = "vault"]
    PROVE  Alike(n, cur.t) /\ cur'.t = n /\ cur'.body = cur.body
           /\ cur'.next = cur.next /\ cur'.pre = cur.pre
  <1>1. /\ cur.t = [kind |-> cur.t.kind, of |-> cur.t.of, desired |-> cur.t.desired,
                    base |-> cur.t.base, project |-> cur.t.project,
                    vault |-> cur.t.vault, stage |-> cur.t.stage]
    BY DEF WritingOK, Inv, Files, File
  <1> DEFINE x == After(cur.t.stage)
  <1>2. n = [kind |-> cur.t.kind, of |-> cur.t.of, desired |-> cur.t.desired,
             base |-> cur.t.base, project |-> cur.t.project,
             vault |-> cur.t.vault, stage |-> x]
    <2>1. n = [cur.t EXCEPT !.stage = x]
      OBVIOUS
    <2> HIDE DEF x
    <2> QED BY <1>1, <2>1
  <1>3. cur = [t |-> cur.t, body |-> cur.body, next |-> cur.next, side |-> cur.side,
               pre |-> cur.pre, write |-> cur.write]
    BY DEF WritingOK
  <1> HIDE DEF x
  <1>4. Alike(n, cur.t)
    BY <1>2 DEF Alike
  <1>5. CASE cur' = [cur EXCEPT !.t = n]
    <2>1. cur' = [t |-> n, body |-> cur.body, next |-> cur.next, side |-> cur.side,
                  pre |-> cur.pre, write |-> cur.write]
      BY <1>3, <1>5
    <2> QED BY <1>4, <2>1
  <1>6. CASE cur' = [cur EXCEPT !.t = n, !.side = "vault"]
    <2>1. cur' = [t |-> n, body |-> cur.body, next |-> cur.next, side |-> "vault",
                  pre |-> cur.pre, write |-> cur.write]
      BY <1>3, <1>6
    <2> QED BY <1>4, <2>1
  <1> QED BY <1>5, <1>6

\* A step of the carried out transaction: no document but its own changes, and
\* that one takes its text.
LEMMA CarryingMove ==
    ASSUME Inv, KeepInv, pc \in Writing, pc' \in Writing, pc # "remove",
           UNCHANGED <<seen, todo, note, bad>>, held' \subseteq held,
           Alike(cur'.t, cur.t), cur'.next = cur.next, cur'.body = cur.body,
           cur'.pre = cur.pre,
           \A s \in Sides, e \in Entities :
              doc'[s][e] = doc[s][e] \/ (e = cur.t.of /\ doc'[s][e] = cur.body),
           \A e \in Entities :
              base'[e] = base[e] \/ (e = cur.t.of /\ base'[e] = cur.body),
           cur.next = "recoverEntity" /\ pc' # "remove" => UNCHANGED base,
           cur.next = "recoverEntity" /\ pc' = "replace" => Unchanged(cur.side)'
    PROVE  Keeping'
  <1> DEFINE e == cur.t.of
  <1>0. /\ Carrying /\ WritingOK
        /\ cur'.t.of = e /\ cur'.t.project = cur.t.project
        /\ cur'.t.vault = cur.t.vault /\ cur'.t.base = cur.t.base
    BY DEF Inv, Engaged, KeepInv, Keeping, Alike
  <1>1. e \in Entities /\ cur.body.rev \in Nat
    BY <1>0 DEF WritingOK, Inv, Files, File, Texts
  <1>2. cur.next \in {"entity", "note"} =>
           \A d \in {base'[e], doc'["project"][e], doc'["vault"][e]} :
              d # None => d.rev <= cur.body.rev
    BY <1>0, <1>1 DEF Carrying, Sides
  <1>3. \A f \in Entities \ {e} : Level(f) => Level(f)'
    BY LevelStay
  <1>4. cur.next = "entity" => Merged(Entities \ (Rest \cup {cur.t.of}))'
    <2> SUFFICES ASSUME cur.next = "entity"
                 PROVE  Merged(Entities \ (Rest \cup {cur.t.of}))'
      OBVIOUS
    <2>1. Rest' = Rest /\ e \notin Rest /\ Rest \subseteq Entities
      BY <1>0 DEF Rest, WritingOK, Walking, Entities
    <2>2. ASSUME NEW f \in Rest PROVE Merging(f)'
      <3>1. Merging(f) /\ \A s \in Sides : doc'[s][f] = doc[s][f]
        BY <1>0, <2>1, <2>2 DEF Carrying, Merged
      <3> QED BY <3>1, MergingStay
    <2>3. bad' \/ \A f \in Entities \ (Rest \cup {e}) : Level(f)'
      BY <1>0, <1>3 DEF Carrying, Merged
    <2> QED BY <1>0, <2>1, <2>2, <2>3 DEF Merged, Entities
  <1>5. cur.next = "note" => Alone'
    <2> SUFFICES ASSUME cur.next = "note" PROVE Alone'
      OBVIOUS
    <2>1. note.t \in txn /\ note.t.kind = "resolve"
      BY <1>0 DEF WritingOK, Noted
    <2>2. Decides(note.t) /\ cur.t \in txn /\ cur.t.kind = "entity"
      BY <1>0, <2>1 DEF WritingOK, Inv, Files
    <2>3. note.t.of.entity = e
      BY <2>1, <2>2 DEF Decides
    <2>4. Alone
      BY <1>0 DEF Carrying
    <2> QED BY <1>3, <2>3, <2>4 DEF Alone, Entities
  <1>6. Carrying'
    <2>1. cur'.next # "recoverEntity" =>
             cur'.pre = [project |-> cur'.t.project, vault |-> cur'.t.vault]
      BY <1>0 DEF Carrying
    <2>2. cur'.next = "recoverEntity" /\ pc' # "remove" =>
             /\ base'[cur'.t.of] = seen'.base[cur'.t.of]
             /\ seen'.base[cur'.t.of] \in {None, cur'.t.base}
             /\ pc' = "replace" => Unchanged(cur.side)'
      BY <1>0 DEF Carrying
    <2> QED BY <1>0, <1>2, <1>4, <1>5, <2>1, <2>2 DEF Carrying
  <1> QED BY <1>6 DEF Keeping, Writing, Hiding

LEMMA CurSame ==
    ASSUME WritingOK, cur' = cur \/ cur' = [cur EXCEPT !.side = "vault"]
    PROVE  Alike(cur'.t, cur.t) /\ cur'.t = cur.t /\ cur'.next = cur.next
           /\ cur'.body = cur.body /\ cur'.pre = cur.pre
  <1>1. cur = [t |-> cur.t, body |-> cur.body, next |-> cur.next, side |-> cur.side,
               pre |-> cur.pre, write |-> cur.write]
    BY DEF WritingOK
  <1>2. CASE cur' = [cur EXCEPT !.side = "vault"]
    <2>1. cur' = [t |-> cur.t, body |-> cur.body, next |-> cur.next, side |-> "vault",
                  pre |-> cur.pre, write |-> cur.write]
      BY <1>1, <1>2
    <2> QED BY <2>1 DEF Alike
  <1> QED BY <1>2 DEF Alike

LEMMA WriteKeep == ASSUME Inv, KeepInv, Write PROVE KeepInv'
  <1>0. pc = "write" /\ UNCHANGED <<doc, base, txn, held>> /\ WritingOK
    BY DEF Write, world, people, Inv, Engaged, Writing
  <1>1. CASE Fail
    BY <1>0, <1>1, FailKeep DEF Writing
  <1>2. CASE Written /\ UNCHANGED <<op, seen, todo, note, bad, committed, report>>
    <2>1. /\ pc' \in {"write", "commit", "verify"}
          /\ cur' = cur \/ cur' = [cur EXCEPT !.side = "vault"]
      BY <1>2 DEF Written, NextSide
    <2>2. /\ Alike(cur'.t, cur.t) /\ cur'.next = cur.next /\ cur'.body = cur.body
          /\ cur'.pre = cur.pre
      BY <1>0, <2>1, CurSame
    <2>3. pc \in Writing /\ pc' \in Writing
      BY <1>0, <2>1 DEF Writing
    <2>4. Keeping'
      BY <1>0, <1>2, <2>1, <2>2, <2>3, CarryingMove
    <2> QED BY <1>0, <2>4, CoreSame DEF KeepInv
  <1>3. CASE /\ ~(Recovering /\ ChangedSincePlan(cur.side))
             /\ pc' = "replace" /\ UNCHANGED <<locals, report>>
    <2>1. UNCHANGED <<seen, todo, note, bad, cur>>
      BY <1>3 DEF locals
    <2>2. cur.next = "recoverEntity" => Unchanged(cur.side)
      BY <1>3 DEF Recovering, ChangedSincePlan, Unchanged
    <2>3. Unchanged(cur.side)' <=> Unchanged(cur.side)
      BY <2>1 DEF Unchanged
    <2>4. /\ Alike(cur'.t, cur.t) /\ cur'.next = cur.next /\ cur'.body = cur.body
          /\ cur'.pre = cur.pre
      BY <2>1 DEF Alike
    <2>5. pc \in Writing /\ pc' \in Writing
      BY <1>0, <1>3 DEF Writing
    <2>6. Keeping'
      BY <1>0, <2>1, <2>2, <2>3, <2>4, <2>5, CarryingMove
    <2> QED BY <1>0, <2>6, CoreSame DEF KeepInv
  <1> QED BY <1>1, <1>2, <1>3 DEF Write

\* The text replaced is the one the plan saw, or its loss was forgiven; and the
\* planned text lacks no held edit of what the plan saw.
LEMMA ReplaceKeep ==
    ASSUME Inv, KeepInv, Replace, {"replace", "create"} \cap Counted = {}
    PROVE  KeepInv'
  <1> DEFINE z == cur.side
             e == cur.t.of
             t == cur.t
             now == doc[z][e]
  <1>0. /\ pc = "replace" /\ Written /\ WritingOK /\ Carrying
        /\ doc' = [doc EXCEPT ![z][e] = cur.body]
        /\ held' = held \ (Forgiven(z) \ Edits(cur.body))
        /\ UNCHANGED <<base, txn, seen, todo, note, bad>>
    BY DEF Replace, Inv, Engaged, Writing, KeepInv, Keeping
  <1>1. /\ t \in txn /\ t.kind = "entity" /\ cur.body = t.desired /\ z \in Sides
        /\ e \in Entities /\ Careful(t) /\ t.desired \in Texts
    BY <1>0 DEF WritingOK, Inv, Files, File, KeepInv, Core, CarefulFiles
  <1>2. /\ \A s \in Sides, f \in Entities :
              doc'[s][f] = IF s = z /\ f = e THEN t.desired ELSE doc[s][f]
        /\ held' \subseteq held
    BY <1>0, <1>1 DEF Inv, World, Trees
  <1>3. ASSUME NEW n \in held', n \in Edits(now) PROVE n \in Edits(t.desired)
    <2> SUFFICES ASSUME n \notin Edits(t.desired) PROVE FALSE
      OBVIOUS
    <2>1. n \in held /\ n \notin Forgiven(z) /\ now # None
      BY <1>0, <1>1, <1>3 DEF Edits
    <2>2. now = cur.pre[z]
      BY <1>3, <2>1 DEF Forgiven
    <2>3. n \notin Edits(t.project) /\ n \notin Edits(t.vault)
      BY <1>1, <2>1 DEF Careful
    <2>4. t[z] \in {t.project, t.vault} /\ (t[z] = None => None \in {t.project, t.vault})
      BY <1>1 DEF Sides
    <2>5. CASE cur.next # "recoverEntity"
      <3>1. cur.pre[z] \in {t.project, t.vault}
        BY <1>0, <1>1, <2>5 DEF Carrying, Sides
      <3> QED BY <1>3, <2>2, <2>3, <3>1
    <2>6. CASE cur.next = "recoverEntity"
      <3>1. /\ base[e] = seen.base[e] /\ seen.base[e] \in {None, t.base}
            /\ Unchanged(z)
        BY <1>0, <2>6 DEF Carrying
      <3>2. t[z] = None
        BY <1>3, <2>1, <2>2, <2>3, <2>4, <3>1 DEF Unchanged
      <3>3. base[e] # None
        BY <1>3, <2>1, <2>6, <3>2 DEF Forgiven, Recovering
      <3>4. now = t.base
        BY <2>1, <2>2, <3>1, <3>2, <3>3 DEF Unchanged
      <3>5. held \cap Edits(t.base) \subseteq Edits(t.desired)
        BY <1>1, <2>4, <3>2 DEF Careful
      <3> QED BY <1>3, <2>1, <3>4, <3>5
    <2> QED BY <2>5, <2>6
  <1>4. EditsKept'
    <2> SUFFICES ASSUME NEW n \in held'
                 PROVE  \E s \in Sides, f \in Entities : n \in Edits(doc'[s][f])
      BY DEF EditsKept, Edits
    <2>1. PICK s \in Sides, f \in Entities : n \in Edits(doc[s][f])
      BY <1>2 DEF KeepInv, Core, EditsKept
    <2>2. CASE s = z /\ f = e
      <3>1. n \in Edits(t.desired)
        BY <1>3, <2>1, <2>2
      <3> QED BY <1>1, <1>2, <3>1
    <2>3. CASE ~(s = z /\ f = e)
      BY <1>2, <2>1, <2>3
    <2> QED BY <2>2, <2>3
  <1>5. \A d, x : Keeps(d, x) => Keeps(d, x)'
    BY <1>2 DEF Keeps
  <1>6. Rooted'
    <2> SUFFICES ASSUME NEW s \in Sides, NEW f \in Entities, base[f] # None,
                        doc'[s][f] # None, doc'[s][f].rev = base[f].rev
                 PROVE  \A d, x : d = doc'[s][f] /\ x = base[f] => Keeps(d, x)'
      BY <1>0 DEF Rooted, Keeps
    <2>1. CASE s = z /\ f = e
      <3>1. Keeps(t.desired, base[e])
        BY <1>1, <1>2, <2>1 DEF Careful
      <3> QED BY <1>1, <1>2, <1>5, <2>1, <3>1
    <2>2. CASE ~(s = z /\ f = e)
      BY SMTT(60), <1>2, <1>5, <2>2 DEF KeepInv, Core, Rooted
    <2> QED BY <2>1, <2>2
  <1>7. CarefulFiles'
    <2> SUFFICES ASSUME NEW r \in txn, r.kind = "entity" PROVE Careful(r)'
      BY <1>0 DEF CarefulFiles
    <2>1. Careful(r) /\ r.of \in Entities
      BY DEF KeepInv, Core, CarefulFiles, Inv, Files, File
    <2>2. ASSUME NEW s \in Sides, doc'[s][r.of] # None, doc'[s][r.of].rev = r.desired.rev
          PROVE  \A d, x : d = doc'[s][r.of] /\ x = r.desired => Keeps(d, x)'
      <3>1. CASE s = z /\ r.of = e
        <4>1. r = t
          BY <1>1, <3>1, OneOfEach
        <4> QED BY <1>1, <1>2, <3>1, <4>1 DEF Keeps
      <3>2. CASE ~(s = z /\ r.of = e)
        BY <1>2, <1>5, <2>1, <2>2, <3>2 DEF Careful
      <3> QED BY <3>1, <3>2
    <2>3. base[r.of] # None /\ base[r.of].rev = r.desired.rev =>
             \A d, x : d = base[r.of] /\ x = r.desired => Keeps(d, x)' /\ Keeps(x, d)'
      BY <1>5, <2>1 DEF Careful
    <2>4. /\ held' \cap (Edits(r.project) \cup Edits(r.vault)) \subseteq Edits(r.desired)
          /\ None \in {r.project, r.vault} =>
                held' \cap Edits(r.base) \subseteq Edits(r.desired)
      BY <1>2, <2>1 DEF Careful
    <2> QED BY SMTT(60), <1>0, <2>2, <2>3, <2>4 DEF Careful, Keeps, Edits
  <1>8. Keeping'
    <2>1. /\ pc' \in {"write", "commit", "verify"}
          /\ cur' = cur \/ cur' = [cur EXCEPT !.side = "vault"]
      BY <1>0 DEF Written, NextSide
    <2>2. /\ Alike(cur'.t, cur.t) /\ cur'.next = cur.next /\ cur'.body = cur.body
          /\ cur'.pre = cur.pre
      BY <1>0, <2>1, CurSame
    <2>3. pc \in Writing /\ pc' \in Writing
      BY <1>0, <2>1 DEF Writing
    <2>4. \A s \in Sides, f \in Entities :
             doc'[s][f] = doc[s][f] \/ (f = cur.t.of /\ doc'[s][f] = cur.body)
      BY <1>1, <1>2
    <2> HIDE DEF z, e, t, now
    <2> QED BY <1>0, <1>2, <2>1, <2>2, <2>3, <2>4, CarryingMove
  <1> QED BY <1>4, <1>6, <1>7, <1>8 DEF KeepInv, Core
LEMMA VerifyKeep == ASSUME Inv, KeepInv, Verify PROVE KeepInv'
  <1>0. pc = "verify" /\ UNCHANGED <<doc, base, held>> /\ WritingOK
    BY DEF Verify, people, Inv, Engaged, Writing
  <1>1. CASE Fail /\ UNCHANGED txn
    BY <1>0, <1>1, FailKeep DEF Writing
  <1>2. CASE /\ LET n == [cur.t EXCEPT !.stage = After(@)]
                IN /\ txn' = (txn \ {cur.t}) \cup {n}
                   /\ cur' = [cur EXCEPT !.t = n, !.side = "vault"]
             /\ pc' \in {"write", "commit"}
             /\ UNCHANGED <<op, seen, todo, note, bad, committed, report>>
    <2> DEFINE n == [cur.t EXCEPT !.stage = After(@)]
    <2>1. cur' = [cur EXCEPT !.t = n, !.side = "vault"] /\ txn' = (txn \ {cur.t}) \cup {n}
      BY <1>2
    <2>2. cur.next # "recoverEntity" /\ cur.t \in txn
      BY <1>0 DEF WritingOK
    <2>3. Alike(n, cur.t) /\ cur'.t = n /\ cur'.body = cur.body
          /\ cur'.next = cur.next /\ cur'.pre = cur.pre
      BY <1>0, <2>1, <2>2, StageKeeps
    <2> HIDE DEF n
    <2>4. Core'
      BY <1>0, <2>1, <2>2, <2>3, CoreStay DEF Alike, KeepInv
    <2>5. pc \in Writing /\ pc' \in Writing /\ pc' # "replace"
      BY <1>0, <1>2 DEF Writing
    <2>6. Keeping'
      BY <1>0, <1>2, <2>2, <2>3, <2>5, CarryingMove
    <2> QED BY <2>4, <2>6 DEF KeepInv
  <1> QED BY <1>1, <1>2 DEF Verify

\* The new merge base has every held edit of the sides at its revision.
LEMMA CommitKeep == ASSUME Inv, KeepInv, Commit PROVE KeepInv'
  <1> DEFINE e == cur.t.of
             t == cur.t
  <1>0. pc = "commit" /\ UNCHANGED <<doc, txn, held>> /\ WritingOK
    BY DEF Commit, people, Inv, Engaged, Writing
  <1>1. CASE Fail /\ UNCHANGED base
    BY <1>0, <1>1, FailKeep DEF Writing
  <1>2. CASE /\ base' = [base EXCEPT ![e] = cur.body]
             /\ pc' = IF Recovering THEN "remove" ELSE "seal"
             /\ UNCHANGED <<locals, report>>
    <2>1. /\ t \in txn /\ t.kind = "entity" /\ cur.body = t.desired /\ e \in Entities
          /\ Careful(t)
      BY <1>0 DEF WritingOK, Inv, Files, File, KeepInv, Core, CarefulFiles
    <2>2. \A f \in Entities : base'[f] = IF f = e THEN t.desired ELSE base[f]
      BY <1>2, <2>1 DEF Inv, World, Bases
    <2>3. EditsKept'
      BY <1>0 DEF KeepInv, Core, EditsKept, Edits
    <2>4. Rooted'
      <3> SUFFICES ASSUME NEW s \in Sides, NEW f \in Entities, base'[f] # None,
                          doc[s][f] # None, doc[s][f].rev = base'[f].rev
                   PROVE  Keeps(doc[s][f], base'[f])
        BY <1>0 DEF Rooted, Keeps
      <3>1. CASE f = e
        BY <2>1, <2>2, <3>1 DEF Careful
      <3>2. CASE f # e
        BY <2>2, <3>2 DEF KeepInv, Core, Rooted
      <3> QED BY <3>1, <3>2
    <2>5. CarefulFiles'
      <3> SUFFICES ASSUME NEW r \in txn, r.kind = "entity" PROVE Careful(r)'
        BY <1>0 DEF CarefulFiles
      <3>1. Careful(r) /\ r.of \in Entities
        BY DEF KeepInv, Core, CarefulFiles, Inv, Files, File
      <3>2. base'[r.of] # None /\ base'[r.of].rev = r.desired.rev =>
               Keeps(base'[r.of], r.desired) /\ Keeps(r.desired, base'[r.of])
        <4>1. CASE r.of = e
          <5>1. r = t
            BY <2>1, <4>1, OneOfEach
          <5> QED BY <2>1, <2>2, <5>1 DEF Keeps
        <4>2. CASE r.of # e
          BY <2>2, <3>1, <4>2 DEF Careful
        <4> QED BY <4>1, <4>2
      <3> QED BY <1>0, <3>1, <3>2 DEF Careful, Keeps, Edits
    <2>6. Keeping'
      <3>1. UNCHANGED <<seen, todo, note, bad, cur>>
        BY <1>2 DEF locals
      <3>2. pc \in Writing /\ pc' \in Writing /\ pc' # "replace"
            /\ (cur.next = "recoverEntity" => pc' = "remove")
        BY <1>0, <1>2 DEF Writing, Recovering
      <3>3. /\ Alike(cur'.t, cur.t) /\ cur'.next = cur.next /\ cur'.body = cur.body
            /\ cur'.pre = cur.pre
        BY <3>1 DEF Alike
      <3>4. \A f \in Entities : base'[f] = base[f] \/ (f = cur.t.of /\ base'[f] = cur.body)
        BY <2>1, <2>2
      <3> QED BY <1>0, <3>1, <3>2, <3>3, <3>4, CarryingMove
    <2> QED BY <2>3, <2>4, <2>5, <2>6 DEF KeepInv, Core
  <1> QED BY <1>1, <1>2 DEF Commit

LEMMA SealKeep == ASSUME Inv, KeepInv, Seal PROVE KeepInv'
  <1> DEFINE n == [cur.t EXCEPT !.stage = After(@)]
  <1>0. /\ pc = "seal" /\ pc' = "remove" /\ Advance /\ WritingOK
        /\ UNCHANGED <<doc, base, seen, todo, note, bad, held>>
    BY DEF Seal, people, Inv, Engaged, Writing
  <1>1. cur' = [cur EXCEPT !.t = n] /\ txn' = (txn \ {cur.t}) \cup {n}
    BY <1>0 DEF Advance
  <1>2. cur.next # "recoverEntity" /\ cur.t \in txn
    BY <1>0 DEF WritingOK
  <1>3. Alike(n, cur.t) /\ cur'.t = n /\ cur'.body = cur.body
        /\ cur'.next = cur.next /\ cur'.pre = cur.pre
    BY <1>0, <1>1, <1>2, StageKeeps
  <1> HIDE DEF n
  <1>4. Core'
    BY <1>0, <1>1, <1>2, <1>3, CoreStay DEF Alike, KeepInv
  <1>5. pc \in Writing /\ pc' \in Writing
    BY <1>0 DEF Writing
  <1>6. Keeping'
    BY <1>0, <1>2, <1>3, <1>5, CarryingMove
  <1> QED BY <1>4, <1>6 DEF KeepInv

\* No side is ahead of the merge base that was just committed.
LEMMA RemoveKeep == ASSUME Inv, KeepInv, Remove PROVE KeepInv'
  <1> DEFINE e == cur.t.of
  <1>0. /\ pc = "remove" /\ txn' \subseteq txn /\ WritingOK /\ Carrying
        /\ UNCHANGED <<doc, base, seen, todo, note, bad, held>>
    BY DEF Remove, people, Inv, Engaged, Writing, KeepInv, Keeping
  <1>1. Core'
    BY <1>0, CoreSame DEF KeepInv
  <1>2. cur.next \in {"entity", "note"} => Level(e)
    BY <1>0 DEF WritingOK, Carrying, Level, Sides
  <1>3. CASE cur.next = "note"
    <2>1. cur' = note /\ pc' = "hidden"
      BY <1>3 DEF Remove
    <2>2. Noted /\ cur.t \in txn /\ cur.t.kind = "entity" /\ note.t \in txn
          /\ note.t.kind = "resolve" /\ note.next \in {"done", "align"}
      BY <1>0, <1>3 DEF WritingOK, Noted
    <2>3. note.t.of.entity = e
      BY <2>2 DEF Inv, Files, Decides
    <2>4. note.next = "align" => \A f \in Entities : Level(f)
      BY <1>0, <1>2, <1>3, <2>3 DEF Carrying, Alone
    <2>5. note.next = "align" => \A f \in Entities : Level(f)'
      BY <1>0, <2>4, LevelStay
    <2>6. Keeping'
      BY <2>1, <2>2, <2>5 DEF Keeping, Writing, Hiding, Entities
    <2> QED BY <1>1, <2>6 DEF KeepInv
  <1>4. CASE cur.next = "entity"
    <2>1. pc' = "entity"
      BY <1>4 DEF Remove
    <2>2. Merged(Entities \ (Rest \cup {e})) /\ Level(e)
      BY <1>0, <1>2, <1>4 DEF Carrying
    <2>3. Merged(Entities \ Rest)
      BY <2>2 DEF Merged
    <2>4. Rest' = Rest
      BY <1>0 DEF Rest
    <2>5. \A f \in Rest' : Merging(f)'
      BY <1>0, <2>3, <2>4, MergingStay DEF Merged
    <2>6. bad' \/ \A f \in Entities \ Rest' : Level(f)'
      BY <1>0, <2>3, <2>4, LevelStay DEF Merged
    <2>7. Merged(Entities \ Rest)'
      BY <2>5, <2>6 DEF Merged, Entities
    <2>8. Keeping'
      BY <2>1, <2>7 DEF Keeping, Writing, Hiding
    <2> QED BY <1>1, <2>8 DEF KeepInv
  <1>5. CASE cur.next \in {"publish", "recoverEntity"}
    <2>1. pc' \in {"publish", "recoverEntity"}
      BY <1>5 DEF Remove
    <2> QED BY <1>1, <2>1, KeepingPlain DEF KeepInv
  <1> QED BY <1>0, <1>3, <1>4, <1>5 DEF WritingOK

-----------------------------------------------------------------------------
(* The hidden files, the other steps, and the theorem.                     *)

\* What is known of the documents outlasts the writing of a hidden file.
LEMMA HidingStay ==
    ASSUME Inv, KeepInv, pc \in Hiding, UNCHANGED <<doc, base, seen, todo, bad, held>>,
           \/ pc' \in Hiding /\ cur'.next = cur.next
           \/ pc' = cur.next
    PROVE  Keeping'
  <1>0. HidingOK /\ cur.next \in {"recover", "entity", "done", "align"}
    BY DEF Inv, Engaged, HidingOK
  <1>1. Rest' = Rest
    BY DEF Rest
  <1>2. cur.next = "entity" => Merged(Entities \ Rest)'
    <2> SUFFICES ASSUME cur.next = "entity" PROVE Merged(Entities \ Rest)'
      OBVIOUS
    <2>1. Merged(Entities \ Rest)
      BY DEF KeepInv, Keeping
    <2>2. \A f \in Rest' : Merging(f)'
      BY <1>1, <2>1, MergingStay DEF Merged
    <2>3. bad' \/ \A f \in Entities \ Rest' : Level(f)'
      BY <1>1, <2>1, LevelStay DEF Merged
    <2> QED BY <2>2, <2>3 DEF Merged, Entities
  <1>3. cur.next = "align" => \A f \in Entities : Level(f)'
    BY LevelStay DEF KeepInv, Keeping
  <1> QED BY <1>0, <1>2, <1>3 DEF Keeping, Writing, Hiding, Entities

LEMMA HiddenKeep ==
    ASSUME Inv, KeepInv, HiddenWrite \/ HiddenStage \/ HiddenVerify
    PROVE  KeepInv'
  <1>0. /\ pc \in Hiding /\ HidingOK /\ cur.t \in txn /\ cur.t.kind # "entity"
        /\ UNCHANGED <<doc, base, held>>
    BY DEF HiddenWrite, HiddenStage, HiddenVerify, Hiding, people, Inv, Engaged, HidingOK
  <1>1. CASE Fail /\ txn' \subseteq txn
    BY <1>0, <1>1, FailKeep
  <1>2. CASE pc' \in Hiding /\ Advance /\ UNCHANGED <<seen, todo, bad>>
    <2> DEFINE n == [cur.t EXCEPT !.stage = After(@)]
    <2>1. txn' = (txn \ {cur.t}) \cup {n} /\ cur' = [cur EXCEPT !.t = n]
      BY <1>2 DEF Advance
    <2>2. /\ cur = [t |-> cur.t, body |-> cur.body, next |-> cur.next, pre |-> cur.pre]
          /\ File(cur.t)
      BY <1>0 DEF HidingOK, Inv, Files
    <2>3. n.kind = cur.t.kind
      <3>1. cur.t = [kind |-> cur.t.kind, of |-> cur.t.of, desired |-> cur.t.desired,
                     base |-> cur.t.base, project |-> cur.t.project,
                     vault |-> cur.t.vault, stage |-> cur.t.stage]
        BY <2>2 DEF File
      <3> QED BY <3>1
    <2> HIDE DEF n
    <2>4. cur'.next = cur.next
      BY <2>1, <2>2
    <2>5. Core'
      BY <1>0, <2>1, <2>3, CoreHidden DEF KeepInv
    <2> QED BY <1>0, <1>2, <2>4, <2>5, HidingStay DEF KeepInv
  <1>3. CASE /\ txn' \subseteq txn /\ UNCHANGED <<seen, todo, bad>>
             /\ \/ pc' \in Hiding /\ cur' = cur
                \/ pc' = cur.next
    BY <1>0, <1>3, HidingStay, CoreSame DEF KeepInv
  <1>4. CASE HiddenWrite
    <2>1. txn' \subseteq txn
      BY <1>4 DEF HiddenWrite
    <2>2. Fail \/ (pc' \in Hiding /\ UNCHANGED <<seen, todo, bad, cur>>)
      BY <1>4 DEF HiddenWrite, locals, Hiding
    <2> QED BY <1>1, <1>3, <2>1, <2>2
  <1>5. CASE HiddenStage
    <2>1. \/ Fail /\ txn' \subseteq txn
          \/ pc' \in Hiding /\ Advance /\ UNCHANGED <<seen, todo, bad>>
      BY <1>5 DEF HiddenStage, Hiding
    <2> QED BY <1>1, <1>2, <2>1
  <1>6. CASE HiddenVerify
    <2>1. \/ Fail /\ txn' \subseteq txn
          \/ pc' \in Hiding /\ Advance /\ UNCHANGED <<seen, todo, bad>>
          \/ txn' \subseteq txn /\ pc' = cur.next /\ UNCHANGED <<seen, todo, bad>>
      BY <1>6 DEF HiddenVerify, Hiding
    <2> QED BY <1>1, <1>2, <1>3, <2>1
  <1> QED BY <1>4, <1>5, <1>6

LEMMA FaultsKeep == ASSUME Inv, KeepInv, Crash \/ WriteFails PROVE KeepInv'
  <1>1. UNCHANGED <<doc, base, held, txn>>
    BY DEF Crash, WriteFails, world
  <1>2. CASE Crash
    BY <1>1, <1>2, AbortKeep DEF Crash
  <1>3. CASE WriteFails
    BY <1>1, <1>3, FailKeep DEF WriteFails, Writing, Hiding
  <1> QED BY <1>2, <1>3

LEMMA KeepStep ==
    ASSUME Inv, KeepInv, [Next]_vars, {"replace", "create", "align"} \cap Counted = {}
    PROVE  KeepInv'
  <1>1. CASE UNCHANGED vars
    <2>1. UNCHANGED <<doc, base, txn, pc, locals, held>>
      BY <1>1 DEF vars, world, people
    <2> QED BY <2>1, StillKeep
  <1>2. CASE Reconcile \/ Resolve \/ RepairMachineLedger
    <2>1. PICK o : Begin(o)
      BY <1>2 DEF Reconcile, Resolve, RepairMachineLedger
    <2> QED BY <2>1, PlainKeep DEF Begin, world
  <1>3. CASE People \/ Crash \/ WriteFails
    BY <1>3, PeopleKeep, FaultsKeep
  <1>4. CASE Authenticate
    BY <1>4, AbortKeep, PlainKeep DEF Authenticate, world, people
  <1>5. CASE Finish
    BY <1>5, PlainKeep DEF Finish, Reset, world, people
  <1>6. CASE Recover \/ RecoverEntity \/ Snapshot \/ Scan \/ Entity \/ EndEntities
    BY <1>6, RecoverKeep, RecoverEntityKeep, SnapshotKeep, ScanKeep, EntityKeep,
       EndEntitiesKeep
  <1>7. CASE Align \/ Publish \/ Choose \/ ResolveDocument
    BY <1>7, AlignKeep, PublishKeep, ChooseKeep, ResolveDocumentKeep
  <1>8. CASE Write \/ Replace \/ Verify \/ Commit \/ Seal \/ Remove
    BY <1>8, WriteKeep, ReplaceKeep, VerifyKeep, CommitKeep, SealKeep, RemoveKeep
  <1>9. CASE HiddenWrite \/ HiddenStage \/ HiddenVerify
    BY <1>9, HiddenKeep
  <1> QED BY <1>1, <1>2, <1>3, <1>4, <1>5, <1>6, <1>7, <1>8, <1>9 DEF Next, Engine

\* An edit that nobody replaced, deleted or decided against is in the project
\* or in the vault, whatever the engine, the crashes and other saves do, but for
\* the losses that Counted leaves out (a save between the comparison and the
\* rename, a document created during a recovery, a vault document that is
\* aligned over): a text is written only over one that its plan saw, and it has
\* every edit of what its plan saw.
THEOREM EditsAlwaysKept ==
    ASSUME {"replace", "create", "align"} \cap Counted = {}
    PROVE  Spec => []EditsKept
  <1>1. Init => KeepInv
    <2> SUFFICES ASSUME Init PROVE KeepInv
      OBVIOUS
    <2>1. /\ held = {} /\ txn = {} /\ pc = "idle" /\ \A e \in Entities : base[e] = None
      BY DEF Init
    <2> QED BY <2>1 DEF KeepInv, Core, EditsKept, Rooted, CarefulFiles, Keeping,
               Writing, Hiding
  <1>2. Inv /\ KeepInv /\ [Next]_vars => KeepInv'
    BY KeepStep
  <1>3. KeepInv => EditsKept
    BY DEF KeepInv, Core
  <1> QED BY <1>1, <1>2, <1>3, AlwaysInv, PTL DEF Spec
-----------------------------------------------------------------------------
(* The sync as AtomicSync sees it.                                         *)

\* The conflict records of the project, which gets each before the vault does.
Kept == DOMAIN hidden["project"] \ {Ledger}

ProjectFirst ==
    /\ DOMAIN hidden["vault"] \ {Ledger} \subseteq Kept
    /\ \A id \in Kept : hidden["project"][id] # None

\* Between the announcement of a change and the end of its file the merge base
\* is the text it was or the text it becomes, and one decision has the sync.
Fitting(t) ==
    /\ t.kind = "entity" => base[t.of] \in {t.base, t.desired}
    /\ t.kind = "record" => /\ t.project \in {None, OpenNote}
                            /\ t.stage # "planned" => t.of \in Kept
    /\ t.kind = "resolve" => /\ t.of \in Kept
                             /\ \A r \in txn : r.kind = "resolve" => r = t

Fit == ProjectFirst /\ \A t \in txn : Fitting(t)

\* A record that is still to be written is about the present merge base.
Opening(id) == /\ base[id.entity] = id.base
               /\ \A f \in txn : f.kind = "entity" => f.of # id.entity

Noting == note.pre["project"] = OpenNote

Holding ==
    /\ pc \in Hiding /\ cur.t.kind = "resolve" =>
          cur.pre["project"] = OpenNote /\ \A f \in txn : f.kind # "entity"
    /\ pc \in Hiding /\ cur.t.kind = "record" =>
          /\ cur.pre["project"] \in {None, OpenNote}
          /\ cur.t.of \notin Kept => cur.next = "entity" /\ Opening(cur.t.of)
    /\ pc = "resolve" \/ (pc \in Writing /\ cur.next = "note") => Noting

PactInv == Fit /\ Holding

Step == Agreement!Next \/ UNCHANGED <<base, Plans, Records, Decisions>>

PlanOf(t) == [of |-> t.of, from |-> t.base, to |-> t.desired]
DecisionOf(t) == [id |-> t.of, text |-> t.desired.accepted]

LEMMA PlansAre ==
    /\ \A p : p \in Plans <=> \E t \in txn : t.kind = "entity" /\ p = PlanOf(t)
    /\ \A d : d \in Decisions <=> \E t \in txn : t.kind = "resolve" /\ d = DecisionOf(t)
  BY DEF Plans, Decisions, Pending, PlanOf, DecisionOf

LEMMA PlansAreNext ==
    /\ \A p : p \in Plans' <=> \E t \in txn' : t.kind = "entity" /\ p = PlanOf(t)
    /\ \A d : d \in Decisions' <=> \E t \in txn' : t.kind = "resolve" /\ d = DecisionOf(t)
  BY DEF Plans, Decisions, Pending, PlanOf, DecisionOf

\* Files of other kinds come, go and change without being seen.
LEMMA PlansSame ==
    ASSUME \A t \in txn : t.kind \in {"entity", "resolve"} =>
              \E n \in txn' : n.kind = t.kind /\ PlanOf(n) = PlanOf(t),
           \A n \in txn' : n.kind \in {"entity", "resolve"} =>
              \E t \in txn : n.kind = t.kind /\ PlanOf(n) = PlanOf(t)
    PROVE  Plans' = Plans /\ Decisions' = Decisions
  <1>1. \A t, n : PlanOf(n) = PlanOf(t) => DecisionOf(n) = DecisionOf(t)
    BY DEF PlanOf, DecisionOf
  <1>2. \A p : p \in Plans' <=> p \in Plans
    BY PlansAre, PlansAreNext
  <1>3. \A d : d \in Decisions' <=> d \in Decisions
    BY <1>1, PlansAre, PlansAreNext
  <1> QED BY <1>2, <1>3

LEMMA FitStay ==
    ASSUME Fit, UNCHANGED <<base, hidden>>, txn' \subseteq txn
    PROVE  Fit'
  BY DEF Fit, Fitting, ProjectFirst, Kept

LEMMA FitAdd ==
    ASSUME Fit, UNCHANGED <<base, hidden>>, NEW t, txn' = txn \cup {t},
           t.kind = "entity" => t.base = base[t.of],
           t.kind = "record" => t.project \in {None, OpenNote} /\ t.stage = "planned",
           t.kind = "resolve" => t.of \in Kept /\ \A r \in txn : r.kind # "resolve"
    PROVE  Fit'
  <1>1. ProjectFirst' /\ Kept' = Kept
    BY DEF Fit, ProjectFirst, Kept
  <1>2. ASSUME NEW f \in txn' PROVE Fitting(f)'
    BY <1>1, <1>2 DEF Fit, Fitting
  <1> QED BY <1>1, <1>2 DEF Fit

LEMMA FitAdvance ==
    ASSUME Fit, UNCHANGED <<base, hidden>>, NEW t \in txn, NEW n,
           txn' = (txn \ {t}) \cup {n}, n.kind = t.kind, PlanOf(n) = PlanOf(t),
           n.project = t.project, n.kind = "record" => n.of \in Kept
    PROVE  Fit'
  <1>1. ProjectFirst' /\ Kept' = Kept
    BY DEF Fit, ProjectFirst, Kept
  <1>2. n.of = t.of /\ n.base = t.base /\ n.desired = t.desired
    BY DEF PlanOf
  <1>3. Fitting(t)
    BY DEF Fit
  <1>4. ASSUME NEW f \in txn', f # n PROVE Fitting(f)'
    <2>1. f \in txn /\ f # t /\ Fitting(f)
      BY <1>4 DEF Fit
    <2>2. f.kind = "resolve" => \A r \in txn' : r.kind = "resolve" => r = f
      BY <1>4, <2>1 DEF Fitting
    <2> QED BY <1>1, <2>1, <2>2 DEF Fitting
  <1>5. Fitting(n)'
    <2>1. n.kind = "resolve" => \A r \in txn' : r.kind = "resolve" => r = n
      BY <1>3 DEF Fitting
    <2> QED BY <1>1, <1>2, <1>3, <2>1 DEF Fitting
  <1> QED BY <1>1, <1>4, <1>5 DEF Fit

LEMMA RecordsSame == ASSUME hidden' = hidden PROVE Records' = Records /\ Kept' = Kept
  BY DEF Records, Kept

LEMMA HoldPlain ==
    ASSUME pc' \notin Hiding,
           pc' = "resolve" \/ (pc' \in Writing /\ cur'.next = "note") => Noting'
    PROVE  Holding'
  BY DEF Holding

LEMMA PlainPact ==
    ASSUME PactInv, UNCHANGED <<base, hidden, txn>>, pc' \notin Hiding,
           pc' = "resolve" \/ (pc' \in Writing /\ cur'.next = "note") => Noting'
    PROVE  PactInv' /\ Step
  <1>1. Plans' = Plans /\ Decisions' = Decisions
    BY PlansSame
  <1> QED BY <1>1, FitStay, HoldPlain, RecordsSame DEF PactInv, Step

LEMMA AbortPact ==
    ASSUME PactInv, UNCHANGED <<base, hidden, txn>>, Abort
    PROVE  PactInv' /\ Step
  BY PlainPact DEF Abort, Reset, Hiding, Writing

LEMMA FailPact ==
    ASSUME PactInv, UNCHANGED <<base, hidden, txn>>, Fail
    PROVE  PactInv' /\ Step
  BY AbortPact, PlainPact DEF Fail, Hiding, Writing

\* A transaction file of another kind is added, or a file of any kind is gone.
LEMMA AddSame ==
    ASSUME NEW t, txn' = txn \cup {t}, t.kind \notin {"entity", "resolve"}
    PROVE  Plans' = Plans /\ Decisions' = Decisions
  BY PlansSame

LEMMA DropStep ==
    ASSUME Inv, NEW t \in txn, txn' = txn \ {t}, UNCHANGED <<base, hidden>>,
           t.kind = "resolve" => \A f \in txn : f.kind # "entity"
    PROVE  Step
  <1>1. Records' = Records
    BY RecordsSame
  <1>2. CASE t.kind = "entity"
    <2>1. PlanOf(t) \in Plans
      BY <1>2, PlansAre
    <2>2. \A f \in txn : f.kind = "entity" /\ f # t => PlanOf(f) # PlanOf(t)
      BY <1>2, OneOfEach DEF PlanOf
    <2>3. Plans' = Plans \ {PlanOf(t)}
      <3>1. \A p : p \in Plans' <=> p \in Plans /\ p # PlanOf(t)
        BY <2>2, PlansAre, PlansAreNext
      <3> QED BY <3>1
    <2>4. Decisions' = Decisions
      <3>1. \A d : d \in Decisions' <=> d \in Decisions
        BY <1>2, PlansAre, PlansAreNext
      <3> QED BY <3>1
    <2>5. Agreement!Forget(PlanOf(t))
      BY <1>1, <2>3, <2>4 DEF Agreement!Forget
    <2> QED BY <2>1, <2>5 DEF Step, Agreement!Next
  <1>3. CASE t.kind = "resolve"
    <2>1. DecisionOf(t) \in Decisions
      BY <1>3, PlansAre
    <2>2. \A f \in txn : f.kind = "resolve" /\ f # t => DecisionOf(f) # DecisionOf(t)
      BY <1>3, OneOfEach DEF DecisionOf
    <2>3. Decisions' = Decisions \ {DecisionOf(t)}
      <3>1. \A p : p \in Decisions' <=> p \in Decisions /\ p # DecisionOf(t)
        BY <2>2, PlansAre, PlansAreNext
      <3> QED BY <3>1
    <2>4. Plans = {} /\ Plans' = Plans
      <3>1. \A p : p \notin Plans /\ p \notin Plans'
        BY <1>3, PlansAre, PlansAreNext
      <3> QED BY <3>1
    <2>5. Agreement!End(DecisionOf(t))
      BY <1>1, <2>3, <2>4 DEF Agreement!End
    <2> QED BY <2>1, <2>5 DEF Step, Agreement!Next
  <1>4. CASE t.kind \notin {"entity", "resolve"}
    <2>1. Plans' = Plans /\ Decisions' = Decisions
      BY <1>4, PlansSame
    <2> QED BY <1>1, <2>1 DEF Step
  <1> QED BY <1>2, <1>3, <1>4

LEMMA DropPact ==
    ASSUME Inv, PactInv, NEW t \in txn, txn' = txn \ {t}, UNCHANGED <<base, hidden>>,
           t.kind = "resolve" => \A f \in txn : f.kind # "entity",
           Holding'
    PROVE  PactInv' /\ Step
  BY DropStep, FitStay DEF PactInv

LEMMA AdvancePact ==
    ASSUME PactInv, UNCHANGED <<base, hidden>>, NEW n, cur.t \in txn,
           txn' = (txn \ {cur.t}) \cup {n}, n.kind = cur.t.kind, PlanOf(n) = PlanOf(cur.t),
           n.project = cur.t.project, n.kind = "record" => n.of \in Kept, Holding'
    PROVE  PactInv' /\ Step
  <1>1. Plans' = Plans /\ Decisions' = Decisions
    BY PlansSame
  <1> QED BY <1>1, FitAdvance, RecordsSame DEF PactInv, Step

LEMMA AddPact ==
    ASSUME PactInv, UNCHANGED <<base, hidden>>, NEW t, txn' = txn \cup {t},
           t.kind \in {"record", "publish", "repair"},
           t.kind = "record" => t.project \in {None, OpenNote} /\ t.stage = "planned",
           Holding'
    PROVE  PactInv' /\ Step
  <1>1. Plans' = Plans /\ Decisions' = Decisions
    BY AddSame
  <1> QED BY <1>1, FitAdd, RecordsSame DEF PactInv, Step

\* The texts written so far are documents; an absent file is no open record.
LEMMA DocsNext == ASSUME Inv' PROVE Texts' \subseteq Docs
  <1>1. saves' \in 0 .. MaxSaves /\ MaxSaves \in Nat
    BY Distinct DEF Inv, World
  <1> SUFFICES ASSUME NEW d \in [units : [Units -> 0 .. saves'], rev : Nat \ {0}]
               PROVE  d \in Docs
    BY DEF Texts
  <1>2. /\ d = [units |-> d.units, rev |-> d.rev] /\ d.rev \in Nat \ {0}
        /\ d.units \in [Units -> 0 .. saves']
    OBVIOUS
  <1>3. d.units \in [Units -> 0 .. MaxSaves]
    BY <1>1, <1>2
  <1> QED BY <1>2, <1>3 DEF Docs

LEMMA NoneIsNot ==
    /\ None # OpenNote
    /\ Inv => \A body : Close(body) => None # body /\ OpenNote # body
  <1> DEFINE texts == [units : [Units -> Nat], rev : Nat \ {0}]
             some == texts \cup {None}
  <1>1. None \notin [accepted : some]
    BY SyncAssumption
  <1>2. OpenNote \in [accepted : some]
    BY DEF OpenNote
  <1>3. ASSUME Inv, NEW body, Close(body) PROVE None # body /\ OpenNote # body
    <2>1. body = [accepted |-> body.accepted] /\ body.accepted \in Texts
      BY <1>3 DEF Close
    <2>2. saves \in Nat /\ None \notin Texts
      BY <1>3, Worldly DEF Inv
    <2>3. 0 .. saves \subseteq Nat
      BY <2>2
    <2>4. Texts \subseteq texts
      <3> SUFFICES ASSUME NEW d \in Texts PROVE d \in texts
        OBVIOUS
      <3>1. /\ d = [units |-> d.units, rev |-> d.rev] /\ d.rev \in Nat \ {0}
            /\ d.units \in [Units -> 0 .. saves]
        BY DEF Texts
      <3>2. d.units \in [Units -> Nat]
        BY <2>3, <3>1
      <3> QED BY <3>1, <3>2
    <2> HIDE DEF texts
    <2>5. body.accepted \in some
      BY <2>1, <2>4
    <2>6. body \in [accepted : some]
      BY <2>1, <2>5
    <2>7. OpenNote.accepted = None
      BY DEF OpenNote
    <2> QED BY <1>1, <2>1, <2>2, <2>6, <2>7
  <1> QED BY <1>1, <1>2, <1>3

\* A change of the merge base is announced.
LEMMA PlanPact ==
    ASSUME Inv', PactInv, UNCHANGED <<base, hidden>>,
           NEW e, NEW body, NEW p, NEW v, NEW next, Plan(e, body, p, v, next),
           \A r \in txn : r.kind = "entity" => r.of # e,
           \A r \in txn : r.kind = "resolve" => e = r.of.entity /\ body = r.desired.accepted,
           next = "note" => Noting'
    PROVE  PactInv' /\ Step
  <1> DEFINE t == Transaction("entity", e, body, base[e], p, v)
  <1>1. /\ t.kind = "entity" /\ t.of = e /\ t.base = base[e] /\ t.desired = body
        /\ PlanOf(t) = [of |-> e, from |-> base[e], to |-> body]
    BY DEF Transaction, PlanOf
  <1>2. txn' = txn \cup {t} /\ pc' = "write" /\ cur'.next = next
    BY DEF Plan
  <1> HIDE DEF t
  <1>3. Fit'
    BY <1>1, <1>2, FitAdd DEF PactInv
  <1>4. Holding'
    BY <1>2, HoldPlain DEF Hiding
  <1>5. body \in Docs
    <2>1. \A f \in txn' : f.kind = "entity" => f.desired \in Texts'
      BY DEF Inv, Files, File
    <2>2. body \in Texts'
      BY <1>1, <1>2, <2>1
    <2> QED BY <2>2, DocsNext
  <1>6. Plans' = Plans \cup {PlanOf(t)}
    <2>1. \A q : q \in Plans' <=> q \in Plans \/ q = PlanOf(t)
      BY <1>1, <1>2, PlansAre, PlansAreNext
    <2> QED BY <2>1
  <1>7. Decisions' = Decisions
    <2>1. \A d : d \in Decisions' <=> d \in Decisions
      BY <1>1, <1>2, PlansAre, PlansAreNext
    <2> QED BY <2>1
  <1>8. \A q \in Plans : q.of # e
    BY PlansAre DEF PlanOf
  <1>9. \A d \in Decisions : e = d.id.entity /\ body = d.text
    BY PlansAre DEF DecisionOf
  <1>10. Agreement!Announce(PlanOf(t))
    BY <1>1, <1>5, <1>6, <1>7, <1>8, <1>9, RecordsSame DEF Agreement!Announce
  <1> QED BY <1>3, <1>4, <1>6, <1>10 DEF PactInv, Step, Agreement!Next

\* Nothing moves but the engine, or a hidden file that is no conflict record.
LEMMA StillPact ==
    ASSUME PactInv, UNCHANGED <<base, txn>>, Kept' = Kept,
           \A id \in Kept : hidden'["project"][id] = hidden["project"][id],
           DOMAIN hidden'["vault"] \ {Ledger} \subseteq Kept, Holding'
    PROVE  PactInv' /\ Step
  <1>1. Fit'
    <2>1. ProjectFirst'
      BY DEF PactInv, Fit, ProjectFirst
    <2>2. ASSUME NEW t \in txn PROVE Fitting(t)'
      BY DEF PactInv, Fit, Fitting
    <2> QED BY <2>1, <2>2 DEF Fit
  <1>2. Records' = Records
    BY DEF Records, Kept
  <1>3. Plans' = Plans /\ Decisions' = Decisions
    BY PlansSame
  <1> QED BY <1>1, <1>2, <1>3 DEF PactInv, Step

LEMMA SettledPact ==
    ASSUME PactInv, UNCHANGED <<base, hidden, txn>>, Holding'
    PROVE  PactInv' /\ Step
  BY StillPact DEF Kept, PactInv, Fit, ProjectFirst

LEMMA HoldSame ==
    ASSUME Holding, UNCHANGED <<base, txn, cur, note>>, Kept \subseteq Kept',
           pc' = pc \/ (pc \in Hiding /\ pc' \in Hiding)
    PROVE  Holding'
  <1>1. \A id : Opening(id)' <=> Opening(id)
    BY DEF Opening
  <1>2. Noting' <=> Noting
    BY DEF Noting
  <1>3. pc' \in Hiding <=> pc \in Hiding
    OBVIOUS
  <1>4. pc' = "resolve" \/ pc' \in Writing <=> pc = "resolve" \/ pc \in Writing
    BY DEF Hiding, Writing
  <1>5. pc' = "resolve" <=> pc = "resolve"
    BY DEF Hiding
  <1>6. pc' \in Writing <=> pc \in Writing
    BY DEF Hiding, Writing
  <1> QED BY <1>1, <1>2, <1>3, <1>5, <1>6 DEF Holding

LEMMA StutterPact == ASSUME PactInv, UNCHANGED vars PROVE PactInv' /\ Step
  <1>1. UNCHANGED <<base, hidden, txn, cur, note, pc>>
    BY DEF vars, world, locals
  <1>2. Kept' = Kept
    BY <1>1 DEF Kept
  <1> QED BY <1>1, <1>2, HoldSame, SettledPact DEF PactInv

LEMMA PeoplePact == ASSUME Inv, PactInv, People PROVE PactInv' /\ Step
  <1>1. UNCHANGED <<base, txn, cur, note, pc>>
    <2>1. ASSUME NEW s, NEW e, NEW d, NEW dropped, Save(s, e, d, dropped)
          PROVE  UNCHANGED <<base, txn, cur, note, pc>>
      BY <2>1 DEF Save, locals
    <2>2. ASSUME NEW s \in Sides, NEW e \in Entities, Delete(s, e)
          PROVE  UNCHANGED <<base, txn, cur, note, pc>>
      BY <2>1, <2>2 DEF Delete
    <2>3. ASSUME NEW s \in Sides, NEW e \in Entities, NEW u \in Units, Edit(s, e, u)
          PROVE  UNCHANGED <<base, txn, cur, note, pc>>
      BY <2>1, <2>3 DEF Edit
    <2>4. ASSUME NEW s \in Sides, NEW e \in Entities, NEW u \in Units, Recreate(s, e, u)
          PROVE  UNCHANGED <<base, txn, cur, note, pc>>
      BY <2>1, <2>4 DEF Recreate
    <2>5. CASE TamperLedger
      BY <2>5 DEF TamperLedger, locals
    <2> QED BY <2>2, <2>3, <2>4, <2>5 DEF People
  <1>2. CASE UNCHANGED hidden
    <2>1. Kept' = Kept
      BY <1>2 DEF Kept
    <2> QED BY <1>1, <1>2, <2>1, HoldSame, SettledPact DEF PactInv
  <1>3. CASE TamperLedger
    <2>1. Put("vault", Ledger, Tampered) /\ "vault" \in Sides /\ "project" \in Sides
      BY <1>3 DEF TamperLedger, Sides
    <2>2. /\ DOMAIN hidden'["project"] = DOMAIN hidden["project"]
          /\ DOMAIN hidden'["vault"] = DOMAIN hidden["vault"] \cup {Ledger}
          /\ \A g : At("project", g)' = At("project", g)
      <3>1. /\ \A s \in Sides : DOMAIN hidden'[s] = IF s = "vault"
                                                  THEN DOMAIN hidden[s] \cup {Ledger}
                                                  ELSE DOMAIN hidden[s]
            /\ \A s \in Sides : \A g : At(s, g)' =
                  IF s = "vault" /\ g = Ledger THEN Tampered ELSE At(s, g)
        BY <2>1, PutAt DEF Inv
      <3> QED BY <2>1, <3>1
    <2>3. Kept' = Kept
      BY <2>2 DEF Kept
    <2>4. \A id \in Kept : hidden'["project"][id] = hidden["project"][id]
      BY <2>2 DEF Kept, At
    <2>5. DOMAIN hidden'["vault"] \ {Ledger} \subseteq Kept
      BY <2>2 DEF PactInv, Fit, ProjectFirst
    <2> QED BY <1>1, <2>3, <2>4, <2>5, HoldSame, StillPact DEF PactInv
  <1> QED BY <1>2, <1>3, PeopleMove

LEMMA BeginPact == ASSUME NEW o, PactInv, Begin(o) PROVE PactInv' /\ Step
  BY PlainPact DEF Begin, world, Hiding, Writing

LEMMA AuthenticatePact == ASSUME PactInv, Authenticate PROVE PactInv' /\ Step
  <1>1. UNCHANGED <<base, hidden, txn>>
    BY DEF Authenticate, world
  <1>2. Abort \/ pc' = "recover"
    BY DEF Authenticate
  <1> QED BY <1>1, <1>2, AbortPact, PlainPact DEF Hiding, Writing

LEMMA FinishPact == ASSUME PactInv, Finish PROVE PactInv' /\ Step
  BY PlainPact DEF Finish, Reset, world, Hiding, Writing

LEMMA ScanPact == ASSUME PactInv, Scan PROVE PactInv' /\ Step
  <1>1. UNCHANGED <<base, hidden, txn>> /\ pc' \in {"choose", "entity"}
    BY DEF Scan, world
  <1> QED BY <1>1, PlainPact DEF Hiding, Writing

LEMMA EndEntitiesPact == ASSUME PactInv, EndEntities PROVE PactInv' /\ Step
  <1>1. UNCHANGED <<base, hidden, txn>>
    BY DEF EndEntities, world
  <1>2. Abort \/ pc' = "align"
    BY DEF EndEntities
  <1> QED BY <1>1, <1>2, AbortPact, PlainPact DEF Hiding, Writing

LEMMA FaultsPact == ASSUME PactInv, Crash \/ WriteFails PROVE PactInv' /\ Step
  <1>1. UNCHANGED <<base, hidden, txn>>
    BY DEF Crash, WriteFails, world
  <1>2. Abort \/ Fail
    BY DEF Crash, WriteFails
  <1> QED BY <1>1, <1>2, AbortPact, FailPact

\* Who writes a document goes on with the same transaction to the same end.
LEMMA WritingPact ==
    ASSUME PactInv, UNCHANGED <<base, hidden, txn, note>>, pc \in Writing,
           pc' \in Writing, WritingOK, cur' = cur \/ cur' = [cur EXCEPT !.side = "vault"]
    PROVE  PactInv' /\ Step
  <1>1. cur'.next = cur.next
    BY CurSame
  <1>2. cur'.next = "note" => Noting'
    BY <1>1 DEF PactInv, Holding, Noting
  <1>3. pc' \notin Hiding /\ pc' # "resolve"
    BY DEF Writing, Hiding
  <1> QED BY <1>2, <1>3, PlainPact

LEMMA WritePact == ASSUME Inv, PactInv, Write PROVE PactInv' /\ Step
  <1>1. /\ pc = "write" /\ UNCHANGED <<base, hidden, txn>> /\ WritingOK
        /\ pc \in Writing
    BY DEF Write, world, Inv, Engaged, Writing
  <1>2. CASE Fail
    BY <1>1, <1>2, FailPact
  <1>3. CASE Written /\ UNCHANGED <<op, seen, todo, note, bad, committed, report>>
    BY <1>1, <1>3, WrittenMoves, WritingPact
  <1>4. CASE pc' = "replace" /\ UNCHANGED <<locals, report>>
    BY <1>1, <1>4, WritingPact DEF locals, Writing
  <1> QED BY <1>2, <1>3, <1>4 DEF Write

LEMMA ReplacePact == ASSUME Inv, PactInv, Replace PROVE PactInv' /\ Step
  <1>1. /\ pc = "replace" /\ UNCHANGED <<base, hidden, txn, note>> /\ WritingOK
        /\ pc \in Writing /\ Written
    BY DEF Replace, world, Inv, Engaged, Writing
  <1> QED BY <1>1, WrittenMoves, WritingPact

\* The next stage of a file is no other change of it.
LEMMA StageSame ==
    ASSUME Inv, cur.t \in txn, NEW n, n = [cur.t EXCEPT !.stage = After(@)]
    PROVE  n.kind = cur.t.kind /\ n.of = cur.t.of /\ n.project = cur.t.project
           /\ PlanOf(n) = PlanOf(cur.t)
  <1>1. File(cur.t)
    BY DEF Inv, Files
  <1> DEFINE x == After(cur.t.stage)
  <1>2. n = [cur.t EXCEPT !.stage = x]
    OBVIOUS
  <1> HIDE DEF x
  <1>3. n = [kind |-> cur.t.kind, of |-> cur.t.of, desired |-> cur.t.desired,
             base |-> cur.t.base, project |-> cur.t.project,
             vault |-> cur.t.vault, stage |-> x]
    BY <1>1, <1>2 DEF File
  <1> QED BY <1>3 DEF PlanOf

LEMMA VerifyPact == ASSUME Inv, PactInv, Verify PROVE PactInv' /\ Step
  <1>0. pc = "verify" /\ UNCHANGED <<base, hidden>> /\ WritingOK /\ pc \in Writing
    BY DEF Verify, Inv, Engaged, Writing
  <1>1. CASE Fail /\ UNCHANGED txn
    BY <1>0, <1>1, FailPact
  <1>2. CASE /\ LET n == [cur.t EXCEPT !.stage = After(@)]
                IN /\ txn' = (txn \ {cur.t}) \cup {n}
                   /\ cur' = [cur EXCEPT !.t = n, !.side = "vault"]
             /\ pc' \in {"write", "commit"}
             /\ UNCHANGED note
    <2> DEFINE n == [cur.t EXCEPT !.stage = After(@)]
    <2>1. cur' = [cur EXCEPT !.t = n, !.side = "vault"] /\ txn' = (txn \ {cur.t}) \cup {n}
      BY <1>2
    <2>2. cur.next # "recoverEntity" /\ cur.t \in txn /\ cur.t.kind = "entity"
      BY <1>0 DEF WritingOK
    <2>3. cur'.next = cur.next
      BY <1>0, <2>1, <2>2, StageKeeps
    <2>4. n.kind = cur.t.kind /\ n.project = cur.t.project /\ PlanOf(n) = PlanOf(cur.t)
      BY <2>2, StageSame
    <2> HIDE DEF n
    <2>5. Noting' <=> Noting
      BY <1>2 DEF Noting
    <2>6. Holding'
      BY <1>0, <1>2, <2>3, <2>5, HoldPlain DEF PactInv, Holding, Hiding, Writing
    <2> QED BY <1>0, <2>1, <2>2, <2>4, <2>6, AdvancePact
  <1> QED BY <1>1, <1>2 DEF Verify

LEMMA SealPact == ASSUME Inv, PactInv, Seal PROVE PactInv' /\ Step
  <1> DEFINE n == [cur.t EXCEPT !.stage = After(@)]
  <1>0. /\ pc = "seal" /\ pc' = "remove" /\ Advance /\ WritingOK /\ pc \in Writing
        /\ UNCHANGED <<base, hidden, note>>
    BY DEF Seal, Inv, Engaged, Writing
  <1>1. cur' = [cur EXCEPT !.t = n] /\ txn' = (txn \ {cur.t}) \cup {n}
    BY <1>0 DEF Advance
  <1>2. cur.next # "recoverEntity" /\ cur.t \in txn /\ cur.t.kind = "entity"
    BY <1>0 DEF WritingOK
  <1>3. cur'.next = cur.next
    BY <1>0, <1>1, <1>2, StageKeeps
  <1>4. n.kind = cur.t.kind /\ n.project = cur.t.project /\ PlanOf(n) = PlanOf(cur.t)
    BY <1>2, StageSame
  <1> HIDE DEF n
  <1>5. Noting' <=> Noting
    BY <1>0 DEF Noting
  <1>6. Holding'
    BY <1>0, <1>3, <1>5, HoldPlain DEF PactInv, Holding, Hiding, Writing
  <1> QED BY <1>0, <1>1, <1>2, <1>4, <1>6, AdvancePact

\* The base that the change saw is replaced by its text.
LEMMA CommitPact == ASSUME Inv, PactInv, Commit PROVE PactInv' /\ Step
  <1> DEFINE t == cur.t
             e == cur.t.of
  <1>0. pc = "commit" /\ UNCHANGED <<hidden, txn>> /\ WritingOK /\ pc \in Writing
    BY DEF Commit, Inv, Engaged, Writing
  <1>1. CASE Fail /\ UNCHANGED base
    BY <1>0, <1>1, FailPact
  <1>2. CASE /\ base[e] = t.base /\ base' = [base EXCEPT ![e] = cur.body]
             /\ pc' \in {"remove", "seal"} /\ UNCHANGED <<locals, report>>
    <2>1. /\ t \in txn /\ t.kind = "entity" /\ cur.body = t.desired /\ e \in Entities
      BY <1>0 DEF WritingOK, Inv, Files, File
    <2>2. \A f : base'[f] = IF f \in Entities /\ f = e THEN t.desired ELSE base[f]
      BY <1>2, <2>1 DEF Inv, World, Bases
    <2>3. ProjectFirst' /\ Kept' = Kept
      BY <1>0 DEF PactInv, Fit, ProjectFirst, Kept
    <2>4. ASSUME NEW r \in txn PROVE Fitting(r)'
      <3>1. Fitting(r)
        BY DEF PactInv, Fit
      <3>2. r.kind = "entity" => base'[r.of] \in {r.base, r.desired}
        <4> SUFFICES ASSUME r.kind = "entity" PROVE base'[r.of] \in {r.base, r.desired}
          OBVIOUS
        <4>1. r = t \/ r.of # e
          BY <2>1, OneOfEach
        <4> QED BY <2>1, <2>2, <3>1, <4>1 DEF Fitting
      <3> QED BY <1>0, <2>3, <3>1, <3>2 DEF Fitting
    <2>5. Fit'
      BY <1>0, <2>3, <2>4 DEF Fit
    <2>6. Holding'
      BY <1>0, <1>2, HoldPlain DEF PactInv, Holding, Hiding, Writing, locals, Noting
    <2>7. Plans' = Plans /\ Decisions' = Decisions /\ Records' = Records
      BY <1>0, PlansSame, RecordsSame
    <2>8. PlanOf(t) \in Plans
      BY <2>1, PlansAre
    <2>9. PlanOf(t).of = e /\ PlanOf(t).from = t.base /\ PlanOf(t).to = t.desired
      BY DEF PlanOf
    <2>10. Agreement!Accept(PlanOf(t))
      BY <1>2, <2>1, <2>7, <2>9 DEF Agreement!Accept
    <2> QED BY <2>5, <2>6, <2>8, <2>10 DEF PactInv, Step, Agreement!Next
  <1> QED BY <1>0, <1>1, <1>2 DEF Commit

LEMMA RemovePact == ASSUME Inv, PactInv, Remove PROVE PactInv' /\ Step
  <1>0. /\ pc = "remove" /\ UNCHANGED <<base, hidden, note>> /\ WritingOK
        /\ pc \in Writing /\ txn' = txn \ {cur.t}
    BY DEF Remove, Inv, Engaged, Writing
  <1>1. cur.t \in txn /\ cur.t.kind = "entity"
    BY <1>0 DEF WritingOK
  <1>2. Holding'
    <2>1. CASE cur.next = "note"
      <3>1. cur' = note /\ pc' = "hidden"
        BY <2>1 DEF Remove
      <3>2. Noted /\ txn = {cur.t, note.t}
        BY <1>0, <2>1 DEF WritingOK
      <3>3. note.t.kind = "resolve" /\ txn' = {note.t}
        BY <1>0, <1>1, <3>2 DEF Noted
      <3>4. note.pre["project"] = OpenNote
        BY <1>0, <2>1 DEF PactInv, Holding, Noting
      <3> QED BY <3>1, <3>3, <3>4 DEF Holding, Writing
    <2>2. CASE cur.next # "note"
      <3>1. pc' \in {"entity", "publish", "recoverEntity"}
        BY <1>0, <2>2 DEF Remove, WritingOK
      <3> QED BY <3>1, HoldPlain DEF Hiding, Writing
    <2> QED BY <2>1, <2>2
  <1> QED BY <1>0, <1>1, <1>2, DropPact

-----------------------------------------------------------------------------
(* Recovery, Reconcile and Resolve as AtomicSync sees them.                *)

\* A conflict record that a side has is one of the project.
LEMMA KeptAt ==
    ASSUME PactInv, NEW s \in Sides, NEW id, id # Ledger, At(s, id) # None
    PROVE  id \in Kept
  BY DEF At, Kept, PactInv, Fit, ProjectFirst, Sides

LEMMA DropHere ==
    ASSUME Inv, PactInv, NEW t \in txn, Drop(t), pc \notin Hiding \cup Writing \cup {"resolve"},
           t.kind = "resolve" => \A f \in txn : f.kind # "entity"
    PROVE  PactInv' /\ Step
  <1>1. txn' = txn \ {t} /\ UNCHANGED <<base, hidden>> /\ pc' = pc
    BY DEF Drop
  <1>2. Holding'
    BY <1>1, HoldPlain
  <1> QED BY <1>1, <1>2, DropPact

LEMMA ResumePact ==
    ASSUME PactInv, NEW t, NEW body, NEW p, NEW v, Resume(t, body, p, v, "recover"),
           UNCHANGED world,
           t.kind = "record" => p \in {None, OpenNote} /\ t.of \in Kept,
           t.kind = "resolve" => p = OpenNote /\ \A f \in txn : f.kind # "entity"
    PROVE  PactInv' /\ Step
  <1>1. pc' = "hidden" /\ cur'.t = t /\ cur'.pre["project"] = p
    BY DEF Resume
  <1>2. UNCHANGED <<base, hidden, txn>> /\ Kept' = Kept
    BY DEF world, Kept
  <1>3. Holding'
    BY <1>1, <1>2 DEF Holding, Writing
  <1> QED BY <1>2, <1>3, SettledPact

LEMMA RecoverAbortPact == ASSUME PactInv, Abort, UNCHANGED world PROVE PactInv' /\ Step
  BY AbortPact DEF world

LEMMA RecoverLedgerPact ==
    ASSUME Inv, PactInv, pc = "recover", NEW t \in txn, t.kind \in {"publish", "repair"},
           RecoverLedger(t)
    PROVE  PactInv' /\ Step
  <1> DEFINE p == At("project", Ledger)
             v == At("vault", Ledger)
  <1>1. CASE Drop(t)
    BY <1>1, DropHere DEF Hiding, Writing
  <1>2. CASE Abort /\ UNCHANGED world
    BY <1>2, RecoverAbortPact
  <1>3. CASE /\ UNCHANGED world
             /\ Resume(t, p, p, IF t.vault = None THEN None ELSE v, "recover")
    BY <1>3, ResumePact
  <1> QED BY <1>1, <1>2, <1>3 DEF RecoverLedger

LEMMA RecoverRecordPact ==
    ASSUME Inv, PactInv, pc = "recover", NEW t \in txn, t.kind = "record",
           RecoverRecord(t)
    PROVE  PactInv' /\ Step
  <1> DEFINE p == At("project", t.of)
             v == At("vault", t.of)
  <1>1. CASE Drop(t)
    BY <1>1, DropHere DEF Hiding, Writing
  <1>2. CASE Abort /\ UNCHANGED world
    BY <1>2, RecoverAbortPact
  <1>3. CASE /\ t.desired \in {p, v} /\ p \in {None, t.desired, t.project}
             /\ UNCHANGED world /\ Resume(t, t.desired, p, v, "recover")
    <2>1. File(t) /\ Fitting(t)
      BY DEF Inv, Files, PactInv, Fit
    <2>2. t.desired = OpenNote /\ t.of # Ledger /\ t.project \in {None, OpenNote}
      BY <2>1 DEF File, Fitting
    <2>3. t.of \in Kept
      BY <1>3, <2>2, NoneIsNot, KeptAt DEF Sides
    <2> QED BY <1>3, <2>2, <2>3, ResumePact
  <1> QED BY <1>1, <1>2, <1>3 DEF RecoverRecord

LEMMA RecoverResolutionPact ==
    ASSUME Inv, PactInv, pc = "recover", NEW t \in txn, t.kind = "resolve",
           \A f \in txn : f.kind # "entity", RecoverResolution(t)
    PROVE  PactInv' /\ Step
  <1>1. CASE Drop(t)
    BY <1>1, DropHere DEF Hiding, Writing
  <1>2. CASE Abort /\ UNCHANGED world
    BY <1>2, RecoverAbortPact
  <1>3. CASE UNCHANGED world /\ Resume(t, t.desired, t.base, t.base, "recover")
    <2>1. t.base = OpenNote
      BY DEF Inv, Files, File
    <2> QED BY <1>3, <2>1, ResumePact
  <1> QED BY <1>1, <1>2, <1>3 DEF RecoverResolution

LEMMA RecoverPact == ASSUME Inv, PactInv, Recover PROVE PactInv' /\ Step
  <1> DEFINE first == Pending({"publish", "repair", "record"})
             last == Pending({"resolve"})
  <1>0. pc = "recover"
    BY DEF Recover
  <1>1. CASE first # {}
    <2>1. PICK t \in first : IF t.kind = "record" THEN RecoverRecord(t)
                                                  ELSE RecoverLedger(t)
      BY <1>1 DEF Recover
    <2>2. t \in txn /\ t.kind \in {"publish", "repair", "record"}
      BY DEF Pending
    <2> QED BY <1>0, <2>1, <2>2, RecoverRecordPact, RecoverLedgerPact
  <1>2. CASE first = {} /\ Pending({"entity"}) = {} /\ last # {}
    <2>1. PICK t \in last : RecoverResolution(t)
      BY <1>2 DEF Recover
    <2>2. t \in txn /\ t.kind = "resolve" /\ \A f \in txn : f.kind # "entity"
      BY <1>2 DEF Pending
    <2> QED BY <1>0, <2>1, <2>2, RecoverResolutionPact
  <1>3. CASE UNCHANGED world /\ pc' \in {"recoverEntity", "ready"}
    BY <1>3, PlainPact DEF world, Hiding, Writing
  <1> QED BY <1>1, <1>2, <1>3 DEF Recover

LEMMA RecoverEntityPact == ASSUME Inv, PactInv, RecoverEntity PROVE PactInv' /\ Step
  <1>0. pc = "recoverEntity"
    BY DEF RecoverEntity
  <1>1. CASE UNCHANGED world /\ pc' = "recover"
    BY <1>1, PlainPact DEF world, Hiding, Writing
  <1>2. CASE UNCHANGED world /\ Abort
    BY <1>2, RecoverAbortPact
  <1>3. CASE UNCHANGED world /\ pc' = "write" /\ cur'.next = "recoverEntity"
    BY <1>3, PlainPact DEF world, Hiding, Writing
  <1>4. CASE \E t \in Pending({"entity"}) : Drop(t)
    <2>1. PICK t \in Pending({"entity"}) : Drop(t)
      BY <1>4
    <2>2. t \in txn /\ t.kind = "entity"
      BY DEF Pending
    <2> QED BY <1>0, <2>1, <2>2, DropHere DEF Hiding, Writing
  <1>5. CASE Pending({"entity"}) # {}
    <2>1. PICK t \in Pending({"entity"}) :
             LET b == seen.base[t.of]
                 at == [s \in Sides |-> seen.doc[s][t.of]]
             IN \/ Drop(t)
                \/ Abort /\ UNCHANGED world
                \/ /\ cur' = [t |-> t, body |-> t.desired, pre |-> at,
                              write |-> {s \in Sides : at[s] # t.desired},
                              side |-> "project", next |-> "recoverEntity"]
                   /\ pc' = "write" /\ UNCHANGED world
      BY <1>5 DEF RecoverEntity
    <2>2. CASE \E at, w : cur' = [t |-> t, body |-> t.desired, pre |-> at, write |-> w,
                                  side |-> "project", next |-> "recoverEntity"]
      BY <1>2, <1>3, <1>4, <2>1, <2>2
    <2> QED BY <1>2, <1>4, <2>1, <2>2
  <1> QED BY <1>1, <1>5 DEF RecoverEntity

LEMMA SnapshotPact == ASSUME Inv, PactInv, Snapshot PROVE PactInv' /\ Step
  <1> DEFINE p == At("project", Ledger)
             v == At("vault", Ledger)
             t == Transaction("repair", Ledger, p, p, p, v)
  <1>0. UNCHANGED <<base, hidden>>
    BY DEF Snapshot
  <1>1. CASE Abort /\ UNCHANGED txn
    BY <1>0, <1>1, AbortPact
  <1>2. CASE pc' = "scan" /\ UNCHANGED txn
    BY <1>0, <1>2, PlainPact DEF Hiding, Writing
  <1>3. CASE txn' = txn \cup {t} /\ cur'.t = t /\ pc' = "hidden"
    <2>1. t.kind = "repair"
      BY DEF Transaction
    <2> HIDE DEF t
    <2>2. Holding'
      BY <1>3, <2>1 DEF Holding, Writing
    <2> QED BY <1>0, <1>3, <2>1, <2>2, AddPact
  <1> QED BY <1>1, <1>2, <1>3 DEF Snapshot

\* A conflict is recorded against the merge base that the run saw, which is
\* the present one for every document that the run has not looked at yet.
LEMMA EntityPact == ASSUME Inv, Inv', PactInv, Entity PROVE PactInv' /\ Step
  <1> DEFINE e == Head(todo)
             p == seen.doc["project"][e]
             v == seen.doc["vault"][e]
             b == seen.base[e]
             body == Accepted(b, p, v)
  <1>0. /\ pc = "entity" /\ todo # <<>> /\ UNCHANGED <<base, hidden, note>>
        /\ Walking /\ Left(txn)
    BY DEF Entity, Inv, Engaged
  <1>1. e \in Rest
    BY <1>0, RestOf DEF Walking
  <1>2. base[e] = b /\ \A f \in txn : f.kind \in {"entity", "record"} /\ Subject(f) # e
    BY <1>0, <1>1 DEF Walking, Left
  <1> HIDE DEF e, p, v, b, body
  <1>3. CASE UNCHANGED <<txn, pc, cur>>
    BY <1>0, <1>3, PlainPact DEF Hiding, Writing
  <1>4. CASE SeenClash(e) /\ PersistConflictRecord(e) /\ pc' = "hidden"
    <2> DEFINE id == ConflictID(e, b, p, v)
               at == [s \in Sides |-> At(s, id)]
               t == Transaction("record", id, OpenNote, OpenNote,
                                at["project"], at["vault"])
    <2>1. /\ txn' = txn \cup {t} /\ {at["project"], at["vault"]} \subseteq {None, OpenNote}
          /\ cur' = [t |-> t, body |-> OpenNote, next |-> "entity", pre |-> at]
      BY <1>0, <1>4 DEF PersistConflictRecord, e, p, v, b
    <2>2. id.entity = e /\ id.base = b
      BY DEF ConflictID
    <2>3. t.kind = "record" /\ t.of = id /\ t.project = at["project"] /\ t.stage = "planned"
      BY DEF Transaction
    <2>4. /\ cur'.t = t /\ cur'.next = "entity" /\ cur'.pre = at
      BY <2>1
    <2> HIDE DEF t, at, id
    <2>5. \A f \in txn' : f.kind = "entity" => f.of # e
      BY <1>2, <2>1, <2>3 DEF Subject
    <2>6. base'[id.entity] = id.base /\ \A f \in txn' : f.kind = "entity" => f.of # id.entity
      BY <1>0, <1>2, <2>2, <2>5
    <2>7. Holding'
      <3>1. cur'.pre["project"] \in {None, OpenNote}
        BY <2>1, <2>4
      <3>2. cur'.t.kind = "record" /\ cur'.t.of = id
        BY <2>3, <2>4
      <3>3. Opening(cur.t.of)'
        BY <2>6, <3>2 DEF Opening
      <3> QED BY <1>4, <2>4, <3>1, <3>2, <3>3 DEF Holding, Writing
    <2> QED BY SMTT(60), <1>0, <2>1, <2>3, <2>7, AddPact
  <1>5. CASE Plan(e, body, p, v, "entity")
    <2>1. \A r \in txn : r.kind = "entity" => r.of # e
      BY <1>2 DEF Subject
    <2>2. \A r \in txn : r.kind # "resolve"
      BY <1>2
    <2> QED BY <1>0, <1>5, <2>1, <2>2, PlanPact
  <1>6. \/ SeenClash(e) /\ PersistConflictRecord(e)
        \/ UNCHANGED <<txn, pc, cur>>
        \/ Plan(e, body, p, v, "entity")
    BY DEF Entity, e, p, v, b, body
  <1>7. ASSUME SeenClash(e), PersistConflictRecord(e)
        PROVE  pc' = "hidden" \/ UNCHANGED <<txn, pc, cur>>
    BY <1>7 DEF PersistConflictRecord
  <1> QED BY <1>3, <1>4, <1>5, <1>6, <1>7

LEMMA AlignPact == ASSUME Inv, Inv', PactInv, Align PROVE PactInv' /\ Step
  <1>0. pc = "align" /\ UNCHANGED <<base, hidden>> /\ txn = {}
    BY DEF Align, Inv, Engaged, Quiet
  <1>1. CASE Abort /\ UNCHANGED txn
    BY <1>0, <1>1, AbortPact
  <1>2. CASE pc' = "publish" /\ UNCHANGED txn
    BY <1>0, <1>2, PlainPact DEF Hiding, Writing
  <1>3. ASSUME NEW e, Plan(e, Lifted(e), doc["project"][e], doc["vault"][e], "publish")
        PROVE  PactInv' /\ Step
    BY <1>0, <1>3, PlanPact
  <1> QED BY <1>1, <1>2, <1>3 DEF Align, Lift

LEMMA PublishPact == ASSUME Inv, PactInv, Publish PROVE PactInv' /\ Step
  <1> DEFINE docs == doc["project"]
             renew == committed \/ seen.stale
             body == IF renew THEN LedgerOf(docs, seen.project.stamp + 1)
                              ELSE seen.project
             t == Transaction("publish", Ledger, body, seen.project,
                              seen.project, seen.vault)
  <1>0. UNCHANGED <<base, hidden>>
    BY DEF Publish
  <1>1. CASE Abort /\ UNCHANGED txn
    BY <1>0, <1>1, AbortPact
  <1>2. CASE pc' = "done" /\ UNCHANGED txn
    BY <1>0, <1>2, PlainPact DEF Hiding, Writing
  <1>3. CASE txn' = txn \cup {t} /\ cur'.t = t /\ pc' = "hidden"
    <2>1. t.kind = "publish"
      BY DEF Transaction
    <2> HIDE DEF t
    <2>2. Holding'
      BY <1>3, <2>1 DEF Holding, Writing
    <2> QED BY <1>0, <1>3, <2>1, <2>2, AddPact
  <1> QED BY <1>1, <1>2, <1>3 DEF Publish

\* A decision begins with nothing else pending, for an open record that is
\* about the present merge base.
LEMMA ChoosePact == ASSUME Inv, Inv', PactInv, Choose PROVE PactInv' /\ Step
  <1> DEFINE id == op.id
             others == \E e \in Entities \ {id.entity} :
                          seen.base[e] # None /\ SeenClash(e)
  <1>0. /\ pc = "choose" /\ UNCHANGED <<base, hidden>> /\ txn = {}
        /\ Choosing /\ Asked
    BY DEF Choose, Inv, Engaged, Quiet
  <1>1. CASE Abort /\ UNCHANGED txn
    BY <1>0, <1>1, AbortPact
  <1>2. CASE Resolvable(id) /\ ~(Abort /\ UNCHANGED txn)
    <2>1. PICK choice \in Choices(id.project, id.vault) :
             LET body == FinalizeHumanMerge(id.base, choice.units)
                 t == Transaction("resolve", id, [accepted |-> body],
                                  OpenNote, OpenNote, OpenNote)
             IN /\ txn' = txn \cup {t}
                /\ note' = [t |-> t, body |-> [accepted |-> body],
                            pre |-> [project |-> OpenNote, vault |-> OpenNote],
                            next |-> IF others THEN "done" ELSE "align"]
                /\ pc' = "resolve"
      BY <1>2 DEF Choose
    <2> DEFINE body == FinalizeHumanMerge(id.base, choice.units)
               t == Transaction("resolve", id, [accepted |-> body],
                                OpenNote, OpenNote, OpenNote)
    <2>2. txn' = {t} /\ note'.pre["project"] = OpenNote /\ pc' = "resolve"
      BY <1>0, <2>1
    <2>3. t.kind = "resolve" /\ t.of = id /\ t.desired.accepted = body
      BY DEF Transaction
    <2>4. DecisionOf(t) = [id |-> id, text |-> body]
      BY <2>3 DEF DecisionOf
    <2> HIDE DEF t, body
    <2>5. At("project", id) = OpenNote /\ base[id.entity] = id.base
      BY <1>0, <1>2 DEF Resolvable, Choosing
    <2>6. id \in Kept /\ hidden["project"][id] = OpenNote
      <3>1. id # Ledger
        BY <1>0 DEF Choosing, Asked
      <3>2. id \in Kept
        BY <2>5, <3>1, NoneIsNot, KeptAt DEF Sides
      <3> QED BY <2>5, <3>2 DEF At, Kept
    <2>7. Fit'
      BY <1>0, <2>2, <2>3, <2>6, FitAdd DEF PactInv
    <2>8. Holding'
      BY <2>2, HoldPlain DEF Noting, Hiding
    <2>9. body \in Docs
      <3>1. \A f \in txn' : f.kind = "resolve" => f.desired.accepted \in Texts'
        BY DEF Inv, Files, File, Close
      <3>2. body \in Texts'
        BY <2>2, <2>3, <3>1
      <3> QED BY <3>2, DocsNext
    <2>10. Plans = {} /\ Decisions = {} /\ Plans' = Plans /\ Decisions' = {DecisionOf(t)}
      <3>1. \A q : q \notin Plans /\ q \notin Plans' /\ q \notin Decisions
        BY <1>0, <2>2, <2>3, PlansAre, PlansAreNext
      <3>2. \A d : d \in Decisions' <=> d = DecisionOf(t)
        BY <2>2, <2>3, PlansAreNext
      <3> QED BY <3>1, <3>2
    <2>11. id \in DOMAIN Records /\ Records[id] = None
      BY <2>6 DEF Records, Kept, OpenNote
    <2>12. Agreement!Decide(DecisionOf(t))
      BY <1>0, <2>4, <2>5, <2>9, <2>10, <2>11, RecordsSame DEF Agreement!Decide
    <2> QED BY <2>7, <2>8, <2>10, <2>12 DEF PactInv, Step, Agreement!Next
  <1> QED BY <1>1, <1>2 DEF Choose

LEMMA ResolveDocumentPact ==
    ASSUME Inv, Inv', PactInv, ResolveDocument
    PROVE  PactInv' /\ Step
  <1> DEFINE id == op.id
  <1>0. /\ pc = "resolve" /\ Resolving /\ UNCHANGED <<base, hidden, note>>
        /\ Plan(id.entity, note.body.accepted, id.project, id.vault, "note")
    BY DEF ResolveDocument, Inv, Engaged
  <1>1. /\ txn = {note.t} /\ note.t.kind = "resolve" /\ note.t.of = id
        /\ note.body = note.t.desired
    BY <1>0 DEF Resolving, Noted
  <1>2. Noting'
    BY <1>0 DEF PactInv, Holding, Noting
  <1> QED BY <1>0, <1>1, <1>2, PlanPact

\* Of the vault a write adds no record that the project does not have.
LEMMA VaultPact ==
    ASSUME Inv, PactInv, Holding', UNCHANGED <<base, txn>>,
           NEW f, NEW body, f \in Kept \cup {Ledger}, Put("vault", f, body)
    PROVE  PactInv' /\ Step
  <1>1. /\ \A s \in Sides : DOMAIN hidden'[s] = IF s = "vault" THEN DOMAIN hidden[s] \cup {f}
                                                ELSE DOMAIN hidden[s]
        /\ \A s \in Sides : \A g : At(s, g)' = IF s = "vault" /\ g = f THEN body ELSE At(s, g)
    BY PutAt DEF Inv, Sides
  <1>2. /\ DOMAIN hidden'["project"] = DOMAIN hidden["project"]
        /\ DOMAIN hidden'["vault"] = DOMAIN hidden["vault"] \cup {f}
        /\ \A g : At("project", g)' = At("project", g)
    BY <1>1 DEF Sides
  <1>3. Kept' = Kept
    BY <1>2 DEF Kept
  <1>4. \A id \in Kept : hidden'["project"][id] = hidden["project"][id]
    BY <1>2 DEF Kept, At
  <1>5. DOMAIN hidden'["vault"] \ {Ledger} \subseteq Kept
    BY <1>2 DEF PactInv, Fit, ProjectFirst
  <1> QED BY <1>3, <1>4, <1>5, StillPact

LEMMA PutProject ==
    ASSUME Inv, NEW f, NEW body, Put("project", f, body)
    PROVE  /\ Kept' = Kept \cup ({f} \ {Ledger})
           /\ DOMAIN hidden'["vault"] = DOMAIN hidden["vault"]
           /\ f # Ledger => hidden'["project"][f] = body
           /\ \A id \in Kept : id # f => hidden'["project"][id] = hidden["project"][id]
  <1>1. /\ \A s \in Sides : DOMAIN hidden'[s] = IF s = "project" THEN DOMAIN hidden[s] \cup {f}
                                                ELSE DOMAIN hidden[s]
        /\ \A s \in Sides : \A g : At(s, g)' = IF s = "project" /\ g = f THEN body ELSE At(s, g)
    BY PutAt DEF Inv, Sides
  <1>2. /\ DOMAIN hidden'["project"] = DOMAIN hidden["project"] \cup {f}
        /\ DOMAIN hidden'["vault"] = DOMAIN hidden["vault"]
        /\ \A g : At("project", g)' = IF g = f THEN body ELSE At("project", g)
    BY <1>1 DEF Sides
  <1>3. hidden'["project"][f] = body
    BY <1>2 DEF At
  <1>4. \A id \in Kept : id # f => hidden'["project"][id] = hidden["project"][id]
    BY <1>2 DEF Kept, At
  <1> QED BY <1>2, <1>3, <1>4 DEF Kept

\* What stays when the project has the same records, and perhaps one more.
LEMMA FitMore ==
    ASSUME Fit, UNCHANGED <<base, txn>>, Kept \subseteq Kept',
           DOMAIN hidden'["vault"] = DOMAIN hidden["vault"],
           \A id \in Kept' : hidden'["project"][id] # None
    PROVE  Fit'
  <1>1. ProjectFirst'
    BY DEF Fit, ProjectFirst
  <1>2. ASSUME NEW t \in txn PROVE Fitting(t)'
    BY DEF Fit, Fitting
  <1> QED BY <1>1, <1>2 DEF Fit

\* The project gets the record of a conflict about the present merge base.
LEMMA RecordPact ==
    ASSUME Inv, PactInv, Holding', UNCHANGED <<base, txn>>, pc \in Hiding, HidingOK,
           cur.t.kind = "record", cur.t.of # Ledger, cur.body = OpenNote,
           At("project", cur.t.of) \in {cur.body, cur.pre["project"]},
           Put("project", cur.t.of, cur.body)
    PROVE  PactInv' /\ Step
  <1> DEFINE f == cur.t.of
  <1>1. /\ Kept' = Kept \cup {f} /\ DOMAIN hidden'["vault"] = DOMAIN hidden["vault"]
        /\ hidden'["project"][f] = OpenNote
        /\ \A id \in Kept : id # f => hidden'["project"][id] = hidden["project"][id]
    BY PutProject
  <1>2. /\ cur.pre["project"] \in {None, OpenNote}
        /\ f \notin Kept => cur.next = "entity" /\ Opening(f)
    BY DEF PactInv, Holding
  <1>3. CASE f \in Kept
    <2>1. hidden["project"][f] = At("project", f) /\ hidden["project"][f] # None
      BY <1>3 DEF At, Kept, PactInv, Fit, ProjectFirst
    <2>2. hidden["project"][f] = OpenNote
      BY <1>2, <2>1
    <2>3. \A id \in Kept : hidden'["project"][id] = hidden["project"][id]
      BY <1>1, <2>2
    <2> QED BY <1>1, <1>3, <2>3, StillPact DEF PactInv, Fit, ProjectFirst
  <1>4. CASE f \notin Kept
    <2>1. Fit'
      BY <1>1, <1>4, NoneIsNot, FitMore DEF PactInv, Fit, ProjectFirst
    <2>2. Plans' = Plans /\ Decisions' = Decisions
      BY PlansSame
    <2>3. Opening(f) /\ \A r \in txn : r.kind \in {"entity", "record"}
      BY <1>2, <1>4 DEF HidingOK, Left
    <2>4. Decisions = {}
      <3>1. \A d : d \notin Decisions
        BY <2>3, PlansAre
      <3> QED BY <3>1
    <2>5. \A q \in Plans : q.of # f.entity
      BY <2>3, PlansAre DEF Opening, PlanOf
    <2>6. DOMAIN Records = Kept /\ DOMAIN Records' = Kept \cup {f}
      BY <1>1 DEF Records, Kept
    <2>7. Records' = [i \in Kept \cup {f} |-> IF i = f THEN None ELSE Records[i]]
      <3>1. Records' = [i \in Kept' |-> hidden'["project"][i].accepted]
        BY DEF Records, Kept
      <3>2. \A i \in Kept : Records[i] = hidden["project"][i].accepted
        BY DEF Records, Kept
      <3>3. OpenNote.accepted = None
        BY DEF OpenNote
      <3>4. \A i \in Kept \cup {f} : hidden'["project"][i].accepted =
               IF i = f THEN None ELSE Records[i]
        BY <1>1, <3>2, <3>3
      <3> HIDE DEF f
      <3> QED BY <1>1, <3>1, <3>4
    <2>8. Agreement!Record(f)
      BY <1>4, <2>2, <2>3, <2>4, <2>5, <2>6, <2>7 DEF Agreement!Record, Opening
    <2> QED BY <2>1, <2>6, <2>8 DEF PactInv, Step, Agreement!Next
  <1> QED BY <1>3, <1>4

\* The record is closed by the decision whose text is the merge base.
LEMMA ResolvePact ==
    ASSUME Inv, PactInv, Holding', UNCHANGED <<base, txn>>, pc \in Hiding, HidingOK,
           cur.t.kind = "resolve", cur.t.of # Ledger, Close(cur.body),
           At("project", cur.t.of) \in {cur.body, cur.pre["project"]},
           Put("project", cur.t.of, cur.body)
    PROVE  PactInv' /\ Step
  <1> DEFINE f == cur.t.of
             d == DecisionOf(cur.t)
  <1>1. /\ cur.t \in txn /\ cur.body = cur.t.desired
        /\ base[f.entity] = cur.body.accepted
    BY DEF HidingOK
  <1>2. f \in Kept /\ cur.pre["project"] = OpenNote
    BY <1>1 DEF PactInv, Fit, Fitting, Holding
  <1>3. /\ Kept' = Kept /\ DOMAIN hidden'["vault"] = DOMAIN hidden["vault"]
        /\ hidden'["project"][f] = cur.body
        /\ \A id \in Kept : id # f => hidden'["project"][id] = hidden["project"][id]
    BY SMTT(60), <1>2, PutProject
  <1>4. hidden["project"][f] = At("project", f)
    BY <1>2 DEF At, Kept
  <1>5. CASE hidden["project"][f] = cur.body
    <2>1. \A id \in Kept : hidden'["project"][id] = hidden["project"][id]
      BY <1>3, <1>5
    <2> QED BY <1>3, <2>1, StillPact DEF PactInv, Fit, ProjectFirst
  <1>6. CASE hidden["project"][f] = OpenNote
    <2>1. Fit'
      BY <1>3, NoneIsNot, FitMore DEF PactInv, Fit, ProjectFirst
    <2>2. Plans' = Plans /\ Decisions' = Decisions
      BY PlansSame
    <2>3. d \in Decisions /\ d.id = f /\ d.text = cur.body.accepted
      BY <1>1, PlansAre DEF DecisionOf
    <2>4. Records[f] = None
      BY <1>2, <1>6 DEF Records, Kept, OpenNote
    <2>5. Records' = [Records EXCEPT ![f] = cur.body.accepted]
      <3>1. Records' = [i \in Kept |-> hidden'["project"][i].accepted]
        BY <1>3 DEF Records, Kept
      <3>2. Records = [i \in Kept |-> hidden["project"][i].accepted]
        BY DEF Records, Kept
      <3> HIDE DEF f
      <3> QED BY <1>2, <1>3, <3>1, <3>2
    <2>6. Agreement!Settle(d)
      BY <1>1, <2>2, <2>3, <2>4, <2>5 DEF Agreement!Settle
    <2> QED BY <2>1, <2>3, <2>6 DEF PactInv, Step, Agreement!Next
  <1> QED BY <1>2, <1>4, <1>5, <1>6

LEMMA HiddenWritePact == ASSUME Inv, PactInv, HiddenWrite PROVE PactInv' /\ Step
  <1>0. /\ pc = "hidden" /\ cur.t.stage \in {"planned", "project_written"}
        /\ UNCHANGED <<base, txn>> /\ HidingOK /\ pc \in Hiding
    BY DEF HiddenWrite, Inv, Engaged, Hiding
  <1>1. CASE Fail /\ UNCHANGED hidden
    BY <1>0, <1>1, FailPact
  <1>2. CASE /\ At(HiddenSide, cur.t.of) \in {cur.body, cur.pre[HiddenSide]}
             /\ Put(HiddenSide, cur.t.of, cur.body)
             /\ pc' = "hiddenStage" /\ UNCHANGED <<locals, report>>
    <2>1. cur.t \in txn /\ File(cur.t) /\ Fitting(cur.t) /\ cur.t.kind # "entity"
      BY <1>0 DEF HidingOK, Inv, Files, PactInv, Fit
    <2>2. Kept \subseteq Kept'
      <3>1. HiddenSide \in Sides
        BY DEF HiddenSide, Sides
      <3>2. \A s \in Sides : DOMAIN hidden[s] \subseteq DOMAIN hidden'[s]
        BY ZenonT(60), <1>2, <3>1, PutAt DEF Inv
      <3> QED BY <3>2 DEF Kept, Sides
    <2>3. Holding'
      BY <1>0, <1>2, <2>2, HoldSame DEF PactInv, locals, Hiding
    <2>4. CASE cur.t.stage = "project_written"
      <3>1. HiddenSide = "vault"
        BY <2>4 DEF HiddenSide
      <3>2. cur.t.of \in Kept \cup {Ledger}
        BY <2>1, <2>4 DEF File, Fitting
      <3> QED BY <1>0, <1>2, <2>3, <3>1, <3>2, VaultPact
    <2>5. CASE cur.t.stage = "planned"
      <3>1. HiddenSide = "project"
        BY <2>5 DEF HiddenSide
      <3>2. CASE cur.t.of = Ledger
        <4>1. /\ Kept' = Kept /\ DOMAIN hidden'["vault"] = DOMAIN hidden["vault"]
              /\ \A id \in Kept : hidden'["project"][id] = hidden["project"][id]
          BY <1>2, <3>1, <3>2, PutProject DEF Kept
        <4> QED BY <1>0, <2>3, <4>1, StillPact DEF PactInv, Fit, ProjectFirst
      <3>3. CASE cur.t.kind = "record"
        BY <1>0, <1>2, <2>1, <2>3, <3>1, <3>3, RecordPact DEF File, HidingOK
      <3>4. CASE cur.t.kind = "resolve"
        BY <1>0, <1>2, <2>1, <2>3, <3>1, <3>4, ResolvePact DEF File, HidingOK
      <3> QED BY <2>1, <3>2, <3>3, <3>4 DEF File
    <2> QED BY <1>0, <2>4, <2>5
  <1> QED BY <1>1, <1>2 DEF HiddenWrite

LEMMA AdvanceHiddenPact ==
    ASSUME Inv, PactInv, pc \in Hiding, pc' = "hidden", Advance, UNCHANGED <<base, hidden>>,
           cur.t.kind = "record" => cur.t.of \in Kept
    PROVE  PactInv' /\ Step
  <1> DEFINE n == [cur.t EXCEPT !.stage = After(@)]
  <1>0. HidingOK
    BY DEF Inv, Engaged
  <1>1. cur' = [cur EXCEPT !.t = n] /\ txn' = (txn \ {cur.t}) \cup {n} /\ cur.t \in txn
    BY <1>0 DEF Advance, HidingOK
  <1>2. /\ n.kind = cur.t.kind /\ n.of = cur.t.of /\ n.project = cur.t.project
        /\ PlanOf(n) = PlanOf(cur.t)
    BY <1>1, StageSame
  <1> HIDE DEF n
  <1>3. cur'.t = n /\ cur'.pre = cur.pre
    <2>1. cur' = [t |-> n, body |-> cur.body, next |-> cur.next, pre |-> cur.pre]
      BY <1>0, <1>1 DEF HidingOK
    <2> QED BY <2>1
  <1>4. Kept' = Kept
    BY DEF Kept
  <1>5. Holding'
    BY <1>1, <1>2, <1>3, <1>4 DEF PactInv, Holding, Writing
  <1> QED BY <1>1, <1>2, <1>5, AdvancePact

LEMMA HiddenStagePact == ASSUME Inv, PactInv, HiddenStage PROVE PactInv' /\ Step
  <1>0. pc = "hiddenStage" /\ UNCHANGED <<base, hidden>> /\ pc \in Hiding /\ HidingOK
    BY DEF HiddenStage, Inv, Engaged, Hiding
  <1>1. CASE Fail /\ UNCHANGED txn
    BY <1>0, <1>1, FailPact
  <1>2. CASE At(HiddenSide, cur.t.of) = cur.body /\ Advance /\ pc' = "hidden"
    <2>1. ASSUME cur.t.kind = "record" PROVE cur.t.of \in Kept
      <3>1. cur.t \in txn /\ cur.body = cur.t.desired
        BY <1>0, <2>1 DEF HidingOK
      <3>2. cur.body = OpenNote /\ cur.t.of # Ledger
        BY <2>1, <3>1 DEF Inv, Files, File
      <3>3. HiddenSide \in Sides
        BY DEF HiddenSide, Sides
      <3> QED BY <1>2, <3>2, <3>3, NoneIsNot, KeptAt
    <2> QED BY <1>0, <1>2, <2>1, AdvanceHiddenPact
  <1> QED BY <1>1, <1>2 DEF HiddenStage

LEMMA HiddenVerifyPact == ASSUME Inv, PactInv, HiddenVerify PROVE PactInv' /\ Step
  <1>0. /\ pc = "hidden" /\ UNCHANGED <<base, hidden>> /\ pc \in Hiding /\ HidingOK
        /\ cur.t.stage \in {"vault_written", "base_committed"}
    BY DEF HiddenVerify, Inv, Engaged, Hiding
  <1>1. CASE Fail /\ UNCHANGED txn
    BY <1>0, <1>1, FailPact
  <1>2. CASE Advance /\ UNCHANGED pc
    <2>1. cur.t.kind = "record" => cur.t.of \in Kept
      BY <1>0 DEF HidingOK, PactInv, Fit, Fitting
    <2> QED BY <1>0, <1>2, <2>1, AdvanceHiddenPact
  <1>3. CASE txn' = txn \ {cur.t} /\ pc' = cur.next
    <2>1. cur.t \in txn /\ pc' \in {"recover", "entity", "done", "align"}
      BY <1>0, <1>3 DEF HidingOK
    <2>2. cur.t.kind = "resolve" => \A f \in txn : f.kind # "entity"
      BY <1>0 DEF PactInv, Holding
    <2>3. Holding'
      BY <2>1, HoldPlain DEF Hiding, Writing
    <2> QED BY <1>0, <1>3, <2>1, <2>2, <2>3, DropPact
  <1> QED BY <1>1, <1>2, <1>3 DEF HiddenVerify

LEMMA PactStep == ASSUME Inv, Inv', PactInv, [Next]_vars PROVE PactInv' /\ Step
  <1>1. CASE UNCHANGED vars
    BY <1>1, StutterPact
  <1>2. CASE Engine
    BY <1>2, AuthenticatePact, RecoverPact, RecoverEntityPact, SnapshotPact, ScanPact,
       EntityPact, EndEntitiesPact, AlignPact, PublishPact, FinishPact, ChoosePact,
       ResolveDocumentPact, WritePact, ReplacePact, VerifyPact, CommitPact, SealPact,
       RemovePact, HiddenWritePact, HiddenStagePact, HiddenVerifyPact DEF Engine
  <1>3. CASE Reconcile \/ Resolve \/ RepairMachineLedger
    BY <1>3, BeginPact DEF Reconcile, Resolve, RepairMachineLedger
  <1>4. CASE People
    BY <1>4, PeoplePact
  <1>5. CASE Crash \/ WriteFails
    BY <1>5, FaultsPact
  <1> QED BY <1>1, <1>2, <1>3, <1>4, <1>5 DEF Next

LEMMA InitPact == ASSUME Init PROVE PactInv /\ Agreement!Init
  <1>1. /\ txn = {} /\ pc = "idle" /\ base = [e \in Entities |-> None]
        /\ DOMAIN hidden["project"] = {Ledger} /\ DOMAIN hidden["vault"] = {}
    BY DEF Init, Sides
  <1>2. Kept = {}
    BY <1>1 DEF Kept
  <1>3. PactInv
    BY <1>1, <1>2 DEF PactInv, Fit, ProjectFirst, Holding, Hiding, Writing
  <1>4. Plans = {} /\ Decisions = {}
    <2>1. \A x : x \notin Plans /\ x \notin Decisions
      BY <1>1, PlansAre
    <2> QED BY <2>1
  <1>5. Records = [id \in {} |-> None]
    BY <1>2 DEF Records, Kept
  <1>6. Agreement!Init
    BY <1>1, <1>4, <1>5 DEF Agreement!Init
  <1> QED BY <1>3, <1>6

\* Whatever crashes, fails and is saved meanwhile, the merge bases and the
\* conflict records of the sync change only as AtomicSync promises.  Every step
\* is one step of it, or none, because a change that is announced meets the base
\* it saw or the one it made, the project has each record before the vault and
\* gets it while its base is the present one, and a record is closed after the
\* one document that may change beside it.
THEOREM SyncsAtomically == Spec => ImplementsAtomicSync
  <1>1. Init => PactInv /\ Agreement!Init
    BY InitPact
  <1>2. Inv /\ Inv' /\ PactInv /\ [Next]_vars => PactInv' /\ Step
    BY PactStep
  <1>3. Step => [Agreement!Next]_(Agreement!vars)
    BY DEF Step, Agreement!vars
  <1> QED BY <1>1, <1>2, <1>3, AlwaysInv, PTL DEF Spec, ImplementsAtomicSync, Agreement!Spec
=============================================================================
