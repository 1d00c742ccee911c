----------------------------- MODULE ApplyProofs -----------------------------
(* Proofs about Apply, for any processes, proposals, sessions and bounds.    *)
EXTENDS Apply, TLAPS

-----------------------------------------------------------------------------
(* Contents.                                                                 *)

LEMMA TreeParts ==
    ASSUME NEW t \in Trees
    PROVE  /\ t["ledger"] \in Ledgers
           /\ \A d \in Docs : t[d] \in Bodies /\ d \in Files
           /\ \A f \in Files : t[f].by \subseteq Proposals
  BY DEF Trees, Ledgers, Bodies, Files, Docs

LEMMA MakeTree ==
    ASSUME NEW t, t = [f \in Files |-> t[f]],
           t["ledger"] \in Ledgers, \A d \in Docs : t[d] \in Bodies
    PROVE  t \in Trees
  <1>1. \A f \in Files : t[f] \in Bodies \cup Ledgers
    BY DEF Files
  <1>. QED  BY <1>1 DEF Trees

LEMMA SwapFile ==
    ASSUME NEW t \in Trees, NEW u \in Trees, NEW f \in Files
    PROVE  [t EXCEPT ![f] = u[f]] \in Trees
  <1> DEFINE n == [t EXCEPT ![f] = u[f]]
  <1>1. n = [g \in Files |-> n[g]] /\ \A g \in Files : n[g] = t[g] \/ n[g] = u[g]
    BY DEF Trees
  <1>2. n["ledger"] \in Ledgers
    <2>1. n["ledger"] = t["ledger"] \/ n["ledger"] = u["ledger"]
      BY <1>1 DEF Files
    <2>. QED  BY <2>1, TreeParts
  <1>3. ASSUME NEW d \in Docs PROVE n[d] \in Bodies
    <2>1. n[d] = t[d] \/ n[d] = u[d]
      BY <1>1 DEF Files
    <2>. QED  BY <2>1, TreeParts
  <1>4. n \in Trees
    <2> HIDE DEF n
    <2>. QED  BY <1>1, <1>2, <1>3, MakeTree
  <1>. QED  BY <1>4

LEMMA FirstType == First \in Trees /\ \A f \in Files : First[f].by = {}
  <1> DEFINE body == [by |-> {}, edits |-> {}, rev |-> 0]
  <1>1. body \in Bodies
    BY DEF Bodies
  <1>2. [by |-> {}, names |-> [d \in Docs |-> body], stamp |-> 0] \in Ledgers
    BY <1>1 DEF Ledgers
  <1>3. First["ledger"] = [by |-> {}, names |-> [d \in Docs |-> body], stamp |-> 0]
    BY DEF First, Files
  <1>4. \A d \in Docs : First[d] = body
    BY DEF First, Files, Docs
  <1>5. First \in Trees
    BY <1>1, <1>2, <1>3, <1>4, MakeTree DEF First
  <1>. QED  BY <1>3, <1>4, <1>5 DEF Files

LEMMA NextBody ==
    ASSUME NEW b \in Bodies, NEW p \in Proposals
    PROVE  /\ [b EXCEPT !.by = @ \cup {p}, !.rev = @ + 1] \in Bodies
           /\ [b EXCEPT !.by = @ \cup {p}, !.rev = @ + 1].by = b.by \cup {p}
           /\ [b EXCEPT !.by = @ \cup {p}, !.rev = @ + 1].edits = b.edits
  <1>1. b.by \cup {p} \in SUBSET Proposals /\ b.rev + 1 \in Nat
    BY DEF Bodies
  <1>. QED  BY <1>1 DEF Bodies

LEMMA EditedBody ==
    ASSUME NEW b \in Bodies, NEW E \in SUBSET Edits
    PROVE  [b EXCEPT !.edits = E, !.rev = @ + 1] \in Bodies
  <1>1. b.rev + 1 \in Nat
    BY DEF Bodies
  <1>. QED  BY <1>1 DEF Bodies

\* A plan adds its proposal to every file and takes no edit away.
LEMMA PlannedType ==
    ASSUME NEW p \in Proposals, NEW t \in Trees
    PROVE  /\ Planned(p, t) \in Trees
           /\ \A f \in Files : Planned(p, t)[f].by = t[f].by \cup {p}
           /\ \A d \in Docs : Planned(p, t)[d].edits = t[d].edits
  <1> DEFINE body(d) == [t[d] EXCEPT !.by = @ \cup {p}, !.rev = @ + 1]
             ledger == [t["ledger"] EXCEPT !.by = @ \cup {p},
                                           !.names = [d \in Docs |-> body(d)]]
  <1>1. \A d \in Docs : /\ body(d) \in Bodies
                        /\ body(d).by = t[d].by \cup {p}
                        /\ body(d).edits = t[d].edits
    <2>1. ASSUME NEW d \in Docs
          PROVE  /\ body(d) \in Bodies
                 /\ body(d).by = t[d].by \cup {p}
                 /\ body(d).edits = t[d].edits
      <3>1. t[d] \in Bodies
        BY TreeParts
      <3>. QED  BY <3>1, NextBody
    <2>. QED  BY <2>1
  <1>2. ledger \in Ledgers /\ ledger.by = t["ledger"].by \cup {p}
    BY <1>1, TreeParts DEF Ledgers
  <1>3. Planned(p, t)["ledger"] = ledger
    BY DEF Planned, Files
  <1>4. \A d \in Docs : Planned(p, t)[d] = body(d)
    BY DEF Planned, Files, Docs
  <1>5. Planned(p, t) = [f \in Files |-> Planned(p, t)[f]]
    BY DEF Planned
  <1> HIDE DEF body, ledger
  <1>6. Planned(p, t) \in Trees
    BY <1>1, <1>2, <1>3, <1>4, <1>5, MakeTree
  <1>. QED  BY <1>1, <1>2, <1>3, <1>4, <1>6 DEF Files

LEMMA TargetType ==
    ASSUME TypeOK, NEW p \in Proposals, receipt[p] # None
    PROVE  /\ receipt[p] \in Receipts /\ receipt[p].before \in Trees
           /\ Target(p) \in Trees
           /\ \A f \in Files : Target(p)[f].by = receipt[p].before[f].by \cup {p}
           /\ \A d \in Docs : Target(p)[d].edits = receipt[p].before[d].edits
  <1>1. receipt[p] \in Receipts /\ receipt[p].before \in Trees
    BY DEF TypeOK, Types, Receipts
  <1>. QED  BY <1>1, PlannedType DEF Target

\* What a sync accepts is the document of a person or of an applied proposal.
LEMMA AcceptedType ==
    ASSUME TypeOK, sync # None, NEW d \in Docs, Accepted(d) # None
    PROVE  Accepted(d) \in Bodies /\ sync.file[d] \in Bodies /\ base[d] \in Bodies
  <1>1. sync \in Syncs /\ base[d] \in Bodies
    BY DEF TypeOK, Types
  <1>2. sync.file \in Trees /\ sync.vault \in Trees
    BY <1>1 DEF Syncs
  <1>3. sync.file[d] \in Bodies /\ sync.vault[d] \in Bodies
    BY <1>2, TreeParts
  <1>4. [base[d] EXCEPT !.edits = sync.file[d].edits \cup sync.vault[d].edits,
                        !.rev = @ + 1] \in Bodies
    <2>1. sync.file[d].edits \cup sync.vault[d].edits \in SUBSET Edits
      BY <1>3 DEF Bodies
    <2>. QED  BY <1>1, <2>1, EditedBody
  <1>. QED  BY <1>1, <1>3, <1>4 DEF Accepted

-----------------------------------------------------------------------------
(* Types and locks.                                                          *)

Shared ==
    /\ file \in Trees /\ vault \in Trees /\ base \in [Docs -> Bodies]
    /\ cursor \in [Sessions -> Boundaries]
    /\ receipt \in [Proposals -> Receipts \cup {None}]
    /\ saved \subseteq Edits
    /\ stops \in 0 .. MaxStops /\ restores \in 0 .. MaxRestores

Private ==
    /\ root \in Procs \cup {None} /\ data \in Procs \cup {None, "sync"}
    /\ pc \in [Procs -> Places] /\ job \in [Procs -> Proposals \cup {None}]
    /\ known \in [Procs -> Trees \cup {None}] /\ at \in [Procs -> 1 .. 4]
    /\ \A i \in Procs : Sound(i)

Syncing == /\ sync \in Syncs \cup {None}
           /\ sync # None /\ SharedLock => data = "sync"

LEMMA TypeParts == TypeOK <=> Shared /\ Private /\ Syncing
  BY DEF TypeOK, Types, Shared, Private, Syncing

LEMMA TypePartsNext == Shared' /\ Private' /\ Syncing' => TypeOK'
  BY DEF TypeOK, Types, Shared, Private, Syncing

LEMMA InitTypeOK == Init => TypeOK
  <1> SUFFICES ASSUME Init PROVE TypeOK
    OBVIOUS
  <1>1. Shared
    <2>1. base \in [Docs -> Bodies]
      BY FirstType, TreeParts DEF Init
    <2>2. saved \subseteq Edits /\ stops \in 0 .. MaxStops /\ restores \in 0 .. MaxRestores
      BY ApplyAssumption DEF Init
    <2>3. cursor \in [Sessions -> Boundaries] /\ receipt \in [Proposals -> Receipts \cup {None}]
      BY ApplyAssumption DEF Init
    <2>4. file \in Trees /\ vault \in Trees
      BY FirstType DEF Init
    <2>. QED  BY <2>1, <2>2, <2>3, <2>4 DEF Shared
  <1>2. Private
    <2>1. \A i \in Procs : Sound(i)
      BY DEF Init, Sound, Locked, Going, Places, Ends
    <2>. QED  BY <2>1 DEF Init, Private, Places, Ends
  <1>3. Syncing
    BY DEF Init, Syncing
  <1>. QED  BY <1>1, <1>2, <1>3, TypeParts

\* A process that returns lets its locks go and no other's.
LEMMA ReturnPrivate ==
    ASSUME TypeOK, NEW i \in Procs, NEW answer \in Ends, pc[i] # "idle",
           Return(i, answer), sync' = sync, receipt' = receipt
    PROVE  Private' /\ Syncing'
  <1>1. pc' = [pc EXCEPT ![i] = answer] /\ answer \in Places
    BY DEF Return, Go, Places
  <1>2. ASSUME NEW j \in Procs PROVE Sound(j)'
    <2>1. CASE j = i
      BY <1>1, <2>1 DEF TypeOK, Types, Sound, Return, Locked, Going, Ends
    <2>2. CASE j # i
      <3>1. pc'[j] = pc[j] /\ job'[j] = job[j] /\ at'[j] = at[j] /\ known'[j] = known[j]
        BY <1>1, <2>2 DEF TypeOK, Types, Return
      <3>2. (root = j => root' = j) /\ (data = j => data' = j)
        BY <2>2 DEF Return
      <3>. QED  BY <3>1, <3>2 DEF TypeOK, Sound
    <2>. QED  BY <2>1, <2>2
  <1>3. data # i => data' = data
    BY DEF Return
  <1>4. /\ root' \in Procs \cup {None} /\ data' \in Procs \cup {None, "sync"}
        /\ pc' \in [Procs -> Places] /\ job' \in [Procs -> Proposals \cup {None}]
        /\ known' \in [Procs -> Trees \cup {None}] /\ at' \in [Procs -> 1 .. 4]
    BY <1>1 DEF TypeOK, Types, Return
  <1>5. Syncing'
    BY <1>3, ApplyAssumption DEF TypeOK, Types, Syncing
  <1>. QED  BY <1>2, <1>4, <1>5 DEF Private

\* A process that goes on keeps what it holds.
LEMMA ContinuePrivate ==
    ASSUME TypeOK, NEW i \in Procs, NEW step \in Places \ {"idle"}, pc[i] # "idle",
           Continue(i, step), sync' = sync,
           \A p \in Proposals : receipt[p] # None => receipt'[p] # None,
           step \in Going => receipt'[job[i]] # None,
           step \in Locked => pc[i] \in Locked, step # "data",
           step \in {"plan", "prepare"} => known[i] # None,
           step = "write" => at[i] \in 1 .. 3
    PROVE  Private' /\ Syncing'
  <1>1. /\ pc' = [pc EXCEPT ![i] = step] /\ step \in Places
        /\ UNCHANGED <<root, data, job, known, at>>
    BY DEF Continue, Go
  <1>2. ASSUME NEW j \in Procs PROVE Sound(j)'
    <2>1. CASE j = i
      BY <1>1, <2>1 DEF TypeOK, Types, Sound, Locked
    <2>2. CASE j # i
      <3>1. pc'[j] = pc[j] /\ (pc[j] # "idle" => job[j] \in Proposals)
        BY <1>1, <2>2 DEF TypeOK, Types, Sound
      <3>2. "idle" \notin Going
        BY DEF Going
      <3>. QED  BY <1>1, <3>1, <3>2 DEF TypeOK, Sound
    <2>. QED  BY <2>1, <2>2
  <1>3. pc' \in [Procs -> Places]
    BY <1>1 DEF TypeOK, Types
  <1>. QED  BY <1>1, <1>2, <1>3 DEF TypeOK, Types, Private, Syncing

LEMMA StepTypeOK == ASSUME TypeOK, NEW i \in Procs, Step(i) PROVE TypeOK'
  <1> USE DEF disk, people
  <1>0. Shared /\ Sound(i) /\ (pc[i] # "idle" => job[i] \in Proposals)
    BY DEF TypeOK, Types, Shared, Sound
  <1>1. CASE LockRoot(i)
    <2>1. Shared'
      BY <1>0, <1>1 DEF Shared, LockRoot
    <2>2. CASE Preflight(job[i])
      <3>1. /\ pc[i] = "root" /\ root = None /\ root' = i /\ pc' = [pc EXCEPT ![i] = "data"]
            /\ UNCHANGED <<data, job, known, at, sync>>
        BY <1>1, <2>2 DEF LockRoot, Go
      <3>2. ASSUME NEW j \in Procs PROVE Sound(j)'
        <4>1. root # j
          BY <3>1, ApplyAssumption
        <4>. QED  BY <3>1, <4>1 DEF TypeOK, Types, Sound, Locked, Going, Places, Ends
      <3>3. pc' \in [Procs -> Places]
        BY <3>1 DEF TypeOK, Types, Places
      <3>. QED  BY <2>1, <3>1, <3>2, <3>3, TypePartsNext DEF TypeOK, Types, Private, Syncing
    <2>3. CASE ~ Preflight(job[i])
      <3>1. Return(i, "refused") /\ pc[i] # "idle" /\ sync' = sync /\ receipt' = receipt /\ "refused" \in Ends
        BY <1>1, <2>3 DEF LockRoot, Ends
      <3>. QED  BY <2>1, <3>1, ReturnPrivate, TypePartsNext
    <2>. QED  BY <2>2, <2>3
  <1>2. CASE LockData(i)
    <2>1. /\ pc[i] = "data" /\ pc' = [pc EXCEPT ![i] = "scan"]
          /\ IF SharedLock THEN data = None /\ data' = i ELSE data' = data
          /\ UNCHANGED <<root, job, known, at, sync>>
      BY <1>2 DEF LockData, Go
    <2>2. ASSUME NEW j \in Procs PROVE Sound(j)'
      <3>1. SharedLock => data # j /\ (j = i => data' = j)
        BY <2>1, ApplyAssumption
      <3>. QED  BY <2>1, <3>1 DEF TypeOK, Types, Sound, Locked, Going, Places, Ends
    <2>3. pc' \in [Procs -> Places] /\ data' \in Procs \cup {None, "sync"}
      BY <2>1 DEF TypeOK, Types, Places
    <2>4. Syncing'
      BY <2>1, ApplyAssumption DEF TypeOK, Types, Syncing
    <2>5. Shared'
      BY <1>0, <1>2 DEF Shared, LockData
    <2>. QED  BY <2>1, <2>2, <2>3, <2>4, <2>5, TypePartsNext DEF TypeOK, Types, Private
  <1>3. CASE TimeOut(i)
    <2>1. Return(i, "refused") /\ pc[i] # "idle" /\ sync' = sync /\ receipt' = receipt /\ Shared' /\ "refused" \in Ends
      BY <1>0, <1>3 DEF TimeOut, Shared, Ends
    <2>. QED  BY <2>1, ReturnPrivate, TypePartsNext
  <1>4. CASE ScanReceipts(i)
    <2>1. pc[i] = "scan" /\ UNCHANGED <<sync, receipt>> /\ Shared'
      BY <1>0, <1>4 DEF ScanReceipts, Shared
    <2>2. \/ Return(i, "refused")
          \/ \E step \in {"again", "check", "load"} :
                Continue(i, step) /\ (step = "check" => receipt[job[i]] # None)
      BY <1>4 DEF ScanReceipts
    <2>3. CASE Return(i, "refused")
      <3>1. "refused" \in Ends
        BY DEF Ends
      <3>. QED  BY <2>1, <2>3, <3>1, ReturnPrivate, TypePartsNext
    <2>4. ASSUME NEW step \in {"again", "check", "load"}, Continue(i, step),
                 step = "check" => receipt[job[i]] # None
          PROVE  TypeOK'
      <3>1. /\ step \in Places \ {"idle"} /\ step # "data" /\ pc[i] \in Locked
            /\ step \in Going => receipt'[job[i]] # None
        BY <2>1, <2>4 DEF Places, Ends, Locked, Going
      <3>. QED  BY <2>1, <2>4, <3>1, ContinuePrivate, TypePartsNext
    <2>. QED  BY <2>2, <2>3, <2>4
  <1>5. CASE VerifyAgain(i)
    <2>1. /\ Return(i, "already") \/ Return(i, "refused")
          /\ pc[i] # "idle" /\ UNCHANGED <<sync, receipt>> /\ Shared' /\ {"already", "refused"} \subseteq Ends
      BY <1>0, <1>5 DEF VerifyAgain, Shared, Ends
    <2>. QED  BY <2>1, ReturnPrivate, TypePartsNext
  <1>6. CASE Load(i)
    <2>1. pc[i] = "load" /\ UNCHANGED <<sync, receipt>> /\ Shared'
      BY <1>0, <1>6 DEF Load, Shared
    <2>2. CASE Whole(file)
      <3>1. /\ known' = [known EXCEPT ![i] = file] /\ pc' = [pc EXCEPT ![i] = "plan"]
            /\ UNCHANGED <<root, data, job, at>> /\ file # None
        BY <1>0, <1>6, <2>2, ApplyAssumption DEF Load, Go, Shared
      <3>2. ASSUME NEW j \in Procs PROVE Sound(j)'
        BY <2>1, <3>1 DEF TypeOK, Types, Sound, Locked, Going, Places, Ends
      <3>3. pc' \in [Procs -> Places] /\ known' \in [Procs -> Trees \cup {None}]
        BY <1>0, <3>1 DEF TypeOK, Types, Places, Shared
      <3>. QED  BY <2>1, <3>1, <3>2, <3>3, TypePartsNext DEF TypeOK, Types, Private, Syncing
    <2>3. CASE ~ Whole(file)
      <3>1. Return(i, "refused") /\ "refused" \in Ends
        BY <1>6, <2>3 DEF Load, Ends
      <3>. QED  BY <2>1, <3>1, ReturnPrivate, TypePartsNext
    <2>. QED  BY <2>2, <2>3
  <1>7. CASE Plan(i)
    <2>1. /\ pc[i] = "plan" /\ UNCHANGED <<sync, receipt>> /\ Shared' /\ "refused" \in Ends
          /\ Continue(i, "prepare") \/ Return(i, "refused")
      BY <1>0, <1>7 DEF Plan, Shared, Ends
    <2>2. /\ "prepare" \in Places \ {"idle"} /\ pc[i] \in Locked /\ known[i] # None
          /\ "prepare" \notin Going
      BY <1>0, <2>1 DEF Places, Ends, Locked, Sound, Going
    <2>3. Private' /\ Syncing'
      BY <2>1, <2>2, ReturnPrivate, ContinuePrivate
    <2>. QED  BY <2>1, <2>3, TypePartsNext
  <1>8. CASE SavePrepared(i)
    <2>1. /\ pc[i] = "prepare" /\ sync' = sync /\ Continue(i, "check")
          /\ UNCHANGED <<file, vault, base, cursor, saved, stops, restores>>
          /\ receipt' = [receipt EXCEPT ![job[i]] =
                            [state |-> "prepared", before |-> known[i]]]
      BY <1>8 DEF SavePrepared
    <2>2. [state |-> "prepared", before |-> known[i]] \in Receipts
      BY <1>0, <2>1 DEF TypeOK, Types, Receipts, Sound
    <2>3. Shared'
      BY <1>0, <2>1, <2>2 DEF Shared
    <2>4. "check" \in Places \ {"idle"} /\ pc[i] \in Locked
      BY <2>1 DEF Places, Ends, Locked
    <2>5. /\ \A p \in Proposals : receipt[p] # None => receipt'[p] # None
          /\ receipt'[job[i]] # None
      <3>1. [state |-> "prepared", before |-> known[i]] # None
        BY <2>2, ApplyAssumption
      <3>. QED  BY <1>0, <2>1, <3>1 DEF TypeOK, Types
    <2>6. Private' /\ Syncing'
      <3>1. /\ pc[i] # "idle" /\ job[i] \in Proposals
            /\ "check" \notin {"data", "plan", "prepare", "write"}
        BY <1>0, <2>1
      <3>2. receipt'[job[i]] # None
        BY <2>5, <3>1
      <3>. QED  BY <2>1, <2>4, <2>5, <3>1, <3>2, ContinuePrivate
    <2>. QED  BY <2>3, <2>6, TypePartsNext
  <1>9. CASE Check(i)
    <2>1. pc[i] = "check" /\ UNCHANGED <<sync, receipt>> /\ Shared' /\ pc[i] \in Locked
      BY <1>0, <1>9 DEF Check, Shared, Locked, Places, Ends
    <2>2. \/ Return(i, "refused")
          \/ \E step \in {"write", "verify", "mark"} :
                Continue(i, step) /\ (step = "write" => at[i] <= Len(Order))
      <3>1. at[i] \in 1 .. 4 /\ Len(Order) = 3
        BY DEF TypeOK, Types, Order
      <3>. QED  BY <1>9, <3>1 DEF Check
    <2>3. CASE Return(i, "refused")
      <3>1. "refused" \in Ends
        BY DEF Ends
      <3>. QED  BY <2>1, <2>3, <3>1, ReturnPrivate, TypePartsNext
    <2>4. ASSUME NEW step \in {"write", "verify", "mark"}, Continue(i, step),
                 step = "write" => at[i] <= Len(Order)
          PROVE  TypeOK'
      <3>1. step \in Places \ {"idle"} /\ step # "data"
        BY DEF Places, Ends
      <3>2. step = "write" => at[i] \in 1 .. 3
        BY <2>4 DEF TypeOK, Types, Order
      <3>3. receipt'[job[i]] # None
        BY <1>0, <2>1 DEF Sound, Going
      <3>. QED  BY <2>1, <2>4, <3>1, <3>2, <3>3, ContinuePrivate, TypePartsNext
    <2>. QED  BY <2>2, <2>3, <2>4
  <1>10. CASE WriteFile(i)
    <2>1. pc[i] = "write" /\ sync' = sync /\ pc[i] \in Locked /\ at[i] \in 1 .. 3
      BY <1>0, <1>10 DEF WriteFile, Locked, Places, Ends, Sound
    <2>2. CASE Recognised(job[i], Order[at[i]])
      <3>1. /\ file' = [file EXCEPT ![Order[at[i]]] = Target(job[i])[Order[at[i]]]]
            /\ at' = [at EXCEPT ![i] = @ + 1] /\ pc' = [pc EXCEPT ![i] = "check"]
            /\ UNCHANGED <<root, data, job, known>>
            /\ UNCHANGED <<vault, base, cursor, receipt, saved, stops, restores>>
        BY <1>10, <2>2 DEF WriteFile, Go
      <3>2. job[i] \in Proposals /\ receipt[job[i]] # None
        BY <1>0, <2>1 DEF Sound, Going
      <3>3. file' \in Trees
        <4>1. Target(job[i]) \in Trees /\ file \in Trees
          BY <1>0, <3>2, TargetType DEF Shared
        <4>2. Order[at[i]] \in Files
          BY <2>1 DEF Order, Files, Docs
        <4>. QED  BY <3>1, <4>1, <4>2, SwapFile
      <3>4. ASSUME NEW j \in Procs PROVE Sound(j)'
        BY <2>1, <3>1 DEF TypeOK, Types, Sound, Locked, Going, Places, Ends
      <3>5. pc' \in [Procs -> Places] /\ at' \in [Procs -> 1 .. 4]
        BY <2>1, <3>1 DEF TypeOK, Types, Places
      <3>. QED  BY <1>0, <2>1, <3>1, <3>3, <3>4, <3>5, TypePartsNext
                DEF TypeOK, Types, Shared, Private, Syncing
    <2>3. CASE ~ Recognised(job[i], Order[at[i]])
      <3>1. Return(i, "refused") /\ receipt' = receipt /\ Shared' /\ "refused" \in Ends
        BY <1>0, <1>10, <2>3 DEF WriteFile, Ends, Shared
      <3>. QED  BY <2>1, <3>1, ReturnPrivate, TypePartsNext
    <2>. QED  BY <2>2, <2>3
  <1>11. CASE MarkApplied(i)
    <2>1. /\ pc[i] = "mark" /\ sync' = sync /\ Continue(i, "verify")
          /\ UNCHANGED <<file, vault, base, cursor, saved, stops, restores>>
          /\ receipt' = [receipt EXCEPT ![job[i]].state = "applied"]
      BY <1>11 DEF MarkApplied
    <2>2. receipt[job[i]] \in Receipts /\ receipt[job[i]] # None
      BY <1>0, <2>1 DEF TypeOK, Types, Sound, Going
    <2>3. [receipt[job[i]] EXCEPT !.state = "applied"] \in Receipts
      BY <2>2 DEF Receipts
    <2>4. Shared'
      BY <1>0, <2>1, <2>3 DEF Shared
    <2>5. \A p \in Proposals : receipt[p] # None => receipt'[p] # None
      BY <2>1, <2>3, ApplyAssumption DEF TypeOK, Types
    <2>6. "verify" \in Places \ {"idle"} /\ pc[i] \in Locked
      BY <2>1 DEF Places, Ends, Locked
    <2>. QED  BY <1>0, <2>1, <2>2, <2>4, <2>5, <2>6, ContinuePrivate, TypePartsNext
  <1>12. CASE Verify(i)
    <2>1. /\ pc[i] = "verify" /\ UNCHANGED <<sync, receipt>> /\ Shared' /\ "refused" \in Ends
          /\ Continue(i, "commit") \/ Return(i, "refused")
      BY <1>0, <1>12 DEF Verify, Shared, Ends
    <2>2. "commit" \in Places \ {"idle"} /\ pc[i] \in Locked /\ receipt[job[i]] # None
      BY <1>0, <2>1 DEF Places, Ends, Locked, Sound, Going
    <2>3. Private' /\ Syncing'
      BY <2>1, <2>2, ReturnPrivate, ContinuePrivate
    <2>. QED  BY <2>1, <2>3, TypePartsNext
  <1>13. CASE Commit(i)
    <2>1. /\ pc[i] = "commit" /\ sync' = sync /\ {"accepted", "refused"} \subseteq Ends
          /\ Return(i, "accepted") \/ Return(i, "refused")
          /\ UNCHANGED <<file, vault, base, receipt, saved, stops, restores>>
          /\ \/ cursor' = cursor
             \/ cursor' = [cursor EXCEPT ![SessionOf[job[i]]] = To[job[i]]]
      BY <1>13 DEF Commit, Ends
    <2>2. To[job[i]] \in Boundaries
      BY <1>0, <2>1, ApplyAssumption
    <2>3. Shared'
      BY <1>0, <2>1, <2>2 DEF Shared
    <2>4. Private' /\ Syncing'
      BY <2>1, ReturnPrivate
    <2>. QED  BY <2>3, <2>4, TypePartsNext
  <1>14. CASE Exit(i)
    <2>1. /\ pc[i] \in Ends /\ pc' = [pc EXCEPT ![i] = "idle"] /\ job' = [job EXCEPT ![i] = None]
          /\ UNCHANGED <<root, data, known, at, sync, receipt>> /\ Shared'
      BY <1>0, <1>14 DEF Exit, Go, Shared
    <2>2. ASSUME NEW j \in Procs PROVE Sound(j)'
      BY <2>1 DEF TypeOK, Types, Sound, Locked, Going, Ends
    <2>3. pc' \in [Procs -> Places] /\ job' \in [Procs -> Proposals \cup {None}]
      BY <2>1 DEF TypeOK, Types, Places
    <2>. QED  BY <2>1, <2>2, <2>3, TypePartsNext DEF TypeOK, Types, Private, Syncing
  <1>. QED  BY <1>1, <1>2, <1>3, <1>4, <1>5, <1>6, <1>7, <1>8, <1>9, <1>10, <1>11,
               <1>12, <1>13, <1>14 DEF Step

LEMMA OthersTypeOK ==
    ASSUME TypeOK, NEW i \in Procs, Stop(i) \/ \E p \in Proposals : Start(i, p)
    PROVE  TypeOK'
  <1> USE DEF disk, people
  <1>1. CASE Stop(i)
    <2>1. /\ pc[i] # "idle" /\ pc' = [pc EXCEPT ![i] = "idle"]
          /\ job' = [job EXCEPT ![i] = None] /\ known' = [known EXCEPT ![i] = None]
          /\ at' = [at EXCEPT ![i] = 1] /\ UNCHANGED <<sync, receipt>>
          /\ root' = IF root = i THEN None ELSE root
          /\ data' = IF data = i THEN None ELSE data
      BY <1>1 DEF Stop, Go
    <2>2. Shared'
      BY <1>1, ApplyAssumption DEF Stop, TypeOK, Types, Shared
    <2>3. ASSUME NEW j \in Procs PROVE Sound(j)'
      <3>1. CASE j = i
        BY <2>1, <3>1 DEF TypeOK, Types, Sound, Locked, Going
      <3>2. CASE j # i
        BY <2>1, <3>2 DEF TypeOK, Types, Sound
      <3>. QED  BY <3>1, <3>2
    <2>4. Syncing'
      BY <2>1, ApplyAssumption DEF TypeOK, Types, Syncing
    <2>5. /\ pc' \in [Procs -> Places] /\ job' \in [Procs -> Proposals \cup {None}]
          /\ known' \in [Procs -> Trees \cup {None}] /\ at' \in [Procs -> 1 .. 4]
          /\ root' \in Procs \cup {None} /\ data' \in Procs \cup {None, "sync"}
      BY <2>1 DEF TypeOK, Types, Places
    <2>. QED  BY <2>2, <2>3, <2>4, <2>5, TypePartsNext DEF Private
  <1>2. ASSUME NEW p \in Proposals, Start(i, p) PROVE TypeOK'
    <2>1. PICK step \in {"root", "refused"} : pc' = [pc EXCEPT ![i] = step]
      BY <1>2 DEF Start, Go
    <2>2. /\ job' = [job EXCEPT ![i] = p] /\ UNCHANGED <<root, data, known, at, sync, receipt>>
          /\ pc[i] = "idle" /\ p # None
      BY <1>2, ApplyAssumption DEF Start
    <2>3. Shared'
      BY <1>2 DEF Start, TypeOK, Types, Shared
    <2>4. ASSUME NEW j \in Procs PROVE Sound(j)'
      BY <2>1, <2>2 DEF TypeOK, Types, Sound, Locked, Going, Ends
    <2>5. pc' \in [Procs -> Places] /\ job' \in [Procs -> Proposals \cup {None}]
      BY <2>1, <2>2 DEF TypeOK, Types, Places, Ends
    <2>. QED  BY <2>2, <2>3, <2>4, <2>5, TypePartsNext DEF TypeOK, Types, Private, Syncing
  <1>. QED  BY <1>1, <1>2

\* Syncs and people leave the applies alone.
LEMMA ElsePrivate ==
    ASSUME TypeOK, UNCHANGED <<root, locals, receipt>>,
           data' = data \/ (data \notin Procs /\ data' \in {None, "sync"})
    PROVE  Private'
  <1>1. ASSUME NEW j \in Procs PROVE Sound(j)'
    BY DEF TypeOK, Types, Sound, locals
  <1>. QED  BY <1>1 DEF TypeOK, Types, Private, locals

LEMMA EndSyncPrivate ==
    ASSUME TypeOK, UNCHANGED <<root, locals, receipt>>, EndSync
    PROVE  Private' /\ Syncing'
  <1>1. data' = data \/ (data \notin Procs /\ data' \in {None, "sync"})
    BY ApplyAssumption DEF EndSync
  <1>. QED  BY <1>1, ElsePrivate DEF EndSync, Syncing

\* One document of a tree is replaced.
LEMMA SwapDoc ==
    ASSUME NEW t \in Trees, NEW d \in Docs, NEW b \in Bodies
    PROVE  [t EXCEPT ![d] = b] \in Trees
  <1> DEFINE n == [t EXCEPT ![d] = b]
  <1>1. n = [g \in Files |-> n[g]] /\ \A g \in Files : n[g] = IF g = d THEN b ELSE t[g]
    BY DEF Trees
  <1>2. n["ledger"] = t["ledger"] /\ \A e \in Docs : n[e] = b \/ n[e] = t[e]
    BY <1>1 DEF Files, Docs
  <1>3. n \in Trees
    <2> HIDE DEF n
    <2>. QED  BY <1>1, <1>2, TreeParts, MakeTree
  <1>. QED  BY <1>3

LEMMA SwapLedger ==
    ASSUME NEW t \in Trees, NEW l \in Ledgers
    PROVE  [t EXCEPT !["ledger"] = l] \in Trees
  <1> DEFINE n == [t EXCEPT !["ledger"] = l]
  <1>1. n = [g \in Files |-> n[g]] /\ \A g \in Files : n[g] = IF g = "ledger" THEN l ELSE t[g]
    BY DEF Trees
  <1>2. n["ledger"] = l /\ \A e \in Docs : n[e] = t[e]
    BY <1>1 DEF Files, Docs
  <1>3. n \in Trees
    <2> HIDE DEF n
    <2>. QED  BY <1>1, <1>2, TreeParts, MakeTree
  <1>. QED  BY <1>3

\* What Align makes of the documents.
Behind == {d \in Docs : \E e \in Docs : file[d].rev < file[e].rev}
Raised(d) == [file[d] EXCEPT !.rev =
                CHOOSE r \in {file[e].rev : e \in Docs} : r > file[d].rev]
Aligned == [d \in Docs |-> IF d \in Behind THEN Raised(d) ELSE file[d]]

LEMMA AlignedType ==
    ASSUME TypeOK
    PROVE  \A d \in Docs : /\ Aligned[d] \in Bodies /\ Aligned[d].by = file[d].by
                           /\ Aligned[d].edits = file[d].edits
  <1> SUFFICES ASSUME NEW d \in Docs
               PROVE  /\ Aligned[d] \in Bodies /\ Aligned[d].by = file[d].by
                      /\ Aligned[d].edits = file[d].edits
    OBVIOUS
  <1>1. \A e \in Docs : file[e] \in Bodies /\ file[e].rev \in Nat
    BY TreeParts DEF TypeOK, Types, Bodies
  <1>2. CASE d \in Behind
    <2> DEFINE r == CHOOSE r \in {file[e].rev : e \in Docs} : r > file[d].rev
    <2>1. \E x \in {file[e].rev : e \in Docs} : x > file[d].rev
      <3>1. PICK e \in Docs : file[d].rev < file[e].rev
        BY <1>2 DEF Behind
      <3>2. file[e].rev > file[d].rev /\ file[e].rev \in {file[x].rev : x \in Docs}
        BY <1>1, <3>1
      <3>. QED  BY <3>2
    <2>2. r \in {file[e].rev : e \in Docs}
      BY <2>1
    <2>3. r \in Nat
      BY <1>1, <2>2
    <2>4. Aligned[d] = [file[d] EXCEPT !.rev = r]
      BY <1>2 DEF Aligned, Raised
    <2> HIDE DEF r
    <2>. QED  BY <1>1, <2>3, <2>4 DEF Bodies
  <1>3. CASE d \notin Behind
    BY <1>1, <1>3 DEF Aligned
  <1>. QED  BY <1>2, <1>3

LEMMA AlignStep ==
    ASSUME TypeOK, Align
    PROVE  /\ file' = [f \in Files |-> IF f \in Behind THEN Aligned[f] ELSE file[f]]
           /\ vault' = [f \in Files |-> IF f \in Behind THEN Aligned[f] ELSE vault[f]]
           /\ base' = [d \in Docs |-> IF d \in Behind THEN Aligned[d] ELSE base[d]]
           /\ sync' = [sync EXCEPT !.next = "ledger", !.publish = @ \/ Behind # {}]
           /\ sync # None /\ sync.next = "align" /\ ~ sync.bad
           /\ UNCHANGED <<data, Rest>>
  BY DEF Align, Behind, Raised, Aligned

LEMMA SyncTypeOK ==
    ASSUME TypeOK, BeginSync \/ RepairLedger \/ SyncStep
    PROVE  TypeOK'
  <1>0. Shared /\ (sync # None => sync \in Syncs)
    BY DEF TypeOK, Types, Shared
  <1>1. CASE BeginSync
    <2>1. UNCHANGED <<file, vault, base, cursor, receipt, root, locals, saved, restores, stops>>
      BY <1>1 DEF BeginSync, Rest, people
    <2>2. sync' \in Syncs
      BY <1>0, <1>1 DEF BeginSync, Syncs, Shared, Docs, Revision, Whole
    <2>3. data' = data \/ (data \notin Procs /\ data' \in {None, "sync"})
      BY <1>1, ApplyAssumption DEF BeginSync, Free
    <2>4. Private'
      BY <2>1, <2>3, ElsePrivate
    <2>5. Syncing'
      BY <1>1, <2>2 DEF BeginSync, Syncing
    <2>6. Shared'
      BY <1>0, <2>1 DEF Shared
    <2>. QED  BY <2>4, <2>5, <2>6, TypePartsNext
  <1>2. CASE RepairLedger
    <2>1. /\ UNCHANGED <<file, base, cursor, receipt, root, data, locals, sync, saved, restores, stops>>
          /\ vault' = [vault EXCEPT !["ledger"] = file["ledger"]]
      BY <1>2 DEF RepairLedger, Rest, people
    <2>2. vault' \in Trees
      BY <1>0, <2>1, SwapLedger, TreeParts DEF Shared
    <2>3. Private' /\ Syncing'
      BY <2>1, ElsePrivate DEF TypeOK, Types, Syncing
    <2>4. Shared'
      BY <1>0, <2>1, <2>2 DEF Shared
    <2>. QED  BY <2>3, <2>4, TypePartsNext
  <1>3. CASE SyncDocument
    <2> DEFINE d == sync.next
               a == Accepted(d)
    <2>1. UNCHANGED <<data, cursor, receipt, root, locals, saved, restores, stops>>
      BY <1>3 DEF SyncDocument, Rest, people
    <2>2. sync \in Syncs /\ d \in Docs
      BY <1>0, <1>3 DEF SyncDocument
    <2>3. sync' \in Syncs
      BY ZenonT(60), <1>3, <2>2 DEF SyncDocument, Syncs, Docs
    <2>4. \/ UNCHANGED <<file, vault, base>>
          \/ /\ a # None /\ file' = [file EXCEPT ![d] = a]
             /\ vault' = [vault EXCEPT ![d] = a] /\ base' = [base EXCEPT ![d] = a]
      BY <1>3 DEF SyncDocument
    <2>5. a # None => a \in Bodies
      BY <1>3, <2>2, AcceptedType DEF SyncDocument
    <2>6. file' \in Trees /\ vault' \in Trees /\ base' \in [Docs -> Bodies]
      <3> HIDE DEF a
      <3>. QED  BY <1>0, <2>2, <2>4, <2>5, SwapDoc DEF Shared
    <2>7. Private' /\ Syncing'
      BY <1>3, <2>1, <2>3, ElsePrivate DEF TypeOK, Types, Syncing, SyncDocument
    <2>8. Shared'
      BY <1>0, <2>1, <2>6 DEF Shared
    <2>. QED  BY <2>7, <2>8, TypePartsNext
  <1>4. CASE Align
    <2>1. /\ file' = [f \in Files |-> IF f \in Behind THEN Aligned[f] ELSE file[f]]
          /\ vault' = [f \in Files |-> IF f \in Behind THEN Aligned[f] ELSE vault[f]]
          /\ base' = [d \in Docs |-> IF d \in Behind THEN Aligned[d] ELSE base[d]]
          /\ sync' = [sync EXCEPT !.next = "ledger", !.publish = @ \/ Behind # {}]
          /\ sync # None
          /\ UNCHANGED <<data, cursor, receipt, root, locals, saved, restores, stops>>
      BY <1>4, AlignStep DEF Rest, people
    <2>2. "ledger" \notin Behind /\ \A d \in Docs : d \in Files /\ Aligned[d] \in Bodies
      BY AlignedType DEF Behind, Docs, Files
    <2>3. /\ file["ledger"] \in Ledgers /\ vault["ledger"] \in Ledgers
          /\ \A d \in Docs : file[d] \in Bodies /\ vault[d] \in Bodies /\ base[d] \in Bodies
      BY <1>0, TreeParts DEF Shared
    <2>4. \A d \in Docs : /\ file'[d] \in Bodies /\ vault'[d] \in Bodies /\ base'[d] \in Bodies
      BY <2>1, <2>2, <2>3
    <2>5. file'["ledger"] \in Ledgers /\ vault'["ledger"] \in Ledgers
      BY <2>1, <2>2, <2>3 DEF Files
    <2>6. file' = [f \in Files |-> file'[f]] /\ vault' = [f \in Files |-> vault'[f]]
      BY <2>1
    <2>7. file' \in Trees /\ vault' \in Trees
      BY <2>4, <2>5, <2>6, MakeTree
    <2>8. base' \in [Docs -> Bodies]
      BY <2>1, <2>4
    <2>9. sync' \in Syncs
      BY <1>0, <2>1 DEF Syncs
    <2>10. Private' /\ Syncing'
      BY <2>1, <2>9, ElsePrivate DEF TypeOK, Types, Syncing
    <2>11. Shared'
      BY <1>0, <2>1, <2>7, <2>8 DEF Shared
    <2>. QED  BY <2>10, <2>11, TypePartsNext
  <1>5. CASE Publish
    <2> DEFINE ledger == [file["ledger"] EXCEPT !.names = [d \in Docs |-> file[d]],
                                                !.stamp = @ + 1]
    <2>1. /\ UNCHANGED <<base, cursor, receipt, root, locals, saved, restores, stops>> /\ EndSync
          /\ file' = [file EXCEPT !["ledger"] = ledger]
          /\ vault' = [vault EXCEPT !["ledger"] = ledger]
      BY SMTT(60), <1>5 DEF Publish, Rest, people
    <2>2. ledger \in Ledgers
      <3>1. file["ledger"] \in Ledgers /\ [d \in Docs |-> file[d]] \in [Docs -> Bodies]
        BY <1>0, TreeParts DEF Shared
      <3>2. file["ledger"].stamp + 1 \in Nat
        BY <3>1 DEF Ledgers
      <3>. QED  BY <3>1, <3>2 DEF Ledgers
    <2>3. file' \in Trees /\ vault' \in Trees
      <3> HIDE DEF ledger
      <3>. QED  BY <1>0, <2>1, <2>2, SwapLedger DEF Shared
    <2>4. Private' /\ Syncing'
      BY <2>1, EndSyncPrivate
    <2>5. Shared'
      BY <1>0, <2>1, <2>3 DEF Shared
    <2>. QED  BY <2>4, <2>5, TypePartsNext
  <1>6. CASE SyncEnds
    <2>1. UNCHANGED <<file, vault, base, cursor, receipt, root, locals, saved, restores, stops>> /\ EndSync
      BY <1>6 DEF SyncEnds, Rest, people
    <2>. QED  BY <1>0, <2>1, EndSyncPrivate, TypePartsNext DEF Shared
  <1>. QED  BY <1>1, <1>2, <1>3, <1>4, <1>5, <1>6 DEF SyncStep

LEMMA PeopleTypeOK ==
    ASSUME TypeOK, \/ \E d \in Docs, e \in Edits : EditProject(d, e) \/ EditVault(d, e)
                   \/ \E F \in SUBSET Files \ {{}} : Restore(F)
    PROVE  TypeOK'
  <1>0. Shared
    BY DEF TypeOK, Types, Shared
  <1>1. ASSUME NEW d \in Docs, NEW e \in Edits, NEW t \in Trees
        PROVE  [t EXCEPT ![d].edits = @ \cup {e}] \in Trees
    <2>1. t[d] \in Bodies
      BY TreeParts
    <2>2. [t[d] EXCEPT !.edits = @ \cup {e}] \in Bodies
      BY <2>1 DEF Bodies
    <2>. QED  BY <2>2, SwapDoc
  <1>2. ASSUME NEW d \in Docs, NEW e \in Edits, EditProject(d, e) PROVE TypeOK'
    <2>1. /\ file' = [file EXCEPT ![d].edits = @ \cup {e}] /\ saved' = saved \cup {e}
          /\ UNCHANGED <<vault, base, cursor, receipt, root, data, locals, sync, restores, stops>>
      BY <1>2 DEF EditProject
    <2>2. Shared'
      BY <1>0, <1>1, <2>1 DEF Shared
    <2>. QED  BY <2>1, <2>2, ElsePrivate, TypePartsNext DEF TypeOK, Types, Syncing
  <1>3. ASSUME NEW d \in Docs, NEW e \in Edits, EditVault(d, e) PROVE TypeOK'
    <2>1. /\ vault' = [vault EXCEPT ![d].edits = @ \cup {e}] /\ saved' = saved \cup {e}
          /\ UNCHANGED <<file, base, cursor, receipt, root, data, locals, sync, restores, stops>>
      BY <1>3 DEF EditVault
    <2>2. Shared'
      BY <1>0, <1>1, <2>1 DEF Shared
    <2>. QED  BY <2>1, <2>2, ElsePrivate, TypePartsNext DEF TypeOK, Types, Syncing
  <1>4. ASSUME NEW F \in SUBSET Files \ {{}}, Restore(F) PROVE TypeOK'
    <2>1. /\ file' = [f \in Files |-> IF f \in F THEN First[f] ELSE file[f]]
          /\ restores < MaxRestores /\ restores' = restores + 1
          /\ UNCHANGED <<vault, base, cursor, receipt, root, data, locals, sync, saved, stops>>
      BY <1>4 DEF Restore
    <2>2. file'["ledger"] = First["ledger"] \/ file'["ledger"] = file["ledger"]
      BY <2>1 DEF Files
    <2>3. \A d \in Docs : file'[d] = First[d] \/ file'[d] = file[d]
      BY <2>1 DEF Files
    <2>4. file'["ledger"] \in Ledgers /\ \A d \in Docs : file'[d] \in Bodies
      BY <1>0, <2>2, <2>3, FirstType, TreeParts DEF Shared
    <2>5. file' \in Trees
      <3>1. file' = [f \in Files |-> file'[f]]
        BY <2>1
      <3>. QED  BY <2>4, <3>1, MakeTree
    <2>6. Shared'
      BY <1>0, <2>1, <2>5, ApplyAssumption DEF Shared
    <2>. QED  BY <2>1, <2>6, ElsePrivate, TypePartsNext DEF TypeOK, Types, Syncing
  <1>. QED  BY <1>2, <1>3, <1>4

LEMMA StutterTypeOK == ASSUME TypeOK, UNCHANGED vars PROVE TypeOK'
  BY DEF TypeOK, Types, Sound, vars, disk, locals, people

LEMMA NextTypeOK == TypeOK /\ [Next]_vars => TypeOK'
  BY StepTypeOK, OthersTypeOK, SyncTypeOK, PeopleTypeOK, StutterTypeOK DEF Next

\* The variables have their types and applies and syncs their locks, for any
\* processes, proposals, sessions, edits and bounds.
THEOREM TypeCorrect == Spec => []TypeOK
  BY InitTypeOK, NextTypeOK, PTL DEF Spec

-----------------------------------------------------------------------------
(* One proposal at a time.                                                   *)

Loading == {"load", "plan", "prepare"}

NoneUnfinished == \A q \in Proposals : ~ Unfinished(q)

\* An unfinished proposal is alone and its session has not moved; who is about
\* to make a receipt found no unfinished one, and who works from a receipt
\* has not finished it.
InOrder ==
    /\ \A p \in Proposals : Unfinished(p) => AtStart(p)
    /\ \A p, q \in Proposals : Unfinished(p) /\ Unfinished(q) => p = q
    /\ \A i \in Procs :
          /\ pc[i] \in Loading =>
                receipt[job[i]] = None /\ AtStart(job[i]) /\ NoneUnfinished
          /\ pc[i] \in Going => Unfinished(job[i])
          /\ pc[i] \in {"verify", "commit"} => Applied(job[i])

LEMMA Ranges ==
    ASSUME NEW p \in Proposals
    PROVE  /\ SessionOf[p] \in Sessions
           /\ From[p].line \in Nat /\ To[p].line \in Nat /\ Origin.line = 0
           /\ From[p].line < To[p].line /\ From[p] # To[p] /\ To[p] # Origin
  BY ApplyAssumption DEF Boundaries

LEMMA StartNotPast == ASSUME NEW p \in Proposals, AtStart(p) PROVE ~ Past(p)
  BY Ranges DEF AtStart, Past, AtBoundary, AtOrBeyond

\* Only these three steps change cursors and receipts.
LEMMA KeepUnfinished ==
    ASSUME UNCHANGED <<cursor, receipt>>
    PROVE  /\ \A p \in Proposals : /\ Unfinished(p)' <=> Unfinished(p)
                                   /\ AtStart(p)' <=> AtStart(p)
                                   /\ Applied(p)' <=> Applied(p)
                                   /\ Past(p)' <=> Past(p)
           /\ NoneUnfinished' <=> NoneUnfinished
  BY DEF Unfinished, AtStart, Applied, Past, AtBoundary, AtOrBeyond, NoneUnfinished

LEMMA InitInOrder == Init => InOrder
  BY ApplyAssumption DEF Init, InOrder, Unfinished, Loading, Going

\* A process is at a step of the lists only when it was there before, or came
\* there by one of its steps.
LEMMA KeepInOrder ==
    ASSUME TypeOK, InOrder, UNCHANGED <<cursor, receipt>>,
           \A j \in Procs :
              \/ pc'[j] = pc[j] /\ job'[j] = job[j]
              \/ pc'[j] \notin Loading \cup Going
              \/ /\ job'[j] = job[j] /\ job[j] \in Proposals
                 /\ pc[j] \in Loading /\ pc'[j] \in Loading
              \/ /\ job'[j] = job[j] /\ job[j] \in Proposals
                 /\ pc'[j] \in Loading /\ receipt[job[j]] = None /\ AtStart(job[j])
                 /\ NoneUnfinished
              \/ /\ job'[j] = job[j] /\ job[j] \in Proposals
                 /\ pc'[j] \in Going /\ Unfinished(job[j])
                 /\ pc'[j] \in {"verify", "commit"} => Applied(job[j])
    PROVE  InOrder'
  <1>1. ASSUME NEW j \in Procs
        PROVE  /\ pc'[j] \in Loading =>
                     receipt[job'[j]] = None /\ AtStart(job'[j]) /\ NoneUnfinished
               /\ pc'[j] \in Going => Unfinished(job'[j])
               /\ pc'[j] \in {"verify", "commit"} => Applied(job'[j])
    <2>1. {"verify", "commit"} \subseteq Going /\ \A x \in Going : x \notin Loading
      BY DEF Going, Loading
    <2>. QED  BY <2>1 DEF InOrder
  <1>2. \A j \in Procs : /\ pc'[j] \in Loading =>
                               receipt'[job'[j]] = None /\ AtStart(job[j])' /\ NoneUnfinished'
                         /\ pc'[j] \in Going => Unfinished(job[j])'
                         /\ pc'[j] \in {"verify", "commit"} => Applied(job[j])'
    BY <1>1, KeepUnfinished DEF Unfinished, AtStart, Applied, Past, AtBoundary, AtOrBeyond
  <1>3. /\ \A p \in Proposals : Unfinished(p)' => AtStart(p)'
        /\ \A p, q \in Proposals : Unfinished(p)' /\ Unfinished(q)' => p = q
    BY KeepUnfinished DEF InOrder
  <1>. QED  BY <1>2, <1>3 DEF InOrder

LEMMA Alone ==
    ASSUME TypeOK, NEW i \in Procs, pc[i] \in Locked
    PROVE  /\ \A j \in Procs : j # i => pc[j] \notin Loading \cup Going
           /\ job[i] \in Proposals /\ pc[i] # "idle"
  <1>1. Loading \cup Going \subseteq Locked /\ "idle" \notin Locked
    BY DEF Loading, Going, Locked, Places, Ends
  <1>. QED  BY <1>1 DEF TypeOK, Types, Sound

\* A process that does not touch cursors and receipts.
LEMMA QuietStep ==
    ASSUME TypeOK, InOrder, NEW i \in Procs, UNCHANGED <<cursor, receipt, job>>,
           job[i] \in Proposals, NEW step, pc' = [pc EXCEPT ![i] = step],
           \/ step \notin Loading \cup Going
           \/ step \in Loading /\ pc[i] \in Loading
           \/ /\ step \in Loading /\ receipt[job[i]] = None /\ AtStart(job[i])
              /\ NoneUnfinished
           \/ /\ step \in Going /\ Unfinished(job[i])
              /\ step \in {"verify", "commit"} => Applied(job[i])
    PROVE  InOrder'
  <1>1. pc'[i] = step /\ \A j \in Procs : j # i => pc'[j] = pc[j]
    BY DEF TypeOK, Types
  <1>. QED  BY <1>1, KeepInOrder

LEMMA ReturnInOrder ==
    ASSUME TypeOK, InOrder, NEW i \in Procs, NEW answer \in Ends, Return(i, answer),
           pc[i] # "idle", UNCHANGED <<cursor, receipt>>
    PROVE  InOrder'
  <1>1. pc' = [pc EXCEPT ![i] = answer] /\ job' = job
    BY DEF Return, Go
  <1>2. job[i] \in Proposals
    BY DEF TypeOK, Types, Sound
  <1>3. answer \notin Loading \cup Going
    BY DEF Ends, Loading, Going
  <1>. QED  BY <1>1, <1>2, <1>3, QuietStep

\* What makes, marks and ends a receipt.
LEMMA SavePreparedOrder ==
    ASSUME TypeOK, InOrder, NEW i \in Procs, SavePrepared(i)
    PROVE  /\ InOrder'
           /\ \A q \in Proposals : Unfinished(q)' <=> q = job[i]
           /\ \A q \in Proposals : Applied(q)' <=> Applied(q)
  <1> DEFINE p == job[i]
  <1>1. /\ pc[i] = "prepare" /\ pc' = [pc EXCEPT ![i] = "check"] /\ job' = job
        /\ cursor' = cursor
        /\ receipt' = [receipt EXCEPT ![p] = [state |-> "prepared", before |-> known[i]]]
    BY DEF SavePrepared, Continue, Go
  <1>2. /\ p \in Proposals /\ \A j \in Procs : j # i => pc[j] \notin Loading \cup Going
        /\ known[i] \in Trees
    BY <1>1, Alone DEF Locked, Places, Ends, TypeOK, Types, Sound
  <1>3. receipt[p] = None /\ AtStart(p) /\ NoneUnfinished
    BY <1>1 DEF InOrder, Loading
  <1>4. [state |-> "prepared", before |-> known[i]] # None
    BY <1>2, ApplyAssumption DEF Receipts
  <1>5. /\ receipt'[p] # None /\ receipt'[p].state = "prepared"
        /\ \A q \in Proposals : q # p => receipt'[q] = receipt[q]
    BY <1>1, <1>2, <1>4 DEF TypeOK, Types
  <1>6. \A q \in Proposals : Past(q)' <=> Past(q)
    BY <1>1 DEF Past, AtOrBeyond
  <1>7. \A q \in Proposals : Applied(q)' <=> Applied(q)
    BY <1>3, <1>5 DEF Applied
  <1>8. \A q \in Proposals : Unfinished(q)' <=> q = p
    BY <1>3, <1>5, <1>6, <1>7 DEF Unfinished, Applied, NoneUnfinished
  <1>9. AtStart(p)' /\ p' = p
    BY <1>1, <1>3 DEF AtStart, AtBoundary
  <1>10. \A q \in Proposals : Unfinished(q)' => AtStart(q)'
    BY <1>1, <1>3, <1>8 DEF AtStart, AtBoundary
  <1>11. ASSUME NEW j \in Procs
         PROVE  pc'[j] \notin Loading /\ pc'[j] \notin {"verify", "commit"}
                /\ (pc'[j] \in Going => job'[j] = p)
    <2>1. pc'[j] = IF j = i THEN "check" ELSE pc[j]
      BY <1>1 DEF TypeOK, Types
    <2>. QED  BY <1>1, <1>2, <2>1 DEF Loading, Going
  <1>12. \A j \in Procs : pc'[j] \in Going => Unfinished(job[j])'
    <2>1. \A j \in Procs : pc'[j] \in Going => job'[j] = p
      BY <1>11
    <2>2. Unfinished(p)'
      BY <1>2, <1>8, <1>9
    <2>. QED  BY <2>1, <2>2, <1>9
  <1>13. InOrder'
    BY <1>8, <1>10, <1>11, <1>12 DEF InOrder
  <1>. QED  BY <1>7, <1>8, <1>13

LEMMA MarkAppliedOrder ==
    ASSUME TypeOK, InOrder, NEW i \in Procs, MarkApplied(i)
    PROVE  /\ InOrder'
           /\ \A q \in Proposals : Unfinished(q)' <=> Unfinished(q)
           /\ \A q \in Proposals : Applied(q)' <=> (Applied(q) \/ q = job[i])
           /\ \A q \in Proposals : Past(q)' <=> Past(q)
  <1> DEFINE p == job[i]
  <1>1. /\ pc[i] = "mark" /\ pc' = [pc EXCEPT ![i] = "verify"] /\ job' = job
        /\ cursor' = cursor /\ receipt' = [receipt EXCEPT ![p].state = "applied"]
    BY DEF MarkApplied, Continue, Go
  <1>2. p \in Proposals /\ \A j \in Procs : j # i => pc[j] \notin Loading \cup Going
    BY <1>1, Alone DEF Locked, Places, Ends
  <1>3. Unfinished(p) /\ AtStart(p) /\ receipt[p] \in Receipts
    BY <1>1, <1>2 DEF InOrder, Going, TypeOK, Types, Unfinished
  <1>4. [receipt[p] EXCEPT !.state = "applied"] \in Receipts
    BY <1>3 DEF Receipts
  <1>5. /\ receipt'[p] # None /\ receipt'[p].state = "applied"
        /\ \A q \in Proposals : q # p => receipt'[q] = receipt[q]
    <2>1. receipt'[p] = [receipt[p] EXCEPT !.state = "applied"]
      BY <1>1, <1>2 DEF TypeOK, Types
    <2>2. receipt'[p].state = "applied"
      BY <1>3, <2>1 DEF Receipts
    <2>. QED  BY <1>1, <1>2, <1>4, <2>1, <2>2, ApplyAssumption DEF TypeOK, Types
  <1>6. \A q \in Proposals : (Past(q)' <=> Past(q)) /\ (AtStart(q)' <=> AtStart(q))
    BY <1>1 DEF Past, AtOrBeyond, AtStart, AtBoundary
  <1>7. \A q \in Proposals : Applied(q)' <=> (Applied(q) \/ q = p)
    BY <1>5 DEF Applied
  <1>8. \A q \in Proposals : Unfinished(q)' <=> Unfinished(q)
    <2>1. ~ Past(p)
      BY <1>2, <1>3, StartNotPast
    <2>. QED  BY <1>3, <1>5, <1>6, <2>1 DEF Unfinished, Applied
  <1>9. p' = p
    BY <1>1
  <1>10. ASSUME NEW j \in Procs PROVE pc'[j] \notin Loading /\ (pc'[j] \in Going => job'[j] = p)
    <2>1. pc'[j] = IF j = i THEN "verify" ELSE pc[j]
      BY <1>1 DEF TypeOK, Types
    <2>. QED  BY <1>1, <1>2, <2>1 DEF Loading, Going
  <1>11. \A j \in Procs : /\ pc'[j] \in Going => Unfinished(job[j])'
                          /\ pc'[j] \in {"verify", "commit"} => Applied(job[j])'
    <2>1. Unfinished(p)' /\ Applied(p)'
      BY <1>2, <1>3, <1>7, <1>8, <1>9
    <2>2. {"verify", "commit"} \subseteq Going
      BY DEF Going
    <2>. QED  BY <1>9, <1>10, <2>1, <2>2
  <1>12. /\ \A q \in Proposals : Unfinished(q)' => AtStart(q)'
         /\ \A q, r \in Proposals : Unfinished(q)' /\ Unfinished(r)' => q = r
    BY <1>6, <1>8 DEF InOrder
  <1>13. InOrder'
    BY <1>10, <1>11, <1>12 DEF InOrder
  <1>. QED  BY <1>6, <1>7, <1>8, <1>13

\* A cursor moves forwards only, so what was past stays so.
LEMMA CommitOrder ==
    ASSUME TypeOK, InOrder, NEW i \in Procs, Commit(i), Verified(job[i])
    PROVE  /\ InOrder'
           /\ Unfinished(job[i]) /\ Applied(job[i]) /\ AtStart(job[i])
           /\ \A q \in Proposals : Unfinished(q) <=> q = job[i]
           /\ \A q \in Proposals : ~ Unfinished(q)'
           /\ receipt' = receipt
           /\ cursor' = [cursor EXCEPT ![SessionOf[job[i]]] = To[job[i]]]
           /\ Past(job[i])' /\ \A q \in Proposals : Past(q) => Past(q)'
  <1> DEFINE p == job[i]
             s == SessionOf[p]
  <1>1. /\ pc[i] = "commit" /\ pc' = [pc EXCEPT ![i] = "accepted"] /\ job' = job
        /\ receipt' = receipt /\ cursor' = [cursor EXCEPT ![s] = To[p]]
    BY DEF Commit, Return, Go
  <1>2. p \in Proposals /\ \A j \in Procs : j # i => pc[j] \notin Loading \cup Going
    BY <1>1, Alone DEF Locked, Places, Ends
  <1>3. Unfinished(p) /\ Applied(p) /\ AtStart(p)
    BY <1>1, <1>2 DEF InOrder, Going
  <1>4. cursor[s] = From[p] /\ cursor'[s] = To[p] /\ \A r \in Sessions : r # s => cursor'[r] = cursor[r]
    BY <1>1, <1>2, <1>3, Ranges DEF AtStart, AtBoundary, TypeOK, Types
  <1>5. \A q \in Proposals : Past(q) => Past(q)'
    <2> SUFFICES ASSUME NEW q \in Proposals, Past(q) PROVE Past(q)'
      OBVIOUS
    <2>1. CASE SessionOf[q] = s
      <3>1. cursor'[s].line > To[q].line
        BY <1>2, <1>4, <2>1, Ranges DEF Past, AtOrBeyond
      <3>. QED  BY <2>1, <3>1 DEF Past, AtOrBeyond
    <2>2. CASE SessionOf[q] # s
      BY <1>4, <2>2, Ranges DEF Past, AtOrBeyond
    <2>. QED  BY <2>1, <2>2
  <1>6. Past(p)' /\ p' = p
    BY <1>1, <1>2, <1>4, Ranges DEF Past, AtOrBeyond
  <1>7. \A q \in Proposals : Applied(q)' <=> Applied(q)
    BY <1>1 DEF Applied
  <1>8. \A q \in Proposals : Unfinished(q) <=> q = p
    BY <1>2, <1>3 DEF InOrder
  <1>9. \A q \in Proposals : ~ Unfinished(q)'
    <2>1. ~ Unfinished(p)'
      BY <1>2, <1>3, <1>6, <1>7 DEF Unfinished
    <2>2. \A q \in Proposals : q # p => ~ Unfinished(q)'
      BY <1>1, <1>5, <1>7, <1>8 DEF Unfinished
    <2>. QED  BY <1>6, <2>1, <2>2
  <1>10. \A j \in Procs : pc'[j] \notin Loading \cup Going
    <2>1. "accepted" \notin Loading \cup Going
      BY DEF Loading, Going
    <2>. QED  BY <1>1, <1>2, <2>1 DEF TypeOK, Types
  <1>11. InOrder'
    <2>1. {"verify", "commit"} \subseteq Going
      BY DEF Going
    <2>. QED  BY <1>9, <1>10, <2>1 DEF InOrder
  <1>. QED  BY <1>1, <1>3, <1>5, <1>6, <1>8, <1>9, <1>11

LEMMA StepInOrder ==
    ASSUME TypeOK, InOrder, NEW i \in Procs, Step(i) PROVE InOrder'
  <1> USE DEF disk, people
  <1>0. pc[i] # "idle" => job[i] \in Proposals
    BY DEF TypeOK, Types, Sound
  <1>1. CASE LockRoot(i)
    <2>1. /\ pc[i] = "root" /\ UNCHANGED <<cursor, receipt>> /\ "refused" \in Ends
          /\ Return(i, "refused") \/ (pc' = [pc EXCEPT ![i] = "data"] /\ job' = job)
      BY <1>1 DEF LockRoot, Go, Ends
    <2>2. "data" \notin Loading \cup Going
      BY DEF Loading, Going
    <2>. QED  BY <1>0, <2>1, <2>2, ReturnInOrder, QuietStep
  <1>2. CASE LockData(i)
    <2>1. /\ pc[i] = "data" /\ UNCHANGED <<cursor, receipt, job>>
          /\ pc' = [pc EXCEPT ![i] = "scan"] /\ "scan" \notin Loading \cup Going
      BY <1>2 DEF LockData, Go, Loading, Going
    <2>. QED  BY <1>0, <2>1, QuietStep
  <1>3. CASE TimeOut(i) \/ VerifyAgain(i)
    <2>1. /\ pc[i] # "idle" /\ UNCHANGED <<cursor, receipt>>
          /\ \E answer \in Ends : Return(i, answer)
      BY <1>3 DEF TimeOut, VerifyAgain, Ends
    <2>. QED  BY <2>1, ReturnInOrder
  <1>4. CASE ScanReceipts(i)
    <2> DEFINE p == job[i]
    <2>1. pc[i] = "scan" /\ UNCHANGED <<cursor, receipt>> /\ p \in Proposals
      BY <1>0, <1>4 DEF ScanReceipts
    <2>2. \/ Return(i, "refused")
          \/ /\ CursorCompatible(p) /\ ~ Outstanding(p)
             /\ \/ Continue(i, "again")
                \/ receipt[p] # None /\ ~ Past(p) /\ Continue(i, "check")
                \/ receipt[p] = None /\ ~ Past(p) /\ Continue(i, "load")
      BY <1>4 DEF ScanReceipts
    <2>3. CASE Return(i, "refused")
      <3>1. "refused" \in Ends
        BY DEF Ends
      <3>. QED  BY <2>1, <2>3, <3>1, ReturnInOrder
    <2>4. CASE Continue(i, "again")
      <3>1. "again" \notin Loading \cup Going
        BY DEF Loading, Going
      <3>. QED  BY <2>1, <2>4, <3>1, QuietStep DEF Continue, Go
    <2>5. CASE receipt[p] # None /\ ~ Past(p) /\ Continue(i, "check")
      <3>1. "check" \in Going /\ Unfinished(p)
        BY <2>5 DEF Going, Unfinished
      <3>. QED  BY <2>1, <2>5, <3>1, QuietStep DEF Continue, Go
    <2>6. CASE /\ CursorCompatible(p) /\ ~ Outstanding(p)
               /\ receipt[p] = None /\ ~ Past(p) /\ Continue(i, "load")
      <3>1. "load" \in Loading /\ AtStart(p)
        BY <2>6 DEF Loading, CursorCompatible
      <3>2. NoneUnfinished
        BY <2>6 DEF NoneUnfinished, Outstanding, Unfinished
      <3>. QED  BY <2>1, <2>6, <3>1, <3>2, QuietStep DEF Continue, Go
    <2>. QED  BY <2>2, <2>3, <2>4, <2>5, <2>6
  <1>5. CASE Load(i) \/ Plan(i)
    <2>1. /\ pc[i] \in {"load", "plan"} /\ UNCHANGED <<cursor, receipt>> /\ "refused" \in Ends
          /\ \/ Return(i, "refused")
             \/ \E step \in {"plan", "prepare"} : pc' = [pc EXCEPT ![i] = step] /\ job' = job
      BY <1>5 DEF Load, Plan, Continue, Go, Ends
    <2>2. pc[i] \in Loading /\ {"plan", "prepare"} \subseteq Loading
      BY <2>1 DEF Loading
    <2>. QED  BY <1>0, <2>1, <2>2, ReturnInOrder, QuietStep
  <1>6. CASE SavePrepared(i)
    BY <1>6, SavePreparedOrder
  <1>7. CASE Check(i) \/ WriteFile(i) \/ Verify(i)
    <2>1. /\ pc[i] \in Going /\ UNCHANGED <<cursor, receipt>> /\ "refused" \in Ends
          /\ \/ Return(i, "refused")
             \/ \E step \in Going :
                   /\ pc' = [pc EXCEPT ![i] = step] /\ job' = job
                   /\ step = "verify" => Applied(job[i])
                   /\ step = "commit" => pc[i] = "verify"
      BY <1>7 DEF Check, WriteFile, Verify, Continue, Go, Ends, Going
    <2>2. Unfinished(job[i]) /\ (pc[i] = "verify" => Applied(job[i])) /\ pc[i] # "idle"
      BY <2>1 DEF InOrder, Going
    <2>. QED  BY <1>0, <2>1, <2>2, ReturnInOrder, QuietStep
  <1>8. CASE MarkApplied(i)
    BY <1>8, MarkAppliedOrder
  <1>9. CASE Commit(i)
    <2>1. CASE Verified(job[i])
      BY <1>9, <2>1, CommitOrder
    <2>2. CASE ~ Verified(job[i])
      <3>1. /\ pc[i] # "idle" /\ UNCHANGED <<cursor, receipt>> /\ "refused" \in Ends
            /\ Return(i, "refused")
        BY <1>9, <2>2 DEF Commit, Ends
      <3>. QED  BY <3>1, ReturnInOrder
    <2>. QED  BY <2>1, <2>2
  <1>10. CASE Exit(i)
    <2>1. UNCHANGED <<cursor, receipt>> /\ pc' = [pc EXCEPT ![i] = "idle"]
          /\ \A j \in Procs : j # i => job'[j] = job[j]
      BY <1>10 DEF Exit, Go, TypeOK, Types
    <2>2. "idle" \notin Loading \cup Going
      BY DEF Loading, Going
    <2>. QED  BY <2>1, <2>2, KeepInOrder DEF TypeOK, Types
  <1>. QED  BY <1>1, <1>2, <1>3, <1>4, <1>5, <1>6, <1>7, <1>8, <1>9, <1>10 DEF Step

LEMMA NextInOrder == TypeOK /\ InOrder /\ [Next]_vars => InOrder'
  <1> SUFFICES ASSUME TypeOK, InOrder, [Next]_vars PROVE InOrder'
    OBVIOUS
  <1> USE DEF disk, people
  <1>1. ASSUME NEW i \in Procs, Step(i) PROVE InOrder'
    BY <1>1, StepInOrder
  <1>2. ASSUME NEW i \in Procs, Stop(i) \/ \E p \in Proposals : Start(i, p) PROVE InOrder'
    <2>1. /\ UNCHANGED <<cursor, receipt>>
          /\ \E step \in {"idle", "root", "refused"} : pc' = [pc EXCEPT ![i] = step]
          /\ \A j \in Procs : j # i => job'[j] = job[j]
      BY <1>2 DEF Stop, Start, Go, TypeOK, Types
    <2>2. \A x \in {"idle", "root", "refused"} : x \notin Loading \cup Going
      BY DEF Loading, Going
    <2>. QED  BY <2>1, <2>2, KeepInOrder DEF TypeOK, Types
  <1>3. CASE UNCHANGED <<cursor, receipt, pc, job>>
    BY <1>3, KeepInOrder
  <1>4. ASSUME BeginSync \/ RepairLedger \/ SyncStep PROVE UNCHANGED <<cursor, receipt, pc, job>>
    BY <1>4 DEF BeginSync, RepairLedger, SyncStep, SyncDocument, Align, Publish, SyncEnds,
                Rest, locals
  <1>5. ASSUME \/ \E d \in Docs, e \in Edits : EditProject(d, e) \/ EditVault(d, e)
               \/ \E F \in SUBSET Files \ {{}} : Restore(F)
        PROVE  UNCHANGED <<cursor, receipt, pc, job>>
    BY <1>5 DEF EditProject, EditVault, Restore, locals
  <1>6. UNCHANGED vars => UNCHANGED <<cursor, receipt, pc, job>>
    BY DEF vars, locals
  <1>. QED  BY <1>1, <1>2, <1>3, <1>4, <1>5, <1>6 DEF Next

-----------------------------------------------------------------------------
(* Applies implement the atomic ledger.                                      *)

LEMMA InitHistory == Init => History!Init
  BY ApplyAssumption DEF Init, History!Init, Underway, Done, Unfinished, Applied

LEMMA QuietHistory ==
    ASSUME UNCHANGED <<cursor, receipt>> PROVE UNCHANGED History!vars
  BY KeepUnfinished DEF History!vars, Underway, Done

LEMMA SaveBegins ==
    ASSUME TypeOK, InOrder, NEW i \in Procs, SavePrepared(i)
    PROVE  History!Begin(job[i]) /\ job[i] \in Proposals
  <1> DEFINE p == job[i]
  <1>1. pc[i] = "prepare" /\ cursor' = cursor
    BY DEF SavePrepared
  <1>2. p \in Proposals
    BY <1>1, Alone DEF Locked, Places, Ends
  <1>3. receipt[p] = None /\ AtStart(p) /\ NoneUnfinished
    BY <1>1 DEF InOrder, Loading
  <1>4. Underway = {} /\ p \notin Done /\ cursor[SessionOf[p]] = From[p]
    BY <1>3 DEF Underway, NoneUnfinished, Done, Applied, AtStart, AtBoundary
  <1>5. Underway' = {p} /\ Done' = Done
    <2>1. \A q \in Proposals : Past(q)' <=> Past(q)
      BY <1>1 DEF Past, AtOrBeyond
    <2>. QED  BY <1>2, <2>1, SavePreparedOrder DEF Underway, Done
  <1>. QED  BY <1>1, <1>2, <1>4, <1>5 DEF History!Begin

LEMMA MarkStutters ==
    ASSUME TypeOK, InOrder, NEW i \in Procs, MarkApplied(i)
    PROVE  UNCHANGED History!vars
  <1> DEFINE p == job[i]
  <1>1. pc[i] = "mark" /\ cursor' = cursor
    BY DEF MarkApplied
  <1>2. p \in Proposals /\ ~ Past(p)
    <2>1. p \in Proposals
      BY <1>1, Alone DEF Locked, Places, Ends
    <2>2. AtStart(p)
      BY <1>1, <2>1 DEF InOrder, Going
    <2>. QED  BY <2>1, <2>2, StartNotPast
  <1>3. Underway' = Underway /\ Done' = Done
    BY <1>2, MarkAppliedOrder DEF Underway, Done
  <1>. QED  BY <1>1, <1>3 DEF History!vars

LEMMA CommitAccepts ==
    ASSUME TypeOK, InOrder, NEW i \in Procs, Commit(i), Verified(job[i])
    PROVE  History!Accept(job[i]) /\ job[i] \in Proposals
  <1> DEFINE p == job[i]
  <1>1. p \in Proposals
    BY Alone DEF Commit, Locked, Places, Ends
  <1>2. Underway = {p} /\ Underway' = {}
    BY <1>1, CommitOrder DEF Underway
  <1>3. \A q \in Proposals : Applied(q)' <=> Applied(q)
    BY CommitOrder DEF Applied
  <1>4. ASSUME NEW q \in Proposals PROVE q \in Done' <=> q \in Done \/ q = p
    <2>1. (q \in Done)' <=> Applied(q)' /\ Past(q)'
      BY DEF Done
    <2>2. CASE q = p
      <3>1. job' = job
        BY DEF Commit, Return
      <3>2. Applied(p) /\ Past(p)'
        BY CommitOrder
      <3>. QED  BY <1>3, <2>1, <2>2, <3>1, <3>2
    <2>3. CASE q # p
      <3>1. ~ Unfinished(q) /\ ~ Unfinished(q)' /\ (Past(q) => Past(q)')
        BY <2>3, CommitOrder
      <3>2. receipt' = receipt
        BY CommitOrder
      <3>3. q \in Done <=> receipt[q] # None
        BY <3>1 DEF Unfinished, Done, Applied
      <3>4. (q \in Done)' <=> receipt'[q] # None
        BY <3>1 DEF Unfinished, Done, Applied
      <3>. QED  BY <2>3, <3>2, <3>3, <3>4
    <2>. QED  BY <2>2, <2>3
  <1>5. Done' = Done \cup {p}
    BY <1>1, <1>4 DEF Done
  <1>6. cursor' = [cursor EXCEPT ![SessionOf[p]] = To[p]]
    BY CommitOrder
  <1>7. History!Accept(p)
    BY <1>2, <1>5, <1>6 DEF History!Accept
  <1>. QED  BY <1>1, <1>7

\* Every other step leaves cursors and receipts alone.
Settling(i) == SavePrepared(i) \/ MarkApplied(i) \/ (Commit(i) /\ Verified(job[i]))

LEMMA QuietSteps ==
    ASSUME [Next]_vars, \A i \in Procs : ~ Settling(i)
    PROVE  UNCHANGED <<cursor, receipt>>
  <1> USE DEF disk, people
  <1>1. ASSUME NEW i \in Procs, Step(i) PROVE UNCHANGED <<cursor, receipt>>
    BY <1>1 DEF Step, Settling, LockRoot, LockData, TimeOut, ScanReceipts, VerifyAgain, Load,
                Plan, Check, WriteFile, Verify, Commit, Exit
  <1>2. ASSUME NEW i \in Procs, Stop(i) \/ \E p \in Proposals : Start(i, p)
        PROVE  UNCHANGED <<cursor, receipt>>
    BY <1>2 DEF Stop, Start
  <1>3. ASSUME BeginSync \/ RepairLedger \/ SyncStep PROVE UNCHANGED <<cursor, receipt>>
    BY <1>3 DEF BeginSync, RepairLedger, SyncStep, SyncDocument, Align, Publish, SyncEnds, Rest
  <1>4. ASSUME \/ \E d \in Docs, e \in Edits : EditProject(d, e) \/ EditVault(d, e)
               \/ \E F \in SUBSET Files \ {{}} : Restore(F)
        PROVE  UNCHANGED <<cursor, receipt>>
    BY <1>4 DEF EditProject, EditVault, Restore
  <1>5. UNCHANGED vars => UNCHANGED <<cursor, receipt>>
    BY DEF vars
  <1>. QED  BY <1>1, <1>2, <1>3, <1>4, <1>5 DEF Next

LEMMA NextHistory ==
    TypeOK /\ InOrder /\ [Next]_vars => [History!Next]_(History!vars)
  <1> SUFFICES ASSUME TypeOK, InOrder, [Next]_vars PROVE [History!Next]_(History!vars)
    OBVIOUS
  <1>1. ASSUME NEW i \in Procs, Settling(i) PROVE [History!Next]_(History!vars)
    BY <1>1, SaveBegins, MarkStutters, CommitAccepts DEF Settling, History!Next
  <1>2. ASSUME \A i \in Procs : ~ Settling(i) PROVE UNCHANGED History!vars
    BY <1>2, QuietSteps, QuietHistory
  <1>. QED  BY <1>1, <1>2

\* Every run of applies, syncs, crashes and people is, to whom sees cursors and
\* receipts only, a run in which proposals are accepted one at a time.
THEOREM AppliesAtomically == Spec => ImplementsAtomicLedger
  <1>1. Spec => [](TypeOK /\ InOrder)
    BY InitTypeOK, NextTypeOK, InitInOrder, NextInOrder, PTL DEF Spec
  <1>. QED  BY <1>1, InitHistory, NextHistory, PTL DEF Spec, ImplementsAtomicLedger, History!Spec

-----------------------------------------------------------------------------
(* What the cursor and the documents say.                                    *)

LEMMA CommitHasFiles ==
    ASSUME TypeOK, InOrder, NEW i \in Procs, Commit(i), Verified(job[i]),
           NEW p \in Proposals \ Empty, receipt[p] # None,
           cursor[SessionOf[p]] # To[p], cursor'[SessionOf[p]] = To[p]
    PROVE  \A f \in Files : p \in file[f].by
  <1> DEFINE q == job[i]
  <1>1. q \in Proposals
    BY Alone DEF Commit, Locked, Places, Ends
  <1>2. p = q
    <2>1. SessionOf[p] = SessionOf[q] /\ To[p] = To[q]
      BY <1>1, CommitOrder, Ranges DEF TypeOK, Types
    <2>2. cursor[SessionOf[p]] = From[q] /\ From[q].line < To[q].line
      BY <1>1, <2>1, CommitOrder, Ranges DEF AtStart, AtBoundary
    <2>3. ~ Past(p)
      BY <1>1, <2>1, <2>2, Ranges DEF Past, AtOrBeyond
    <2>. QED  BY <2>3, CommitOrder DEF Unfinished
  <1>3. \A f \in Files : file[f] = Target(p)[f]
    BY <1>2 DEF Verified, Changes
  <1>. QED  BY <1>3, TargetType

LEMMA NextCursorFollows ==
    TypeOK /\ InOrder /\ [Next]_vars =>
      \A p \in Proposals \ Empty :
          cursor[SessionOf[p]] # To[p] /\ cursor'[SessionOf[p]] = To[p] /\ receipt[p] # None =>
              \A f \in Files : p \in file[f].by
  <1> SUFFICES ASSUME TypeOK, InOrder, [Next]_vars, NEW p \in Proposals \ Empty,
                      cursor[SessionOf[p]] # To[p], cursor'[SessionOf[p]] = To[p],
                      receipt[p] # None
               PROVE  \A f \in Files : p \in file[f].by
    OBVIOUS
  <1>1. cursor' # cursor
    OBVIOUS
  <1>2. PICK i \in Procs : Settling(i)
    BY <1>1, QuietSteps
  <1>3. Commit(i) /\ Verified(job[i])
    BY <1>1, <1>2 DEF Settling, SavePrepared, MarkApplied
  <1>. QED  BY <1>3, CommitHasFiles

\* A cursor passes a proposal only when ledger and documents hold it, whoever
\* edited or restored files since they were written.
THEOREM CursorAlwaysFollows == Spec => CursorFollowsFiles
  <1>1. Spec => [](TypeOK /\ InOrder)
    BY InitTypeOK, NextTypeOK, InitInOrder, NextInOrder, PTL DEF Spec
  <1>. QED  BY <1>1, NextCursorFollows, PTL DEF Spec, CursorFollowsFiles

\* What a step writes into the project's documents.
LEMMA WriteKeepsEdits ==
    ASSUME TypeOK, NEW i \in Procs, WriteFile(i)
    PROVE  \A d \in Docs : file[d].edits \subseteq file'[d].edits
  <1> DEFINE p == job[i]
             f == Order[at[i]]
  <1>1. CASE ~ Recognised(p, f)
    BY <1>1 DEF WriteFile
  <1>2. CASE Recognised(p, f)
    <2>1. file' = [file EXCEPT ![f] = Target(p)[f]] /\ pc[i] = "write"
      BY <1>2 DEF WriteFile
    <2>2. p \in Proposals /\ receipt[p] # None
      BY <2>1 DEF TypeOK, Types, Sound, Going
    <2>3. ASSUME NEW d \in Docs PROVE file[d].edits \subseteq file'[d].edits
      <3>1. CASE d = f
        <4>1. Target(p)[d].edits = receipt[p].before[d].edits
          BY <2>2, TargetType
        <4>2. file[d].edits = Target(p)[d].edits
          BY <1>2, <3>1, <4>1 DEF Recognised
        <4>3. file'[d] = Target(p)[d]
          BY <2>1, <3>1 DEF TypeOK, Types, Trees, Files
        <4>. QED  BY <4>2, <4>3
      <3>2. CASE d # f
        BY <2>1, <3>2 DEF TypeOK, Types, Trees, Files
      <3>. QED  BY <3>1, <3>2
    <2>. QED  BY <2>3
  <1>. QED  BY <1>1, <1>2

LEMMA SyncKeepsEdits ==
    ASSUME TypeOK, SyncDocument
    PROVE  \A d \in Docs : file[d].edits \subseteq file'[d].edits
  <1> DEFINE e == sync.next
             a == Accepted(e)
  <1>1. \/ UNCHANGED file
        \/ /\ a # None /\ file[e] = sync.file[e] /\ file' = [file EXCEPT ![e] = a]
    BY DEF SyncDocument
  <1>2. e \in Docs /\ sync # None
    BY DEF SyncDocument
  <1>3. ASSUME a # None PROVE sync.file[e].edits \subseteq a.edits
    <2>1. base[e] \in Bodies
      BY <1>2 DEF TypeOK, Types
    <2>2. \/ a = sync.file[e]
          \/ a = base[e] /\ sync.file[e].edits \cup sync.vault[e].edits = base[e].edits
          \/ a = [base[e] EXCEPT !.edits = sync.file[e].edits \cup sync.vault[e].edits,
                                 !.rev = @ + 1]
      BY <1>3 DEF Accepted
    <2> HIDE DEF a
    <2>. QED  BY ZenonT(60), <2>1, <2>2 DEF Bodies
  <1>4. ASSUME NEW d \in Docs PROVE file[d].edits \subseteq file'[d].edits
    <2> HIDE DEF a
    <2>1. CASE d = e
      BY <1>1, <1>2, <1>3, <2>1 DEF TypeOK, Types, Trees, Files
    <2>2. CASE d # e
      BY <1>1, <2>2 DEF TypeOK, Types, Trees, Files
    <2>. QED  BY <2>1, <2>2
  <1>. QED  BY <1>4

LEMMA NextKeepsEdits ==
    TypeOK /\ [Next]_vars =>
      \/ restores' # restores
      \/ \A d \in Docs : file[d].edits \subseteq file'[d].edits
  <1> SUFFICES ASSUME TypeOK, [Next]_vars, restores' = restores
               PROVE  \A d \in Docs : file[d].edits \subseteq file'[d].edits
    OBVIOUS
  <1>0. \A d \in Docs : d \in Files /\ d # "ledger" /\ file[d] \in Bodies
    BY TreeParts DEF TypeOK, Types, Docs
  <1>1. ASSUME NEW i \in Procs, Step(i) PROVE UNCHANGED file \/ WriteFile(i)
    BY <1>1 DEF Step, LockRoot, LockData, TimeOut, ScanReceipts, VerifyAgain, Load, Plan,
                SavePrepared, Check, MarkApplied, Verify, Commit, Exit, disk
  <1>2. ASSUME NEW i \in Procs, Stop(i) \/ \E p \in Proposals : Start(i, p) PROVE UNCHANGED file
    BY <1>2 DEF Stop, Start, disk
  <1>3. BeginSync \/ RepairLedger \/ SyncEnds => UNCHANGED file
    BY DEF BeginSync, RepairLedger, SyncEnds
  <1>4. ASSUME Align PROVE \A d \in Docs : file'[d].edits = file[d].edits
    BY <1>0, <1>4, AlignStep, AlignedType
  <1>5. ASSUME Publish PROVE \A d \in Docs : file'[d] = file[d]
    BY <1>0, <1>5 DEF Publish, TypeOK, Types, Trees
  <1>6. ASSUME NEW d \in Docs, NEW e \in Edits, EditProject(d, e)
        PROVE  \A c \in Docs : file[c].edits \subseteq file'[c].edits
    <2>1. file' = [file EXCEPT ![d] = [file[d] EXCEPT !.edits = @ \cup {e}]]
      BY <1>6 DEF EditProject
    <2>2. [file[d] EXCEPT !.edits = @ \cup {e}].edits = file[d].edits \cup {e}
      BY <1>0 DEF Bodies
    <2>3. \A c \in Docs : \/ file'[c] = file[c]
                          \/ c = d /\ file'[c] = [file[d] EXCEPT !.edits = @ \cup {e}]
      BY <1>0, <2>1 DEF TypeOK, Types, Trees
    <2>. QED  BY <2>2, <2>3
  <1>7. ASSUME NEW d \in Docs, NEW e \in Edits, EditVault(d, e) PROVE UNCHANGED file
    BY <1>7 DEF EditVault
  <1>8. ASSUME NEW F \in SUBSET Files \ {{}} PROVE ~ Restore(F)
    BY DEF Restore, TypeOK, Types
  <1>9. UNCHANGED vars => UNCHANGED file
    BY DEF vars, disk
  <1>. QED  BY <1>1, <1>2, <1>3, <1>4, <1>5, <1>6, <1>7, <1>8, <1>9, WriteKeepsEdits,
               SyncKeepsEdits DEF Next, SyncStep

\* No apply and no sync takes an edit of a person out of the project.
THEOREM EditsAlwaysStay == Spec => EditsStay
  <1>1. Spec => []TypeOK
    BY TypeCorrect
  <1>. QED  BY <1>1, NextKeepsEdits, PTL DEF Spec, EditsStay

-----------------------------------------------------------------------------
(* Which proposals the files hold.                                           *)

Begun == {p \in Proposals : receipt[p] # None}
AllApplied == {p \in Proposals : Applied(p)}

Of(t, S) == \A f \in Files : t[f].by \subseteq S

\* Files hold begun proposals only; what a receipt was made for holds applied
\* ones only, for it was read while none was unfinished.
Made ==
    /\ Of(file, Begun)
    /\ \A d \in Docs : base[d].by \subseteq Begun
    /\ \A p \in Begun : Of(receipt[p].before, AllApplied)
    /\ \A i \in Procs : pc[i] \in {"plan", "prepare"} => Of(known[i], AllApplied)
    /\ sync # None => Of(sync.file, Begun)

LEMMA InitMade == Init => Made
  <1>1. Init => Begun = {} /\ \A d \in Docs : base[d].by = {}
    BY ZenonT(60), FirstType DEF Init, Begun, Files
  <1>. QED  BY <1>1, FirstType DEF Init, Made, Of

LEMMA Grows ==
    ASSUME TypeOK, InOrder, [Next]_vars
    PROVE  /\ Begun \subseteq Begun' /\ AllApplied \subseteq AllApplied'
           /\ AllApplied \subseteq Begun
  <1>1. ASSUME NEW i \in Procs, SavePrepared(i)
        PROVE  Begun \subseteq Begun' /\ AllApplied \subseteq AllApplied'
    <2>1. \A q \in Proposals : Applied(q)' <=> Applied(q)
      BY <1>1, SavePreparedOrder
    <2>2. \A q \in Proposals : q # job[i] => receipt'[q] = receipt[q]
      BY <1>1 DEF SavePrepared, TypeOK, Types
    <2>3. receipt[job[i]] = None
      BY <1>1 DEF SavePrepared, InOrder, Loading
    <2>. QED  BY <2>1, <2>2, <2>3 DEF Begun, AllApplied
  <1>2. ASSUME NEW i \in Procs, MarkApplied(i)
        PROVE  Begun \subseteq Begun' /\ AllApplied \subseteq AllApplied'
    <2>1. \A q \in Proposals : Applied(q)' <=> (Applied(q) \/ q = job[i])
      BY <1>2, MarkAppliedOrder
    <2>2. \A q \in Proposals : q # job[i] => receipt'[q] = receipt[q]
      BY <1>2 DEF MarkApplied, TypeOK, Types
    <2>. QED  BY <2>1, <2>2 DEF Begun, AllApplied, Applied
  <1>3. ASSUME receipt' = receipt
        PROVE  Begun \subseteq Begun' /\ AllApplied \subseteq AllApplied'
    BY <1>3 DEF Begun, AllApplied, Applied
  <1>4. \A i \in Procs : Commit(i) => receipt' = receipt
    BY DEF Commit
  <1>5. AllApplied \subseteq Begun
    BY DEF Begun, AllApplied, Applied
  <1>. QED  BY <1>1, <1>2, <1>3, <1>4, <1>5, QuietSteps DEF Settling

\* The steps that write files of the project.
LEMMA FileWriters ==
    ASSUME [Next]_vars
    PROVE  \/ UNCHANGED file
           \/ \E i \in Procs : WriteFile(i)
           \/ SyncDocument \/ Align \/ Publish
           \/ \E d \in Docs, e \in Edits : EditProject(d, e)
           \/ \E F \in SUBSET Files \ {{}} : Restore(F)
  <1>1. ASSUME NEW i \in Procs, Step(i) PROVE UNCHANGED file \/ WriteFile(i)
    BY <1>1 DEF Step, LockRoot, LockData, TimeOut, ScanReceipts, VerifyAgain, Load, Plan,
                SavePrepared, Check, MarkApplied, Verify, Commit, Exit, disk
  <1>2. ASSUME NEW i \in Procs, Stop(i) \/ \E p \in Proposals : Start(i, p) PROVE UNCHANGED file
    BY <1>2 DEF Stop, Start, disk
  <1>3. BeginSync \/ RepairLedger \/ SyncEnds => UNCHANGED file
    BY DEF BeginSync, RepairLedger, SyncEnds
  <1>4. ASSUME NEW d \in Docs, NEW e \in Edits, EditVault(d, e) PROVE UNCHANGED file
    BY <1>4 DEF EditVault
  <1>5. UNCHANGED vars => UNCHANGED file
    BY DEF vars, disk
  <1>. QED  BY <1>1, <1>2, <1>3, <1>4, <1>5 DEF Next, SyncStep

\* A sync accepts a document that holds what its base or its snapshot holds.
LEMMA AcceptedBy ==
    ASSUME TypeOK, SyncDocument, NEW a, a = Accepted(sync.next), a # None
    PROVE  /\ sync.next \in Docs /\ a \in Bodies
           /\ \/ /\ a.by = base[sync.next].by /\ a.by = sync.file[sync.next].by
                 /\ a.by = sync.vault[sync.next].by
              \/ /\ a = sync.file[sync.next] /\ sync.vault[sync.next] = base[sync.next]
                 /\ Trusts(sync.next, base[sync.next], a)
  <1> DEFINE d == sync.next
  <1>1. d \in Docs /\ sync # None
    BY DEF SyncDocument
  <1>2. a \in Bodies /\ base[d] \in Bodies
    BY <1>1, AcceptedType
  <1>3. \/ /\ SameProvenance(sync.file[d], base[d]) /\ SameProvenance(sync.vault[d], base[d])
           /\ \/ a = base[d]
              \/ a = [base[d] EXCEPT !.edits = sync.file[d].edits \cup sync.vault[d].edits,
                                     !.rev = @ + 1]
        \/ a = sync.file[d] /\ sync.vault[d] = base[d] /\ Trusts(d, base[d], sync.file[d])
    BY DEF Accepted
  <1>4. [base[d] EXCEPT !.edits = sync.file[d].edits \cup sync.vault[d].edits,
                        !.rev = @ + 1].by = base[d].by
    BY <1>2 DEF Bodies
  <1>. QED  BY <1>1, <1>2, <1>3, <1>4 DEF SameProvenance

LEMMA SyncDocumentWrites ==
    ASSUME TypeOK, SyncDocument
    PROVE  LET d == sync.next
               a == Accepted(d)
           IN \/ UNCHANGED <<file, vault, base>>
              \/ /\ a # None /\ file[d] = sync.file[d] /\ vault[d] = sync.vault[d]
                 /\ file' = [file EXCEPT ![d] = a]
                 /\ vault' = [vault EXCEPT ![d] = a] /\ base' = [base EXCEPT ![d] = a]
  BY DEF SyncDocument

LEMMA NextFileOf ==
    ASSUME TypeOK, InOrder, Made, [Next]_vars
    PROVE  Of(file', Begun)
  <1>0. \A d \in Docs : d \in Files /\ d # "ledger"
    BY DEF Docs, Files
  <1>00. file = [f \in Files |-> file[f]] /\ \A d \in Docs : file[d] \in Bodies
    BY TreeParts DEF TypeOK, Types, Trees
  <1>1. CASE UNCHANGED file
    BY <1>1 DEF Made
  <1>2. ASSUME NEW i \in Procs, WriteFile(i), file' # file PROVE Of(file', Begun)
    <2> DEFINE p == job[i]
               f == Order[at[i]]
    <2>1. file' = [file EXCEPT ![f] = Target(p)[f]] /\ pc[i] = "write"
      BY <1>2 DEF WriteFile
    <2>2. p \in Proposals /\ receipt[p] # None
      BY <2>1 DEF TypeOK, Types, Sound, Going
    <2>3. p \in Begun /\ Of(receipt[p].before, AllApplied) /\ AllApplied \subseteq Begun
      BY <2>2, Grows DEF Begun, Made
    <2>4. \A g \in Files : Target(p)[g].by \subseteq Begun
      BY <2>2, <2>3, TargetType DEF Of
    <2>5. \A g \in Files : file'[g] = file[g] \/ file'[g] = Target(p)[g]
      BY <1>00, <2>1
    <2>. QED  BY <2>4, <2>5 DEF Of, Made
  <1>3. CASE SyncDocument
    <2> DEFINE d == sync.next
               a == Accepted(d)
    <2>1. CASE UNCHANGED file
      BY <2>1 DEF Made
    <2>2. CASE a # None /\ file' = [file EXCEPT ![d] = a]
      <3>1. d \in Docs /\ (a.by = base[d].by \/ a.by = sync.file[d].by) /\ sync # None
        BY <1>3, <2>2, AcceptedBy DEF SyncDocument
      <3>2. a.by \subseteq Begun
        BY <1>0, <3>1 DEF Made, Of
      <3>3. \A g \in Files : file'[g] = file[g] \/ file'[g] = a
        BY <1>00, <2>2
      <3>. QED  BY <3>2, <3>3 DEF Made, Of
    <2>. QED  BY <1>3, <2>1, <2>2, SyncDocumentWrites
  <1>4. CASE Align
    <2>1. \A g \in Files : file'[g] = file[g] \/ (g \in Docs /\ file'[g] = Aligned[g])
      BY <1>4, AlignStep DEF Behind
    <2>2. \A g \in Files : file'[g].by = file[g].by
      BY <2>1, AlignedType
    <2>. QED  BY <2>2 DEF Made, Of
  <1>5. CASE Publish
    <2> DEFINE ledger == [file["ledger"] EXCEPT !.names = [d \in Docs |-> file[d]],
                                                !.stamp = @ + 1]
    <2>1. file' = [file EXCEPT !["ledger"] = ledger]
      BY <1>5 DEF Publish
    <2>2. ledger.by = file["ledger"].by
      BY TreeParts DEF TypeOK, Types, Ledgers
    <2> HIDE DEF ledger
    <2>3. \A g \in Files : file'[g] = file[g] \/ (g = "ledger" /\ file'[g] = ledger)
      BY <1>00, <2>1
    <2>. QED  BY <2>2, <2>3 DEF Made, Of
  <1>6. ASSUME NEW d \in Docs, NEW e \in Edits, EditProject(d, e) PROVE Of(file', Begun)
    <2>1. file' = [file EXCEPT ![d] = [file[d] EXCEPT !.edits = @ \cup {e}]]
      BY <1>6 DEF EditProject
    <2>2. [file[d] EXCEPT !.edits = @ \cup {e}].by = file[d].by
      BY <1>00 DEF Bodies
    <2>3. \A g \in Files : \/ file'[g] = file[g]
                           \/ g = d /\ file'[g] = [file[d] EXCEPT !.edits = @ \cup {e}]
      BY <1>00, <2>1
    <2>. QED  BY <2>2, <2>3 DEF Made, Of
  <1>7. ASSUME NEW F \in SUBSET Files \ {{}}, Restore(F) PROVE Of(file', Begun)
    BY <1>7, FirstType DEF Restore, Made, Of
  <1>. QED  BY <1>1, <1>2, <1>3, <1>4, <1>5, <1>6, <1>7, FileWriters

LEMMA BaseWriters ==
    ASSUME [Next]_vars PROVE UNCHANGED base \/ SyncDocument \/ Align
  <1> USE DEF disk
  <1>1. ASSUME NEW i \in Procs, Step(i) PROVE UNCHANGED base
    BY <1>1 DEF Step, LockRoot, LockData, TimeOut, ScanReceipts, VerifyAgain, Load, Plan,
                SavePrepared, Check, WriteFile, MarkApplied, Verify, Commit, Exit
  <1>2. ASSUME NEW i \in Procs, Stop(i) \/ \E p \in Proposals : Start(i, p) PROVE UNCHANGED base
    BY <1>2 DEF Stop, Start
  <1>3. BeginSync \/ RepairLedger \/ Publish \/ SyncEnds => UNCHANGED base
    BY DEF BeginSync, RepairLedger, Publish, SyncEnds
  <1>4. ASSUME \/ \E d \in Docs, e \in Edits : EditProject(d, e) \/ EditVault(d, e)
               \/ \E F \in SUBSET Files \ {{}} : Restore(F)
        PROVE  UNCHANGED base
    BY <1>4 DEF EditProject, EditVault, Restore
  <1>5. UNCHANGED vars => UNCHANGED base
    BY DEF vars
  <1>. QED  BY <1>1, <1>2, <1>3, <1>4, <1>5 DEF Next, SyncStep

LEMMA ReceiptWriters ==
    ASSUME [Next]_vars
    PROVE  UNCHANGED receipt \/ \E i \in Procs : SavePrepared(i) \/ MarkApplied(i)
  <1>1. \A i \in Procs : Commit(i) => UNCHANGED receipt
    BY DEF Commit
  <1>. QED  BY <1>1, QuietSteps DEF Settling

\* A sync keeps what it read at its beginning.
LEMMA SyncWriters ==
    ASSUME TypeOK, [Next]_vars
    PROVE  \/ UNCHANGED sync \/ sync' = None \/ BeginSync
           \/ sync # None /\ sync'.file = sync.file /\ sync'.vault = sync.vault
  <1> USE DEF disk, people
  <1>1. ASSUME NEW i \in Procs, Step(i) PROVE UNCHANGED sync
    BY <1>1 DEF Step, LockRoot, LockData, TimeOut, ScanReceipts, VerifyAgain, Load, Plan,
                SavePrepared, Check, WriteFile, MarkApplied, Verify, Commit, Exit
  <1>2. ASSUME NEW i \in Procs, Stop(i) \/ \E p \in Proposals : Start(i, p) PROVE UNCHANGED sync
    BY <1>2 DEF Stop, Start
  <1>3. RepairLedger => UNCHANGED sync
    BY DEF RepairLedger, Rest
  <1>4. Publish \/ SyncEnds => sync' = None
    BY DEF Publish, SyncEnds, EndSync
  <1>5. ASSUME SyncDocument \/ Align
        PROVE  sync # None /\ sync'.file = sync.file /\ sync'.vault = sync.vault
    <2>1. sync \in Syncs /\ sync # None
      BY <1>5 DEF SyncDocument, Align, TypeOK, Types
    <2>. QED  BY <1>5, <2>1 DEF SyncDocument, Align, Syncs
  <1>6. ASSUME \/ \E d \in Docs, e \in Edits : EditProject(d, e) \/ EditVault(d, e)
               \/ \E F \in SUBSET Files \ {{}} : Restore(F)
        PROVE  UNCHANGED sync
    BY <1>6 DEF EditProject, EditVault, Restore
  <1>7. UNCHANGED vars => UNCHANGED sync
    BY DEF vars
  <1>. QED  BY <1>1, <1>2, <1>3, <1>4, <1>5, <1>6, <1>7 DEF Next, SyncStep

\* What a process plans with are the files it loaded.
LEMMA KnownWriters ==
    ASSUME TypeOK, [Next]_vars, NEW j \in Procs, pc'[j] \in {"plan", "prepare"}
    PROVE  \/ pc[j] \in {"plan", "prepare"} /\ known'[j] = known[j]
           \/ pc[j] = "load" /\ known'[j] = file
  <1>1. ASSUME NEW i \in Procs, Step(i)
        PROVE  \/ pc[j] \in {"plan", "prepare"} /\ known'[j] = known[j]
               \/ pc[j] = "load" /\ known'[j] = file
    <2>1. CASE i # j
      BY <1>1, <2>1 DEF Step, LockRoot, LockData, TimeOut, ScanReceipts, VerifyAgain, Load, Plan,
             SavePrepared, Check, WriteFile, MarkApplied, Verify, Commit, Exit, Return, Continue,
             Go, TypeOK, Types
    <2>2. CASE i = j
      <3>1. "accepted" \notin {"plan", "prepare"} /\ "already" \notin {"plan", "prepare"}
            /\ "refused" \notin {"plan", "prepare"}
        OBVIOUS
      <3>2. Load(j) \/ Plan(j)
        BY <1>1, <2>2 DEF Step, LockRoot, LockData, TimeOut, ScanReceipts, VerifyAgain,
               SavePrepared, Check, WriteFile, MarkApplied, Verify, Commit, Exit, Return, Continue,
               Go, TypeOK, Types
      <3>. QED  BY <3>2 DEF Load, Plan, Return, Continue, Go, TypeOK, Types
    <2>. QED  BY <2>1, <2>2
  <1>2. ASSUME NEW i \in Procs, Stop(i) \/ \E p \in Proposals : Start(i, p)
        PROVE  pc[j] \in {"plan", "prepare"} /\ known'[j] = known[j]
    BY SMTT(60), <1>2 DEF Stop, Start, Go, TypeOK, Types
  <1>3. ASSUME BeginSync \/ RepairLedger \/ SyncStep PROVE UNCHANGED <<pc, known>>
    BY <1>3 DEF BeginSync, RepairLedger, SyncStep, SyncDocument, Align, Publish, SyncEnds,
                Rest, locals
  <1>4. ASSUME \/ \E d \in Docs, e \in Edits : EditProject(d, e) \/ EditVault(d, e)
               \/ \E F \in SUBSET Files \ {{}} : Restore(F)
        PROVE  UNCHANGED <<pc, known>>
    BY <1>4 DEF EditProject, EditVault, Restore, locals
  <1>5. UNCHANGED vars => UNCHANGED <<pc, known>>
    BY DEF vars, locals
  <1>. QED  BY <1>1, <1>2, <1>3, <1>4, <1>5 DEF Next

LEMMA NextMade == TypeOK /\ InOrder /\ Made /\ [Next]_vars => Made'
  <1> SUFFICES ASSUME TypeOK, InOrder, Made, [Next]_vars PROVE Made'
    OBVIOUS
  <1>0. /\ Begun \subseteq Begun' /\ AllApplied \subseteq AllApplied'
        /\ AllApplied \subseteq Begun
    BY Grows
  <1>1. Of(file, Begun)' /\ Of(file', Begun')
    BY <1>0, NextFileOf DEF Of
  <1>2. ASSUME NEW d \in Docs PROVE base'[d].by \subseteq Begun
    <2>1. CASE UNCHANGED base
      BY <2>1 DEF Made
    <2>2. CASE SyncDocument
      <3> DEFINE e == sync.next
                 a == Accepted(e)
      <3>1. CASE UNCHANGED base
        BY <3>1 DEF Made
      <3>2. CASE a # None /\ base' = [base EXCEPT ![e] = a]
        <4>1. e \in Docs /\ e \in Files /\ (a.by = base[e].by \/ a.by = sync.file[e].by)
              /\ sync # None
          BY <2>2, <3>2, AcceptedBy DEF SyncDocument, Files
        <4>2. a.by \subseteq Begun
          BY <4>1 DEF Made, Of
        <4>3. base'[d] = base[d] \/ base'[d] = a
          BY <3>2 DEF TypeOK, Types
        <4>. QED  BY <4>2, <4>3 DEF Made
      <3>. QED  BY <2>2, <3>1, <3>2, SyncDocumentWrites
    <2>3. CASE Align
      <3>1. base'[d] = base[d] \/ base'[d] = Aligned[d]
        BY <2>3, AlignStep
      <3>2. Aligned[d].by \subseteq Begun
        BY AlignedType DEF Made, Of, Files
      <3>. QED  BY <3>1, <3>2 DEF Made
    <2>. QED  BY <2>1, <2>2, <2>3, BaseWriters
  <1>3. ASSUME NEW p \in Begun' PROVE Of(receipt'[p].before, AllApplied')
    <2>1. CASE UNCHANGED receipt
      <3>1. p \in Begun
        BY <2>1 DEF Begun
      <3>. QED  BY <1>0, <2>1, <3>1 DEF Made, Of
    <2>2. ASSUME NEW i \in Procs, SavePrepared(i) PROVE Of(receipt'[p].before, AllApplied')
      <3>1. /\ pc[i] = "prepare"
            /\ receipt' = [receipt EXCEPT ![job[i]] = [state |-> "prepared", before |-> known[i]]]
        BY <2>2 DEF SavePrepared
      <3>2. (receipt'[p] = receipt[p] /\ p \in Begun) \/ receipt'[p].before = known[i]
        BY <3>1 DEF TypeOK, Types, Begun
      <3>3. Of(known[i], AllApplied)
        BY <3>1 DEF Made
      <3>. QED  BY <1>0, <3>2, <3>3 DEF Made, Of
    <2>3. ASSUME NEW i \in Procs, MarkApplied(i) PROVE Of(receipt'[p].before, AllApplied')
      <3>1. /\ pc[i] = "mark" /\ receipt' = [receipt EXCEPT ![job[i]].state = "applied"]
        BY <2>3 DEF MarkApplied
      <3>2. job[i] \in Proposals /\ receipt[job[i]] # None /\ receipt[job[i]] \in Receipts
        BY <3>1 DEF TypeOK, Types, Sound, Going
      <3>3. p \in Begun /\ receipt'[p].before = receipt[p].before
        <4>1. CASE p = job[i]
          BY <3>1, <3>2, <4>1 DEF TypeOK, Types, Begun, Receipts
        <4>2. CASE p # job[i]
          BY <3>1, <4>2 DEF TypeOK, Types, Begun
        <4>. QED  BY <4>1, <4>2
      <3>. QED  BY <1>0, <3>3 DEF Made, Of
    <2>. QED  BY <2>1, <2>2, <2>3, ReceiptWriters
  <1>4. ASSUME NEW j \in Procs, pc'[j] \in {"plan", "prepare"} PROVE Of(known'[j], AllApplied')
    <2>1. CASE pc[j] \in {"plan", "prepare"} /\ known'[j] = known[j]
      BY <1>0, <2>1 DEF Made, Of
    <2>2. CASE pc[j] = "load" /\ known'[j] = file
      <3>1. NoneUnfinished
        BY <2>2 DEF InOrder, Loading
      <3>2. Begun \subseteq AllApplied
        BY <3>1 DEF NoneUnfinished, Unfinished, Begun, AllApplied
      <3>. QED  BY <1>0, <2>2, <3>2 DEF Made, Of
    <2>. QED  BY <1>4, <2>1, <2>2, KnownWriters
  <1>5. ASSUME sync' # None PROVE Of(sync'.file, Begun)
    <2>1. CASE BeginSync
      <3>1. sync'.file = file
        BY <2>1 DEF BeginSync
      <3>. QED  BY <3>1 DEF Made
    <2>2. CASE UNCHANGED sync \/ (sync # None /\ sync'.file = sync.file)
      BY <1>5, <2>2 DEF Made
    <2>. QED  BY <1>5, <2>1, <2>2, SyncWriters
  <1>6. /\ \A d \in Docs : base'[d].by \subseteq Begun'
        /\ sync' # None => Of(sync'.file, Begun')
    BY <1>0, <1>2, <1>5 DEF Of
  <1>7. /\ (\A p \in Begun : Of(receipt[p].before, AllApplied))'
        /\ (\A j \in Procs : pc[j] \in {"plan", "prepare"} => Of(known[j], AllApplied))'
        /\ (sync # None => Of(sync.file, Begun))'
    BY <1>3, <1>4, <1>6 DEF Of
  <1>. QED  BY <1>1, <1>6, <1>7 DEF Made

-----------------------------------------------------------------------------
(* No line twice.                                                            *)

Apart(p, q) ==
    p # q /\ SessionOf[p] = SessionOf[q] =>
        From[p].line >= To[q].line \/ From[q].line >= To[p].line

Separate == \A p, q \in Begun : Apart(p, q)

LEMMA NextSeparate == TypeOK /\ InOrder /\ Separate /\ [Next]_vars => Separate'
  <1> SUFFICES ASSUME TypeOK, InOrder, Separate, [Next]_vars PROVE Separate'
    OBVIOUS
  <1>1. CASE UNCHANGED receipt
    BY <1>1 DEF Separate, Begun, Apart
  <1>2. ASSUME NEW i \in Procs, SavePrepared(i) PROVE Separate'
    <2> DEFINE p == job[i]
    <2>1. /\ pc[i] = "prepare" /\ p \in Proposals
          /\ receipt' = [receipt EXCEPT ![p] = [state |-> "prepared", before |-> known[i]]]
      BY <1>2, Alone DEF SavePrepared, Locked, Places, Ends
    <2>2. AtStart(p) /\ NoneUnfinished
      BY <2>1 DEF InOrder, Loading
    <2>3. \A q \in Begun' : q \in Begun \/ q = p
      BY <2>1 DEF Begun, TypeOK, Types
    <2>4. ASSUME NEW q \in Begun PROVE Apart(p, q) /\ Apart(q, p)
      <3>1. q \in Proposals /\ Past(q)
        BY <2>2 DEF Begun, NoneUnfinished, Unfinished
      <3>2. SessionOf[p] = SessionOf[q] => From[p].line >= To[q].line
        <4>1. cursor[SessionOf[p]] = From[p]
          BY <2>2 DEF AtStart, AtBoundary
        <4>. QED  BY <2>1, <3>1, <4>1, Ranges DEF Past, AtOrBeyond
      <3>. QED  BY <3>2 DEF Apart
    <2>5. \A q, r \in Begun' : Apart(q, r)
      <3>1. Apart(p, p)
        BY DEF Apart
      <3>. QED  BY <2>3, <2>4, <3>1 DEF Separate
    <2>. QED  BY <2>5 DEF Separate, Apart
  <1>3. ASSUME NEW i \in Procs, MarkApplied(i) PROVE Separate'
    <2>1. /\ pc[i] = "mark" /\ receipt' = [receipt EXCEPT ![job[i]].state = "applied"]
      BY <1>3 DEF MarkApplied
    <2>2. receipt[job[i]] # None
      BY <2>1 DEF TypeOK, Types, Sound, Going
    <2>3. Begun' \subseteq Begun
      BY <2>1, <2>2 DEF Begun, TypeOK, Types
    <2>. QED  BY <2>3 DEF Separate, Apart
  <1>. QED  BY <1>1, <1>2, <1>3, ReceiptWriters

\* No file ever holds two proposals of the same lines, with or without the
\* lock that applies share with syncs.
THEOREM EveryLineOnce == Spec => []OncePerLine
  <1>1. Init => Separate
    BY DEF Init, Separate, Begun
  <1>2. Spec => [](TypeOK /\ InOrder /\ Made /\ Separate)
    BY <1>1, InitTypeOK, NextTypeOK, InitInOrder, NextInOrder, InitMade, NextMade, NextSeparate,
       PTL DEF Spec
  <1>3. Made /\ Separate => OncePerLine
    BY DEF Made, Of, Separate, Apart, OncePerLine
  <1>. QED  BY <1>2, <1>3, PTL

-----------------------------------------------------------------------------
(* The vault, when applies and syncs exclude each other.                     *)

\* While a sync runs nobody else changes which proposals documents hold.
Unread(d) == sync.next = d \/ (sync.next = "history" /\ d = "review")

SameBy(x, y) == x.by = y.by

Seen(d) ==
    IF Unread(d) THEN SameBy(file[d], sync.file[d]) /\ SameBy(vault[d], sync.vault[d])
    ELSE sync.bad \/ (SameBy(file[d], base[d]) /\ SameBy(vault[d], base[d]))

Accounted ==
    /\ \A d \in Docs : base[d].by \subseteq AllApplied /\ vault[d].by \subseteq AllApplied
    /\ sync # None => \A d \in Docs : Seen(d)

LEMMA InitAccounted == Init => Accounted
  BY FirstType DEF Init, Accounted, Files

\* A chain of receipts ends at a document of an applied proposal and never
\* loses one.
LEMMA TrustedBy ==
    ASSUME TypeOK, Made, NEW d \in Docs, NEW from, NEW to, Trusts(d, from, to)
    PROVE  to.by \subseteq AllApplied /\ from.by \subseteq to.by
  <1> DEFINE E == Edges(d)
             bodies == {from, to} \cup {e[1] : e \in E} \cup {e[2] : e \in E}
             more == {x \in bodies : from.by \subseteq x.by}
             reached == {from} \cup {e[2] : e \in E}
  <1>1. ASSUME NEW e \in E
        PROVE  e[1].by \subseteq e[2].by /\ e[2].by \subseteq AllApplied
    <2>1. PICK q \in Proposals \ Empty : Applied(q) /\ e = <<receipt[q].before[d], Target(q)[d]>>
      BY DEF Edges
    <2>2. receipt[q] # None /\ q \in AllApplied /\ q \in Begun /\ d \in Files
      BY <2>1 DEF Applied, AllApplied, Begun, Files
    <2>3. /\ Target(q)[d].by = receipt[q].before[d].by \cup {q}
          /\ receipt[q].before[d].by \subseteq AllApplied
      BY <2>2, TargetType DEF Made, Of
    <2>. QED  BY <2>1, <2>2, <2>3
  <1>2. /\ from # to
        /\ \A S \in SUBSET bodies :
             (from \in S /\ \A e \in E : e[1] \in S => e[2] \in S) => to \in S
    BY DEF Trusts
  <1>3. from.by \subseteq to.by
    <2>1. more \in SUBSET bodies /\ from \in more
      OBVIOUS
    <2>2. \A e \in E : e[1] \in more => e[2] \in more
      BY <1>1
    <2> HIDE DEF bodies, E
    <2>3. to \in more
      BY <1>2, <2>1, <2>2
    <2>. QED  BY <2>3
  <1>4. to.by \subseteq AllApplied
    <2>1. reached \in SUBSET bodies /\ from \in reached
      OBVIOUS
    <2>2. \A e \in E : e[1] \in reached => e[2] \in reached
      OBVIOUS
    <2>3. to \in reached
      <3> HIDE DEF bodies, E, reached
      <3>. QED  BY <1>2, <2>1, <2>2
    <2>. QED  BY <1>1, <1>2, <2>3
  <1>. QED  BY <1>3, <1>4

\* One document of a running sync: passed over, refused or written.
LEMMA SyncDocumentCases ==
    ASSUME TypeOK, SyncDocument, NEW d, d = sync.next, NEW a, a = Accepted(d)
    PROVE  /\ d \in Docs /\ sync # None /\ receipt' = receipt
           /\ sync' # None /\ sync'.file = sync.file /\ sync'.vault = sync.vault
           /\ sync'.next = IF d = "history" THEN "review" ELSE "align"
           /\ \/ /\ UNCHANGED <<file, vault, base>> /\ sync'.bad = sync.bad
                 /\ base[d] = sync.file[d] /\ base[d] = sync.vault[d]
              \/ UNCHANGED <<file, vault, base>> /\ sync'.bad
              \/ /\ a # None /\ file[d] = sync.file[d] /\ vault[d] = sync.vault[d]
                 /\ file' = [file EXCEPT ![d] = a] /\ vault' = [vault EXCEPT ![d] = a]
                 /\ base' = [base EXCEPT ![d] = a] /\ sync'.bad = sync.bad
  <1>1. sync \in Syncs /\ d \in Docs /\ sync # None /\ receipt' = receipt
    BY DEF SyncDocument, TypeOK, Types, Rest
  <1>2. sync' # None
    <2>1. sync' \in Syncs
      BY ZenonT(60), <1>1 DEF SyncDocument, Syncs, Docs
    <2>. QED  BY <2>1, ApplyAssumption
  <1>. QED  BY <1>1, <1>2 DEF SyncDocument, Syncs

LEMMA SyncDocumentAccounted ==
    ASSUME TypeOK, Made, Accounted, SyncDocument PROVE Accounted'
  <1> DEFINE d == sync.next
             a == Accepted(d)
  <1>1. /\ d \in Docs /\ sync # None /\ AllApplied' = AllApplied
        /\ sync' # None /\ sync'.file = sync.file /\ sync'.vault = sync.vault
        /\ sync'.next = IF d = "history" THEN "review" ELSE "align"
    BY SyncDocumentCases DEF AllApplied, Applied
  <1>2. ASSUME NEW e \in Docs, e # d
        PROVE  /\ file'[e] = file[e] /\ vault'[e] = vault[e] /\ base'[e] = base[e]
               /\ sync.bad => sync'.bad
               /\ Unread(e)' <=> Unread(e)
    <2>1. file'[e] = file[e] /\ vault'[e] = vault[e] /\ base'[e] = base[e]
      BY <1>2, SyncDocumentWrites DEF TypeOK, Types, Trees, Files
    <2>2. sync.bad => sync'.bad
      BY SyncDocumentCases
    <2>3. Unread(e)' <=> Unread(e)
      BY <1>1, <1>2 DEF Unread, Docs
    <2>. QED  BY <2>1, <2>2, <2>3
  <1>3. /\ Unread(d)
        /\ \A e \in Docs : e = d => ~ Unread(e)'
    BY <1>1 DEF Unread, Docs
  <1>4. /\ base'[d].by \subseteq AllApplied /\ vault'[d].by \subseteq AllApplied
        /\ sync'.bad \/ (SameBy(file'[d], base'[d]) /\ SameBy(vault'[d], base'[d]))
    <2>1. CASE /\ UNCHANGED <<file, vault, base>> /\ base[d] = sync.file[d]
               /\ base[d] = sync.vault[d]
      BY <1>1, <1>3, <2>1 DEF Accounted, Seen, SameBy
    <2>2. CASE UNCHANGED <<file, vault, base>> /\ sync'.bad
      BY <1>1, <2>2 DEF Accounted
    <2>3. CASE /\ a # None /\ file' = [file EXCEPT ![d] = a]
               /\ vault' = [vault EXCEPT ![d] = a] /\ base' = [base EXCEPT ![d] = a]
      <3>1. file'[d] = a /\ vault'[d] = a /\ base'[d] = a
        BY <1>1, <2>3 DEF TypeOK, Types, Trees, Files
      <3>2. a.by \subseteq AllApplied
        BY <1>1, <2>3, AcceptedBy, TrustedBy DEF Accounted
      <3>. QED  BY <3>1, <3>2 DEF SameBy
    <2>. QED  BY <2>1, <2>2, <2>3, SyncDocumentCases
  <1>5. ASSUME NEW e \in Docs
        PROVE  /\ base'[e].by \subseteq AllApplied' /\ vault'[e].by \subseteq AllApplied'
               /\ Seen(e)'
    <2>1. CASE e = d
      <3>1. ~ Unread(e)'
        BY <1>3, <2>1
      <3>. QED  BY <1>1, <1>4, <2>1, <3>1 DEF Seen, SameBy
    <2>2. CASE e # d
      <3>1. Seen(e) /\ base[e].by \subseteq AllApplied /\ vault[e].by \subseteq AllApplied
        BY <1>1 DEF Accounted
      <3>. QED  BY <1>1, <1>2, <2>2, <3>1 DEF Seen, SameBy
    <2>. QED  BY <2>1, <2>2
  <1>. QED  BY <1>5 DEF Accounted

LEMMA AlignAccounted ==
    ASSUME TypeOK, Accounted, Align PROVE Accounted'
  <1>1. /\ ~ sync.bad /\ sync.next = "align" /\ AllApplied' = AllApplied /\ sync \in Syncs
        /\ sync # None
    BY AlignStep DEF AllApplied, Applied, Rest, TypeOK, Types
  <1>2. \A d \in Docs : SameBy(file[d], base[d]) /\ SameBy(vault[d], base[d])
    BY <1>1 DEF Accounted, Seen, Unread, Docs
  <1>3. ASSUME NEW d \in Docs
        PROVE  /\ file'[d].by = base[d].by /\ vault'[d].by = base[d].by
               /\ base'[d].by = base[d].by
    <2>1. d \in Files /\ Aligned[d].by = file[d].by
      BY AlignedType DEF Files
    <2>. QED  BY <1>2, <2>1, AlignStep DEF SameBy
  <1>4. sync'.next = "ledger"
    BY <1>1, AlignStep DEF Syncs
  <1>5. \A d \in Docs : ~ Unread(d)'
    BY <1>4 DEF Unread, Docs
  <1>. QED  BY <1>1, <1>3, <1>5 DEF Accounted, Seen, SameBy

LEMMA NextAccounted ==
    ASSUME SharedLock
    PROVE  TypeOK /\ InOrder /\ Made /\ Accounted /\ [Next]_vars => Accounted'
  <1> SUFFICES ASSUME TypeOK, InOrder, Made, Accounted, [Next]_vars PROVE Accounted'
    OBVIOUS
  <1> USE DEF disk, people
  <1>0. /\ AllApplied \subseteq AllApplied'
        /\ \A d \in Docs : d \in Files /\ d # "ledger" /\ file[d] \in Bodies /\ vault[d] \in Bodies
    BY Grows, TreeParts DEF TypeOK, Types, Docs
  <1>1. ASSUME \A d \in Docs : /\ SameBy(file'[d], file[d]) /\ SameBy(vault'[d], vault[d])
                               /\ SameBy(base'[d], base[d]),
               sync' = sync \/ sync' = None
        PROVE  Accounted'
    <2>1. \A d \in Docs : /\ base'[d].by \subseteq AllApplied'
                          /\ vault'[d].by \subseteq AllApplied'
      BY <1>0, <1>1 DEF Accounted, SameBy
    <2>2. sync' # None => \A d \in Docs : Seen(d)'
      BY <1>1 DEF Accounted, Seen, SameBy, Unread
    <2>. QED  BY <2>1, <2>2 DEF Accounted
  <1>2. ASSUME UNCHANGED <<vault, base>>, sync' = None PROVE Accounted'
    BY <1>0, <1>2 DEF Accounted
  <1>3. ASSUME NEW i \in Procs, Step(i) PROVE Accounted'
    <2>1. CASE WriteFile(i)
      <3>1. data = i
        BY <2>1 DEF WriteFile, TypeOK, Sound, Locked, Places, Ends
      <3>2. sync = None
        BY <3>1, ApplyAssumption DEF TypeOK
      <3>. QED  BY <1>2, <2>1, <3>2 DEF WriteFile
    <2>2. CASE ~ WriteFile(i)
      <3>1. UNCHANGED <<file, vault, base, sync>>
        BY <1>3, <2>2 DEF Step, LockRoot, LockData, TimeOut, ScanReceipts, VerifyAgain, Load,
                   Plan, SavePrepared, Check, MarkApplied, Verify, Commit, Exit
      <3>. QED  BY <1>1, <3>1 DEF SameBy
    <2>. QED  BY <2>1, <2>2
  <1>4. ASSUME NEW i \in Procs, Stop(i) \/ \E p \in Proposals : Start(i, p) PROVE Accounted'
    <2>1. UNCHANGED <<file, vault, base, sync>>
      BY <1>4 DEF Stop, Start
    <2>. QED  BY <1>1, <2>1 DEF SameBy
  <1>5. CASE BeginSync
    <2>1. /\ UNCHANGED <<file, vault, base>> /\ sync'.file = file /\ sync'.vault = vault
          /\ sync'.next = "history"
      BY <1>5 DEF BeginSync
    <2>2. \A d \in Docs : Seen(d)'
      BY <2>1 DEF Seen, Unread, SameBy, Docs
    <2>. QED  BY <1>0, <2>1, <2>2 DEF Accounted
  <1>6. CASE RepairLedger
    <2>1. /\ UNCHANGED <<file, base, sync>>
          /\ vault' = [vault EXCEPT !["ledger"] = file["ledger"]]
      BY <1>6 DEF RepairLedger, Rest
    <2>2. \A d \in Docs : vault'[d] = vault[d]
      BY <1>0, <2>1 DEF TypeOK, Types, Trees
    <2>. QED  BY <1>1, <2>1, <2>2 DEF SameBy
  <1>7. CASE SyncDocument
    BY <1>7, SyncDocumentAccounted
  <1>8. CASE Align
    BY <1>8, AlignAccounted
  <1>9. CASE Publish
    <2>1. /\ UNCHANGED base /\ sync' = None
          /\ \A d \in Docs : file'[d] = file[d] /\ vault'[d] = vault[d]
      BY <1>0, <1>9 DEF Publish, EndSync, TypeOK, Types, Trees
    <2>. QED  BY <1>1, <2>1 DEF SameBy
  <1>10. CASE SyncEnds
    BY <1>2, <1>10 DEF SyncEnds, EndSync
  <1>11. ASSUME NEW d \in Docs, NEW e \in Edits, EditProject(d, e) \/ EditVault(d, e)
         PROVE  Accounted'
    <2>1. ASSUME NEW t \in Trees, NEW c \in Docs
          PROVE  [t EXCEPT ![d].edits = @ \cup {e}][c].by = t[c].by
      <3>1. t[d] \in Bodies
        BY TreeParts
      <3>2. [t[d] EXCEPT !.edits = @ \cup {e}].by = t[d].by
        BY <3>1 DEF Bodies
      <3>. QED  BY <3>2 DEF Trees, Files
    <2>2. /\ UNCHANGED <<base, sync>>
          /\ file' = file \/ file' = [file EXCEPT ![d].edits = @ \cup {e}]
          /\ vault' = vault \/ vault' = [vault EXCEPT ![d].edits = @ \cup {e}]
      BY <1>11 DEF EditProject, EditVault
    <2>3. file \in Trees /\ vault \in Trees
      BY DEF TypeOK, Types
    <2>4. \A c \in Docs : file'[c].by = file[c].by
      <3>1. CASE file' = file
        BY <3>1
      <3>2. CASE file' = [file EXCEPT ![d].edits = @ \cup {e}]
        <4>1. \A c \in Docs : [file EXCEPT ![d].edits = @ \cup {e}][c].by = file[c].by
          BY <2>1, <2>3
        <4>. QED  BY <3>2, <4>1, Zenon
      <3>. QED  BY <2>2, <3>1, <3>2
    <2>5. \A c \in Docs : vault'[c].by = vault[c].by
      <3>1. CASE vault' = vault
        BY <3>1
      <3>2. CASE vault' = [vault EXCEPT ![d].edits = @ \cup {e}]
        <4>1. \A c \in Docs : [vault EXCEPT ![d].edits = @ \cup {e}][c].by = vault[c].by
          BY <2>1, <2>3
        <4>. QED  BY <3>2, <4>1, Zenon
      <3>. QED  BY <2>2, <3>1, <3>2
    <2>. QED  BY <1>1, <2>2, <2>4, <2>5 DEF SameBy
  <1>12. ASSUME NEW F \in SUBSET Files \ {{}}, Restore(F) PROVE Accounted'
    BY <1>2, <1>12 DEF Restore
  <1>13. CASE UNCHANGED vars
    <2>1. UNCHANGED <<file, vault, base, sync>>
      BY <1>13 DEF vars
    <2>. QED  BY <1>1, <2>1 DEF SameBy
  <1>. QED  BY <1>3, <1>4, <1>5, <1>6, <1>7, <1>8, <1>9, <1>10, <1>11, <1>12, <1>13
            DEF Next, SyncStep

\* Where applies and syncs exclude each other the vault shows a proposal only
\* after all its files were written, whatever crashes in between.
THEOREM VaultAlwaysApplied == ASSUME SharedLock PROVE Spec => []VaultShowsApplied
  <1>1. Spec => [](TypeOK /\ InOrder /\ Made /\ Accounted)
    BY InitTypeOK, NextTypeOK, InitInOrder, NextInOrder, InitMade, NextMade, InitAccounted,
       NextAccounted, PTL DEF Spec
  <1>2. Accounted => VaultShowsApplied
    BY DEF Accounted, AllApplied, VaultShowsApplied
  <1>. QED  BY <1>1, <1>2, PTL

-----------------------------------------------------------------------------
(* The vault never forgets.                                                *)

\* What a sync accepts holds what the vault held, and both versions agree on
\* the proposals when the lower revision is raised.
LEMMA NextForgetsNothing ==
    ASSUME TypeOK, Made, Accounted, [Next]_vars, NEW d \in Docs
    PROVE  vault[d].by \subseteq vault'[d].by
  <1> USE DEF disk, people
  <1>0. /\ d \in Files /\ d # "ledger"
        /\ vault = [f \in Files |-> vault[f]] /\ vault[d] \in Bodies
    BY TreeParts DEF TypeOK, Types, Trees, Docs, Files
  <1>1. CASE vault' = vault
    BY <1>1
  <1>2. CASE SyncDocument
    <2> DEFINE c == sync.next
               a == Accepted(c)
    <2>1. CASE UNCHANGED vault
      BY <2>1
    <2>2. CASE /\ a # None /\ vault[c] = sync.vault[c]
               /\ vault' = [vault EXCEPT ![c] = a]
      <3>1. \/ a.by = vault[c].by
            \/ vault[c] = base[c] /\ c \in Docs /\ Trusts(c, base[c], a)
        BY <1>2, <2>2, AcceptedBy
      <3>2. vault[c].by \subseteq a.by
        BY <3>1, TrustedBy
      <3>3. vault'[d] = IF d = c THEN a ELSE vault[d]
        BY <1>0, <2>2
      <3>. QED  BY <3>2, <3>3
    <2>. QED  BY <1>2, <2>1, <2>2, SyncDocumentWrites
  <1>3. CASE Align
    <2>1. sync # None /\ ~ sync.bad /\ ~ Unread(d)
      BY <1>3, AlignStep DEF Unread, Docs
    <2>2. file[d].by = vault[d].by
      BY <2>1 DEF Accounted, Seen, SameBy
    <2>3. vault'[d] = vault[d] \/ vault'[d] = Aligned[d]
      BY <1>0, <1>3, AlignStep
    <2>. QED  BY <2>2, <2>3, AlignedType
  <1>4. ASSUME NEW e \in Edits, NEW c \in Docs, EditVault(c, e)
        PROVE  vault[d].by \subseteq vault'[d].by
    <2>1. vault' = [vault EXCEPT ![c].edits = @ \cup {e}]
      BY <1>4 DEF EditVault
    <2>2. vault'[d] = IF d = c THEN [vault[d] EXCEPT !.edits = @ \cup {e}] ELSE vault[d]
      BY <1>0, <2>1
    <2>. QED  BY <1>0, <2>2 DEF Bodies
  <1>5. CASE RepairLedger \/ Publish
    <2>1. vault'[d] = vault[d]
      BY <1>0, <1>5 DEF RepairLedger, Publish
    <2>. QED  BY <2>1
  <1>6. ASSUME NEW i \in Procs, Step(i) \/ Stop(i) \/ \E p \in Proposals : Start(i, p)
        PROVE  vault' = vault
    BY <1>6 DEF Step, LockRoot, LockData, TimeOut, ScanReceipts, VerifyAgain, Load, Plan,
                SavePrepared, Check, WriteFile, MarkApplied, Verify, Commit, Exit, Stop, Start
  <1>7. CASE BeginSync \/ SyncEnds
    BY <1>1, <1>7 DEF BeginSync, SyncEnds, EndSync
  <1>8. ASSUME NEW c \in Docs, NEW e \in Edits, EditProject(c, e)
        PROVE  vault' = vault
    BY <1>8 DEF EditProject
  <1>9. ASSUME NEW F \in SUBSET Files \ {{}}, Restore(F) PROVE vault' = vault
    BY <1>9 DEF Restore
  <1>10. CASE UNCHANGED vars
    BY <1>1, <1>10 DEF vars
  <1>. QED  BY <1>1, <1>2, <1>3, <1>4, <1>5, <1>6, <1>7, <1>8, <1>9, <1>10
            DEF Next, SyncStep

\* Where applies and syncs exclude each other no sync takes a proposal out of
\* the vault, whatever old files people put back between syncs.
THEOREM VaultKeeps == ASSUME SharedLock PROVE Spec => VaultNeverForgets
  <1>1. Spec => [](TypeOK /\ InOrder /\ Made /\ Accounted)
    BY InitTypeOK, NextTypeOK, InitInOrder, NextInOrder, InitMade, NextMade, InitAccounted,
       NextAccounted, PTL DEF Spec
  <1>2. TypeOK /\ Made /\ Accounted /\ [Next]_vars =>
          [\A d \in Docs : vault[d].by \subseteq vault'[d].by]_vars
    BY NextForgetsNothing
  <1>. QED  BY <1>1, <1>2, PTL DEF Spec, VaultNeverForgets

=============================================================================
