---------------------------- MODULE AtomicCatalog ----------------------------
(***************************************************************************)
(* What scans promise each other about the shared source catalog.  The     *)
(* records of a batch change together; a batch of one project joins that   *)
(* project to the records it writes and takes no other project out; and a  *)
(* project prepares a generation from records the catalog holds together.  *)
(***************************************************************************)
CONSTANTS Projects, Sessions, NoRecord

VARIABLES catalog,  \* catalog[s]: the record of session s
          prepared  \* prepared[p]: the records behind p's prepared generation

vars == <<catalog, prepared>>

Init == /\ catalog = [s \in Sessions |-> NoRecord]
        /\ prepared = [p \in Projects |-> <<>>]

\* A record of a new session is available, and a session that became
\* unavailable keeps the boundary last read.
Written(p, old, new) ==
    /\ new # NoRecord
    /\ new.projects = {p} \cup (IF old = NoRecord THEN {} ELSE old.projects)
    /\ \/ new.available
       \/ old # NoRecord /\ new.content = old.content

CommitBatch(p) ==
    /\ \A s \in Sessions :
          catalog'[s] = catalog[s] \/ Written(p, catalog[s], catalog'[s])
    /\ UNCHANGED prepared

Prepare(p) ==
    \E S \in SUBSET {s \in Sessions : catalog[s] # NoRecord} :
        /\ \A s \in S : p \in catalog[s].projects
        /\ prepared' = [prepared EXCEPT ![p] = [s \in S |-> catalog[s]]]
        /\ UNCHANGED catalog

Next == \E p \in Projects : CommitBatch(p) \/ Prepare(p)

Spec == Init /\ [][Next]_vars
=============================================================================
