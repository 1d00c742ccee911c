----------------------------- MODULE AtomicSync -----------------------------
(***************************************************************************)
(* What the sync promises about the merge bases and the conflict records,  *)
(* whatever crashes, fails or is saved meanwhile.  A merge base is replaced *)
(* by nothing but the text announced for its document, and only while it   *)
(* still is the one the announcement saw.  A conflict is recorded against  *)
(* the present merge base.  A decision has the sync for itself: until it   *)
(* ends only the decided document changes, to the decided text; its record *)
(* is closed after that text has become the merge base, and stays closed.  *)
(***************************************************************************)
CONSTANTS Texts, None

VARIABLES base,       \* base[e]: the text both sides of document e agreed on last
          plans,      \* changes announced: of document of, from one base to another
          records,    \* records[id]: the text that settled conflict id, if any
          decisions   \* the decision under way: a text for conflict id

vars == <<base, plans, records, decisions>>

Init == /\ \A e \in DOMAIN base : base[e] = None
        /\ plans = {}
        /\ records = [id \in {} |-> None]
        /\ decisions = {}

Announce(p) ==
    /\ p.from = base[p.of] /\ p.to \in Texts
    /\ \A q \in plans : q.of # p.of
    /\ \A d \in decisions : p.of = d.id.entity /\ p.to = d.text
    /\ plans' = plans \cup {p}
    /\ UNCHANGED <<base, records, decisions>>

Accept(p) ==
    /\ base[p.of] = p.from
    /\ base' = [base EXCEPT ![p.of] = p.to]
    /\ UNCHANGED <<plans, records, decisions>>

\* A change that was accepted, or is given up.
Forget(p) ==
    /\ plans' = plans \ {p}
    /\ UNCHANGED <<base, records, decisions>>

Record(id) ==
    /\ id \notin DOMAIN records /\ base[id.entity] = id.base
    /\ decisions = {} /\ \A p \in plans : p.of # id.entity
    /\ records' = [i \in DOMAIN records \cup {id} |-> IF i = id THEN None ELSE records[i]]
    /\ UNCHANGED <<base, plans, decisions>>

Decide(d) ==
    /\ plans = {} /\ decisions = {}
    /\ d.id \in DOMAIN records /\ records[d.id] = None
    /\ base[d.id.entity] = d.id.base /\ d.text \in Texts
    /\ decisions' = {d}
    /\ UNCHANGED <<base, plans, records>>

Settle(d) ==
    /\ records[d.id] = None /\ base[d.id.entity] = d.text
    /\ records' = [records EXCEPT ![d.id] = d.text]
    /\ UNCHANGED <<base, plans, decisions>>

\* A decision whose record is closed, or that is given up.
End(d) ==
    /\ plans = {}
    /\ decisions' = decisions \ {d}
    /\ UNCHANGED <<base, plans, records>>

Next == \/ \E p \in plans' : Announce(p)
        \/ \E p \in plans : Accept(p) \/ Forget(p)
        \/ \E id \in DOMAIN records' : Record(id)
        \/ \E d \in decisions' : Decide(d)
        \/ \E d \in decisions : Settle(d) \/ End(d)

Spec == Init /\ [][Next]_vars
=============================================================================
