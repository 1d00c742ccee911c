-------------------------- MODULE AtomicPublication --------------------------
(***************************************************************************)
(* What publication promises its callers: one accepted revision at a time,  *)
(* replaced in one step by the next one, whatever crashes or fails on the   *)
(* way.  A proposed revision may be abandoned as long as it is tentative;   *)
(* once it is decided it can only be accepted.  A revision never drops a    *)
(* human edit of the revision it replaces, nor goes back to an older        *)
(* generation.                                                              *)
(***************************************************************************)
EXTENDS Naturals

CONSTANTS Docs, Edits, MaxGen

Revisions == [gen : 0..MaxGen, docs : [Docs -> SUBSET Edits]]
Nothing == [gen |-> 0, docs |-> [n \in Docs |-> {}]]

VARIABLES
    accepted,   \* the accepted revision
    proposal,   \* the revision under publication
    status      \* whether there is one, and whether it can still be abandoned

vars == <<accepted, proposal, status>>

Init == accepted = Nothing /\ proposal = Nothing /\ status = "none"

Extends(r, s) == r.gen >= s.gen /\ \A n \in Docs : s.docs[n] \subseteq r.docs[n]

Propose ==
    /\ status = "none"
    /\ \E r \in Revisions :
         /\ Extends(r, accepted) /\ r # accepted
         /\ proposal' = r
    /\ status' = "tentative" /\ UNCHANGED accepted

Decide ==
    /\ status = "tentative"
    /\ status' = "decided" /\ UNCHANGED <<accepted, proposal>>

Accept ==
    /\ status \in {"tentative", "decided"}
    /\ accepted' = proposal
    /\ proposal' = Nothing /\ status' = "none"

Abandon ==
    /\ status = "tentative"
    /\ proposal' = Nothing /\ status' = "none" /\ UNCHANGED accepted

Next == Propose \/ Decide \/ Accept \/ Abandon

Spec == Init /\ [][Next]_vars
==============================================================================
