----------------------------- MODULE AtomicLedger -----------------------------
(***************************************************************************)
(* What apply promises about the accepted history of a project.  Each      *)
(* session is reviewed from boundary to boundary without gap or overlap.   *)
(* One proposal at a time is under way in the whole project; it begins     *)
(* where its session's history ends, and it keeps its place until it is    *)
(* accepted, for it has changed files that nobody puts back.               *)
(***************************************************************************)
CONSTANTS Proposals, Sessions, SessionOf, From, To, Origin

VARIABLES position,  \* position[s]: how far session s is reviewed
          underway,  \* the proposals begun and not accepted
          accepted   \* the proposals accepted

vars == <<position, underway, accepted>>

Init == /\ position = [s \in Sessions |-> Origin]
        /\ underway = {} /\ accepted = {}

Begin(p) ==
    /\ underway = {} /\ p \notin accepted
    /\ position[SessionOf[p]] = From[p]
    /\ underway' = {p}
    /\ UNCHANGED <<position, accepted>>

Accept(p) ==
    /\ p \in underway
    /\ position' = [position EXCEPT ![SessionOf[p]] = To[p]]
    /\ underway' = underway \ {p}
    /\ accepted' = accepted \cup {p}

Next == \E p \in Proposals : Begin(p) \/ Accept(p)

Spec == Init /\ [][Next]_vars
=============================================================================
