------------------------------ MODULE MCApply ------------------------------
(* Four proposals: two of the same lines of session s1, read from different *)
(* states of its log, one that continues the first, one of session s2.     *)
EXTENDS Apply, TLC

CONSTANTS this, other, next, elsewhere, s1, s2

Begin == [line |-> 0, hash |-> "g"]
OfSession == [p \in Proposals |-> IF p = elsewhere THEN s2 ELSE s1]
Starts == [p \in Proposals |->
             IF p = next THEN [line |-> 1, hash |-> "h"] ELSE Begin]
Stops == [p \in Proposals |->
            IF p = next THEN [line |-> 2, hash |-> "h"]
            ELSE [line |-> 1, hash |-> IF p = other THEN "g" ELSE "h"]]

\* Processes are interchangeable (used for safety only).
Alike == Permutations(Procs)
=============================================================================
