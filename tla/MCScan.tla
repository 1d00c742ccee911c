------------------------------- MODULE MCScan -------------------------------
EXTENDS Scan

CONSTANTS p, q, s1, s2

\* Two sessions started in one project, the first with a line to take back;
\* lines of the other project may follow.
Logs == [s \in {s1, s2} |->
            [i \in 1 .. (IF s = s1 THEN 2 ELSE 1) |-> [project |-> p, text |-> 1]]]
=============================================================================
