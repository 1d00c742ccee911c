--------------------------- MODULE AtomicPrepared ---------------------------
(***************************************************************************)
(* What the memory store promises about its prepared generation: one value *)
(* that is set once from nothing, and from then on changes only by an      *)
(* advance from the value it has.  One advance at a time is undecided; it  *)
(* is committed or aborted as a whole, by whoever meets it.                *)
(***************************************************************************)
CONSTANTS Gens, NoGen

VARIABLES prepared,     \* the prepared generation, NoGen before the first
          advance       \* the successor of the undecided advance, or NoGen

vars == <<prepared, advance>>

Init == prepared = NoGen /\ advance = NoGen

Prepare == /\ prepared = NoGen /\ advance = NoGen
           /\ prepared' \in Gens
           /\ UNCHANGED advance

Start == /\ prepared # NoGen /\ advance = NoGen
         /\ advance' \in Gens \ {prepared}
         /\ UNCHANGED prepared

Commit == /\ advance # NoGen
          /\ prepared' = advance
          /\ advance' = NoGen

Abort == /\ advance # NoGen
         /\ advance' = NoGen
         /\ UNCHANGED prepared

Next == Prepare \/ Start \/ Commit \/ Abort

Spec == Init /\ [][Next]_vars
=============================================================================
