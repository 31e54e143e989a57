-------------------------- MODULE AtomicPublication --------------------------
(***************************************************************************)
(* What scripts/publication/durable_file.py promises its callers: a name   *)
(* is absent or shows one publication, complete; it is given to a          *)
(* publication once; a loss of power may take back what nobody was told    *)
(* of; and what a caller was told is published stays.                      *)
(***************************************************************************)
CONSTANTS Attempts, Nothing

VARIABLES shown, told
vars == <<shown, told>>

Init == shown = Nothing /\ told = {}

Publish == shown = Nothing /\ shown' \in Attempts /\ UNCHANGED told
Tell == shown # Nothing /\ told' = told \cup {shown} /\ UNCHANGED shown
\* Power is lost: what was told is kept, what was not may be.
Lose == shown # Nothing /\ shown \notin told /\ shown' = Nothing /\ UNCHANGED told

Next == Publish \/ Tell \/ Lose
Spec == Init /\ [][Next]_vars

=============================================================================
