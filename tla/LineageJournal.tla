--------------------------- MODULE LineageJournal ---------------------------
(***************************************************************************)
(* What the coordinator needs of a durable generation journal (the trait   *)
(* EngineGenerationStore): one lineage per installation, a generation that *)
(* only counts up, and no generation reported as reserved to two callers.  *)
(* A reservation may become durable without its caller learning of it, and *)
(* a caller may learn of it after the fact.                                *)
(***************************************************************************)
EXTENDS Naturals

CONSTANTS Installations, NoLineage, MaxGeneration

VARIABLES
    lineage,    \* NoLineage, or the installation and its newest generation
    issued      \* how many callers were told that they reserved a generation

Generations == 0..MaxGeneration
Lineages == [installation : Installations, generation : Generations]

Init == lineage = NoLineage /\ issued = [g \in Generations |-> 0]

Initialize ==
    /\ lineage = NoLineage
    /\ lineage' \in {l \in Lineages : l.generation = 0}
    /\ UNCHANGED issued

Advance ==
    /\ lineage # NoLineage /\ lineage.generation < MaxGeneration
    /\ lineage' = [lineage EXCEPT !.generation = @ + 1]

\* The newest generation is reported, to the one caller it belongs to.
Report ==
    /\ lineage' # NoLineage /\ issued[lineage'.generation] = 0
    /\ issued' = [issued EXCEPT ![lineage'.generation] = 1]

Reserve == Advance /\ Report
ReserveUnreported == Advance /\ UNCHANGED issued
ReportLate == UNCHANGED lineage /\ Report

Next == Initialize \/ Reserve \/ ReserveUnreported \/ ReportLate

Spec == Init /\ [][Next]_<<lineage, issued>>
=============================================================================
