------------------------- MODULE DirectSealedResume -------------------------
(***************************************************************************)
(* The older direct layout of scripts/notarization_transaction.py: one     *)
(* publish-ready tree and one receipt in the attempt itself, no            *)
(* finalization runs.  execute no longer leaves it; recover_transaction    *)
(* still resumes it and the evidence consumer still reads it.  A resumption *)
(* holds the repository lock from its first read to its return.            *)
(***************************************************************************)
EXTENDS Naturals, Sequences

CONSTANT MaxLegacyFaults

VARIABLES
    tail,       \* the journal after distribution_verified
    receipt,    \* receipt.json, or its pending file as far as it was written
    place,      \* where the sealed tree is
    synced,     \* the tree's rename is on disk
    resume,     \* the running resumption
    legacyFaults

legacyVars == <<tail, receipt, place, synced, resume, legacyFaults>>

Receipts == {"none", "partial", "pending", "final"}
Terminals == {"publishUnknown", "publishFailed"}
Resumptions == {"none", "receipt", "seal", "publish", "sync"}
LegacyTypeOK ==
    /\ tail \in Seq({"receiptUnknown", "sealed"} \cup Terminals) /\ receipt \in Receipts
    /\ place \in {"ready", "final"} /\ synced \in BOOLEAN /\ resume \in Resumptions
    /\ legacyFaults \in 0..MaxLegacyFaults

\* What execute left: it wrote the receipt, sealed it, renamed the tree and
\* recorded the outcome of a publication that did not end well.
LegacyInit ==
    /\ \/ tail = <<>> /\ receipt \in Receipts /\ place = "ready"
       \/ tail = <<"receiptUnknown">> /\ receipt = "final" /\ place = "ready"
       \/ tail = <<"sealed">> /\ receipt = "final" /\ place \in {"ready", "final"}
       \/ tail = <<"sealed", "publishFailed">> /\ receipt = "final" /\ place = "ready"
       \/ tail = <<"sealed", "publishUnknown">> /\ receipt = "final" /\ place = "final"
    /\ synced = FALSE /\ resume = "none" /\ legacyFaults = 0

-----------------------------------------------------------------------------
\* Mutant: a receipt whose durability was unknown is never sealed later.
GrammarWithoutRepair(head) ==
    \/ tail \in {<<>>, <<"receiptUnknown">>} /\ head
    \/ tail = <<"sealed">> \/ \E t \in Terminals : tail = <<"sealed", t>>
\* _validate_direct_sealed_event_grammar; head: the sealed event may be missing.
DirectGrammar(head) ==
    \E repaired \in {<<>>, <<"receiptUnknown">>} :
        \/ tail = repaired /\ head
        \/ tail = repaired \o <<"sealed">>
        \/ \E t \in Terminals : tail = repaired \o <<"sealed", t>>

Unsealed == tail \in {<<>>, <<"receiptUnknown">>}
\* The repair is possible only before the tree is published, and a receipt of
\* unknown durability must be there complete.
Repairable == place = "ready" /\ (tail = <<"receiptUnknown">> => receipt = "final")
\* The attempt loads: the journal's form, and one complete receipt once sealed.
Resumable ==
    /\ DirectGrammar(place = "ready")
    /\ IF Unsealed THEN Repairable ELSE receipt = "final"

\* _validate_sealed_publication over the direct layout, from the bindings on.
SealedTree == receipt = "final" /\ DirectGrammar(FALSE)
\* The evidence consumer's branch for a receipt in the attempt itself.
DirectEvidence == place = "final" /\ receipt = "final" /\ DirectGrammar(FALSE)

-----------------------------------------------------------------------------
LegacyFault == legacyFaults < MaxLegacyFaults /\ legacyFaults' = legacyFaults + 1

BeginResume ==
    /\ resume = "none" /\ ~synced /\ Resumable
    /\ resume' = IF Unsealed THEN "receipt" ELSE IF place = "ready" THEN "publish" ELSE "sync"
    /\ UNCHANGED <<tail, receipt, place, synced, legacyFaults>>
\* The receipt is kept, published from a complete pending file, or built anew;
\* a partial pending file is discarded first.
RepairReceipt ==
    /\ resume = "receipt"
    /\ \/ receipt = "partial" /\ receipt' = "none" /\ UNCHANGED resume
       \/ receipt = "none" /\ receipt' = "pending" /\ UNCHANGED resume
       \/ receipt = "pending" /\ receipt' = "final" /\ UNCHANGED resume
       \/ receipt = "final" /\ resume' = "seal" /\ UNCHANGED receipt
    /\ UNCHANGED <<tail, place, synced, legacyFaults>>
AppendSealed ==
    /\ resume = "seal" /\ tail' = Append(tail, "sealed") /\ resume' = "publish"
    /\ UNCHANGED <<receipt, place, synced, legacyFaults>>
\* The tree is validated and renamed to the final root.
PublishTree ==
    /\ resume = "publish" /\ SealedTree /\ place' = "final" /\ resume' = "sync"
    /\ UNCHANGED <<tail, receipt, synced, legacyFaults>>
\* The tree and both directories are synchronised and it is validated again.
ConfirmTree ==
    /\ resume = "sync" /\ SealedTree /\ synced' = TRUE /\ resume' = "none"
    /\ UNCHANGED <<tail, receipt, place, legacyFaults>>
\* A failed call or the death of the process, which may leave a partial
\* pending receipt; no event is appended.
ResumeEnds ==
    /\ resume # "none" /\ LegacyFault /\ resume' = "none"
    /\ \/ resume = "receipt" /\ receipt = "none" /\ receipt' = "partial"
       \/ UNCHANGED receipt
    /\ UNCHANGED <<tail, place, synced>>
\* Power is lost: a rename that was not synchronised may be undone.
RenameLost ==
    /\ place = "final" /\ ~synced /\ LegacyFault
    /\ place' = "ready" /\ resume' = "none" /\ UNCHANGED <<tail, receipt, synced>>

LegacyNext ==
    \/ BeginResume \/ RepairReceipt \/ AppendSealed \/ PublishTree \/ ConfirmTree
    \/ ResumeEnds \/ RenameLost

(* Wherever resumptions of the older layout are cut off, the attempt stays *)
(* one that the next resumption accepts, and what stands at the final root *)
(* is what the evidence consumer accepts (notarization_transaction.py:5312, *)
(* 9335).                                                                  *)
LegacyStaysUsable == (resume = "none" => Resumable) /\ (place = "final" => DirectEvidence)
=============================================================================
