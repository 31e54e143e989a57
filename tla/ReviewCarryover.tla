---------------------------- MODULE ReviewCarryover ----------------------------
(***************************************************************************)
(* scripts/publication/review_carryover.py and the review stages of the    *)
(* release driver: the licence decisions of the shipped predecessor are    *)
(* carried to the candidate where nothing they rest on changed, a human    *)
(* decides the others, and the legal review approves the exact draft       *)
(* closure.  Every file is created once, under its final name, so a crash  *)
(* leaves it torn.  A decision is represented by the facts (component      *)
(* identity, licence bytes, source scope) it was taken on.                 *)
(***************************************************************************)
EXTENDS Naturals

CONSTANTS
    Items,              \* components whose licence needs a manual decision
    Facts, NoFacts,
    Shipped,            \* the predecessor's approved decisions, [Items -> Facts \cup {NoFacts}]
    MaxFaults

VARIABLES
    evidence,  \* the licence files and sources as they are on disk, once resolved
    template,  \* stage-inputs/component-review.json
    review,    \* the files of the private review directory
    draft,     \* stage-inputs/machine-closure.draft.json
    legal,     \* stage-inputs/legal-review.json and its pending copy
    human,     \* what the release owner typed: <<item, facts>>
    session,   \* the owner's interactive session
    faults

rvars == <<evidence, template, review, draft, legal, human, session, faults>>

Absent == [kind |-> "absent"]
Torn == [kind |-> "torn"]
NoReview == [comparison |-> Absent, pending |-> Absent, reviewed |-> Absent,
             decisions |-> Absent, approval |-> Absent]
NoLegal == [pending |-> Absent, final |-> Absent]
Quiet == [pc |-> "idle", kind |-> "none", doc |-> Absent]

Labels == {"idle", "compare", "comparison", "ask", "reviewed", "decisions", "legal",
           "pending", "link", "unlink", "approval"}
Documents == {"absent", "torn", "whole"}
TypeOK ==
    /\ evidence \in [Items -> Facts \cup {NoFacts}]
    /\ {template.kind, draft.kind, legal.pending.kind, legal.final.kind} \subseteq Documents
    /\ \A f \in DOMAIN review : review[f].kind \in Documents
    /\ human \subseteq Items \X Facts
    /\ session.pc \in Labels /\ session.kind \in {"none", "complete", "pending"}
    /\ faults \in 0..MaxFaults

-----------------------------------------------------------------------------
\* A reviewed document: the facts behind each decision, NoFacts while it is unresolved.
Doc(d) == [kind |-> "whole", of |-> d]
Unresolved(d) == {i \in Items : d[i] = NoFacts}

At(label) == session.pc = label
Goto(label) == session' = [session EXCEPT !.pc = label]
Leave == session' = Quiet
Fault == faults < MaxFaults /\ faults' = faults + 1
Write(file, doc) == review' = [review EXCEPT ![file] = doc]

\* Mutant: an approved decision of the same component is reused whatever its licence bytes.
ReusedById(i) == Shipped[i] # NoFacts
\* _reuse_obstacles is empty: the shipped decision is about these very facts.
Reusable(i) == Shipped[i] # NoFacts /\ Shipped[i] = template.of[i]

\* The evidence a document records is still what is on disk.
EvidenceUnchanged(S) == \A i \in S : evidence[i] = template.of[i]

-----------------------------------------------------------------------------
(* run_component_review.                                                   *)

\* The pending copy decides whether the comparison is made or resumed.
BeginReview ==
    /\ At("idle") /\ template.kind = "whole"
    /\ Goto(IF review.pending = Absent THEN "compare" ELSE "ask")
    /\ UNCHANGED <<evidence, template, review, draft, legal, human, faults>>

\* compare: the reviewed or the pending input is written, then the comparison.
NothingCompared == {review.comparison, review.reviewed, review.pending} = {Absent}
Carried == [i \in Items |-> IF Reusable(i) THEN template.of[i] ELSE NoFacts]
CompareWrites ==
    /\ At("compare") /\ NothingCompared /\ EvidenceUnchanged(Items)
    /\ LET kind == IF Unresolved(Carried) = {} THEN "complete" ELSE "pending"
       IN  /\ Write(IF kind = "complete" THEN "reviewed" ELSE "pending", Doc(Carried))
           /\ session' = [session EXCEPT !.pc = "comparison", !.kind = kind]
    /\ UNCHANGED <<evidence, template, draft, legal, human, faults>>
\* The comparison binds template, review copy and the rows it reused.
ComparisonOf(kind) ==
    [kind |-> "whole", result |-> kind, template |-> template.of, of |-> Carried,
     rows |-> {i \in Items : Reusable(i)}]
WriteComparison ==
    /\ At("comparison") /\ Write("comparison", ComparisonOf(session.kind))
    /\ IF session.kind = "complete" THEN Leave ELSE Goto("ask")
    /\ UNCHANGED <<evidence, template, draft, legal, human, faults>>

\* record_decisions: the pending copy is the one the comparison recorded.
Askable ==
    /\ {review.reviewed, review.decisions} = {Absent}
    /\ review.comparison.kind = "whole" /\ review.pending.kind = "whole"
    /\ review.comparison.result = "pending" /\ review.comparison.of = review.pending.of
    /\ review.comparison.template = template.of
\* _decide: each open item's evidence is read again, shown and decided.
Decide ==
    /\ At("ask") /\ Askable
    /\ LET open == Unresolved(review.pending.of)
       IN  /\ EvidenceUnchanged(open)
           /\ human' = human \cup {<<i, template.of[i]>> : i \in open}
           /\ session' = [session EXCEPT !.pc = "reviewed",
                 !.doc = Doc([i \in Items |-> IF i \in open THEN template.of[i]
                                              ELSE review.pending.of[i]])]
    /\ UNCHANGED <<evidence, template, review, draft, legal, faults>>
WriteReviewed ==
    /\ At("reviewed") /\ Write("reviewed", session.doc) /\ Goto("decisions")
    /\ UNCHANGED <<evidence, template, draft, legal, human, faults>>
WriteDecisions ==
    /\ At("decisions")
    /\ Write("decisions", [kind |-> "whole", reviewed |-> session.doc.of,
                           pending |-> review.pending.of, comparison |-> review.comparison,
                           decided |-> Unresolved(review.pending.of)])
    /\ Leave /\ UNCHANGED <<evidence, template, draft, legal, human, faults>>

-----------------------------------------------------------------------------
(* run_legal_review.                                                       *)

BeginLegal ==
    /\ At("idle") /\ draft.kind = "whole" /\ Goto("legal")
    /\ UNCHANGED <<evidence, template, review, draft, legal, human, faults>>

\* Mutant: the reviewed input's own word is taken for where its decisions come from.
AnyProvenance == review.reviewed.kind = "whole"
\* _decision_provenance: reused rows and recorded decisions cover the manual ones.
Provenance ==
    /\ review.comparison.kind = "whole"
    /\ \/ /\ review.comparison.result = "complete" /\ review.comparison.of = review.reviewed.of
          /\ review.comparison.rows = Items
       \/ /\ review.comparison.result = "pending" /\ review.decisions.kind = "whole"
          /\ review.decisions.reviewed = review.reviewed.of
          /\ review.decisions.pending = review.comparison.of
          /\ review.decisions.comparison = review.comparison
          /\ review.decisions.decided \cap review.comparison.rows = {}
          /\ review.decisions.decided \cup review.comparison.rows = Items
\* The reviewed input covers the draft closure, decision by decision.
Approvable ==
    /\ legal.final = Absent /\ review.approval = Absent
    /\ review.reviewed.kind = "whole" /\ Unresolved(review.reviewed.of) = {}
    /\ draft.of = review.reviewed.of
    /\ Provenance
\* The owner types the closure's digest; an earlier attempt's pending copy refuses.
Approve ==
    /\ At("legal") /\ Approvable /\ legal.pending = Absent
    /\ session' = [session EXCEPT !.pc = "pending", !.doc = Doc(draft.of)]
    /\ UNCHANGED <<evidence, template, review, draft, legal, human, faults>>
WriteLegalPending ==
    /\ At("pending") /\ legal' = [legal EXCEPT !.pending = session.doc] /\ Goto("link")
    /\ UNCHANGED <<evidence, template, review, draft, human, faults>>
\* The release tool's validator read the pending copy: a link publishes it.
LinkLegal ==
    /\ At("link") /\ legal.final = Absent
    /\ legal' = [legal EXCEPT !.final = legal.pending] /\ Goto("unlink")
    /\ UNCHANGED <<evidence, template, review, draft, human, faults>>
UnlinkLegal ==
    /\ At("unlink") /\ legal' = [legal EXCEPT !.pending = Absent] /\ Goto("approval")
    /\ UNCHANGED <<evidence, template, review, draft, human, faults>>
WriteApproval ==
    /\ At("approval") /\ review.approval = Absent
    /\ Write("approval", [kind |-> "whole", closure |-> session.doc.of,
                          reviewed |-> review.reviewed.of, comparison |-> review.comparison])
    /\ Leave /\ UNCHANGED <<evidence, template, draft, legal, human, faults>>

-----------------------------------------------------------------------------
(* shipped_decisions: the approval chain of a finished release.            *)
ChainVerifies(closure) ==
    /\ review.approval.kind = "whole" /\ legal.final.kind = "whole"
    /\ review.approval.closure = closure /\ legal.final.of = closure
    /\ review.reviewed.kind = "whole" /\ review.approval.reviewed = review.reviewed.of
    /\ review.approval.comparison = review.comparison
    /\ \A i \in Items : closure[i] = review.reviewed.of[i]

(* An answer is refused, the validator refuses, or a condition fails.  The *)
(* pending legal review is removed by the finally clause.                  *)
Refusable ==
    \/ At("compare") /\ ~(NothingCompared /\ EvidenceUnchanged(Items))
    \/ At("ask") /\ ~(Askable /\ EvidenceUnchanged(Unresolved(review.pending.of)))
    \/ At("legal") /\ ~(Approvable /\ legal.pending = Absent)
Refuse ==
    /\ Refusable /\ Leave
    /\ UNCHANGED <<evidence, template, review, draft, legal, human, faults>>
OwnerAborts ==
    /\ session.pc \in {"ask", "legal", "link"} /\ Fault /\ Leave
    /\ legal' = IF At("link") THEN [legal EXCEPT !.pending = Absent] ELSE legal
    /\ UNCHANGED <<evidence, template, review, draft, human>>

\* The session's process dies: the file it was writing may be torn.
Writing == [compare |-> "reviewed", comparison |-> "comparison", reviewed |-> "reviewed",
            decisions |-> "decisions", approval |-> "approval"]
Crash ==
    /\ session.pc # "idle" /\ Fault /\ Leave
    /\ \/ UNCHANGED <<review, legal>>
       \/ /\ session.pc \in DOMAIN Writing /\ review[Writing[session.pc]] = Absent
          /\ At("compare") => NothingCompared /\ EvidenceUnchanged(Items)
          /\ Write(IF At("compare") /\ Unresolved(Carried) # {} THEN "pending" ELSE Writing[session.pc],
                   Torn)
          /\ UNCHANGED legal
       \/ At("pending") /\ legal' = [legal EXCEPT !.pending = Torn] /\ UNCHANGED review
    /\ UNCHANGED <<evidence, template, draft, human>>
\* A cache or a source tree changes under the recorded evidence (external).
EvidenceDrift ==
    /\ Fault /\ \E i \in Items, f \in Facts :
          f # evidence[i] /\ evidence' = [evidence EXCEPT ![i] = f]
    /\ UNCHANGED <<template, review, draft, legal, human, session>>

Init ==
    /\ evidence = Shipped /\ template = Absent /\ review = NoReview /\ draft = Absent
    /\ legal = NoLegal /\ human = {} /\ session = Quiet /\ faults = 0

ReviewSteps == CompareWrites \/ WriteComparison \/ Decide \/ WriteReviewed \/ WriteDecisions
LegalSteps == Approve \/ WriteLegalPending \/ LinkLegal \/ UnlinkLegal \/ WriteApproval
Steps == ReviewSteps \/ LegalSteps \/ Refuse \/ OwnerAborts \/ Crash

-----------------------------------------------------------------------------
(* Every decision of an approved closure rests on the facts the candidate's *)
(* template recorded, and is the shipped predecessor's decision about these *)
(* same facts or one the owner typed for them: a torn or mismatched review  *)
(* file, a resumed session or drifted evidence never lets another one in    *)
(* (_reuse_obstacles, record_decisions, _decision_provenance).              *)
ApprovedDecisionsAreOwned ==
    review.approval.kind = "whole" =>
        \A i \in Items :
            /\ review.approval.closure[i] = template.of[i]
            /\ \/ Shipped[i] = template.of[i]
               \/ <<i, template.of[i]>> \in human
=============================================================================
