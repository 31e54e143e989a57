----------------------------- MODULE PacketEvidence -----------------------------
(***************************************************************************)
(* The packet cases and the transport lab, on one phone.  Either the       *)
(* collector runs packet cases against the Host, or the lab journal        *)
(* accounts for one transport run.                                         *)
(***************************************************************************)
EXTENDS PacketCase, PeerLabJournal

VARIABLE tool
vars == <<peerVars, lease, hostVars, caseVars, lab, tool>>

TypeOK ==
    /\ PeerTypeOK /\ LeaseTypeOK /\ HostTypeOK /\ CaseTypeOK /\ LabTypeOK
Init ==
    /\ PeerInit /\ LeaseInit /\ HostInit /\ CaseInit /\ LabInit
    /\ tool \in {"case", "lab"} /\ (tool = "lab" => c.kind = "local")

CaseOnly == tool = "case" /\ UNCHANGED <<lab, tool>>
Next ==
    \/ CaseOnly /\ LeaseStep /\ UNCHANGED <<hostVars, caseVars>>
    \/ CaseOnly /\ HostStep /\ UNCHANGED <<phone, tx, lease, caseVars>>
    \/ CaseOnly /\ (CollectorStep \/ NextCase \/ CollectorDies)
    \/ tool = "lab" /\ LabStep /\ UNCHANGED <<lease, hostVars, caseVars, tool>>
    \/ /\ tool = "lab" \/ c.kind = "lan"
       /\ PeerEnv /\ UNCHANGED <<lease, hostVars, caseVars, lab, tool>>
Spec == Init /\ [][Next]_vars

=============================================================================
