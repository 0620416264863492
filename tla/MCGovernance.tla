----------------------------- MODULE MCGovernance -----------------------------
EXTENDS Governance

(* Two approvals at a time, of pull requests that touch the surface, the    *)
(* golden snapshots or nothing protected, with the keywords the gates ask   *)
(* for one by one and together, and every edit of pgv.phase.                *)
MCPullRequests ==
  [files: { {"other"}, {"identity"}, {"golden_ir", "golden_identity"} },
   says: { {}, {"CEGL"}, {"ADR-00Z"}, {"ADR-001", "ENTER_PHASE_3"},
           {"ADR-001", "REBASELINE"} },
   phaseFrom: Phases, phaseTo: PhaseValues]

(* Edits of pgv.phase and of nothing protected, with and without naming the *)
(* ledger.                                                                  *)
MCEdits ==
  [files: { {"other"} }, says: { {}, {"CEGL"} }, phaseFrom: Phases, phaseTo: Phases]

(* The steps of the state machine from 2 over 3 to 4, one at a time.        *)
MCLifecycle == {pr \in MCEdits : pr.phaseTo = pr.phaseFrom + 1}
===============================================================================
