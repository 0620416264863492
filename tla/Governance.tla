------------------------------ MODULE Governance ------------------------------
(***************************************************************************)
(* The merge gate of the repository: pull requests whose merge with main   *)
(* is checked by scripts/check-adr001.sh and scripts/check-cegla.sh, which *)
(* runs scripts/compile-cegla-state.sh, against the phase in pgv.phase.    *)
(*                                                                         *)
(* Both scripts run on the tree and the commits of the merge, so they read *)
(* the pgv.phase the pull request would leave behind, not the one it found.*)
(* A verdict is taken when the checks run and used when the pull request   *)
(* is merged; others may be merged in between, which makes it a late one.  *)
(*                                                                         *)
(* Files stand for the classes of paths the scripts tell apart, Keywords   *)
(* for what they grep in commit messages.  The scripts, the protected path *)
(* list and the state machine file are those of the repository throughout. *)
(***************************************************************************)
EXTENDS Integers, FiniteSets

CONSTANTS
  PullRequests,  \* the pull requests that may be opened
  MaxApproved,   \* bound on the approvals waiting to be merged
  MaxSurface     \* bound on the changes of the identity surface

Phases == {2, 3, 4}

Unreadable == 0   \* pgv.phase has no PHASE=<n> line

Missing == -1     \* there is no file pgv.phase

PhaseValues == Phases \cup {Unreadable, Missing}

Files == {"identity", "golden_ir", "golden_identity", "ledger", "pgv.phase",
          "other"}

Keywords == {"REBASELINE", "ENTER_PHASE_3", "CEGL", "ADR-001", "ADR-00Z"}

(* .tools/adr001_protected_paths.txt: tools/pgv and runtime/identity paths *)
(* ("identity", "golden_ir"), then the .tools paths.                       *)
NonTools == {"identity", "golden_ir"}

Protected == NonTools \cup {"golden_identity", "ledger"}

Golden == {"golden_ir", "golden_identity"}

(* A pull request edits pgv.phase from phaseFrom to phaseTo, or not at all *)
(* when the two are equal.                                                 *)
PullRequest ==
  [files: SUBSET (Files \ {"pgv.phase"}), says: SUBSET Keywords,
   phaseFrom: PhaseValues, phaseTo: PhaseValues]

ASSUME GovernanceConstants ==
  /\ PullRequests \subseteq PullRequest
  /\ MaxApproved \in Nat /\ MaxSurface \in Nat

VARIABLES
  phase,     \* the content of pgv.phase on main
  seen,      \* the phases main has had: what a branch can start from
  surface,   \* how often the identity surface of main changed
  approved,  \* the pull requests whose checks passed
  late       \* those of them that passed before the last merge

vars == <<phase, seen, surface, approved, late>>

(* The phase a merge of pr leaves, and the files it changes on main.       *)
MergedPhase(pr, p) == IF pr.phaseFrom = pr.phaseTo THEN p ELSE pr.phaseTo

Mergeable(pr, p) ==
  pr.phaseFrom = pr.phaseTo \/ p \in {pr.phaseFrom, pr.phaseTo}

Changed(pr, p) ==
  pr.files \cup (IF MergedPhase(pr, p) # p THEN {"pgv.phase"} ELSE {})

TouchesSurface(pr) == pr.files \cap NonTools # {}

-------------------------------------------------------------------------------
(* check-adr001.sh *)
Says(pr, words) == pr.says \cap words # {}

Gate1(pr, p) == pr.files \cap Golden # {} => Says(pr, {"REBASELINE"})

Gate2(pr, p) == Says(pr, {"ADR-001", "ADR-00Z"})

Gate3(pr, p) ==
  /\ MergedPhase(pr, p) # Missing
  /\ TouchesSurface(pr) /\ MergedPhase(pr, p) < 3
       => Says(pr, {"ENTER_PHASE_3"})

Gate4A(pr, p) ==
  "pgv.phase" \in Changed(pr, p) =>
    Says(pr, {"CEGL", "ENTER_PHASE_3", "REBASELINE", "ADR-001", "ADR-00Z"})

(* No gate is consulted when no protected path changed.                    *)
CheckAdr001(pr, p) ==
  \/ pr.files \cap Protected = {}
  \/ Gate1(pr, p) /\ Gate2(pr, p) /\ Gate3(pr, p) /\ Gate4A(pr, p)

-------------------------------------------------------------------------------
(* compile-cegla-state.sh *)
DeclaredState(p) ==
  CASE p = 2 -> "PHASE_2_FROZEN"
    [] p = 3 -> "PHASE_3_DUAL"
    [] p = 4 -> "PHASE_4_SWITCH"
    [] OTHER -> "UNKNOWN"

PhaseChanged(pr, p) == "pgv.phase" \in Changed(pr, p)

(* Mutant of FrozenRule: a change of pgv.phase does not disqualify.        *)
FrozenRuleAnyPhase(pr, p) == MergedPhase(pr, p) = 2 /\ ~TouchesSurface(pr)

FrozenRule(pr, p) ==
  MergedPhase(pr, p) = 2 /\ ~TouchesSurface(pr) /\ ~PhaseChanged(pr, p)

RebaselineRule(pr, p) ==
  MergedPhase(pr, p) = 2 /\ TouchesSurface(pr) /\ Says(pr, {"REBASELINE"})

SilentRule(pr, p) ==
  MergedPhase(pr, p) = 2 /\ TouchesSurface(pr) /\ ~Says(pr, {"REBASELINE"})

DualRule(pr, p) ==
  \/ MergedPhase(pr, p) = 2 /\ Says(pr, {"ENTER_PHASE_3"})
  \/ MergedPhase(pr, p) = 3

SwitchRule(pr, p) == MergedPhase(pr, p) = 4

NoRule(pr, p) ==
  ~(\/ FrozenRule(pr, p) \/ RebaselineRule(pr, p) \/ SilentRule(pr, p)
    \/ DualRule(pr, p) \/ SwitchRule(pr, p))

Candidates(pr, p) ==
  {s \in {"PHASE_2_FROZEN", "REBASELINE_PENDING", "INVALID", "PHASE_3_DUAL",
          "PHASE_4_SWITCH"} :
     \/ s = "PHASE_2_FROZEN" /\ FrozenRule(pr, p)
     \/ s = "REBASELINE_PENDING" /\ RebaselineRule(pr, p)
     \/ s = "INVALID" /\ (SilentRule(pr, p) \/ NoRule(pr, p))
     \/ s = "PHASE_3_DUAL" /\ DualRule(pr, p)
     \/ s = "PHASE_4_SWITCH" /\ SwitchRule(pr, p)}

(* Axiom A3, |C(O)| = 1: the canonical state is s.                         *)
Canonical(pr, p, s) ==
  MergedPhase(pr, p) # Missing /\ Candidates(pr, p) = {s}

GovernanceRef(pr) == Says(pr, {"CEGL", "ADR-001"})

(* Mutant of InvariantI4: Gate 4A is trusted to have checked it.           *)
InvariantI4Trusting(pr, p) == TRUE

InvariantI4(pr, p) == PhaseChanged(pr, p) => GovernanceRef(pr)

InvariantI5(pr, p, s) ==
  s # "INVALID" /\ DeclaredState(MergedPhase(pr, p)) \notin {"UNKNOWN", s}
    => GovernanceRef(pr)

-------------------------------------------------------------------------------
(* check-cegla.sh, with the transitions of .tools/pgv.state_machine.json.  *)
T == { <<"PHASE_2_FROZEN", "REBASELINE_PENDING">>,
       <<"REBASELINE_PENDING", "REBASELINE_ACCEPTED">>,
       <<"REBASELINE_PENDING", "PHASE_2_FROZEN">>,
       <<"REBASELINE_ACCEPTED", "PHASE_3_DUAL">>,
       <<"PHASE_3_DUAL", "PHASE_4_SWITCH">>,
       <<"PHASE_4_SWITCH", "PHASE_2_FROZEN">>,
       <<"*", "INVALID">> }

LegalTransition(declared, s) ==
  declared = s \/ <<declared, s>> \in T \/ <<"*", s>> \in T

(* Mutant of CheckCegla: the last step does not reject INVALID.            *)
CheckCeglaAnyState(pr, p) ==
  \E s \in {"PHASE_2_FROZEN", "REBASELINE_PENDING", "PHASE_3_DUAL",
            "PHASE_4_SWITCH", "INVALID"} :
    /\ Canonical(pr, p, s)
    /\ LegalTransition(DeclaredState(MergedPhase(pr, p)), s)
    /\ InvariantI4(pr, p) /\ InvariantI5(pr, p, s)

CheckCegla(pr, p) ==
  \E s \in {"PHASE_2_FROZEN", "REBASELINE_PENDING", "PHASE_3_DUAL",
            "PHASE_4_SWITCH"} :
    /\ Canonical(pr, p, s)
    /\ LegalTransition(DeclaredState(MergedPhase(pr, p)), s)
    /\ InvariantI4(pr, p) /\ InvariantI5(pr, p, s)

Accepted(pr, p) == CheckAdr001(pr, p) /\ CheckCegla(pr, p)

-------------------------------------------------------------------------------
Init ==
  /\ phase = 2
  /\ seen = {2}
  /\ surface = 0
  /\ approved = {}
  /\ late = {}

(* Both jobs pass on the merge of pr with main as it is now. *)
Approve(pr) ==
  /\ pr \notin approved
  /\ Cardinality(approved) < MaxApproved
  /\ pr.phaseFrom = pr.phaseTo \/ pr.phaseFrom \in seen
  /\ Mergeable(pr, phase)
  /\ Accepted(pr, phase)
  /\ approved' = approved \cup {pr}
  /\ UNCHANGED <<phase, seen, surface, late>>

(* A new commit on the branch or a closed pull request voids the approval. *)
Withdraw(pr) ==
  /\ pr \in approved
  /\ approved' = approved \ {pr}
  /\ late' = late \ {pr}
  /\ UNCHANGED <<phase, seen, surface>>

(* The pull request is merged on the strength of its last verdict. *)
Merge(pr) ==
  /\ pr \in approved
  /\ Mergeable(pr, phase)
  /\ surface < MaxSurface
  /\ phase' = MergedPhase(pr, phase)
  /\ seen' = seen \cup {phase'}
  /\ surface' = surface + (IF TouchesSurface(pr) THEN 1 ELSE 0)
  /\ approved' = approved \ {pr}
  /\ late' = approved'

Next == \E pr \in PullRequests : Approve(pr) \/ Withdraw(pr) \/ Merge(pr)

Spec == Init /\ [][Next]_vars

(* In particular pgv.phase can always be read and names a known phase.     *)
TypeOK ==
  /\ phase \in Phases
  /\ seen \subseteq Phases
  /\ surface \in Nat
  /\ approved \subseteq PullRequests /\ late \subseteq approved

-------------------------------------------------------------------------------
(***************************************************************************)
(* ADR-001, Phase 2: the identity surface never changes by a merge that    *)
(* leaves main in phase 2, not even by one whose checks ran earlier, in    *)
(* another phase.  It takes both scripts: a pull request that satisfies    *)
(* Gate 3 by saying ENTER_PHASE_3 leaves the compiler two candidate states.*)
(* That a late verdict does no harm rests on a defect: no merge brings main*)
(* back to phase 2 (CycleCanComplete, below).                              *)
(***************************************************************************)
FrozenSurface == [][surface' # surface => phase' \in {3, 4}]_vars

(***************************************************************************)
(* Invariant I4 of the state machine: pgv.phase on main changes only by a  *)
(* merge whose commits name CEGL or a numbered ADR.  Gate 4A is skipped    *)
(* when no protected path changed, so this rests on the compiler's I4.     *)
(* A late verdict is no guard: an edit that was void when it was checked,  *)
(* because main had the new phase already, counts once main went back.     *)
(***************************************************************************)
GovernedPhaseChange ==
  [][phase' # phase =>
       \E pr \in approved : pr \notin approved' /\ (GovernanceRef(pr) \/ pr \in late)]_vars

-------------------------------------------------------------------------------
(* What the repository says of the gates and the scripts do not do.        *)

(***************************************************************************)
(* ENGINEERS.md, CEGL-A2: transitions exist only in T.  An edit of         *)
(* pgv.phase is all that main shows of a transition, so t1, t2 and t4      *)
(* together are a step from 2 to 3.  Not so: an edit is read as the state  *)
(* declared, and a step over a state passes for no transition at all.      *)
(***************************************************************************)
TransitionsInT ==
  [][phase' # phase =>
       <<DeclaredState(phase), DeclaredState(phase')>>
         \in T \cup {<<"PHASE_2_FROZEN", "PHASE_3_DUAL">>}]_vars

(***************************************************************************)
(* t6_cycle_complete of the state machine, and Step 5 of ADR-001: after    *)
(* the switch-over the new behavior is frozen, so some pull request can    *)
(* take pgv.phase from 4 back to 2.  None can, whatever it changes and     *)
(* says: the first rule of the compiler wants the phase unchanged.         *)
(***************************************************************************)
CycleCanComplete ==
  phase = 4 =>
    \E pr \in [files: SUBSET (Files \ {"pgv.phase"}), says: SUBSET Keywords,
               phaseFrom: {4}, phaseTo: {2}] : Accepted(pr, phase)
===============================================================================
