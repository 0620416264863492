--------------------------- MODULE GovernanceProofs ---------------------------
(***************************************************************************)
(* Proofs about Governance, for every set of pull requests.                *)
(*                                                                         *)
(* The argument: a merge that leaves phase 2 is accepted only if it changes*)
(* neither the phase nor the identity surface (AcceptedInPhaseTwo).  So    *)
(* phase 2 cannot be entered, a branch that moves the phase to 2 cannot    *)
(* even start before main has left it, and a waiting verdict on a          *)
(* structural change says that phase 2 is over, now and later.             *)
(***************************************************************************)
EXTENDS Governance, TLAPS

(* What is known of a pull request whose checks have passed, now or earlier*)
Waiting(pr) ==
  /\ pr.phaseFrom # pr.phaseTo => pr.phaseTo \in {3, 4}
  /\ pr.phaseFrom = pr.phaseTo /\ TouchesSurface(pr) => phase # 2

(* The inductive invariant. *)
IInv ==
  /\ TypeOK
  /\ phase \in seen
  /\ phase = 2 => seen = {2}
  /\ \A pr \in approved : Waiting(pr)

(* A pull request is accepted only if its merge leaves a known phase.      *)
LEMMA AcceptedPhaseKnown ==
  ASSUME NEW pr, NEW p, Accepted(pr, p)
  PROVE  MergedPhase(pr, p) \in Phases
<1>1. PICK s \in {"PHASE_2_FROZEN", "REBASELINE_PENDING", "PHASE_3_DUAL",
                  "PHASE_4_SWITCH"} : Candidates(pr, p) = {s}
  BY DEF Accepted, CheckCegla, Canonical
<1>2. s \in Candidates(pr, p) /\ s # "INVALID"
  BY <1>1
<1>3. FrozenRule(pr, p) \/ RebaselineRule(pr, p) \/ DualRule(pr, p)
        \/ SwitchRule(pr, p)
  BY <1>2 DEF Candidates
<1> QED
  BY <1>3 DEF FrozenRule, RebaselineRule, DualRule, SwitchRule, Phases

(* In phase 2 only what the first rule of the compiler sees is accepted:   *)
(* Gate 3 asks a structural change for a keyword that gives the compiler a *)
(* second candidate, and an edit of the phase leaves it none but one that  *)
(* is no transition of T.                                                  *)
LEMMA AcceptedInPhaseTwo ==
  ASSUME NEW pr, NEW p, Accepted(pr, p), MergedPhase(pr, p) = 2
  PROVE  ~TouchesSurface(pr) /\ p = 2
<1>1. PICK s \in {"PHASE_2_FROZEN", "REBASELINE_PENDING", "PHASE_3_DUAL",
                  "PHASE_4_SWITCH"} :
        /\ Candidates(pr, p) = {s}
        /\ LegalTransition("PHASE_2_FROZEN", s)
  BY DEF Accepted, CheckCegla, Canonical, DeclaredState
<1>2. s \in {"PHASE_2_FROZEN", "REBASELINE_PENDING"}
  BY <1>1 DEF LegalTransition, T
<1>3. "PHASE_3_DUAL" \notin Candidates(pr, p)
  BY <1>1, <1>2
<1>4. ~Says(pr, {"ENTER_PHASE_3"})
  BY <1>3 DEF Candidates, DualRule
<1>5. ~TouchesSurface(pr)
  <2>1. SUFFICES ASSUME TouchesSurface(pr) PROVE FALSE
    OBVIOUS
  <2>2. Gate3(pr, p)
    BY <2>1 DEF Accepted, CheckAdr001, TouchesSurface, Protected
  <2> QED
    BY <2>1, <2>2, <1>4 DEF Gate3
<1>6. "PHASE_2_FROZEN" \in Candidates(pr, p)
  <2>1. "REBASELINE_PENDING" \notin Candidates(pr, p)
    BY <1>5 DEF Candidates, RebaselineRule
  <2> QED
    BY <2>1, <1>1, <1>2
<1>7. ~PhaseChanged(pr, p)
  BY <1>6 DEF Candidates, FrozenRule
<1>8. p = 2
  BY <1>7 DEF PhaseChanged, Changed
<1> QED
  BY <1>5, <1>8

(* An edit of pgv.phase that does not move main's phase is already there.  *)
LEMMA ApprovedIsWaiting ==
  ASSUME IInv, NEW pr \in PullRequests, Approve(pr)
  PROVE  Waiting(pr)
<1>1. phase \in Phases /\ phase \in seen /\ (phase = 2 => seen = {2})
  BY DEF IInv, TypeOK
<1>2. Accepted(pr, phase) /\ Mergeable(pr, phase)
  BY DEF Approve
<1>3. ASSUME pr.phaseFrom # pr.phaseTo PROVE pr.phaseTo \in {3, 4}
  <2>1. MergedPhase(pr, phase) = pr.phaseTo
    BY <1>3 DEF MergedPhase
  <2>2. pr.phaseTo \in Phases
    BY <2>1, <1>2, AcceptedPhaseKnown
  <2>3. pr.phaseTo # 2
    <3>1. SUFFICES ASSUME pr.phaseTo = 2 PROVE FALSE
      OBVIOUS
    <3>2. phase = 2
      BY <3>1, <2>1, <1>2, AcceptedInPhaseTwo
    <3>3. pr.phaseFrom \in seen
      BY <1>3 DEF Approve
    <3> QED
      BY <3>1, <3>2, <3>3, <1>1, <1>3
  <2> QED
    BY <2>2, <2>3 DEF Phases
<1>4. ASSUME pr.phaseFrom = pr.phaseTo, TouchesSurface(pr) PROVE phase # 2
  <2>1. MergedPhase(pr, phase) = phase
    BY <1>4 DEF MergedPhase
  <2> QED
    BY <2>1, <1>2, <1>4, AcceptedInPhaseTwo
<1> QED
  BY <1>3, <1>4 DEF Waiting

(* A merge never enters phase 2 and brings a structural change only to     *)
(* phases 3 and 4.                                                         *)
LEMMA MergePhase ==
  ASSUME IInv, NEW pr \in PullRequests, Merge(pr)
  PROVE  /\ phase' \in Phases
         /\ phase # 2 => phase' # 2
         /\ TouchesSurface(pr) => phase' \in {3, 4}
<1>1. phase \in Phases /\ Waiting(pr) /\ phase' = MergedPhase(pr, phase)
  BY DEF IInv, TypeOK, Merge
<1>2. CASE pr.phaseFrom = pr.phaseTo
  BY <1>1, <1>2 DEF MergedPhase, Waiting, Phases
<1>3. CASE pr.phaseFrom # pr.phaseTo
  BY <1>1, <1>3 DEF MergedPhase, Waiting, Phases
<1> QED
  BY <1>2, <1>3

LEMMA Initial == Init => IInv
  BY DEF Init, IInv, TypeOK, Phases

LEMMA Inductive == IInv /\ [Next]_vars => IInv'
<1> SUFFICES ASSUME IInv, [Next]_vars PROVE IInv'
  OBVIOUS
<1>1. ASSUME NEW pr \in PullRequests, Approve(pr) PROVE IInv'
  <2>1. Waiting(pr)
    BY <1>1, ApprovedIsWaiting
  <2>2. UNCHANGED <<phase, seen, surface, late>> /\ approved' = approved \cup {pr}
    BY <1>1 DEF Approve
  <2>3. TypeOK'
    BY <2>2 DEF IInv, TypeOK
  <2>4. \A q \in approved' : Waiting(q)'
    BY <2>1, <2>2 DEF IInv, Waiting, TouchesSurface
  <2> QED
    BY <2>2, <2>3, <2>4 DEF IInv
<1>2. ASSUME NEW pr \in PullRequests, Withdraw(pr) PROVE IInv'
  <2>1. /\ UNCHANGED <<phase, seen, surface>> /\ approved' \subseteq approved
        /\ late' \subseteq approved'
    BY <1>2 DEF Withdraw, IInv, TypeOK
  <2> QED
    BY <2>1 DEF IInv, TypeOK, Waiting, TouchesSurface
<1>3. ASSUME NEW pr \in PullRequests, Merge(pr) PROVE IInv'
  <2>1. phase' \in Phases /\ (phase # 2 => phase' # 2)
    BY <1>3, MergePhase
  <2>2. /\ seen' = seen \cup {phase'} /\ approved' \subseteq approved
        /\ late' = approved'
    BY <1>3 DEF Merge
  <2>3. surface' \in Nat
    <3>1. surface \in Nat
      BY DEF IInv, TypeOK
    <3>2. surface' = surface + 1 \/ surface' = surface + 0
      BY <1>3 DEF Merge
    <3> QED
      BY <3>1, <3>2
  <2>4. TypeOK'
    BY <2>1, <2>2, <2>3 DEF IInv, TypeOK
  <2>5. phase' = 2 => seen' = {2}
    BY <2>1, <2>2 DEF IInv
  <2>6. \A q \in approved' : Waiting(q)'
    BY <2>1, <2>2 DEF IInv, Waiting, TouchesSurface
  <2> QED
    BY <2>2, <2>4, <2>5, <2>6 DEF IInv
<1>4. ASSUME UNCHANGED vars PROVE IInv'
  BY <1>4 DEF vars, IInv, TypeOK, Waiting, TouchesSurface
<1> QED
  BY <1>1, <1>2, <1>3, <1>4 DEF Next

THEOREM Invariance == Spec => []IInv
  BY Initial, Inductive, PTL DEF Spec

(* The phase of main can always be read and is one the machine knows,      *)
(* whatever is merged and however old its verdict is.                      *)
THEOREM PhaseAlwaysKnown == Spec => []TypeOK
<1>1. IInv => TypeOK
  BY DEF IInv
<1> QED
  BY <1>1, Invariance, PTL

(* ADR-001, Phase 2: no merge that leaves phase 2 changes the surface.     *)
THEOREM SurfaceIsFrozen == Spec => FrozenSurface
<1>1. IInv /\ [Next]_vars => [surface' # surface => phase' \in {3, 4}]_vars
  <2> SUFFICES ASSUME IInv, Next, surface' # surface PROVE phase' \in {3, 4}
    OBVIOUS
  <2>1. PICK pr \in PullRequests : Merge(pr)
    BY DEF Next, Approve, Withdraw
  <2>2. TouchesSurface(pr)
    BY <2>1 DEF Merge, IInv, TypeOK
  <2> QED
    BY <2>1, <2>2, MergePhase
<1> QED
  BY <1>1, Invariance, PTL DEF Spec, FrozenSurface

(* No merge brings main back to phase 2, for any set of pull requests.  It *)
(* is what the late verdicts of SurfaceIsFrozen rest on, but not what the  *)
(* state machine asks: t6_cycle_complete can never be made.                *)
THEOREM PhaseTwoIsOver == Spec => [][phase # 2 => phase' # 2]_vars
<1>1. IInv /\ [Next]_vars => [phase # 2 => phase' # 2]_vars
  <2> SUFFICES ASSUME IInv, Next, phase # 2 PROVE phase' # 2
    OBVIOUS
  <2>1. ASSUME NEW pr \in PullRequests, Merge(pr) PROVE phase' # 2
    BY <2>1, MergePhase
  <2> QED
    BY <2>1 DEF Next, Approve, Withdraw
<1> QED
  BY <1>1, Invariance, PTL DEF Spec

(* In phase 4 (and in any but 2) every pull request whose merge would leave*)
(* phase 2 is refused, whatever it changes, says and replaces: what        *)
(* CycleCanComplete asks for does not exist.                               *)
THEOREM NoWayBack ==
  ASSUME NEW pr, NEW p, p # 2, MergedPhase(pr, p) = 2
  PROVE  ~Accepted(pr, p)
BY AcceptedInPhaseTwo

(* A verdict that is not late is about main as it is, so a change of the   *)
(* phase by it is one whose commits the compiler has read.                 *)
Fresh == \A pr \in approved \ late : Accepted(pr, phase)

LEMMA FreshVerdicts == Spec => []Fresh
<1>1. Init => Fresh
  BY DEF Init, Fresh
<1>2. Fresh /\ [Next]_vars => Fresh'
  <2> SUFFICES ASSUME Fresh, [Next]_vars,
                      NEW q \in approved' \ late'
               PROVE  Accepted(q, phase')
    BY DEF Fresh
  <2>1. ASSUME NEW pr \in PullRequests, Approve(pr)
        PROVE  Accepted(q, phase')
    BY <2>1 DEF Fresh, Approve
  <2>2. ASSUME NEW pr \in PullRequests, Withdraw(pr)
        PROVE  Accepted(q, phase')
    BY <2>2 DEF Fresh, Withdraw
  <2>3. ASSUME NEW pr \in PullRequests, Merge(pr)
        PROVE  Accepted(q, phase')
    BY <2>3 DEF Merge
  <2>4. ASSUME UNCHANGED vars PROVE Accepted(q, phase')
    BY <2>4 DEF Fresh, vars
  <2> QED
    BY <2>1, <2>2, <2>3, <2>4 DEF Next
<1> QED
  BY <1>1, <1>2, PTL DEF Spec

(* Invariant I4, for every merge but those on a late verdict.              *)
THEOREM PhaseChangeIsGoverned == Spec => GovernedPhaseChange
<1>1. Fresh /\ [Next]_vars =>
        [phase' # phase =>
           \E pr \in approved :
             pr \notin approved' /\ (GovernanceRef(pr) \/ pr \in late)]_vars
  <2> SUFFICES ASSUME Fresh, Next, phase' # phase
      PROVE  \E pr \in approved :
               pr \notin approved' /\ (GovernanceRef(pr) \/ pr \in late)
    OBVIOUS
  <2>1. PICK pr \in PullRequests : Merge(pr)
    BY DEF Next, Approve, Withdraw
  <2>2. pr \in approved /\ pr \notin approved'
    BY <2>1 DEF Merge
  <2>3. PhaseChanged(pr, phase)
    BY <2>1 DEF Merge, PhaseChanged, Changed
  <2>4. pr \notin late => InvariantI4(pr, phase)
    BY <2>2 DEF Fresh, Accepted, CheckCegla
  <2> QED
    BY <2>2, <2>3, <2>4 DEF InvariantI4
<1> QED
  BY <1>1, FreshVerdicts, PTL DEF Spec, GovernedPhaseChange
===============================================================================
