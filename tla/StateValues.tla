----------------------------- MODULE StateValues -----------------------------
(***************************************************************************)
(* What package replay and its snapshots promise a caller who takes states *)
(* for values: an event leads from a state to a new one, a snapshot has    *)
(* the state it was built from, and there is no heap.  The one place where *)
(* the heap shows is a caller that assigns into a state: states between    *)
(* two events of an entity have one map for it, so that the assignment is  *)
(* one into all of these.  A snapshot has its maps to itself.              *)
(***************************************************************************)
EXTENDS ReplayFold

CONSTANT
  Locks      \* the version triples of the builds that make snapshots

VARIABLES
  log,       \* the events so far
  states,    \* states[n + 1] is the state after the first n events
  snaps      \* the snapshots

valueVars == <<log, states, snaps>>

VInit == log = << >> /\ states = <<initialState>> /\ snaps = << >>

VApply(ev) ==
  /\ log' = Append(log, ev)
  /\ states' = Append(states, ApplyEvent(states[Len(states)], ev))
  /\ UNCHANGED snaps

(* A snapshot has the time of its last event; if that has none, any time.  *)
VBuild(n, lock) ==
  /\ Len(snaps') = Len(snaps) + 1
  /\ LET time == snaps'[Len(snaps) + 1].timestamp
     IN  /\ n # 0 => log[n].timestamp \in {0, time}
         /\ snaps' = Append(snaps,
              [state |-> states[n + 1], ccnfVersion |-> lock[1],
               collapseVersion |-> lock[2], rehydrationVersion |-> lock[3],
               timestamp |-> time])
  /\ UNCHANGED <<log, states>>

Assigned(state, e, k, v) ==
  LET entity  == state.entities[e]
      written == [entity.artifactStates EXCEPT ![k] = v]
  IN  [entities |-> [state.entities EXCEPT ![e] =
                       [entity EXCEPT !.artifactStates = written]],
       version |-> state.version]

(* No event touches the entity between the two states. *)
SameMap(e, m, n) ==
  \A i \in DOMAIN log : (m <= i /\ i < n) \/ (n <= i /\ i < m) => ~Touches(log[i], e)

VWriteState(n, e, k, v) ==
  /\ states[n].entities[e].known
  /\ states' = [m \in DOMAIN states |->
       IF SameMap(e, m, n) THEN Assigned(states[m], e, k, v) ELSE states[m]]
  /\ UNCHANGED <<log, snaps>>

VWriteSnapshot(s, e, k, v) ==
  /\ snaps[s].state.entities[e].known
  /\ snaps' = [snaps EXCEPT ![s] =
                 [snaps[s] EXCEPT !.state = Assigned(snaps[s].state, e, k, v)]]
  /\ UNCHANGED <<log, states>>

VNext ==
  \/ \E ev \in Events : VApply(ev)
  \/ \E n \in 0..Len(log), lock \in Locks : VBuild(n, lock)
  \/ \E e \in EntityKeys, k \in ArtifactKeys, v \in Values :
       \/ \E n \in DOMAIN states : VWriteState(n, e, k, v)
       \/ \E s \in DOMAIN snaps : VWriteSnapshot(s, e, k, v)

VSpec == VInit /\ [][VNext]_valueVars
===============================================================================
