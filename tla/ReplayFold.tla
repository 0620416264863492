------------------------------ MODULE ReplayFold ------------------------------
(***************************************************************************)
(* The pure operators of package replay: the state types of                *)
(* replay/types.go, the delta merge of replay/state.go and ApplyEvent of   *)
(* replay/fold.go.                                                         *)
(*                                                                         *)
(* A Go map is a total function whose missing keys are mapped to a         *)
(* sentinel: Absent for an artifact key, ZeroEntity (known = FALSE) for an *)
(* entity key.  getEntity returns the zero EntityState for a missing key,  *)
(* so the sentinel entity carries the zero values of the struct.  EventID, *)
(* CausalChainID and ArtifactID are not read by any operator below         *)
(* (applyDelta ignores its artifactID argument) and are left out.          *)
(***************************************************************************)
EXTENDS Integers, Sequences

CONSTANTS
  EntityKeys,    \* the entity keys that occur in events
  ArtifactKeys,  \* the keys that occur in state_delta maps
  Values,        \* the values a delta may carry
  Absent,        \* stands for "no such key in the map"
  EventSeqs,     \* the sequence numbers events carry
  Timestamps,    \* the epoch seconds events carry; 0 when there is none
  Events         \* the events that may be appended to a log

Delta == [ArtifactKeys -> Values \cup {Absent}]

Event == [entityKey: EntityKeys, sequence: EventSeqs, timestamp: Timestamps,
          stateDelta: Delta]

ASSUME ReplayConstants ==
  /\ Absent \notin Values
  /\ EventSeqs \subseteq Int
  /\ Events \subseteq Event

EntityState ==
  [known: BOOLEAN, artifactStates: Delta, lastEventSeq: EventSeqs \cup {0}]

RuntimeState == [entities: [EntityKeys -> EntityState], version: Nat]

NoArtifacts == [k \in ArtifactKeys |-> Absent]

ZeroEntity ==
  [known |-> FALSE, artifactStates |-> NoArtifacts, lastEventSeq |-> 0]

initialState ==
  [entities |-> [e \in EntityKeys |-> ZeroEntity], version |-> 0]

(* Mutant of Merge: a key that is there already is not overwritten.        *)
MergeKeepsFirst(base, delta) ==
  [k \in ArtifactKeys |-> IF base[k] # Absent THEN base[k] ELSE delta[k]]

(* One map laid over another: the keys of the second win. *)
Merge(base, delta) ==
  [k \in ArtifactKeys |-> IF delta[k] # Absent THEN delta[k] ELSE base[k]]

(* Mutant of applyDelta: last_event_seq never goes back.                   *)
applyDeltaNewest(entity, delta, seq) ==
  [known |-> TRUE,
   artifactStates |-> Merge(entity.artifactStates, delta),
   lastEventSeq |-> IF seq > entity.lastEventSeq THEN seq
                                                 ELSE entity.lastEventSeq]

(* last_event_seq is overwritten unconditionally, also by a smaller one.   *)
applyDelta(entity, delta, seq) ==
  [known |-> TRUE,
   artifactStates |-> Merge(entity.artifactStates, delta),
   lastEventSeq |-> seq]

updateEntity(state, e, updated) ==
  [entities |-> [state.entities EXCEPT ![e] = updated],
   version |-> state.version + 1]

ApplyEvent(state, ev) ==
  updateEntity(state, ev.entityKey,
    applyDelta(state.entities[ev.entityKey], ev.stateDelta, ev.sequence))

(* Fold, all iterations at once: the state after the last event.           *)
Fold(events) ==
  LET state[n \in 0..Len(events)] ==
        IF n = 0 THEN initialState ELSE ApplyEvent(state[n - 1], events[n])
  IN  state[Len(events)]

-------------------------------------------------------------------------------
(***************************************************************************)
(* What a replay of events lo+1 .. hi of a log promises, stated without    *)
(* running it: every artifact key holds the value of its last writer, every*)
(* entity the sequence number of its last event, and the version counts    *)
(* the events.                                                             *)
(***************************************************************************)
Touches(ev, e) == ev.entityKey = e

Writes(ev, e, k) == ev.entityKey = e /\ ev.stateDelta[k] # Absent

UntouchedEntity(entity, events, lo, hi, e) ==
  /\ entity = ZeroEntity
  /\ \A i \in (lo + 1)..hi : ~Touches(events[i], e)

LastTouch(entity, events, lo, hi, e) ==
  /\ entity.known
  /\ \E i \in (lo + 1)..hi :
       /\ Touches(events[i], e)
       /\ entity.lastEventSeq = events[i].sequence
       /\ \A j \in (i + 1)..hi : ~Touches(events[j], e)

LastWrite(value, events, lo, hi, e, k) ==
  \/ /\ value = Absent
     /\ \A i \in (lo + 1)..hi : ~Writes(events[i], e, k)
  \/ \E i \in (lo + 1)..hi :
       /\ Writes(events[i], e, k)
       /\ value = events[i].stateDelta[k]
       /\ \A j \in (i + 1)..hi : ~Writes(events[j], e, k)

EntityMeans(entity, events, lo, hi, e) ==
  /\ \/ UntouchedEntity(entity, events, lo, hi, e)
     \/ LastTouch(entity, events, lo, hi, e)
  /\ \A k \in ArtifactKeys :
       LastWrite(entity.artifactStates[k], events, lo, hi, e, k)

Means(state, events, lo, hi) ==
  /\ state.version = hi - lo
  /\ \A e \in EntityKeys : EntityMeans(state.entities[e], events, lo, hi, e)

(* REPLAY_SPEC R4: the sum of a replayed prefix and a replayed suffix.     *)
OverlayEntity(a, b) ==
  [known |-> a.known \/ b.known,
   artifactStates |-> Merge(a.artifactStates, b.artifactStates),
   lastEventSeq |-> IF b.known THEN b.lastEventSeq ELSE a.lastEventSeq]

Overlay(s, t) ==
  [entities |->
     [e \in EntityKeys |-> OverlayEntity(s.entities[e], t.entities[e])],
   version |-> s.version + t.version]
===============================================================================
