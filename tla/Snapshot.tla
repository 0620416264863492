------------------------------- MODULE Snapshot -------------------------------
(***************************************************************************)
(* Package replay/snapshot over the Go heap.  ReplayFold treats a state as *)
(* a value; in the program an EntityState holds a reference to its         *)
(* ArtifactStates map, the states of a replay share the maps of entities   *)
(* they did not touch, and a nested JSON object inside a map is itself a   *)
(* reference.  This module keeps those references, so that it can say who  *)
(* sees a write made through whom: the caller of ApplyEvent, the owner of  *)
(* a snapshot, or the holder of a nested object.                           *)
(*                                                                         *)
(* states[n + 1] is the state after the first n events of the log; the     *)
(* caller keeps all of them.  Values contains scalars, the references in   *)
(* Boxes (nested objects) and Contents (what such an object may hold).     *)
(***************************************************************************)
EXTENDS ReplayFold, FiniteSets, SequencesExt

CONSTANTS
  Boxes,      \* references to nested JSON objects carried by deltas
  Contents,   \* what a nested object may contain
  Locks,      \* the version triples of the builds that make snapshots
  MaxLog,     \* bound on the length of the log
  MaxSnaps,   \* bound on the number of snapshots
  MaxTime,    \* bound on the clock
  MaxWrites   \* bound on the writes callers make

ASSUME SnapshotConstants ==
  /\ IsFiniteSet(EntityKeys) /\ IsFiniteSet(ArtifactKeys)
  /\ Boxes \cup Contents \subseteq Values
  /\ Boxes \cap Contents = {}
  /\ Locks \subseteq Nat \X Nat \X Nat
  /\ {MaxLog, MaxSnaps, MaxTime, MaxWrites} \subseteq Nat

VARIABLES
  log,        \* the events folded so far
  maps,       \* the artifact maps on the heap
  boxes,      \* the nested objects on the heap
  states,     \* the RuntimeStates the caller holds
  snaps,      \* the Snapshots built
  now,        \* the wall clock
  writer,     \* through what the last step wrote: a state, a snapshot
  writes      \* how often callers wrote

vars == <<log, maps, boxes, states, snaps, now, writer, writes>>

Nobody == <<"nobody", 0>>

(* An artifact map is named by the step that allocated it: the event that  *)
(* ApplyEvent merged or the snapshot copyState filled, and the entity.     *)
Address == {"merge", "copy"} \X (1..(MaxLog + MaxSnaps)) \X EntityKeys

NilMap == <<"nil", 0, 0>>

HeapEntity ==
  [known: BOOLEAN, artifactStates: Address \cup {NilMap},
   lastEventSeq: EventSeqs \cup {0}]

NilEntity == [known |-> FALSE, artifactStates |-> NilMap, lastEventSeq |-> 0]

(* What a reader of a state sees: the maps and nested objects followed.    *)
DeepValue(v) == IF v \in Boxes THEN boxes[v] ELSE v

DeepMap(m) == [k \in ArtifactKeys |-> DeepValue(m[k])]

MapOf(entity) ==
  IF entity.artifactStates = NilMap THEN NoArtifacts
                                    ELSE maps[entity.artifactStates]

View(state) ==
  [entities |-> [e \in EntityKeys |->
     [state.entities[e] EXCEPT !.artifactStates = DeepMap(MapOf(state.entities[e]))]],
   version |-> state.version]

(* What the maps say, nested objects left as references. *)
MapView(state) ==
  [entities |-> [e \in EntityKeys |->
     [state.entities[e] EXCEPT !.artifactStates = MapOf(state.entities[e])]],
   version |-> state.version]

DeepLog == [i \in DOMAIN log |-> [log[i] EXCEPT !.stateDelta = DeepMap(@)]]

-------------------------------------------------------------------------------
Init ==
  /\ log = << >>
  /\ maps = [a \in Address |-> NoArtifacts]
  /\ boxes \in [Boxes -> Contents]
  /\ states = << [entities |-> [e \in EntityKeys |-> NilEntity], version |-> 0] >>
  /\ snaps = << >>
  /\ now = 1
  /\ writer = Nobody
  /\ writes = 0

(* Mutant of MergedMap: the delta is written into the entity's own map.    *)
MergedMapInPlace(n, entity, e) ==
  IF entity.artifactStates = NilMap THEN <<"merge", n, e>>
                                    ELSE entity.artifactStates

(* applyDelta merges into a map it has just made. *)
MergedMap(n, entity, e) == <<"merge", n, e>>

NextVersion(state, e) == state.version + 1

(* ApplyEvent on the newest state. *)
Apply(ev) ==
  LET old    == Last(states)
      entity == old.entities[ev.entityKey]
      merged == MergedMap(Len(log) + 1, entity, ev.entityKey)
  IN  /\ Len(log) < MaxLog
      /\ log' = Append(log, ev)
      /\ maps' = [maps EXCEPT ![merged] = Merge(MapOf(entity), ev.stateDelta)]
      /\ states' = Append(states,
           [entities |-> [old.entities EXCEPT ![ev.entityKey] =
              [known |-> TRUE, artifactStates |-> merged,
               lastEventSeq |-> ev.sequence]],
            version |-> NextVersion(old, ev.entityKey)])
      /\ writer' = Nobody
      /\ UNCHANGED <<boxes, snaps, now, writes>>

(* Mutant of CopiedMap: the snapshot keeps the map of the state.           *)
CopiedMapShared(s, entity, e) == entity.artifactStates

(* copyState makes a map for every entity. *)
CopiedMap(s, entity, e) == <<"copy", s, e>>

(* Mutant of SnapshotTime: the wall clock is always used.                  *)
SnapshotTimeNow(n) == now

(* The wall clock stands in for a missing or zero event timestamp. *)
SnapshotTime(n) ==
  IF n = 0 THEN now
  ELSE IF log[n].timestamp = 0 THEN now ELSE log[n].timestamp

(* Build(states[n + 1], log[1..n]) in a build with the versions of lock. *)
Build(n, lock) ==
  LET s      == Len(snaps) + 1
      source == states[n + 1]
      known  == {e \in EntityKeys : source.entities[e].known}
      copy(e) == CopiedMap(s, source.entities[e], e)
  IN  /\ s <= MaxSnaps
      /\ maps' = [a \in Address |->
           IF \E e \in known : a = copy(e)
           THEN MapOf(source.entities[CHOOSE e \in known : a = copy(e)])
           ELSE maps[a]]
      /\ snaps' = Append(snaps,
           [state |-> [source EXCEPT !.entities =
              [e \in EntityKeys |->
                 IF e \in known
                 THEN [source.entities[e] EXCEPT !.artifactStates = copy(e)]
                 ELSE NilEntity]],
            ccnfVersion |-> lock[1], collapseVersion |-> lock[2],
            rehydrationVersion |-> lock[3],
            timestamp |-> SnapshotTime(n)])
      /\ writer' = Nobody
      /\ UNCHANGED <<log, boxes, states, now, writes>>

(* A caller assigns a key of an artifact map it reached through a state or *)
(* a snapshot, or a field of a nested object it reached that way.          *)
WriteThrough(state, e, k, v) ==
  /\ writes < MaxWrites
  /\ writes' = writes + 1
  /\ state.entities[e].known
  /\ maps' = [maps EXCEPT ![state.entities[e].artifactStates][k] = v]
  /\ UNCHANGED <<log, boxes, states, snaps, now>>

WriteState(n, e, k, v) ==
  WriteThrough(states[n], e, k, v) /\ writer' = <<"state", n>>

WriteSnapshot(s, e, k, v) ==
  WriteThrough(snaps[s].state, e, k, v) /\ writer' = <<"snapshot", s>>

WriteNested(state, b, c) ==
  /\ writes < MaxWrites
  /\ writes' = writes + 1
  /\ \E e \in EntityKeys, k \in ArtifactKeys : MapOf(state.entities[e])[k] = b
  /\ boxes' = [boxes EXCEPT ![b] = c]
  /\ UNCHANGED <<log, maps, states, snaps, now>>

WriteStateNested(n, b, c) ==
  WriteNested(states[n], b, c) /\ writer' = <<"state", n>>

WriteSnapshotNested(s, b, c) ==
  WriteNested(snaps[s].state, b, c) /\ writer' = <<"snapshot", s>>

Tick ==
  /\ now < MaxTime
  /\ now' = now + 1
  /\ writer' = Nobody
  /\ UNCHANGED <<log, maps, boxes, states, snaps, writes>>

Scalars == (Values \ Contents) \ Boxes

Next ==
  \/ \E ev \in Events : Apply(ev)
  \/ \E n \in 0..Len(log) : \E lock \in Locks : Build(n, lock)
  \/ \E e \in EntityKeys, k \in ArtifactKeys, v \in Scalars :
       \/ \E n \in DOMAIN states : WriteState(n, e, k, v)
       \/ \E s \in DOMAIN snaps : WriteSnapshot(s, e, k, v)
  \/ \E b \in Boxes, c \in Contents :
       \/ \E n \in DOMAIN states : WriteStateNested(n, b, c)
       \/ \E s \in DOMAIN snaps : WriteSnapshotNested(s, b, c)
  \/ Tick

Spec == Init /\ [][Next]_vars

-------------------------------------------------------------------------------
(* Validate: the tri-version lock first, then Fold(events) = snapshot.State*)
(* Mutant of ValidateTriVersionLock: a zero version is not rejected.       *)
ValidateTriVersionLockZero(s) ==
  /\ s.ccnfVersion = s.collapseVersion
  /\ s.ccnfVersion = s.rehydrationVersion

ValidateTriVersionLock(s) ==
  /\ s.ccnfVersion # 0 /\ s.collapseVersion # 0 /\ s.rehydrationVersion # 0
  /\ s.ccnfVersion = s.collapseVersion
  /\ s.ccnfVersion = s.rehydrationVersion

KeysOf(m) == {k \in ArtifactKeys : m[k] # Absent}

KnownOf(state) == {e \in EntityKeys : state.entities[e].known}

(* Mutant of SameSize: the lengths of the two maps are not compared.       *)
AnySize(a, b) == TRUE

SameSize(a, b) == Cardinality(a) = Cardinality(b)

equalEntityState(a, b) ==
  /\ a.lastEventSeq = b.lastEventSeq
  /\ SameSize(KeysOf(a.artifactStates), KeysOf(b.artifactStates))
  /\ \A k \in KeysOf(a.artifactStates) :
       k \in KeysOf(b.artifactStates) /\ a.artifactStates[k] = b.artifactStates[k]

EqualStates(a, b) ==
  /\ a.version = b.version
  /\ SameSize(KnownOf(a), KnownOf(b))
  /\ \A e \in KnownOf(a) :
       e \in KnownOf(b) /\ equalEntityState(a.entities[e], b.entities[e])

ValidateStateEquivalence(s, n) ==
  EqualStates(Fold(SubSeq(DeepLog, 1, n)), View(s.state))

Validate(s, n) == ValidateTriVersionLock(s) /\ ValidateStateEquivalence(s, n)

Compare(a, b) ==
  /\ a.ccnfVersion = b.ccnfVersion
  /\ a.collapseVersion = b.collapseVersion
  /\ a.rehydrationVersion = b.rehydrationVersion
  /\ a.timestamp = b.timestamp
  /\ EqualStates(View(a.state), View(b.state))

-------------------------------------------------------------------------------
(***************************************************************************)
(* The heap implements states that are values: whatever maps are shared,   *)
(* an event leads to what ApplyEvent makes of the newest state and changes *)
(* no other, a snapshot is what it was built from, and an assignment by a  *)
(* caller is seen in exactly the states in which the entity has the map    *)
(* it had there, those between the same two events of the entity.          *)
(***************************************************************************)
Abstract == INSTANCE StateValues WITH
  states <- [n \in DOMAIN states |-> MapView(states[n])],
  snaps  <- [s \in DOMAIN snaps |-> [snaps[s] EXCEPT !.state = MapView(@)]]

ImplementsStateValues == Abstract!VSpec

(***************************************************************************)
(* SNAPSHOT_SPEC S6, as far as copyState goes: the maps of a snapshot      *)
(* change only when someone writes through that snapshot; neither a later  *)
(* event nor a write through the state it was built from, or through       *)
(* another snapshot, reaches them.                                         *)
(***************************************************************************)
SnapshotIsolation ==
  [][\A s \in DOMAIN snaps :
       writer' # <<"snapshot", s>> =>
         MapView(snaps[s].state)' = MapView(snaps[s].state)]_vars

(***************************************************************************)
(* S6 as it is written, for the whole state.  Not so: the nested objects   *)
(* in the maps are shared with the state the snapshot was built from.      *)
(***************************************************************************)
InputStateIsolation ==
  [][\A s \in DOMAIN snaps :
       writer' # <<"snapshot", s>> =>
         View(snaps[s].state)' = View(snaps[s].state)]_vars

(***************************************************************************)
(* REPLAY_SPEC 3.2 and SNAPSHOT_SPEC S3: applying an event, building a     *)
(* snapshot and writing into the maps of a snapshot change no state the    *)
(* caller holds, although states share the maps of untouched entities.     *)
(***************************************************************************)
StatesNeverMutated ==
  [][writer'[1] # "state" =>
       \A n \in DOMAIN states : MapView(states[n])' = MapView(states[n])]_vars

(***************************************************************************)
(* SNAPSHOT_SPEC S1, S2: Validate accepts a snapshot for a prefix of the   *)
(* log exactly when its versions agree, none is zero, and it shows the     *)
(* last-writer-wins state of that prefix, no key or entity more or less.   *)
(* As that state counts its events, a snapshot never validates against a   *)
(* shorter or longer prefix, not even when the events between change no    *)
(* key.                                                                    *)
(* The log is read through the same references: a write into a nested      *)
(* object changes log and snapshot alike, and Validate cannot notice it.   *)
(***************************************************************************)
LockHolds(s) ==
  LET versions == {s.ccnfVersion, s.collapseVersion, s.rehydrationVersion}
  IN  Cardinality(versions) = 1 /\ 0 \notin versions

ValidateIsExact ==
  \A s \in DOMAIN snaps : \A n \in 0..Len(log) :
    Validate(snaps[s], n) <=>
      /\ LockHolds(snaps[s])
      /\ Means(View(snaps[s].state), DeepLog, 0, n)

(***************************************************************************)
(* SNAPSHOT_SPEC S5: two snapshots made by builds with the same versions   *)
(* of the same prefix, while nobody wrote into a state or a snapshot,      *)
(* compare equal whenever they are made, if the last event has a timestamp.*)
(* If it has none, or if there is no event, the clock shows in the date of *)
(* the snapshot and nowhere in its state.                                  *)
(***************************************************************************)
BuildDeterministic ==
  \A s, t \in DOMAIN snaps :
    LET n == snaps[s].state.version
    IN  /\ writes = 0
        /\ n = snaps[t].state.version
        /\ ValidateTriVersionLock(snaps[s]) /\ ValidateTriVersionLock(snaps[t])
        /\ snaps[s].ccnfVersion = snaps[t].ccnfVersion
        => /\ EqualStates(View(snaps[s].state), View(snaps[t].state))
           /\ n > 0 /\ log[n].timestamp # 0 => Compare(snaps[s], snaps[t])
===============================================================================
