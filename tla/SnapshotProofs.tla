---------------------------- MODULE SnapshotProofs ----------------------------
(***************************************************************************)
(* Proofs about Snapshot, for every set of entities, keys, values, events  *)
(* and builds and for every bound: who can see a write made through whom,  *)
(* what Validate accepts, that Build is deterministic, and that the heap   *)
(* implements states that are values.                                      *)
(***************************************************************************)
EXTENDS Snapshot, ReplayFoldProofs, FiniteSetTheorems

HeapState == [entities: [EntityKeys -> HeapEntity], version: Nat]

SnapshotType == [state: HeapState, ccnfVersion: Nat, collapseVersion: Nat,
                 rehydrationVersion: Nat, timestamp: Nat \cup Timestamps]

TypeInv ==
  /\ log \in Seq(Event) /\ Len(log) <= MaxLog
  /\ maps \in [Address -> Delta]
  /\ boxes \in [Boxes -> Contents]
  /\ states \in Seq(HeapState) /\ Len(states) = Len(log) + 1
  /\ snaps \in Seq(SnapshotType) /\ Len(snaps) <= MaxSnaps
  /\ now \in Nat /\ writes \in Nat

(***************************************************************************)
(* The strengthening that isolation needs: the maps of state n were made   *)
(* by the first n - 1 events, those of snapshot s by the Build that made   *)
(* it, so that no map made later is one of them.                           *)
(***************************************************************************)
StatesOwn ==
  \A n \in DOMAIN states :
    /\ states[n].version = n - 1
    /\ \A e \in EntityKeys :
         \/ states[n].entities[e] = NilEntity
         \/ /\ states[n].entities[e].known
            /\ \E m \in 1..(n - 1) : states[n].entities[e].artifactStates = <<"merge", m, e>>

SnapshotsOwn ==
  \A s \in DOMAIN snaps :
    /\ snaps[s].state.version \in 0..Len(log)
    /\ \A e \in EntityKeys :
         \/ snaps[s].state.entities[e] = NilEntity
         \/ /\ snaps[s].state.entities[e].known
            /\ snaps[s].state.entities[e].artifactStates = <<"copy", s, e>>

(* What Build copied stays what it copied until somebody writes.           *)
CopiesFaithful ==
  writes = 0 =>
    \A s \in DOMAIN snaps :
      MapView(snaps[s].state) = MapView(states[snaps[s].state.version + 1])

TimeOfLastEvent ==
  \A s \in DOMAIN snaps : \A n \in 1..Len(log) :
    n = snaps[s].state.version /\ log[n].timestamp # 0
      => snaps[s].timestamp = log[n].timestamp

IInv == TypeInv /\ StatesOwn /\ SnapshotsOwn /\ CopiesFaithful /\ TimeOfLastEvent

-------------------------------------------------------------------------------
(* Addresses and what they hold.                                           *)

LEMMA AddressFacts ==
  /\ \A m \in 1..MaxLog, e \in EntityKeys : <<"merge", m, e>> \in Address
  /\ \A s \in 1..MaxSnaps, e \in EntityKeys : <<"copy", s, e>> \in Address
  /\ NilMap \notin Address
  BY SnapshotConstants DEF Address, NilMap

LEMMA NilTyped == NilEntity \in HeapEntity
  BY DEF NilEntity, HeapEntity

(* MapOf over a heap that is given.                                        *)
Seen(x, heap) == IF x.artifactStates = NilMap THEN NoArtifacts ELSE heap[x.artifactStates]

(* What a state shows over a heap that is given.                           *)
Shown(state, heap) ==
  [entities |-> [e \in EntityKeys |->
     [state.entities[e] EXCEPT !.artifactStates = Seen(state.entities[e], heap)]],
   version |-> state.version]

LEMMA MapOfTyped ==
  ASSUME TypeInv, NEW x \in HeapEntity
  PROVE  MapOf(x) \in Delta
  BY DEF TypeInv, HeapEntity, MapOf, NoArtifacts, Delta

-------------------------------------------------------------------------------
(* Whose maps a step changes, and whose states and snapshots it keeps.     *)

KeepsStates ==
  \A n \in DOMAIN states :
    /\ n \in DOMAIN states' /\ states'[n] = states[n]
    /\ \A e \in EntityKeys :
         \/ states[n].entities[e].artifactStates = NilMap
         \/ maps'[states[n].entities[e].artifactStates]
              = maps[states[n].entities[e].artifactStates]

KeepsSnapshot(s) ==
  /\ s \in DOMAIN snaps' /\ snaps'[s] = snaps[s]
  /\ \A e \in EntityKeys :
       \/ snaps[s].state.entities[e].artifactStates = NilMap
       \/ maps'[snaps[s].state.entities[e].artifactStates]
            = maps[snaps[s].state.entities[e].artifactStates]

(* The rest of a step's lemma: which addresses the step writes.            *)
WritesOnly(A) == \A b \in Address \ A : maps'[b] = maps[b]

LEMMA StatesKept ==
  ASSUME IInv, NEW A, WritesOnly(A),
         \A m \in 1..Len(log), e \in EntityKeys : <<"merge", m, e>> \notin A,
         \A n \in DOMAIN states : n \in DOMAIN states' /\ states'[n] = states[n]
  PROVE  KeepsStates
  <1>1. ASSUME NEW n \in DOMAIN states, NEW e \in EntityKeys,
               states[n].entities[e].artifactStates # NilMap
        PROVE  maps'[states[n].entities[e].artifactStates]
                 = maps[states[n].entities[e].artifactStates]
    <2>1. PICK m \in 1..(n - 1) : states[n].entities[e].artifactStates = <<"merge", m, e>>
      BY <1>1 DEF IInv, StatesOwn, NilEntity
    <2>2. n \in 1..(Len(log) + 1) /\ Len(log) \in Nat /\ Len(log) <= MaxLog /\ MaxLog \in Nat
      BY SnapshotConstants DEF IInv, TypeInv
    <2>3. m \in 1..Len(log) /\ m \in 1..MaxLog
      BY <2>1, <2>2
    <2>4. <<"merge", m, e>> \in Address \ A
      BY <2>3, AddressFacts
    <2>5. QED
      BY <2>1, <2>4 DEF WritesOnly
  <1>2. QED
    BY <1>1 DEF KeepsStates

LEMMA SnapshotKept ==
  ASSUME IInv, NEW A, WritesOnly(A), NEW s \in DOMAIN snaps,
         \A e \in EntityKeys : <<"copy", s, e>> \notin A,
         s \in DOMAIN snaps' /\ snaps'[s] = snaps[s]
  PROVE  KeepsSnapshot(s)
  <1>1. ASSUME NEW e \in EntityKeys, snaps[s].state.entities[e].artifactStates # NilMap
        PROVE  maps'[snaps[s].state.entities[e].artifactStates]
                 = maps[snaps[s].state.entities[e].artifactStates]
    <2>1. snaps[s].state.entities[e].artifactStates = <<"copy", s, e>>
      BY <1>1 DEF IInv, SnapshotsOwn, NilEntity
    <2>2. s \in 1..MaxSnaps
      BY SnapshotConstants DEF IInv, TypeInv
    <2>3. <<"copy", s, e>> \in Address \ A
      BY <2>2, AddressFacts
    <2>4. QED
      BY <2>1, <2>3 DEF WritesOnly
  <1>2. QED
    BY <1>1 DEF KeepsSnapshot

LEMMA ApplyKeeps ==
  ASSUME IInv, NEW ev \in Events, Apply(ev)
  PROVE  KeepsStates /\ \A s \in DOMAIN snaps : KeepsSnapshot(s)
  <1> DEFINE a == <<"merge", Len(log) + 1, ev.entityKey>>
  <1>1. /\ maps' = [maps EXCEPT ![a] =
                      Merge(MapOf(Last(states).entities[ev.entityKey]), ev.stateDelta)]
        /\ \E new : states' = Append(states, new)
        /\ snaps' = snaps
    BY DEF Apply, MergedMap
  <1>2. WritesOnly({a})
    BY <1>1 DEF WritesOnly, IInv, TypeInv
  <1>3. Len(log) \in Nat /\ states \in Seq(HeapState)
    BY DEF IInv, TypeInv
  <1>4. /\ \A n \in DOMAIN states : n \in DOMAIN states' /\ states'[n] = states[n]
        /\ \A m \in 1..Len(log), e \in EntityKeys : <<"merge", m, e>> \notin {a}
        /\ \A s \in DOMAIN snaps, e \in EntityKeys : <<"copy", s, e>> \notin {a}
    BY <1>1, <1>3
  <1> HIDE DEF a
  <1>5. QED
    BY <1>1, <1>2, <1>4, StatesKept, SnapshotKept

LEMMA BuildKeeps ==
  ASSUME IInv, NEW n \in 0..Len(log), NEW lock \in Locks, Build(n, lock)
  PROVE  KeepsStates /\ \A s \in DOMAIN snaps : KeepsSnapshot(s)
  <1> DEFINE A == {<<"copy", Len(snaps) + 1, e>> : e \in EntityKeys}
  <1>1. /\ WritesOnly(A)
        /\ \E new : snaps' = Append(snaps, new)
        /\ states' = states
    BY DEF Build, CopiedMap, WritesOnly
  <1>2. Len(snaps) \in Nat /\ snaps \in Seq(SnapshotType)
    BY DEF IInv, TypeInv
  <1>3. /\ \A s \in DOMAIN snaps : s \in DOMAIN snaps' /\ snaps'[s] = snaps[s]
        /\ \A m \in 1..Len(log), e \in EntityKeys : <<"merge", m, e>> \notin A
        /\ \A s \in DOMAIN snaps, e \in EntityKeys : <<"copy", s, e>> \notin A
    BY <1>1, <1>2
  <1> HIDE DEF A
  <1>4. QED
    BY <1>1, <1>3, StatesKept, SnapshotKept

(* A write through a state reaches a map that an event made, a write       *)
(* through a snapshot the map that its Build made for it.                  *)
LEMMA WriteStateKeeps ==
  ASSUME IInv, NEW n \in DOMAIN states, NEW e \in EntityKeys, NEW k, NEW v,
         WriteState(n, e, k, v)
  PROVE  \A s \in DOMAIN snaps : KeepsSnapshot(s)
  <1> DEFINE a == states[n].entities[e].artifactStates
  <1>1. WritesOnly({a}) /\ states[n].entities[e].known /\ snaps' = snaps
    BY DEF WriteState, WriteThrough, IInv, TypeInv, WritesOnly
  <1>2. PICK m \in 1..(n - 1) : a = <<"merge", m, e>>
    BY <1>1 DEF IInv, StatesOwn, NilEntity
  <1> HIDE DEF a
  <1>3. QED
    BY <1>1, <1>2, SnapshotKept

LEMMA WriteSnapshotKeeps ==
  ASSUME IInv, NEW t \in DOMAIN snaps, NEW e \in EntityKeys, NEW k, NEW v,
         WriteSnapshot(t, e, k, v)
  PROVE  KeepsStates /\ \A s \in DOMAIN snaps : s # t => KeepsSnapshot(s)
  <1> DEFINE a == snaps[t].state.entities[e].artifactStates
  <1>1. WritesOnly({a}) /\ snaps[t].state.entities[e].known /\ UNCHANGED <<snaps, states>>
    BY DEF WriteSnapshot, WriteThrough, IInv, TypeInv, WritesOnly
  <1>2. a = <<"copy", t, e>>
    BY <1>1 DEF IInv, SnapshotsOwn, NilEntity
  <1> HIDE DEF a
  <1>3. QED
    BY <1>1, <1>2, StatesKept, SnapshotKept

LEMMA OthersKeep ==
  ASSUME IInv, UNCHANGED <<maps, states, snaps>>
  PROVE  KeepsStates /\ \A s \in DOMAIN snaps : KeepsSnapshot(s)
  BY DEF KeepsStates, KeepsSnapshot

LEMMA StepIsolates ==
  ASSUME IInv, [Next]_vars
  PROVE  /\ writer'[1] # "state" => KeepsStates
         /\ \A s \in DOMAIN snaps : writer' # <<"snapshot", s>> => KeepsSnapshot(s)
  <1>1. ASSUME NEW ev \in Events, Apply(ev)
        PROVE  KeepsStates /\ \A s \in DOMAIN snaps : KeepsSnapshot(s)
    BY <1>1, ApplyKeeps
  <1>2. ASSUME NEW n \in 0..Len(log), NEW lock \in Locks, Build(n, lock)
        PROVE  KeepsStates /\ \A s \in DOMAIN snaps : KeepsSnapshot(s)
    BY <1>2, BuildKeeps
  <1>3. ASSUME NEW e \in EntityKeys, NEW k \in ArtifactKeys, NEW v \in Scalars,
               NEW n \in DOMAIN states, WriteState(n, e, k, v)
        PROVE  writer'[1] = "state" /\ \A s \in DOMAIN snaps : KeepsSnapshot(s)
    <2>1. writer' = <<"state", n>>
      BY <1>3 DEF WriteState
    <2>2. QED
      BY <1>3, <2>1, WriteStateKeeps
  <1>4. ASSUME NEW e \in EntityKeys, NEW k \in ArtifactKeys, NEW v \in Scalars,
               NEW t \in DOMAIN snaps, WriteSnapshot(t, e, k, v)
        PROVE  /\ writer' = <<"snapshot", t>> /\ KeepsStates
               /\ \A s \in DOMAIN snaps : s # t => KeepsSnapshot(s)
    <2>1. writer' = <<"snapshot", t>>
      BY <1>4 DEF WriteSnapshot
    <2>2. QED
      BY <1>4, <2>1, WriteSnapshotKeeps
  <1>5. ASSUME NEW b \in Boxes, NEW c \in Contents,
               \/ \E n \in DOMAIN states : WriteStateNested(n, b, c)
               \/ \E s \in DOMAIN snaps : WriteSnapshotNested(s, b, c)
        PROVE  KeepsStates /\ \A s \in DOMAIN snaps : KeepsSnapshot(s)
    BY <1>5, OthersKeep DEF WriteStateNested, WriteSnapshotNested, WriteNested
  <1>6. CASE Tick \/ UNCHANGED vars
    BY <1>6, OthersKeep DEF Tick, vars
  <1>7. QED
    BY <1>1, <1>2, <1>3, <1>4, <1>5, <1>6 DEF Next

LEMMA KeptSnapshotView ==
  ASSUME IInv, NEW s \in DOMAIN snaps, KeepsSnapshot(s)
  PROVE  MapView(snaps[s].state)' = MapView(snaps[s].state)
  <1>1. snaps'[s] = snaps[s]
    BY DEF KeepsSnapshot
  <1>2. ASSUME NEW e \in EntityKeys
        PROVE  MapOf(snaps[s].state.entities[e])' = MapOf(snaps[s].state.entities[e])
    BY <1>1 DEF MapOf, KeepsSnapshot
  <1>3. QED
    BY <1>1, <1>2 DEF MapView

LEMMA KeptStateView ==
  ASSUME IInv, NEW n \in DOMAIN states, KeepsStates
  PROVE  MapView(states[n])' = MapView(states[n])
  <1>1. states'[n] = states[n]
    BY DEF KeepsStates
  <1>2. ASSUME NEW e \in EntityKeys
        PROVE  MapOf(states[n].entities[e])' = MapOf(states[n].entities[e])
    BY <1>1 DEF MapOf, KeepsStates
  <1>3. QED
    BY <1>1, <1>2 DEF MapView

-------------------------------------------------------------------------------
(* The invariant is inductive.                                             *)

LEMMA InitIInv == Init => IInv
  <1> SUFFICES ASSUME Init PROVE IInv
    OBVIOUS
  <1> DEFINE first == [entities |-> [e \in EntityKeys |-> NilEntity], version |-> 0]
  <1>1. first \in HeapState /\ NoArtifacts \in Delta
    BY NilTyped DEF HeapState, NoArtifacts, Delta
  <1>2. /\ log = <<>> /\ states = <<first>> /\ snaps = <<>> /\ now = 1 /\ writes = 0
        /\ maps = [a \in Address |-> NoArtifacts] /\ boxes \in [Boxes -> Contents]
    BY DEF Init
  <1>3. TypeInv
    BY <1>1, <1>2, SnapshotConstants DEF TypeInv
  <1>4. StatesOwn
    BY <1>2 DEF StatesOwn
  <1>5. QED
    BY <1>2, <1>3, <1>4 DEF IInv, SnapshotsOwn, CopiesFaithful, TimeOfLastEvent

(* A step that keeps the views keeps what Build copied.                    *)
LEMMA CopiesKept ==
  ASSUME IInv, KeepsStates, \A s \in DOMAIN snaps : KeepsSnapshot(s),
         NEW s \in DOMAIN snaps, writes = 0
  PROVE  MapView(snaps[s].state)' = MapView(states[snaps[s].state.version + 1])'
  <1>1. snaps[s].state.version \in 0..Len(log)
    BY DEF IInv, SnapshotsOwn
  <1>2. PICK n \in DOMAIN states : n = snaps[s].state.version + 1
    BY <1>1 DEF IInv, TypeInv
  <1>3. snaps'[s] = snaps[s]
    BY DEF KeepsSnapshot
  <1>4. MapView(snaps[s].state) = MapView(states[n])
    BY <1>2 DEF IInv, CopiesFaithful
  <1>5. MapView(snaps[s].state)' = MapView(snaps[s].state)
    BY KeptSnapshotView
  <1>6. MapView(states[n])' = MapView(states[n])
    BY KeptStateView
  <1>7. (snaps[s].state.version + 1)' = n
    BY <1>2, <1>3
  <1>8. MapView(states[snaps[s].state.version + 1])' = MapView(states[n])'
    BY <1>7 DEF MapView
  <1>9. QED
    BY <1>4, <1>5, <1>6, <1>8

LEMMA ApplyIInv ==
  ASSUME IInv, NEW ev \in Events, Apply(ev)
  PROVE  IInv'
  <1> DEFINE n == Len(log) + 1
             old == states[n]
             entity == old.entities[ev.entityKey]
             a == <<"merge", n, ev.entityKey>>
             filled == [known |-> TRUE, artifactStates |-> a, lastEventSeq |-> ev.sequence]
             new == [entities |-> [old.entities EXCEPT ![ev.entityKey] = filled],
                     version |-> old.version + 1]
  <1>1. /\ TypeInv /\ StatesOwn /\ SnapshotsOwn /\ CopiesFaithful /\ TimeOfLastEvent
        /\ ev \in Event
    BY ReplayConstants DEF IInv
  <1>2. Len(log) \in Nat /\ Len(states) = n /\ Last(states) = old /\ n \in DOMAIN states
        /\ old \in HeapState
    BY <1>1 DEF TypeInv, Last
  <1>3. /\ Len(log) < MaxLog /\ log' = Append(log, ev)
        /\ maps' = [maps EXCEPT ![a] = Merge(MapOf(entity), ev.stateDelta)]
        /\ states' = Append(states, new)
        /\ UNCHANGED <<boxes, snaps, now, writes>>
    BY <1>2 DEF Apply, MergedMap, NextVersion
  <1>4. n \in 1..MaxLog /\ ev.entityKey \in EntityKeys /\ a \in Address
    BY <1>1, <1>2, <1>3, AddressFacts, SnapshotConstants DEF Event
  <1>5. filled \in HeapEntity /\ new \in HeapState
    <2>1. filled \in HeapEntity
      BY <1>1, <1>4 DEF HeapEntity, Event
    <2>2. QED
      BY <1>2, <1>4, <2>1 DEF HeapState
  <1>6. Merge(MapOf(entity), ev.stateDelta) \in Delta
    <2>1. entity \in HeapEntity
      BY <1>2, <1>4 DEF HeapState
    <2>2. MapOf(entity) \in Delta
      BY <1>1, <2>1, MapOfTyped
    <2>3. QED
      BY <1>1, <2>2 DEF Merge, Delta, Event
  <1>7. TypeInv'
    <2>1. states' \in Seq(HeapState) /\ Len(states') = Len(log') + 1 /\ log' \in Seq(Event)
          /\ Len(log') <= MaxLog
      <3> HIDE DEF new
      <3>1. QED
        BY <1>1, <1>2, <1>3, <1>5, SnapshotConstants DEF TypeInv
    <2>2. maps' \in [Address -> Delta]
      BY <1>1, <1>3, <1>4, <1>6 DEF TypeInv
    <2>3. QED
      BY <1>1, <1>3, <2>1, <2>2 DEF TypeInv
  <1>8. StatesOwn'
    <2>1. ASSUME NEW m \in DOMAIN states' PROVE m \in DOMAIN states \/ m = n + 1
      BY <1>1, <1>2, <1>3, <2>1 DEF TypeInv
    <2>2. ASSUME NEW m \in DOMAIN states PROVE states'[m] = states[m]
      BY <1>1, <1>2, <1>3, <2>2 DEF TypeInv
    <2>3. states'[n + 1] = new
      BY <1>1, <1>2, <1>3 DEF TypeInv
    <2>4. new.version = n /\ n \in Nat /\ (n + 1) - 1 = n
      BY <1>1, <1>2 DEF StatesOwn
    <2>5. ASSUME NEW e \in EntityKeys
          PROVE  \/ new.entities[e] = NilEntity
                 \/ /\ new.entities[e].known
                    /\ \E m \in 1..n : new.entities[e].artifactStates = <<"merge", m, e>>
      <3>1. CASE e = ev.entityKey
        <4>1. new.entities[e] = filled
          BY <1>2, <3>1 DEF HeapState
        <4>2. n \in 1..n
          BY <1>2
        <4>3. QED
          BY <3>1, <4>1, <4>2
      <3>2. CASE e # ev.entityKey
        <4>1. new.entities[e] = old.entities[e]
          BY <1>2, <3>2 DEF HeapState
        <4>2. 1..(n - 1) \subseteq 1..n
          BY <1>2
        <4>3. QED
          BY <1>1, <1>2, <4>1, <4>2 DEF StatesOwn
      <3>3. QED
        BY <3>1, <3>2
    <2> HIDE DEF new, n
    <2>6. QED
      BY <1>1, <2>1, <2>2, <2>3, <2>4, <2>5 DEF StatesOwn
  <1>9. SnapshotsOwn'
    <2>1. 0..Len(log) \subseteq 0..Len(log')
      BY <1>1, <1>2, <1>3 DEF TypeInv
    <2>2. QED
      BY <1>1, <1>3, <2>1 DEF SnapshotsOwn
  <1>10. CopiesFaithful'
    <2>1. KeepsStates /\ \A s \in DOMAIN snaps : KeepsSnapshot(s)
      BY ApplyKeeps
    <2>2. QED
      BY <1>3, <2>1, CopiesKept DEF CopiesFaithful
  <1>11. TimeOfLastEvent'
    <2>1. ASSUME NEW m \in 1..Len(log) PROVE log'[m] = log[m]
      BY <1>1, <1>3 DEF TypeInv
    <2>2. ASSUME NEW s \in DOMAIN snaps PROVE snaps[s].state.version \in 0..Len(log)
      BY <1>1 DEF SnapshotsOwn
    <2>3. ASSUME NEW s \in DOMAIN snaps, NEW m \in 1..Len(log'), m = snaps[s].state.version
          PROVE  m \in 1..Len(log)
      BY <1>2, <2>2, <2>3
    <2>4. QED
      BY <1>1, <1>3, <2>1, <2>3 DEF TimeOfLastEvent
  <1>12. QED
    BY <1>7, <1>8, <1>9, <1>10, <1>11 DEF IInv

(* A snapshot shows what the state it is built from shows. *)
LEMMA BuildShows ==
  ASSUME IInv, NEW n \in 0..Len(log), NEW lock \in Locks, Build(n, lock)
  PROVE  Shown(snaps'[Len(snaps) + 1].state, maps') = Shown(states[n + 1], maps)
  <1> DEFINE t == Len(snaps) + 1
             source == states[n + 1]
             known == {e \in EntityKeys : source.entities[e].known}
             a(e) == <<"copy", t, e>>
             copied == [e \in EntityKeys |->
                          IF e \in known
                          THEN [source.entities[e] EXCEPT !.artifactStates = a(e)]
                          ELSE NilEntity]
             new == [state |-> [source EXCEPT !.entities = copied],
                     ccnfVersion |-> lock[1], collapseVersion |-> lock[2],
                     rehydrationVersion |-> lock[3], timestamp |-> SnapshotTime(n)]
  <1>1. /\ Len(snaps) \in Nat /\ snaps \in Seq(SnapshotType) /\ n + 1 \in DOMAIN states
        /\ source \in HeapState
    BY DEF IInv, TypeInv
  <1>2. /\ t <= MaxSnaps /\ snaps' = Append(snaps, new)
        /\ maps' = [b \in Address |->
                      IF \E e \in known : b = a(e)
                      THEN MapOf(source.entities[CHOOSE e \in known : b = a(e)])
                      ELSE maps[b]]
    BY DEF Build, CopiedMap
  <1>3. \A e \in EntityKeys : a(e) \in Address
    BY <1>1, <1>2, AddressFacts, SnapshotConstants
  <1>4. \A e \in EntityKeys : source.entities[e] \in HeapEntity
    BY <1>1 DEF HeapState
  <1>5. ASSUME NEW e \in known
        PROVE  maps'[a(e)] = MapOf(source.entities[e])
    <2>1. (CHOOSE d \in known : a(e) = a(d)) = e
      OBVIOUS
    <2> QED
      BY <1>2, <1>3, <2>1
  <1>6. ASSUME NEW e \in EntityKeys
        PROVE  [copied[e] EXCEPT !.artifactStates = Seen(copied[e], maps')]
                 = [source.entities[e] EXCEPT !.artifactStates = Seen(source.entities[e], maps)]
    <2>1. CASE e \in known
      <3>1. copied[e] = [source.entities[e] EXCEPT !.artifactStates = a(e)]
        BY <2>1
      <3>2. copied[e].artifactStates = a(e) /\ a(e) # NilMap
        BY <1>4, <3>1 DEF HeapEntity, NilMap
      <3>3. Seen(copied[e], maps') = Seen(source.entities[e], maps)
        BY <1>5, <2>1, <3>2 DEF Seen, MapOf
      <3> HIDE DEF copied
      <3> QED
        BY <1>4, <3>1, <3>3 DEF HeapEntity
    <2>2. CASE e \notin known
      <3>1. source.entities[e] = NilEntity
        BY <1>1, <2>2 DEF IInv, StatesOwn
      <3>2. copied[e] = NilEntity
        BY <2>2
      <3>3. Seen(NilEntity, maps') = Seen(NilEntity, maps)
        BY DEF Seen, NilEntity
      <3> HIDE DEF copied
      <3> QED
        BY <3>1, <3>2, <3>3
    <2> QED
      BY <2>1, <2>2
  <1>7. snaps'[t].state = [source EXCEPT !.entities = copied]
    BY <1>1, <1>2
  <1> HIDE DEF copied
  <1>8. snaps'[t].state.entities = copied /\ snaps'[t].state.version = source.version
    BY <1>1, <1>7 DEF HeapState
  <1> QED
    BY <1>6, <1>8 DEF Shown

LEMMA BuildIInv ==
  ASSUME IInv, NEW n \in 0..Len(log), NEW lock \in Locks, Build(n, lock)
  PROVE  IInv'
  <1> DEFINE t == Len(snaps) + 1
             source == states[n + 1]
             known == {e \in EntityKeys : source.entities[e].known}
             a(e) == <<"copy", t, e>>
             copied == [e \in EntityKeys |->
                          IF e \in known
                          THEN [source.entities[e] EXCEPT !.artifactStates = a(e)]
                          ELSE NilEntity]
             new == [state |-> [source EXCEPT !.entities = copied],
                     ccnfVersion |-> lock[1], collapseVersion |-> lock[2],
                     rehydrationVersion |-> lock[3], timestamp |-> SnapshotTime(n)]
  <1>1. /\ TypeInv /\ StatesOwn /\ SnapshotsOwn /\ CopiesFaithful /\ TimeOfLastEvent
    BY DEF IInv
  <1>2. /\ Len(log) \in Nat /\ Len(snaps) \in Nat /\ n \in Nat /\ n <= Len(log)
        /\ n + 1 \in DOMAIN states /\ source \in HeapState
    BY <1>1 DEF TypeInv
  <1>3. /\ t <= MaxSnaps
        /\ maps' = [b \in Address |->
                      IF \E e \in known : b = a(e)
                      THEN MapOf(source.entities[CHOOSE e \in known : b = a(e)])
                      ELSE maps[b]]
        /\ snaps' = Append(snaps, new)
        /\ UNCHANGED <<log, boxes, states, now, writes>>
    BY DEF Build, CopiedMap
  <1>4. \A e \in EntityKeys : a(e) \in Address
    BY <1>2, <1>3, AddressFacts, SnapshotConstants
  <1>5. \A e \in EntityKeys : source.entities[e] \in HeapEntity
    BY <1>2 DEF HeapState
  <1>6. copied \in [EntityKeys -> HeapEntity]
    BY <1>4, <1>5, NilTyped DEF HeapEntity
  <1>7. new.state \in HeapState /\ new.state.entities = copied
        /\ new.state.version = n
    <2> HIDE DEF copied
    <2>1. source.version = n
      BY <1>1, <1>2 DEF StatesOwn
    <2>2. QED
      BY <1>2, <1>6, <2>1 DEF HeapState
  <1>8. SnapshotTime(n) \in Nat \cup Timestamps
    <2>1. n # 0 => log[n] \in Event
      BY <1>1, <1>2 DEF TypeInv
    <2>2. QED
      BY <1>1, <2>1 DEF SnapshotTime, TypeInv, Event
  <1>9. new \in SnapshotType
    <2>1. lock \in Nat \X Nat \X Nat
      BY SnapshotConstants
    <2> HIDE DEF copied
    <2>2. QED
      BY <1>7, <1>8, <2>1 DEF SnapshotType
  <1>10. ASSUME NEW e \in known
         PROVE  maps'[a(e)] = MapOf(source.entities[e])
    <2>1. (CHOOSE d \in known : a(e) = a(d)) = e
      OBVIOUS
    <2>2. QED
      BY <1>3, <1>4, <2>1
  <1>11. /\ \A s \in DOMAIN snaps' : s \in DOMAIN snaps \/ s = t
         /\ \A s \in DOMAIN snaps : snaps'[s] = snaps[s]
         /\ snaps'[t] = new
    BY <1>1, <1>3 DEF TypeInv
  <1>12. TypeInv'
    <2>1. snaps' \in Seq(SnapshotType) /\ Len(snaps') <= MaxSnaps
      <3> HIDE DEF new
      <3>1. QED
        BY <1>1, <1>2, <1>3, <1>9 DEF TypeInv
    <2>2. maps' \in [Address -> Delta]
      <3>1. \A e \in EntityKeys : MapOf(source.entities[e]) \in Delta
        BY <1>1, <1>5, MapOfTyped
      <3>2. \A b \in Address : maps[b] \in Delta
        BY <1>1 DEF TypeInv
      <3>3. ASSUME NEW b \in Address PROVE maps'[b] \in Delta
        <4>1. CASE \E e \in known : b = a(e)
          BY <1>10, <3>1, <4>1
        <4>2. CASE ~\E e \in known : b = a(e)
          BY <1>3, <3>2, <4>2
        <4>3. QED
          BY <4>1, <4>2
      <3>4. QED
        BY <1>3, <3>3
    <2>3. QED
      BY <1>1, <1>3, <2>1, <2>2 DEF TypeInv
  <1>13. StatesOwn'
    BY <1>1, <1>3 DEF StatesOwn
  <1>14. SnapshotsOwn'
    <2>1. ASSUME NEW e \in EntityKeys
          PROVE  \/ copied[e] = NilEntity
                 \/ copied[e].known /\ copied[e].artifactStates = a(e)
      BY <1>5 DEF HeapEntity
    <2> HIDE DEF new, copied
    <2>2. ASSUME NEW s \in DOMAIN snaps
          PROVE  /\ snaps'[s].state.version \in 0..Len(log')
                 /\ \A e \in EntityKeys :
                      \/ snaps'[s].state.entities[e] = NilEntity
                      \/ /\ snaps'[s].state.entities[e].known
                         /\ snaps'[s].state.entities[e].artifactStates = <<"copy", s, e>>
      BY <1>1, <1>3, <1>11 DEF SnapshotsOwn
    <2>3. snaps'[t].state.version \in 0..Len(log') /\ snaps'[t].state.entities = copied
      BY <1>2, <1>3, <1>7, <1>11
    <2>4. QED
      BY <1>11, <2>1, <2>2, <2>3 DEF SnapshotsOwn
  <1>15. CopiesFaithful'
    <2>1. SUFFICES ASSUME writes = 0, NEW s \in DOMAIN snaps'
                   PROVE  MapView(snaps[s].state)'
                            = MapView(states[snaps[s].state.version + 1])'
      BY <1>3 DEF CopiesFaithful
    <2>2. KeepsStates /\ \A r \in DOMAIN snaps : KeepsSnapshot(r)
      BY BuildKeeps
    <2>3. CASE s \in DOMAIN snaps
      BY <2>1, <2>2, <2>3, CopiesKept
    <2>4. CASE s = t
      <3>1. Shown(snaps'[t].state, maps') = Shown(states[n + 1], maps)
        BY BuildShows
      <3>2. MapView(snaps[s].state)' = MapView(states[n + 1])
        BY <2>4, <3>1 DEF MapView, MapOf, Seen, Shown
      <3>3. MapView(states[n + 1])' = MapView(states[n + 1])
        BY <1>2, <2>2, KeptStateView
      <3>4. (snaps[s].state.version + 1)' = n + 1
        BY <1>7, <1>11, <2>4
      <3>5. MapView(states[snaps[s].state.version + 1])' = MapView(states[n + 1])'
        BY <1>3, <3>4 DEF MapView
      <3> QED
        BY <3>2, <3>3, <3>5
    <2>5. QED
      BY <1>11, <2>3, <2>4
  <1>16. TimeOfLastEvent'
    <2>1. new.timestamp = SnapshotTime(n)
      OBVIOUS
    <2> HIDE DEF new
    <2>2. QED
      BY <1>1, <1>3, <1>7, <1>11, <2>1 DEF TimeOfLastEvent, SnapshotTime
  <1>17. QED
    BY <1>12, <1>13, <1>14, <1>15, <1>16 DEF IInv

LEMMA WriteIInv ==
  ASSUME IInv, NEW e \in EntityKeys, NEW k \in ArtifactKeys, NEW v \in Scalars,
         NEW st \in HeapState, WriteThrough(st, e, k, v)
  PROVE  IInv'
  <1> DEFINE a == st.entities[e].artifactStates
  <1>1. /\ maps' = [maps EXCEPT ![a][k] = v] /\ writes' = writes + 1
        /\ UNCHANGED <<log, boxes, states, snaps, now>>
    BY DEF WriteThrough
  <1>2. v \in Values /\ TypeInv /\ StatesOwn /\ SnapshotsOwn /\ TimeOfLastEvent
    BY DEF Scalars, IInv
  <1>3. maps' \in [Address -> Delta]
    BY <1>1, <1>2 DEF TypeInv, Delta
  <1>4. TypeInv'
    BY <1>1, <1>2, <1>3 DEF TypeInv
  <1>5. StatesOwn' /\ SnapshotsOwn' /\ TimeOfLastEvent'
    BY <1>1, <1>2 DEF StatesOwn, SnapshotsOwn, TimeOfLastEvent
  <1>6. CopiesFaithful'
    BY <1>1, <1>2 DEF CopiesFaithful, TypeInv
  <1>7. QED
    BY <1>4, <1>5, <1>6 DEF IInv

LEMMA NextIInv == IInv /\ [Next]_vars => IInv'
  <1> SUFFICES ASSUME IInv, [Next]_vars PROVE IInv'
    OBVIOUS
  <1>1. ASSUME NEW ev \in Events, Apply(ev) PROVE IInv'
    BY <1>1, ApplyIInv
  <1>2. ASSUME NEW n \in 0..Len(log), NEW lock \in Locks, Build(n, lock) PROVE IInv'
    BY <1>2, BuildIInv
  <1>3. ASSUME NEW e \in EntityKeys, NEW k \in ArtifactKeys, NEW v \in Scalars,
               \/ \E n \in DOMAIN states : WriteState(n, e, k, v)
               \/ \E s \in DOMAIN snaps : WriteSnapshot(s, e, k, v)
        PROVE  IInv'
    <2>1. \A n \in DOMAIN states : states[n] \in HeapState
      BY DEF IInv, TypeInv
    <2>2. \A s \in DOMAIN snaps : snaps[s].state \in HeapState
      <3>1. \A s \in DOMAIN snaps : snaps[s] \in SnapshotType
        BY DEF IInv, TypeInv
      <3>2. QED
        BY <3>1 DEF SnapshotType
    <2>3. QED
      BY <1>3, <2>1, <2>2, WriteIInv DEF WriteState, WriteSnapshot
  <1>4. ASSUME NEW b \in Boxes, NEW c \in Contents, NEW st, WriteNested(st, b, c)
        PROVE  IInv'
    <2>1. /\ writes' = writes + 1 /\ boxes' = [boxes EXCEPT ![b] = c]
          /\ UNCHANGED <<log, maps, states, snaps, now>>
      BY <1>4 DEF WriteNested
    <2>2. TypeInv'
      BY <2>1 DEF IInv, TypeInv
    <2>3. StatesOwn' /\ SnapshotsOwn' /\ TimeOfLastEvent'
      BY <2>1 DEF IInv, StatesOwn, SnapshotsOwn, TimeOfLastEvent
    <2>4. CopiesFaithful'
      BY <2>1 DEF CopiesFaithful, IInv, TypeInv
    <2>5. QED
      BY <2>2, <2>3, <2>4 DEF IInv
  <1>5. CASE Tick \/ UNCHANGED vars
    <2>1. UNCHANGED <<log, maps, boxes, states, snaps, writes>> /\ now' \in Nat
      BY <1>5 DEF Tick, vars, IInv, TypeInv
    <2>2. TypeInv'
      BY <2>1 DEF IInv, TypeInv
    <2>3. StatesOwn' /\ SnapshotsOwn' /\ TimeOfLastEvent'
      BY <2>1 DEF IInv, StatesOwn, SnapshotsOwn, TimeOfLastEvent
    <2>4. CopiesFaithful'
      BY <2>1, OthersKeep, CopiesKept DEF CopiesFaithful
    <2>5. QED
      BY <2>2, <2>3, <2>4 DEF IInv
  <1>6. QED
    BY <1>1, <1>2, <1>3, <1>4, <1>5 DEF Next, WriteStateNested, WriteSnapshotNested

LEMMA IInvHolds == Spec => []IInv
  BY InitIInv, NextIInv, PTL DEF Spec

-------------------------------------------------------------------------------
(* SNAPSHOT_SPEC S6 for the maps: whatever is applied, built or written    *)
(* after a Build, in whatever order, changes the maps of a snapshot only   *)
(* if it is written through that snapshot.                                 *)
THEOREM SnapshotsIsolated == Spec => SnapshotIsolation
  <1>1. IInv /\ [Next]_vars =>
          [\A s \in DOMAIN snaps : writer' # <<"snapshot", s>> =>
             MapView(snaps[s].state)' = MapView(snaps[s].state)]_vars
    BY StepIsolates, KeptSnapshotView
  <1>2. QED
    BY <1>1, IInvHolds, PTL DEF Spec, SnapshotIsolation

(* REPLAY_SPEC 3.2, SNAPSHOT_SPEC S3: only a write through a state reaches *)
(* a map of a state, although states share the maps of untouched entities. *)
THEOREM StatesKeepTheirMaps == Spec => StatesNeverMutated
  <1>1. IInv /\ [Next]_vars =>
          [writer'[1] # "state" =>
             \A n \in DOMAIN states : MapView(states[n])' = MapView(states[n])]_vars
    BY StepIsolates, KeptStateView
  <1>2. QED
    BY <1>1, IInvHolds, PTL DEF Spec, StatesNeverMutated

-------------------------------------------------------------------------------
(***************************************************************************)
(* EqualStates decides equality of the states that a reader can see.       *)
(***************************************************************************)
Readable(state) ==
  /\ state \in RuntimeState
  /\ \A e \in EntityKeys : ~state.entities[e].known => state.entities[e] = ZeroEntity

LEMMA SameKeys ==
  ASSUME NEW A, IsFiniteSet(A), NEW B, IsFiniteSet(B), A \subseteq B, SameSize(A, B)
  PROVE  A = B
  BY FS_Subset DEF SameSize

LEMMA EqualEntities ==
  ASSUME NEW a \in EntityState, NEW b \in EntityState, a.known, b.known,
         equalEntityState(a, b)
  PROVE  a = b
  <1>1. IsFiniteSet(KeysOf(a.artifactStates)) /\ IsFiniteSet(KeysOf(b.artifactStates))
    BY SnapshotConstants, FS_Subset DEF KeysOf
  <1>2. KeysOf(a.artifactStates) = KeysOf(b.artifactStates)
    BY <1>1, SameKeys DEF equalEntityState
  <1>3. \A k \in ArtifactKeys : a.artifactStates[k] = b.artifactStates[k]
    BY <1>2 DEF equalEntityState, KeysOf
  <1>4. a.artifactStates \in Delta /\ b.artifactStates \in Delta
    BY DEF EntityState
  <1>5. a.artifactStates = b.artifactStates
    BY <1>3, <1>4 DEF Delta
  <1>6. QED
    BY <1>5 DEF EntityState, equalEntityState

LEMMA EqualIsSame ==
  ASSUME NEW a, Readable(a), NEW b, Readable(b)
  PROVE  EqualStates(a, b) <=> a = b
  <1>1. ASSUME a = b PROVE EqualStates(a, b)
    BY <1>1 DEF EqualStates, equalEntityState, SameSize
  <1>2. ASSUME EqualStates(a, b) PROVE a = b
    <2>1. /\ a.entities \in [EntityKeys -> EntityState] /\ a.version \in Nat
          /\ b.entities \in [EntityKeys -> EntityState] /\ b.version \in Nat
      BY DEF Readable, RuntimeState
    <2>2. IsFiniteSet(KnownOf(a)) /\ IsFiniteSet(KnownOf(b))
      BY SnapshotConstants, FS_Subset DEF KnownOf
    <2>3. KnownOf(a) = KnownOf(b)
      BY <1>2, <2>2, SameKeys DEF EqualStates
    <2>4. ASSUME NEW e \in EntityKeys PROVE a.entities[e] = b.entities[e]
      <3>1. CASE e \in KnownOf(a)
        BY <1>2, <2>1, <2>3, <3>1, EqualEntities DEF EqualStates, KnownOf
      <3>2. CASE e \notin KnownOf(a)
        BY <2>3, <3>2 DEF Readable, KnownOf
      <3>3. QED
        BY <3>1, <3>2
    <2>5. a.entities = b.entities /\ a.version = b.version
      BY <1>2, <2>1, <2>4 DEF EqualStates
    <2>6. QED
      BY <2>5 DEF Readable, RuntimeState
  <1>3. QED
    BY <1>1, <1>2

LEMMA DeepMapTyped ==
  ASSUME IInv, NEW m \in Delta
  PROVE  DeepMap(m) \in Delta
  BY SnapshotConstants DEF IInv, TypeInv, DeepMap, DeepValue, Delta

LEMMA SnapshotReadable ==
  ASSUME IInv, NEW s \in DOMAIN snaps
  PROVE  Readable(View(snaps[s].state))
  <1> DEFINE st == snaps[s].state
             seen(e) == [st.entities[e] EXCEPT !.artifactStates = DeepMap(MapOf(st.entities[e]))]
  <1>1. st.entities \in [EntityKeys -> HeapEntity] /\ st.version \in Nat
    <2>1. snaps[s] \in SnapshotType
      BY DEF IInv, TypeInv
    <2>2. QED
      BY <2>1 DEF SnapshotType, HeapState
  <1>2. \A e \in EntityKeys : DeepMap(MapOf(st.entities[e])) \in Delta
    BY <1>1, MapOfTyped, DeepMapTyped DEF IInv
  <1>3. \A e \in EntityKeys : seen(e) \in EntityState
    BY <1>1, <1>2 DEF HeapEntity, EntityState
  <1>4. ASSUME NEW e \in EntityKeys, ~seen(e).known
        PROVE  seen(e) = ZeroEntity
    <2>1. st.entities[e] = NilEntity
      BY <1>1, <1>4 DEF IInv, SnapshotsOwn, HeapEntity
    <2>2. DeepMap(MapOf(NilEntity)) = NoArtifacts
      <3>1. MapOf(NilEntity) = NoArtifacts
        BY DEF MapOf, NilEntity
      <3>2. Absent \notin Boxes
        BY ReplayConstants, SnapshotConstants
      <3>3. QED
        BY <3>1, <3>2 DEF DeepMap, DeepValue, NoArtifacts
    <2>3. seen(e) = [NilEntity EXCEPT !.artifactStates = DeepMap(MapOf(NilEntity))]
      <3>1. NilEntity = st.entities[e]
        BY <2>1
      <3> HIDE DEF st, NilEntity
      <3>2. QED
        BY <3>1
    <2> HIDE DEF seen
    <2>4. QED
      BY <2>2, <2>3 DEF NilEntity, ZeroEntity
  <1>5. View(st) = [entities |-> [e \in EntityKeys |-> seen(e)], version |-> st.version]
    BY DEF View
  <1>6. View(st) \in RuntimeState
    <2> HIDE DEF seen, st
    <2>1. QED
      BY <1>1, <1>3, <1>5 DEF RuntimeState
  <1>7. \A e \in EntityKeys : View(st).entities[e] = seen(e)
    BY DEF View
  <1>8. QED
    <2> HIDE DEF seen, st
    <2>1. Readable(View(st))
      BY <1>4, <1>6, <1>7 DEF Readable
    <2>2. QED
      BY <2>1 DEF st

LEMMA ReplayReadable ==
  ASSUME NEW state \in RuntimeState, NEW events, NEW lo, NEW hi, Means(state, events, lo, hi)
  PROVE  Readable(state)
  BY DEF Readable, Means, EntityMeans, UntouchedEntity, LastTouch

LEMMA PrefixFolds ==
  ASSUME IInv, NEW n \in 0..Len(log)
  PROVE  /\ Fold(SubSeq(DeepLog, 1, n)) \in RuntimeState
         /\ Means(Fold(SubSeq(DeepLog, 1, n)), DeepLog, 0, n)
  <1> DEFINE prefix == SubSeq(DeepLog, 1, n)
  <1>1. log \in Seq(Event) /\ Len(log) \in Nat
    BY DEF IInv, TypeInv
  <1>2. \A i \in DOMAIN log : DeepMap(log[i].stateDelta) \in Delta /\ log[i] \in Event
    <2>1. \A i \in DOMAIN log : log[i] \in Event
      BY <1>1
    <2>2. \A i \in DOMAIN log : log[i].stateDelta \in Delta
      BY <2>1 DEF Event
    <2>3. QED
      BY <2>1, <2>2, DeepMapTyped
  <1>3. \A i \in DOMAIN log : DeepLog[i] \in Event
    BY <1>2 DEF DeepLog, Event
  <1>4. DeepLog \in Seq(Event) /\ Len(DeepLog) = Len(log)
    <2>1. DeepLog = [i \in 1..Len(log) |-> DeepLog[i]] /\ DOMAIN log = 1..Len(log)
      BY <1>1 DEF DeepLog
    <2>2. QED
      BY <1>1, <1>3, <2>1
  <1>5. /\ prefix \in Seq(Event) /\ Len(prefix) = n
        /\ \A i \in 1..n : prefix[i] = DeepLog[i]
    BY <1>1, <1>4
  <1> HIDE DEF prefix
  <1>6. Fold(prefix) \in RuntimeState /\ Means(Fold(prefix), prefix, 0, n)
    BY <1>5, FoldMeans
  <1>7. Means(Fold(prefix), DeepLog, 0, n)
    BY <1>5, <1>6, MeansSame
  <1>8. QED
    BY <1>6, <1>7 DEF prefix

(* SNAPSHOT_SPEC S1, S2: for any log, whatever callers wrote, Validate     *)
(* accepts a snapshot for a prefix exactly if the lock holds and the       *)
(* snapshot shows the last-writer-wins state of that prefix.               *)
THEOREM ValidateExact == Spec => []ValidateIsExact
  <1>1. ASSUME IInv, NEW s \in DOMAIN snaps, NEW n \in 0..Len(log)
        PROVE  Validate(snaps[s], n) <=>
                 LockHolds(snaps[s]) /\ Means(View(snaps[s].state), DeepLog, 0, n)
    <2> DEFINE v == View(snaps[s].state)
               f == Fold(SubSeq(DeepLog, 1, n))
    <2>1. ValidateTriVersionLock(snaps[s]) <=> LockHolds(snaps[s])
      <3> DEFINE versions == {snaps[s].ccnfVersion, snaps[s].collapseVersion,
                              snaps[s].rehydrationVersion}
      <3>1. IsFiniteSet(versions)
        <4>1. versions = {snaps[s].ccnfVersion} \cup {snaps[s].collapseVersion}
                           \cup {snaps[s].rehydrationVersion}
          OBVIOUS
        <4>2. \A x : IsFiniteSet({x})
          BY FS_Singleton
        <4> HIDE DEF versions
        <4>3. QED
          BY <4>1, <4>2, FS_Union
      <3>2. Cardinality(versions) = 1 <=> \E x : versions = {x}
        <4> HIDE DEF versions
        <4>1. QED
          BY <3>1, FS_Singleton
      <3>3. QED
        BY <3>2 DEF ValidateTriVersionLock, LockHolds
    <2>2. f \in RuntimeState /\ Means(f, DeepLog, 0, n) /\ n \in Nat
      BY <1>1, PrefixFolds
    <2>3. Readable(f) /\ Readable(v)
      BY <1>1, <2>2, ReplayReadable, SnapshotReadable
    <2> HIDE DEF v, f
    <2>4. EqualStates(f, v) <=> f = v
      BY <2>3, EqualIsSame
    <2>5. Means(v, DeepLog, 0, n) <=> f = v
      BY <2>2, <2>3, MeansUnique DEF Readable
    <2>6. QED
      BY <2>1, <2>4, <2>5 DEF Validate, ValidateStateEquivalence, v, f
  <1>2. IInv => ValidateIsExact
    BY <1>1 DEF ValidateIsExact
  <1>3. QED
    BY <1>2, IInvHolds, PTL

(* SNAPSHOT_SPEC S5: until somebody writes, snapshots of one prefix by     *)
(* builds with the same versions have equal states, whatever was appended  *)
(* or built between them, and equal dates if the last event has one.       *)
THEOREM BuildsAgree == Spec => []BuildDeterministic
  <1>1. ASSUME IInv, writes = 0, NEW s \in DOMAIN snaps, NEW t \in DOMAIN snaps,
               NEW n, n = snaps[s].state.version, n = snaps[t].state.version,
               ValidateTriVersionLock(snaps[s]), ValidateTriVersionLock(snaps[t]),
               snaps[s].ccnfVersion = snaps[t].ccnfVersion
        PROVE  /\ EqualStates(View(snaps[s].state), View(snaps[t].state))
               /\ n > 0 /\ log[n].timestamp # 0 => Compare(snaps[s], snaps[t])
    <2>1. MapView(snaps[s].state) = MapView(snaps[t].state)
      BY <1>1 DEF IInv, CopiesFaithful
    <2>2. View(snaps[s].state) = View(snaps[t].state)
      <3>1. ASSUME NEW e \in EntityKeys
            PROVE  [snaps[s].state.entities[e] EXCEPT !.artifactStates =
                      DeepMap(MapOf(snaps[s].state.entities[e]))]
                     = [snaps[t].state.entities[e] EXCEPT !.artifactStates =
                          DeepMap(MapOf(snaps[t].state.entities[e]))]
        <4>1. snaps[s].state.entities[e] \in HeapEntity
              /\ snaps[t].state.entities[e] \in HeapEntity
          <5>1. snaps[s] \in SnapshotType /\ snaps[t] \in SnapshotType
            BY <1>1 DEF IInv, TypeInv
          <5>2. QED
            BY <5>1 DEF SnapshotType, HeapState
        <4>2. [snaps[s].state.entities[e] EXCEPT !.artifactStates =
                 MapOf(snaps[s].state.entities[e])]
                = [snaps[t].state.entities[e] EXCEPT !.artifactStates =
                     MapOf(snaps[t].state.entities[e])]
          BY <2>1 DEF MapView
        <4>3. QED
          BY <4>1, <4>2 DEF HeapEntity
      <3>2. QED
        BY <1>1, <3>1 DEF View
    <2>3. ASSUME n > 0, log[n].timestamp # 0
          PROVE  snaps[s].timestamp = snaps[t].timestamp
      <3>1. n \in 1..Len(log)
        BY <1>1, <2>3 DEF IInv, SnapshotsOwn
      <3>2. QED
        BY <1>1, <2>3, <3>1 DEF IInv, TimeOfLastEvent
    <2>4. EqualStates(View(snaps[s].state), View(snaps[t].state))
      BY <1>1, <2>2, SnapshotReadable, EqualIsSame
    <2>5. QED
      BY <1>1, <2>3, <2>4 DEF Compare, ValidateTriVersionLock
  <1>2. IInv => BuildDeterministic
    BY <1>1 DEF BuildDeterministic
  <1>3. QED
    BY <1>2, IInvHolds, PTL

-------------------------------------------------------------------------------
(***************************************************************************)
(* States as values.  The strengthening: the map of an entity in a state   *)
(* was made by the last event that touched the entity before that state,   *)
(* so that two states share it exactly if no event of it lies between.     *)
(***************************************************************************)
MadeBy(n, e, m) ==
  /\ states[n].entities[e].artifactStates = <<"merge", m, e>>
  /\ Touches(log[m], e)
  /\ \A i \in (m + 1)..(n - 1) : ~Touches(log[i], e)

MapsMadeLast ==
  \A n \in DOMAIN states, e \in EntityKeys :
    \/ /\ states[n].entities[e] = NilEntity
       /\ \A i \in 1..(n - 1) : ~Touches(log[i], e)
    \/ \E m \in 1..(n - 1) : MadeBy(n, e, m)

RInv == IInv /\ MapsMadeLast

LEMMA InitRInv == Init => RInv
  <1> SUFFICES ASSUME Init PROVE RInv
    OBVIOUS
  <1>1. DOMAIN states = {1} /\ \A e \in EntityKeys : states[1].entities[e] = NilEntity
    BY DEF Init
  <1>2. ASSUME NEW n \in DOMAIN states, NEW e \in EntityKeys
        PROVE  states[n].entities[e] = NilEntity /\ \A i \in 1..(n - 1) : ~Touches(log[i], e)
    <2>1. n = 1 /\ 1..(n - 1) = {}
      BY <1>1
    <2> QED
      BY <1>1, <2>1
  <1>3. MapsMadeLast
    BY <1>2 DEF MapsMadeLast
  <1> QED
    BY <1>3, InitIInv DEF RInv

LEMMA ApplyMadeLast ==
  ASSUME RInv, NEW ev \in Events, Apply(ev)
  PROVE  MapsMadeLast'
  <1>1. /\ log \in Seq(Event) /\ states \in Seq(HeapState) /\ Len(states) = Len(log) + 1
        /\ ev \in Event /\ Len(log) \in Nat
    BY ReplayConstants DEF RInv, IInv, TypeInv
  <1>2. PICK n \in Nat : n = Len(log) + 1
    BY <1>1
  <1>3. PICK old \in HeapState : old = states[n]
    BY <1>1, <1>2
  <1>4. PICK filled : filled = [known |-> TRUE, artifactStates |-> <<"merge", n, ev.entityKey>>,
                                lastEventSeq |-> ev.sequence]
    OBVIOUS
  <1>5. PICK new : new = [entities |-> [old.entities EXCEPT ![ev.entityKey] = filled],
                          version |-> old.version + 1]
    OBVIOUS
  <1>6. log' = Append(log, ev) /\ states' = Append(states, new)
    BY <1>1, <1>2, <1>3, <1>4, <1>5 DEF Apply, MergedMap, NextVersion, Last
  <1>7. /\ \A i \in 1..(n - 1) : log'[i] = log[i]
        /\ log'[n] = ev
        /\ \A i \in 1..n : states'[i] = states[i]
        /\ states'[n + 1] = new /\ DOMAIN states' = 1..(n + 1) /\ DOMAIN states = 1..n
    BY <1>1, <1>2, <1>6
  <1>8. ASSUME NEW e \in EntityKeys
        PROVE  /\ e = ev.entityKey => new.entities[e] = filled
               /\ e # ev.entityKey => new.entities[e] = old.entities[e]
    BY <1>5 DEF HeapState
  <1>9. ASSUME NEW k \in 1..n, NEW e \in EntityKeys
        PROVE  \/ /\ states'[k].entities[e] = NilEntity
                  /\ \A i \in 1..(k - 1) : ~Touches(log'[i], e)
               \/ \E m \in 1..(k - 1) : MadeBy(k, e, m)'
    <2>1. states'[k] = states[k] /\ \A i \in 1..(k - 1) : log'[i] = log[i]
      BY <1>7
    <2>2. CASE states[k].entities[e] = NilEntity /\ \A i \in 1..(k - 1) : ~Touches(log[i], e)
      BY <2>1, <2>2
    <2>3. ASSUME NEW m \in 1..(k - 1), MadeBy(k, e, m)
          PROVE  MadeBy(k, e, m)'
      BY <2>1, <2>3 DEF MadeBy
    <2> QED
      BY <1>7, <2>2, <2>3 DEF RInv, MapsMadeLast
  <1>10. ASSUME NEW e \in EntityKeys
         PROVE  \/ /\ states'[n + 1].entities[e] = NilEntity
                   /\ \A i \in 1..n : ~Touches(log'[i], e)
                \/ \E m \in 1..n : MadeBy(n + 1, e, m)'
    <2>1. CASE e = ev.entityKey
      <3>1. /\ states'[n + 1].entities[e].artifactStates = <<"merge", n, e>>
            /\ Touches(log'[n], e) /\ (n + 1)..((n + 1) - 1) = {}
        BY <1>4, <1>7, <1>8, <2>1 DEF Touches
      <3>2. MadeBy(n + 1, e, n)'
        BY <3>1 DEF MadeBy
      <3> QED
        BY <1>2, <1>1, <3>2
    <2>2. CASE e # ev.entityKey
      <3>1. ~Touches(log'[n], e) /\ states'[n + 1].entities[e] = states[n].entities[e]
        BY <1>3, <1>7, <1>8, <2>2 DEF Touches
      <3>2. CASE states[n].entities[e] = NilEntity /\ \A i \in 1..(n - 1) : ~Touches(log[i], e)
        <4>1. ASSUME NEW i \in 1..n PROVE i = n \/ i \in 1..(n - 1)
          OBVIOUS
        <4> QED
          BY <1>7, <3>1, <3>2, <4>1
      <3>3. ASSUME NEW m \in 1..(n - 1), MadeBy(n, e, m)
            PROVE  m \in 1..n /\ MadeBy(n + 1, e, m)'
        <4>1. m \in 1..n /\ log'[m] = log[m]
          BY <1>7
        <4>2. ASSUME NEW i \in (m + 1)..((n + 1) - 1) PROVE ~Touches(log'[i], e)
          <5>1. i = n \/ i \in (m + 1)..(n - 1)
            OBVIOUS
          <5>2. CASE i = n
            BY <3>1, <5>2
          <5>3. CASE i \in (m + 1)..(n - 1)
            <6>1. i \in 1..(n - 1)
              BY <5>3
            <6> QED
              BY <1>7, <3>3, <5>3, <6>1 DEF MadeBy
          <5> QED
            BY <5>1, <5>2, <5>3
        <4> QED
          BY <3>1, <3>3, <4>1, <4>2 DEF MadeBy
      <3>4. n \in DOMAIN states
        BY <1>1, <1>2, <1>7
      <3> QED
        BY <3>2, <3>3, <3>4 DEF RInv, MapsMadeLast
    <2> QED
      BY <2>1, <2>2
  <1>11. ASSUME NEW k \in DOMAIN states' PROVE k \in 1..n \/ (k = n + 1 /\ k - 1 = n)
    BY <1>7
  <1> QED
    BY <1>9, <1>10, <1>11 DEF MapsMadeLast

LEMMA NextRInv == RInv /\ [Next]_vars => RInv'
  <1> SUFFICES ASSUME RInv, [Next]_vars PROVE RInv'
    OBVIOUS
  <1>1. IInv'
    BY NextIInv DEF RInv
  <1>2. MapsMadeLast'
    <2>1. ASSUME NEW ev \in Events, Apply(ev) PROVE MapsMadeLast'
      BY <2>1, ApplyMadeLast
    <2>2. CASE UNCHANGED <<log, states>>
      BY <2>2 DEF RInv, MapsMadeLast, MadeBy
    <2>3. (\E ev \in Events : Apply(ev)) \/ UNCHANGED <<log, states>>
      BY DEF Next, Build, WriteState, WriteSnapshot, WriteThrough, WriteStateNested,
             WriteSnapshotNested, WriteNested, Tick, vars
    <2> QED
      BY <2>1, <2>2, <2>3
  <1> QED
    BY <1>1, <1>2 DEF RInv

(* Two states share the map of an entity exactly if no event touches it    *)
(* between them.                                                           *)
LEMMA SharedIsSame ==
  ASSUME RInv, NEW n \in DOMAIN states, NEW m \in DOMAIN states, NEW e \in EntityKeys,
         states[n].entities[e].known
  PROVE  Abstract!SameMap(e, m, n)
           <=> states[m].entities[e].artifactStates = states[n].entities[e].artifactStates
  <1>1. n \in 1..(Len(log) + 1) /\ m \in 1..(Len(log) + 1) /\ Len(log) \in Nat
        /\ DOMAIN log = 1..Len(log)
    BY DEF RInv, IInv, TypeInv
  <1>2. PICK i \in 1..(n - 1) : MadeBy(n, e, i)
    BY DEF RInv, MapsMadeLast, NilEntity
  <1>3. /\ states[n].entities[e].artifactStates = <<"merge", i, e>>
        /\ Touches(log[i], e) /\ \A x \in (i + 1)..(n - 1) : ~Touches(log[x], e)
    BY <1>2 DEF MadeBy
  <1>4. CASE states[m].entities[e] = NilEntity /\ \A x \in 1..(m - 1) : ~Touches(log[x], e)
    <2>1. states[m].entities[e].artifactStates # states[n].entities[e].artifactStates
      BY <1>3, <1>4 DEF NilEntity, NilMap
    <2>2. i \notin 1..(m - 1)
      BY <1>3, <1>4
    <2>3. i \in DOMAIN log /\ m <= i /\ i < n
      BY <1>1, <2>2
    <2> QED
      BY <1>3, <2>1, <2>3 DEF Abstract!SameMap, Abstract!Touches, Touches
  <1>5. ASSUME NEW j \in 1..(m - 1), MadeBy(m, e, j)
        PROVE  Abstract!SameMap(e, m, n)
                 <=> states[m].entities[e].artifactStates = states[n].entities[e].artifactStates
    <2>1. /\ states[m].entities[e].artifactStates = <<"merge", j, e>>
          /\ Touches(log[j], e) /\ \A x \in (j + 1)..(m - 1) : ~Touches(log[x], e)
      BY <1>5 DEF MadeBy
    <2>2. i \in DOMAIN log /\ j \in DOMAIN log /\ i \in Nat /\ j \in Nat
      BY <1>1
    <2>3. ASSUME i = j PROVE Abstract!SameMap(e, m, n)
      <3>1. ASSUME NEW x \in DOMAIN log, (m <= x /\ x < n) \/ (n <= x /\ x < m)
            PROVE  x \in (i + 1)..(n - 1) \/ x \in (j + 1)..(m - 1)
        BY <1>1, <2>2, <2>3, <3>1
      <3> QED
        BY <1>3, <2>1, <3>1 DEF Abstract!SameMap, Abstract!Touches, Touches
    <2>4. ASSUME Abstract!SameMap(e, m, n) PROVE i = j
      <3>1. ~(m <= i /\ i < n) /\ ~(n <= i /\ i < m) /\ ~(m <= j /\ j < n) /\ ~(n <= j /\ j < m)
        BY <1>3, <2>1, <2>2, <2>4 DEF Abstract!SameMap, Abstract!Touches, Touches
      <3>2. i < m /\ j < n
        BY <1>1, <2>2, <3>1
      <3>3. j \notin (i + 1)..(n - 1) /\ i \notin (j + 1)..(m - 1)
        BY <1>3, <2>1
      <3> QED
        BY <1>1, <2>2, <3>2, <3>3
    <2> QED
      BY <1>3, <2>1, <2>3, <2>4
  <1> QED
    BY <1>4, <1>5 DEF RInv, MapsMadeLast

SeenStates == [n \in DOMAIN states |-> MapView(states[n])]
SeenSnaps  == [s \in DOMAIN snaps |-> [snaps[s] EXCEPT !.state = MapView(@)]]

LEMMA ViewIsShown ==
  /\ \A x : MapView(x) = Shown(x, maps)
  /\ \A n \in DOMAIN states : SeenStates[n] = Shown(states[n], maps)
  /\ \A n \in DOMAIN states' : SeenStates'[n] = Shown(states'[n], maps')
  BY DEF MapView, MapOf, Seen, Shown, SeenStates

LEMMA SnapIsShown ==
  /\ \A s \in DOMAIN snaps :
       SeenSnaps[s] = [snaps[s] EXCEPT !.state = Shown(snaps[s].state, maps)]
  /\ \A s \in DOMAIN snaps' :
       SeenSnaps'[s] = [snaps'[s] EXCEPT !.state = Shown(snaps'[s].state, maps')]
  BY DEF MapView, MapOf, Seen, Shown, SeenSnaps

LEMMA EntityExcept ==
  \A a, b, c, d :
    [[known |-> a, artifactStates |-> b, lastEventSeq |-> c] EXCEPT !.artifactStates = d]
      = [known |-> a, artifactStates |-> d, lastEventSeq |-> c]
  OBVIOUS

LEMMA ShownSame ==
  ASSUME NEW state, NEW h1, NEW h2,
         \A d \in EntityKeys : Seen(state.entities[d], h2) = Seen(state.entities[d], h1)
  PROVE  Shown(state, h2) = Shown(state, h1)
  BY DEF Shown

LEMMA ShownAssigned ==
  ASSUME NEW state \in HeapState, NEW h1, NEW h2, NEW e \in EntityKeys, NEW k, NEW v,
         Seen(state.entities[e], h2) = [Seen(state.entities[e], h1) EXCEPT ![k] = v],
         \A d \in EntityKeys \ {e} :
           Seen(state.entities[d], h2) = Seen(state.entities[d], h1)
  PROVE  Shown(state, h2) = Abstract!Assigned(Shown(state, h1), e, k, v)
  <1>1. PICK f, g : /\ f = Shown(state, h1).entities /\ g = Shown(state, h2).entities
    OBVIOUS
  <1>2. /\ f = [d \in EntityKeys |->
                  [state.entities[d] EXCEPT !.artifactStates = Seen(state.entities[d], h1)]]
        /\ g = [d \in EntityKeys |->
                  [state.entities[d] EXCEPT !.artifactStates = Seen(state.entities[d], h2)]]
        /\ Shown(state, h1) = [entities |-> f, version |-> state.version]
        /\ Shown(state, h2) = [entities |-> g, version |-> state.version]
    BY <1>1 DEF Shown
  <1>3. state.entities[e] \in HeapEntity
    BY DEF HeapState
  <1>4. g[e] = [f[e] EXCEPT !.artifactStates = [f[e].artifactStates EXCEPT ![k] = v]]
    BY <1>2, <1>3 DEF HeapEntity
  <1>5. \A d \in EntityKeys \ {e} : g[d] = f[d]
    BY <1>2
  <1>6. g = [f EXCEPT ![e] = [f[e] EXCEPT !.artifactStates =
                                [f[e].artifactStates EXCEPT ![k] = v]]]
    <2>1. PICK w : w = [f[e] EXCEPT !.artifactStates = [f[e].artifactStates EXCEPT ![k] = v]]
      OBVIOUS
    <2>2. g[e] = w
      BY <1>4, <2>1
    <2>3. g = [f EXCEPT ![e] = w]
      <3>1. f = [d \in EntityKeys |-> f[d]] /\ g = [d \in EntityKeys |-> g[d]]
        BY <1>2
      <3> QED
        BY <1>5, <2>2, <3>1
    <2> QED
      BY <2>1, <2>3
  <1>7. Shown(state, h1).entities = f /\ Shown(state, h1).version = state.version
    BY <1>2
  <1> QED
    BY <1>2, <1>6, <1>7 DEF Abstract!Assigned

LEMMA InitValues == Init => Abstract!VInit
  <1> SUFFICES ASSUME Init PROVE Abstract!VInit
    OBVIOUS
  <1>1. PICK first : first = [entities |-> [e \in EntityKeys |-> NilEntity], version |-> 0]
    OBVIOUS
  <1>2. log = <<>> /\ states = <<first>> /\ snaps = <<>>
    BY <1>1 DEF Init
  <1>3. MapOf(NilEntity) = NoArtifacts
    BY DEF MapOf, NilEntity
  <1>4. [NilEntity EXCEPT !.artifactStates = NoArtifacts] = ZeroEntity
    BY EntityExcept, ZenonT(30) DEF NilEntity, ZeroEntity
  <1>5. \A e \in EntityKeys : first.entities[e] = NilEntity
    BY <1>1
  <1>6. MapView(first) = initialState
    BY <1>1, <1>3, <1>4, <1>5 DEF MapView, initialState
  <1>7. SeenStates = <<initialState>> /\ SeenSnaps = <<>>
    BY <1>2, <1>6 DEF SeenStates, SeenSnaps
  <1> QED
    BY <1>2, <1>7 DEF SeenStates, SeenSnaps, Abstract!VInit, Abstract!initialState,
       Abstract!ZeroEntity, Abstract!NoArtifacts, initialState, ZeroEntity, NoArtifacts

(* What a step that writes none of their maps leaves to be seen.           *)
LEMMA StatesSeen ==
  ASSUME IInv, KeepsStates
  PROVE  \A n \in DOMAIN states : n \in DOMAIN states' /\ SeenStates'[n] = SeenStates[n]
  BY KeptStateView DEF KeepsStates, SeenStates

LEMMA SnapSeen ==
  ASSUME IInv, NEW s \in DOMAIN snaps, KeepsSnapshot(s)
  PROVE  s \in DOMAIN snaps' /\ SeenSnaps'[s] = SeenSnaps[s]
  <1>1. s \in DOMAIN snaps' /\ snaps'[s] = snaps[s]
    BY DEF KeepsSnapshot
  <1>2. MapView(snaps[s].state)' = MapView(snaps[s].state)
    BY KeptSnapshotView
  <1> QED
    BY <1>1, <1>2 DEF SeenSnaps

LEMMA AppendIs ==
  ASSUME NEW f, NEW n \in Nat, f = [i \in 1..n |-> f[i]], NEW x
  PROVE  /\ Len(f) = n
         /\ Append(f, x) = [i \in 1..(n + 1) |-> IF i = n + 1 THEN x ELSE f[i]]
  <1>1. f \in Seq({f[i] : i \in 1..n})
    OBVIOUS
  <1> QED
    BY <1>1

LEMMA Grown ==
  ASSUME NEW f, NEW n \in Nat, f = [i \in 1..n |-> f[i]],
         NEW g, DOMAIN g = 1..(n + 1), g = [i \in 1..(n + 1) |-> g[i]],
         \A i \in 1..n : g[i] = f[i]
  PROVE  g = Append(f, g[n + 1]) /\ Len(f) = n /\ Len(g) = n + 1
  <1>1. /\ Len(f) = n
        /\ Append(f, g[n + 1]) = [i \in 1..(n + 1) |-> IF i = n + 1 THEN g[n + 1] ELSE f[i]]
    BY AppendIs
  <1>2. g \in Seq({g[i] : i \in 1..(n + 1)}) /\ Len(g) = n + 1
    OBVIOUS
  <1>3. ASSUME NEW i \in 1..(n + 1)
        PROVE  g[i] = IF i = n + 1 THEN g[n + 1] ELSE f[i]
    <2>1. i = n + 1 \/ i \in 1..n
      OBVIOUS
    <2> QED
      BY <2>1
  <1> QED
    BY <1>1, <1>2, <1>3

LEMMA SameApply ==
  \A st, ev : Abstract!ApplyEvent(st, ev) = ApplyEvent(st, ev)
  BY DEF Abstract!ApplyEvent, Abstract!updateEntity, Abstract!applyDelta, Abstract!Merge,
     ApplyEvent, updateEntity, applyDelta, Merge

(* The new state shows what ApplyEvent makes of what the newest one shows. *)
LEMMA ApplyShows ==
  ASSUME IInv, NEW ev \in Events, Apply(ev)
  PROVE  /\ log' = Append(log, ev) /\ snaps' = snaps
         /\ DOMAIN states = 1..(Len(log) + 1) /\ DOMAIN states' = 1..(Len(log) + 2)
         /\ Shown(states'[Len(log) + 2], maps') = ApplyEvent(Shown(states[Len(log) + 1], maps), ev)
  <1> DEFINE n == Len(log) + 1
             old == states[n]
             entity == old.entities[ev.entityKey]
             a == <<"merge", n, ev.entityKey>>
             filled == [known |-> TRUE, artifactStates |-> a, lastEventSeq |-> ev.sequence]
             new == [entities |-> [old.entities EXCEPT ![ev.entityKey] = filled],
                     version |-> old.version + 1]
             merged == Merge(MapOf(entity), ev.stateDelta)
  <1>1. /\ ev \in Event /\ ev.entityKey \in EntityKeys /\ states \in Seq(HeapState)
        /\ Len(log) \in Nat /\ Len(states) = n /\ maps \in [Address -> Delta]
    BY ReplayConstants DEF IInv, TypeInv, Event
  <1>2. Last(states) = old /\ n \in DOMAIN states /\ old \in HeapState
    BY <1>1 DEF Last
  <1>3. /\ Len(log) < MaxLog /\ log' = Append(log, ev) /\ snaps' = snaps
        /\ maps' = [maps EXCEPT ![a] = merged] /\ states' = Append(states, new)
    BY <1>1, <1>2 DEF Apply, MergedMap, NextVersion
  <1>4. a \in Address /\ a # NilMap
    <2>1. n \in 1..MaxLog
      BY <1>1, <1>3, SnapshotConstants
    <2>2. a \in Address
      BY <1>1, <2>1, AddressFacts
    <2> QED
      BY <2>2, AddressFacts
  <1>5. maps'[a] = merged
    BY <1>1, <1>3, <1>4
  <1>6. KeepsStates
    BY ApplyKeeps
  <1>7. ASSUME NEW e \in EntityKeys, e # ev.entityKey
        PROVE  Seen(old.entities[e], maps') = Seen(old.entities[e], maps)
    BY <1>2, <1>6 DEF KeepsStates, Seen
  <1>8. DOMAIN states = 1..n /\ DOMAIN states' = 1..(n + 1) /\ states'[n + 1] = new /\ n + 1 = Len(log) + 2
    <2> HIDE DEF new
    <2> QED
      BY <1>1, <1>3
  <1>9. PICK g : g = [e \in EntityKeys |->
                        [old.entities[e] EXCEPT !.artifactStates = Seen(old.entities[e], maps)]]
    OBVIOUS
  <1>10. Shown(old, maps).entities = g /\ Shown(old, maps).version = old.version
    BY <1>9 DEF Shown
  <1>11. entity \in HeapEntity /\ g[ev.entityKey].artifactStates = MapOf(entity)
    <2>1. entity \in HeapEntity
      BY <1>1, <1>2 DEF HeapState
    <2>2. g[ev.entityKey] = [entity EXCEPT !.artifactStates = Seen(entity, maps)]
      BY <1>1, <1>9
    <2> QED
      BY <2>1, <2>2 DEF HeapEntity, Seen, MapOf
  <1>12. ApplyEvent(Shown(old, maps), ev)
           = [entities |-> [g EXCEPT ![ev.entityKey] =
                [known |-> TRUE, artifactStates |-> merged, lastEventSeq |-> ev.sequence]],
              version |-> old.version + 1]
    BY <1>10, <1>11 DEF ApplyEvent, updateEntity, applyDelta
  <1>13. ASSUME NEW e \in EntityKeys
         PROVE  [new.entities[e] EXCEPT !.artifactStates = Seen(new.entities[e], maps')]
                  = IF e = ev.entityKey
                    THEN [known |-> TRUE, artifactStates |-> merged, lastEventSeq |-> ev.sequence]
                    ELSE g[e]
    <2>1. CASE e = ev.entityKey
      <3>1. new.entities[e] = filled
        BY <1>2, <2>1 DEF HeapState
      <3>2. Seen(filled, maps') = merged
        BY <1>4, <1>5 DEF Seen
      <3>3. \A p, q : [[known |-> TRUE, artifactStates |-> p, lastEventSeq |-> ev.sequence]
                         EXCEPT !.artifactStates = q]
                       = [known |-> TRUE, artifactStates |-> q, lastEventSeq |-> ev.sequence]
        BY EntityExcept, Zenon
      <3> HIDE DEF merged, a, new
      <3>4. [filled EXCEPT !.artifactStates = merged]
              = [known |-> TRUE, artifactStates |-> merged, lastEventSeq |-> ev.sequence]
        BY <3>3, Zenon
      <3> HIDE DEF filled
      <3> QED
        BY <2>1, <3>1, <3>2, <3>4, Zenon
    <2>2. CASE e # ev.entityKey
      <3>1. new.entities[e] = old.entities[e]
        BY <1>2, <2>2 DEF HeapState
      <3> HIDE DEF new
      <3> QED
        BY <1>7, <1>9, <2>2, <3>1
    <2> QED
      BY <2>1, <2>2
  <1>14. new.version = old.version + 1
    OBVIOUS
  <1> HIDE DEF new, merged, old
  <1>15. Shown(new, maps') = ApplyEvent(Shown(old, maps), ev)
    BY <1>9, <1>12, <1>13, <1>14 DEF Shown
  <1> QED
    BY <1>3, <1>8, <1>15 DEF old

LEMMA SnapsSame ==
  ASSUME IInv, snaps' = snaps, \A s \in DOMAIN snaps : KeepsSnapshot(s)
  PROVE  SeenSnaps' = SeenSnaps
  <1>1. \A s \in DOMAIN snaps : SeenSnaps'[s] = SeenSnaps[s]
    BY SnapSeen
  <1> QED
    BY <1>1 DEF SeenSnaps

LEMMA StatesSame ==
  ASSUME IInv, states' = states, KeepsStates
  PROVE  SeenStates' = SeenStates
  <1>1. \A n \in DOMAIN states : SeenStates'[n] = SeenStates[n]
    BY StatesSeen
  <1> QED
    BY <1>1 DEF SeenStates

LEMMA ApplyValues ==
  ASSUME IInv, NEW ev \in Events, Apply(ev)
  PROVE  Abstract!VApply(ev)
  <1>1. PICK n \in Nat : n = Len(log) + 1
    BY DEF IInv, TypeInv
  <1>2. /\ log' = Append(log, ev) /\ snaps' = snaps
        /\ DOMAIN states = 1..n /\ DOMAIN states' = 1..(n + 1)
        /\ Shown(states'[n + 1], maps') = ApplyEvent(Shown(states[n], maps), ev)
    <2>1. Len(log) + 2 = n + 1
      BY <1>1 DEF IInv, TypeInv
    <2> QED
      BY <1>1, <2>1, ApplyShows
  <1>3. KeepsStates /\ \A s \in DOMAIN snaps : KeepsSnapshot(s)
    BY ApplyKeeps
  <1>4. SeenSnaps' = SeenSnaps
    BY <1>2, <1>3, SnapsSame
  <1>5. \A m \in 1..n : SeenStates'[m] = SeenStates[m]
    BY <1>2, <1>3, StatesSeen
  <1>6. SeenStates = [m \in 1..n |-> SeenStates[m]] /\ DOMAIN SeenStates = 1..n
    BY <1>2 DEF SeenStates
  <1>7. SeenStates' = [m \in 1..(n + 1) |-> SeenStates'[m]] /\ DOMAIN SeenStates' = 1..(n + 1)
    BY <1>2 DEF SeenStates
  <1>8. SeenStates' = Append(SeenStates, SeenStates'[n + 1]) /\ Len(SeenStates) = n
    BY <1>5, <1>6, <1>7, Grown
  <1>9. SeenStates'[n + 1] = ApplyEvent(SeenStates[n], ev)
    <2>1. n \in DOMAIN states /\ n + 1 \in DOMAIN states'
      BY <1>1, <1>2
    <2> QED
      BY <1>2, <2>1, ViewIsShown
  <1>10. SeenStates' = Append(SeenStates, Abstract!ApplyEvent(SeenStates[Len(SeenStates)], ev))
    BY <1>8, <1>9, SameApply
  <1> QED
    BY <1>2, <1>4, <1>10 DEF SeenStates, SeenSnaps, Abstract!VApply

LEMMA BuildValues ==
  ASSUME IInv, NEW n \in 0..Len(log), NEW lock \in Locks, Build(n, lock)
  PROVE  Abstract!VBuild(n, lock)
  <1> DEFINE source == states[n + 1]
             known == {e \in EntityKeys : source.entities[e].known}
             copied == [e \in EntityKeys |->
                          IF e \in known
                          THEN [source.entities[e] EXCEPT !.artifactStates =
                                  <<"copy", Len(snaps) + 1, e>>]
                          ELSE NilEntity]
             built == [source EXCEPT !.entities = copied]
             new == [state |-> built, ccnfVersion |-> lock[1], collapseVersion |-> lock[2],
                     rehydrationVersion |-> lock[3], timestamp |-> SnapshotTime(n)]
  <1>1. /\ snaps' = Append(snaps, new) /\ log' = log /\ states' = states
        /\ snaps \in Seq(SnapshotType) /\ log \in Seq(Event) /\ n \in 0..Len(log)
        /\ n + 1 \in DOMAIN states /\ DOMAIN states = 1..(Len(log) + 1)
    BY DEF Build, CopiedMap, IInv, TypeInv
  <1>2. PICK t \in Nat : t = Len(snaps)
    BY <1>1
  <1> HIDE DEF built
  <1>3. DOMAIN snaps = 1..t /\ DOMAIN snaps' = 1..(t + 1) /\ snaps'[t + 1] = new
    <2> HIDE DEF new
    <2> QED
      BY <1>1, <1>2
  <1>4. KeepsStates /\ \A s \in DOMAIN snaps : KeepsSnapshot(s)
    BY BuildKeeps
  <1>5. SeenStates' = SeenStates
    BY <1>1, <1>4, StatesSame
  <1>6. \A s \in 1..t : SeenSnaps'[s] = SeenSnaps[s]
    BY <1>3, <1>4, SnapSeen
  <1>7. SeenSnaps = [s \in 1..t |-> SeenSnaps[s]] /\ DOMAIN SeenSnaps = 1..t
    BY <1>3 DEF SeenSnaps
  <1>8. SeenSnaps' = [s \in 1..(t + 1) |-> SeenSnaps'[s]] /\ DOMAIN SeenSnaps' = 1..(t + 1)
    BY <1>3 DEF SeenSnaps
  <1>9. /\ SeenSnaps' = Append(SeenSnaps, SeenSnaps'[t + 1]) /\ Len(SeenSnaps) = t
        /\ Len(SeenSnaps') = t + 1
    BY <1>6, <1>7, <1>8, Grown
  <1>10. SeenSnaps'[t + 1] = [state |-> SeenStates[n + 1], ccnfVersion |-> lock[1],
                              collapseVersion |-> lock[2], rehydrationVersion |-> lock[3],
                              timestamp |-> SnapshotTime(n)]
    <2>1. Shown(snaps'[t + 1].state, maps') = Shown(states[n + 1], maps)
      BY <1>2, BuildShows
    <2>2. SeenStates[n + 1] = Shown(states[n + 1], maps)
      BY <1>1, ViewIsShown
    <2>3. t + 1 \in DOMAIN snaps'
      BY <1>2, <1>3
    <2>4. SeenSnaps'[t + 1] = [snaps'[t + 1] EXCEPT !.state = Shown(snaps'[t + 1].state, maps')]
      BY <2>3, SnapIsShown, Zenon
    <2>5. SeenSnaps'[t + 1] = [new EXCEPT !.state = SeenStates[n + 1]]
      BY <1>3, <2>1, <2>2, <2>4, Zenon
    <2> QED
      BY <2>5
  <1>11. SeenSnaps'[t + 1].timestamp = SnapshotTime(n)
    BY <1>10
  <1>12. n # 0 => log[n].timestamp \in {0, SnapshotTime(n)}
    BY <1>1 DEF SnapshotTime
  <1> HIDE DEF new
  <1>13. /\ Len(SeenSnaps') = Len(SeenSnaps) + 1
         /\ n # 0 => log[n].timestamp \in {0, SeenSnaps'[Len(SeenSnaps) + 1].timestamp}
         /\ SeenSnaps' = Append(SeenSnaps,
              [state |-> SeenStates[n + 1], ccnfVersion |-> lock[1],
               collapseVersion |-> lock[2], rehydrationVersion |-> lock[3],
               timestamp |-> SeenSnaps'[Len(SeenSnaps) + 1].timestamp])
    BY <1>9, <1>10, <1>11, <1>12
  <1> QED
    BY <1>1, <1>5, <1>13 DEF SeenStates, SeenSnaps, Abstract!VBuild

(* What an assignment through one state does to what a state shows.        *)
LEMMA WriteStateValues ==
  ASSUME RInv, NEW n \in DOMAIN states, NEW e \in EntityKeys, NEW k \in ArtifactKeys,
         NEW v, WriteState(n, e, k, v)
  PROVE  Abstract!VWriteState(n, e, k, v)
  <1> DEFINE a == states[n].entities[e].artifactStates
  <1>1. /\ IInv /\ states[n].entities[e].known /\ log' = log /\ states' = states /\ snaps' = snaps
        /\ maps' = [maps EXCEPT ![a][k] = v] /\ maps \in [Address -> Delta]
        /\ states \in Seq(HeapState)
    BY DEF WriteState, WriteThrough, RInv, IInv, TypeInv
  <1>2. PICK i \in 1..(n - 1) : a = <<"merge", i, e>>
    BY <1>1 DEF IInv, StatesOwn, NilEntity
  <1>3. a # NilMap /\ a \in Address
    <2>1. i \in 1..MaxLog
      BY <1>1, SnapshotConstants DEF IInv, TypeInv
    <2> QED
      BY <1>2, <2>1, AddressFacts DEF NilMap
  <1> HIDE DEF a
  <1>4. /\ maps'[a] = [maps[a] EXCEPT ![k] = v]
        /\ \A b \in Address \ {a} : maps'[b] = maps[b]
    BY <1>1, <1>3
  <1>5. \A s \in DOMAIN snaps : KeepsSnapshot(s)
    BY <1>1, WriteStateKeeps
  <1>6. SeenSnaps' = SeenSnaps
    BY <1>1, <1>5, SnapsSame
  <1>7. ASSUME NEW m \in DOMAIN states, NEW d \in EntityKeys
        PROVE  /\ states[m].entities[d].artifactStates # a
                    => Seen(states[m].entities[d], maps') = Seen(states[m].entities[d], maps)
               /\ d # e => states[m].entities[d].artifactStates # a
    <2>1. states[m].entities[d].artifactStates \in Address \cup {NilMap}
      <3>1. states[m] \in HeapState
        BY <1>1
      <3>2. states[m].entities[d] \in HeapEntity
        BY <3>1 DEF HeapState
      <3> QED
        BY <3>2 DEF HeapEntity
    <2>2. \/ states[m].entities[d].artifactStates = NilMap
          \/ \E j : states[m].entities[d].artifactStates = <<"merge", j, d>>
      BY <1>1 DEF IInv, StatesOwn, NilEntity
    <2>3. d # e => states[m].entities[d].artifactStates # a
      BY <1>2, <1>3, <2>2
    <2> QED
      BY <1>4, <2>1, <2>3 DEF Seen
  <1>8. ASSUME NEW m \in DOMAIN states
        PROVE  SeenStates'[m] = IF Abstract!SameMap(e, m, n)
                                THEN Abstract!Assigned(SeenStates[m], e, k, v)
                                ELSE SeenStates[m]
    <2>1. /\ SeenStates[m] = Shown(states[m], maps)
          /\ SeenStates'[m] = Shown(states[m], maps')
      BY <1>1, ViewIsShown
    <2>2. Abstract!SameMap(e, m, n) <=> states[m].entities[e].artifactStates = a
      BY <1>1, SharedIsSame DEF a
    <2>3. states[m] \in HeapState
      BY <1>1
    <2>4. CASE states[m].entities[e].artifactStates = a
      <3>1. Seen(states[m].entities[e], maps') = [Seen(states[m].entities[e], maps) EXCEPT ![k] = v]
        BY <1>3, <1>4, <2>4 DEF Seen
      <3>2. \A d \in EntityKeys \ {e} :
              Seen(states[m].entities[d], maps') = Seen(states[m].entities[d], maps)
        BY <1>7
      <3> QED
        BY <2>1, <2>2, <2>3, <2>4, <3>1, <3>2, ShownAssigned
    <2>5. CASE states[m].entities[e].artifactStates # a
      <3>1. \A d \in EntityKeys :
              Seen(states[m].entities[d], maps') = Seen(states[m].entities[d], maps)
        BY <1>7, <2>5
      <3> QED
        BY <2>1, <2>2, <2>5, <3>1, ShownSame
    <2> QED
      BY <2>4, <2>5
  <1>9. SeenStates' = [m \in DOMAIN SeenStates |->
                         IF Abstract!SameMap(e, m, n)
                         THEN Abstract!Assigned(SeenStates[m], e, k, v)
                         ELSE SeenStates[m]]
    BY <1>1, <1>8 DEF SeenStates
  <1>10. SeenStates[n].entities[e].known
    <2>1. states[n] \in HeapState
      BY <1>1
    <2>2. states[n].entities[e] \in HeapEntity
      BY <2>1 DEF HeapState
    <2>3. SeenStates[n].entities[e]
            = [states[n].entities[e] EXCEPT !.artifactStates = Seen(states[n].entities[e], maps)]
      <3>1. SeenStates[n] = Shown(states[n], maps)
        BY ViewIsShown
      <3>2. PICK f : f = [d \in EntityKeys |->
              [states[n].entities[d] EXCEPT !.artifactStates = Seen(states[n].entities[d], maps)]]
        OBVIOUS
      <3> QED
        BY <3>1, <3>2 DEF Shown
    <2> QED
      BY <1>1, <2>2, <2>3 DEF HeapEntity
  <1> QED
    BY <1>1, <1>6, <1>9, <1>10 DEF SeenStates, SeenSnaps, Abstract!VWriteState

LEMMA StateReplaced ==
  ASSUME NEW snap \in SnapshotType, NEW p
  PROVE  /\ [snap EXCEPT !.state = p].state = p
         /\ \A q : [[snap EXCEPT !.state = p] EXCEPT !.state = q] = [snap EXCEPT !.state = q]
  BY DEF SnapshotType

LEMMA WriteSnapshotValues ==
  ASSUME IInv, NEW t \in DOMAIN snaps, NEW e \in EntityKeys, NEW k \in ArtifactKeys,
         NEW v, WriteSnapshot(t, e, k, v)
  PROVE  Abstract!VWriteSnapshot(t, e, k, v)
  <1> DEFINE a == snaps[t].state.entities[e].artifactStates
  <1>1. /\ snaps[t].state.entities[e].known /\ log' = log /\ states' = states /\ snaps' = snaps
        /\ maps' = [maps EXCEPT ![a][k] = v] /\ maps \in [Address -> Delta]
        /\ snaps[t] \in SnapshotType
    BY DEF WriteSnapshot, WriteThrough, IInv, TypeInv
  <1>2. a = <<"copy", t, e>>
    BY <1>1 DEF IInv, SnapshotsOwn, NilEntity
  <1>3. a # NilMap /\ a \in Address
    <2>1. t \in 1..MaxSnaps
      BY SnapshotConstants DEF IInv, TypeInv
    <2> QED
      BY <1>2, <2>1, AddressFacts DEF NilMap
  <1> HIDE DEF a
  <1>4. /\ maps'[a] = [maps[a] EXCEPT ![k] = v]
        /\ \A b \in Address \ {a} : maps'[b] = maps[b]
    BY <1>1, <1>3
  <1>5. KeepsStates /\ \A s \in DOMAIN snaps : s # t => KeepsSnapshot(s)
    BY WriteSnapshotKeeps
  <1>6. SeenStates' = SeenStates
    BY <1>1, <1>5, StatesSame
  <1>7. \A s \in DOMAIN snaps : s # t => SeenSnaps'[s] = SeenSnaps[s]
    BY <1>5, SnapSeen
  <1>8. snaps[t].state \in HeapState
    BY <1>1 DEF SnapshotType
  <1>9. Seen(snaps[t].state.entities[e], maps')
          = [Seen(snaps[t].state.entities[e], maps) EXCEPT ![k] = v]
    BY <1>3, <1>4 DEF Seen, a
  <1>10. ASSUME NEW d \in EntityKeys \ {e}
         PROVE  Seen(snaps[t].state.entities[d], maps') = Seen(snaps[t].state.entities[d], maps)
    <2>1. snaps[t].state.entities[d] \in HeapEntity
      BY <1>8 DEF HeapState
    <2>2. snaps[t].state.entities[d].artifactStates \in Address \cup {NilMap}
      BY <2>1 DEF HeapEntity
    <2>3. \/ snaps[t].state.entities[d] = NilEntity
          \/ snaps[t].state.entities[d].artifactStates = <<"copy", t, d>>
      BY DEF IInv, SnapshotsOwn
    <2>4. NilEntity.artifactStates = NilMap
      BY DEF NilEntity
    <2>5. snaps[t].state.entities[d].artifactStates # a
      BY <1>2, <1>3, <2>3, <2>4
    <2> QED
      BY <1>4, <2>2, <2>5 DEF Seen
  <1>11. Shown(snaps[t].state, maps')
           = Abstract!Assigned(Shown(snaps[t].state, maps), e, k, v)
    BY <1>8, <1>9, <1>10, ShownAssigned
  <1>12. PICK old : old = Shown(snaps[t].state, maps)
    OBVIOUS
  <1>13. /\ SeenSnaps[t] = [snaps[t] EXCEPT !.state = old]
         /\ SeenSnaps'[t] = [snaps[t] EXCEPT !.state = Abstract!Assigned(old, e, k, v)]
    <2>1. /\ SeenSnaps[t] = [snaps[t] EXCEPT !.state = Shown(snaps[t].state, maps)]
          /\ SeenSnaps'[t] = [snaps'[t] EXCEPT !.state = Shown(snaps'[t].state, maps')]
      <3>1. t \in DOMAIN snaps'
        BY <1>1
      <3> QED
        BY <3>1, SnapIsShown, Zenon
    <2> QED
      BY <1>1, <1>11, <1>12, <2>1, Zenon
  <1>14. /\ SeenSnaps[t].state = old
         /\ SeenSnaps'[t] = [SeenSnaps[t] EXCEPT !.state = Abstract!Assigned(SeenSnaps[t].state, e, k, v)]
    <2>1. PICK y : y = Abstract!Assigned(old, e, k, v)
      OBVIOUS
    <2>2. SeenSnaps[t].state = old
      <3>1. [snaps[t] EXCEPT !.state = old].state = old
        BY <1>1, StateReplaced, Zenon
      <3> QED
        BY <1>13, <3>1, Zenon
    <2>3. SeenSnaps'[t] = [SeenSnaps[t] EXCEPT !.state = y]
      <3>1. [[snaps[t] EXCEPT !.state = old] EXCEPT !.state = y] = [snaps[t] EXCEPT !.state = y]
        BY <1>1, StateReplaced, Zenon
      <3> QED
        BY <1>13, <2>1, <3>1, Zenon
    <2> QED
      BY <2>1, <2>2, <2>3, Zenon
  <1>15. SeenSnaps' = [SeenSnaps EXCEPT ![t] =
           [SeenSnaps[t] EXCEPT !.state = Abstract!Assigned(SeenSnaps[t].state, e, k, v)]]
    <2>1. SeenSnaps = [s \in DOMAIN snaps |-> SeenSnaps[s]]
          /\ SeenSnaps' = [s \in DOMAIN snaps |-> SeenSnaps'[s]]
      BY <1>1 DEF SeenSnaps
    <2>2. PICK w : w = [SeenSnaps[t] EXCEPT !.state = Abstract!Assigned(SeenSnaps[t].state, e, k, v)]
      OBVIOUS
    <2>3. SeenSnaps'[t] = w
      BY <1>14, <2>2
    <2>4. SeenSnaps' = [SeenSnaps EXCEPT ![t] = w]
      BY <1>7, <2>1, <2>3
    <2> QED
      BY <2>2, <2>4
  <1>16. SeenSnaps[t].state.entities[e].known
    <2>1. snaps[t].state.entities[e] \in HeapEntity
      BY <1>8 DEF HeapState
    <2>2. PICK f : f = [d \in EntityKeys |->
            [snaps[t].state.entities[d] EXCEPT !.artifactStates =
               Seen(snaps[t].state.entities[d], maps)]]
      OBVIOUS
    <2>3. old.entities[e] = f[e]
      BY <1>12, <2>2 DEF Shown
    <2> QED
      BY <1>1, <1>14, <2>1, <2>2, <2>3 DEF HeapEntity
  <1> QED
    BY <1>1, <1>6, <1>15, <1>16 DEF SeenStates, SeenSnaps, Abstract!VWriteSnapshot

LEMMA StepValues == RInv /\ [Next]_vars => [Abstract!VNext]_(Abstract!valueVars)
  <1> SUFFICES ASSUME RInv, [Next]_vars PROVE [Abstract!VNext]_(Abstract!valueVars)
    OBVIOUS
  <1>1. IInv
    BY DEF RInv
  <1>2. ASSUME NEW ev \in Events, Apply(ev) PROVE Abstract!VNext
    BY <1>1, <1>2, ApplyValues DEF Abstract!VNext
  <1>3. ASSUME NEW n \in 0..Len(log), NEW lock \in Locks, Build(n, lock) PROVE Abstract!VNext
    BY <1>1, <1>3, BuildValues DEF Abstract!VNext
  <1>4. ASSUME NEW e \in EntityKeys, NEW k \in ArtifactKeys, NEW v \in Scalars,
               NEW n \in DOMAIN states, WriteState(n, e, k, v)
        PROVE  Abstract!VNext
    <2>1. Abstract!VWriteState(n, e, k, v)
      BY <1>4, WriteStateValues
    <2>2. v \in Values /\ n \in DOMAIN SeenStates
      BY DEF Scalars, SeenStates
    <2> QED
      BY <2>1, <2>2 DEF Abstract!VNext, SeenStates
  <1>5. ASSUME NEW e \in EntityKeys, NEW k \in ArtifactKeys, NEW v \in Scalars,
               NEW t \in DOMAIN snaps, WriteSnapshot(t, e, k, v)
        PROVE  Abstract!VNext
    <2>1. Abstract!VWriteSnapshot(t, e, k, v)
      BY <1>1, <1>5, WriteSnapshotValues
    <2>2. v \in Values /\ t \in DOMAIN SeenSnaps
      BY DEF Scalars, SeenSnaps
    <2> QED
      BY <2>1, <2>2 DEF Abstract!VNext, SeenSnaps
  <1>6. ASSUME UNCHANGED <<log, maps, states, snaps>>
        PROVE  UNCHANGED Abstract!valueVars
    <2>1. KeepsStates /\ \A s \in DOMAIN snaps : KeepsSnapshot(s)
      BY <1>1, <1>6, OthersKeep
    <2>2. SeenStates' = SeenStates /\ SeenSnaps' = SeenSnaps
      BY <1>1, <1>6, <2>1, StatesSame, SnapsSame
    <2> QED
      BY <1>6, <2>2 DEF SeenStates, SeenSnaps, Abstract!valueVars
  <1>7. ASSUME NEW b \in Boxes, NEW c \in Contents,
               \/ \E n \in DOMAIN states : WriteStateNested(n, b, c)
               \/ \E s \in DOMAIN snaps : WriteSnapshotNested(s, b, c)
        PROVE  UNCHANGED <<log, maps, states, snaps>>
    BY <1>7 DEF WriteStateNested, WriteSnapshotNested, WriteNested
  <1>8. CASE Tick \/ UNCHANGED vars
    BY <1>6, <1>8 DEF Tick, vars
  <1> QED
    BY <1>2, <1>3, <1>4, <1>5, <1>6, <1>7, <1>8 DEF Next

(* Package replay over a heap of shared maps behaves as states that are    *)
(* values: ApplyEvent leads to a new state and changes no other, Build     *)
(* takes the state as it is, and an assignment into a state is seen in     *)
(* just the states that lie between the same two events of the entity.     *)
THEOREM HeapImplementsValues == Spec => ImplementsStateValues
  <1>1. Spec => Abstract!VInit /\ [][Abstract!VNext]_(Abstract!valueVars)
    BY InitRInv, NextRInv, InitValues, StepValues, PTL DEF Spec
  <1> QED
    BY <1>1 DEF ImplementsStateValues, Abstract!VSpec
===============================================================================
