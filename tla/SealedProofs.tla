---------------------------- MODULE SealedProofs ----------------------------
(***************************************************************************)
(* Proofs about SealedReplay for every log, registry and number of clients:*)
(* types, the events a map stands for, what finished clients hold, and the *)
(* agreement of the two replay layers.                                     *)
(***************************************************************************)
EXTENDS SealedReplay, ReplayFoldProofs, FiniteSetTheorems

Cell == Range(Bytes) \cup {Absent}

ByteMap == [ArtifactKeys -> Cell]

(* The map m holds what the events leave. *)
Left(events, m) == \A k \in ArtifactKeys : Leaves(events, k, m[k])

-----------------------------------------------------------------------------
(* The operators: one event is one write over the map, a map left by a run *)
(* of events is unique, and WrittenBy computes it.                         *)
LEMMA BytesOf ==
  ASSUME NEW v \in Values
  PROVE  Bytes[v] \in Range(Bytes) /\ Bytes[v] # Absent
  BY SealedConstants DEF Range

LEMMA AbsentIsNoBytes == Absent \notin Range(Bytes)
  BY SealedConstants DEF Range

LEMMA EmptyMapType == EmptyMap \in ByteMap
  BY DEF EmptyMap, NoArtifacts, ByteMap, Cell

LEMMA WritesOfType ==
  ASSUME NEW ev \in Event
  PROVE  /\ WritesOf(ev) \in ByteMap
         /\ \A k \in ArtifactKeys :
              /\ ev.stateDelta[k] = Absent => WritesOf(ev)[k] = Absent
              /\ ev.stateDelta[k] # Absent => /\ WritesOf(ev)[k] = Bytes[ev.stateDelta[k]]
                                              /\ WritesOf(ev)[k] # Absent
  <1>1. \A k \in ArtifactKeys : ev.stateDelta[k] \in Values \cup {Absent}
    BY DEF Event, Delta
  <1>2. \A k \in ArtifactKeys :
          WritesOf(ev)[k] = IF ev.stateDelta[k] = Absent THEN Absent ELSE Bytes[ev.stateDelta[k]]
    BY DEF WritesOf
  <1>3. \A k \in ArtifactKeys : WritesOf(ev)[k] \in Cell
    BY <1>1, <1>2, BytesOf DEF Cell
  <1>4. WritesOf(ev) \in ByteMap
    BY <1>3 DEF ByteMap, WritesOf
  <1>5. QED
    BY <1>1, <1>2, <1>4, BytesOf

LEMMA MergeType ==
  ASSUME NEW m \in ByteMap, NEW w \in ByteMap
  PROVE  Merge(m, w) \in ByteMap
  BY DEF Merge, ByteMap

LEMMA AdapterType ==
  ASSUME NEW events \in Seq(Events)
  PROVE  /\ CEREventsToReplay(events) \in Seq(ByteMap)
         /\ Len(CEREventsToReplay(events)) = Len(events)
         /\ \A i \in 1..Len(events) : CEREventsToReplay(events)[i] = WritesOf(events[i])
  <1>1. events \in Seq(Event)
    BY EventsTyped
  <1>2. CEREventsToReplay(events) = [i \in 1..Len(events) |-> WritesOf(events[i])]
    BY DEF CEREventsToReplay
  <1>3. \A i \in 1..Len(events) : WritesOf(events[i]) \in ByteMap
    BY <1>1, WritesOfType
  <1>4. QED
    BY <1>2, <1>3

LEMMA LeavesUnique ==
  ASSUME NEW events \in Seq(Event), NEW k \in ArtifactKeys, NEW v, NEW w,
         Leaves(events, k, v), Leaves(events, k, w)
  PROVE  v = w
  <1>1. CASE \A i \in DOMAIN events : events[i].stateDelta[k] = Absent
    BY <1>1 DEF Leaves
  <1>2. CASE \E i \in DOMAIN events : events[i].stateDelta[k] # Absent
    <2>1. PICK i \in DOMAIN events : /\ events[i].stateDelta[k] # Absent
                                     /\ v = Bytes[events[i].stateDelta[k]]
                                     /\ \A j \in (i + 1)..Len(events) : events[j].stateDelta[k] = Absent
      BY <1>2 DEF Leaves
    <2>2. PICK j \in DOMAIN events : /\ events[j].stateDelta[k] # Absent
                                     /\ w = Bytes[events[j].stateDelta[k]]
                                     /\ \A n \in (j + 1)..Len(events) : events[n].stateDelta[k] = Absent
      BY <1>2 DEF Leaves
    <2>3. i = j
      BY <2>1, <2>2
    <2>4. QED
      BY <2>1, <2>2, <2>3
  <1>3. QED
    BY <1>1, <1>2

LEMMA LeftUnique ==
  ASSUME NEW events \in Seq(Event), NEW m \in ByteMap, NEW w \in ByteMap,
         Left(events, m), Left(events, w)
  PROVE  m = w
  <1>1. \A k \in ArtifactKeys : m[k] = w[k]
    BY LeavesUnique DEF Left
  <1>2. QED
    BY <1>1 DEF ByteMap

LEMMA NothingLeft == Left(<<>>, EmptyMap)
  BY DEF Left, Leaves, EmptyMap, NoArtifacts

LEMMA OneMore ==
  ASSUME NEW events \in Seq(Event), NEW ev \in Event, NEW m, Left(events, m)
  PROVE  Left(Append(events, ev), Merge(m, WritesOf(ev)))
  <1> DEFINE more == Append(events, ev)
  <1>1. /\ more \in Seq(Event) /\ Len(more) = Len(events) + 1 /\ more[Len(events) + 1] = ev
        /\ \A i \in 1..Len(events) : more[i] = events[i]
    OBVIOUS
  <1> HIDE DEF more
  <1>2. ASSUME NEW k \in ArtifactKeys
        PROVE  Leaves(more, k, Merge(m, WritesOf(ev))[k])
    <2>1. Merge(m, WritesOf(ev))[k] = IF WritesOf(ev)[k] # Absent THEN WritesOf(ev)[k] ELSE m[k]
      BY DEF Merge
    <2>2. CASE ev.stateDelta[k] # Absent
      <3>1. Merge(m, WritesOf(ev))[k] = Bytes[ev.stateDelta[k]]
        BY <2>1, <2>2, WritesOfType
      <3>2. Len(events) + 1 \in DOMAIN more
        BY <1>1
      <3>3. \A j \in (Len(events) + 1 + 1)..Len(more) : more[j].stateDelta[k] = Absent
        BY <1>1
      <3>4. QED
        BY <1>1, <2>2, <3>1, <3>2, <3>3 DEF Leaves
    <2>3. CASE ev.stateDelta[k] = Absent
      <3>1. Merge(m, WritesOf(ev))[k] = m[k]
        BY <2>1, <2>3, WritesOfType
      <3>2. Leaves(events, k, m[k])
        BY DEF Left
      <3>3. Leaves(more, k, m[k])
        <4>1. CASE \A i \in DOMAIN events : events[i].stateDelta[k] = Absent
          <5>1. m[k] = Absent
            BY <3>2, <4>1 DEF Leaves
          <5>2. \A i \in DOMAIN more : more[i].stateDelta[k] = Absent
            BY <1>1, <2>3, <4>1
          <5>3. QED
            BY <5>1, <5>2 DEF Leaves
        <4>2. CASE \E i \in DOMAIN events : events[i].stateDelta[k] # Absent
          <5>1. PICK i \in DOMAIN events :
                  /\ events[i].stateDelta[k] # Absent
                  /\ m[k] = Bytes[events[i].stateDelta[k]]
                  /\ \A j \in (i + 1)..Len(events) : events[j].stateDelta[k] = Absent
            BY <3>2, <4>2 DEF Leaves
          <5>2. i \in DOMAIN more /\ more[i] = events[i]
            BY <1>1
          <5>3. \A j \in (i + 1)..Len(more) : more[j].stateDelta[k] = Absent
            BY <1>1, <2>3, <5>1
          <5>4. QED
            BY <5>1, <5>2, <5>3 DEF Leaves
        <4>3. QED
          BY <4>1, <4>2
      <3>4. QED
        BY <3>1, <3>3
    <2>4. QED
      BY <2>2, <2>3
  <1>3. QED
    BY <1>2 DEF Left, more

(* The first n events, folded: by the least n that no map stands for, there *)
(* is a map for each, and WrittenBy steps from one to the next.            *)
LEMMA PrefixStep ==
  ASSUME NEW events \in Seq(Event), NEW n \in 1..Len(events)
  PROVE  /\ SubSeq(events, 1, n - 1) \in Seq(Event)
         /\ SubSeq(events, 1, n) = Append(SubSeq(events, 1, n - 1), events[n])
         /\ events[n] \in Event
  OBVIOUS

LEMMA SomeMapLeft ==
  ASSUME NEW events \in Seq(Event)
  PROVE  \A n \in 0..Len(events) : \E m \in ByteMap : Left(SubSeq(events, 1, n), m)
  <1> DEFINE Bad == {n \in 0..Len(events) : ~\E m \in ByteMap : Left(SubSeq(events, 1, n), m)}
  <1>1. SUFFICES ASSUME Bad # {} PROVE FALSE
    OBVIOUS
  <1>2. Bad \in SUBSET Nat
    OBVIOUS
  <1>3. PICK n \in Bad : n = 0 \/ (n - 1 \in Nat /\ n - 1 \notin Bad)
    <2> HIDE DEF Bad
    <2>1. QED
      BY <1>1, <1>2, LeastCounterexample
  <1>4. n # 0
    <2>1. SubSeq(events, 1, 0) = <<>>
      OBVIOUS
    <2>2. QED
      BY <1>3, <2>1, EmptyMapType, NothingLeft
  <1>5. n \in 1..Len(events) /\ n - 1 \in 0..Len(events)
    BY <1>3, <1>4
  <1>6. PICK m \in ByteMap : Left(SubSeq(events, 1, n - 1), m)
    BY <1>3, <1>4, <1>5
  <1>7. /\ SubSeq(events, 1, n - 1) \in Seq(Event)
        /\ SubSeq(events, 1, n) = Append(SubSeq(events, 1, n - 1), events[n])
        /\ events[n] \in Event
    BY <1>5, PrefixStep
  <1>8. Left(SubSeq(events, 1, n), Merge(m, WritesOf(events[n])))
    BY <1>6, <1>7, OneMore
  <1>9. Merge(m, WritesOf(events[n])) \in ByteMap
    BY <1>7, MergeType, WritesOfType
  <1>10. QED
    BY <1>3, <1>8, <1>9

LEMMA WrittenByLeaves ==
  ASSUME NEW events \in Seq(Events)
  PROVE  /\ WrittenBy(CEREventsToReplay(events)) \in ByteMap
         /\ Left(events, WrittenBy(CEREventsToReplay(events)))
  <1> DEFINE input == CEREventsToReplay(events)
             D == 0..Len(input)
             First(n) == SubSeq(events, 1, n)
             After(n) == CHOOSE m \in ByteMap : Left(First(n), m)
             Turn(g, n) == IF n = 0 THEN EmptyMap ELSE Merge(g[n - 1], input[n])
             f == CHOOSE g : g = [n \in D |-> Turn(g, n)]
  <1>0. /\ events \in Seq(Event) /\ Len(input) = Len(events)
        /\ \A n \in 1..Len(events) : input[n] = WritesOf(events[n])
    BY EventsTyped, AdapterType
  <1> HIDE DEF input
  <1>1. \A n \in D : After(n) \in ByteMap /\ Left(First(n), After(n))
    BY <1>0, SomeMapLeft
  <1>2. ASSUME NEW n \in D, n # 0
        PROVE  n - 1 \in D /\ After(n) = Merge(After(n - 1), input[n])
    <2>1. n - 1 \in D /\ n \in 1..Len(events)
      BY <1>0, <1>2
    <2>2. /\ After(n - 1) \in ByteMap /\ Left(First(n - 1), After(n - 1))
          /\ After(n) \in ByteMap /\ Left(First(n), After(n))
      BY <1>1, <2>1
    <2> HIDE DEF After
    <2>3. /\ First(n - 1) \in Seq(Event) /\ First(n) = Append(First(n - 1), events[n])
          /\ events[n] \in Event /\ First(n) \in Seq(Event)
      BY <1>0, <2>1, PrefixStep
    <2> HIDE DEF First
    <2>4. Left(First(n), Merge(After(n - 1), input[n]))
      BY <1>0, <2>1, <2>2, <2>3, OneMore
    <2>5. Merge(After(n - 1), input[n]) \in ByteMap
      BY <1>0, <2>1, <2>2, <2>3, MergeType, WritesOfType
    <2>6. QED
      BY <2>1, <2>2, <2>3, <2>4, <2>5, LeftUnique
  <1>3. After(0) = EmptyMap
    <2>1. First(0) = <<>> /\ <<>> \in Seq(Event) /\ 0 \in D
      BY <1>0
    <2>2. After(0) \in ByteMap /\ Left(<<>>, After(0))
      BY <1>1, <2>1
    <2> HIDE DEF After
    <2>3. QED
      BY <2>1, <2>2, LeftUnique, NothingLeft, EmptyMapType
  <1>4. f = [n \in D |-> Turn(f, n)]
    <2> DEFINE g == [n \in D |-> After(n)]
    <2>1. \A n \in D : Turn(g, n) = After(n)
      <3> HIDE DEF After
      <3>1. QED
        BY <1>2, <1>3
    <2>2. g = [n \in D |-> Turn(g, n)]
      <3>1. g = [n \in D |-> After(n)]
        OBVIOUS
      <3> HIDE DEF g, Turn, After
      <3>2. QED
        BY <2>1, <3>1
    <2>3. QED
      <3> HIDE DEF g
      <3>1. QED
        BY <2>2
  <1>5. WrittenBy(input) = f[Len(input)]
    BY DEF WrittenBy
  <1>6. \A n \in D : f[n] = After(n)
    <2> DEFINE Bad == {n \in D : f[n] # After(n)}
    <2> HIDE DEF f, After
    <2>1. SUFFICES ASSUME Bad # {} PROVE FALSE
      OBVIOUS
    <2>2. Bad \in SUBSET Nat
      BY <1>0
    <2>3. PICK n \in Bad : n = 0 \/ (n - 1 \in Nat /\ n - 1 \notin Bad)
      <3> HIDE DEF Bad
      <3>1. QED
        BY <2>1, <2>2, LeastCounterexample
    <2>4. n \in D /\ f[n] = Turn(f, n)
      BY <1>4
    <2>5. QED
      BY <1>2, <1>3, <2>3, <2>4
  <1>7. Len(input) \in D /\ First(Len(input)) = events
    BY <1>0
  <1>8. QED
    <2> HIDE DEF f, After
    <2>1. WrittenBy(input) \in ByteMap /\ Left(events, WrittenBy(input))
      <3> HIDE DEF First, D
      <3>1. QED
        BY <1>1, <1>5, <1>6, <1>7
    <2>2. QED
      BY <2>1 DEF input

-----------------------------------------------------------------------------
(***************************************************************************)
(* The inductive invariant: every state a replay or a snapshot holds is a  *)
(* reference to a map that its events leave, and a client walks, in order, *)
(* the keys that the map of its snapshot has.  Maps and snapshots are only *)
(* added, so that what was true of a reference stays true.                 *)
(***************************************************************************)
Ref == [map: Nat, version: Nat]

Taken == [state: Ref, behind: Seq(Events)]

StateHolds(state, events, maps) ==
  /\ state.map \in 1..Len(maps)
  /\ state.version = Len(events)
  /\ Left(events, maps[state.map])

Run == [input: Seq(ByteMap), from: Seq(Events), cursor: Nat,
        applied: Seq(Events), state: Ref]

RunInv ==
  /\ run \in Run
  /\ run.input = CEREventsToReplay(run.from)
  /\ run.cursor <= Len(run.input)
  /\ StateHolds(run.state, run.applied, heap)

SnapsInv ==
  /\ snaps \in Seq(Taken)
  /\ \A i \in 1..Len(snaps) : StateHolds(snaps[i].state, snaps[i].behind, heap)

KeysIn(c, m) == {k \in ArtifactKeys : m[k] # Absent /\ k \in Prefix[c]}

Decodes(c, k, v) ==
  RoutesFor(c, k) # {} /\ v \in Routes[c][Min(RoutesFor(c, k))].decodes

Entry == ArtifactKeys \X Cell \X Nat

\* The entries out are those of the keys up to n that the registry decodes.
Walked(c, keys, n, out, m) ==
  /\ \A i \in DOMAIN out :
       /\ \E j \in DOMAIN keys : j <= n /\ out[i][1] = keys[j]
       /\ Decodes(c, out[i][1], m[out[i][1]])
       /\ out[i][2] = m[out[i][1]] /\ out[i][3] = Min(RoutesFor(c, out[i][1]))
  /\ \A j \in DOMAIN keys :
       j <= n /\ Decodes(c, keys[j], m[keys[j]]) => \E i \in DOMAIN out : out[i][1] = keys[j]
  /\ \A i, j \in DOMAIN out : i < j => KeyRank[out[i][1]] < KeyRank[out[j][1]]

ScanType == [phase: {"idle", "open", "done"}, snap: Nat, idx: Nat,
             keys: Seq(ArtifactKeys), out: Seq(Entry)]

ScanHolds(c, it, takes, maps) ==
  /\ it \in ScanType
  /\ it.phase # "done" => it.idx <= Len(it.keys)
  /\ it.phase = "done" => it.idx = Len(it.keys) + 1
  /\ it.phase # "idle" =>
       /\ it.snap \in 1..Len(takes)
       /\ InOrder(it.keys)
       /\ Range(it.keys) = KeysIn(c, maps[takes[it.snap].state.map])
       /\ Walked(c, it.keys, it.idx, it.out, maps[takes[it.snap].state.map])

ScansInv ==
  /\ DOMAIN scans = Clients
  /\ \A c \in Clients : ScanHolds(c, scans[c], snaps, heap)

IInv ==
  /\ log \in Seq(Events)
  /\ heap \in Seq(ByteMap)
  /\ RunInv /\ SnapsInv /\ ScansInv

-----------------------------------------------------------------------------
(* What is true of a reference stays true while maps and snapshots are added.*)
LEMMA HoldsOn ==
  ASSUME NEW maps \in Seq(ByteMap), NEW m \in ByteMap, NEW state, NEW events,
         StateHolds(state, events, maps)
  PROVE  StateHolds(state, events, Append(maps, m))
  <1>1. state.map \in 1..Len(Append(maps, m)) /\ Append(maps, m)[state.map] = maps[state.map]
    BY DEF StateHolds
  <1>2. QED
    BY <1>1 DEF StateHolds

LEMMA HoldsNew ==
  ASSUME NEW maps \in Seq(ByteMap), NEW m \in ByteMap, NEW events, Left(events, m)
  PROVE  StateHolds([map |-> Len(maps) + 1, version |-> Len(events)], events, Append(maps, m))
  <1>1. Len(maps) + 1 \in 1..Len(Append(maps, m)) /\ Append(maps, m)[Len(maps) + 1] = m
    OBVIOUS
  <1>2. QED
    BY <1>1 DEF StateHolds

LEMMA ScanOnHeap ==
  ASSUME NEW maps \in Seq(ByteMap), NEW m \in ByteMap, NEW takes \in Seq(Taken),
         \A i \in 1..Len(takes) : takes[i].state.map \in 1..Len(maps),
         NEW c, NEW it, ScanHolds(c, it, takes, maps)
  PROVE  ScanHolds(c, it, takes, Append(maps, m))
  <1>1. \A i \in 1..Len(takes) : Append(maps, m)[takes[i].state.map] = maps[takes[i].state.map]
    OBVIOUS
  <1>2. QED
    BY <1>1 DEF ScanHolds

LEMMA ScanOnSnaps ==
  ASSUME NEW takes \in Seq(Taken), NEW t \in Taken, NEW c, NEW it, NEW maps,
         ScanHolds(c, it, takes, maps)
  PROVE  ScanHolds(c, it, Append(takes, t), maps)
  <1>1. \A i \in 1..Len(takes) : i \in 1..Len(Append(takes, t)) /\ Append(takes, t)[i] = takes[i]
    OBVIOUS
  <1>2. QED
    BY <1>1 DEF ScanHolds

\* Every step but those on snapshots and scans only adds a map.
LEMMA SnapsOnHeap ==
  ASSUME IInv, NEW m \in ByteMap, heap' = Append(heap, m), UNCHANGED <<snaps, scans>>
  PROVE  heap' \in Seq(ByteMap) /\ SnapsInv' /\ ScansInv'
  <1>1. heap \in Seq(ByteMap) /\ heap' \in Seq(ByteMap)
    BY DEF IInv
  <1>2. \A i \in 1..Len(snaps) : StateHolds(snaps[i].state, snaps[i].behind, heap')
    BY <1>1, HoldsOn DEF IInv, SnapsInv
  <1>3. SnapsInv'
    BY <1>2 DEF IInv, SnapsInv
  <1>4. snaps \in Seq(Taken) /\ \A i \in 1..Len(snaps) : snaps[i].state.map \in 1..Len(heap)
    BY DEF IInv, SnapsInv, StateHolds
  <1>5. \A c \in Clients : ScanHolds(c, scans[c], snaps, heap)
    BY DEF IInv, ScansInv
  <1>6. \A c \in Clients : ScanHolds(c, scans[c], snaps, heap')
    BY <1>1, <1>4, <1>5, ScanOnHeap
  <1>7. ScansInv'
    BY <1>6 DEF IInv, ScansInv
  <1>8. QED
    BY <1>1, <1>3, <1>7

-----------------------------------------------------------------------------
(* The steps of the replay. *)
LEMMA InitIInv == Init => IInv
  <1> SUFFICES ASSUME Init PROVE IInv
    OBVIOUS
  <1>1. log \in Seq(Events) /\ heap \in Seq(ByteMap)
    BY EmptyMapType DEF Init
  <1>2. RunInv
    <2>1. StateHolds(run.state, run.applied, heap)
      BY NothingLeft DEF Init, StateHolds
    <2>2. CEREventsToReplay(<<>>) = <<>>
      BY DEF CEREventsToReplay
    <2>3. run \in Run
      BY DEF Init, Run, Ref
    <2>4. QED
      BY <2>1, <2>2, <2>3 DEF Init, RunInv
  <1>3. SnapsInv
    BY DEF Init, SnapsInv
  <1>4. ScansInv
    <2>1. ASSUME NEW c \in Clients PROVE ScanHolds(c, NoScan, snaps, heap)
      BY DEF ScanHolds, ScanType, NoScan
    <2>2. QED
      BY <2>1 DEF Init, ScansInv
  <1>5. QED
    BY <1>1, <1>2, <1>3, <1>4 DEF IInv

LEMMA RunUpdate ==
  ASSUME NEW r \in Run, NEW state \in Ref, NEW n \in Nat, NEW events \in Seq(Events)
  PROVE  [r EXCEPT !.state = state, !.cursor = n, !.applied = events] \in Run
  BY DEF Run

LEMMA LoadKeeps == IInv /\ Load => IInv'
  <1> SUFFICES ASSUME IInv, Load PROVE IInv'
    OBVIOUS
  <1>1. log \in Seq(Events) /\ heap \in Seq(ByteMap) /\ log' \in Seq(Events)
    BY DEF IInv, Load
  <1>2. heap' = Append(heap, EmptyMap) /\ UNCHANGED <<snaps, scans>>
    BY DEF Load
  <1>3. heap' \in Seq(ByteMap) /\ SnapsInv' /\ ScansInv'
    BY <1>2, EmptyMapType, SnapsOnHeap
  <1>4. RunInv'
    <2>1. StateHolds([map |-> Len(heap) + 1, version |-> 0], <<>>, heap')
      <3>1. StateHolds([map |-> Len(heap) + 1, version |-> Len(<<>>)], <<>>, heap')
        BY <1>1, <1>2, HoldsNew, NothingLeft, EmptyMapType
      <3>2. QED
        BY <3>1
    <2>2. /\ run'.input = CEREventsToReplay(run'.from) /\ run'.cursor = 0
          /\ run'.state = [map |-> Len(heap) + 1, version |-> 0] /\ run'.applied = <<>>
      BY DEF Load
    <2>3. run' \in Run
      BY <1>1, AdapterType DEF Load, Run, Ref
    <2>4. QED
      BY <2>1, <2>2, <2>3 DEF RunInv
  <1>5. QED
    BY <1>1, <1>3, <1>4 DEF IInv

LEMMA AdvanceKeeps ==
  ASSUME IInv, NEW cursor \in Nat, Advance(cursor)
  PROVE  IInv'
  <1> DEFINE ev == run.from[cursor + 1]
             m == Merge(heap[run.state.map], WritesOf(ev))
             state == [map |-> Len(heap) + 1, version |-> run.state.version + 1]
  <1>1. /\ log' = log /\ log \in Seq(Events) /\ heap \in Seq(ByteMap)
        /\ UNCHANGED <<snaps, scans>>
    BY DEF IInv, Advance
  <1>2. /\ run.from \in Seq(Events) /\ run.input \in Seq(ByteMap) /\ run.applied \in Seq(Events)
        /\ run.input = CEREventsToReplay(run.from) /\ Len(run.input) = Len(run.from)
        /\ StateHolds(run.state, run.applied, heap) /\ run.state \in Ref
    BY AdapterType DEF IInv, RunInv, Run
  <1>3. cursor + 1 \in 1..Len(run.input)
    BY <1>2 DEF Advance, Valid
  <1>4. ev \in Events /\ ev \in Event /\ run.input[cursor + 1] = WritesOf(ev)
    BY <1>2, <1>3, AdapterType, ReplayConstants
  <1>5. /\ heap' = Append(heap, m)
        /\ run' = [run EXCEPT !.state = state, !.cursor = cursor + 1,
                              !.applied = Append(run.applied, ev)]
    BY <1>4 DEF Advance, Apply, EventAt
  <1>6. run.state.map \in 1..Len(heap) /\ run.state.version = Len(run.applied)
        /\ Left(run.applied, heap[run.state.map]) /\ heap[run.state.map] \in ByteMap
    BY <1>1, <1>2 DEF StateHolds
  <1>7. m \in ByteMap
    BY <1>4, <1>6, MergeType, WritesOfType
  <1>8. Left(Append(run.applied, ev), m)
    BY <1>2, <1>4, <1>6, OneMore, EventsTyped
  <1> HIDE DEF m, ev
  <1>9. heap' \in Seq(ByteMap) /\ SnapsInv' /\ ScansInv'
    BY <1>1, <1>5, <1>7, SnapsOnHeap
  <1>10. RunInv'
    <2>1. Append(run.applied, ev) \in Seq(Events) /\ Len(Append(run.applied, ev)) = Len(run.applied) + 1
      BY <1>2, <1>4
    <2>2. StateHolds(state, Append(run.applied, ev), heap')
      <3>1. StateHolds([map |-> Len(heap) + 1, version |-> Len(Append(run.applied, ev))],
                       Append(run.applied, ev), heap')
        BY <1>1, <1>5, <1>7, <1>8, HoldsNew
      <3>2. QED
        BY <1>6, <2>1, <3>1
    <2>3. /\ run'.state = state /\ run'.cursor = cursor + 1 /\ run'.applied = Append(run.applied, ev)
          /\ run'.input = run.input /\ run'.from = run.from
      BY <1>5 DEF IInv, RunInv, Run
    <2>4. state \in Ref
      BY <1>1, <1>2 DEF Ref
    <2>5. run' \in Run
      <3> HIDE DEF state
      <3>1. run \in Run /\ cursor + 1 \in Nat
        BY DEF IInv, RunInv
      <3>2. QED
        BY <1>5, <2>1, <2>4, <3>1, RunUpdate
    <2>6. QED
      <3> HIDE DEF state
      <3>1. QED
        BY <1>2, <1>3, <2>2, <2>3, <2>5 DEF RunInv
  <1>11. QED
    BY <1>1, <1>9, <1>10 DEF IInv

LEMMA FoldInputKeeps == IInv /\ FoldInput => IInv'
  <1> SUFFICES ASSUME IInv, FoldInput PROVE IInv'
    OBVIOUS
  <1> DEFINE m == WrittenBy(run.input)
             state == [map |-> Len(heap) + 1, version |-> Len(run.input)]
  <1>1. /\ log' = log /\ log \in Seq(Events) /\ heap \in Seq(ByteMap)
        /\ UNCHANGED <<snaps, scans>>
    BY DEF IInv, FoldInput
  <1>2. /\ run.from \in Seq(Events) /\ run.input \in Seq(ByteMap)
        /\ run.input = CEREventsToReplay(run.from) /\ Len(run.input) = Len(run.from)
    BY AdapterType DEF IInv, RunInv, Run
  <1>3. /\ heap' = Append(heap, m)
        /\ run' = [run EXCEPT !.state = state, !.cursor = Len(run.input), !.applied = run.from]
    BY DEF FoldInput, FoldAtOnce
  <1>4. m \in ByteMap /\ Left(run.from, m)
    BY <1>2, WrittenByLeaves
  <1> HIDE DEF m
  <1>5. heap' \in Seq(ByteMap) /\ SnapsInv' /\ ScansInv'
    BY <1>1, <1>3, <1>4, SnapsOnHeap
  <1>6. RunInv'
    <2>1. StateHolds(state, run.from, heap')
      BY <1>1, <1>2, <1>3, <1>4, HoldsNew
    <2>2. state \in Ref
      BY <1>1, <1>2 DEF Ref
    <2> HIDE DEF state
    <2>3. /\ run'.state = state /\ run'.cursor = Len(run.input) /\ run'.applied = run.from
          /\ run'.input = run.input /\ run'.from = run.from
      BY <1>3 DEF IInv, RunInv, Run
    <2>4. run' \in Run
      <3>1. run \in Run /\ Len(run.input) \in Nat
        BY <1>2 DEF IInv, RunInv
      <3>2. QED
        BY <1>2, <1>3, <2>2, <3>1, RunUpdate
    <2>5. QED
      BY <1>2, <2>1, <2>3, <2>4 DEF RunInv
  <1>7. QED
    BY <1>1, <1>5, <1>6 DEF IInv

LEMMA SnapshotKeeps == IInv /\ NewFromRuntimeState => IInv'
  <1> SUFFICES ASSUME IInv, NewFromRuntimeState PROVE IInv'
    OBVIOUS
  <1> DEFINE t == [state |-> run.state, behind |-> run.applied]
  <1>1. UNCHANGED <<log, run, heap, scans>> /\ snaps' = Append(snaps, t)
    BY DEF NewFromRuntimeState
  <1>2. t \in Taken /\ StateHolds(t.state, t.behind, heap)
    BY DEF IInv, RunInv, Run, Taken
  <1>3. snaps \in Seq(Taken)
        /\ \A i \in 1..Len(snaps) : StateHolds(snaps[i].state, snaps[i].behind, heap)
    BY DEF IInv, SnapsInv
  <1> HIDE DEF t
  <1>4. SnapsInv'
    <2>1. snaps' \in Seq(Taken)
      BY <1>1, <1>2, <1>3
    <2>2. \A i \in 1..Len(snaps') : StateHolds(snaps'[i].state, snaps'[i].behind, heap)
      BY <1>1, <1>2, <1>3
    <2>3. QED
      BY <1>1, <2>1, <2>2 DEF SnapsInv
  <1>5. \A c \in Clients : ScanHolds(c, scans[c], snaps', heap)
    BY <1>1, <1>2, <1>3, ScanOnSnaps DEF IInv, ScansInv
  <1>6. ScansInv'
    BY <1>1, <1>5 DEF IInv, ScansInv
  <1>7. RunInv'
    BY <1>1 DEF IInv, RunInv
  <1>8. QED
    BY <1>1, <1>4, <1>6, <1>7 DEF IInv

-----------------------------------------------------------------------------
(* The steps of the clients. *)
LEMMA LeastOwner ==
  ASSUME NEW c \in Clients, NEW k, RoutesFor(c, k) # {}
  PROVE  /\ Min(RoutesFor(c, k)) \in RoutesFor(c, k)
         /\ \A i \in RoutesFor(c, k) : Min(RoutesFor(c, k)) <= i
         /\ RoutesFor(c, k) \subseteq Nat
  <1> DEFINE S == RoutesFor(c, k)
  <1>1. S \in SUBSET Nat
    BY SealedConstants DEF RoutesFor
  <1> HIDE DEF S
  <1>2. \E i \in S : \A j \in S : i <= j
    <2>1. PICK i \in S : \A j \in Nat : <<j, i>> \in OpToRel(<, Nat) => j \notin S
      BY <1>1, NatLessThanWellFounded, WFMin DEF S
    <2>2. \A j \in S : ~(j < i)
      BY <1>1, <2>1 DEF OpToRel
    <2>3. i \in Nat /\ \A j \in S : j \in Nat
      BY <1>1
    <2>4. \A j \in S : i <= j
      BY <2>2, <2>3
    <2>5. QED
      BY <2>4
  <1>3. Min(S) \in S /\ \A j \in S : Min(S) <= j
    BY <1>2 DEF Min
  <1>4. QED
    BY <1>1, <1>3 DEF S

LEMMA DecodeIs ==
  ASSUME NEW c, NEW k, NEW v
  PROVE  Decode(c, k, v) = IF Decodes(c, k, v)
                           THEN << <<k, v, Min(RoutesFor(c, k))>> >> ELSE <<>>
  BY DEF Decode, Decodes

\* One turn of the loop takes the walk one key further.
LEMMA WalkOn ==
  ASSUME NEW c \in Clients, NEW m \in ByteMap, NEW keys \in Seq(ArtifactKeys), InOrder(keys),
         NEW n \in Nat, n < Len(keys), NEW out \in Seq(Entry), Walked(c, keys, n, out, m)
  PROVE  LET more == out \o Decode(c, keys[n + 1], m[keys[n + 1]])
         IN more \in Seq(Entry) /\ Walked(c, keys, n + 1, more, m)
  <1> DEFINE k == keys[n + 1]
             e == <<k, m[k], Min(RoutesFor(c, k))>>
             more == out \o Decode(c, k, m[k])
  <1>1. k \in ArtifactKeys /\ n + 1 \in DOMAIN keys /\ DOMAIN keys = 1..Len(keys)
    OBVIOUS
  <1>2. CASE ~Decodes(c, k, m[k])
    <2>1. more = out
      BY <1>2, DecodeIs
    <2>2. Walked(c, keys, n + 1, out, m)
      <3>1. \A i \in DOMAIN out :
              /\ \E j \in DOMAIN keys : j <= n + 1 /\ out[i][1] = keys[j]
              /\ Decodes(c, out[i][1], m[out[i][1]])
              /\ out[i][2] = m[out[i][1]] /\ out[i][3] = Min(RoutesFor(c, out[i][1]))
        BY <1>1 DEF Walked
      <3>2. \A j \in DOMAIN keys :
              j <= n + 1 /\ Decodes(c, keys[j], m[keys[j]])
                => \E i \in DOMAIN out : out[i][1] = keys[j]
        BY <1>1, <1>2 DEF Walked
      <3>3. QED
        BY <3>1, <3>2 DEF Walked
    <2>3. QED
      BY <2>1, <2>2
  <1>3. CASE Decodes(c, k, m[k])
    <2>1. more = Append(out, e)
      <3>1. Decode(c, k, m[k]) = <<e>>
        BY <1>3, DecodeIs
      <3> HIDE DEF e, k
      <3>2. QED
        BY <3>1
    <2>2. e \in Entry
      <3>1. m[k] \in Cell
        BY <1>1 DEF ByteMap
      <3>2. Min(RoutesFor(c, k)) \in Nat
        BY <1>3, LeastOwner DEF Decodes
      <3>3. QED
        BY <1>1, <3>1, <3>2 DEF Entry
    <2>3. e[1] = k /\ e[2] = m[k] /\ e[3] = Min(RoutesFor(c, k))
      OBVIOUS
    <2> HIDE DEF e, k
    <2>4. /\ Append(out, e) \in Seq(Entry) /\ DOMAIN Append(out, e) = 1..(Len(out) + 1)
          /\ DOMAIN out = 1..Len(out) /\ Append(out, e)[Len(out) + 1] = e
          /\ \A i \in 1..Len(out) : Append(out, e)[i] = out[i]
      BY <2>2
    <2>5. Walked(c, keys, n + 1, Append(out, e), m)
      <3> DEFINE new == Append(out, e)
      <3> HIDE DEF new
      <3>1. ASSUME NEW i \in DOMAIN new
            PROVE  /\ \E j \in DOMAIN keys : j <= n + 1 /\ new[i][1] = keys[j]
                   /\ Decodes(c, new[i][1], m[new[i][1]])
                   /\ new[i][2] = m[new[i][1]] /\ new[i][3] = Min(RoutesFor(c, new[i][1]))
        <4>1. CASE i \in DOMAIN out
          <5>1. new[i] = out[i]
            BY <2>4, <4>1 DEF new
          <5>2. \E j \in DOMAIN keys : j <= n + 1 /\ out[i][1] = keys[j]
            BY <1>1, <4>1 DEF Walked
          <5>3. QED
            BY <4>1, <5>1, <5>2 DEF Walked
        <4>2. CASE i = Len(out) + 1
          <5>1. new[i] = e
            BY <2>4, <4>2 DEF new
          <5>2. n + 1 \in DOMAIN keys /\ n + 1 <= n + 1 /\ e[1] = keys[n + 1]
            BY <1>1, <2>3 DEF k
          <5>3. QED
            BY <1>3, <2>3, <5>1, <5>2
        <4>3. QED
          BY <2>4, <4>1, <4>2 DEF new
      <3>2. ASSUME NEW j \in DOMAIN keys, j <= n + 1, Decodes(c, keys[j], m[keys[j]])
            PROVE  \E i \in DOMAIN new : new[i][1] = keys[j]
        <4>1. CASE j <= n
          <5>1. PICK i \in DOMAIN out : out[i][1] = keys[j]
            BY <3>2, <4>1 DEF Walked
          <5>2. i \in DOMAIN new /\ new[i] = out[i]
            BY <2>4 DEF new
          <5>3. QED
            BY <5>1, <5>2
        <4>2. CASE j = n + 1
          <5>1. Len(out) + 1 \in DOMAIN new /\ new[Len(out) + 1] = e
            BY <2>4 DEF new
          <5>2. QED
            BY <2>3, <4>2, <5>1 DEF k
        <4>3. QED
          BY <1>1, <3>2, <4>1, <4>2
      <3>3. ASSUME NEW i \in DOMAIN new, NEW j \in DOMAIN new, i < j
            PROVE  KeyRank[new[i][1]] < KeyRank[new[j][1]]
        <4>1. i \in DOMAIN out /\ new[i] = out[i]
          BY <2>4, <3>3 DEF new
        <4>2. CASE j \in DOMAIN out
          BY <2>4, <3>3, <4>1, <4>2 DEF new, Walked
        <4>3. CASE j = Len(out) + 1
          <5>1. PICK x \in DOMAIN keys : x <= n /\ out[i][1] = keys[x]
            BY <4>1 DEF Walked
          <5>2. x < n + 1
            BY <1>1, <5>1
          <5>3. KeyRank[keys[x]] < KeyRank[keys[n + 1]]
            BY <1>1, <5>2 DEF InOrder
          <5>4. new[j][1] = keys[n + 1]
            BY <2>3, <2>4, <4>3 DEF new, k
          <5>5. QED
            BY <4>1, <5>1, <5>3, <5>4
        <4>4. QED
          BY <2>4, <4>2, <4>3 DEF new
      <3>4. Walked(c, keys, n + 1, new, m)
        BY <3>1, <3>2, <3>3 DEF Walked
      <3>5. QED
        BY <3>4 DEF new
    <2>6. QED
      BY <2>1, <2>4, <2>5 DEF k
  <1>4. QED
    BY <1>2, <1>3

LEMMA ScanUpdate ==
  ASSUME NEW r \in ScanType, NEW n \in Nat
  PROVE  /\ \A entries \in Seq(Entry) : [r EXCEPT !.idx = n, !.out = entries] \in ScanType
         /\ [r EXCEPT !.idx = n, !.phase = "done"] \in ScanType
  BY DEF ScanType

\* A step of one client leaves the rest of the state.
LEMMA OneScan ==
  ASSUME IInv, NEW c \in Clients, NEW it, ScanHolds(c, it, snaps, heap),
         scans' = [scans EXCEPT ![c] = it], UNCHANGED <<log, run, heap, snaps>>
  PROVE  IInv'
  <1>1. \A d \in Clients : ScanHolds(d, scans'[d], snaps, heap)
    BY DEF IInv, ScansInv
  <1>2. ScansInv'
    BY <1>1 DEF IInv, ScansInv
  <1>3. RunInv' /\ SnapsInv'
    BY DEF IInv, RunInv, SnapsInv
  <1>4. QED
    BY <1>2, <1>3 DEF IInv

LEMMA ScanKeeps ==
  ASSUME IInv, NEW c \in Clients, NEW s \in DOMAIN snaps, Scan(c, s)
  PROVE  IInv'
  <1> DEFINE K == ScanKeys(c, s)
  <1>1. PICK keys \in [1..Cardinality(K) -> K] :
          /\ InOrder(keys) /\ Range(keys) = K
          /\ scans' = [scans EXCEPT ![c] = [phase |-> "open", snap |-> s, idx |-> 0,
                                            keys |-> keys, out |-> <<>>]]
    BY DEF Scan
  <1> DEFINE it == [phase |-> "open", snap |-> s, idx |-> 0, keys |-> keys, out |-> <<>>]
             m == heap[snaps[s].state.map]
  <1>2. K \subseteq ArtifactKeys /\ K = KeysIn(c, m)
    BY DEF ScanKeys, KeysIn, MapOf
  <1>3. Cardinality(K) \in Nat
    BY <1>2, SealedConstants, FS_Subset, FS_CardinalityType
  <1>4. keys \in Seq(ArtifactKeys) /\ Len(keys) \in Nat
    BY <1>1, <1>2, <1>3
  <1>5. s \in 1..Len(snaps) /\ s \in Nat
    BY DEF IInv, SnapsInv
  <1>6. Walked(c, keys, 0, <<>>, m)
    BY <1>4 DEF Walked
  <1>7. ScanHolds(c, it, snaps, heap)
    <2>1. it \in ScanType
      BY <1>4, <1>5 DEF ScanType
    <2>2. /\ it.phase = "open" /\ it.snap = s /\ it.idx = 0 /\ it.keys = keys /\ it.out = <<>>
          /\ 0 <= Len(it.keys)
      BY <1>4
    <2> HIDE DEF it, K
    <2>3. Range(keys) = KeysIn(c, heap[snaps[s].state.map])
      BY <1>1, <1>2
    <2>4. Walked(c, keys, 0, <<>>, heap[snaps[s].state.map])
      BY <1>6
    <2>5. QED
      BY <1>1, <1>5, <2>1, <2>2, <2>3, <2>4 DEF ScanHolds
  <1>8. UNCHANGED <<log, run, heap, snaps>> /\ scans' = [scans EXCEPT ![c] = it]
    BY <1>1 DEF Scan
  <1> HIDE DEF it
  <1>9. QED
    BY <1>7, <1>8, OneScan

LEMMA VisitKeeps ==
  ASSUME IInv, NEW c \in Clients, Visit(c)
  PROVE  IInv'
  <1> DEFINE old == scans[c]
             m == heap[snaps[old.snap].state.map]
             more == old.out \o Decode(c, old.keys[old.idx + 1], m[old.keys[old.idx + 1]])
             it == [old EXCEPT !.idx = old.idx + 1, !.out = more]
  <1>1. ScanHolds(c, old, snaps, heap) /\ old.phase = "open" /\ NextIsInside(old)
    BY DEF IInv, ScansInv, Visit
  <1>2. UNCHANGED <<log, run, heap, snaps>> /\ scans' = [scans EXCEPT ![c] = it]
    BY DEF Visit, MapOf
  <1>3. old \in ScanType
    BY <1>1 DEF ScanHolds
  <1>4. /\ old.snap \in 1..Len(snaps) /\ InOrder(old.keys)
        /\ Range(old.keys) = KeysIn(c, m) /\ Walked(c, old.keys, old.idx, old.out, m)
    BY <1>1 DEF ScanHolds
  <1>5. old.keys \in Seq(ArtifactKeys) /\ old.idx \in Nat /\ old.out \in Seq(Entry)
        /\ old.snap \in Nat
    BY <1>3 DEF ScanType
  <1>6. m \in ByteMap
    BY <1>4 DEF IInv, SnapsInv, StateHolds
  <1>7. old.idx < Len(old.keys)
    BY <1>1, <1>5 DEF NextIsInside
  <1>8. more \in Seq(Entry) /\ Walked(c, old.keys, old.idx + 1, more, m)
    <2> HIDE DEF old, m
    <2>1. QED
      BY <1>4, <1>5, <1>6, <1>7, WalkOn
  <1> HIDE DEF more
  <1>9. /\ it.phase = "open" /\ it.snap = old.snap /\ it.keys = old.keys
        /\ it.idx = old.idx + 1 /\ it.out = more
    BY <1>1, <1>3 DEF ScanType
  <1>10. it \in ScanType
    <2> HIDE DEF old
    <2>1. old.idx + 1 \in Nat
      BY <1>5
    <2>2. QED
      BY <1>3, <1>8, <2>1, ScanUpdate, Zenon
  <1>11. ScanHolds(c, it, snaps, heap)
    <2> HIDE DEF it, old
    <2>1. it.idx <= Len(it.keys)
      BY <1>5, <1>7, <1>9
    <2>2. QED
      BY <1>4, <1>8, <1>9, <1>10, <2>1 DEF ScanHolds
  <1> HIDE DEF it
  <1>12. QED
    BY <1>2, <1>11, OneScan

LEMMA FinishKeeps ==
  ASSUME IInv, NEW c \in Clients, Finish(c)
  PROVE  IInv'
  <1> DEFINE old == scans[c]
             m == heap[snaps[old.snap].state.map]
             it == [old EXCEPT !.idx = old.idx + 1, !.phase = "done"]
  <1>1. ScanHolds(c, old, snaps, heap) /\ old.phase = "open" /\ ~NextIsInside(old)
    BY DEF IInv, ScansInv, Finish
  <1>2. UNCHANGED <<log, run, heap, snaps>> /\ scans' = [scans EXCEPT ![c] = it]
    BY DEF Finish
  <1>3. old \in ScanType
    BY <1>1 DEF ScanHolds
  <1>4. /\ old.snap \in 1..Len(snaps) /\ InOrder(old.keys)
        /\ Range(old.keys) = KeysIn(c, m) /\ Walked(c, old.keys, old.idx, old.out, m)
    BY <1>1 DEF ScanHolds
  <1>5. old.keys \in Seq(ArtifactKeys) /\ old.idx \in Nat /\ old.idx = Len(old.keys)
    BY <1>1, <1>3 DEF NextIsInside, ScanHolds, ScanType
  <1>6. Walked(c, old.keys, old.idx + 1, old.out, m)
    <2>1. \A j \in DOMAIN old.keys : j <= old.idx /\ j <= old.idx + 1
      BY <1>5
    <2>2. QED
      BY <1>4, <2>1 DEF Walked
  <1>7. /\ it.phase = "done" /\ it.snap = old.snap /\ it.keys = old.keys
        /\ it.idx = old.idx + 1 /\ it.out = old.out
    BY <1>3 DEF ScanType
  <1>8. it \in ScanType
    <2> HIDE DEF old
    <2>1. old.idx + 1 \in Nat
      BY <1>5
    <2>2. QED
      BY <1>3, <2>1, ScanUpdate, Zenon
  <1>9. ScanHolds(c, it, snaps, heap)
    <2>1. it.idx = Len(it.keys) + 1
      BY <1>5, <1>7
    <2> HIDE DEF it, old
    <2>2. QED
      BY <1>4, <1>6, <1>7, <1>8, <2>1 DEF ScanHolds
  <1> HIDE DEF it
  <1>10. QED
    BY <1>2, <1>9, OneScan

LEMMA NextIInv == IInv /\ [Next]_vars => IInv'
  <1> SUFFICES ASSUME IInv, [Next]_vars PROVE IInv'
    OBVIOUS
  <1>1. ASSUME NEW ev \in Events, AppendEvent(ev) PROVE IInv'
    <2>1. log' \in Seq(Events) /\ UNCHANGED <<run, heap, snaps, scans>>
      BY <1>1 DEF IInv, AppendEvent
    <2>2. QED
      BY <2>1 DEF IInv, RunInv, SnapsInv, ScansInv
  <1>2. ASSUME Advance(run.cursor) PROVE IInv'
    <2>1. run.cursor \in Nat
      BY DEF IInv, RunInv, Run
    <2>2. QED
      BY <1>2, <2>1, AdvanceKeeps
  <1>3. ASSUME NEW i \in -1..Len(run.input), Advance(Jump(i)) PROVE IInv'
    <2>1. run.input \in Seq(ByteMap)
      BY DEF IInv, RunInv, Run
    <2>2. i \in Int
      BY <2>1
    <2>3. Jump(i) \in Nat
      BY <2>2 DEF Jump
    <2>4. QED
      BY <1>3, <2>3, AdvanceKeeps
  <1>4. ASSUME NEW c \in Clients, NEW s \in DOMAIN snaps, Scan(c, s) PROVE IInv'
    BY <1>4, ScanKeeps
  <1>5. ASSUME NEW c \in Clients, Visit(c) PROVE IInv'
    BY <1>5, VisitKeeps
  <1>6. ASSUME NEW c \in Clients, Finish(c) PROVE IInv'
    BY <1>6, FinishKeeps
  <1>7. CASE UNCHANGED vars
    BY <1>7 DEF vars, IInv, RunInv, SnapsInv, ScansInv
  <1>8. QED
    BY <1>1, <1>2, <1>3, <1>4, <1>5, <1>6, <1>7, LoadKeeps, FoldInputKeeps, SnapshotKeeps
       DEF Next

LEMMA IInvHolds == Spec => []IInv
  BY InitIInv, NextIInv, PTL DEF Spec

-----------------------------------------------------------------------------
(* The types of the replay, its cursor inside its input and its version    *)
(* the number of the events applied, for every log and registry.           *)
THEOREM SealedTypes == Spec => []TypeOK
  <1>1. IInv => TypeOK
    <2> SUFFICES ASSUME IInv PROVE TypeOK
      OBVIOUS
    <2>1. \A m \in Range(heap) : m \in [ArtifactKeys -> Range(Bytes) \cup {Absent}]
      BY DEF IInv, Range, ByteMap, Cell
    <2>2. run.cursor \in 0..Len(run.input) /\ Len(run.from) = Len(run.input)
      BY AdapterType DEF IInv, RunInv, Run
    <2>3. run.state.map \in DOMAIN heap /\ run.state.version = Len(run.applied)
      BY DEF IInv, RunInv, StateHolds
    <2>4. ASSUME NEW c \in Clients
          PROVE  scans[c].phase \in {"idle", "open", "done"} /\ scans[c].idx <= Len(scans[c].keys) + 1
      <3>1. ScanHolds(c, scans[c], snaps, heap)
        BY DEF IInv, ScansInv
      <3>2. scans[c].keys \in Seq(ArtifactKeys) /\ scans[c].idx \in Nat
            /\ scans[c].phase \in {"idle", "open", "done"}
        BY <3>1 DEF ScanHolds, ScanType
      <3>3. scans[c].idx <= Len(scans[c].keys) \/ scans[c].idx = Len(scans[c].keys) + 1
        BY <3>1 DEF ScanHolds
      <3>4. QED
        BY <3>2, <3>3
    <2>5. QED
      BY <2>1, <2>2, <2>3, <2>4 DEF TypeOK, IInv
  <1>2. QED
    BY <1>1, IInvHolds, PTL

(* A snapshot answers for the events applied when it was taken, although   *)
(* it shares the map of the state: Apply and Fold only add maps.           *)
THEOREM SnapshotsFixed == Spec => []SnapshotFixed
  <1>1. IInv => SnapshotFixed
    <2> SUFFICES ASSUME IInv, NEW i \in DOMAIN snaps
                 PROVE  /\ snaps[i].state.version = Len(snaps[i].behind)
                        /\ \A k \in ArtifactKeys : Leaves(snaps[i].behind, k, MapOf(i)[k])
      BY DEF SnapshotFixed
    <2>1. StateHolds(snaps[i].state, snaps[i].behind, heap)
      BY DEF IInv, SnapsInv
    <2>2. QED
      BY <2>1 DEF StateHolds, Left, MapOf
  <1>2. QED
    BY <1>1, IInvHolds, PTL

(* The sealed engine and the R4 engine agree on every key that one entity  *)
(* alone writes, in whatever order the cursor had the events applied.      *)
THEOREM LayersAlwaysAgree == Spec => []LayersAgree
  <1> DEFINE prefix == run.applied
             v(e, k) == Fold(prefix).entities[e].artifactStates[k]
  <1>1. ASSUME IInv, NEW e \in EntityKeys, NEW k \in ArtifactKeys,
               \A i \in DOMAIN prefix : Writes(prefix[i], prefix[i].entityKey, k)
                                          => prefix[i].entityKey = e
        PROVE  heap[run.state.map][k] = (IF v(e, k) = Absent THEN Absent ELSE Bytes[v(e, k)])
    <2>1. prefix \in Seq(Event) /\ StateHolds(run.state, prefix, heap)
      BY <1>1, EventsTyped DEF IInv, RunInv, Run
    <2>2. Leaves(prefix, k, heap[run.state.map][k])
      BY <2>1 DEF StateHolds, Left
    <2>3. LastWrite(v(e, k), prefix, 0, Len(prefix), e, k)
      BY <2>1, FoldMeans DEF Means, EntityMeans
    <2> HIDE DEF prefix, v
    <2>4. \A i \in 1..Len(prefix) : prefix[i].stateDelta[k] # Absent <=> Writes(prefix[i], e, k)
      BY <1>1, <2>1 DEF Writes
    <2>5. CASE v(e, k) = Absent /\ \A i \in (0 + 1)..Len(prefix) : ~Writes(prefix[i], e, k)
      <3>1. \A i \in 1..Len(prefix) : prefix[i].stateDelta[k] = Absent
        BY <2>4, <2>5
      <3>2. heap[run.state.map][k] = Absent
        BY <2>1, <2>2, <3>1 DEF Leaves
      <3>3. QED
        BY <2>5, <3>2
    <2>6. CASE \E i \in (0 + 1)..Len(prefix) :
                 /\ Writes(prefix[i], e, k) /\ v(e, k) = prefix[i].stateDelta[k]
                 /\ \A j \in (i + 1)..Len(prefix) : ~Writes(prefix[j], e, k)
      <3>1. PICK i \in 1..Len(prefix) :
                 /\ Writes(prefix[i], e, k) /\ v(e, k) = prefix[i].stateDelta[k]
                 /\ \A j \in (i + 1)..Len(prefix) : ~Writes(prefix[j], e, k)
        BY <2>6
      <3>2. v(e, k) # Absent
        BY <3>1 DEF Writes
      <3>3. \A j \in (i + 1)..Len(prefix) : prefix[j].stateDelta[k] = Absent
        BY <2>1, <2>4, <3>1
      <3>4. Leaves(prefix, k, Bytes[v(e, k)])
        BY <2>1, <2>4, <3>1, <3>3 DEF Leaves
      <3>5. heap[run.state.map][k] = Bytes[v(e, k)]
        BY <2>1, <2>2, <3>4, LeavesUnique
      <3>6. QED
        BY <3>2, <3>5
    <2>7. QED
      BY <2>3, <2>5, <2>6 DEF LastWrite
  <1>2. IInv => LayersAgree
    BY <1>1 DEF LayersAgree
  <1>3. QED
    BY <1>2, IInvHolds, PTL

(* A client that has finished holds, in order, the entries of its snapshot *)
(* that its registry decodes, each by the first route that owns its key,   *)
(* however far the replay moved while it was reading.                      *)
THEOREM OneHeight == Spec => []ClientsSeeOneHeight
  <1>1. ASSUME IInv, NEW c \in Clients, scans[c].phase = "done"
        PROVE  LET View(k) == CHOOSE v \in Range(Bytes) \cup {Absent} :
                                Leaves(snaps[scans[c].snap].behind, k, v)
                   Owner(k) == {i \in DOMAIN Routes[c] :
                       /\ k \in Routes[c][i].owns
                       /\ \A j \in DOMAIN Routes[c] : j < i => k \notin Routes[c][j].owns}
                   Shown(k) == /\ k \in Prefix[c]
                               /\ \E i \in Owner(k) : View(k) \in Routes[c][i].decodes
                   shown == [i \in DOMAIN scans[c].out |-> scans[c].out[i][1]]
               IN /\ InOrder(shown) /\ Range(shown) = {k \in ArtifactKeys : Shown(k)}
                  /\ \A e \in Range(scans[c].out) : e[2] = View(e[1]) /\ e[3] \in Owner(e[1])
    <2> DEFINE it == scans[c]
               s == it.snap
               events == snaps[s].behind
               m == heap[snaps[s].state.map]
               View(k) == CHOOSE v \in Range(Bytes) \cup {Absent} : Leaves(events, k, v)
               Owner(k) == {i \in DOMAIN Routes[c] :
                       /\ k \in Routes[c][i].owns
                       /\ \A j \in DOMAIN Routes[c] : j < i => k \notin Routes[c][j].owns}
               Shown(k) == /\ k \in Prefix[c]
                           /\ \E i \in Owner(k) : View(k) \in Routes[c][i].decodes
               shown == [i \in DOMAIN it.out |-> it.out[i][1]]
    <2>1. /\ it \in ScanType /\ it.idx = Len(it.keys) + 1 /\ s \in 1..Len(snaps)
          /\ InOrder(it.keys) /\ Range(it.keys) = KeysIn(c, m)
          /\ Walked(c, it.keys, it.idx, it.out, m)
      BY <1>1 DEF IInv, ScansInv, ScanHolds
    <2>2. it.keys \in Seq(ArtifactKeys) /\ it.out \in Seq(Entry)
      BY <2>1 DEF ScanType
    <2>3. events \in Seq(Event) /\ m \in ByteMap /\ Left(events, m)
      <3>1. snaps[s] \in Taken /\ StateHolds(snaps[s].state, events, heap) /\ heap \in Seq(ByteMap)
        BY <1>1, <2>1 DEF IInv, SnapsInv
      <3>2. events \in Seq(Events)
        BY <3>1 DEF Taken
      <3>3. m \in ByteMap /\ Left(events, m)
        BY <3>1 DEF StateHolds
      <3> HIDE DEF events
      <3>4. QED
        BY <3>2, <3>3, EventsTyped
    <2> HIDE DEF it, m, events
    <2>4. \A k \in ArtifactKeys : View(k) = m[k]
      <3>1. ASSUME NEW k \in ArtifactKeys PROVE View(k) = m[k]
        <4>1. m[k] \in Range(Bytes) \cup {Absent} /\ Leaves(events, k, m[k])
          BY <2>3 DEF ByteMap, Cell, Left
        <4>2. Leaves(events, k, View(k))
          BY <4>1
        <4> HIDE DEF View
        <4>3. QED
          BY <2>3, <4>1, <4>2, LeavesUnique
      <3>2. QED
        BY <3>1
    <2> HIDE DEF View
    <2>5. \A k \in ArtifactKeys : RoutesFor(c, k) # {} => Owner(k) = {Min(RoutesFor(c, k))}
      <3>1. ASSUME NEW k \in ArtifactKeys, RoutesFor(c, k) # {}
            PROVE  Owner(k) = {Min(RoutesFor(c, k))}
        <4> DEFINE first == Min(RoutesFor(c, k))
        <4>1. /\ first \in RoutesFor(c, k) /\ RoutesFor(c, k) \subseteq Nat
              /\ \A i \in RoutesFor(c, k) : first <= i
          BY <3>1, LeastOwner
        <4> HIDE DEF first
        <4>2. DOMAIN Routes[c] \subseteq Nat
          BY SealedConstants
        <4>3. first \in Owner(k)
          <5>1. \A j \in DOMAIN Routes[c] : j < first => k \notin Routes[c][j].owns
            BY <4>1, <4>2 DEF RoutesFor
          <5>2. QED
            BY <4>1, <5>1 DEF RoutesFor
        <4>4. ASSUME NEW i \in Owner(k) PROVE i = first
          <5>1. i \in RoutesFor(c, k) /\ ~(first < i)
            BY <4>1 DEF RoutesFor
          <5>2. QED
            BY <4>1, <5>1
        <4>5. QED
          BY <4>3, <4>4 DEF first
      <3>2. QED
        BY <3>1
    <2>6. \A k \in ArtifactKeys : RoutesFor(c, k) = {} => Owner(k) = {}
      BY DEF RoutesFor
    <2> HIDE DEF Owner
    <2>7. \A k \in ArtifactKeys : Shown(k) <=> k \in Prefix[c] /\ Decodes(c, k, m[k])
      BY <2>4, <2>5, <2>6 DEF Decodes
    <2>8. \A k \in ArtifactKeys : Decodes(c, k, m[k]) => m[k] # Absent
      <3>1. ASSUME NEW k \in ArtifactKeys, Decodes(c, k, m[k]) PROVE m[k] # Absent
        <4>1. Min(RoutesFor(c, k)) \in DOMAIN Routes[c]
          BY <3>1, LeastOwner DEF Decodes, RoutesFor
        <4>2. m[k] \in Range(Bytes)
          BY <3>1, <4>1, SealedConstants DEF Decodes
        <4>3. QED
          BY <4>2, AbsentIsNoBytes
      <3>2. QED
        BY <3>1
    <2> HIDE DEF Shown
    <2>9. DOMAIN shown = DOMAIN it.out /\ \A i \in DOMAIN it.out : shown[i] = it.out[i][1]
      OBVIOUS
    <2> HIDE DEF shown
    <2>10. InOrder(shown)
      BY <2>1, <2>9 DEF InOrder, Walked
    <2>11. \A i \in DOMAIN it.out : it.out[i][1] \in ArtifactKeys
      BY <2>2 DEF Entry
    <2>12. Range(shown) = {k \in ArtifactKeys : Shown(k)}
      <3>1. ASSUME NEW i \in DOMAIN it.out PROVE Shown(it.out[i][1])
        <4>1. PICK j \in DOMAIN it.keys : it.out[i][1] = it.keys[j]
          BY <2>1 DEF Walked
        <4>2. it.out[i][1] \in KeysIn(c, m)
          BY <2>1, <4>1 DEF Range
        <4>3. QED
          BY <2>1, <2>7, <2>11, <4>2 DEF KeysIn, Walked
      <3>2. ASSUME NEW k \in ArtifactKeys, Shown(k) PROVE \E i \in DOMAIN it.out : it.out[i][1] = k
        <4>1. k \in KeysIn(c, m)
          BY <2>7, <2>8, <3>2 DEF KeysIn
        <4>2. PICK j \in DOMAIN it.keys : it.keys[j] = k
          BY <2>1, <4>1 DEF Range
        <4>3. j <= it.idx
          BY <2>1, <2>2
        <4>4. QED
          BY <2>1, <2>7, <3>2, <4>2, <4>3 DEF Walked
      <3>3. QED
        BY <2>9, <2>11, <3>1, <3>2 DEF Range
    <2>13. ASSUME NEW e \in Range(it.out) PROVE e[2] = View(e[1]) /\ e[3] \in Owner(e[1])
      <3>1. PICK i \in DOMAIN it.out : e = it.out[i]
        BY DEF Range
      <3>2. /\ e[1] \in ArtifactKeys /\ e[2] = m[e[1]] /\ e[3] = Min(RoutesFor(c, e[1]))
            /\ Decodes(c, e[1], m[e[1]])
        BY <2>1, <2>11, <3>1 DEF Walked
      <3>3. QED
        BY <2>4, <2>5, <3>2 DEF Decodes
    <2>14. QED
      BY <2>10, <2>12, <2>13 DEF it, events, View, Owner, Shown, shown
  <1>2. IInv => ClientsSeeOneHeight
    BY <1>1 DEF ClientsSeeOneHeight
  <1>3. QED
    BY <1>2, IInvHolds, PTL
=============================================================================
