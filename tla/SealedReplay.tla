---------------------------- MODULE SealedReplay ----------------------------
(***************************************************************************)
(* The sealed replay engine (runtime/replay), the adapter that feeds it    *)
(* from a log of package replay, and the layers that read its state:       *)
(* rehydration snapshots and their iterators (runtime/rehydrate), the      *)
(* reader with its registry, and the account projection.                   *)
(*                                                                         *)
(* A RuntimeState is a struct with a Go map inside: copying the struct     *)
(* shares the map.  A state is therefore a reference into heap, beside its *)
(* version; a snapshot holds the reference it was given and copies nothing.*)
(* A key absent from a map is mapped to Absent.                            *)
(***************************************************************************)
EXTENDS ReplayFold, Integers, FiniteSets, SequencesExt

CONSTANTS
  Bytes,        \* the bytes the adapter makes of a delta value
  KeyRank,      \* the place of each state key in the order of strings
  Clients,      \* goroutines that read snapshots: a projection, a Reader
  Prefix,       \* the keys with the prefix that a client scans for
  Routes,       \* the registry of a client: prefix owner and decoder, in order
  MaxLog,       \* bound: events in the log
  MaxHeap       \* bound: maps allocated

ASSUME SealedConstants ==
  /\ DOMAIN Bytes = Values
  /\ \A v \in Values : Bytes[v] # Absent
  /\ IsFiniteSet(ArtifactKeys)
  /\ KeyRank \in [ArtifactKeys -> Nat] /\ IsInjective(KeyRank)
  /\ \A c \in Clients : DOMAIN Routes[c] \subseteq Nat
  /\ \A c \in Clients : \A i \in DOMAIN Routes[c] : Routes[c][i].decodes \subseteq Range(Bytes)

VARIABLES
  log,    \* the R4 log, still growing
  run,    \* the replay in progress: its input, its cursor, its state and, for
          \* the properties, the log events applied to it
  heap,   \* the maps allocated, never freed here
  snaps,  \* the rehydration snapshots taken, each with the events behind it
  scans   \* what each client is doing

vars == <<log, run, heap, snaps, scans>>

-----------------------------------------------------------------------------
(* The adapter: one sealed event per log event.  Strings and byte slices   *)
(* pass as they are, other values as their printed form; the entity key    *)
(* is dropped, so that all entities write into one map.                    *)

\* Mutant: values that are not strings are skipped.
WritesOfStrings(ev) ==
  [k \in ArtifactKeys |-> IF ev.stateDelta[k] \in DOMAIN Bytes
                             /\ Bytes[ev.stateDelta[k]] = ev.stateDelta[k]
                          THEN Bytes[ev.stateDelta[k]] ELSE Absent]

WritesOf(ev) ==
  [k \in ArtifactKeys |-> IF ev.stateDelta[k] = Absent THEN Absent
                          ELSE Bytes[ev.stateDelta[k]]]

CEREventsToReplay(events) == [i \in DOMAIN events |-> WritesOf(events[i])]

\* The first check of the input.  The adapter counts the events itself, so that
\* the counts agree; the hashes and the event ids, which no property is about,
\* are taken to be there.
ValidateReplayInput(events) == Len(events) # 0

-----------------------------------------------------------------------------
(* Apply returns a new state with a map of its own.                        *)

EmptyMap == NoArtifacts

\* Mutant: the writes go into the map of the previous state.
ApplyInPlace(maps, state, writes) ==
  [heap  |-> [maps EXCEPT ![state.map] = Merge(@, writes)],
   state |-> [map |-> state.map, version |-> state.version + 1]]

\* Mutant: the version of the previous state.
ApplySameVersion(maps, state, writes) ==
  [heap  |-> Append(maps, Merge(maps[state.map], writes)),
   state |-> [map |-> Len(maps) + 1, version |-> state.version]]

Apply(maps, state, writes) ==
  [heap  |-> Append(maps, Merge(maps[state.map], writes)),
   state |-> [map |-> Len(maps) + 1, version |-> state.version + 1]]

\* The map after the last of these writes.
WrittenBy(events) ==
  LET data[n \in 0..Len(events)] ==
        IF n = 0 THEN EmptyMap ELSE Merge(data[n - 1], events[n])
  IN  data[Len(events)]

\* Fold runs Apply from a fresh state; only its last map stays reachable.
FoldAtOnce(maps, events) ==
  [heap  |-> Append(maps, WrittenBy(events)),
   state |-> [map |-> Len(maps) + 1, version |-> Len(events)]]

\* Cursor.Event: the event under the cursor, if the index is inside.
Valid(cursor, events) == cursor \in 0..(Len(events) - 1)
EventAt(cursor, events) == events[cursor + 1]

\* Cursor.Jump: a negative index is the start, one past the end is legal.
Jump(i) == IF i < 0 THEN 0 ELSE i

-----------------------------------------------------------------------------
NoScan == [phase |-> "idle", snap |-> 0, idx |-> 0, keys |-> <<>>, out |-> <<>>]

Init ==
  /\ log = <<>>
  /\ run = [input |-> <<>>, from |-> <<>>, cursor |-> 0, applied |-> <<>>,
            state |-> [map |-> 1, version |-> 0]]
  /\ heap = <<EmptyMap>>
  /\ snaps = <<>>
  /\ scans = [c \in Clients |-> NoScan]

\* The producer of the log; it knows nothing of replays in progress.
AppendEvent(ev) ==
  /\ Len(log) < MaxLog
  /\ log' = Append(log, ev)
  /\ UNCHANGED <<run, heap, snaps, scans>>

\* Take the log as it is now and start over, from an empty state.
Load ==
  /\ ValidateReplayInput(CEREventsToReplay(log))
  /\ Len(heap) < MaxHeap
  /\ heap' = Append(heap, EmptyMap)
  /\ run' = [input |-> CEREventsToReplay(log), from |-> log, cursor |-> 0, applied |-> <<>>,
             state |-> [map |-> Len(heap) + 1, version |-> 0]]
  /\ UNCHANGED <<log, snaps, scans>>

\* One event: read under the cursor, apply, step.  The caller may jump first;
\* what was applied stays applied, and an event that is met again is applied
\* again.
Advance(cursor) ==
  /\ Valid(cursor, run.input)
  /\ Len(heap) < MaxHeap
  /\ LET after == Apply(heap, run.state, EventAt(cursor, run.input))
     IN /\ heap' = after.heap
        /\ run' = [run EXCEPT !.state = after.state, !.cursor = cursor + 1,
                              !.applied = Append(@, EventAt(cursor, run.from))]
  /\ UNCHANGED <<log, snaps, scans>>

\* All of the input at once, from a state of its own.
FoldInput ==
  /\ run.cursor = 0 /\ run.input # <<>>
  /\ Len(heap) < MaxHeap
  /\ LET after == FoldAtOnce(heap, run.input)
     IN /\ heap' = after.heap
        /\ run' = [run EXCEPT !.state = after.state, !.cursor = Len(run.input),
                              !.applied = run.from]
  /\ UNCHANGED <<log, snaps, scans>>

\* NewFromRuntimeState wraps the state.  The events it stands for are kept
\* beside it for the properties.
NewFromRuntimeState ==
  /\ \A i \in DOMAIN snaps : snaps[i].state # run.state
  /\ snaps' = Append(snaps, [state  |-> run.state,
                             behind |-> run.applied])
  /\ UNCHANGED <<log, run, heap, scans>>

-----------------------------------------------------------------------------
(* The iterator and its clients: BuildAccountProjection, whose one decoder  *)
(* is ParseUint on the values under acct:, and Reader.Scan.                *)

MapOf(s) == heap[snaps[s].state.map]

\* The keys that Scan copies.  The values stay in the shared map.
ScanKeys(c, s) == {k \in ArtifactKeys : MapOf(s)[k] # Absent /\ k \in Prefix[c]}

InOrder(keys) == \A i, j \in DOMAIN keys : i < j => KeyRank[keys[i]] < KeyRank[keys[j]]

Scan(c, s) ==
  /\ scans[c].phase # "open"
  /\ \E keys \in [1..Cardinality(ScanKeys(c, s)) -> ScanKeys(c, s)] :
       /\ InOrder(keys) /\ Range(keys) = ScanKeys(c, s)
       /\ scans' = [scans EXCEPT ![c] = [phase |-> "open", snap |-> s, idx |-> 0,
                                         keys |-> keys, out |-> <<>>]]
  /\ UNCHANGED <<log, run, heap, snaps>>

\* Mutant: the last key is taken for the end.
NextIsInsideShort(it) == it.idx + 1 < Len(it.keys)

\* Next moves the index and tells whether it is still inside.
NextIsInside(it) == it.idx + 1 <= Len(it.keys)

\* The routes whose prefix the key has.
RoutesFor(c, k) == {i \in DOMAIN Routes[c] : k \in Routes[c][i].owns}

\* The view by the first route that owns the key, or none: a decoder that
\* fails is not followed by another one.
Decode(c, k, v) ==
  LET first == Min(RoutesFor(c, k))
  IN IF RoutesFor(c, k) # {} /\ v \in Routes[c][first].decodes
     THEN << <<k, v, first>> >> ELSE <<>>

\* One turn of the loop: Next was true, the entry under the index is read.
Visit(c) ==
  LET it == scans[c]
      k  == it.keys[it.idx + 1]
  IN /\ it.phase = "open" /\ NextIsInside(it)
     /\ scans' = [scans EXCEPT ![c].idx = @ + 1,
                               ![c].out = @ \o Decode(c, k, MapOf(it.snap)[k])]
     /\ UNCHANGED <<log, run, heap, snaps>>

\* Next was false: the loop ends, and the deferred Close runs.
Finish(c) ==
  /\ scans[c].phase = "open" /\ ~NextIsInside(scans[c])
  /\ scans' = [scans EXCEPT ![c].idx = @ + 1, ![c].phase = "done"]
  /\ UNCHANGED <<log, run, heap, snaps>>

Next ==
  \/ \E ev \in Events : AppendEvent(ev)
  \/ Advance(run.cursor)
  \/ \E i \in -1..Len(run.input) : Advance(Jump(i))
  \/ Load \/ FoldInput \/ NewFromRuntimeState
  \/ \E c \in Clients, s \in DOMAIN snaps : Scan(c, s)
  \/ \E c \in Clients : Visit(c) \/ Finish(c)

Spec == Init /\ [][Next]_vars

-----------------------------------------------------------------------------
TypeOK ==
  /\ log \in Seq(Events)
  /\ \A m \in Range(heap) : m \in [ArtifactKeys -> Range(Bytes) \cup {Absent}]
  /\ run.cursor \in 0..Len(run.input) /\ Len(run.from) = Len(run.input)
  /\ run.state.map \in DOMAIN heap /\ run.state.version = Len(run.applied)
  /\ \A c \in Clients : /\ scans[c].phase \in {"idle", "open", "done"}
                        /\ scans[c].idx <= Len(scans[c].keys) + 1

\* The value v is what the events leave under key k: the bytes of the last
\* write, by whatever entity, or nothing when none writes it.
Leaves(events, k, v) ==
  \/ v = Absent /\ \A i \in DOMAIN events : events[i].stateDelta[k] = Absent
  \/ \E i \in DOMAIN events :
       /\ events[i].stateDelta[k] # Absent
       /\ v = Bytes[events[i].stateDelta[k]]
       /\ \A j \in (i + 1)..Len(events) : events[j].stateDelta[k] = Absent

\* A snapshot taken while a replay goes on keeps answering for the events
\* applied when it was taken, and its height counts them: no later Apply,
\* Fold or restart of the replay reaches the map it shares.
SnapshotFixed ==
  \A i \in DOMAIN snaps :
    /\ snaps[i].state.version = Len(snaps[i].behind)
    /\ \A k \in ArtifactKeys : Leaves(snaps[i].behind, k, MapOf(i)[k])

\* A client that has finished holds, sorted, exactly the entries of its
\* snapshot that its registry decodes, all of one height, however far the
\* replay moved while it was reading.
ClientsSeeOneHeight ==
  \A c \in Clients : scans[c].phase = "done" =>
    LET View(k) == CHOOSE v \in Range(Bytes) \cup {Absent} :
                     Leaves(snaps[scans[c].snap].behind, k, v)
        Owner(k) == {i \in DOMAIN Routes[c] :
                       /\ k \in Routes[c][i].owns
                       /\ \A j \in DOMAIN Routes[c] : j < i => k \notin Routes[c][j].owns}
        Shown(k) == /\ k \in Prefix[c]
                    /\ \E i \in Owner(k) : View(k) \in Routes[c][i].decodes
        shown == [i \in DOMAIN scans[c].out |-> scans[c].out[i][1]]
    IN /\ InOrder(shown) /\ Range(shown) = {k \in ArtifactKeys : Shown(k)}
       /\ \A e \in Range(scans[c].out) : e[2] = View(e[1]) /\ e[3] \in Owner(e[1])

\* Where one entity alone writes a key, the sealed state and the R4 state of
\* that entity agree on it, event by event, in whatever order jumps of the
\* cursor had the events applied (the cross-check of the layers in
\* replay/r4r5_crosscheck_test.go stops short of the sealed engine).
LayersAgree ==
  LET prefix == run.applied
      r4 == Fold(prefix)
  IN \A e \in EntityKeys, k \in ArtifactKeys :
       (\A i \in DOMAIN prefix : Writes(prefix[i], prefix[i].entityKey, k)
                                  => prefix[i].entityKey = e)
         => LET v == r4.entities[e].artifactStates[k]
            IN heap[run.state.map][k] = (IF v = Absent THEN Absent ELSE Bytes[v])
=============================================================================
