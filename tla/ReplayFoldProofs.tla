--------------------------- MODULE ReplayFoldProofs ---------------------------
(***************************************************************************)
(* Facts about the operators of ReplayFold that the proofs of the replay   *)
(* engine, of the snapshots and of the sealed engine rest on: the types,   *)
(* the meaning of a range of events, and what Fold returns for any log.    *)
(***************************************************************************)
EXTENDS ReplayFold, SequenceTheorems, WellFoundedInduction, TLAPS

(* A state is typed by its parts; every operator of ReplayFold keeps it.   *)
LEMMA InitialStateType == initialState \in RuntimeState
  BY ReplayConstants
     DEF initialState, RuntimeState, EntityState, ZeroEntity, NoArtifacts, Delta

LEMMA ApplyEventType ==
  ASSUME NEW s \in RuntimeState, NEW ev \in Event
  PROVE  ApplyEvent(s, ev) \in RuntimeState
  <1>1. ev \in Event
    OBVIOUS
  <1>2. s.entities[ev.entityKey] \in EntityState
    BY <1>1 DEF Event, RuntimeState
  <1>3. Merge(s.entities[ev.entityKey].artifactStates, ev.stateDelta) \in Delta
    BY <1>1, <1>2 DEF Merge, Delta, Event, EntityState
  <1>4. applyDelta(s.entities[ev.entityKey], ev.stateDelta, ev.sequence)
          \in EntityState
    BY <1>1, <1>3 DEF applyDelta, EntityState, Event
  <1>5. QED
    BY <1>1, <1>4 DEF ApplyEvent, updateEntity, RuntimeState, Event

LEMMA EventsTyped ==
  ASSUME NEW events \in Seq(Events)
  PROVE  events \in Seq(Event)
  BY ReplayConstants

-------------------------------------------------------------------------------
(***************************************************************************)
(* The meaning of a range: nothing for an empty one, one event more for one*)
(* ApplyEvent, the same one in a longer log, at most one state, and sums.  *)
(***************************************************************************)
LEMMA MeansEmpty ==
  ASSUME NEW n \in Nat, NEW events
  PROVE  Means(initialState, events, n, n)
  BY DEF Means, EntityMeans, UntouchedEntity, LastWrite, initialState,
         ZeroEntity, NoArtifacts

LEMMA MeansStep ==
  ASSUME NEW lo \in Nat, NEW n \in Nat, lo <= n, NEW events \in Seq(Event),
         n < Len(events), NEW s \in RuntimeState, Means(s, events, lo, n)
  PROVE  Means(ApplyEvent(s, events[n + 1]), events, lo, n + 1)
  <1> DEFINE ev == events[n + 1]
             t == ApplyEvent(s, ev)
  <1>1. ev \in Event
    OBVIOUS
  <1>2. t.version = n + 1 - lo
    BY DEF Means, ApplyEvent, updateEntity
  <1>3. ASSUME NEW e \in EntityKeys
        PROVE  EntityMeans(t.entities[e], events, lo, n + 1, e)
    <2> DEFINE old == s.entities[e]
    <2>1. EntityMeans(old, events, lo, n, e)
      BY DEF Means
    <2>2. CASE ev.entityKey # e
      <3>1. t.entities[e] = old
        BY <1>1, <2>2 DEF ApplyEvent, updateEntity, RuntimeState, Event
      <3>2. ~Touches(events[n + 1], e)
        BY <2>2 DEF Touches
      <3>3. \A k \in ArtifactKeys : ~Writes(events[n + 1], e, k)
        BY <2>2 DEF Writes
      <3>4. UntouchedEntity(old, events, lo, n, e)
              => UntouchedEntity(old, events, lo, n + 1, e)
        BY <3>2 DEF UntouchedEntity
      <3>5. LastTouch(old, events, lo, n, e)
              => LastTouch(old, events, lo, n + 1, e)
        BY <3>2 DEF LastTouch
      <3>6. \A k \in ArtifactKeys :
              LastWrite(old.artifactStates[k], events, lo, n, e, k)
                => LastWrite(old.artifactStates[k], events, lo, n + 1, e, k)
        BY <3>3 DEF LastWrite
      <3>7. QED
        BY <2>1, <3>1, <3>4, <3>5, <3>6 DEF EntityMeans
    <2>3. CASE ev.entityKey = e
      <3>1. t.entities[e] = applyDelta(old, ev.stateDelta, ev.sequence)
        BY <1>1, <2>3 DEF ApplyEvent, updateEntity, RuntimeState, Event
      <3>2. LastTouch(t.entities[e], events, lo, n + 1, e)
        BY <2>3, <3>1 DEF LastTouch, Touches, applyDelta
      <3>3. ASSUME NEW k \in ArtifactKeys
            PROVE  LastWrite(t.entities[e].artifactStates[k],
                             events, lo, n + 1, e, k)
        <4>1. t.entities[e].artifactStates[k] =
                IF ev.stateDelta[k] # Absent THEN ev.stateDelta[k]
                                             ELSE old.artifactStates[k]
          BY <3>1 DEF applyDelta, Merge
        <4>2. CASE ev.stateDelta[k] # Absent
          BY <2>3, <4>1, <4>2 DEF LastWrite, Writes
        <4>3. CASE ev.stateDelta[k] = Absent
          <5>1. ~Writes(events[n + 1], e, k)
            BY <4>3 DEF Writes
          <5>2. LastWrite(old.artifactStates[k], events, lo, n, e, k)
            BY <2>1 DEF EntityMeans
          <5>3. QED
            BY <4>1, <4>3, <5>1, <5>2 DEF LastWrite
        <4>4. QED
          BY <4>2, <4>3
      <3>4. QED
        BY <3>2, <3>3 DEF EntityMeans
    <2>4. QED
      BY <2>2, <2>3
  <1>4. QED
    BY <1>2, <1>3 DEF Means

LEMMA MeansSame ==
  ASSUME NEW lo \in Nat, NEW hi \in Nat, NEW a, NEW b,
         \A i \in (lo + 1)..hi : a[i] = b[i], NEW s, Means(s, a, lo, hi)
  PROVE  Means(s, b, lo, hi)
  <1>1. ASSUME NEW e \in EntityKeys, EntityMeans(s.entities[e], a, lo, hi, e)
        PROVE  EntityMeans(s.entities[e], b, lo, hi, e)
    <2>1. UntouchedEntity(s.entities[e], a, lo, hi, e)
            => UntouchedEntity(s.entities[e], b, lo, hi, e)
      BY DEF UntouchedEntity
    <2>2. LastTouch(s.entities[e], a, lo, hi, e) => LastTouch(s.entities[e], b, lo, hi, e)
      BY DEF LastTouch
    <2>3. \A k \in ArtifactKeys :
            LastWrite(s.entities[e].artifactStates[k], a, lo, hi, e, k)
              => LastWrite(s.entities[e].artifactStates[k], b, lo, hi, e, k)
      BY DEF LastWrite
    <2>4. QED
      BY <1>1, <2>1, <2>2, <2>3 DEF EntityMeans
  <1>2. QED
    BY <1>1 DEF Means

LEMMA MeansAppend ==
  ASSUME NEW lo \in Nat, NEW hi \in Nat, NEW events \in Seq(Event),
         hi <= Len(events), NEW ev \in Event, NEW s, Means(s, events, lo, hi)
  PROVE  Means(s, Append(events, ev), lo, hi)
  <1>1. \A i \in (lo + 1)..hi : events[i] = Append(events, ev)[i]
    OBVIOUS
  <1>2. QED
    BY <1>1, MeansSame

LEMMA EntityMeansUnique ==
  ASSUME NEW lo \in Nat, NEW hi \in Nat, NEW e \in EntityKeys, NEW events,
         NEW a \in EntityState, NEW b \in EntityState,
         EntityMeans(a, events, lo, hi, e), EntityMeans(b, events, lo, hi, e)
  PROVE  a = b
  <1>1. a.known = b.known /\ a.lastEventSeq = b.lastEventSeq
    <2>1. CASE \A i \in (lo + 1)..hi : ~Touches(events[i], e)
      BY <2>1 DEF EntityMeans, UntouchedEntity, LastTouch
    <2>2. CASE \E i \in (lo + 1)..hi : Touches(events[i], e)
      <3>1. LastTouch(a, events, lo, hi, e) /\ LastTouch(b, events, lo, hi, e)
        BY <2>2 DEF EntityMeans, UntouchedEntity
      <3>2. PICK i \in (lo + 1)..hi :
              /\ Touches(events[i], e)
              /\ a.lastEventSeq = events[i].sequence
              /\ \A j \in (i + 1)..hi : ~Touches(events[j], e)
        BY <3>1 DEF LastTouch
      <3>3. PICK j \in (lo + 1)..hi :
              /\ Touches(events[j], e)
              /\ b.lastEventSeq = events[j].sequence
              /\ \A m \in (j + 1)..hi : ~Touches(events[m], e)
        BY <3>1 DEF LastTouch
      <3>4. i = j
        BY <3>2, <3>3
      <3>5. QED
        BY <3>1, <3>2, <3>3, <3>4 DEF LastTouch, EntityState
    <2>3. QED
      BY <2>1, <2>2
  <1>2. ASSUME NEW k \in ArtifactKeys
        PROVE  a.artifactStates[k] = b.artifactStates[k]
    <2>1. /\ LastWrite(a.artifactStates[k], events, lo, hi, e, k)
          /\ LastWrite(b.artifactStates[k], events, lo, hi, e, k)
      BY DEF EntityMeans
    <2>2. CASE \A i \in (lo + 1)..hi : ~Writes(events[i], e, k)
      BY <2>1, <2>2 DEF LastWrite
    <2>3. CASE \E i \in (lo + 1)..hi : Writes(events[i], e, k)
      <3>1. PICK i \in (lo + 1)..hi :
              /\ Writes(events[i], e, k)
              /\ a.artifactStates[k] = events[i].stateDelta[k]
              /\ \A m \in (i + 1)..hi : ~Writes(events[m], e, k)
        BY <2>1, <2>3 DEF LastWrite
      <3>2. PICK j \in (lo + 1)..hi :
              /\ Writes(events[j], e, k)
              /\ b.artifactStates[k] = events[j].stateDelta[k]
              /\ \A m \in (j + 1)..hi : ~Writes(events[m], e, k)
        BY <2>1, <2>3 DEF LastWrite
      <3>3. i = j
        BY <3>1, <3>2
      <3>4. QED
        BY <3>1, <3>2, <3>3
    <2>4. QED
      BY <2>2, <2>3
  <1>3. QED
    BY <1>1, <1>2 DEF EntityState, Delta

LEMMA MeansUnique ==
  ASSUME NEW lo \in Nat, NEW hi \in Nat, NEW events,
         NEW s \in RuntimeState, NEW t \in RuntimeState,
         Means(s, events, lo, hi), Means(t, events, lo, hi)
  PROVE  s = t
  <1>1. ASSUME NEW e \in EntityKeys
        PROVE  s.entities[e] = t.entities[e]
    BY EntityMeansUnique DEF Means, RuntimeState
  <1>2. QED
    BY <1>1 DEF Means, RuntimeState

LEMMA MeansOverlay ==
  ASSUME NEW lo \in Nat, NEW mid \in Nat, NEW hi \in Nat,
         lo <= mid, mid <= hi, NEW events,
         NEW s \in RuntimeState, NEW t \in RuntimeState,
         Means(s, events, lo, mid), Means(t, events, mid, hi)
  PROVE  Means(Overlay(s, t), events, lo, hi)
  <1>1. Overlay(s, t).version = hi - lo
    BY DEF Overlay, Means
  <1>2. ASSUME NEW e \in EntityKeys
        PROVE  EntityMeans(Overlay(s, t).entities[e], events, lo, hi, e)
    <2> DEFINE a == s.entities[e]
               b == t.entities[e]
               c == OverlayEntity(a, b)
    <2>1. /\ a \in EntityState /\ EntityMeans(a, events, lo, mid, e)
          /\ b \in EntityState /\ EntityMeans(b, events, mid, hi, e)
      BY DEF Means, RuntimeState
    <2>2. Overlay(s, t).entities[e] = c
      BY DEF Overlay
    <2>3. \/ UntouchedEntity(c, events, lo, hi, e)
          \/ LastTouch(c, events, lo, hi, e)
      <3>1. CASE LastTouch(b, events, mid, hi, e)
        <4>1. c.known /\ c.lastEventSeq = b.lastEventSeq
          BY <3>1 DEF LastTouch, OverlayEntity
        <4>2. LastTouch(c, events, lo, hi, e)
          BY <3>1, <4>1 DEF LastTouch
        <4>3. QED
          BY <4>2
      <3>2. CASE UntouchedEntity(b, events, mid, hi, e)
        <4>1. b = ZeroEntity
          BY <3>2 DEF UntouchedEntity
        <4>2. c = a
          BY <2>1, <4>1
             DEF OverlayEntity, ZeroEntity, NoArtifacts, Merge, EntityState, Delta
        <4>3. UntouchedEntity(a, events, lo, mid, e)
                => UntouchedEntity(a, events, lo, hi, e)
          BY <3>2 DEF UntouchedEntity
        <4>4. LastTouch(a, events, lo, mid, e)
                => LastTouch(a, events, lo, hi, e)
          BY <3>2 DEF UntouchedEntity, LastTouch
        <4>5. QED
          BY <2>1, <4>2, <4>3, <4>4 DEF EntityMeans
      <3>3. QED
        BY <2>1, <3>1, <3>2 DEF EntityMeans
    <2>4. ASSUME NEW k \in ArtifactKeys
          PROVE  LastWrite(c.artifactStates[k], events, lo, hi, e, k)
      <3>1. /\ LastWrite(a.artifactStates[k], events, lo, mid, e, k)
            /\ LastWrite(b.artifactStates[k], events, mid, hi, e, k)
        BY <2>1 DEF EntityMeans
      <3>2. c.artifactStates[k] = IF b.artifactStates[k] # Absent
                                  THEN b.artifactStates[k]
                                  ELSE a.artifactStates[k]
        BY DEF OverlayEntity, Merge
      <3>3. CASE \A i \in (mid + 1)..hi : ~Writes(events[i], e, k)
        BY <3>1, <3>2, <3>3 DEF LastWrite
      <3>4. CASE \E i \in (mid + 1)..hi : Writes(events[i], e, k)
        <4>1. PICK i \in (mid + 1)..hi :
                /\ Writes(events[i], e, k)
                /\ b.artifactStates[k] = events[i].stateDelta[k]
                /\ \A m \in (i + 1)..hi : ~Writes(events[m], e, k)
          BY <3>1, <3>4 DEF LastWrite
        <4>2. c.artifactStates[k] = events[i].stateDelta[k]
          BY <3>2, <4>1 DEF Writes
        <4>3. QED
          BY <4>1, <4>2 DEF LastWrite
      <3>5. QED
        BY <3>3, <3>4
    <2>5. QED
      BY <2>2, <2>3, <2>4 DEF EntityMeans
  <1>3. QED
    BY <1>1, <1>2 DEF Means

-------------------------------------------------------------------------------
(***************************************************************************)
(* What Fold returns: some state means the first n events, for every n, by *)
(* the least n for which there is none; these states satisfy the recursion *)
(* of Fold, and whatever satisfies it agrees with them.                    *)
(***************************************************************************)
LEMMA LeastCounterexample ==
  ASSUME NEW S \in SUBSET Nat, S # {}
  PROVE  \E n \in S : n = 0 \/ (n - 1 \in Nat /\ n - 1 \notin S)
  <1>1. PICK n \in S : \A m \in Nat : <<m, n>> \in OpToRel(<, Nat) => m \notin S
    BY NatLessThanWellFounded, WFMin
  <1>2. ASSUME n # 0 PROVE n - 1 \in Nat /\ n - 1 \notin S
    <2>1. n - 1 \in Nat /\ n \in Nat /\ n - 1 < n
      BY <1>2
    <2>2. <<n - 1, n>> \in OpToRel(<, Nat)
      BY <2>1 DEF OpToRel
    <2>3. QED
      BY <1>1, <2>1, <2>2
  <1>3. QED
    BY <1>2

LEMMA SomeStateMeans ==
  ASSUME NEW events \in Seq(Event)
  PROVE  \A n \in 0..Len(events) : \E s \in RuntimeState : Means(s, events, 0, n)
  <1> DEFINE Bad == {n \in 0..Len(events) : ~\E s \in RuntimeState : Means(s, events, 0, n)}
  <1>1. SUFFICES ASSUME Bad # {} PROVE FALSE
    OBVIOUS
  <1>2. Bad \in SUBSET Nat
    OBVIOUS
  <1>3. PICK n \in Bad : n = 0 \/ (n - 1 \in Nat /\ n - 1 \notin Bad)
    <2> HIDE DEF Bad
    <2>1. QED
      BY <1>1, <1>2, LeastCounterexample
  <1>4. n # 0
    BY InitialStateType, MeansEmpty
  <1>5. n \in 0..Len(events) /\ n - 1 \in 0..Len(events) /\ n - 1 \in Nat /\ n \in Nat
        /\ n - 1 < Len(events) /\ (n - 1) + 1 = n /\ events[n] \in Event
    BY <1>3, <1>4
  <1>6. PICK s \in RuntimeState : Means(s, events, 0, n - 1)
    BY <1>3, <1>4, <1>5
  <1>7. Means(ApplyEvent(s, events[n]), events, 0, n)
    BY <1>5, <1>6, MeansStep
  <1>8. ApplyEvent(s, events[n]) \in RuntimeState
    BY <1>5, <1>6, ApplyEventType
  <1>9. QED
    BY <1>7, <1>8

(* The loop of Fold, for a log of any length: the last-writer-wins state   *)
(* of all its events.                                                      *)
THEOREM FoldMeans ==
  ASSUME NEW events \in Seq(Event)
  PROVE  Fold(events) \in RuntimeState /\ Means(Fold(events), events, 0, Len(events))
  <1> DEFINE D == 0..Len(events)
             After(n) == CHOOSE s \in RuntimeState : Means(s, events, 0, n)
             Turn(g, n) == IF n = 0 THEN initialState ELSE ApplyEvent(g[n - 1], events[n])
             f == CHOOSE g : g = [n \in D |-> Turn(g, n)]
  <1>1. \A n \in D : After(n) \in RuntimeState /\ Means(After(n), events, 0, n)
    BY SomeStateMeans
  <1>2. ASSUME NEW n \in D, n # 0
        PROVE  After(n) = ApplyEvent(After(n - 1), events[n])
    <2>1. /\ n - 1 \in D /\ n - 1 \in Nat /\ n \in Nat /\ n - 1 < Len(events)
          /\ (n - 1) + 1 = n /\ events[n] \in Event
      BY <1>2
    <2>2. /\ After(n - 1) \in RuntimeState /\ Means(After(n - 1), events, 0, n - 1)
          /\ After(n) \in RuntimeState /\ Means(After(n), events, 0, n)
      BY <1>1, <2>1
    <2> HIDE DEF After
    <2>3. Means(ApplyEvent(After(n - 1), events[n]), events, 0, n)
      BY <2>1, <2>2, MeansStep
    <2>4. ApplyEvent(After(n - 1), events[n]) \in RuntimeState
      BY <2>1, <2>2, ApplyEventType
    <2>5. QED
      BY <2>1, <2>2, <2>3, <2>4, MeansUnique
  <1>3. After(0) = initialState
    <2>1. 0 \in D
      OBVIOUS
    <2>2. After(0) \in RuntimeState /\ Means(After(0), events, 0, 0)
      BY <1>1, <2>1
    <2> HIDE DEF After
    <2>3. QED
      BY <2>2, MeansUnique, MeansEmpty, InitialStateType
  <1>4. f = [n \in D |-> Turn(f, n)]
    <2> DEFINE g == [n \in D |-> After(n)]
    <2>1. \A n \in D : Turn(g, n) = After(n)
      <3> HIDE DEF After
      <3>1. \A n \in D : n # 0 => n - 1 \in D
        OBVIOUS
      <3>2. QED
        BY <1>2, <1>3, <3>1
    <2>2. g = [n \in D |-> Turn(g, n)]
      <3>1. g = [n \in D |-> After(n)]
        OBVIOUS
      <3> HIDE DEF g, Turn, After
      <3>2. QED
        BY <2>1, <3>1
    <2>3. QED
      <3> HIDE DEF g
      <3>1. QED
        BY <2>2
  <1>5. Fold(events) = f[Len(events)]
    BY DEF Fold
  <1>6. \A n \in D : f[n] = After(n)
    <2> DEFINE Bad == {n \in D : f[n] # After(n)}
    <2> HIDE DEF f, After
    <2>1. SUFFICES ASSUME Bad # {} PROVE FALSE
      OBVIOUS
    <2>2. Bad \in SUBSET Nat
      OBVIOUS
    <2>3. PICK n \in Bad : n = 0 \/ (n - 1 \in Nat /\ n - 1 \notin Bad)
      <3> HIDE DEF Bad
      <3>1. QED
        BY <2>1, <2>2, LeastCounterexample
    <2>4. n \in D /\ f[n] = Turn(f, n)
      BY <1>4
    <2>5. n # 0 => n - 1 \in D
      BY <2>4
    <2>6. QED
      BY <1>2, <1>3, <2>3, <2>4, <2>5
  <1>7. Len(events) \in D
    OBVIOUS
  <1>8. QED
    <2> HIDE DEF f, After
    <2>1. QED
      BY <1>1, <1>5, <1>6, <1>7
===============================================================================
