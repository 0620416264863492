----------------------------- MODULE ReplayProofs -----------------------------
(***************************************************************************)
(* Proofs about Replay, for every set of events, readers and indices and   *)
(* every bound: types, the loop invariant of Fold, determinism, cursor     *)
(* composition and the refinement of LogQuery.                             *)
(***************************************************************************)
EXTENDS Replay, ReplayFoldProofs

(* A state is typed by its parts; every operator of ReplayFold keeps it.   *)
LEMMA SliceType ==
  ASSUME log \in Seq(Events)
  PROVE  /\ FullSlice[1] \in Nat /\ FullSlice[2] \in Nat
         /\ FullSlice[1] <= FullSlice[2] /\ FullSlice[2] <= Len(log)
         /\ \A i \in Int :
              /\ CursorSlice(i)[1] \in Nat /\ CursorSlice(i)[2] \in Nat
              /\ CursorSlice(i)[1] <= CursorSlice(i)[2]
              /\ CursorSlice(i)[2] <= Len(log)
         /\ \A i, j \in Int :
              /\ RangeSlice(i, j)[1] \in Nat /\ RangeSlice(i, j)[2] \in Nat
              /\ RangeSlice(i, j)[1] <= RangeSlice(i, j)[2]
              /\ RangeSlice(i, j)[2] <= Len(log)
  <1> Len(log) \in Nat
    OBVIOUS
  <1>1. /\ FullSlice[1] \in Nat /\ FullSlice[2] \in Nat
        /\ FullSlice[1] <= FullSlice[2] /\ FullSlice[2] <= Len(log)
    BY DEF FullSlice
  <1>2. ASSUME NEW i \in Int
        PROVE  /\ CursorSlice(i)[1] \in Nat /\ CursorSlice(i)[2] \in Nat
               /\ CursorSlice(i)[1] <= CursorSlice(i)[2]
               /\ CursorSlice(i)[2] <= Len(log)
    BY DEF CursorSlice, FullSlice, EmptySlice
  <1>3. ASSUME NEW i \in Int, NEW j \in Int
        PROVE  /\ RangeSlice(i, j)[1] \in Nat /\ RangeSlice(i, j)[2] \in Nat
               /\ RangeSlice(i, j)[1] <= RangeSlice(i, j)[2]
               /\ RangeSlice(i, j)[2] <= Len(log)
    BY DEF RangeSlice, EmptySlice
  <1>4. QED
    BY <1>1, <1>2, <1>3

-------------------------------------------------------------------------------
(* The inductive invariant: types and the loop invariant of every Fold.    *)
IInv == TypeOK /\ FoldIsLastWrite

LEMMA InitIInv == Init => IInv
  <1> SUFFICES ASSUME Init PROVE IInv
    OBVIOUS
  <1>1. NewJob \in Job
    BY InitialStateType DEF NewJob, Job
  <1>2. TypeOK
    BY <1>1 DEF Init, TypeOK
  <1>3. Means(initialState, log, 0, 0)
    BY MeansEmpty
  <1>4. FoldIsLastWrite
    BY <1>3 DEF Init, FoldIsLastWrite, NewJob
  <1>5. QED
    BY <1>2, <1>4 DEF IInv

LEMMA BeginFoldIInv ==
  ASSUME IInv, NEW r \in Readers, NEW slice,
         slice[1] \in Nat, slice[2] \in Nat,
         slice[1] <= slice[2], slice[2] <= Len(log),
         BeginFold(r, slice)
  PROVE  IInv'
  <1>1. TypeOK'
    BY InitialStateType DEF IInv, TypeOK, BeginFold, Job
  <1>2. Means(initialState, log, slice[1], slice[1])
    BY MeansEmpty
  <1>3. FoldIsLastWrite'
    BY <1>2 DEF IInv, TypeOK, FoldIsLastWrite, BeginFold, Job
  <1>4. QED
    BY <1>1, <1>3 DEF IInv

LEMMA JobUpdate ==
  ASSUME NEW j \in Job, NEW p \in Nat, NEW h \in Nat, NEW t \in RuntimeState
  PROVE  /\ [j EXCEPT !.pos = p, !.state = t] \in Job
         /\ [j EXCEPT !.pos = p, !.hi = h, !.state = t] \in Job
  BY DEF Job

LEMMA NextIInv == IInv /\ [Next]_vars => IInv'
  <1> SUFFICES ASSUME IInv, [Next]_vars PROVE IInv'
    OBVIOUS
  <1> USE DEF IInv
  <1>1. ASSUME NEW ev \in Events, AppendEvent(ev) PROVE IInv'
    <2>1. TypeOK'
      BY <1>1 DEF TypeOK, AppendEvent
    <2>2. ASSUME NEW r \in Readers
          PROVE  Means(job[r].state, log', job[r].lo, job[r].pos)
      <3>1. /\ job[r].lo \in Nat /\ job[r].pos \in Nat
            /\ job[r].pos <= Len(log)
            /\ Means(job[r].state, log, job[r].lo, job[r].pos)
        BY DEF TypeOK, Job, FoldIsLastWrite
      <3>2. QED
        BY <1>1, <3>1, MeansAppend, EventsTyped, ReplayConstants DEF TypeOK, AppendEvent
    <2>3. FoldIsLastWrite'
      BY <1>1, <2>2 DEF TypeOK, Job, FoldIsLastWrite, AppendEvent
    <2>4. QED
      BY <2>1, <2>3
  <1>2. ASSUME NEW r \in Readers, ReplayAll(r) PROVE IInv'
    BY <1>2, SliceType, BeginFoldIInv DEF TypeOK, ReplayAll
  <1>3. ASSUME NEW r \in Readers, ReplayFromCursor(r) PROVE IInv'
    BY <1>3, SliceType, BeginFoldIInv DEF TypeOK, ReplayFromCursor
  <1>4. ASSUME NEW r \in Readers, NEW start \in Indices, NEW end \in Indices,
               ReplayRange(r, start, end)
        PROVE  IInv'
    BY <1>4, SliceType, BeginFoldIInv, ReaderConstants DEF TypeOK, ReplayRange
  <1>5. ASSUME NEW r \in Readers, FoldStep(r) PROVE IInv'
    <2> DEFINE n == job[r].pos
               t == ApplyEvent(job[r].state, log[n + 1])
    <2>1. /\ job[r].lo \in Nat /\ n \in Nat /\ job[r].hi \in Nat
          /\ job[r].lo <= n /\ n < job[r].hi /\ job[r].hi <= Len(log)
          /\ job[r].state \in RuntimeState
          /\ Means(job[r].state, log, job[r].lo, n)
      BY <1>5 DEF TypeOK, Job, FoldIsLastWrite, FoldStep
    <2>2. t \in RuntimeState
      BY <2>1, ApplyEventType, ReplayConstants DEF TypeOK
    <2>3. Means(t, log, job[r].lo, n + 1)
      BY <2>1, MeansStep, EventsTyped DEF TypeOK
    <2>4. job' = [job EXCEPT ![r] = [job[r] EXCEPT !.pos = n + 1, !.state = t]]
      BY <1>5 DEF FoldStep, TypeOK, Job
    <2>5. TypeOK'
      <3>1. [job[r] EXCEPT !.pos = n + 1, !.state = t] \in Job
        <4>1. job[r] \in Job /\ n + 1 \in Nat
          BY <2>1 DEF TypeOK
        <4>2. QED
          BY <2>2, <4>1, JobUpdate
      <3>2. QED
        BY <1>5, <2>4, <3>1 DEF TypeOK, FoldStep
    <2>6. FoldIsLastWrite'
      BY <1>5, <2>1, <2>3, <2>4 DEF TypeOK, Job, FoldIsLastWrite, FoldStep
    <2>7. QED
      BY <2>5, <2>6
  <1>6. ASSUME NEW r \in Readers, FoldReturn(r) PROVE IInv'
    <2>1. TypeOK'
      BY <1>6 DEF TypeOK, Job, FoldReturn
    <2>2. FoldIsLastWrite'
      BY <1>6 DEF TypeOK, Job, FoldIsLastWrite, FoldReturn
    <2>3. QED
      BY <2>1, <2>2
  <1>7. ASSUME NEW r \in Readers, NEW i \in Indices,
               CursorLiteral(r, i) \/ CursorJump(r, i)
        PROVE  IInv'
    <2>1. TypeOK'
      BY <1>7, ReaderConstants DEF TypeOK, CursorLiteral, CursorJump
    <2>2. FoldIsLastWrite'
      BY <1>7 DEF FoldIsLastWrite, CursorLiteral, CursorJump
    <2>3. QED
      BY <2>1, <2>2
  <1>8. ASSUME NEW r \in Readers, CursorStep(r) PROVE IInv'
    <2>1. TypeOK'
      BY <1>8 DEF TypeOK, CursorStep
    <2>2. FoldIsLastWrite'
      BY <1>8 DEF FoldIsLastWrite, CursorStep
    <2>3. QED
      BY <2>1, <2>2
  <1>9. ASSUME NEW r \in Readers, Follow(r) PROVE IInv'
    <2> DEFINE n == job[r].pos
               t == ApplyEvent(job[r].state, log[n + 1])
    <2>1. /\ job[r].lo \in Nat /\ n \in Nat /\ job[r].hi = n /\ cursor[r] = n
          /\ job[r].lo <= n /\ n < Len(log)
          /\ job[r].state \in RuntimeState
          /\ Means(job[r].state, log, job[r].lo, n)
      BY <1>9 DEF TypeOK, Job, FoldIsLastWrite, Follow, CursorEventOk
    <2>2. t \in RuntimeState
      BY <2>1, ApplyEventType, ReplayConstants DEF TypeOK
    <2>3. Means(t, log, job[r].lo, n + 1)
      BY <2>1, MeansStep, EventsTyped DEF TypeOK
    <2>4. job' = [job EXCEPT ![r] =
                    [job[r] EXCEPT !.pos = n + 1, !.hi = n + 1, !.state = t]]
      BY <1>9, <2>1 DEF Follow, TypeOK, Job
    <2>5. TypeOK'
      BY <1>9, <2>1, <2>2, <2>4 DEF TypeOK, Job, Follow
    <2>6. FoldIsLastWrite'
      BY <1>9, <2>1, <2>3, <2>4 DEF TypeOK, Job, FoldIsLastWrite, Follow
    <2>7. QED
      BY <2>5, <2>6
  <1>10. CASE UNCHANGED vars
    BY <1>10 DEF vars, TypeOK, FoldIsLastWrite
  <1>11. QED
    BY <1>1, <1>2, <1>3, <1>4, <1>5, <1>6, <1>7, <1>8, <1>9, <1>10
       DEF Next, Reading

(* The variables of Replay keep their types: the log stays a sequence of   *)
(* events and every state reached by the loop of Fold is a RuntimeState.   *)
THEOREM TypeCorrect == Spec => []TypeOK
  <1>1. IInv => TypeOK
    BY DEF IInv
  <1>2. QED
    BY InitIInv, NextIInv, <1>1, PTL DEF Spec

(* Fold computes the last-writer-wins state of its slice (REPLAY_SPEC R1,  *)
(* R5, R6), whatever other readers and the appender do meanwhile.          *)
THEOREM FoldCorrect == Spec => []FoldIsLastWrite
  <1>1. IInv => FoldIsLastWrite
    BY DEF IInv
  <1>2. QED
    BY InitIInv, NextIInv, <1>1, PTL DEF Spec

(* REPLAY_SPEC R4: ReplayFromCursor picks up exactly where a replay ended. *)
THEOREM CompositionCorrect == Spec => []CursorComposition
  <1>1. IInv => CursorComposition
    <2> SUFFICES ASSUME IInv, NEW a \in Readers, NEW b \in Readers,
                        job[a].phase = "done", job[b].phase = "done",
                        job[a].hi = job[b].lo
                 PROVE  Means(Overlay(job[a].state, job[b].state),
                              log, job[a].lo, job[b].hi)
      BY DEF CursorComposition
    <2>1. /\ job[a].lo \in Nat /\ job[a].hi \in Nat /\ job[b].hi \in Nat
          /\ job[a].state \in RuntimeState /\ job[b].state \in RuntimeState
      BY DEF IInv, TypeOK, Job
    <2>2. /\ job[a].lo <= job[a].hi /\ job[b].lo <= job[b].hi
          /\ Means(job[a].state, log, job[a].lo, job[a].hi)
          /\ Means(job[b].state, log, job[b].lo, job[b].hi)
      BY DEF IInv, FoldIsLastWrite
    <2>3. QED
      BY <2>1, <2>2, MeansOverlay
  <1>2. QED
    BY InitIInv, NextIInv, <1>1, PTL DEF Spec

(***************************************************************************)
(* REPLAY_SPEC R1 and R2: two replays of the same range return the same    *)
(* state, by whichever entry point, reader and time they were made.        *)
(***************************************************************************)
SameRangeSameState ==
  \A a, b \in Readers :
    /\ job[a].phase = "done" /\ job[b].phase = "done"
    /\ job[a].lo = job[b].lo /\ job[a].hi = job[b].hi
    => job[a].state = job[b].state

(* Replay is deterministic and idempotent: see SameRangeSameState.         *)
THEOREM ReplayDeterminism == Spec => []SameRangeSameState
  <1>1. IInv => SameRangeSameState
    <2> SUFFICES ASSUME IInv, NEW a \in Readers, NEW b \in Readers,
                        job[a].phase = "done", job[b].phase = "done",
                        job[a].lo = job[b].lo, job[a].hi = job[b].hi
                 PROVE  job[a].state = job[b].state
      BY DEF SameRangeSameState
    <2>1. /\ job[a].lo \in Nat /\ job[a].hi \in Nat
          /\ job[a].state \in RuntimeState /\ job[b].state \in RuntimeState
      BY DEF IInv, TypeOK, Job
    <2>2. /\ Means(job[a].state, log, job[a].lo, job[a].hi)
          /\ Means(job[b].state, log, job[a].lo, job[a].hi)
      BY DEF IInv, FoldIsLastWrite
    <2>3. QED
      BY <2>1, <2>2, MeansUnique
  <1>2. QED
    BY InitIInv, NextIInv, <1>1, PTL DEF Spec

-------------------------------------------------------------------------------
(***************************************************************************)
(* The refinement: a step of Replay is a step of LogQuery or changes       *)
(* nothing that LogQuery sees.                                             *)
(***************************************************************************)
AbsQuery == [r \in Readers |-> QueryOf(r)]

LEMMA AbstractMeans ==
  ASSUME NEW s, NEW events, NEW lo, NEW hi, Means(s, events, lo, hi)
  PROVE  Abstract!Means(s, events, lo, hi)
  <1>1. ASSUME NEW e \in EntityKeys, EntityMeans(s.entities[e], events, lo, hi, e)
        PROVE  Abstract!EntityMeans(s.entities[e], events, lo, hi, e)
    BY <1>1
       DEF EntityMeans, UntouchedEntity, LastTouch, LastWrite, Touches, Writes,
           ZeroEntity, NoArtifacts, Abstract!EntityMeans,
           Abstract!UntouchedEntity, Abstract!LastTouch, Abstract!LastWrite,
           Abstract!Touches, Abstract!Writes, Abstract!ZeroEntity,
           Abstract!NoArtifacts
  <1>2. QED
    BY <1>1 DEF Means, Abstract!Means

(* A query that changes at one reader only is an EXCEPT of the old ones.   *)
LEMMA QueryUpdate ==
  ASSUME NEW r \in Readers, NEW q, AbsQuery'[r] = q,
         \A p \in Readers : p # r => AbsQuery'[p] = AbsQuery[p]
  PROVE  AbsQuery' = [AbsQuery EXCEPT ![r] = q]
  <1>1. AbsQuery = [p \in Readers |-> AbsQuery[p]]
    BY DEF AbsQuery
  <1>2. AbsQuery' = [p \in Readers |-> AbsQuery'[p]]
    BY DEF AbsQuery
  <1>3. QED
    BY <1>1, <1>2

LEMMA InitRefines == Init => Abstract!QInit
  BY DEF Init, NewJob, QueryOf, Abstract!QInit, Abstract!NoQuery

LEMMA BeginFoldRefines ==
  ASSUME IInv, NEW r \in Readers, NEW slice,
         slice[1] \in Nat, slice[2] \in Nat,
         slice[1] <= slice[2], slice[2] <= Len(log),
         BeginFold(r, slice)
  PROVE  Abstract!Ask(r)
  <1>1. /\ Len(log) \in Nat
        /\ slice[1] \in 0..Len(log) /\ slice[2] \in 0..Len(log)
    BY DEF IInv, TypeOK
  <1>2. job[r].phase \in {"idle", "done"}
    BY DEF IInv, TypeOK, Job, BeginFold
  <1>3. AbsQuery[r].phase # "asked"
    BY <1>2 DEF AbsQuery, QueryOf
  <1>4. AbsQuery' = [AbsQuery EXCEPT ![r] =
          [phase |-> "asked", lo |-> slice[1], hi |-> slice[2],
           answer |-> NoAnswer]]
    BY DEF AbsQuery, QueryOf, BeginFold, IInv, TypeOK
  <1>5. QED
    BY <1>1, <1>3, <1>4 DEF Abstract!Ask, AbsQuery, BeginFold

LEMMA StepRefines == IInv /\ [Next]_vars => [Abstract!QNext]_Abstract!queryVars
  <1> SUFFICES ASSUME IInv, [Next]_vars
               PROVE  [Abstract!QNext]_Abstract!queryVars
    OBVIOUS
  <1>1. ASSUME NEW ev \in Events, AppendEvent(ev)
        PROVE  Abstract!QAppend
    BY <1>1 DEF AppendEvent, Abstract!QAppend, QueryOf
  <1>2. ASSUME NEW r \in Readers, ReplayAll(r)
        PROVE  Abstract!Ask(r)
    BY <1>2, SliceType, BeginFoldRefines DEF IInv, TypeOK, ReplayAll
  <1>3. ASSUME NEW r \in Readers, ReplayFromCursor(r)
        PROVE  Abstract!Ask(r)
    BY <1>3, SliceType, BeginFoldRefines DEF IInv, TypeOK, ReplayFromCursor
  <1>4. ASSUME NEW r \in Readers, NEW start \in Indices, NEW end \in Indices,
               ReplayRange(r, start, end)
        PROVE  Abstract!Ask(r)
    BY <1>4, SliceType, BeginFoldRefines, ReaderConstants
       DEF IInv, TypeOK, ReplayRange
  <1>5. ASSUME NEW r \in Readers, FoldStep(r)
        PROVE  UNCHANGED <<log, AbsQuery>>
    BY <1>5 DEF IInv, TypeOK, Job, FoldStep, AbsQuery, QueryOf
  <1>6. ASSUME NEW r \in Readers, FoldReturn(r)
        PROVE  Abstract!Answer(r)
    <2>1. /\ job[r].phase = "folding" /\ job[r].pos = job[r].hi
          /\ Means(job[r].state, log, job[r].lo, job[r].hi)
      BY <1>6 DEF FoldReturn, IInv, FoldIsLastWrite
    <2>2. AbsQuery[r] = [phase |-> "asked", lo |-> job[r].lo,
                         hi |-> job[r].hi, answer |-> NoAnswer]
      BY <2>1 DEF AbsQuery, QueryOf
    <2>3. AbsQuery'[r] = [phase |-> "answered", lo |-> job[r].lo,
                          hi |-> job[r].hi, answer |-> job[r].state]
      BY <1>6 DEF AbsQuery, QueryOf, FoldReturn, IInv, TypeOK, Job
    <2>4. \A q \in Readers : q # r => AbsQuery'[q] = AbsQuery[q]
      BY <1>6 DEF AbsQuery, QueryOf, FoldReturn, IInv, TypeOK
    <2>5. AbsQuery' = [AbsQuery EXCEPT ![r] = AbsQuery'[r]]
      BY <2>4, QueryUpdate
    <2>6. AbsQuery'[r] =
            [phase |-> "answered", lo |-> AbsQuery[r].lo,
             hi |-> AbsQuery[r].hi, answer |-> AbsQuery'[r].answer]
      BY <2>2, <2>3
    <2>7. Abstract!Means(AbsQuery'[r].answer, log,
                         AbsQuery[r].lo, AbsQuery[r].hi)
      BY <2>1, <2>2, <2>3, AbstractMeans
    <2>8. AbsQuery[r].phase = "asked" /\ UNCHANGED log
      BY <1>6, <2>2 DEF FoldReturn
    <2>9. QED
      BY <2>5, <2>6, <2>7, <2>8 DEF Abstract!Answer, AbsQuery
  <1>7. ASSUME NEW r \in Readers, NEW i \in Indices,
               CursorLiteral(r, i) \/ CursorJump(r, i)
        PROVE  UNCHANGED <<log, AbsQuery>>
    BY <1>7 DEF CursorLiteral, CursorJump, AbsQuery, QueryOf
  <1>8. ASSUME NEW r \in Readers, CursorStep(r)
        PROVE  UNCHANGED <<log, AbsQuery>>
    BY <1>8 DEF CursorStep, AbsQuery, QueryOf
  <1>9. ASSUME NEW r \in Readers, Follow(r)
        PROVE  Abstract!Extend(r)
    <2> DEFINE n == job[r].hi
               t == ApplyEvent(job[r].state, log[n + 1])
    <2>1. /\ job[r].phase = "done" /\ n \in Nat /\ n < Len(log)
          /\ job[r].pos = n /\ cursor[r] = n
          /\ job[r].lo \in Nat /\ job[r].lo <= n
          /\ job[r].state \in RuntimeState
          /\ Means(job[r].state, log, job[r].lo, n)
      BY <1>9 DEF Follow, CursorEventOk, IInv, TypeOK, Job, FoldIsLastWrite
    <2>2. Means(t, log, job[r].lo, n + 1)
      BY <2>1, MeansStep, EventsTyped DEF IInv, TypeOK
    <2>3. AbsQuery[r] = [phase |-> "answered", lo |-> job[r].lo,
                         hi |-> n, answer |-> job[r].state]
      BY <2>1 DEF AbsQuery, QueryOf
    <2>4. /\ job'[r].phase = "done" /\ job'[r].lo = job[r].lo
          /\ job'[r].hi = n + 1 /\ job'[r].state = t
      BY <1>9, <2>1 DEF Follow, IInv, TypeOK, Job
    <2>5. AbsQuery'[r] = [phase |-> "answered", lo |-> job[r].lo,
                          hi |-> n + 1, answer |-> t]
      BY <2>4 DEF AbsQuery, QueryOf
    <2>6. \A q \in Readers : q # r => AbsQuery'[q] = AbsQuery[q]
      BY <1>9 DEF AbsQuery, QueryOf, Follow, IInv, TypeOK
    <2>7. AbsQuery' = [AbsQuery EXCEPT ![r] = AbsQuery'[r]]
      BY <2>6, QueryUpdate
    <2>8. AbsQuery'[r] =
            [phase |-> "answered", lo |-> AbsQuery[r].lo,
             hi |-> AbsQuery[r].hi + 1, answer |-> AbsQuery'[r].answer]
      BY <2>3, <2>5
    <2>9. Abstract!Means(AbsQuery'[r].answer, log,
                         AbsQuery[r].lo, AbsQuery[r].hi + 1)
      BY <2>2, <2>3, <2>5, AbstractMeans
    <2>10. /\ AbsQuery[r].phase = "answered" /\ AbsQuery[r].hi < Len(log)
           /\ UNCHANGED log
      BY <1>9, <2>1, <2>3 DEF Follow
    <2>11. QED
      BY <2>7, <2>8, <2>9, <2>10 DEF Abstract!Extend, AbsQuery
  <1>10. UNCHANGED <<log, AbsQuery>> => UNCHANGED Abstract!queryVars
    BY DEF Abstract!queryVars, AbsQuery
  <1>11. \/ Abstract!QNext
         \/ UNCHANGED <<log, AbsQuery>>
    <2>1. CASE UNCHANGED vars
      BY <2>1 DEF vars, AbsQuery, QueryOf
    <2>2. CASE Next
      BY <2>2, <1>1, <1>2, <1>3, <1>4, <1>5, <1>6, <1>7, <1>8, <1>9
         DEF Next, Reading, Abstract!QNext
    <2>3. QED
      BY <2>1, <2>2
  <1>12. QED
    BY <1>10, <1>11

(* The readers of package replay implement the abstract query service.     *)
THEOREM Refinement == Spec => ImplementsLogQuery
  <1>1. QED
    BY InitIInv, NextIInv, InitRefines, StepRefines, PTL
       DEF Spec, ImplementsLogQuery, Abstract!QSpec
===============================================================================
