-------------------------------- MODULE Replay --------------------------------
(***************************************************************************)
(* Package replay as its callers run it: an append-only log of CER events  *)
(* and goroutines that call Replay, ReplayFromCursor and ReplayRange on the*)
(* log while it grows, one iteration of the loop of Fold at a time.  A call*)
(* works on the slice header it was given, so the bounds are fixed when it *)
(* starts; events appended later are beyond them.                          *)
(***************************************************************************)
EXTENDS ReplayFold

CONSTANTS
  Readers,    \* the goroutines that replay the log
  NoAnswer,   \* see LogQuery
  Indices,    \* the integers callers pass as cursor index, start or end
  MaxLog      \* bound on the length of the log

ASSUME ReaderConstants == Indices \subseteq Int /\ MaxLog \in Nat

VARIABLES
  log,        \* the append-only event log
  cursor,     \* cursor[r]: the Index of reader r's Cursor
  job         \* job[r]: reader r's call: its slice, loop position and state

vars == <<log, cursor, job>>

Job == [phase: {"idle", "folding", "done"},
        lo: Nat, pos: Nat, hi: Nat, state: RuntimeState]

NewJob == [phase |-> "idle", lo |-> 0, pos |-> 0, hi |-> 0,
           state |-> initialState]

(* The loop invariant of Fold, the ranges and the types. *)
TypeOK ==
  /\ log \in Seq(Events)
  /\ cursor \in [Readers -> Int]
  /\ job \in [Readers -> Job]

-------------------------------------------------------------------------------
Init ==
  /\ log = << >>
  /\ cursor = [r \in Readers |-> 0]
  /\ job = [r \in Readers |-> NewJob]

AppendEvent(ev) ==
  /\ Len(log) < MaxLog
  /\ log' = Append(log, ev)
  /\ UNCHANGED <<cursor, job>>

(* Mutant of BeginFold: the fold goes on from the state of the last one.   *)
BeginFoldDirty(r, slice) ==
  /\ job[r].phase # "folding"
  /\ job' = [job EXCEPT ![r] =
       [phase |-> "folding", lo |-> slice[1], pos |-> slice[1],
        hi |-> slice[2], state |-> job[r].state]]
  /\ UNCHANGED <<log, cursor>>

(* Fold(events[lo:hi]) is called: initialState, before the first event. *)
BeginFold(r, slice) ==
  /\ job[r].phase # "folding"
  /\ job' = [job EXCEPT ![r] =
       [phase |-> "folding", lo |-> slice[1], pos |-> slice[1],
        hi |-> slice[2], state |-> initialState]]
  /\ UNCHANGED <<log, cursor>>

FullSlice == <<0, Len(log)>>

EmptySlice == <<Len(log), Len(log)>>

CursorSlice(i) ==
  IF i < 0 THEN FullSlice
  ELSE IF i >= Len(log) THEN EmptySlice
  ELSE <<i, Len(log)>>

RangeSlice(start, end) ==
  LET s == IF start < 0 THEN 0 ELSE start
      e == IF end > Len(log) THEN Len(log) ELSE end
  IN  IF s >= e THEN EmptySlice ELSE <<s, e>>

ReplayAll(r) == BeginFold(r, FullSlice)

ReplayFromCursor(r) == BeginFold(r, CursorSlice(cursor[r]))

ReplayRange(r, start, end) == BeginFold(r, RangeSlice(start, end))

(* One iteration of the loop of Fold. *)
FoldStep(r) ==
  /\ job[r].phase = "folding"
  /\ job[r].pos < job[r].hi
  /\ job' = [job EXCEPT ![r].pos = @ + 1,
                        ![r].state = ApplyEvent(@, log[job[r].pos + 1])]
  /\ UNCHANGED <<log, cursor>>

(* Mutant of FoldReturn: the loop runs to the live end of the log.         *)
FoldReturnAtLogEnd(r) ==
  /\ job[r].phase = "folding"
  /\ job[r].pos = Len(log)
  /\ job' = [job EXCEPT ![r].phase = "done"]
  /\ UNCHANGED <<log, cursor>>

FoldReturn(r) ==
  /\ job[r].phase = "folding"
  /\ job[r].pos = job[r].hi
  /\ job' = [job EXCEPT ![r].phase = "done"]
  /\ UNCHANGED <<log, cursor>>

(* Cursor values: a composite literal, Jump and Step. *)
CursorLiteral(r, i) ==
  /\ cursor' = [cursor EXCEPT ![r] = i]
  /\ UNCHANGED <<log, job>>

CursorJump(r, i) ==
  /\ cursor' = [cursor EXCEPT ![r] = IF i < 0 THEN 0 ELSE i]
  /\ UNCHANGED <<log, job>>

CursorStep(r) ==
  /\ cursor[r] <= MaxLog
  /\ cursor' = [cursor EXCEPT ![r] = @ + 1]
  /\ UNCHANGED <<log, job>>

CursorEventOk(i) == 0 <= i /\ i < Len(log)

(* A reader whose replay has returned follows the log: it takes the event  *)
(* under its cursor, applies it to the state it has and steps the cursor.  *)
Follow(r) ==
  /\ job[r].phase = "done"
  /\ cursor[r] = job[r].hi
  /\ CursorEventOk(cursor[r])
  /\ job' = [job EXCEPT ![r].pos = @ + 1,
                        ![r].hi = @ + 1,
                        ![r].state = ApplyEvent(@, log[cursor[r] + 1])]
  /\ cursor' = [cursor EXCEPT ![r] = @ + 1]
  /\ UNCHANGED log

Reading(r) ==
  \/ ReplayAll(r)
  \/ ReplayFromCursor(r)
  \/ \E start, end \in Indices : ReplayRange(r, start, end)
  \/ FoldStep(r)
  \/ FoldReturn(r)
  \/ \E i \in Indices : CursorLiteral(r, i) \/ CursorJump(r, i)
  \/ CursorStep(r)
  \/ Follow(r)

Next ==
  \/ \E ev \in Events : AppendEvent(ev)
  \/ \E r \in Readers : Reading(r)

Spec == Init /\ [][Next]_vars

(* A loop that has been entered runs to its end. *)
FairSpec == Spec /\ \A r \in Readers : WF_vars(FoldStep(r) \/ FoldReturn(r))

-------------------------------------------------------------------------------
(***************************************************************************)
(* Loop invariant of Fold (REPLAY_SPEC R1, R5, R6): at every iteration of  *)
(* every concurrent replay, the state reached is the last-writer-wins state*)
(* of the events consumed so far, entity by entity and key by key, and the *)
(* slice stays inside the log, however the log grows meanwhile.            *)
(***************************************************************************)
FoldIsLastWrite ==
  \A r \in Readers :
    /\ job[r].lo <= job[r].pos /\ job[r].pos <= job[r].hi
    /\ job[r].hi <= Len(log)
    /\ job[r].phase = "done" => job[r].pos = job[r].hi
    /\ Means(job[r].state, log, job[r].lo, job[r].pos)

(***************************************************************************)
(* REPLAY_SPEC R4, cursor composition: a replay of a range and a replay    *)
(* that starts where it ended add up to the replay of the whole, also when *)
(* the two were made by different readers at different times.              *)
(***************************************************************************)
CursorComposition ==
  \A a, b \in Readers :
    job[a].phase = "done" /\ job[b].phase = "done" /\ job[a].hi = job[b].lo
      => Means(Overlay(job[a].state, job[b].state),
               log, job[a].lo, job[b].hi)

(***************************************************************************)
(* The readers implement the abstract service: LogQuery sees a query only  *)
(* when the call starts, when it returns and when a follower moves on.     *)
(***************************************************************************)
QueryOf(r) ==
  [phase |-> CASE job[r].phase = "idle" -> "idle"
               [] job[r].phase = "folding" -> "asked"
               [] job[r].phase = "done" -> "answered",
   lo |-> job[r].lo,
   hi |-> job[r].hi,
   answer |-> IF job[r].phase = "done" THEN job[r].state ELSE NoAnswer]

Abstract == INSTANCE LogQuery WITH query <- [r \in Readers |-> QueryOf(r)]

ImplementsLogQuery == Abstract!QSpec

(***************************************************************************)
(* Every replay that starts returns, although the log may keep growing     *)
(* while it runs: its bound was fixed at the call.                         *)
(***************************************************************************)
ReplayReturns ==
  \A r \in Readers : job[r].phase = "folding" ~> job[r].phase = "done"
===============================================================================
