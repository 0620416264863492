------------------------------- MODULE LogQuery -------------------------------
(***************************************************************************)
(* What package replay promises its callers: there is an append-only event *)
(* log, a caller asks about a range of the events the log holds, and the   *)
(* answer is the last-writer-wins state of exactly that range, whatever is *)
(* appended meanwhile.  How the answer is computed is not said.            *)
(***************************************************************************)
EXTENDS ReplayFold

CONSTANTS
  Readers,   \* the goroutines that replay the log
  NoAnswer   \* a query that has not been answered yet

VARIABLES
  log,       \* the append-only event log
  query      \* the range each reader asked about and its answer

queryVars == <<log, query>>

NoQuery == [phase |-> "idle", lo |-> 0, hi |-> 0, answer |-> NoAnswer]

QInit ==
  /\ log = << >>
  /\ query = [r \in Readers |-> NoQuery]

QAppend ==
  /\ \E ev \in Events : log' = Append(log, ev)
  /\ UNCHANGED query

Ask(r) ==
  /\ query[r].phase # "asked"
  /\ \E lo, hi \in 0..Len(log) :
       /\ lo <= hi
       /\ query' = [query EXCEPT ![r] =
            [phase |-> "asked", lo |-> lo, hi |-> hi, answer |-> NoAnswer]]
  /\ UNCHANGED log

Answer(r) ==
  /\ query[r].phase = "asked"
  /\ query' = [query EXCEPT ![r] =
       [phase |-> "answered", lo |-> query[r].lo, hi |-> query[r].hi,
        answer |-> query'[r].answer]]
  /\ Means(query'[r].answer, log, query[r].lo, query[r].hi)
  /\ UNCHANGED log

(* An answered reader folds in the next event of the log. *)
Extend(r) ==
  /\ query[r].phase = "answered"
  /\ query[r].hi < Len(log)
  /\ query' = [query EXCEPT ![r] =
       [phase |-> "answered", lo |-> query[r].lo, hi |-> query[r].hi + 1,
        answer |-> query'[r].answer]]
  /\ Means(query'[r].answer, log, query[r].lo, query[r].hi + 1)
  /\ UNCHANGED log

QNext == QAppend \/ \E r \in Readers : Ask(r) \/ Answer(r) \/ Extend(r)

QSpec == QInit /\ [][QNext]_queryVars
===============================================================================
