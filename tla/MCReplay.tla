------------------------------- MODULE MCReplay -------------------------------
(* Two readers and a log of two events out of three: one event that writes *)
(* both keys, one of the same entity that overwrites one key with a smaller*)
(* sequence number, one of another entity that writes nothing.  A range of *)
(* two events is cut in the middle, so that every case of the fold, of the *)
(* clamping and of the overlay occurs; the theorems cover longer logs.     *)
EXTENDS Replay, TLC

CONSTANTS x, y, status, color, v1, v2

Put(k1, w1, k2, w2) == (k1 :> w1) @@ (k2 :> w2)

MCEvents ==
  { [entityKey |-> x, sequence |-> 2, timestamp |-> 0,
      stateDelta |-> Put(status, v1, color, v1)],
    [entityKey |-> x, sequence |-> 1, timestamp |-> 0,
      stateDelta |-> Put(status, v2, color, Absent)],
    [entityKey |-> y, sequence |-> 3, timestamp |-> 0,
      stateDelta |-> Put(status, Absent, color, Absent)] }

(* Below, inside and, while the log is empty, beyond its bounds. *)
MCIndices == {-1, 1}
===============================================================================
