------------------------------ MODULE MCSnapshot ------------------------------
(* Two entities, two keys, one scalar besides the written one. *)
EXTENDS Snapshot, TLC

CONSTANTS x, y, k1, k2, v1, v2, b1, c1, c2

Put(w1, w2) == (k1 :> w1) @@ (k2 :> w2)

(* An entity with a nested object, the same entity touched and not changed, *)
(* another entity whose event has no timestamp.                             *)
MCEvents ==
  { [entityKey |-> x, sequence |-> 1, timestamp |-> 7, stateDelta |-> Put(b1, Absent)],
    [entityKey |-> x, sequence |-> 1, timestamp |-> 7, stateDelta |-> Put(Absent, Absent)],
    [entityKey |-> y, sequence |-> 1, timestamp |-> 0, stateDelta |-> Put(v2, v1)] }

(* The current build, one whose collapse algorithm moved on, a zero value. *)
MCLocks == { <<1, 1, 1>>, <<1, 2, 1>>, <<0, 0, 0>> }
===============================================================================
