------------------------------- MODULE MCRuntime ------------------------------
(* Two executions, one hash in two spellings, another hash and a string    *)
(* that is none.  A status of each kind, and arguments that make a receipt *)
(* invalid in one field.                                                   *)
EXTENDS Runtime, TLC

MCRequestID == ("x" :> "r1") @@ ("y" :> "r2")

MCRaw == ("ab" :> 171) @@ ("AB" :> 171) @@ ("cd" :> 205) @@ ("zz" :> 0)

Arg(st, h, f, d, v) ==
  [status |-> st, ccnfHash |-> h, failure |-> f, durationMs |-> d,
   ccnfVersion |-> v]

MCArguments ==
  { Arg("SUCCESS", "ab", "nil", 0, 1), Arg("SUCCESS", "ab", "nil", 5, 2),
    Arg("SUCCESS", "", "nil", 0, 1), Arg("SUCCESS", "ab", "node", 0, 1),
    Arg("PARTIAL", "cd", "node", 0, 1), Arg("PARTIAL", "cd", "nil", 0, 1),
    Arg("FAILURE", "", "node", 0, 1), Arg("FAILURE", "", "node", -1, 1),
    Arg("FAILURE", "ab", "nil", 0, 1), Arg("OTHER", "", "nil", 0, 1) }
===============================================================================
