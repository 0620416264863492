------------------------------ MODULE MCSealed ------------------------------
EXTENDS SealedReplay, TLC

CONSTANTS e1, e2, abs

Write(k, v) == [x \in {"acct:a", "acct:b", "cfg"} |-> IF x = k THEN v ELSE abs]
Ev(e, d) == [entityKey |-> e, sequence |-> 1, timestamp |-> 0, stateDelta |-> d]

\* num5 is a JSON number, printed "5" by the adapter; "x" is no number.
MCBytes == ("5" :> "5") @@ ("x" :> "x") @@ ("num5" :> "5")

MCEvents == {Ev(e1, Write("acct:a", "5")), Ev(e2, Write("acct:a", "x")),
             Ev(e2, [Write("cfg", "x") EXCEPT !["acct:b"] = "num5"])}

MCKeyRank == ("acct:a" :> 1) @@ ("acct:b" :> 2) @@ ("cfg" :> 3)

MCPrefix == ("proj" :> {"acct:a", "acct:b"})
              @@ ("reader" :> {"acct:a", "acct:b", "cfg"})

\* The registry of the reader has a route for acct: and a later one for all keys.
MCRoutes ==
  ("proj" :> <<[owns |-> {"acct:a", "acct:b"}, decodes |-> {"5"}]>>)
    @@ ("reader" :> <<[owns |-> {"acct:a", "acct:b"}, decodes |-> {"5"}],
                      [owns |-> {"acct:a", "acct:b", "cfg"}, decodes |-> {"5", "x"}]>>)
=============================================================================
