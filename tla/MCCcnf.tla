------------------------------- MODULE MCCcnf -------------------------------
EXTENDS Harness

\* "n:1~" carries a zero-width space that normalization strips.
MCNorm == ("n:1~" :> "n:1") @@ ("ann~" :> "ann")
MCLex == <<"n:1", "n:2">>
\* "1970" is the epoch: a date whose value is that of no date.
MCParsedTime == ("2024" :> 7) @@ ("1970" :> 0)

\* Which of the two spellings of one key comes last, and which of n:1 and n:2.
MCOrders == {{"n:1"}, {"n:1~", "n:2"}}

Intent(a, id) == Obj([action |-> Str(a), target_type |-> Str("node"), target_id |-> Str(id)])
Actor(n) == Obj([id |-> Str(n)])
Patch(n) == Obj([v |-> Num(n)])

Base == [actor |-> Actor("ann"), intent |-> Intent("create", "n:1"),
         domain |-> Str("execution"), event_id |-> Str("e1"), timestamp |-> Num(7)]

Dated2024(d) == Obj([data |-> Obj(d), meta |-> Obj([timestamp |-> Str("2024")])])

\* Every input changes the base in one place, and some in two.
Changes ==
  {Base,
   [Base EXCEPT !.actor = Actor("ann~")], [Base EXCEPT !.actor = Actor("bob")],
   [Base EXCEPT !.actor = Str("ann")],
   [Base EXCEPT !.domain = Str("shop")], [Base EXCEPT !.event_id = Str("e2")],
   [Base EXCEPT !.timestamp = Str("2024")], [Base EXCEPT !.timestamp = Num(0)],
   [Base EXCEPT !.timestamp = Str("noon")],
   [Base EXCEPT !.intent = Str("create it")], [Base EXCEPT !.intent = Intent("", "n:1")],
   [Base EXCEPT !.intent = Intent("invent", "n:1")],
   [Base EXCEPT !.intent = Intent("create", "")], [Base EXCEPT !.intent = Intent("create", "bad")],
   [Base EXCEPT !.intent = Intent("delete", "n:2")],
   [k \in DOMAIN Base \ {"actor"} |-> Base[k]],
   [k \in DOMAIN Base \ {"timestamp"} |-> Base[k]],
   Over([ccnf_version |-> Num(2)], Base), Over([ccnf_version |-> Str("2")], Base),
   Over([causality |-> Obj([causal_chain_id |-> Str("c")])], Base),
   Over([causality |-> Obj([ordered |-> Bool(FALSE)])], Base),
   Over([payload |-> Dated2024("n:1" :> Patch(1))], Base),
   Over([payload |-> Dated2024("n:1~" :> Patch(1))], Base),
   Over([payload |-> Dated2024("n:1" :> Patch(2))], Base),
   Over([payload |-> Dated2024(("n:1" :> Patch(1)) @@ ("n:1~" :> Patch(2)))], Base),
   Over([payload |-> Dated2024(("n:1~" :> Patch(1)) @@ ("n:2" :> Patch(2)))], Base),
   Over([payload |-> Dated2024(("n:1" :> Patch(1)) @@ ("n:2" :> Patch(2)))], Base),
   Over([payload |-> Dated2024("bad" :> Patch(1))], Base),
   Over([payload |-> Dated2024("n:1" :> Str("x"))], Base),
   Over([payload |-> Str("blob")], Base)}

MCRawEvents == {Obj(m) : m \in Changes} \cup {Arr(<<>>)}

MCDraws == {[actor |-> "ann", action |-> "create", type |-> "node", target |-> "n:1",
             domain |-> "execution", timestamp |-> 7]}

\* Two orders of the keys of every generated input.
Orders2 == {<<"actor", "causality", "domain", "event_id", "identity", "intent", "payload",
                  "signature", "timestamp", "_float_test">>,
                <<"intent", "_float_test", "timestamp", "actor", "signature", "payload", "domain",
                  "identity", "event_id", "causality">>}

MCKeyOrders == {SelectSeq(o, LAMBDA k : k \in DOMAIN input) : o \in Orders2, input \in Generated}

\* What a run at the first second printed for an input.
Printed(m) == Run(Obj(m), 1, 1, {}).cer

Vector(inputs, error, expected) ==
  [readable |-> TRUE, version |-> 1, inputs |-> inputs, error |-> error, expected |-> expected]
Alone(m, error, expected) == Vector("input" :> Obj(m), error, expected)

Hashes(m, tail) == (("entity_key" \o tail) :> Printed(m).entity_key)
                   @@ (("canonical_hash" \o tail) :> Printed(m).signature)

Undated == [Base EXCEPT !.timestamp = Num(0)]
Bob     == [Base EXCEPT !.actor = Actor("bob")]
Refused == [Base EXCEPT !.intent = Intent("invent", "n:1")]

Vectors ==
  {[Alone(Base, "", Empty) EXCEPT !.readable = FALSE],
   Vector(Empty, "", Empty),
   Alone(Base, "", Hashes(Base, "")), Alone(Undated, "", Hashes(Undated, "")),
   Alone(Bob, "", Hashes(Base, "")), Alone(Bob, "", "canonical_hash" :> Printed(Base).signature),
   Alone(Refused, "", Empty), Alone(Refused, "INTENT_NORMALIZATION_FAILURE", Empty),
   Alone(Refused, "CCNF_VERSION_MISMATCH", Empty), Alone(Base, "CCNF_VERSION_MISMATCH", Empty),
   [Alone(Base, "CCNF_VERSION_MISMATCH", Empty) EXCEPT !.version = 2]}
  \cup {Vector(("input_a" :> Obj(Base)) @@ ("input_b" :> Obj(Bob)), "",
               Hashes(a, "_a") @@ Hashes(b, "_b")) : a, b \in {Base, Bob}}

MCSuites == {<<v, w>> : v, w \in Vectors} \cup {<<>>}
=============================================================================
