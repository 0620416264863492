------------------------------ MODULE Harness ------------------------------
(***************************************************************************)
(* The programs that judge the pipeline, beside the hosts that use it: the *)
(* cross-order test of the R2 harness (ccnf/r2.go) and the conformance     *)
(* runner (conformance/runner.go).  Both call Run one input after another, *)
(* with the clock of their host and map orders of their own, and compare   *)
(* the outcomes with each other or with what a vector file expects.        *)
(***************************************************************************)
EXTENDS CcnfHosts, TLC

CONSTANTS Draws,      \* what the fuzzer's random numbers may pick
          Variants,   \* the fuzzer's actor ids, Unicode variants of each other
          IsoStamps,  \* its date strings, the epoch among them
          KeyOrders,  \* the orders of the range over an input's keys
          Suites      \* directories of vector files, sequences of them

Labels == {"input", "input_a", "input_b"}

\* The names that only the generated inputs have; plain ASCII.
FuzzNames == {"id", "session_id", "_float_test", "state", "lvl_1_key"}

ASSUME HarnessAssumption ==
  /\ FuzzNames \subseteq Name \ DOMAIN Norm
  /\ KeyOrders \subseteq Seq(Name)
  /\ \A s \in Suites : /\ Len(s) \in Nat /\ DOMAIN s = 1..Len(s)
                       /\ \A n \in DOMAIN s : DOMAIN s[n].inputs \subseteq Labels

VARIABLES program,    \* "hosts", "r2" or "conformance"
          test,       \* CrossOrderTester.Test in progress
          suite,      \* the vector files, in the order of ReadDir
          runner      \* runVectors in progress

vars == <<hostVars, program, test, suite, runner>>

NoTest == [verdict |-> "none", input |-> Empty, keys |-> <<>>, ref |-> "",
           i |-> 0, copies |-> 0, others |-> {}]
NoRun  == [file |-> 0, labels |-> <<>>, ok |-> TRUE, passed |-> {}, failed |-> 0, exit |-> "none"]

Init == /\ HostInit
        /\ program \in {"hosts", "r2", "conformance"}
        /\ test = NoTest /\ runner = NoRun
        /\ suite \in IF program = "conformance" THEN Suites ELSE {<<>>}

-----------------------------------------------------------------------------
(* SemanticFuzzer.Generate: a standard input, changed in one dimension.    *)

Payload(data) == Obj([data |-> Obj(data)])

genStandardInput(d) ==
  [actor     |-> Obj([type |-> Str("system"), id |-> Str(d.actor), session_id |-> Str("sess")]),
   intent    |-> Obj([action |-> Str(d.action), target_type |-> Str(d.type),
                      target_id |-> Str(d.target)]),
   payload   |-> Payload(Empty), domain |-> Str(d.domain), event_id |-> Str("fuzz"),
   timestamp |-> Num(d.timestamp),
   causality |-> Obj([parent_event_ids |-> Arr(<<>>), causal_chain_id |-> Str("chain"),
                      trace_depth |-> Num(0)])]

genFieldPermutation(base) == base          \* a map has no order to permute
genNullVsOmission(base)   == Over([signature |-> Null], base)
genUnicodeVariant(base, id) ==
  [base EXCEPT !.actor = Obj([type |-> Str("system"), id |-> Str(id), session_id |-> Str("sess")])]
\* The index is odd in this dimension, so that no number is ever picked.
genTimestampBoundary(base, s) == [base EXCEPT !.timestamp = Str(s)]
genFloatBoundary(base)    == Over([_float_test |-> Num(0)], base)
\* At least two artifacts, each with a state and a number.
genMultiArtifact(base)    == [base EXCEPT !.payload =
                                Payload([k \in Range(Lex) |-> Obj([state |-> Str(k)])])]
genAliasChain(base)       == Over([identity |-> Obj([collapse_key |-> Str("ck"),
                                                     alias_keys |-> Arr(<<Str("alias")>>)])], base)
genNestedStructure(base)  == [base EXCEPT !.payload = Payload([lvl_1_key |-> Obj(Empty)])]

Generate(base) ==
  {genFieldPermutation(base), genNullVsOmission(base), genFloatBoundary(base),
   genMultiArtifact(base), genAliasChain(base), genNestedStructure(base)}
    \cup {genUnicodeVariant(base, id) : id \in Variants}
    \cup {genTimestampBoundary(base, s) : s \in IsoStamps}

Generated == UNION {Generate(genStandardInput(d)) : d \in Draws}

-----------------------------------------------------------------------------
(* CrossOrderTester.Test.                                                  *)

\* The reference; keys is the order of one range over the input.
StartTest(input, keys, late) ==
  /\ program = "r2" /\ test = NoTest
  /\ Range(keys) = DOMAIN input /\ IsInjective(keys)
  /\ LET r == Run(Obj(input), 1, clock, late)
     IN test' = IF r.error # ""
                THEN [NoTest EXCEPT !.verdict = "error", !.input = input]
                ELSE [NoTest EXCEPT !.verdict = "running", !.input = input,
                        !.keys = keys, !.ref = ComputeHash(r.cer)]
  /\ UNCHANGED <<hostVars, program, suite, runner>>

\* Mutant: the last permutation is left out.
turnsButLast(n) == IF n < 2 THEN 0 ELSE IF n < 8 THEN n - 1 ELSE 8

\* genKeyPermutations: at most eight, none of an object with a single key.
turns(n) == IF n < 2 THEN 0 ELSE IF n < 8 THEN n ELSE 8

\* The values, each under the key that is i + 1 places before its own.
Rotated(input, keys, i) ==
  LET n == Len(keys)
  IN [k \in DOMAIN input |->
        input[keys[(((CHOOSE x \in 1..n : keys[x] = k) + i) % n) + 1]]]

\* Each permutation is run as it is and once for every object among its values,
\* with that object rebuilt from its keys, which changes nothing in it.
\* Copies that Run refuses are skipped.
TryCopy(late) ==
  /\ test.verdict = "running" /\ test.i < turns(Len(test.keys))
  /\ LET r == Run(Obj(Rotated(test.input, test.keys, test.i)), 1, clock, late)
         last == test.copies = Cardinality({k \in DOMAIN test.input : IsObj(test.input[k])})
     IN test' = [test EXCEPT !.others = IF r.error = "" THEN @ \cup {ComputeHash(r.cer)} ELSE @,
                             !.i = IF last THEN @ + 1 ELSE @,
                             !.copies = IF last THEN 0 ELSE @ + 1]
  /\ UNCHANGED <<hostVars, program, suite, runner>>

Judge ==
  /\ test.verdict = "running" /\ test.i = turns(Len(test.keys))
  /\ test' = [test EXCEPT !.verdict = IF test.others \subseteq {test.ref}
                                      THEN "stable" ELSE "diverged"]
  /\ UNCHANGED <<hostVars, program, suite, runner>>

-----------------------------------------------------------------------------
(* runVectors.  A vector has its inputs under at most three labels, and    *)
(* what it expects: an error, or values under the names of the runner's    *)
(* comparisons.  Other members of a file are not read.                     *)

suffix(label) == CASE label = "input_a" -> "_a" [] label = "input_b" -> "_b" [] OTHER -> ""

File == suite[runner.file]

\* The labels under which a file has an input, in the order of the runner.
Given(f) == LET only(l) == IF l \in DOMAIN f.inputs THEN <<l>> ELSE <<>>
            IN only("input") \o only("input_a") \o only("input_b")

\* A file that cannot be read or parsed, or has no input, fails as a whole.
OpenFile ==
  /\ program = "conformance" /\ runner.labels = <<>>
  /\ runner.file < Len(suite)
  /\ LET f == suite[runner.file + 1]
         given == f.readable /\ Given(f) # <<>>
     IN runner' = [runner EXCEPT !.file = @ + 1, !.ok = given,
                     !.failed = IF given THEN @ ELSE @ + 1,
                     !.labels = IF given THEN Given(f) ELSE <<>>]
  /\ UNCHANGED <<hostVars, program, test, suite>>

\* expectedHash: the values that are expected and are not the actual ones.
Mismatches(f, label, cer) ==
  {key \in {"entity_key", "canonical_hash"} :
     LET name == key \o suffix(label)
     IN /\ name \in DOMAIN f.expected
        /\ f.expected[name] # IF key = "entity_key" THEN cer.entity_key ELSE ComputeHash(cer)}

\* The number of failures that one input adds to the count.
Failures(f, label, r) ==
  IF f.error # "" THEN IF r.error = f.error THEN 0 ELSE 1
  ELSE IF r.error # "" THEN 1
  ELSE Cardinality(Mismatches(f, label, r.cer))

\* Mutant: the flag of a file is that of its last input.
LastOK(ok, failures) == failures = 0

StillOK(ok, failures) == ok /\ failures = 0

RunInput(late) ==
  /\ runner.labels # <<>>
  /\ LET label == Head(runner.labels)
         n  == Failures(File, label, Run(File.inputs[label], File.version, clock, late))
         ok == StillOK(runner.ok, n)
     IN runner' = [runner EXCEPT !.labels = Tail(@), !.ok = ok, !.failed = @ + n,
                     !.passed = IF ok /\ Tail(runner.labels) = <<>>
                                THEN @ \cup {runner.file} ELSE @]
  /\ UNCHANGED <<hostVars, program, test, suite>>

Exit ==
  /\ program = "conformance" /\ runner.exit = "none"
  /\ runner.labels = <<>> /\ runner.file = Len(suite)
  /\ runner' = [runner EXCEPT !.exit = IF runner.failed > 0 THEN "1" ELSE "0"]
  /\ UNCHANGED <<hostVars, program, test, suite>>

Next == \/ Tick /\ UNCHANGED <<program, test, suite, runner>>
        \/ program = "hosts" /\ HostNext /\ UNCHANGED <<program, test, suite, runner>>
        \/ \E input \in Generated, keys \in KeyOrders, late \in Orders :
             StartTest(input, keys, late)
        \/ \E late \in Orders : TryCopy(late) \/ RunInput(late)
        \/ Judge \/ OpenFile \/ Exit

Spec == Init /\ [][Next]_vars

-----------------------------------------------------------------------------
\* The cross-order test reports a divergence only of an input without a date,
\* which takes the clock each time; no rotation of the values is mistaken for
\* the input.  A verdict of stability rests on at least one comparison, which
\* is that of the input itself.
CrossOrderVerdict ==
  /\ test.verdict = "diverged" => ~Stamped(Obj(test.input))
  /\ test.verdict = "stable" /\ Len(test.keys) \in 2..8 => test.others = {test.ref}

Dated(f) == f.readable /\ \A l \in DOMAIN f.inputs :
                            Distinct(f.inputs[l]) /\ (f.error # "" \/ Stamped(f.inputs[l]))

\* What a vector claims of its inputs, as Run has it at the first second.
Holds(f) ==
  /\ f.readable /\ DOMAIN f.inputs # {}
  /\ \A l \in DOMAIN f.inputs :
       LET r == Run(f.inputs[l], f.version, 1, {})
       IN \/ f.error # "" /\ r.error = f.error
          \/ /\ f.error = "" /\ r.error = ""
             /\ Mismatches(f, l, r.cer) = {}

\* The runner exits with 0 exactly if every file passed, and a file whose
\* inputs have dates passes exactly if all that it claims of each of its inputs
\* holds, at whatever time and with whatever files before it in the directory.
VectorsDecide ==
  runner.exit # "none" =>
    /\ runner.exit = "0" <=> runner.passed = DOMAIN suite
    /\ \A n \in DOMAIN suite : Dated(suite[n]) => (n \in runner.passed <=> Holds(suite[n]))
=============================================================================
