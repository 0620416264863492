------------------------------- MODULE MCPgv -------------------------------
EXTENDS Pgv

MCImportPaths == <<"fmt", "go/account", "go/projection", "go/snapshot",
                   "p", "p/I", "q", "q/I", "r", "r/I", "runtime", "runtime/I", "x", "x/I">>
MCInside == [m \in {"p", "q", "r", "runtime", "x"} |-> m \o "/I"]

Whole(E) == [m \in {"p", "q", "r"} \cup {e[1] : e \in E} |->
               {[module |-> e[2], item |-> FALSE] : e \in {d \in E : d[1] = m}}]

\* The Go packages of the repository and its annotations.
TheGo == [p \in {"go/account", "go/projection"} |->
            IF p = "go/account" THEN {"fmt", "go/snapshot"} ELSE {}]
TheAnnotations == <<[package |-> "go/account", deps |-> <<"runtime">>],
                    [package |-> "go/projection", deps |-> <<>>]>>

Tree(go, rust) ==
  [go |-> go, rust |-> rust,
   annotated |-> SelectSeq(TheAnnotations, LAMBDA f : f.package \in DOMAIN go)]
MCBaselineTree == Tree(TheGo, Whole({}))

\* Every import graph on three projections, with one of the other edges or none.
Graphs == {Tree(TheGo, Whole(E \cup F)) :
             E \in SUBSET ({"p", "q", "r"} \X {"p", "q", "r"}),
             F \in {{}, {<<"runtime", "p">>}, {<<"p", "x">>}, {<<"p", "runtime">>}}}

\* Uses of items: p of q, of the kernel or of x, the kernel of p.
Items == {Tree(TheGo, [Whole({<<"runtime", "x">>}) EXCEPT
                         ![e[1]] = {[module |-> e[2], item |-> TRUE]}]) :
            e \in {<<"p", "q">>, <<"runtime", "p">>, <<"p", "runtime">>, <<"p", "x">>}}

\* Other Go packages, with and without the Rust modules, and nothing at all.
GoTrees == {Tree(go, rust) :
              go \in {<<>>, TheGo, [p \in {"go/account"} |-> {}],
                      [p \in {"go/projection"} |-> {}],
                      [TheGo EXCEPT !["go/projection"] = {"go/account"}]},
              rust \in {<<>>, Whole({}), Whole({<<"p", "q">>})}}

MCTrees == Graphs \cup Items \cup GoTrees
MCRefTrees == Items \cup GoTrees \cup {Tree(TheGo, Whole(E)) : E \in SUBSET {<<"p", "q">>, <<"runtime", "p">>}}
=============================================================================
