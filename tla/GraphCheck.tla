----------------------------- MODULE GraphCheck -----------------------------
(***************************************************************************)
(* The projection graph validator of tools/pgv: the search for cycles and  *)
(* the depth of the import graph between projections, one call or return   *)
(* of the two recursive functions at a time, and the edge checks.          *)
(*                                                                         *)
(* The graph is any that Build is given: Go forbids import cycles, the     *)
(* Rust modules that the validator reads as well do not.  A goroutine      *)
(* stack that overflows ends the process; MaxStack stands for its limit.   *)
(* Module Pgv composes the steps below with the commands of main.go.       *)
(***************************************************************************)
EXTENDS Naturals, Sequences, FiniteSets, SequencesExt, FiniteSetsExt

CONSTANTS ImportPaths,  \* all import paths, as a sequence in sorted order
          ProjectionPaths, \* those that start with projection/ or rust/projection/
          RustPaths,    \* those that start with rust/
          Kernel,       \* those that start with a kernel root
          Allowed,      \* those that start with an entry of the allowlist
          MaxStack      \* bound: frames on the stack of a goroutine

ASSUME GraphConstants ==
         /\ ImportPaths \in Seq(Range(ImportPaths)) /\ IsInjective(ImportPaths)
         /\ ProjectionPaths \subseteq Range(ImportPaths)
         /\ IsFiniteSet(ProjectionPaths)
         /\ MaxStack \in Nat /\ MaxStack > Cardinality(ProjectionPaths)

VARIABLES nodes,        \* the import paths of Graph.Nodes
          edges,        \* Graph.Edges, pairs <<from, to>>
          phase,        \* "extract", "built", "cycles", "depth", "done" or "crashed"
          white,        \* the roots checkCycles has still to visit, as keys of a map
          gray, black,  \* the other two maps of hasCycleDFS
          stack,        \* the frames of the recursion in progress
          hasCycle,
          roots,        \* the nodes checkDepth has still to start from
          memo,         \* bfsMaxDepth's memo of this start, a partial function
          maxDepth,
          violations    \* the codes found

graphVars == <<nodes, edges>>
depthVars == <<roots, memo, maxDepth>>
cycleVars == <<white, gray, black, hasCycle>>
checkVars == <<cycleVars, stack, depthVars, violations>>
vars == <<graphVars, phase, checkVars>>

-----------------------------------------------------------------------------
(* projectionNodes, projectionEdges and the checks that look at one edge.  *)

Projections == nodes \cap ProjectionPaths

projectionEdges == {e \in edges : e[1] \in Projections /\ e[2] \in Projections}

backflowEdges == {e \in edges : e[1] \in Kernel /\ e[2] \in Projections}

\* Dependencies of a projection that are no kernel, no projection, not allowed.
\* What counts as a projection here is its path, whether it is a node or not.
outsideEdges == {e \in edges : /\ e[1] \in Projections
                               /\ e[2] \notin Kernel \cup ProjectionPaths \cup Allowed}

Code(found, code) == IF found THEN {code} ELSE {}

checkCrossImport   == Code(projectionEdges # {}, "P7_CROSS_IMPORT")
checkBackflow      == Code(backflowEdges # {}, "P9_BACKFLOW")
checkP10aForbidden == Code(backflowEdges # {}, "P10A_FORBIDDEN_IMPORT")
checkP10bAllowlist == Code(outsideEdges # {}, "P10B_UNDECLARED_DEP")

directDeps(n) == {e[2] : e \in {d \in edges : d[1] = n}}

\* The import paths in S, sorted.
InOrder(S) ==
  LET kept[n \in 0..Len(ImportPaths)] ==
        IF n = 0 THEN <<>>
        ELSE IF ImportPaths[n] \in S THEN Append(kept[n - 1], ImportPaths[n]) ELSE kept[n - 1]
  IN  kept[Len(ImportPaths)]

\* The annotations as a partial function from packages to sorted sequences,
\* which may name a path twice.  Rust modules have none, and without any
\* annotation at all the check is left out.
checkP10bDeclared(declared) ==
  Code(/\ DOMAIN declared # {}
       /\ \E n \in Projections \ RustPaths :
            n \in DOMAIN declared => declared[n] # InOrder(directDeps(n)),
       "P10B_DECLARED_VS_ACTUAL")

\* Mutant: the neighbours in both directions.
adjBothWays(n) ==
  {x \in Projections : <<n, x>> \in projectionEdges \/ <<x, n>> \in projectionEdges}

\* adj[n], which both searches walk in the order of the sorted edges
adj(n) == {x \in Projections : <<n, x>> \in projectionEdges}

\* n comes first among the paths of S: the nodes and the edges are sorted.
IsFirst(n, S) == /\ n \in S
                 /\ \E i \in DOMAIN ImportPaths :
                      /\ ImportPaths[i] = n
                      /\ \A j \in 1..(i - 1) : ImportPaths[j] \notin S

-----------------------------------------------------------------------------
\* Mutant: the loop over the neighbours starts at the second.
FrameSkipsFirst(n) ==
  [node |-> n, rest |-> {x \in adj(n) : ~IsFirst(x, adj(n))}, deepest |-> 0]

\* A call for n, with the neighbours its loop has still to look at.
Frame(n) == [node |-> n, rest |-> adj(n), deepest |-> 0]

NoGraph == /\ nodes = {} /\ edges = {} /\ phase = "extract"
           /\ white = {} /\ gray = {} /\ black = {} /\ hasCycle = FALSE
           /\ stack = <<>> /\ roots = {} /\ memo = <<>> /\ maxDepth = 0
           /\ violations = {}

\* BuildGraph, from the nodes of every extractor.
Build(ns, es) == /\ phase = "extract"
                 /\ nodes' = ns /\ edges' = es /\ phase' = "built"
                 /\ UNCHANGED checkVars

\* ValidateWithDeclared, up to the first search.
BeginChecks == /\ phase = "built"
               /\ phase' = "cycles"
               /\ white' = Projections
               /\ roots' = Projections
               /\ violations' = checkCrossImport
               /\ UNCHANGED <<graphVars, gray, black, hasCycle, stack, memo, maxDepth>>

Top     == stack[Len(stack)]
Below   == Front(stack)
\* The frames without the top one, whose caller goes on to the next neighbour.
Replace(f) == Append(Below, f)
Past(n)    == [Top EXCEPT !.rest = @ \ {n}]

Overflow ==
  /\ phase \in {"cycles", "depth"} /\ Len(stack) = MaxStack
  /\ phase' = "crashed"
  /\ UNCHANGED <<graphVars, stack, cycleVars, depthVars, violations>>

\* Mutant: the node stays white.
EnterWhite(n, frames) == /\ gray' = gray \cup {n}
                         /\ stack' = Append(frames, Frame(n))
                         /\ UNCHANGED white

\* hasCycleDFS(n): white -> gray.  Called from the loop over white, whose
\* order is that of a map, or from a neighbour.
Enter(n, frames) == /\ white' = white \ {n}
                    /\ gray' = gray \cup {n}
                    /\ stack' = Append(frames, Frame(n))

StartCycleSearch ==
  /\ phase = "cycles" /\ stack = <<>> /\ ~hasCycle
  /\ \E n \in white : Enter(n, <<>>)
  /\ UNCHANGED <<graphVars, phase, black, hasCycle, depthVars, violations>>

\* Mutant: a black neighbour counts as one on the path.
OnPathOrDone(n) == n \in gray \cup black

OnPath(n) == n \in gray

\* One turn of the loop over the neighbours.
NextNeighbour ==
  /\ phase = "cycles" /\ stack # <<>> /\ Len(stack) < MaxStack /\ Top.rest # {}
  /\ \E n \in Top.rest :
       /\ IsFirst(n, Top.rest)
       /\ \/ /\ OnPath(n)                  \* true is returned through every frame
             /\ hasCycle' = TRUE /\ stack' = <<>>
             /\ violations' = violations \cup {"P8_CYCLE"}
             /\ UNCHANGED <<white, gray, black>>
          \/ /\ ~OnPath(n) /\ n \in black
             /\ stack' = Replace(Past(n))
             /\ UNCHANGED <<white, gray, black, hasCycle, violations>>
          \/ /\ ~OnPath(n) /\ n \notin black
             /\ Enter(n, Replace(Past(n)))
             /\ UNCHANGED <<black, hasCycle, violations>>
  /\ UNCHANGED <<graphVars, phase, depthVars>>

\* The node and all below it are done: gray -> black.
LeaveNode ==
  /\ phase = "cycles" /\ stack # <<>> /\ Len(stack) < MaxStack /\ Top.rest = {}
  /\ gray' = gray \ {Top.node} /\ black' = black \cup {Top.node}
  /\ stack' = Below
  /\ UNCHANGED <<graphVars, phase, white, hasCycle, depthVars, violations>>

\* checkDepth follows, whatever checkCycles found.
EndCycleSearch ==
  /\ phase = "cycles" /\ stack = <<>> /\ (hasCycle \/ white = {})
  /\ phase' = "depth"
  /\ UNCHANGED <<graphVars, stack, cycleVars, depthVars, violations>>

-----------------------------------------------------------------------------
\* bfsMaxDepth from the next node, with a memo of its own.
StartDepth ==
  /\ phase = "depth" /\ stack = <<>> /\ roots # {}
  /\ \E n \in roots : IsFirst(n, roots) /\ stack' = <<Frame(n)>>
  /\ memo' = <<>>
  /\ UNCHANGED <<graphVars, phase, cycleVars, roots, maxDepth, violations>>

\* Mutant: the depth of the neighbour, without the edge that leads to it.
DeeperByNothing(f, d) == [f EXCEPT !.deepest = Max({@, d})]

\* The depth d of a neighbour came back: one edge more leads to it from here.
Deeper(f, d) == [f EXCEPT !.deepest = Max({@, d + 1})]

Descend ==
  /\ phase = "depth" /\ stack # <<>> /\ Len(stack) < MaxStack /\ Top.rest # {}
  /\ \E n \in Top.rest :
       /\ IsFirst(n, Top.rest)
       /\ stack' = IF n \in DOMAIN memo THEN Replace(Deeper(Past(n), memo[n]))
                                        ELSE Append(Replace(Past(n)), Frame(n))
  /\ UNCHANGED <<graphVars, phase, cycleVars, depthVars, violations>>

\* Return: memoize, and hand the depth to the caller: bfsMaxDepth or checkDepth.
Ascend ==
  /\ phase = "depth" /\ stack # <<>> /\ Len(stack) < MaxStack /\ Top.rest = {}
  /\ memo' = [x \in DOMAIN memo \cup {Top.node} |->
                IF x = Top.node THEN Top.deepest ELSE memo[x]]
  /\ IF Below # <<>>
     THEN /\ stack' = Append(Front(Below), Deeper(Last(Below), Top.deepest))
          /\ UNCHANGED <<roots, maxDepth, violations>>
     ELSE /\ stack' = <<>> /\ roots' = roots \ {Top.node}
          /\ maxDepth' = Max({maxDepth, Top.deepest})
          /\ violations' = violations \cup Code(Top.deepest > 1, "P6_DEPTH_EXCEEDED")
  /\ UNCHANGED <<graphVars, phase, cycleVars>>

\* The checks of single edges and of the annotations come last.
Report(declared) ==
  /\ phase = "depth" /\ stack = <<>> /\ roots = {}
  /\ phase' = "done"
  /\ violations' = violations \cup checkBackflow \cup checkP10aForbidden
                              \cup checkP10bAllowlist \cup checkP10bDeclared(declared)
  /\ UNCHANGED <<graphVars, stack, cycleVars, depthVars>>

Check == \/ BeginChecks \/ StartCycleSearch \/ NextNeighbour \/ LeaveNode
         \/ EndCycleSearch \/ StartDepth \/ Descend \/ Ascend \/ Overflow

-----------------------------------------------------------------------------
(* The graph, without running the validator.                               *)

\* The nodes p[0], p[1], ..., p[d] of d imports, one after the other.
IsChain(p, d) == \A i \in 0..(d - 1) : <<p[i], p[i + 1]>> \in projectionEdges

\* Some chain comes back to where it started, after one import or more.
Cyclic == \E d \in 1..Cardinality(Projections) :
            \E p \in [0..d -> Projections] : IsChain(p, d) /\ p[0] = p[d]

ChainFrom(n, d) == \E p \in [0..d -> Projections] : IsChain(p, d) /\ p[0] = n

LongestFrom(n) == Max({d \in 0..Cardinality(Projections) : ChainFrom(n, d)})

\* While the search goes on the gray nodes are exactly those on the stack, in
\* the order of a path, and no edge leads from a black node to one that is
\* not black: what was left behind needs no second visit.
GrayIsThePath ==
  phase = "cycles" /\ ~hasCycle =>
    /\ gray = {stack[i].node : i \in DOMAIN stack}
    /\ \A i \in 1..(Len(stack) - 1) : <<stack[i].node, stack[i + 1].node>> \in edges
    /\ \A e \in projectionEdges : e[1] \in black => e[2] \in black

\* Whatever the order in which the map of roots is walked, checkCycles reports
\* a cycle exactly when there is one.
CyclesExact ==
  phase \in {"depth", "done", "crashed"} =>
    /\ hasCycle <=> Cyclic
    /\ "P8_CYCLE" \in violations <=> Cyclic

\* On an acyclic graph the memo holds the true depths, and the result is the
\* length of the longest chain of imports; the process dies on no such graph.
DepthExact ==
  ~Cyclic => /\ phase # "crashed"
             /\ \A n \in DOMAIN memo : memo[n] = LongestFrom(n)
             /\ phase = "done" =>
                  maxDepth = Max({0} \cup {LongestFrom(n) : n \in Projections})

\* On every acyclic graph the checks come to an end.
VerdictIfAcyclic == phase = "cycles" /\ ~Cyclic ~> phase = "done"
=============================================================================
