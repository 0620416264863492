-------------------------------- MODULE Pgv --------------------------------
(***************************************************************************)
(* The commands of tools/pgv around the checks of GraphCheck: extraction   *)
(* from the Go packages and the Rust modules, the graph and its hash, the  *)
(* verdict, the comparison with the baseline (make pdtp-window-status),    *)
(* and the comparison of two commits (make ci-diff).                       *)
(*                                                                         *)
(* A tree holds what the extractors read: the imports of each Go package,  *)
(* the uses of each Rust module, of which there are none when the source   *)
(* directory is not there, and the files with `DependsOn:' annotations.  A *)
(* use of a Rust module has the module named after `use crate::' and       *)
(* whether an item or a group of items in it is named as well.  SHA-256 is *)
(* the sequence that is hashed.                                            *)
(***************************************************************************)
EXTENDS GraphCheck

CONSTANTS Trees,        \* the trees that are validated
          RefTrees,     \* the commits that are compared
          BaselineTree, \* the tree whose hash is recorded as the baseline
          Std,          \* the packages of the Go standard library
          Inside        \* the path of an item of a module, a function on modules

VARIABLES command,      \* "validate" or "ci-diff"
          tree,
          extracted,    \* allNodes: import paths to direct dependencies
          hash,         \* Metadata.Hash of the graph that was built
          head, base,   \* pgv-head-graph.json and pgv-base-graph.json
          baseTree,     \* the commit whose graph stands in the base file
          delta,        \* the diff of the two
          outcome       \* what was printed last

pgvVars == <<command, tree, extracted, hash, head, base, baseTree, delta, outcome>>
allVars == <<pgvVars, vars>>

-----------------------------------------------------------------------------
(* Trees.                                                                  *)

Paths == Range(ImportPaths)

\* One line `use crate::', cut at the first blank, semicolon or brace.
ScanUse(use) == IF use.item THEN Inside[use.module] ELSE use.module

\* The paths of Rust modules start with rust/, those of Go packages with the
\* path of the Go module: neither with a prefix that a check looks for, nor
\* with rust/.  What is named in a module as an item is not a module itself.
IsTree(t) ==
  /\ DOMAIN t.go \subseteq Paths \ (ProjectionPaths \cup Kernel \cup RustPaths)
  /\ \A p \in DOMAIN t.go : t.go[p] \subseteq Paths
  /\ DOMAIN t.rust \subseteq Paths \cap RustPaths
  /\ \A m \in DOMAIN t.rust : \A u \in t.rust[m] :
       /\ u \in [module : Paths, item : BOOLEAN] /\ ScanUse(u) \in Paths
       /\ u.item => ScanUse(u) \notin DOMAIN t.rust

\* A hash was printed for the baseline: its graph had nodes.
ASSUME PgvConstants ==
  /\ \A t \in Trees \cup RefTrees \cup {BaselineTree} : IsTree(t)
  /\ DOMAIN BaselineTree.go \cup DOMAIN BaselineTree.rust # {}

-----------------------------------------------------------------------------
\* An empty file, or one that holds no graph.
NoGraphFile == [nodes |-> {}, edges |-> {}, hash |-> <<>>]

\* Mutant: what is gone is searched among what is new.
RemovedFrom(old, new) == new \ old

Gone(old, new) == old \ new

\* DiffGraphs.  The IDs of the nodes are their paths, so that nothing moves.
DiffGraphs(b, h) ==
  [baseHash |-> b.hash, headHash |-> h.hash,
   added |-> h.nodes \ b.nodes, removed |-> Gone(b.nodes, h.nodes),
   unchanged |-> b.nodes \cap h.nodes]

Init == /\ command \in {"validate", "ci-diff"}
        /\ tree \in IF command = "validate" THEN Trees ELSE RefTrees
        /\ extracted = <<>> /\ hash = <<>>
        /\ head = NoGraphFile /\ base = NoGraphFile /\ baseTree = tree
        /\ delta = DiffGraphs(NoGraphFile, NoGraphFile)
        /\ outcome = "running"
        /\ NoGraph

-----------------------------------------------------------------------------
(* Extraction.                                                             *)

\* GoExtractor: the packages under projection/, by their full import paths.
\* If the second `go list' fails nothing counts as the standard library.
GoNodes(t, stdlibSet) == [p \in DOMAIN t.go |-> t.go[p] \ stdlibSet]

RustNodes(t) ==
  [m \in DOMAIN t.rust |-> {ScanUse(u) : u \in t.rust[m]}]

\* Mutant: the Rust modules are read only where there are no Go packages.
ExtractOneLanguage(t, stdlibSet) ==
  IF DOMAIN t.go = {} THEN RustNodes(t) ELSE GoNodes(t, stdlibSet)

Extracted(t, stdlibSet) ==
  [n \in DOMAIN t.go \cup DOMAIN t.rust |->
     IF n \in DOMAIN t.go THEN GoNodes(t, stdlibSet)[n] ELSE RustNodes(t)[n]]

\* CommentExtractor: of the annotated files of a package the last one counts.
ExtractDeclared(t) ==
  [p \in {f.package : f \in Range(t.annotated)} |->
     t.annotated[Max({i \in DOMAIN t.annotated : t.annotated[i].package = p})].deps]

\* Mutant: a node is hashed only if something depends on it or it on something.
ConnectedNodes(ns, es) == InOrder({p \in Paths : \E e \in es : p \in Range(e)})

sortedNodes(ns, es) == InOrder(ns)

depEdges(found) == UNION {{<<n, d>> : d \in found[n]} : n \in DOMAIN found}

\* The two ends of each edge, by the first and then by the second.
endsFrom(p, es) ==
  LET ends[n \in 0..Len(ImportPaths)] ==
        IF n = 0 THEN <<>>
        ELSE IF <<p, ImportPaths[n]>> \in es THEN ends[n - 1] \o <<p, ImportPaths[n]>>
        ELSE ends[n - 1]
  IN  ends[Len(ImportPaths)]

sortedEnds(es) ==
  LET ends[n \in 0..Len(ImportPaths)] ==
        IF n = 0 THEN <<>> ELSE ends[n - 1] \o endsFrom(ImportPaths[n], es)
  IN  ends[Len(ImportPaths)]

\* All paths of the nodes, then the ends of the edges, nothing between.
computeIRHash(ns, es) == sortedNodes(ns, es) \o sortedEnds(es)

BuildGraph(found) ==
  LET es == depEdges(found)
  IN [nodes |-> DOMAIN found, edges |-> es, hash |-> computeIRHash(DOMAIN found, es)]

\* What `pgv extract' leaves in its output file: without nodes, a sentence.
GraphFile(t, stdlibSet) ==
  IF DOMAIN Extracted(t, stdlibSet) = {} THEN NoGraphFile
  ELSE BuildGraph(Extracted(t, stdlibSet))

\* The graph whose hash is on record.
Baseline == GraphFile(BaselineTree, Std)

-----------------------------------------------------------------------------
(* make pdtp and make pdtp-window-status: validate the working tree.       *)

\* extractGraph: every extractor, in turn.
Extract ==
  /\ command = "validate" /\ phase = "extract" /\ outcome = "running" /\ extracted = <<>>
  /\ \E stdlibSet \in {Std, {}} : extracted' = Extracted(tree, stdlibSet)
  /\ outcome' = IF DOMAIN extracted' = {} THEN "no packages" ELSE "running"
  /\ UNCHANGED <<vars, command, tree, hash, head, base, baseTree, delta>>

\* `go list' of the packages fails: the other extractor is not asked.
ExtractorFails ==
  /\ command = "validate" /\ phase = "extract" /\ outcome = "running" /\ extracted = <<>>
  /\ outcome' = "extractor failed"
  /\ UNCHANGED <<vars, command, tree, extracted, hash, head, base, baseTree, delta>>

BuildFromExtracted ==
  /\ extracted # <<>>
  /\ Build(DOMAIN extracted, depEdges(extracted))
  /\ hash' = computeIRHash(nodes', edges')
  /\ UNCHANGED <<command, tree, extracted, head, base, baseTree, delta, outcome>>

Validate == Check /\ UNCHANGED pgvVars

\* runValidate prints the hash and the violations and picks the exit code.
Conclude ==
  /\ Report(ExtractDeclared(tree))
  /\ outcome' = IF violations' = {} THEN "PASSED" ELSE "FAILED"
  /\ UNCHANGED <<command, tree, extracted, hash, head, base, baseTree, delta>>

\* The hash is printed with the verdict: a run that ends early prints none.
CompareWithBaseline ==
  /\ outcome \in {"PASSED", "FAILED", "no packages", "extractor failed"} \/ phase = "crashed"
  /\ command = "validate"
  /\ LET current == IF phase = "done" THEN hash ELSE <<>>
     IN outcome' = IF current = Baseline.hash
                   THEN "matches baseline" ELSE "MISMATCH"
  /\ UNCHANGED <<vars, command, tree, extracted, hash, head, base, baseTree, delta>>

-----------------------------------------------------------------------------
(* make ci-diff: the graphs of two commits, and their difference.          *)

\* A failure of the extraction leaves an empty file, and the script goes on.
ExtractHead ==
  /\ command = "ci-diff" /\ outcome = "running"
  /\ head' \in {GraphFile(tree, Std), GraphFile(tree, {}), NoGraphFile}
  /\ outcome' = "head extracted"
  /\ UNCHANGED <<vars, command, tree, extracted, hash, base, baseTree, delta>>

\* A worktree of the base commit, whose extraction succeeded.
ExtractBase ==
  /\ command = "ci-diff" /\ outcome = "head extracted"
  /\ \E t \in RefTrees : /\ baseTree' = t
                         /\ base' \in {GraphFile(t, Std), GraphFile(t, {})}
  /\ outcome' = "base extracted"
  /\ UNCHANGED <<vars, command, tree, extracted, hash, head, delta>>

\* No change between the commits under go/wrp/ccnf-ref, or no base graph: the
\* graph of the head stands in for that of the base.
HeadAsBase ==
  /\ command = "ci-diff" /\ outcome = "head extracted"
  /\ base' = head
  /\ outcome' = "base extracted"
  /\ UNCHANGED <<vars, command, tree, extracted, hash, head, baseTree, delta>>

\* diff-files: a file that holds no graph cannot be read.
DiffFiles ==
  /\ command = "ci-diff" /\ outcome = "base extracted"
  /\ IF NoGraphFile \in {head, base}
     THEN outcome' = "unreadable" /\ UNCHANGED delta
     ELSE outcome' = "compared" /\ delta' = DiffGraphs(base, head)
  /\ UNCHANGED <<vars, command, tree, extracted, hash, head, base, baseTree>>

Next == \/ Extract \/ ExtractorFails \/ BuildFromExtracted \/ Validate \/ Conclude
        \/ CompareWithBaseline
        \/ ExtractHead \/ ExtractBase \/ HeadAsBase \/ DiffFiles

\* Each command runs until it returns or dies.
FairSpec == Init /\ [][Next]_allVars /\ WF_allVars(Next)

-----------------------------------------------------------------------------
\* What the tree says, without extraction: the Rust modules, and which of them
\* use another one, or something in it.
RustModules == DOMAIN tree.rust
Uses == {e \in RustModules \X RustModules :
           \E u \in tree.rust[e[1]] : u.module = e[2]}
NoItems == \A m \in RustModules : \A u \in tree.rust[m] : ~u.item

TypeOK ==
  /\ phase \in {"extract", "built", "cycles", "depth", "done", "crashed"}
  /\ nodes \subseteq Range(ImportPaths) /\ edges \subseteq nodes \X Range(ImportPaths)
  /\ phase \notin {"extract", "built"} => white \cup gray \cup black = Projections
  /\ white \cap (gray \cup black) = {} /\ gray \cap black = {}
  /\ \A i \in DOMAIN stack : stack[i].node \in Projections
  /\ maxDepth \in Nat

\* A report of P7, P9 or P10B names something that the Rust modules do.  Where
\* all uses are of whole modules the verdict is exact: PASSED means that no
\* projection uses another projection or any path outside the allowlist, and
\* no kernel module a projection; every other such tree fails, with the code of
\* what is wrong, whatever Go packages there are beside the Rust modules.
VerdictIsTheTrees ==
  phase = "done" =>
    LET among(A, B) == \E e \in Uses : e[1] \in A /\ e[2] \in B
        outside == \E m \in RustModules \cap ProjectionPaths : \E u \in tree.rust[m] :
                     ScanUse(u) \notin Kernel \cup ProjectionPaths \cup Allowed
    IN /\ "P7_CROSS_IMPORT" \in violations => among(ProjectionPaths, ProjectionPaths)
       /\ "P9_BACKFLOW" \in violations => among(Kernel, ProjectionPaths)
       /\ "P10B_UNDECLARED_DEP" \in violations <=> outside
       /\ NoItems =>
            /\ among(ProjectionPaths, ProjectionPaths) => "P7_CROSS_IMPORT" \in violations
            /\ among(Kernel, ProjectionPaths) => "P9_BACKFLOW" \in violations
            /\ outcome \in {"PASSED", "FAILED"} =>
                 (outcome = "PASSED" <=>
                    ~ \/ among(ProjectionPaths \cup Kernel, ProjectionPaths)
                      \/ outside)

\* The status of the window is clean exactly for a tree with the graph of the
\* baseline: the hash tells any two graphs apart, and a run that printed no
\* hash is never taken for a match.
BaselineExact ==
  outcome \in {"matches baseline", "MISMATCH"} =>
    (outcome = "matches baseline" <=>
       /\ phase = "done"
       /\ nodes = Baseline.nodes /\ edges = Baseline.edges)

\* A delta leads from the nodes of the base to those of the head, and the
\* hashes are equal exactly if the graphs are: a change of edges alone leaves
\* the delta empty and is seen by the hashes.
DiffExact ==
  outcome = "compared" =>
    /\ (base.nodes \ delta.removed) \cup delta.added = DOMAIN Extracted(tree, Std)
    /\ delta.unchanged = base.nodes \ delta.removed
    /\ base.nodes = DOMAIN Extracted(baseTree, Std)
    /\ delta.baseHash = delta.headHash => delta.added = {} /\ delta.removed = {}
    /\ delta.baseHash = delta.headHash <=> base.edges = head.edges /\ base.nodes = head.nodes

\* Claimed (P7 of the table of rules: no edges between projections), but the Go
\* packages are listed by their full import paths, which no check takes for
\* projections.
GoCrossImportFound ==
  phase = "done" /\ (\E p \in DOMAIN tree.go : tree.go[p] \cap DOMAIN tree.go # {})
    => "P7_CROSS_IMPORT" \in violations
=============================================================================
