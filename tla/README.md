# A TLA+ project for nexus-go-ccnf-ref

The repository is the Go reference implementation of CCNF: a pipeline turns raw
events into canonical event records (CERs), a replay engine folds a log of CERs
into a state, snapshots freeze states, a runtime signs what it executed, and a
set of scripts and a validator guard the code base itself.  This project models
the parts that keep state or decide something, checks them with TLC on small
instances, and proves the main results with TLAPS for every size.

Everything is translated from the Go and shell sources.  The documents under
`spec/` and `docs/adr/` are the source of the *claims* only.  Paths below are
relative to the root of the repository.

## 1. Inventory

| component | source | state it keeps | operations | module |
|---|---|---|---|---|
| replay engine | `replay/*.go` | the caller's log, cursor index, a `RuntimeState` per call | `Replay`, `ReplayFromCursor`, `ReplayRange`, `Fold`, `ApplyEvent`, `Cursor.Event/Step/Jump` | `ReplayFold`, `Replay`, `LogQuery` |
| snapshots | `replay/snapshot` | snapshots with artifact maps of their own | `Build`, `Validate`, `Compare`, `ValidateTriVersionLock` | `Snapshot`, `StateValues` |
| identity store | `runtime/identity/store.go` | signature to origin seed, a mutex | `Get`, `Insert` | `IdentityStore`, `WriteOnceMap` |
| identity helpers | `runtime/identity` (replay, signature, stable id) | none | string hashing | not modelled |
| merge governance | `scripts/*.sh`, `.tools`, `pgv.phase` | the phase on main, the frozen identity surface | two scripts that judge a pull request | `Governance` |
| canonical pipeline | `ccnf/*.go` | none between calls; clock and map order per call | `Run` and its stages, `ComputeHash`, `SerializeCER`, `ParseCER` | `Ccnf`, `CcnfHosts` |
| R2 harness | `ccnf/r2.go` | a test in progress: reference, permutation, other hashes | `Generate`, `CrossOrderTester.Test` | `Harness` (partly) |
| conformance runner | `conformance/runner.go` | passed and failed so far, the flag of a file | `runVectors` | `Harness` |
| receipts and traces | `runtime/*.go` | a trace that grows, receipts | `Append`, `BuildReceipt`, `ComputeReplayBinding`, `ValidateReceipt` | `Receipts` |
| sealed replay, adapter | `runtime/replay` | a cursor, a map per state | `CEREventsToReplay`, `Apply`, `Fold`, `Cursor.Step/Jump/Event` | `SealedReplay` |
| rehydration, projection | `runtime/rehydrate`, `projection` | snapshots that share a map, iterators | `NewFromRuntimeState`, `Scan`, `Next`, `BuildAccountProjection` | `SealedReplay` |
| projection graph validator | `tools/pgv/validator.go` | colour maps, recursion stack, memo | `checkCycles`, `checkDepth`, the edge checks, the verdict | `GraphCheck`, `Pgv` |
| graph extraction, diff, reports | `tools/pgv` (rest), `Makefile` | graph files of two commits | three extractors, `BuildGraph`, `DiffGraphs`, `ci-diff` | `Pgv` (partly) |

How they interact.  A CER from the pipeline becomes an event of the caller's
log.  `replay` folds slices of that log; `replay/snapshot` copies a folded state
and later compares it with a fresh fold.  The adapter turns the same log into
the sealed event format of `runtime/replay`, whose states are wrapped, not
copied, by rehydration snapshots; projections and readers iterate over those.
There are no goroutines and one mutex in the repository: what is shared is
shared by callers, through slices and maps that several layers hold at once.
The interleavings modelled are therefore those of callers of the API (an owner
that appends while others replay, a reader that iterates while the replay goes
on) and, for governance, of pull requests.

### What is hard here

* *Aliasing.*  Go maps are references.  `ApplyEvent` makes a new map for the
  entity it touches and shares all the others between states; `snapshot.Build`
  copies one level; a rehydration snapshot copies nothing.  Whether a write
  reaches a state somebody else holds decides if replays are deterministic.
* *A log that grows under its readers.*  Bounds are taken when a call starts,
  cursors may be negative or past the end, and prefix plus suffix must add up.
* *Hidden inputs.*  The wall clock and the range order of maps reach `Run`, and
  through it the programs that judge it by running it several times.
* *Partial failure.*  `go list` may fail at its first or second call, a base
  commit may have no graph, one input of a vector may fail before the others:
  the scripts and programs go on.
* *Verdicts used late.*  A pull request is judged on one main and merged into
  another one.
* *Recursion over a cyclic graph*, in a validator whose input may be cyclic.
* *Boundaries*: iterators that count before they compare, clamping, zero
  versions, zero timestamps.

`PROJECT.json` lists each hazard with its line and the properties that cover it.

### What makes each part correct

* replay: a replay of a range is the last-writer-wins state of exactly that
  range, at every step, whatever is appended; ranges compose.
* snapshots: exactly the snapshots of the prefix asked for validate; nobody but
  the owner of a snapshot changes it; applying events changes no old state.
* identity store: one seed per signature for the life of the process, the same
  for all observers; no call keeps the mutex.
* governance: the identity surface is frozen in phase 2, the phase changes only
  with a governance reference, transitions follow the ledger, and the cycle of
  phases can be closed.
* pipeline: what an input means decides its record, on every host; the entity
  key is its subject and nothing else; records survive the wire and a second run.
* sealed replay: a reader sees the state of one height, complete and sorted.
* receipts: each describes its execution at one moment, its binding identifies the
  trace, and what was emitted cannot be denied later.
* graph validator: cycles and depths are reported exactly, with a verdict for
  every graph, and the verdict says what the sources import.
* baseline and diff: a hash or a difference is reported as equal exactly when the
  graphs are.
* harness and runner: a verdict on the pipeline is one about the pipeline, not
  about the time or the order of the runs.

## 2. Modules and how they correspond to the code

### `ReplayFold`, `Replay`, `LogQuery` (replay engine)

`ReplayFold` has the pure operators: `initialState`, `applyDelta`,
`updateEntity` and `ApplyEvent` keep their names.  A Go map is a total function
that maps missing keys to a sentinel (`Absent`, `ZeroEntity`); EventID, chain id
and artifact id are dropped because no operator reads them.  `Fold` is the loop over
a whole slice, a recursive function of the number of events.  `Means(state,
events, lo, hi)` says what a replay promises without running it: each key has
the value of its last writer, each entity the sequence number of its last event,
the version counts events.

`Replay` runs the package: variables `log`, `cursor[r]`, `job[r]`.
`ReplayAll`, `ReplayFromCursor` and `ReplayRange` compute their slice
(`FullSlice`, `CursorSlice`, `RangeSlice`: the clamping code) and enter `Fold`;
`FoldStep` is one turn of its loop and `FoldReturn` its end; `CursorLiteral`,
`CursorJump`, `CursorStep` and `Follow` are the cursor's methods and the loop of
a caller that goes on, event by event, from a returned state.  `AppendEvent`
is the owner of the log, at any moment.  `LogQuery` is the abstract service: a
reader asks about a range and is answered with its meaning.  `Replay` refines it:
a running fold is a pending question.

### `Snapshot`, `StateValues` (replay/snapshot)

The same log over an explicit heap.  `maps` holds artifact maps by address (the
step that allocated them), `boxes` nested JSON objects.  `Apply` is `ApplyEvent`
with the sharing it does, `Build` is `copyState`, and the four `Write...`
actions are callers that assign through a reference they hold.  `Validate` and
`Compare` are operators that read the heap through `View`.  The sets of keys are
finite (`SnapshotConstants`): `Validate` compares the sizes of Go maps, which are.

`StateValues` is what a caller who knows nothing of references may believe: a state is
a value, `VApply` appends what `ApplyEvent` makes of the newest one, `VBuild` takes a
state as it is.  The sharing shows in one place only, `VWriteState`: an assignment to a
map of an entity in one state appears in just those states that no event of the entity
separates from it (`SameMap`).  `Snapshot` refines it by following the references
(`MapView`) and forgetting the heap, the clock and who wrote; a write into a nested
object is a stutter there, and stays the subject of `snapshot_nested`.

### `IdentityStore`, `WriteOnceMap` (runtime/identity)

Each call is its sequence of steps between `Lock` and the deferred `Unlock`:
`Read`, or `Refuse`, or `Admit` then `Assign`.  `Restart` models the process
ending.  `told` records what clients learned.  `WriteOnceMap` is the abstract
map; a call takes effect there in one step.

### `Governance` (scripts)

`CheckAdr001` and `CheckCegla` are the two scripts as predicates of a pull
request and the phase of main; each gate, rule and invariant of the scripts is an
operator.  `Approve` takes a verdict, `Merge` uses it, `Withdraw` drops it.
Between `Approve` and `Merge` main may move: `late` remembers which verdicts are
older than the last merge.  Both scripts read `pgv.phase` from the tree the pull
request would leave behind, and so does the model.  Two claims of the documents,
`TransitionsInT` and `CycleCanComplete`, stand at the end with the code behaviour
that refutes them.

### `Ccnf`, `CcnfHosts` (ccnf)

`Ccnf` is the pipeline stage by stage: `StructuralParse`, `CanonicalizeFields`,
`parseTimestamp`, the vocabulary check, artifact collection, `DeriveIdentity`,
`BuildCERMap`, `ComputeHash`, `SerializeCER`, `ParseCER`, `Run`.  A decoded JSON
document is a function from its paths (sequences of member names and places in
arrays) to what is there: a scalar with its kind, or the kind alone of an object or
an array.  A pass over a document that the code writes as a recursive walk is then one
function over the paths: `normalizePath` and `normalizeLeaf`, `convertTimestamp`,
`normalizeAbsent`; `Visited` leaves out the paths the walk does not take (an array
directly in an array).  `Obj` and `Arr` build documents (arrays of up to three places,
`Place`), `Members` is the map a decoded object is.  Order of a map range is a
parameter (`late`: keys met last).  A hash is the term of what is hashed: two are equal
when that is.

`CcnfHosts` runs it: `Tick` moves the wall clock, `Compile` is a `Run` of some host,
`Recompile` feeds a serialized record back, as a user of the command line tool may do
with what `process` has written (`processInput`), `Receive` parses one.  Its properties speak
of what an input means (`Meaning`, the normalized members) under conditions that are
named: `Distinct` (no two keys of an object normalize alike, else the order of a range
decides which value stays), `Stamped` (it has a date, else the clock does) and
`SameFront`: `Run` asks for the required members and compares the embedded version
before it normalizes anything, so that a member name that only normalization would make
one of these is not found.

### `Harness` (ccnf/r2.go, conformance/runner.go)

The two programs that call `Run` in sequence while the clock goes on; a behaviour
is of one of them or of the hosts (`program`).  `StartTest`, `TryCopy` and `Judge`
are `CrossOrderTester.Test`: a reference run, one run per copy of each rotation
(`turns`, `Rotated`: the values move, not the keys), and the comparison.  The
inputs are those of `Generate`: `genStandardInput` with what the random numbers draw
(`Draws`), changed in one of the fuzzer's eight dimensions, with the choices that no
stage of the pipeline looks at left out.  `OpenFile`, `RunInput` and `Exit` are
`runVectors`; a vector is a record of its inputs by label and what it expects, and
`Given` is the order in which the runner looks for the labels.

### `SealedReplay` (runtime/replay, runtime/rehydrate, projection)

`heap` holds the maps of the sealed states.  `Load` is the adapter and
`ValidateReplayInput`; `Advance` is one event under the cursor with `Apply`;
a caller may `Jump` before it, and the state stays: `run.applied` records what was
applied.  `FoldInput` is `Fold`; `NewFromRuntimeState` wraps a state; `Scan`, `Visit` and
`Finish` are the iterator and the loops of its two clients, the account
projection and `Reader.Scan` with the routing of its registry (`RoutesFor`: first
matching prefix; a failed decode skips the entry).  `sort.Strings` is the choice of
the one list of the keys that follows `KeyRank`, the order of strings.  `WrittenBy`
is the map after a whole `Fold`, of which `FoldAtOnce` keeps the last state only.

### `Receipts` (runtime)

`trace[x]` is the `TraceBuilder` of an execution, `receipts` every receipt built,
each kept with the trace it was built over.  `AppendHash` and `AppendPanics` are
the two ends of `Append` (hex decoding maps several spellings to one hash, or
panics), `Issue` is `BuildReceipt` with any arguments at any moment.
`ValidateReceipt` is a predicate, since it changes nothing; its three cases are
the conjuncts of the code's `switch`, and an unknown status passes, as it does
there.

### `Runtime` (runtime)

The process that holds both: the store and the executions.  No step of one reads what
the other writes, so their steps are not interleaved: `ReceiptStep` starts from an empty
and idle store, and the run examines the sum of the two state spaces in place of their
product.  `RuntimeProofs.PartsApart` proves that such a process behaves as
`IdentityStore` and as `Receipts` say.

### `GraphCheck` (tools/pgv/validator.go)

`hasCycleDFS` and `bfsMaxDepth` call by call on an explicit stack of frames
(`Enter`, `NextNeighbour`, `LeaveNode`; `StartDepth`, `Descend`, `Ascend`).  The
walk over the white map is a nondeterministic choice, as in Go.  `Overflow` ends
the process when the stack is full: that is what the recursion of `bfsMaxDepth`
does on a cycle.  The neighbours a frame has still to visit are a set, taken in the
sorted order of the import paths (`IsFirst`); the paths are distinct, as the sorted
keys of a map are.  `Cyclic` and `LongestFrom` say without running anything what the
searches look for, by chains of imports.  The checks that look at single edges or
annotations keep their names; they run in `BeginChecks` and `Report`.

### `Pgv` (tools/pgv, Makefile)

The commands around the checks.  A tree is what the extractors read; `GoNodes`,
`RustNodes` and `ExtractDeclared` are the three extractors, `ScanUse` the way a
`use crate::` line is cut.  `Extract` or `ExtractorFails`, `BuildFromExtracted`,
`Validate` (the steps of `GraphCheck`), `Conclude` and `CompareWithBaseline` are
`pgv` under `make pdtp-window-status`; `ExtractHead`, then `ExtractBase` or
`HeadAsBase`, then `DiffFiles` are `make ci-diff`.  Each extraction may find the
standard library or fail to.  A node's ID is its path, so that `DiffGraphs` never
reports a move.  `computeIRHash` is what the code feeds to SHA-256: the paths of the
nodes in order (`InOrder`), then the two ends of each edge (`sortedEnds`), each ended
by a zero byte and nothing to tell where the nodes stop.  `IsTree` says what the
prefixes of paths make of any tree; the tree of the baseline is not empty, because a
hash was printed for it.

## 3. What the runs show

All bounds are constants named `Max...`; each sits in a guard of the action that
would exceed it.  `CHECK_DEADLOCK FALSE` is set where a bounded history simply
ends.

| run | instance | shows |
|---|---|---|
| `replay` | 2 readers, logs of up to 2 of 3 events, indices -1 and 1 | the loop invariant `FoldIsLastWrite`, `CursorComposition`, refinement of `LogQuery`, and that every replay returns |
| `snapshot` | 2 entities, 2 keys, 2 events, 2 snapshots, 1 write, clock to 2, 3 version triples | `ValidateIsExact`, `BuildDeterministic`, `SnapshotIsolation`, `StatesNeverMutated`, refinement of `StateValues` |
| `snapshot_nested` | the same, 1 snapshot | *violation*: nested objects are not copied |
| `runtime` | 2 clients, 2 signatures, 2 seeds, restarts; 2 executions, 3 spellings of 2 hashes and a string that is none, traces of up to 2, 2 receipts, 10 sets of arguments | mutual exclusion, agreement, write-once, refinement of `WriteOnceMap`, every call returns; receipts lie on one history, bindings identify traces, no denial after a commitment |
| `governance` | every edit of the phase, 3 sets of files, 5 sets of keywords, 2 pending verdicts | the frozen surface, governed phase changes |
| `governance_ledger` | edits of the phase alone, with and without CEGL | *violation*: an edit from 2 to 4 that names CEGL is merged, a step outside the ledger T |
| `governance_cycle` | edits from 2 to 3 and from 3 to 4; in phase 4, a pull request of any content | *violation*: none that goes back to 2 is accepted |
| `ccnf` | 31 inputs, 2 versions, 2 map orders, clock to 2, 2 runs; inputs of the 8 dimensions of the fuzzer, in 2 key orders; all pairs of 15 vector files | equal meaning gives equal outcome, entity key = subject, stability under re-running and under the wire; the cross-order test and the runner decide rightly |
| `ccnf_hash` | the same | *violation*: the hash does not commit to every field |
| `sealed` | logs of up to 2 of 3 events, 5 maps, jumps to -1 and up to the end, a projection and a reader | snapshots never move, clients see one height, both layers agree on what was applied |
| `pgv` | all 512 graphs on 3 Rust projections, times 4 other edges; uses of items; 5 sets of Go packages with 3 of Rust modules or none; 20 commits to compare; stack of 7 | colours follow the path, cycles and depths exact, a verdict on acyclic graphs, sound on every tree and exact on those whose uses are of whole modules; baseline and delta exact |
| `pgv_go` | the same | *violation*: a Go projection that imports another one passes |

Why these bounds are enough.  Two events suffice to cut a range in the middle,
overwrite a key with a smaller sequence number, touch an entity without writing
and write a second entity; two readers suffice for the composition of ranges,
which relates a pair, and the theorems cover any number of both.  Sharing of
maps needs one untouched entity beside a touched one, and isolation two
snapshots.  Agreement relates two observers.  A late verdict needs a second one
merged before it.  Receipts are compared in pairs, of one
execution or of two.  The properties of the pipeline compare two runs; the inputs
differ from a base record in each field the code reads, and include the refused
ones.  A projection graph with three nodes has chains longer than the limit 1,
diamonds by a shortcut edge, self loops and cycles of length two and three; a stack
of seven frames is more than any path without repetition needs, so that only
endless recursion fills it.  A delta compares two commits; the trees differ in
nodes, in edges alone, or in nothing.  A vector directory of two files has one
before and one after each; the files differ in what is read, expected and right.
The generated inputs have at most eight keys, as the fuzzer's have, so that the
last rotation is the input itself.

Each property of a passing run has a mutant in `PROJECT.json`: a plausible bug in
one modelled definition that makes TLC find it violated.

### Fairness

* `replay`: weak fairness of `FoldStep(r) \/ FoldReturn(r)`: a `for` loop a
  goroutine has entered is executed.  Nothing forces calls or appends.
* `runtime`: weak fairness of the steps inside the mutex and strong fairness of
  `Lock`: `sync.Mutex` switches to hand-off for a waiter starved for more than
  a millisecond, so a waiter that finds it free again and again gets it.
* `pgv`: weak fairness of the next-state relation: a command that was started
  runs until it returns or dies.  The property is restricted to acyclic graphs: on
  the others the process dies.
* The rest states safety only: nothing in governance, snapshots, the pipeline or
  the sealed engine is scheduled by the code.

## 4. What is proved

All proofs are checked by TLAPS for every value of the constants that satisfies
the named assumptions (`ReplayConstants`, `ReaderConstants`, `SnapshotConstants`,
`SealedConstants`, `StoreConstants`, `GovernanceConstants`, `ReceiptConstants`,
`GraphConstants`, `PgvConstants`, `NormAssumption`, `RawAssumption`,
`HarnessAssumption`); TLC evaluates those on each run.  Every safety property of the
passing runs is proved.

**`ReplayFoldProofs`, `ReplayProofs`.**  The inductive invariant is `TypeOK /\
FoldIsLastWrite`; `TypeCorrect` states the first part, which no run repeats.
`FoldCorrect` proves the second, which is the loop invariant: the state is the meaning of
events lo+1..pos, and lo <= pos <= hi <= Len(log).  The lemma beneath it is that
`ApplyEvent` extends a meaning by one event, and that the meaning of a range
inside the log is unaffected by an append.  `CompositionCorrect` rests on a lemma
that `Overlay` of two adjacent meanings is the meaning of the union;
`ReplayDeterminism` on the lemma that a meaning determines the state.
`Refinement` maps a fold to a pending question and every iteration to a stutter.
`FoldMeans` says the same of the operator `Fold`, which snapshots and the sealed
engine use: the fold of any log is the state it means.  It needs induction over the
number of events, which is done by taking a least number where the fact fails
(`LeastCounterexample`) and applying the step lemma just below it.

**`SnapshotProofs`.**  The inductive invariant says where every map on the heap came
from: `StatesOwn` (the maps of a state were made by the events before it, or not at
all) and `SnapshotsOwn` (those of a snapshot by its own `Build`), so that the address
of the next map is one nobody holds.  That is what `SnapshotsIsolated` and
`StatesKeepTheirMaps` need: types alone would allow a fresh map to be somebody's old
one.  `CopiesFaithful` adds that a snapshot
shows what its state shows as long as nobody has written, `TimeOfLastEvent` that the
time of a snapshot of a dated event is the event's.  `ValidateExact` holds even after writes: `Validate`
refolds the log, whose result `FoldMeans` gives, and compares it entry by entry with
what the snapshot shows now.  `BuildsAgree` follows from the last two; it includes
undated events and empty prefixes, where only the dates may differ.
`HeapImplementsValues` is the refinement of `StateValues`.  Ownership does not suffice
for it: which states an assignment reaches depends on which event made the map.
`MapsMadeLast` says that it was the last event of the entity before the state, and the
lemma `SharedIsSame` concludes that two states share a map exactly if no event of the
entity lies between them.  The step lemmas (`ApplyValues`, `BuildValues`,
`WriteStateValues`, `WriteSnapshotValues`) then compute what each state and snapshot
shows before and after.

**`SealedProofs`.**  The inductive invariant relates three references to one heap: the
state of the replay, each snapshot and, through it, each open iterator hold a map that
is what the events behind them leave (`StateHolds`, by `Leaves`), and an iterator has
put out exactly what its registry decodes of the keys it has passed (`Walked`).  It is
inductive because `Apply` and `Fold` only ever append to the heap (`HoldsOn`).
`SnapshotsFixed` and `SealedTypes` are parts of it; `OneHeight` follows at the end of
a walk, for any number of clients, any registry and any order of keys;
`LayersAlwaysAgree` compares `Leaves` with the meaning of the R4 fold, by `FoldMeans`.

**`RuntimeProofs`**, the identity store.  The inductive invariant is `LockDiscipline` with the
types: the holder is the one client inside, a client about to assign still finds
the signature absent, a client about to unlock with a positive answer still finds
it bound.  `Agreement` is not inductive; it follows from "what was told is the
binding", which `Restart` keeps by emptying both.  `StoreRefinesMap` and
`NeverRebound` use the same invariant.

**`RuntimeProofs`**, the receipts.  The inductive invariant says what `Issue` appended (a
receipt built from its execution's request and the trace kept beside it), that
this trace is a prefix of the present one, and that receipts of one execution
are ordered by prefix.  `BindingIdentifiesTrace` and `NoFailureAfterCommitment`
are not inductive: they follow because a receipt is a function of its trace and
an empty trace has no longer prefix.  Injectivity of the hash is the modelling
assumption (a digest stands for the bytes hashed).

**`GovernanceProofs`.**  The core is about one verdict (`AcceptedInPhaseTwo`): a
merge that leaves phase 2 is accepted only if it changes neither the phase nor
the surface, because Gate 3 asks a structural change for a keyword that gives the
compiler a second candidate state.  The inductive invariant carries that over
time: while main is in phase 2 it has never been anywhere else, an approved edit
of the phase never leads to 2, and an approved structural change means that phase
2 is over.  From it follow `PhaseAlwaysKnown`, `SurfaceIsFrozen` and
`PhaseTwoIsOver`, which is at once what saves the frozen surface from late verdicts and
a defect: the state machine has a way back to phase 2, and `NoWayBack` proves that no
pull request can take it, whatever its content (run `governance_cycle`); `PhaseChangeIsGoverned` adds the invariant that a verdict that
is not late still holds for main as it is.  All for any set of pull requests and
any number of pending verdicts.

**`PgvProofs`**, on graphs of any finite size.

* *The search for cycles.*  While it runs (`Searching`) the gray nodes are the ones
  on the stack, each once and each imported by the one below; a frame has dealt with
  every neighbour it no longer lists; black nodes import only black ones and contain no
  loop (`NoLoopIn`: every nonempty set of them has a member that imports none of
  the others).  A gray neighbour closes a chain: `Cyclic`.  At the end all
  projections are black, and a set without a loop has no closed chain.
  `GrayIsThePath` alone is not inductive, and does not say that black nodes are done.
* *The depth.*  Without a cycle a chain has no node twice (`NoLongChain`), so that
  the stack is shorter than `MaxStack` (`StackIsShort`: the assumption on that bound
  is that it exceeds the number of projections).  `FramesSound` says of each frame that
  its depth is that of some chain and no less than that of every neighbour it has
  passed; `MemoExact` and `MaxSoFar` follow as frames return.
* *The verdict.*  `TreeInv` (the graph is that of the tree), `CodesInv` and
  `OutcomeInv` trace the codes from the edges to the exit code; `WholeUsesAreEdges`
  turns edges between modules into uses of whole modules (`WholeUsesDecide`).  That a
  use of an item is missed (section 5) is why `VerdictExact` is an equivalence
  only for trees without such uses.
* *The hash.*  `HashTells`: two graphs with one hash are one graph.  The list of the
  nodes and that of the edges are hashed without anything between them, so the lemma has
  to exclude that a node of one is an edge's end of the other: if one list of
  nodes is shorter, the other goes on with the start of the first edge, which is a
  node already listed, and sorted lists name each node once (`InOrderLists`,
  `SortedEndsList`).  `BaselineStatusExact` and `DeltaExact` add what the files and the
  outcome say (`HashInv`, `DiffInv`).

The recursive functions in these modules (`Fold`, `WrittenBy`, `InOrder`, `endsFrom`,
`sortedEnds`) count up to the length of a sequence.  The proofs solve the recursion
explicitly (`RecursionSolved`) and go through it by least counterexample.

**`HarnessProofs`**: the pipeline, its hosts and the two programs that judge it, for
any inputs, versions, clock, orders of ranges and directories of vectors.  What is
assumed is that normalization of a string is idempotent and leaves alone what the source
spells out (`NormAssumption`), that inputs are documents as a decoder returns them
(`RawAssumption`), and that a vector's inputs stand under the three labels
(`HarnessAssumption`, which also says that the fuzzer's own member names are plain).

* *The invariant of the hosts* (`HostInv`): every run in the history is `Run` of a
  document at some second up to now, in some order of its ranges; every record received
  is what `ParseCER` makes of a record somebody made.  The properties of single and
  paired runs then follow from lemmas about the operators.
* *Order.*  `Winner` is the path itself when no two keys normalize alike
  (`NothingLost`), so that the normalized document is the same in every order
  (`OrderFree`), and with a date in it, `Run` does not read its clock either
  (`RunIsFunction`): `MeaningDecidesOutcome`.
* *The key.*  An entity key is a hash of a tree; `Obj` and the encoding of a document
  without unencodable values lose nothing, so equal keys have equal domain, actor and
  intent, of which the action and target of the input can be read back:
  `KeyIsTheSubject`.
* *The wire.*  `ParseCER` reads back each member of `SerializeCER` up to what the encoder
  writes as null, and the hash sees both alike: `SignatureVerifiesElsewhere`.
* *Running again.*  The parts of a record are settled (`Settled`: strings normalized,
  dates numbers, empty collapse keys null), all stages add only settled members, and
  normalization leaves a settled document as it is (`SettledStays`, `WireSettled`).
  `RecordsRunAgain`, about the command line tool given back what it wrote, goes through the stages of the second run with that, including that
  none of them refuses: the record has all members, a version, a date, an intent in the
  vocabulary and valid ids.
* *The runner.*  `Sound` says that the count of failures is zero exactly if all files
  so far passed (`Tallied`), that the labels still to run are a rest of those given and
  the flag of the file is the conjunction over those already run (`Halfway`), that each
  file behind has its verdict (`Judged`) and what the exit code was computed from
  (`Exited`).  `RunInput` adds a failure exactly if a claim fails at the present second;
  with a date, at the first second as well.  `ExitCodeDecides` follows.
* *The cross-order test.*  `Tested` says, while the copies are compared, that the
  reference is the hash of the input in some run, that every other hash equals it if the
  input has a date, and that there is one after the last of two to eight rotations.  That needs an argument about rotations: `Run` accepts only an
  object whose member `intent` has an action, among the values of a generated input only
  the intent has one, so that the only accepted rotation is the one that moves nothing
  (`ActionNeeded`, `OnlyTheLast`), which is the last of up to eight.
  `CrossOrderDecides` is by that and `MeaningDecidesOutcome`'s lemmas.

TLC has also checked `HostInv`, `Sound` and `Tested` as invariants of the instance of
run `ccnf`.

### What is only model-checked

Liveness (`ReplayReturns`, `CallsReturn`, `VerdictIfAcyclic`): outside the prover, as
is ENABLED.  The five runs that expect a violation have nothing to prove: their
properties are false of the code.

## 5. Disagreements between the code and its documents

With a run (see `findings` in `PROJECT.json`):

* `replay/snapshot/builder.go:38` copies one level; SNAPSHOT_SPEC S6 promises a
  deep copy.
* `scripts/compile-cegla-state.sh:50` reads the declared state from the phase
  the change leaves behind, so an edit from 2 to 4 shows no transition.
* `scripts/compile-cegla-state.sh:93` rejects every change back to phase 2, so that
  `t6_cycle_complete` of `.tools/pgv.state_machine.json:76-81` and Step 5 of ADR-001
  (`docs/adr/ADR-001-ir-identity-governance.md:107-109`) cannot happen.
* `ccnf/serializer.go:36` encodes unexpected Go types as null: artifact
  references and patches are outside the hash.
* `tools/pgv/validator.go:43` knows projections by the prefix `projection/`, the
  Go extractor writes full import paths: no rule of the validator (`ENGINEERS.md`,
  P6 to P10b) applies to a Go package.

Read in the code, without a run, because a line or two show them:

* For the same reason as above `checkP10bDeclared`, which leaves Rust out, never
  meets a node: no annotation is ever compared.
* `tools/pgv/rust_extractor.go:119` makes the use of an item an edge to a path that is
  no node, which P7, P8 and P9 do not see, where `ENGINEERS.md:111` says "No
  projection-to-projection edges".  `VerdictIsTheTrees` therefore promises exactness only
  where all uses are of whole modules; that no false P7 or P9 is raised it says of
  every tree.
* `tools/pgv/validator.go:154` reports a depth of more than 1, where `ENGINEERS.md:110`
  has "Max dependency depth ≤ 0".  `DepthExact` is about the depth that is computed,
  not about the limit.
* `scripts/check-adr001.sh:86` tests `-lt 3` where its header (line 13) says
  `PHASE != 3`: in phase 4 the protected surface is open.
* `ccnf/normalize.go:30` ranges over a map while it renames keys: an input with two
  keys that normalize alike has several records (CCNF_SPEC I1).  `ccnf/ccnf.go:56`
  takes the wall clock for a missing date: such an input has a hash for each second
  (CCNF_SPEC I2, although the same document asks for the clock).
  `SameMeaningSameOutcome` states exactly the conditions under which a record is unique.
* `ccnf/r2.go:365` gives `CanonicalJSON` the pointer that `Run` returned, which is
  written as null: the second pass of `RoundTripChecker.Check` always fails, and
  `TestR2RoundTrip` skips what failed (`ccnf/fuzz_test.go:108-109`).  No input is
  compared with its round trip.  `RecompileKeepsHash` is about another program, the
  command line tool, which is given the text of a record and succeeds.
* `make ci-diff` asks `git diff` about `go/wrp/ccnf-ref` only, and takes the head
  graph for the base when the base has none: `DiffExact` speaks of the commit
  whose graph stands in the file (`baseTree`), not of the one that was asked for.
* The runner has no `fuzz` command (`README.md:192`), and `hash` and `canonical`
  ignore the vector's `ccnf_version`.  It compares two names per input: the other
  expectations of a vector (`alternate_input`, `assert_not_equal` of vector 018)
  are not read.
* The fuzzer's numeric date boundaries are never used: the index is odd in that
  dimension.  The collision detector calls every collision expected.
* A rotation of the values of an input is nearly always refused by `Run`, and a
  refused copy is skipped; what the cross-order test compares is the last
  rotation, which is the input itself, and never reached with more than eight
  keys.  No generated input has so many, and `CrossOrderVerdict` is about the others.
* `ValidateDeltaScope` has no caller (CCNF_SPEC 6.2).
* The adapter drops the entity key and stores the causal chain id as
  `PrevEventID`; `LayersAgree` is stated for keys with one writing entity, and of the
  overwriting of one entity by another no document says anything.
* A receipt with status FAILURE built after a trace append does not validate
  (PARTIAL does); an unknown status does.  `BuildReceipt` sets
  `trace_root_hash` for FAILURE too, where EXECUTION_RECEIPT_SPEC has it empty,
  and passes the trace root twice to `ComputeReplayBinding`.
* Gate 4A of `check-adr001.sh` is skipped when only `pgv.phase` changes; the numeric
  entropy is always 0.
* `bfsMaxDepth` does not terminate on a cycle, so the report of `P8_CYCLE` is
  lost with the process.  The allowlist is never asked about kernel roots.
* ADR-002 freezes a StableID for the lifetime of the system; the only store
  forgets it when the process ends (`Restart`).

## 6. Not modelled, and why

* Hash functions, number formatting and the syntax of ids and dates: data the
  properties do not tell apart.  A hash stands for the bytes hashed, a StableID
  for the pair it is computed from.
* The mutation engine, the collision detector and the round-trip checker of R2:
  copies of an input with a change, a classification with one class, and a check
  that cannot succeed (section 5).
* Of `ValidateReplayInput` of the sealed engine all but the first check: the adapter
  makes the counts agree, and no property is about hashes and event ids.
* `hash`, `canonical`, `process` and `verify` of the runner: one call of `Run`.
* `FormatHuman`, the JSON reports, `ci_status.py` and `pgv diff`: wording, a query
  to GitHub, and the comparison of a graph with itself.
* The entropy accounting, the build order of CI jobs: output only.
* `grep -q` closing a pipe under `pipefail` in the governance scripts, and
  `ValidateDeltaScope`, which nothing calls.
* Data races of callers that share a map without a lock: the API has none to
  offer, and no caller in the repository does it.

## 7. Plan

1. *(done)* `ReplayFold`, `Replay`, `LogQuery` and the proofs; `Snapshot`;
   `IdentityStore` and proofs; `Governance` and proofs.
2. *(done)* `Ccnf`, `CcnfHosts`; `SealedReplay`; `GraphCheck`.
3. *(done)* `Receipts` and proofs.
4. *(done)* `Harness`; `Pgv` around `GraphCheck`; jumps in `SealedReplay`.
5. *(done)* Proofs for `GraphCheck` and `Pgv`, for `Snapshot` and for `SealedReplay`;
   `FoldMeans` for the fold that the last two use.
6. *(done)* Documents as functions of paths in place of recursive operators; the proofs
   for the pipeline, its hosts and the two programs of `Harness`.
7. *(done)* `StateValues`, in which states are values, and the proof that the heap of
   `Snapshot` implements it, writes of callers included.
8. *(done)* `Runtime`, the process of store and receipts; the cycle of the phases as a
   claim of its own.
