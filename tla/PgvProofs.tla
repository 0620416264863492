------------------------------- MODULE PgvProofs -------------------------------
(***************************************************************************)
(* Proofs about GraphCheck and Pgv: for every graph with finitely many     *)
(* projections and every bound on the stack above their number the search  *)
(* and the depth are exact, in every run of the validator on any trees,    *)
(* and the verdict is that of the tree.                                    *)
(***************************************************************************)
EXTENDS Pgv, FiniteSetTheorems, SequenceTheorems, WellFoundedInduction, TLAPS

(* Two numbers have a maximum, and a maximum is what bounds from within.   *)
LEMMA MaxOfTwo ==
  ASSUME NEW a \in Nat, NEW b \in Nat
  PROVE  /\ Max({a, b}) \in {a, b}
         /\ Max({a, b}) >= a /\ Max({a, b}) >= b
         /\ Max({a, b}) \in Nat
  <1>1. \E x \in {a, b} : \A y \in {a, b} : x >= y
    <2>1. CASE a >= b
      BY <2>1
    <2>2. CASE ~(a >= b)
      BY <2>2
    <2>3. QED
      BY <2>1, <2>2
  <1>2. QED
    BY <1>1 DEF Max

LEMMA MaxIs ==
  ASSUME NEW S \in SUBSET Nat, NEW m \in S, \A y \in S : m >= y
  PROVE  Max(S) = m
  <1>1. Max(S) \in S /\ \A y \in S : Max(S) >= y
    BY DEF Max
  <1>2. Max(S) \in Nat /\ m \in Nat /\ Max(S) >= m /\ m >= Max(S)
    BY <1>1
  <1>3. QED
    BY <1>2

(* The top frame of a stack taken off, or another in its place.            *)
LEMMA FrontFacts ==
  ASSUME NEW F, NEW s \in Seq(F), s # <<>>
  PROVE  /\ Len(s) \in Nat \ {0}
         /\ s[Len(s)] \in F
         /\ Front(s) \in Seq(F)
         /\ Len(Front(s)) = Len(s) - 1
         /\ \A i \in 1..(Len(s) - 1) : Front(s)[i] = s[i]
         /\ Front(s) = <<>> <=> Len(s) = 1
  <1>1. Len(s) \in Nat \ {0}
    OBVIOUS
  <1>2. /\ Front(s) \in Seq(F)
        /\ Len(Front(s)) = Len(s) - 1
        /\ \A i \in 1..(Len(s) - 1) : Front(s)[i] = s[i]
    <2>1. \A i \in 1..(Len(s) - 1) : s[i] \in F
      BY <1>1
    <2> DEFINE n == Len(s) - 1
               t == SubSeq(s, 1, n)
    <2>2. n \in Nat
      BY <1>1
    <2>3. /\ t \in Seq(F)
          /\ Len(t) = IF 1 <= n THEN n - 1 + 1 ELSE 0
          /\ \A i \in 1..(n - 1 + 1) : t[i] = s[1 + i - 1]
      <3> HIDE DEF n
      <3>1. QED
        BY <2>1, <2>2, SubSeqProperties DEF n
    <2>4. /\ t \in Seq(F) /\ Len(t) = n /\ \A i \in 1..n : t[i] = s[i]
      <3> HIDE DEF n, t
      <3>1. QED
        BY <2>2, <2>3
    <2>5. QED
      BY <2>4 DEF Front
  <1>3. s[Len(s)] \in F
    BY <1>1
  <1>4. Front(s) = <<>> <=> Len(s) = 1
    BY <1>1, <1>2
  <1>5. QED
    BY <1>1, <1>2, <1>3, <1>4

LEMMA ReplaceFacts ==
  ASSUME NEW F, NEW s \in Seq(F), s # <<>>, NEW f \in F
  PROVE  /\ Append(Front(s), f) \in Seq(F)
         /\ Append(Front(s), f) # <<>>
         /\ Len(Append(Front(s), f)) = Len(s)
         /\ \A i \in 1..Len(s) :
              Append(Front(s), f)[i] = IF i = Len(s) THEN f ELSE s[i]
  BY FrontFacts

-------------------------------------------------------------------------------
(* Chains.                                                                 *)

LEMMA ProjectionsFinite ==
  /\ IsFiniteSet(Projections)
  /\ Cardinality(Projections) \in Nat
  /\ Cardinality(Projections) < MaxStack
  /\ MaxStack \in Nat
  <1>1. Projections \in SUBSET ProjectionPaths
    BY DEF Projections
  <1>2. IsFiniteSet(ProjectionPaths) /\ MaxStack \in Nat
          /\ MaxStack > Cardinality(ProjectionPaths)
    BY GraphConstants
  <1>3. IsFiniteSet(Projections) /\ Cardinality(Projections) <= Cardinality(ProjectionPaths)
    BY <1>1, <1>2, FS_Subset
  <1>4. Cardinality(Projections) \in Nat /\ Cardinality(ProjectionPaths) \in Nat
    BY <1>2, <1>3, FS_CardinalityType
  <1>5. QED
    BY <1>2, <1>3, <1>4

(* As many elements as there are projections, and one more, are not all    *)
(* distinct.                                                               *)
LEMMA DistinctFew ==
  ASSUME NEW n \in Nat, NEW f \in [1..n -> Projections],
         \A i, j \in 1..n : f[i] = f[j] => i = j
  PROVE  n <= Cardinality(Projections)
  <1>1. f \in Injection(1..n, Projections)
    BY DEF Injection, IsInjective
  <1>2. Cardinality(1..n) <= Cardinality(Projections)
    BY <1>1, ProjectionsFinite, FS_Injection
  <1>3. Cardinality(1..n) = n
    BY FS_Interval
  <1>4. QED
    BY <1>2, <1>3

LEMMA NoLongChain ==
  ASSUME ~Cyclic, NEW d \in Nat, NEW p \in [0..d -> Projections], IsChain(p, d)
  PROVE  d < Cardinality(Projections)
  <1> DEFINE N == Cardinality(Projections)
  <1>1. N \in Nat
    BY ProjectionsFinite
  <1>2. SUFFICES ASSUME d >= N PROVE FALSE
    BY <1>1
  <1>3. PICK i \in 0..N, j \in 0..N : i < j /\ p[i] = p[j]
    <2> DEFINE f == [k \in 1..(N + 1) |-> p[k - 1]]
    <2>1. f \in [1..(N + 1) -> Projections]
      BY <1>1, <1>2
    <2>2. PICK k \in 1..(N + 1), l \in 1..(N + 1) : k # l /\ f[k] = f[l]
      <3> HIDE DEF f, N
      <3>1. N + 1 \in Nat /\ ~(N + 1 <= N)
        BY <1>1
      <3>2. QED
        BY <2>1, <3>1, DistinctFew DEF N
    <2>3. p[k - 1] = p[l - 1] /\ k - 1 \in 0..N /\ l - 1 \in 0..N /\ k - 1 # l - 1
      BY <1>1, <2>2
    <2>4. k - 1 < l - 1 \/ l - 1 < k - 1
      BY <1>1, <2>3
    <2>5. QED
      BY <2>3, <2>4
  <1> DEFINE q == [k \in 0..(j - i) |-> p[i + k]]
  <1>4. j - i \in 1..N
    BY <1>1, <1>3
  <1>5. \A k \in 0..(j - i) : i + k \in 0..d
    BY <1>1, <1>2, <1>3
  <1>6. q \in [0..(j - i) -> Projections]
    BY <1>5
  <1>7. IsChain(q, j - i)
    <2>1. ASSUME NEW k \in 0..((j - i) - 1)
          PROVE  <<q[k], q[k + 1]>> \in projectionEdges
      <3>1. i + k \in 0..(d - 1)
        BY <1>1, <1>2, <1>3
      <3>2. <<p[i + k], p[(i + k) + 1]>> \in projectionEdges
        BY <3>1 DEF IsChain
      <3>3. q[k] = p[i + k] /\ q[k + 1] = p[(i + k) + 1]
        BY <1>1, <1>3
      <3>4. QED
        BY <3>2, <3>3
    <2>2. QED
      BY <2>1 DEF IsChain
  <1>8. q[0] = q[j - i]
    BY <1>1, <1>3
  <1>9. QED
    BY <1>4, <1>6, <1>7, <1>8 DEF Cyclic
-------------------------------------------------------------------------------
(* Types.  A call is for a projection and has only neighbours of it left.   *)

FrameType == [node : Projections, rest : SUBSET Projections, deepest : Nat]

Phases == {"extract", "built", "cycles", "depth", "done", "crashed"}

Untouched == /\ white = {} /\ gray = {} /\ black = {} /\ hasCycle = FALSE
             /\ stack = <<>> /\ roots = {} /\ memo = <<>> /\ maxDepth = 0
             /\ violations = {}

TypeInv == /\ phase \in Phases
           /\ phase \in {"extract", "built"} => Untouched
           /\ white \in SUBSET Projections /\ gray \in SUBSET Projections
           /\ black \in SUBSET Projections
           /\ hasCycle \in BOOLEAN
           /\ stack \in Seq(FrameType)
           /\ roots \in SUBSET Projections
           /\ DOMAIN memo \in SUBSET Projections
           /\ memo \in [DOMAIN memo -> Nat]
           /\ maxDepth \in Nat

(* The steps of GraphCheck, with the two that module Pgv supplies.         *)
Step == \/ Check
        \/ \E ns, es : Build(ns, es)
        \/ \E declared : Report(declared)

LEMMA SameGraph ==
  ASSUME UNCHANGED graphVars
  PROVE  /\ Projections' = Projections
         /\ projectionEdges' = projectionEdges
         /\ \A x : adj(x)' = adj(x)
         /\ FrameType' = FrameType
         /\ Cyclic' = Cyclic
  BY DEF graphVars, Projections, projectionEdges, adj, FrameType, Cyclic, IsChain

LEMMA FrameIsTyped ==
  ASSUME NEW n \in Projections
  PROVE  Frame(n) \in FrameType
  BY DEF Frame, FrameType, adj

LEMMA TopIsTyped ==
  ASSUME TypeInv, stack # <<>>
  PROVE  /\ Top \in FrameType /\ Top.node \in Projections
         /\ Top.rest \in SUBSET Projections /\ Top.deepest \in Nat
         /\ \A n : Past(n) = [node |-> Top.node, rest |-> Top.rest \ {n},
                             deepest |-> Top.deepest]
         /\ \A n : Past(n) \in FrameType
  <1>1. Top \in FrameType
    BY FrontFacts DEF Top, TypeInv
  <1>2. ASSUME NEW f \in FrameType, NEW n
        PROVE  /\ f.node \in Projections /\ f.rest \in SUBSET Projections
               /\ f.deepest \in Nat
               /\ [f EXCEPT !.rest = @ \ {n}] =
                    [node |-> f.node, rest |-> f.rest \ {n}, deepest |-> f.deepest]
               /\ [f EXCEPT !.rest = @ \ {n}] \in FrameType
    <2>1. f.node \in Projections /\ f.rest \in SUBSET Projections /\ f.deepest \in Nat
      BY DEF FrameType
    <2>2. f.rest \ {n} \in SUBSET Projections
      BY <2>1
    <2>3. [f EXCEPT !.rest = @ \ {n}] =
            [node |-> f.node, rest |-> f.rest \ {n}, deepest |-> f.deepest]
      <3>1. ASSUME NEW r
            PROVE  [f EXCEPT !.rest = r] =
                     [node |-> f.node, rest |-> r, deepest |-> f.deepest]
        BY DEF FrameType
      <3>2. QED
        BY <3>1
    <2>4. QED
      BY <2>1, <2>2, <2>3 DEF FrameType
  <1>3. QED
    BY <1>1, <1>2 DEF Past

LEMMA DeeperIsTyped ==
  ASSUME NEW f \in FrameType, NEW d \in Nat
  PROVE  /\ Deeper(f, d) \in FrameType
         /\ Deeper(f, d) = [node |-> f.node, rest |-> f.rest,
                            deepest |-> Max({f.deepest, d + 1})]
  <1>1. f.deepest \in Nat /\ d + 1 \in Nat
    BY DEF FrameType
  <1>2. Max({f.deepest, d + 1}) \in Nat
    BY <1>1, MaxOfTwo
  <1>3. QED
    BY <1>2 DEF Deeper, FrameType

LEMMA TypeInvStep ==
  ASSUME TypeInv, Step \/ UNCHANGED vars
  PROVE  TypeInv'
  <1> USE DEF Phases
  <1>1. CASE BeginChecks
    <2>1. UNCHANGED graphVars
      BY <1>1 DEF BeginChecks
    <2>2. QED
      BY <1>1, <2>1, SameGraph DEF BeginChecks, TypeInv, Untouched, graphVars
  <1>2. CASE StartCycleSearch
    <2>1. PICK n \in white : Enter(n, <<>>)
      BY <1>2 DEF StartCycleSearch
    <2>2. n \in Projections
      BY <1>2 DEF StartCycleSearch, TypeInv
    <2>3. stack' \in Seq(FrameType)
      BY <2>1, <2>2, FrameIsTyped DEF Enter
    <2>4. UNCHANGED graphVars
      BY <1>2 DEF StartCycleSearch
    <2>5. QED
      BY <1>2, <2>1, <2>2, <2>3, <2>4, SameGraph
         DEF StartCycleSearch, Enter, TypeInv, depthVars
  <1>3. CASE NextNeighbour
    <2>1. UNCHANGED <<graphVars, phase, depthVars>> /\ phase = "cycles" /\ stack # <<>>
      BY <1>3 DEF NextNeighbour
    <2>2. PICK n \in Top.rest :
            \/ /\ OnPath(n)
               /\ hasCycle' = TRUE /\ stack' = <<>>
               /\ UNCHANGED <<white, gray, black>>
            \/ /\ ~OnPath(n) /\ n \in black
               /\ stack' = Replace(Past(n))
               /\ UNCHANGED <<white, gray, black, hasCycle>>
            \/ /\ ~OnPath(n) /\ n \notin black
               /\ Enter(n, Replace(Past(n)))
               /\ UNCHANGED <<black, hasCycle>>
      BY <1>3 DEF NextNeighbour
    <2>3. n \in Projections /\ Past(n) \in FrameType /\ Frame(n) \in FrameType
      BY <2>1, <2>2, TopIsTyped, FrameIsTyped
    <2>4. Replace(Past(n)) \in Seq(FrameType)
      BY <2>1, <2>3, ReplaceFacts DEF Replace, Below, TypeInv
    <2>5. stack' \in Seq(FrameType)
      <3>1. Append(Replace(Past(n)), Frame(n)) \in Seq(FrameType)
        BY <2>3, <2>4
      <3>2. <<>> \in Seq(FrameType)
        OBVIOUS
      <3>3. QED
        BY <2>2, <2>4, <3>1, <3>2 DEF Enter
    <2>6. /\ white' \in SUBSET Projections /\ gray' \in SUBSET Projections
          /\ black' \in SUBSET Projections /\ hasCycle' \in BOOLEAN
      BY <2>1, <2>2, <2>3 DEF TypeInv, Enter
    <2>7. QED
      BY <2>1, <2>5, <2>6, SameGraph DEF TypeInv, depthVars
  <1>4. CASE LeaveNode
    <2>1. UNCHANGED <<graphVars, phase, white, hasCycle, depthVars>>
            /\ phase = "cycles" /\ stack # <<>>
      BY <1>4 DEF LeaveNode
    <2>2. stack' \in Seq(FrameType)
      BY <1>4, <2>1, FrontFacts DEF LeaveNode, Below, TypeInv
    <2>3. Top.node \in Projections
      BY <2>1, TopIsTyped
    <2>4. gray' = gray \ {Top.node} /\ black' = black \cup {Top.node}
      BY <1>4 DEF LeaveNode
    <2>5. QED
      BY <2>1, <2>2, <2>3, <2>4, SameGraph DEF TypeInv, depthVars
  <1>5. CASE EndCycleSearch
    BY <1>5, SameGraph DEF EndCycleSearch, TypeInv, cycleVars, depthVars
  <1>6. CASE StartDepth
    <2>1. PICK n \in roots : stack' = <<Frame(n)>>
      BY <1>6 DEF StartDepth
    <2>2. stack' \in Seq(FrameType)
      BY <2>1, FrameIsTyped DEF TypeInv
    <2>3. memo' = <<>> /\ DOMAIN memo' = {} /\ memo' \in [DOMAIN memo' -> Nat]
      BY <1>6 DEF StartDepth
    <2>4. QED
      BY <1>6, <2>2, <2>3, SameGraph DEF StartDepth, TypeInv, cycleVars
  <1>7. CASE Descend
    <2>1. UNCHANGED <<graphVars, phase, cycleVars, depthVars>> /\ phase = "depth"
            /\ stack # <<>>
      BY <1>7 DEF Descend
    <2>2. PICK n \in Top.rest :
            stack' = IF n \in DOMAIN memo THEN Replace(Deeper(Past(n), memo[n]))
                                          ELSE Append(Replace(Past(n)), Frame(n))
      BY <1>7 DEF Descend
    <2>3. n \in Projections /\ Past(n) \in FrameType /\ Frame(n) \in FrameType
      BY <2>1, <2>2, TopIsTyped, FrameIsTyped
    <2>4. ASSUME NEW f \in FrameType PROVE Replace(f) \in Seq(FrameType)
      BY <2>1, <2>3, ReplaceFacts DEF Replace, Below, TypeInv
    <2>5. n \in DOMAIN memo => Deeper(Past(n), memo[n]) \in FrameType
      BY <2>3, DeeperIsTyped DEF TypeInv
    <2>6. stack' \in Seq(FrameType)
      BY <2>2, <2>3, <2>4, <2>5
    <2>7. QED
      BY <2>1, <2>6, SameGraph DEF TypeInv, cycleVars, depthVars
  <1>8. CASE Ascend
    <2>1. UNCHANGED <<graphVars, phase, cycleVars>> /\ phase = "depth" /\ stack # <<>>
      BY <1>8 DEF Ascend
    <2>2. /\ Top.node \in Projections /\ Top.deepest \in Nat
      BY <2>1, TopIsTyped
    <2>3. memo' = [x \in DOMAIN memo \cup {Top.node} |->
                     IF x = Top.node THEN Top.deepest ELSE memo[x]]
      BY <1>8 DEF Ascend
    <2>4. DOMAIN memo' \in SUBSET Projections /\ memo' \in [DOMAIN memo' -> Nat]
      BY <2>2, <2>3 DEF TypeInv
    <2>5. Below \in Seq(FrameType)
      BY <2>1, FrontFacts DEF Below, TypeInv
    <2>6. CASE Below # <<>>
      <3>1. stack' = Append(Front(Below), Deeper(Last(Below), Top.deepest))
              /\ UNCHANGED <<roots, maxDepth>>
        BY <1>8, <2>6 DEF Ascend
      <3>2. Last(Below) \in FrameType
        BY <2>5, <2>6, FrontFacts DEF Last
      <3>3. stack' \in Seq(FrameType)
        BY <2>2, <2>5, <2>6, <3>1, <3>2, DeeperIsTyped, ReplaceFacts
      <3>4. QED
        BY <2>1, <2>4, <3>1, <3>3, SameGraph DEF TypeInv, cycleVars
    <2>7. CASE Below = <<>>
      <3>1. stack' = <<>> /\ roots' = roots \ {Top.node}
              /\ maxDepth' = Max({maxDepth, Top.deepest})
        BY <1>8, <2>7 DEF Ascend
      <3>2. maxDepth' \in Nat
        BY <2>2, <3>1, MaxOfTwo DEF TypeInv
      <3>3. QED
        BY <2>1, <2>4, <3>1, <3>2, SameGraph DEF TypeInv, cycleVars
    <2>8. QED
      BY <2>6, <2>7
  <1>9. CASE Overflow
    BY <1>9, SameGraph DEF Overflow, TypeInv, cycleVars, depthVars
  <1>10. CASE \E ns, es : Build(ns, es)
    BY <1>10 DEF Build, TypeInv, Untouched, checkVars, cycleVars, depthVars
  <1>11. CASE \E declared : Report(declared)
    <2>1. /\ UNCHANGED <<graphVars, stack, cycleVars, depthVars>>
          /\ phase = "depth" /\ phase' = "done"
      BY <1>11 DEF Report
    <2>2. QED
      BY <2>1, SameGraph DEF TypeInv, cycleVars, depthVars
  <1>12. CASE UNCHANGED vars
    BY <1>12, SameGraph DEF vars, TypeInv, Untouched, checkVars, cycleVars, depthVars, graphVars
  <1>13. QED
    BY <1>1, <1>2, <1>3, <1>4, <1>5, <1>6, <1>7, <1>8, <1>9, <1>10, <1>11, <1>12
       DEF Step, Check
-------------------------------------------------------------------------------
(* The search for cycles.  While it goes on the three colours partition the *)
(* projections, the gray ones are those on the stack, each imports the next *)
(* one, and what is black is closed under imports and free of cycles: every *)
(* set of black nodes has one that imports none of the set.  A frame has    *)
(* still to look at its rest; its other neighbours are black, but for the   *)
(* one whose call it waits for.                                             *)

OnStack == {stack[i].node : i \in DOMAIN stack}

Distinct == \A i, j \in DOMAIN stack : stack[i].node = stack[j].node => i = j

Linked == \A i \in DOMAIN stack : i + 1 \in DOMAIN stack =>
            <<stack[i].node, stack[i + 1].node>> \in projectionEdges

BlackClosed == \A x \in black : adj(x) \subseteq black

NoLoopIn(S) == \A T \in SUBSET S : T # {} => \E x \in T : adj(x) \cap T = {}

RestIsAhead == \A i \in DOMAIN stack :
  /\ stack[i].rest \subseteq adj(stack[i].node)
  /\ \A y \in adj(stack[i].node) \ stack[i].rest :
       y \in black \/ (i + 1 \in DOMAIN stack /\ y = stack[i + 1].node)

Partition == /\ white \cup gray \cup black = Projections
             /\ white \cap gray = {} /\ white \cap black = {} /\ gray \cap black = {}

Searching == /\ gray = OnStack /\ Distinct /\ Linked
             /\ BlackClosed /\ NoLoopIn(black) /\ RestIsAhead

SearchInv ==
  /\ phase \notin {"extract", "built"} => Partition
  /\ phase = "cycles" /\ ~hasCycle => Searching
  /\ phase = "cycles" /\ hasCycle => Cyclic /\ stack = <<>>
  /\ phase \notin {"extract", "built"} => ("P8_CYCLE" \in violations <=> hasCycle)
  /\ phase \in {"depth", "done", "crashed"} => (hasCycle <=> Cyclic)

LEMMA StackTyped ==
  ASSUME TypeInv
  PROVE  /\ Len(stack) \in Nat /\ DOMAIN stack = 1..Len(stack)
         /\ stack # <<>> => Len(stack) \in DOMAIN stack /\ Top = stack[Len(stack)]
         /\ \A i \in DOMAIN stack :
              /\ stack[i] \in FrameType /\ stack[i].node \in Projections
              /\ stack[i].rest \in SUBSET Projections /\ stack[i].deepest \in Nat
  <1>1. Len(stack) \in Nat /\ DOMAIN stack = 1..Len(stack)
    BY DEF TypeInv
  <1>2. \A i \in DOMAIN stack : stack[i] \in FrameType
    BY <1>1 DEF TypeInv
  <1>3. \A f \in FrameType : /\ f.node \in Projections /\ f.rest \in SUBSET Projections
                             /\ f.deepest \in Nat
    BY DEF FrameType
  <1>4. stack # <<>> => Len(stack) \in DOMAIN stack /\ Top = stack[Len(stack)]
    BY <1>1 DEF Top, TypeInv
  <1>5. QED
    BY <1>1, <1>2, <1>3, <1>4

(* The top frame past one more neighbour.                                  *)
LEMMA PastShape ==
  ASSUME TypeInv, stack # <<>>, NEW n
  PROVE  /\ Replace(Past(n)) \in Seq(FrameType)
         /\ Len(Replace(Past(n))) = Len(stack)
         /\ DOMAIN Replace(Past(n)) = 1..Len(stack)
         /\ \A i \in 1..Len(stack) :
              /\ Replace(Past(n))[i].node = stack[i].node
              /\ Replace(Past(n))[i].rest = IF i = Len(stack) THEN stack[i].rest \ {n}
                                                             ELSE stack[i].rest
              /\ Replace(Past(n))[i].deepest = stack[i].deepest
  <1>1. Past(n) \in FrameType
          /\ Past(n) = [node |-> Top.node, rest |-> Top.rest \ {n}, deepest |-> Top.deepest]
    BY TopIsTyped
  <1>2. stack \in Seq(FrameType)
    BY DEF TypeInv
  <1>3. /\ Replace(Past(n)) \in Seq(FrameType) /\ Len(Replace(Past(n))) = Len(stack)
        /\ \A i \in 1..Len(stack) :
             Replace(Past(n))[i] = IF i = Len(stack) THEN Past(n) ELSE stack[i]
    BY <1>1, <1>2, ReplaceFacts DEF Replace, Below
  <1>4. Top = stack[Len(stack)]
    BY StackTyped
  <1>5. DOMAIN Replace(Past(n)) = 1..Len(stack)
    BY <1>3
  <1>6. ASSUME NEW i \in 1..Len(stack)
        PROVE  /\ Replace(Past(n))[i].node = stack[i].node
               /\ Replace(Past(n))[i].rest = IF i = Len(stack) THEN stack[i].rest \ {n}
                                                              ELSE stack[i].rest
               /\ Replace(Past(n))[i].deepest = stack[i].deepest
    <2>1. CASE i = Len(stack)
      <3>1. Replace(Past(n))[i] = Past(n) /\ stack[i] = Top
        BY <1>3, <1>4, <2>1
      <3> HIDE DEF Past
      <3>2. /\ Past(n).node = Top.node /\ Past(n).rest = Top.rest \ {n}
            /\ Past(n).deepest = Top.deepest
        BY <1>1
      <3>3. QED
        BY <2>1, <3>1, <3>2
    <2>2. CASE i # Len(stack)
      BY <1>3, <2>2
    <2>3. QED
      BY <2>1, <2>2
  <1>7. QED
    BY <1>3, <1>5, <1>6

LEMMA ShortStack ==
  ASSUME TypeInv, Distinct
  PROVE  Len(stack) <= Cardinality(Projections) /\ Len(stack) < MaxStack
  <1> DEFINE f == [i \in 1..Len(stack) |-> stack[i].node]
  <1>1. Len(stack) \in Nat /\ DOMAIN stack = 1..Len(stack)
    BY DEF TypeInv
  <1>2. \A i \in 1..Len(stack) : stack[i] \in FrameType
    BY <1>1 DEF TypeInv
  <1>3. f \in [1..Len(stack) -> Projections]
    BY <1>2 DEF FrameType
  <1>4. \A i, j \in 1..Len(stack) : f[i] = f[j] => i = j
    BY <1>1 DEF Distinct
  <1>5. Len(stack) <= Cardinality(Projections)
    BY <1>1, <1>3, <1>4, DistinctFew
  <1>6. QED
    BY <1>1, <1>5, ProjectionsFinite

(* An import from the top frame to a node of the stack closes a cycle.      *)
LEMMA PathClosed ==
  ASSUME TypeInv, Distinct, Linked, NEW j \in DOMAIN stack,
         <<Top.node, stack[j].node>> \in projectionEdges
  PROVE  Cyclic
  <1> DEFINE d == Len(stack) - j + 1
             p == [k \in 0..d |-> IF k = d THEN stack[j].node ELSE stack[j + k].node]
  <1>1. Len(stack) \in Nat /\ DOMAIN stack = 1..Len(stack) /\ j \in 1..Len(stack)
    BY DEF TypeInv
  <1>2. d \in 1..Cardinality(Projections)
    BY <1>1, ShortStack, ProjectionsFinite
  <1>3. \A i \in 1..Len(stack) : stack[i].node \in Projections
    BY <1>1, StackTyped
  <1>4. p \in [0..d -> Projections]
    BY <1>1, <1>3
  <1>5. ASSUME NEW k \in 0..(d - 1)
        PROVE  <<p[k], p[k + 1]>> \in projectionEdges
    <2>1. CASE k = d - 1
      <3>1. p[k] = stack[Len(stack)].node /\ p[k + 1] = stack[j].node
        BY <1>1, <2>1
      <3>2. QED
        BY <3>1 DEF Top
    <2>2. CASE k # d - 1
      <3>1. j + k \in 1..Len(stack) /\ (j + k) + 1 \in 1..Len(stack)
        BY <1>1, <2>2
      <3>2. p[k] = stack[j + k].node /\ p[k + 1] = stack[(j + k) + 1].node
        BY <1>1, <2>2
      <3>3. QED
        BY <1>1, <3>1, <3>2 DEF Linked
    <2>3. QED
      BY <2>1, <2>2
  <1>6. IsChain(p, d)
    BY <1>5 DEF IsChain
  <1>7. p[0] = p[d]
    BY <1>1
  <1> HIDE DEF d, p
  <1>8. QED
    BY <1>2, <1>4, <1>6, <1>7 DEF Cyclic

LEMMA NoLoopAcyclic ==
  ASSUME NoLoopIn(Projections)
  PROVE  ~Cyclic
  <1> SUFFICES ASSUME Cyclic PROVE FALSE
    OBVIOUS
  <1> DEFINE N == Cardinality(Projections)
  <1>0. N \in Nat
    BY ProjectionsFinite
  <1>1. PICK d \in 1..N : \E p \in [0..d -> Projections] : IsChain(p, d) /\ p[0] = p[d]
    BY DEF Cyclic
  <1>2. PICK p \in [0..d -> Projections] : IsChain(p, d) /\ p[0] = p[d]
    BY <1>1
  <1> DEFINE T == {p[i] : i \in 0..d}
  <1>3. T \in SUBSET Projections /\ p[0] \in T
    BY <1>0
  <1>4. PICK x \in T : adj(x) \cap T = {}
    BY <1>3 DEF NoLoopIn
  <1>5. PICK i \in 0..(d - 1) : x = p[i]
    <2>1. PICK k \in 0..d : x = p[k]
      OBVIOUS
    <2>2. CASE k = d
      BY <1>0, <1>2, <2>1, <2>2
    <2>3. CASE k # d
      BY <1>0, <2>1, <2>3
    <2>4. QED
      BY <2>2, <2>3
  <1>6. i + 1 \in 0..d
    BY <1>0
  <1>7. p[i + 1] \in adj(x) /\ p[i + 1] \in T
    BY <1>2, <1>5, <1>6 DEF IsChain, adj
  <1>8. QED
    BY <1>4, <1>7

(* What is black stays free of cycles when a node is added all of whose     *)
(* imports are black.                                                       *)
LEMMA NoLoopGrows ==
  ASSUME NEW B \in SUBSET Projections, NoLoopIn(B), \A x \in B : adj(x) \subseteq B,
         NEW n, n \notin B, adj(n) \subseteq B
  PROVE  NoLoopIn(B \cup {n})
  <1> SUFFICES ASSUME NEW T \in SUBSET (B \cup {n}), T # {}
               PROVE  \E x \in T : adj(x) \cap T = {}
    BY DEF NoLoopIn
  <1>1. CASE T \ {n} = {}
    <2>1. T = {n}
      BY <1>1
    <2>2. QED
      BY <2>1
  <1>2. CASE T \ {n} # {}
    <2>1. PICK x \in T \ {n} : adj(x) \cap (T \ {n}) = {}
      BY <1>2 DEF NoLoopIn
    <2>2. n \notin adj(x)
      BY <2>1
    <2>3. QED
      BY <2>1, <2>2
  <1>3. QED
    BY <1>1, <1>2

(* The four steps of the search.                                            *)
LEMMA EnterFromLoop ==
  ASSUME TypeInv, Partition, Searching, stack = <<>>, UNCHANGED <<graphVars, black>>,
         NEW n \in white, Enter(n, <<>>)
  PROVE  Partition' /\ Searching'
  <1>1. /\ white' = white \ {n} /\ gray' = gray \cup {n} /\ black' = black
        /\ stack' = <<Frame(n)>>
    BY DEF Enter
  <1>2. Projections' = Projections /\ (\A x : adj(x)' = adj(x))
    BY SameGraph
  <1>3. gray = {}
    BY DEF Searching, OnStack
  <1>4. /\ DOMAIN stack' = {1} /\ stack'[1] = Frame(n)
        /\ stack'[1].node = n /\ stack'[1].rest = adj(n)
    BY <1>1 DEF Frame
  <1>5. OnStack' = {n}
    BY <1>4 DEF OnStack
  <1>6. Partition'
    BY <1>1, <1>2 DEF Partition
  <1>7. Distinct' /\ Linked'
    BY <1>4 DEF Distinct, Linked
  <1>8. RestIsAhead'
    BY <1>2, <1>4 DEF RestIsAhead
  <1>9. BlackClosed' /\ NoLoopIn(black)'
    BY <1>1, <1>2 DEF Searching, BlackClosed, NoLoopIn
  <1>10. QED
    BY <1>1, <1>3, <1>5, <1>6, <1>7, <1>8, <1>9 DEF Searching

LEMMA PassBlack ==
  ASSUME TypeInv, Partition, Searching, stack # <<>>, NEW n \in black,
         UNCHANGED <<graphVars, white, gray, black>>, stack' = Replace(Past(n))
  PROVE  Partition' /\ Searching'
  <1>1. Projections' = Projections /\ projectionEdges' = projectionEdges
          /\ (\A x : adj(x)' = adj(x))
    BY SameGraph
  <1>2. DOMAIN stack = 1..Len(stack) /\ Len(stack) \in Nat
    BY StackTyped
  <1>3. /\ Len(stack') = Len(stack) /\ DOMAIN stack' = 1..Len(stack)
        /\ \A i \in 1..Len(stack) :
             /\ stack'[i].node = stack[i].node
             /\ stack'[i].rest = IF i = Len(stack) THEN stack[i].rest \ {n}
                                                  ELSE stack[i].rest
    BY PastShape
  <1>4. DOMAIN stack' = DOMAIN stack
    BY <1>2, <1>3
  <1>5. OnStack' = OnStack
    BY <1>2, <1>3, <1>4 DEF OnStack
  <1>6. Distinct' /\ Linked'
    BY <1>1, <1>2, <1>3, <1>4 DEF Searching, Distinct, Linked
  <1>7. RestIsAhead'
    <2> SUFFICES ASSUME NEW i \in DOMAIN stack
                 PROVE  /\ stack'[i].rest \subseteq adj(stack[i].node)
                        /\ \A y \in adj(stack[i].node) \ stack'[i].rest :
                             y \in black \/ (i + 1 \in DOMAIN stack /\ y = stack[i + 1].node)
      BY <1>1, <1>2, <1>3, <1>4 DEF RestIsAhead
    <2>1. /\ stack[i].rest \subseteq adj(stack[i].node)
          /\ \A y \in adj(stack[i].node) \ stack[i].rest :
                 y \in black \/ (i + 1 \in DOMAIN stack /\ y = stack[i + 1].node)
      BY DEF Searching, RestIsAhead
    <2>2. stack'[i].rest \subseteq stack[i].rest /\ stack[i].rest \subseteq stack'[i].rest \cup {n}
      BY <1>2, <1>3
    <2>3. QED
      BY <2>1, <2>2
  <1>8. Partition'
    BY <1>1 DEF Partition
  <1>9. BlackClosed' /\ NoLoopIn(black)'
    BY <1>1 DEF Searching, BlackClosed, NoLoopIn
  <1>10. QED
    BY <1>5, <1>6, <1>7, <1>8, <1>9 DEF Searching

LEMMA EnterNeighbour ==
  ASSUME TypeInv, Partition, Searching, stack # <<>>, NEW n \in Top.rest,
         n \notin gray, n \notin black,
         UNCHANGED <<graphVars, black>>, Enter(n, Replace(Past(n)))
  PROVE  Partition' /\ Searching'
  <1> DEFINE s == Replace(Past(n))
             L == Len(stack)
  <1>1. Projections' = Projections /\ projectionEdges' = projectionEdges
          /\ (\A x : adj(x)' = adj(x))
    BY SameGraph
  <1>2. DOMAIN stack = 1..L /\ L \in Nat /\ L > 0 /\ Top = stack[L] /\ L \in 1..L
    BY StackTyped DEF TypeInv
  <1>3. /\ s \in Seq(FrameType) /\ Len(s) = L
        /\ \A i \in 1..L :
             /\ s[i].node = stack[i].node
             /\ s[i].rest = IF i = L THEN stack[i].rest \ {n} ELSE stack[i].rest
    BY PastShape
  <1>4. /\ white' = white \ {n} /\ gray' = gray \cup {n} /\ black' = black
        /\ stack' = Append(s, Frame(n))
    BY DEF Enter
  <1>5. n \in adj(Top.node) /\ n \in Projections /\ <<Top.node, n>> \in projectionEdges
    <2>1. n \in adj(Top.node)
      BY <1>2 DEF Searching, RestIsAhead
    <2>2. QED
      BY <2>1 DEF adj
  <1> HIDE DEF s, L
  <1>6. /\ Len(stack') = L + 1 /\ DOMAIN stack' = 1..(L + 1)
        /\ stack'[L + 1].node = n /\ stack'[L + 1].rest = adj(n)
        /\ \A i \in 1..L :
             /\ stack'[i].node = stack[i].node
             /\ stack'[i].rest = IF i = L THEN stack[i].rest \ {n} ELSE stack[i].rest
    <2>1. Frame(n) \in FrameType
      BY <1>5, FrameIsTyped
    <2>2. /\ Len(stack') = L + 1 /\ DOMAIN stack' = 1..(L + 1)
          /\ stack'[L + 1] = Frame(n)
          /\ \A i \in 1..L : stack'[i] = s[i]
      BY <1>2, <1>3, <1>4, <2>1
    <2>3. Frame(n).node = n /\ Frame(n).rest = adj(n)
      BY DEF Frame
    <2>4. QED
      BY <1>3, <2>2, <2>3
  <1>7. \A i \in 1..(L + 1) : i \in 1..L \/ i = L + 1
    BY <1>2
  <1>8. OnStack' = OnStack \cup {n}
    <2>1. OnStack = {stack[i].node : i \in 1..L}
      BY <1>2 DEF OnStack
    <2>2. OnStack' = {stack'[i].node : i \in 1..(L + 1)}
      BY <1>6 DEF OnStack
    <2>3. \A i \in 1..L : i \in 1..(L + 1) /\ stack'[i].node = stack[i].node
      <3>1. \A i \in 1..L : i \in 1..(L + 1)
        BY <1>2
      <3>2. QED
        BY <1>6, <3>1
    <2>4. L + 1 \in 1..(L + 1) /\ stack'[L + 1].node = n
      BY <1>2, <1>6
    <2>5. QED
      BY <1>7, <2>1, <2>2, <2>3, <2>4
  <1>9. n \notin OnStack
    BY DEF Searching
  <1>10. Distinct'
    <2>1. \A i \in 1..L : stack'[i].node # n
      BY <1>2, <1>6, <1>9 DEF OnStack
    <2>2. \A i, j \in 1..L : stack'[i].node = stack'[j].node => i = j
      BY <1>2, <1>6 DEF Searching, Distinct
    <2>3. QED
      BY <1>6, <1>7, <2>1, <2>2 DEF Distinct
  <1>11. Linked'
    <2> SUFFICES ASSUME NEW i \in 1..L
                 PROVE  <<stack'[i].node, stack'[i + 1].node>> \in projectionEdges
      BY <1>1, <1>2, <1>6, <1>7 DEF Linked
    <2>1. CASE i = L
      BY <1>2, <1>5, <1>6, <2>1
    <2>2. CASE i # L
      <3>1. i + 1 \in 1..L
        BY <1>2, <2>2
      <3>2. QED
        BY <1>2, <1>6, <3>1 DEF Searching, Linked
    <2>3. QED
      BY <2>1, <2>2
  <1>12. RestIsAhead'
    <2> SUFFICES ASSUME NEW i \in 1..(L + 1)
                 PROVE  /\ stack'[i].rest \subseteq adj(stack'[i].node)
                        /\ \A y \in adj(stack'[i].node) \ stack'[i].rest :
                             y \in black \/ (i + 1 \in 1..(L + 1) /\ y = stack'[i + 1].node)
      BY <1>1, <1>4, <1>6 DEF RestIsAhead
    <2>1. CASE i = L + 1
      BY <1>6, <2>1
    <2>2. CASE i = L
      <3>1. /\ stack[i].rest \subseteq adj(stack[i].node)
            /\ \A y \in adj(stack[i].node) \ stack[i].rest : y \in black
        BY <1>2, <2>2 DEF Searching, RestIsAhead
      <3>2. i + 1 \in 1..(L + 1) /\ stack'[i + 1].node = n
        BY <1>2, <1>6, <2>2
      <3>3. stack'[i].rest = stack[i].rest \ {n} /\ stack'[i].node = stack[i].node
        BY <1>2, <1>6, <2>2
      <3>4. QED
        BY <3>1, <3>2, <3>3
    <2>3. CASE i \in 1..L /\ i # L
      <3>1. /\ stack[i].rest \subseteq adj(stack[i].node)
            /\ \A y \in adj(stack[i].node) \ stack[i].rest :
                 y \in black \/ y = stack[i + 1].node
        BY <1>2, <2>3 DEF Searching, RestIsAhead
      <3>2. i + 1 \in 1..(L + 1) /\ stack'[i + 1].node = stack[i + 1].node
        <4>1. i + 1 \in 1..L /\ i + 1 \in 1..(L + 1)
          BY <1>2, <2>3
        <4>2. QED
          BY <1>6, <4>1
      <3>3. stack'[i].rest = stack[i].rest /\ stack'[i].node = stack[i].node
        BY <1>2, <1>6, <2>3
      <3>4. QED
        BY <3>1, <3>2, <3>3
    <2>4. QED
      BY <1>7, <2>1, <2>2, <2>3
  <1>13. Partition'
    BY <1>1, <1>4, <1>5 DEF Partition
  <1>14. BlackClosed' /\ NoLoopIn(black)'
    BY <1>1 DEF Searching, BlackClosed, NoLoopIn
  <1>15. gray' = OnStack'
    BY <1>4, <1>8 DEF Searching
  <1>16. QED
    BY <1>10, <1>11, <1>12, <1>13, <1>14, <1>15 DEF Searching

LEMMA LeaveTop ==
  ASSUME TypeInv, Partition, Searching, stack # <<>>, Top.rest = {},
         UNCHANGED <<graphVars, white>>, stack' = Below,
         gray' = gray \ {Top.node}, black' = black \cup {Top.node}
  PROVE  Partition' /\ Searching'
  <1> DEFINE n == Top.node
             L == Len(stack)
  <1>1. Projections' = Projections /\ projectionEdges' = projectionEdges
          /\ (\A x : adj(x)' = adj(x))
    BY SameGraph
  <1>2. DOMAIN stack = 1..L /\ L \in Nat /\ L > 0 /\ Top = stack[L] /\ L \in 1..L
    BY StackTyped DEF TypeInv
  <1>3. /\ stack' \in Seq(FrameType) /\ Len(stack') = L - 1
        /\ DOMAIN stack' = 1..(L - 1)
        /\ \A i \in 1..(L - 1) : stack'[i] = stack[i]
    <2>1. stack \in Seq(FrameType)
      BY DEF TypeInv
    <2>2. /\ stack' \in Seq(FrameType) /\ Len(stack') = L - 1
          /\ \A i \in 1..(L - 1) : stack'[i] = stack[i]
      BY <2>1, FrontFacts DEF Below
    <2>3. QED
      BY <2>2
  <1> HIDE DEF L
  <1>4. adj(n) \subseteq black
    <2>1. L + 1 \notin DOMAIN stack
      BY <1>2
    <2>2. \A y \in adj(n) \ Top.rest : y \in black
      BY <1>2, <2>1 DEF Searching, RestIsAhead
    <2>3. QED
      BY <2>2
  <1>5. n \in gray /\ n \notin black /\ n \notin white /\ n \in Projections
    <2>1. n \in OnStack
      BY <1>2 DEF OnStack
    <2>2. QED
      BY <2>1 DEF Searching, Partition
  <1>6. \A i \in 1..L : i \in 1..(L - 1) \/ i = L
    BY <1>2
  <1>7. OnStack' = OnStack \ {n}
    <2>1. \A i \in 1..(L - 1) : i \in 1..L /\ i # L
      BY <1>2
    <2>2. \A i \in 1..(L - 1) : stack[i].node # n
      BY <1>2, <2>1 DEF Searching, Distinct
    <2>3. QED
      BY <1>2, <1>3, <1>6, <2>1, <2>2 DEF OnStack
  <1>8. Distinct' /\ Linked'
    BY <1>1, <1>2, <1>3 DEF Searching, Distinct, Linked
  <1>9. RestIsAhead'
    <2> SUFFICES ASSUME NEW i \in 1..(L - 1)
                 PROVE  /\ stack'[i].rest \subseteq adj(stack'[i].node)
                        /\ \A y \in adj(stack'[i].node) \ stack'[i].rest :
                             \/ y \in black \cup {n}
                             \/ i + 1 \in 1..(L - 1) /\ y = stack'[i + 1].node
      BY <1>1, <1>3 DEF RestIsAhead
    <2>1. /\ stack[i].rest \subseteq adj(stack[i].node)
          /\ \A y \in adj(stack[i].node) \ stack[i].rest :
               y \in black \/ y = stack[i + 1].node
      BY <1>2 DEF Searching, RestIsAhead
    <2>2. stack'[i] = stack[i]
      BY <1>3
    <2>3. CASE i + 1 \in 1..(L - 1)
      BY <1>3, <2>1, <2>2, <2>3
    <2>4. CASE i + 1 = L
      BY <1>2, <2>1, <2>2, <2>4
    <2>5. QED
      BY <1>2, <2>3, <2>4
  <1>10. Partition'
    BY <1>1, <1>5 DEF Partition
  <1>11. BlackClosed'
    BY <1>1, <1>4 DEF Searching, BlackClosed
  <1>12. NoLoopIn(black \cup {n})
    BY <1>4, <1>5, NoLoopGrows DEF Searching, BlackClosed, TypeInv
  <1>13. NoLoopIn(black)'
    BY <1>1, <1>12 DEF NoLoopIn
  <1>14. QED
    BY <1>7, <1>8, <1>9, <1>10, <1>11, <1>13 DEF Searching

(* Each frame of the search is for another node.                            *)
LEMMA SearchFits ==
  ASSUME TypeInv, SearchInv, phase = "cycles"
  PROVE  Len(stack) # MaxStack
  <1>1. CASE hasCycle
    <2>1. stack = <<>>
      BY <1>1 DEF SearchInv
    <2>2. Len(stack) = 0 /\ 0 < MaxStack /\ MaxStack \in Nat
      BY <2>1, ProjectionsFinite
    <2>3. QED
      BY <2>2
  <1>2. CASE ~hasCycle
    <2>1. Len(stack) < MaxStack
      BY <1>2, ShortStack DEF SearchInv, Searching
    <2>2. Len(stack) \in Nat /\ MaxStack \in Nat
      BY StackTyped, ProjectionsFinite
    <2>3. QED
      BY <2>1, <2>2
  <1>3. QED
    BY <1>1, <1>2

LEMMA SearchInvStep ==
  ASSUME TypeInv, SearchInv, Step \/ UNCHANGED vars
  PROVE  SearchInv'
  <1> USE DEF Phases
  <1>1. CASE BeginChecks
    <2>1. UNCHANGED <<graphVars, gray, black, hasCycle, stack>> /\ phase = "built"
            /\ phase' = "cycles" /\ white' = Projections
            /\ violations' = checkCrossImport
      BY <1>1 DEF BeginChecks
    <2>2. gray = {} /\ black = {} /\ hasCycle = FALSE /\ stack = <<>>
      BY <2>1 DEF TypeInv, Untouched
    <2>3. Partition'
      BY <2>1, <2>2, SameGraph DEF Partition
    <2>4. Searching'
      BY <2>1, <2>2 DEF Searching, OnStack, Distinct, Linked, BlackClosed, NoLoopIn, RestIsAhead
    <2>5. "P8_CYCLE" \notin violations'
      BY <2>1 DEF checkCrossImport, Code
    <2>6. QED
      BY <2>1, <2>2, <2>3, <2>4, <2>5 DEF SearchInv
  <1>2. CASE StartCycleSearch
    <2>1. /\ UNCHANGED <<graphVars, phase, black, hasCycle, violations>>
          /\ phase = "cycles" /\ stack = <<>> /\ ~hasCycle
      BY <1>2 DEF StartCycleSearch
    <2>2. PICK n \in white : Enter(n, <<>>)
      BY <1>2 DEF StartCycleSearch
    <2>3. Partition' /\ Searching'
      BY <2>1, <2>2, EnterFromLoop DEF SearchInv
    <2>4. QED
      BY <2>1, <2>3 DEF SearchInv
  <1>3. CASE NextNeighbour
    <2>1. UNCHANGED <<graphVars, phase>> /\ phase = "cycles" /\ stack # <<>>
      BY <1>3 DEF NextNeighbour
    <2>2. PICK n \in Top.rest :
            \/ /\ OnPath(n)
               /\ hasCycle' = TRUE /\ stack' = <<>>
               /\ violations' = violations \cup {"P8_CYCLE"}
               /\ UNCHANGED <<white, gray, black>>
            \/ /\ ~OnPath(n) /\ n \in black
               /\ stack' = Replace(Past(n))
               /\ UNCHANGED <<white, gray, black, hasCycle, violations>>
            \/ /\ ~OnPath(n) /\ n \notin black
               /\ Enter(n, Replace(Past(n)))
               /\ UNCHANGED <<black, hasCycle, violations>>
      BY <1>3 DEF NextNeighbour
    <2>3. ~hasCycle /\ Partition /\ Searching
      BY <2>1 DEF SearchInv
    <2>4. CASE /\ OnPath(n)
               /\ hasCycle' = TRUE /\ stack' = <<>>
               /\ violations' = violations \cup {"P8_CYCLE"}
               /\ UNCHANGED <<white, gray, black>>
      <3>1. PICK j \in DOMAIN stack : n = stack[j].node
        BY <2>3, <2>4 DEF OnPath, Searching, OnStack
      <3>2. <<Top.node, n>> \in projectionEdges
        BY <2>1, <2>2, <2>3, StackTyped DEF Searching, RestIsAhead, adj
      <3>3. Cyclic
        BY <2>3, <3>1, <3>2, PathClosed DEF Searching
      <3>4. Cyclic' /\ Partition'
        BY <2>1, <2>3, <2>4, <3>3, SameGraph DEF Partition
      <3>5. QED
        BY <2>1, <2>4, <3>4 DEF SearchInv
    <2>5. CASE /\ ~OnPath(n) /\ n \in black
               /\ stack' = Replace(Past(n))
               /\ UNCHANGED <<white, gray, black, hasCycle, violations>>
      <3>1. Partition' /\ Searching'
        BY <2>1, <2>3, <2>5, PassBlack
      <3>2. QED
        BY <2>1, <2>3, <2>5, <3>1 DEF SearchInv
    <2>6. CASE /\ ~OnPath(n) /\ n \notin black
               /\ Enter(n, Replace(Past(n)))
               /\ UNCHANGED <<black, hasCycle, violations>>
      <3>1. Partition' /\ Searching'
        BY <2>1, <2>2, <2>3, <2>6, EnterNeighbour DEF OnPath
      <3>2. QED
        BY <2>1, <2>3, <2>6, <3>1 DEF SearchInv
    <2>7. QED
      BY <2>2, <2>4, <2>5, <2>6
  <1>4. CASE LeaveNode
    <2>1. /\ UNCHANGED <<graphVars, phase, white, hasCycle, violations>>
          /\ phase = "cycles" /\ stack # <<>> /\ Top.rest = {} /\ stack' = Below
          /\ gray' = gray \ {Top.node} /\ black' = black \cup {Top.node}
      BY <1>4 DEF LeaveNode
    <2>2. ~hasCycle /\ Partition /\ Searching
      BY <2>1 DEF SearchInv
    <2>3. Partition' /\ Searching'
      BY <2>1, <2>2, LeaveTop
    <2>4. QED
      BY <2>1, <2>2, <2>3 DEF SearchInv
  <1>5. CASE EndCycleSearch
    <2>1. /\ UNCHANGED <<graphVars, stack, cycleVars, violations>>
          /\ phase = "cycles" /\ phase' = "depth" /\ stack = <<>>
          /\ hasCycle \/ white = {}
      BY <1>5 DEF EndCycleSearch
    <2>2. Partition' /\ Cyclic' = Cyclic
      BY <2>1, SameGraph DEF SearchInv, Partition, cycleVars
    <2>3. hasCycle <=> Cyclic
      <3>1. CASE hasCycle
        BY <2>1, <3>1 DEF SearchInv
      <3>2. CASE ~hasCycle
        <4>1. Searching /\ gray = {} /\ white = {}
          BY <2>1, <3>2 DEF SearchInv, Searching, OnStack
        <4>2. black = Projections
          BY <2>1, <4>1 DEF SearchInv, Partition
        <4>3. ~Cyclic
          BY <4>1, <4>2, NoLoopAcyclic DEF Searching
        <4>4. QED
          BY <3>2, <4>3
      <3>3. QED
        BY <3>1, <3>2
    <2>4. QED
      BY <2>1, <2>2, <2>3 DEF SearchInv, cycleVars
  <1>6. ASSUME UNCHANGED <<graphVars, cycleVars>>, phase = "depth",
               phase' \in {"depth", "done", "crashed"},
               "P8_CYCLE" \in violations' <=> "P8_CYCLE" \in violations
        PROVE  SearchInv'
    <2>1. Partition' /\ Cyclic' = Cyclic
      BY <1>6, SameGraph DEF SearchInv, Partition, cycleVars
    <2>2. QED
      BY <1>6, <2>1 DEF SearchInv, cycleVars
  <1>7. CASE StartDepth
    BY <1>6, <1>7 DEF StartDepth
  <1>8. CASE Descend
    BY <1>6, <1>8 DEF Descend
  <1>9. CASE Ascend
    <2>1. /\ UNCHANGED <<graphVars, phase, cycleVars>> /\ phase = "depth"
          /\ \/ violations' = violations
             \/ violations' = violations \cup Code(Top.deepest > 1, "P6_DEPTH_EXCEEDED")
      BY <1>9 DEF Ascend
    <2>2. "P8_CYCLE" \in violations' <=> "P8_CYCLE" \in violations
      BY <2>1 DEF Code
    <2>3. QED
      BY <1>6, <2>1, <2>2
  <1>10. CASE Overflow
    <2>1. /\ UNCHANGED <<graphVars, cycleVars, violations>> /\ phase' = "crashed"
          /\ phase \in {"cycles", "depth"} /\ Len(stack) = MaxStack
      BY <1>10 DEF Overflow
    <2>2. CASE phase = "depth"
      BY <1>6, <2>1, <2>2
    <2>3. CASE phase = "cycles"
      BY <2>1, <2>3, SearchFits
    <2>4. QED
      BY <2>1, <2>2, <2>3
  <1>11. CASE \E ns, es : Build(ns, es)
    BY <1>11 DEF Build, SearchInv
  <1>12. CASE \E declared : Report(declared)
    <2>1. PICK declared : Report(declared)
      BY <1>12
    <2>2. "P8_CYCLE" \in violations' <=> "P8_CYCLE" \in violations
      BY <2>1 DEF Report, checkBackflow, checkP10aForbidden, checkP10bAllowlist,
                  checkP10bDeclared, Code
    <2>3. QED
      BY <1>6, <2>1, <2>2 DEF Report
  <1>13. CASE UNCHANGED vars
    <2>1. UNCHANGED <<nodes, edges, graphVars, phase, white, gray, black, stack,
                      hasCycle, violations>>
      BY <1>13 DEF vars, checkVars, cycleVars, graphVars
    <2>2. Partition' = Partition /\ Searching' = Searching /\ Cyclic' = Cyclic
      BY <2>1, SameGraph DEF Partition, Searching, OnStack, Distinct, Linked,
                             BlackClosed, NoLoopIn, RestIsAhead
    <2>3. QED
      BY <2>1, <2>2 DEF SearchInv
  <1>14. QED
    BY <1>1, <1>2, <1>3, <1>4, <1>5, <1>7, <1>8, <1>9, <1>10, <1>11, <1>12, <1>13
       DEF Step, Check
-------------------------------------------------------------------------------
(* The depth.  On an acyclic graph what a frame holds is the length of some *)
(* chain from its node and bounds those through each neighbour that it is   *)
(* done with; a memo, which is written on return, is exact.                 *)

Bounds(n, d) == \A k \in Nat : ChainFrom(n, k) => k <= d

Longest(n, d) == ChainFrom(n, d) /\ Bounds(n, d)

Through(y, d) == \A k \in Nat : ChainFrom(y, k) => k + 1 <= d

FramesSound == \A i \in DOMAIN stack :
  /\ ChainFrom(stack[i].node, stack[i].deepest)
  /\ stack[i].rest \subseteq adj(stack[i].node)
  /\ \A y \in adj(stack[i].node) \ stack[i].rest :
       \/ i + 1 \in DOMAIN stack /\ y = stack[i + 1].node
       \/ Through(y, stack[i].deepest)

MemoExact == \A n \in DOMAIN memo : Longest(n, memo[n])

MaxSoFar ==
  /\ \A n \in Projections \ roots : \E m \in Nat : Longest(n, m) /\ m <= maxDepth
  /\ maxDepth = 0 \/ \E n \in Projections : Longest(n, maxDepth)

DepthInv ==
  /\ phase \in {"extract", "built", "cycles"} =>
       /\ memo = <<>> /\ maxDepth = 0 /\ "P6_DEPTH_EXCEEDED" \notin violations
       /\ phase = "cycles" => roots = Projections
  /\ phase \in {"depth", "done"} => ("P6_DEPTH_EXCEEDED" \in violations <=> maxDepth > 1)
  /\ phase = "done" => roots = {}
  /\ ~Cyclic => /\ phase # "crashed"
                /\ phase \in {"depth", "done"} => MemoExact /\ MaxSoFar
                /\ phase = "depth" => Linked /\ FramesSound

LEMMA ChainZero ==
  ASSUME NEW n \in Projections
  PROVE  ChainFrom(n, 0)
  <1>1. [i \in 0..0 |-> n] \in [0..0 -> Projections]
    OBVIOUS
  <1>2. IsChain([i \in 0..0 |-> n], 0)
    BY DEF IsChain
  <1>3. 0 \in 0..0
    OBVIOUS
  <1>4. QED
    BY <1>1, <1>2, <1>3 DEF ChainFrom

LEMMA ChainCons ==
  ASSUME NEW x \in Projections, NEW y \in adj(x), NEW k \in Nat, ChainFrom(y, k)
  PROVE  ChainFrom(x, k + 1)
  <1>1. PICK p \in [0..k -> Projections] : IsChain(p, k) /\ p[0] = y
    BY DEF ChainFrom
  <1> DEFINE q == [i \in 0..(k + 1) |-> IF i = 0 THEN x ELSE p[i - 1]]
  <1>2. q \in [0..(k + 1) -> Projections]
    <2>1. \A i \in 0..(k + 1) : i # 0 => i - 1 \in 0..k
      OBVIOUS
    <2>2. QED
      BY <2>1
  <1>3. ASSUME NEW i \in 0..((k + 1) - 1)
        PROVE  <<q[i], q[i + 1]>> \in projectionEdges
    <2>1. CASE i = 0
      <3>1. q[i] = x /\ q[i + 1] = y
        BY <1>1, <2>1
      <3>2. QED
        BY <3>1 DEF adj
    <2>2. CASE i # 0
      <3>1. i - 1 \in 0..(k - 1) /\ (i - 1) + 1 = i
        BY <2>2
      <3>2. <<p[i - 1], p[i]>> \in projectionEdges
        BY <1>1, <3>1 DEF IsChain
      <3>3. q[i] = p[i - 1] /\ q[i + 1] = p[i]
        BY <2>2
      <3>4. QED
        BY <3>2, <3>3
    <2>3. QED
      BY <2>1, <2>2
  <1>4. IsChain(q, k + 1)
    BY <1>3 DEF IsChain
  <1>5. q[0] = x
    OBVIOUS
  <1> HIDE DEF q
  <1>6. QED
    BY <1>2, <1>4, <1>5 DEF ChainFrom

LEMMA ChainTail ==
  ASSUME NEW x \in Projections, NEW k \in Nat, k > 0, ChainFrom(x, k)
  PROVE  \E y \in adj(x) : ChainFrom(y, k - 1)
  <1>1. PICK p \in [0..k -> Projections] : IsChain(p, k) /\ p[0] = x
    BY DEF ChainFrom
  <1> DEFINE q == [i \in 0..(k - 1) |-> p[i + 1]]
  <1>2. q \in [0..(k - 1) -> Projections]
    <2>1. \A i \in 0..(k - 1) : i + 1 \in 0..k
      OBVIOUS
    <2>2. QED
      BY <2>1
  <1>3. ASSUME NEW i \in 0..((k - 1) - 1)
        PROVE  <<q[i], q[i + 1]>> \in projectionEdges
    <2>1. i + 1 \in 0..(k - 1)
      OBVIOUS
    <2>2. <<p[i + 1], p[(i + 1) + 1]>> \in projectionEdges
      BY <1>1, <2>1 DEF IsChain
    <2>3. q[i] = p[i + 1] /\ q[i + 1] = p[(i + 1) + 1]
      BY <2>1
    <2>4. QED
      BY <2>2, <2>3
  <1>4. IsChain(q, k - 1)
    BY <1>3 DEF IsChain
  <1>5. q[0] = p[1] /\ p[1] \in adj(x)
    <2>1. 0 \in 0..(k - 1) /\ 1 \in 0..k
      OBVIOUS
    <2>2. <<p[0], p[0 + 1]>> \in projectionEdges
      BY <1>1, <2>1 DEF IsChain
    <2>3. QED
      BY <1>1, <2>1, <2>2 DEF adj
  <1> HIDE DEF q
  <1>6. ChainFrom(q[0], k - 1)
    BY <1>2, <1>4 DEF ChainFrom
  <1>7. QED
    BY <1>5, <1>6

(* The frames of an acyclic graph are a chain, and so fewer than its nodes. *)
LEMMA StackIsShort ==
  ASSUME TypeInv, ~Cyclic, Linked
  PROVE  Len(stack) <= Cardinality(Projections)
  <1> DEFINE d == Len(stack) - 1
             p == [i \in 0..d |-> stack[i + 1].node]
  <1>1. Len(stack) \in Nat /\ DOMAIN stack = 1..Len(stack)
          /\ \A i \in 1..Len(stack) : stack[i].node \in Projections
    BY StackTyped
  <1>2. CASE Len(stack) = 0
    BY <1>2, ProjectionsFinite
  <1>3. CASE Len(stack) # 0
    <2>1. d \in Nat /\ \A i \in 0..d : i + 1 \in 1..Len(stack)
      BY <1>1, <1>3
    <2>2. p \in [0..d -> Projections]
      BY <1>1, <2>1
    <2>3. ASSUME NEW i \in 0..(d - 1)
          PROVE  <<p[i], p[i + 1]>> \in projectionEdges
      <3>1. i + 1 \in 1..Len(stack) /\ (i + 1) + 1 \in 1..Len(stack)
              /\ i \in 0..d /\ i + 1 \in 0..d
        BY <1>1, <1>3
      <3>2. <<stack[i + 1].node, stack[(i + 1) + 1].node>> \in projectionEdges
        BY <1>1, <3>1 DEF Linked
      <3>3. QED
        BY <3>1, <3>2
    <2>4. IsChain(p, d)
      BY <2>3 DEF IsChain
    <2>5. d < Cardinality(Projections)
      <3> HIDE DEF d, p
      <3>1. QED
        BY <2>1, <2>2, <2>4, NoLongChain
    <2>6. QED
      BY <1>1, <2>1, <2>5, ProjectionsFinite
  <1>4. QED
    BY <1>2, <1>3

LEMMA LongestIs ==
  ASSUME ~Cyclic, NEW n \in Projections, NEW m \in Nat, Longest(n, m)
  PROVE  LongestFrom(n) = m
  <1> DEFINE N == Cardinality(Projections)
             S == {d \in 0..N : ChainFrom(n, d)}
  <1>1. N \in Nat
    BY ProjectionsFinite
  <1>2. PICK p \in [0..m -> Projections] : IsChain(p, m)
    BY DEF Longest, ChainFrom
  <1>3. m < N
    BY <1>2, NoLongChain
  <1>4. m \in S
    BY <1>1, <1>3 DEF Longest
  <1>5. S \in SUBSET Nat /\ \A y \in S : m >= y
    BY <1>1 DEF Longest, Bounds
  <1>6. Max(S) = m
    BY <1>4, <1>5, MaxIs
  <1>7. QED
    BY <1>6 DEF LongestFrom

LEMMA DeeperSound ==
  ASSUME NEW x \in Projections, NEW y \in adj(x), NEW old \in Nat, NEW d \in Nat,
         ChainFrom(x, old), Longest(y, d)
  PROVE  /\ ChainFrom(x, Max({old, d + 1}))
         /\ Through(y, Max({old, d + 1}))
         /\ \A z : Through(z, old) => Through(z, Max({old, d + 1}))
  <1> DEFINE e == Max({old, d + 1})
  <1>1. e \in {old, d + 1} /\ e >= old /\ e >= d + 1 /\ e \in Nat
    BY MaxOfTwo
  <1> HIDE DEF e
  <1>2. ChainFrom(x, d + 1)
    BY ChainCons DEF Longest
  <1>3. ChainFrom(x, e)
    BY <1>1, <1>2
  <1>4. Through(y, e)
    BY <1>1 DEF Longest, Bounds, Through
  <1>5. \A z : Through(z, old) => Through(z, e)
    BY <1>1 DEF Through
  <1>6. QED
    BY <1>3, <1>4, <1>5 DEF e

LEMMA SameChains ==
  ASSUME UNCHANGED graphVars
  PROVE  /\ \A n, d : ChainFrom(n, d)' = ChainFrom(n, d)
         /\ \A n, d : Bounds(n, d)' = Bounds(n, d)
         /\ \A n, d : Longest(n, d)' = Longest(n, d)
         /\ \A n, d : Through(n, d)' = Through(n, d)
  <1>1. Projections' = Projections /\ projectionEdges' = projectionEdges
    BY SameGraph
  <1>2. \A n, d : ChainFrom(n, d)' = ChainFrom(n, d)
    BY <1>1 DEF ChainFrom, IsChain
  <1>3. QED
    BY <1>2 DEF Bounds, Longest, Through

(* A node without neighbours left has its depth in the frame.              *)
LEMMA TopIsExact ==
  ASSUME TypeInv, stack # <<>>, FramesSound, Top.rest = {}
  PROVE  Longest(Top.node, Top.deepest)
  <1> DEFINE L == Len(stack)
  <1>1. /\ L \in DOMAIN stack /\ Top = stack[L] /\ L + 1 \notin DOMAIN stack
        /\ Top.node \in Projections /\ Top.deepest \in Nat
    <2>1. L \in Nat /\ DOMAIN stack = 1..L /\ L \in DOMAIN stack /\ Top = stack[L]
      BY StackTyped
    <2>2. L + 1 \notin 1..L
      BY <2>1
    <2>3. QED
      BY <2>1, <2>2, TopIsTyped
  <1>2. ChainFrom(Top.node, Top.deepest)
    BY <1>1 DEF FramesSound
  <1>3. \A y \in adj(Top.node) : Through(y, Top.deepest)
    BY <1>1 DEF FramesSound
  <1>4. ASSUME NEW k \in Nat, ChainFrom(Top.node, k)
        PROVE  k <= Top.deepest
    <2>1. CASE k = 0
      BY <1>1, <2>1
    <2>2. CASE k > 0
      <3>1. PICK y \in adj(Top.node) : ChainFrom(y, k - 1)
        BY <1>1, <1>4, <2>2, ChainTail
      <3>2. k - 1 \in Nat /\ (k - 1) + 1 = k
        BY <2>2
      <3>3. QED
        BY <1>3, <3>1, <3>2 DEF Through
    <2>3. QED
      BY <2>1, <2>2
  <1>5. QED
    BY <1>2, <1>4 DEF Longest, Bounds

(* The top frame takes the depth d of the neighbour y over from a memo.     *)
LEMMA TakeMemo ==
  ASSUME TypeInv, stack # <<>>, Linked, FramesSound, UNCHANGED graphVars,
         NEW y \in Top.rest, NEW d \in Nat, Longest(y, d),
         stack' = Replace(Deeper(Past(y), d))
  PROVE  Linked' /\ FramesSound'
  <1> DEFINE L == Len(stack)
             e == Max({Top.deepest, d + 1})
             f == Deeper(Past(y), d)
  <1>1. L \in Nat /\ L > 0 /\ DOMAIN stack = 1..L /\ L \in 1..L /\ Top = stack[L]
    BY StackTyped DEF TypeInv
  <1>2. /\ Top.node \in Projections /\ Top.deepest \in Nat
        /\ Past(y) \in FrameType
        /\ Past(y) = [node |-> Top.node, rest |-> Top.rest \ {y}, deepest |-> Top.deepest]
    BY TopIsTyped
  <1>3. f \in FrameType /\ f.node = Top.node /\ f.rest = Top.rest \ {y} /\ f.deepest = e
    <2> HIDE DEF f
    <2>1. /\ Past(y).node = Top.node /\ Past(y).rest = Top.rest \ {y}
          /\ Past(y).deepest = Top.deepest
      BY <1>2
    <2>2. /\ f \in FrameType
          /\ f = [node |-> Past(y).node, rest |-> Past(y).rest,
                  deepest |-> Max({Past(y).deepest, d + 1})]
      BY <1>2, DeeperIsTyped DEF f
    <2>3. QED
      BY <2>1, <2>2
  <1>4. stack' = Append(Front(stack), f)
    BY DEF Replace, Below
  <1> HIDE DEF f, L
  <1>5. /\ DOMAIN stack' = 1..L
        /\ \A i \in 1..L : stack'[i] = IF i = L THEN f ELSE stack[i]
    <2>1. stack \in Seq(FrameType)
      BY DEF TypeInv
    <2>2. /\ stack' \in Seq(FrameType) /\ Len(stack') = L
          /\ \A i \in 1..L : stack'[i] = IF i = L THEN f ELSE stack[i]
      BY <1>3, <1>4, <2>1, ReplaceFacts DEF L
    <2>3. QED
      BY <2>2
  <1>6. \A i \in 1..L : stack'[i].node = stack[i].node
    BY <1>1, <1>3, <1>5
  <1>7. Linked'
    BY <1>1, <1>5, <1>6, SameGraph DEF Linked
  <1>8. /\ ChainFrom(Top.node, Top.deepest) /\ Top.rest \subseteq adj(Top.node)
        /\ \A z \in adj(Top.node) \ Top.rest : Through(z, Top.deepest)
    <2>1. L + 1 \notin DOMAIN stack
      BY <1>1
    <2>2. QED
      BY <1>1, <2>1 DEF FramesSound
  <1>9. /\ ChainFrom(Top.node, e) /\ Through(y, e)
        /\ \A z : Through(z, Top.deepest) => Through(z, e)
    BY <1>2, <1>8, DeeperSound
  <1> HIDE DEF e
  <1>10. /\ ChainFrom(f.node, f.deepest) /\ f.rest \subseteq adj(f.node)
         /\ \A z \in adj(f.node) \ f.rest : Through(z, f.deepest)
    BY <1>3, <1>8, <1>9
  <1>11. ASSUME NEW i \in 1..L
         PROVE  /\ ChainFrom(stack'[i].node, stack'[i].deepest)
                /\ stack'[i].rest \subseteq adj(stack'[i].node)
                /\ \A z \in adj(stack'[i].node) \ stack'[i].rest :
                     \/ i + 1 \in 1..L /\ z = stack'[i + 1].node
                     \/ Through(z, stack'[i].deepest)
    <2>1. CASE i = L
      BY <1>5, <1>10, <2>1
    <2>2. CASE i # L
      <3>1. stack'[i] = stack[i]
        BY <1>5, <2>2
      <3>2. /\ ChainFrom(stack[i].node, stack[i].deepest)
            /\ stack[i].rest \subseteq adj(stack[i].node)
            /\ \A z \in adj(stack[i].node) \ stack[i].rest :
                 \/ i + 1 \in 1..L /\ z = stack[i + 1].node
                 \/ Through(z, stack[i].deepest)
        BY <1>1 DEF FramesSound
      <3>3. QED
        BY <1>6, <3>1, <3>2
    <2>3. QED
      BY <2>1, <2>2
  <1>12. FramesSound'
    BY <1>5, <1>11, SameGraph, SameChains DEF FramesSound
  <1>13. QED
    BY <1>7, <1>12

(* A call for the neighbour n of the top frame.                             *)
LEMMA CallNeighbour ==
  ASSUME TypeInv, stack # <<>>, Linked, FramesSound, UNCHANGED graphVars,
         NEW n \in Top.rest, stack' = Append(Replace(Past(n)), Frame(n))
  PROVE  Linked' /\ FramesSound'
  <1> DEFINE s == Replace(Past(n))
             L == Len(stack)
  <1>1. L \in Nat /\ L > 0 /\ DOMAIN stack = 1..L /\ L \in 1..L /\ Top = stack[L]
    BY StackTyped DEF TypeInv
  <1>2. /\ s \in Seq(FrameType) /\ Len(s) = L
        /\ \A i \in 1..L :
             /\ s[i].node = stack[i].node
             /\ s[i].rest = IF i = L THEN stack[i].rest \ {n} ELSE stack[i].rest
             /\ s[i].deepest = stack[i].deepest
    BY PastShape
  <1>3. n \in adj(Top.node) /\ n \in Projections /\ <<Top.node, n>> \in projectionEdges
    <2>1. n \in adj(Top.node)
      BY <1>1 DEF FramesSound
    <2>2. QED
      BY <2>1 DEF adj
  <1>4. Frame(n) \in FrameType /\ Frame(n) = [node |-> n, rest |-> adj(n), deepest |-> 0]
    BY <1>3, FrameIsTyped DEF Frame
  <1> HIDE DEF s, L
  <1>5. /\ DOMAIN stack' = 1..(L + 1) /\ stack'[L + 1] = Frame(n)
        /\ \A i \in 1..L : stack'[i] = s[i]
    BY <1>1, <1>2, <1>4 DEF s
  <1>6. /\ stack'[L + 1].node = n /\ stack'[L + 1].rest = adj(n)
        /\ stack'[L + 1].deepest = 0
    <2> HIDE DEF Frame
    <2>1. Frame(n).node = n /\ Frame(n).rest = adj(n) /\ Frame(n).deepest = 0
      BY <1>4
    <2>2. QED
      BY <1>5, <2>1
  <1>7. \A i \in 1..(L + 1) : i \in 1..L \/ i = L + 1
    BY <1>1
  <1>8. \A i \in 1..L : i + 1 \in 1..(L + 1) /\ (i # L => i + 1 \in 1..L)
    BY <1>1
  <1>9. \A i \in 1..L : i # L => stack'[i + 1].node = stack[i + 1].node
    BY <1>2, <1>5, <1>8
  <1>10. ASSUME NEW i \in 1..L
         PROVE  <<stack'[i].node, stack'[i + 1].node>> \in projectionEdges
    <2>1. CASE i = L
      BY <1>1, <1>2, <1>3, <1>5, <1>6, <2>1
    <2>2. CASE i # L
      <3>1. <<stack[i].node, stack[i + 1].node>> \in projectionEdges
        BY <1>1, <1>8, <2>2 DEF Linked
      <3>2. QED
        BY <1>2, <1>5, <1>9, <2>2, <3>1
    <2>3. QED
      BY <2>1, <2>2
  <1>11. Linked'
    <2>1. L + 2 \notin 1..(L + 1)
      BY <1>1
    <2>2. \A i \in 1..(L + 1) : i + 1 \in 1..(L + 1) => i \in 1..L
      BY <1>1
    <2>3. QED
      BY <1>5, <1>10, <2>2, SameGraph DEF Linked
  <1>12. ASSUME NEW i \in 1..(L + 1)
         PROVE  /\ ChainFrom(stack'[i].node, stack'[i].deepest)
                /\ stack'[i].rest \subseteq adj(stack'[i].node)
                /\ \A z \in adj(stack'[i].node) \ stack'[i].rest :
                     \/ i + 1 \in 1..(L + 1) /\ z = stack'[i + 1].node
                     \/ Through(z, stack'[i].deepest)
    <2>1. CASE i = L + 1
      BY <1>3, <1>6, <2>1, ChainZero
    <2>2. CASE i \in 1..L
      <3>1. /\ ChainFrom(stack[i].node, stack[i].deepest)
            /\ stack[i].rest \subseteq adj(stack[i].node)
            /\ \A z \in adj(stack[i].node) \ stack[i].rest :
                 \/ i + 1 \in 1..L /\ z = stack[i + 1].node
                 \/ Through(z, stack[i].deepest)
        BY <1>1, <2>2 DEF FramesSound
      <3>2. stack'[i].node = stack[i].node /\ stack'[i].deepest = stack[i].deepest
        BY <1>2, <1>5, <2>2
      <3>3. CASE i = L
        <4>1. stack'[i].rest = stack[i].rest \ {n} /\ stack'[i + 1].node = n
          BY <1>2, <1>5, <1>6, <2>2, <3>3
        <4>2. i + 1 \notin 1..L /\ i + 1 \in 1..(L + 1)
          BY <1>1, <3>3
        <4>3. QED
          BY <3>1, <3>2, <4>1, <4>2
      <3>4. CASE i # L
        <4>1. stack'[i].rest = stack[i].rest
          BY <1>2, <1>5, <2>2, <3>4
        <4>2. QED
          BY <1>8, <1>9, <2>2, <3>1, <3>2, <3>4, <4>1
      <3>5. QED
        BY <3>3, <3>4
    <2>3. QED
      BY <1>7, <2>1, <2>2
  <1>13. FramesSound'
    <2>1. \A i \in 1..(L + 1) :
            /\ ChainFrom(stack'[i].node, stack'[i].deepest)
            /\ stack'[i].rest \subseteq adj(stack'[i].node)
            /\ \A z \in adj(stack'[i].node) \ stack'[i].rest :
                 \/ i + 1 \in 1..(L + 1) /\ z = stack'[i + 1].node
                 \/ Through(z, stack'[i].deepest)
      BY <1>12
    <2>2. DOMAIN stack' = 1..(L + 1)
      BY <1>5
    <2>3. \A i \in DOMAIN stack' :
            /\ ChainFrom(stack'[i].node, stack'[i].deepest)
            /\ stack'[i].rest \subseteq adj(stack'[i].node)
            /\ \A z \in adj(stack'[i].node) \ stack'[i].rest :
                 \/ i + 1 \in DOMAIN stack' /\ z = stack'[i + 1].node
                 \/ Through(z, stack'[i].deepest)
      BY <2>1, <2>2
    <2>4. QED
      BY <2>3, SameGraph, SameChains DEF FramesSound
  <1>14. QED
    BY <1>11, <1>13

(* The return of the top frame to its caller.                               *)
LEMMA ReturnDepth ==
  ASSUME TypeInv, stack # <<>>, Linked, FramesSound, UNCHANGED graphVars,
         Top.rest = {}, Below # <<>>,
         stack' = Append(Front(Below), Deeper(Last(Below), Top.deepest))
  PROVE  Linked' /\ FramesSound'
  <1> DEFINE M == Len(stack) - 1
             c == stack[M]
             e == Max({c.deepest, Top.deepest + 1})
             f == Deeper(c, Top.deepest)
  <1>1. stack \in Seq(FrameType) /\ Len(stack) \in Nat /\ DOMAIN stack = 1..Len(stack)
          /\ Top = stack[Len(stack)]
    BY StackTyped DEF TypeInv
  <1>2. /\ Below \in Seq(FrameType) /\ Len(Below) = M
        /\ \A i \in 1..M : Below[i] = stack[i]
    BY <1>1, FrontFacts DEF Below
  <1>3. M \in Nat /\ M > 0 /\ M \in 1..M /\ M + 1 = Len(stack) /\ M \in DOMAIN stack
          /\ M + 1 \in DOMAIN stack
    BY <1>1, <1>2
  <1>4. Last(Below) = c
    BY <1>2, <1>3 DEF Last
  <1>5. c \in FrameType /\ c.node \in Projections /\ c.deepest \in Nat
          /\ c.rest \in SUBSET Projections
    BY <1>3, StackTyped
  <1>6. Top.node \in Projections /\ Top.deepest \in Nat
    BY TopIsTyped
  <1>7. f \in FrameType /\ f.node = c.node /\ f.rest = c.rest /\ f.deepest = e
    <2> HIDE DEF f, c
    <2>1. f \in FrameType /\ f = [node |-> c.node, rest |-> c.rest, deepest |-> e]
      BY <1>5, <1>6, DeeperIsTyped DEF f
    <2>2. QED
      BY <2>1
  <1>8. stack' = Append(Front(Below), f)
    BY <1>4
  <1> HIDE DEF f, M
  <1>9. /\ DOMAIN stack' = 1..M
        /\ \A i \in 1..M : stack'[i] = IF i = M THEN f ELSE stack[i]
    <2>1. /\ stack' \in Seq(FrameType) /\ Len(stack') = M
          /\ \A i \in 1..M : stack'[i] = IF i = M THEN f ELSE Below[i]
      BY <1>2, <1>7, <1>8, ReplaceFacts
    <2>2. QED
      BY <1>2, <2>1
  <1>10. \A i \in 1..M : stack'[i].node = stack[i].node
    BY <1>7, <1>9
  <1>11. \A i \in 1..M : i \in DOMAIN stack /\ i + 1 \in DOMAIN stack
    <2>1. \A i \in 1..M : i \in 1..(M + 1) /\ i + 1 \in 1..(M + 1)
      BY <1>3
    <2>2. QED
      BY <1>1, <1>3, <2>1
  <1>12. Linked'
    BY <1>9, <1>10, <1>11, SameGraph DEF Linked
  <1>13. Longest(Top.node, Top.deepest)
    BY TopIsExact
  <1>14. Top.node \in adj(c.node) /\ Top.node = stack[M + 1].node
    BY <1>1, <1>3, <1>6 DEF Linked, adj
  <1>15. /\ ChainFrom(c.node, c.deepest) /\ c.rest \subseteq adj(c.node)
         /\ \A z \in adj(c.node) \ c.rest : z = Top.node \/ Through(z, c.deepest)
    BY <1>3, <1>14 DEF FramesSound
  <1>16. /\ ChainFrom(c.node, e) /\ Through(Top.node, e)
         /\ \A z : Through(z, c.deepest) => Through(z, e)
    BY <1>5, <1>6, <1>13, <1>14, <1>15, DeeperSound
  <1> HIDE DEF c, e
  <1>17. /\ ChainFrom(f.node, f.deepest) /\ f.rest \subseteq adj(f.node)
         /\ \A z \in adj(f.node) \ f.rest : Through(z, f.deepest)
    BY <1>7, <1>15, <1>16
  <1>18. ASSUME NEW i \in 1..M
         PROVE  /\ ChainFrom(stack'[i].node, stack'[i].deepest)
                /\ stack'[i].rest \subseteq adj(stack'[i].node)
                /\ \A z \in adj(stack'[i].node) \ stack'[i].rest :
                     \/ i + 1 \in 1..M /\ z = stack'[i + 1].node
                     \/ Through(z, stack'[i].deepest)
    <2>1. CASE i = M
      BY <1>9, <1>17, <2>1
    <2>2. CASE i # M
      <3>1. stack'[i] = stack[i] /\ i + 1 \in 1..M
        BY <1>3, <1>9, <2>2
      <3>2. /\ ChainFrom(stack[i].node, stack[i].deepest)
            /\ stack[i].rest \subseteq adj(stack[i].node)
            /\ \A z \in adj(stack[i].node) \ stack[i].rest :
                 \/ z = stack[i + 1].node
                 \/ Through(z, stack[i].deepest)
        BY <1>11 DEF FramesSound
      <3>3. QED
        BY <1>10, <3>1, <3>2
    <2>3. QED
      BY <2>1, <2>2
  <1>19. FramesSound'
    <2>1. \A i \in 1..M :
            /\ ChainFrom(stack'[i].node, stack'[i].deepest)
            /\ stack'[i].rest \subseteq adj(stack'[i].node)
            /\ \A z \in adj(stack'[i].node) \ stack'[i].rest :
                 \/ i + 1 \in 1..M /\ z = stack'[i + 1].node
                 \/ Through(z, stack'[i].deepest)
      BY <1>18
    <2>2. DOMAIN stack' = 1..M
      BY <1>9
    <2>3. \A i \in DOMAIN stack' :
            /\ ChainFrom(stack'[i].node, stack'[i].deepest)
            /\ stack'[i].rest \subseteq adj(stack'[i].node)
            /\ \A z \in adj(stack'[i].node) \ stack'[i].rest :
                 \/ i + 1 \in DOMAIN stack' /\ z = stack'[i + 1].node
                 \/ Through(z, stack'[i].deepest)
      BY <2>1, <2>2
    <2>4. QED
      BY <2>3, SameGraph, SameChains DEF FramesSound
  <1>20. QED
    BY <1>12, <1>19

LEMMA DepthInvStep ==
  ASSUME TypeInv, SearchInv, DepthInv, Step \/ UNCHANGED vars
  PROVE  DepthInv'
  <1> USE DEF Phases
  <1>1. CASE BeginChecks
    <2>1. /\ UNCHANGED <<graphVars, memo, maxDepth>> /\ phase = "built"
          /\ phase' = "cycles" /\ roots' = Projections /\ violations' = checkCrossImport
      BY <1>1 DEF BeginChecks
    <2>2. "P6_DEPTH_EXCEEDED" \notin violations'
      BY <2>1 DEF checkCrossImport, Code
    <2>3. QED
      BY <2>1, <2>2, SameGraph DEF DepthInv
  <1>2. ASSUME UNCHANGED <<graphVars, depthVars>>, phase = "cycles", phase' = "cycles",
               "P6_DEPTH_EXCEEDED" \notin violations'
        PROVE  DepthInv'
    BY <1>2, SameGraph DEF DepthInv, depthVars
  <1>3. CASE StartCycleSearch
    BY <1>2, <1>3 DEF StartCycleSearch, DepthInv
  <1>4. CASE NextNeighbour
    <2>1. /\ UNCHANGED <<graphVars, phase, depthVars>> /\ phase = "cycles"
          /\ violations' = violations \/ violations' = violations \cup {"P8_CYCLE"}
      BY <1>4 DEF NextNeighbour
    <2>2. "P6_DEPTH_EXCEEDED" \notin violations'
      BY <2>1 DEF DepthInv
    <2>3. QED
      BY <1>2, <2>1, <2>2
  <1>5. CASE LeaveNode
    BY <1>2, <1>5 DEF LeaveNode, DepthInv
  <1>6. CASE EndCycleSearch
    <2>1. /\ UNCHANGED <<graphVars, stack, cycleVars, depthVars, violations>>
          /\ phase = "cycles" /\ phase' = "depth" /\ stack = <<>>
      BY <1>6 DEF EndCycleSearch
    <2>2. /\ memo = <<>> /\ maxDepth = 0 /\ roots = Projections
          /\ "P6_DEPTH_EXCEEDED" \notin violations
      BY <2>1 DEF DepthInv
    <2>3. UNCHANGED <<memo, maxDepth, roots>>
      BY <2>1 DEF depthVars
    <2>4. MemoExact' /\ Linked' /\ FramesSound'
      BY <2>1, <2>2, <2>3 DEF MemoExact, Linked, FramesSound
    <2>5. MaxSoFar'
      BY <2>1, <2>2, <2>3, SameGraph DEF MaxSoFar
    <2>6. QED
      BY <2>1, <2>2, <2>3, <2>4, <2>5 DEF DepthInv
  <1>7. CASE StartDepth
    <2>1. /\ UNCHANGED <<graphVars, phase, roots, maxDepth, violations>>
          /\ phase = "depth" /\ memo' = <<>>
      BY <1>7 DEF StartDepth
    <2>2. PICK n \in roots : stack' = <<Frame(n)>>
      BY <1>7 DEF StartDepth
    <2>3. n \in Projections
      BY <2>2 DEF TypeInv
    <2>4. DOMAIN stack' = {1} /\ stack'[1].node = n /\ stack'[1].rest = adj(n)
            /\ stack'[1].deepest = 0
      BY <2>2 DEF Frame
    <2>5. Linked'
      BY <2>4 DEF Linked
    <2>6. FramesSound'
      <3>1. ChainFrom(n, 0)
        BY <2>3, ChainZero
      <3>2. QED
        BY <2>1, <2>4, <3>1, SameGraph, SameChains DEF FramesSound
    <2>7. MemoExact'
      BY <2>1 DEF MemoExact
    <2>8. MaxSoFar' = MaxSoFar
      BY <2>1, SameGraph, SameChains DEF MaxSoFar
    <2>9. QED
      BY <2>1, <2>5, <2>6, <2>7, <2>8, SameGraph DEF DepthInv
  <1>8. CASE Descend
    <2>1. /\ UNCHANGED <<graphVars, phase, depthVars, violations>>
          /\ phase = "depth" /\ stack # <<>>
      BY <1>8 DEF Descend
    <2>2. UNCHANGED <<roots, memo, maxDepth>>
      BY <2>1 DEF depthVars
    <2>3. PICK n \in Top.rest :
            stack' = IF n \in DOMAIN memo THEN Replace(Deeper(Past(n), memo[n]))
                                          ELSE Append(Replace(Past(n)), Frame(n))
      BY <1>8 DEF Descend
    <2>4. ~Cyclic => Linked' /\ FramesSound'
      <3> SUFFICES ASSUME ~Cyclic PROVE Linked' /\ FramesSound'
        OBVIOUS
      <3>1. Linked /\ FramesSound /\ MemoExact
        BY <2>1 DEF DepthInv
      <3>2. CASE n \in DOMAIN memo
        <4>1. memo[n] \in Nat /\ Longest(n, memo[n])
          BY <3>1, <3>2 DEF MemoExact, TypeInv
        <4>2. QED
          BY <2>1, <2>3, <3>1, <3>2, <4>1, TakeMemo
      <3>3. CASE n \notin DOMAIN memo
        BY <2>1, <2>3, <3>1, <3>3, CallNeighbour
      <3>4. QED
        BY <3>2, <3>3
    <2>5. MaxSoFar' = MaxSoFar /\ MemoExact' = MemoExact
      BY <2>1, <2>2, SameGraph, SameChains DEF MaxSoFar, MemoExact
    <2>6. QED
      BY <2>1, <2>2, <2>4, <2>5, SameGraph DEF DepthInv
  <1>9. CASE Ascend
    <2>1. /\ UNCHANGED <<graphVars, phase>> /\ phase = "depth" /\ stack # <<>>
          /\ Top.rest = {}
          /\ memo' = [x \in DOMAIN memo \cup {Top.node} |->
                        IF x = Top.node THEN Top.deepest ELSE memo[x]]
      BY <1>9 DEF Ascend
    <2>2. Top.node \in Projections /\ Top.deepest \in Nat
      BY <2>1, TopIsTyped
    <2>3. ~Cyclic => Longest(Top.node, Top.deepest) /\ MemoExact'
      <3> SUFFICES ASSUME ~Cyclic PROVE Longest(Top.node, Top.deepest) /\ MemoExact'
        OBVIOUS
      <3>1. Linked /\ FramesSound /\ MemoExact
        BY <2>1 DEF DepthInv
      <3>2. Longest(Top.node, Top.deepest)
        BY <2>1, <3>1, TopIsExact
      <3>3. \A x \in DOMAIN memo' : Longest(x, memo'[x])
        BY <2>1, <3>1, <3>2 DEF MemoExact
      <3>4. MemoExact'
        <4>1. \A x, d : Longest(x, d) => Longest(x, d)'
          BY <2>1, SameChains
        <4>2. QED
          BY <3>3, <4>1 DEF MemoExact
      <3>5. QED
        BY <3>2, <3>4
    <2>4. CASE Below # <<>>
      <3>1. /\ stack' = Append(Front(Below), Deeper(Last(Below), Top.deepest))
            /\ UNCHANGED <<roots, maxDepth, violations>>
        BY <1>9, <2>4 DEF Ascend
      <3>2. ~Cyclic => Linked' /\ FramesSound'
        BY <2>1, <2>4, <3>1, ReturnDepth DEF DepthInv
      <3>3. MaxSoFar' = MaxSoFar
        BY <2>1, <3>1, SameGraph, SameChains DEF MaxSoFar
      <3>4. QED
        BY <2>1, <2>3, <3>1, <3>2, <3>3, SameGraph DEF DepthInv
    <2>5. CASE Below = <<>>
      <3> DEFINE m == Max({maxDepth, Top.deepest})
      <3>1. /\ stack' = <<>> /\ roots' = roots \ {Top.node} /\ maxDepth' = m
            /\ violations' = violations \cup Code(Top.deepest > 1, "P6_DEPTH_EXCEEDED")
        BY <1>9, <2>5 DEF Ascend
      <3>2. /\ m \in {maxDepth, Top.deepest} /\ m >= maxDepth /\ m >= Top.deepest /\ m \in Nat
            /\ maxDepth \in Nat
        BY <2>2, MaxOfTwo DEF TypeInv
      <3> HIDE DEF m
      <3>3. "P6_DEPTH_EXCEEDED" \in violations' <=> maxDepth' > 1
        <4>1. "P6_DEPTH_EXCEEDED" \in violations <=> maxDepth > 1
          BY <2>1 DEF DepthInv
        <4>2. "P6_DEPTH_EXCEEDED" \in violations'
                <=> "P6_DEPTH_EXCEEDED" \in violations \/ Top.deepest > 1
          BY <3>1 DEF Code
        <4>3. m > 1 <=> maxDepth > 1 \/ Top.deepest > 1
          BY <2>2, <3>2
        <4>4. QED
          BY <3>1, <4>1, <4>2, <4>3
      <3>4. Linked' /\ FramesSound'
        BY <3>1 DEF Linked, FramesSound
      <3>5. ~Cyclic => MaxSoFar'
        <4> SUFFICES ASSUME ~Cyclic PROVE MaxSoFar'
          OBVIOUS
        <4>1. MaxSoFar /\ Longest(Top.node, Top.deepest)
          BY <2>1, <2>3 DEF DepthInv
        <4>2. ASSUME NEW n \in Projections \ roots'
              PROVE  \E k \in Nat : Longest(n, k) /\ k <= m
          <5>1. CASE n = Top.node
            BY <2>2, <3>2, <4>1, <5>1
          <5>2. CASE n # Top.node
            <6>1. PICK k \in Nat : Longest(n, k) /\ k <= maxDepth
              BY <3>1, <4>1, <5>2 DEF MaxSoFar
            <6>2. k <= m
              BY <3>2, <6>1
            <6>3. QED
              BY <6>1, <6>2
          <5>3. QED
            BY <5>1, <5>2
        <4>3. m = 0 \/ \E n \in Projections : Longest(n, m)
          <5>1. CASE m = maxDepth
            BY <4>1, <5>1 DEF MaxSoFar
          <5>2. CASE m = Top.deepest
            BY <2>2, <4>1, <5>2
          <5>3. QED
            BY <3>2, <5>1, <5>2
        <4>4. QED
          BY <2>1, <3>1, <4>2, <4>3, SameGraph, SameChains DEF MaxSoFar
      <3>6. QED
        BY <2>1, <2>3, <3>3, <3>4, <3>5, SameGraph DEF DepthInv
    <2>6. QED
      BY <2>4, <2>5
  <1>10. CASE Overflow
    <2>1. /\ UNCHANGED <<graphVars, stack>> /\ phase' = "crashed"
          /\ phase \in {"cycles", "depth"} /\ Len(stack) = MaxStack
      BY <1>10 DEF Overflow
    <2>2. CASE phase = "cycles"
      BY <2>1, <2>2, SearchFits
    <2>3. CASE phase = "depth"
      <3>1. Cyclic' = Cyclic
        BY <2>1, SameGraph
      <3>2. Cyclic
        <4> SUFFICES ASSUME ~Cyclic PROVE FALSE
          OBVIOUS
        <4>1. Len(stack) <= Cardinality(Projections)
          BY <2>3, StackIsShort DEF DepthInv
        <4>2. QED
          BY <2>1, <4>1, ProjectionsFinite
      <3>3. QED
        BY <2>1, <3>1, <3>2 DEF DepthInv
    <2>4. QED
      BY <2>1, <2>2, <2>3
  <1>11. CASE \E ns, es : Build(ns, es)
    BY <1>11 DEF Build, DepthInv, checkVars, depthVars
  <1>12. CASE \E declared : Report(declared)
    <2>1. PICK declared : Report(declared)
      BY <1>12
    <2>2. /\ UNCHANGED <<graphVars, depthVars>> /\ phase = "depth" /\ phase' = "done"
          /\ roots = {}
          /\ violations' = violations \cup checkBackflow \cup checkP10aForbidden
                              \cup checkP10bAllowlist \cup checkP10bDeclared(declared)
      BY <2>1 DEF Report
    <2>3. "P6_DEPTH_EXCEEDED" \in violations' <=> "P6_DEPTH_EXCEEDED" \in violations
      BY <2>2 DEF checkBackflow, checkP10aForbidden, checkP10bAllowlist,
                  checkP10bDeclared, Code
    <2>4. UNCHANGED <<roots, memo, maxDepth>>
      BY <2>2 DEF depthVars
    <2>5. MaxSoFar' = MaxSoFar /\ MemoExact' = MemoExact /\ Cyclic' = Cyclic
      BY <2>2, <2>4, SameGraph, SameChains DEF MaxSoFar, MemoExact
    <2>6. QED
      BY <2>2, <2>3, <2>4, <2>5 DEF DepthInv
  <1>13. CASE UNCHANGED vars
    <2>1. UNCHANGED <<graphVars, phase, stack, roots, memo, maxDepth, violations>>
      BY <1>13 DEF vars, checkVars, depthVars
    <2>2. /\ MaxSoFar' = MaxSoFar /\ MemoExact' = MemoExact /\ Cyclic' = Cyclic
          /\ Linked' = Linked /\ FramesSound' = FramesSound /\ Projections' = Projections
      BY <2>1, SameGraph, SameChains DEF MaxSoFar, MemoExact, Linked, FramesSound
    <2>3. QED
      BY <2>1, <2>2 DEF DepthInv
  <1>14. QED
    BY <1>1, <1>3, <1>4, <1>5, <1>6, <1>7, <1>8, <1>9, <1>10, <1>11, <1>12, <1>13
       DEF Step, Check
-------------------------------------------------------------------------------
(* What the runs check follows from the three invariants.                   *)

GraphInv == TypeInv /\ SearchInv /\ DepthInv

LEMMA GraphInvStart == NoGraph => GraphInv
  <1> SUFFICES ASSUME NoGraph PROVE GraphInv
    OBVIOUS
  <1>1. <<>> \in Seq(FrameType) /\ DOMAIN <<>> = {} /\ <<>> \in [{} -> Nat]
    OBVIOUS
  <1>2. phase = "extract" /\ Untouched
    BY DEF NoGraph, Untouched
  <1>3. TypeInv
    BY <1>1, <1>2 DEF TypeInv, Untouched, Phases
  <1>4. SearchInv /\ DepthInv
    BY <1>2 DEF SearchInv, DepthInv, Untouched
  <1>5. QED
    BY <1>3, <1>4 DEF GraphInv

LEMMA GraphInvStep == GraphInv /\ (Step \/ UNCHANGED vars) => GraphInv'
  BY TypeInvStep, SearchInvStep, DepthInvStep DEF GraphInv

LEMMA CyclesFollow == GraphInv => CyclesExact
  <1> SUFFICES ASSUME GraphInv, phase \in {"depth", "done", "crashed"}
               PROVE  (hasCycle <=> Cyclic) /\ ("P8_CYCLE" \in violations <=> Cyclic)
    BY DEF CyclesExact
  <1>1. QED
    BY DEF GraphInv, SearchInv

LEMMA PathFollows ==
  ASSUME GraphInv, edges \subseteq nodes \X Range(ImportPaths)
  PROVE  GrayIsThePath
  <1> SUFFICES ASSUME phase = "cycles", ~hasCycle
               PROVE  /\ gray = {stack[i].node : i \in DOMAIN stack}
                      /\ \A i \in 1..(Len(stack) - 1) :
                           <<stack[i].node, stack[i + 1].node>> \in edges
                      /\ \A e \in projectionEdges : e[1] \in black => e[2] \in black
    BY DEF GrayIsThePath
  <1>1. Searching
    BY DEF GraphInv, SearchInv
  <1>2. DOMAIN stack = 1..Len(stack) /\ Len(stack) \in Nat
    BY StackTyped DEF GraphInv
  <1>3. ASSUME NEW i \in 1..(Len(stack) - 1)
        PROVE  <<stack[i].node, stack[i + 1].node>> \in edges
    <2>1. i \in DOMAIN stack /\ i + 1 \in DOMAIN stack
      BY <1>2
    <2>2. QED
      BY <1>1, <2>1 DEF Searching, Linked, projectionEdges
  <1>4. ASSUME NEW e \in projectionEdges, e[1] \in black
        PROVE  e[2] \in black
    <2>1. e = <<e[1], e[2]>> /\ e[2] \in Projections
      BY DEF projectionEdges
    <2>2. e[2] \in adj(e[1])
      BY <2>1 DEF adj
    <2>3. QED
      BY <1>1, <1>4, <2>2 DEF Searching, BlackClosed
  <1>5. QED
    BY <1>1, <1>3, <1>4 DEF Searching, OnStack

LEMMA DepthFollows == GraphInv => DepthExact
  <1> SUFFICES ASSUME GraphInv, ~Cyclic
               PROVE  /\ phase # "crashed"
                      /\ \A n \in DOMAIN memo : memo[n] = LongestFrom(n)
                      /\ phase = "done" =>
                           maxDepth = Max({0} \cup {LongestFrom(n) : n \in Projections})
    BY DEF DepthExact
  <1> USE DEF GraphInv
  <1>1. phase # "crashed" /\ phase \in Phases
    BY DEF DepthInv, TypeInv
  <1>2. ASSUME NEW n \in DOMAIN memo
        PROVE  memo[n] = LongestFrom(n)
    <2>1. CASE phase \in {"depth", "done"}
      <3>1. Longest(n, memo[n]) /\ memo[n] \in Nat /\ n \in Projections
        BY <2>1 DEF DepthInv, MemoExact, TypeInv
      <3>2. QED
        BY <3>1, LongestIs
    <2>2. CASE phase \notin {"depth", "done"}
      BY <1>1, <2>2 DEF DepthInv, Phases
    <2>3. QED
      BY <2>1, <2>2
  <1>3. ASSUME phase = "done"
        PROVE  maxDepth = Max({0} \cup {LongestFrom(n) : n \in Projections})
    <2> DEFINE S == {0} \cup {LongestFrom(n) : n \in Projections}
    <2>1. MaxSoFar /\ roots = {} /\ maxDepth \in Nat
      BY <1>3 DEF DepthInv, TypeInv
    <2>2. ASSUME NEW n \in Projections
          PROVE  LongestFrom(n) \in Nat /\ LongestFrom(n) <= maxDepth
      <3>1. PICK m \in Nat : Longest(n, m) /\ m <= maxDepth
        BY <2>1 DEF MaxSoFar
      <3>2. QED
        BY <3>1, LongestIs
    <2>3. maxDepth \in S
      <3>1. CASE maxDepth = 0
        BY <3>1
      <3>2. CASE maxDepth # 0
        <4>1. PICK n \in Projections : Longest(n, maxDepth)
          BY <2>1, <3>2 DEF MaxSoFar
        <4>2. QED
          BY <2>1, <4>1, LongestIs
      <3>3. QED
        BY <3>1, <3>2
    <2>4. S \in SUBSET Nat /\ \A y \in S : maxDepth >= y
      BY <2>1, <2>2
    <2>5. Max(S) = maxDepth
      <3> HIDE DEF S
      <3>1. QED
        BY <2>3, <2>4, MaxIs
    <2>6. QED
      BY <2>5
  <1>4. QED
    BY <1>1, <1>2, <1>3

-------------------------------------------------------------------------------
(* Every step of a command is one of the checks or leaves them alone.      *)
LEMMA NextIsStep ==
  ASSUME [Next]_allVars
  PROVE  Step \/ UNCHANGED vars
  <1>1. CASE Extract \/ ExtractorFails \/ CompareWithBaseline
          \/ ExtractHead \/ ExtractBase \/ HeadAsBase \/ DiffFiles
    BY <1>1 DEF Extract, ExtractorFails, CompareWithBaseline, ExtractHead,
                ExtractBase, HeadAsBase, DiffFiles
  <1>2. CASE BuildFromExtracted
    BY <1>2 DEF BuildFromExtracted, Step
  <1>3. CASE Validate
    BY <1>3 DEF Validate, Step
  <1>4. CASE Conclude
    BY <1>4 DEF Conclude, Step
  <1>5. CASE UNCHANGED allVars
    BY <1>5 DEF allVars
  <1>6. QED
    BY <1>1, <1>2, <1>3, <1>4, <1>5 DEF Next

-------------------------------------------------------------------------------
(***************************************************************************)
(* The graph is that of the tree, with the standard library left out or    *)
(* not.                                                                    *)
(***************************************************************************)
TreeInv ==
  /\ tree \in Trees \cup RefTrees
  /\ extracted # <<>> => \E std \in {Std, {}} : extracted = Extracted(tree, std)
  /\ phase = "extract" => nodes = {} /\ edges = {}
  /\ phase # "extract" => /\ extracted # <<>>
                          /\ nodes = DOMAIN extracted /\ edges = depEdges(extracted)

LEMMA TreeInvStart == Init => TreeInv
  BY DEF Init, TreeInv, NoGraph

LEMMA StepPhase ==
  ASSUME Check \/ \E declared : Report(declared)
  PROVE  phase # "extract" /\ phase' # "extract" /\ UNCHANGED graphVars
  BY DEF Check, BeginChecks, StartCycleSearch, NextNeighbour, LeaveNode, EndCycleSearch,
         StartDepth, Descend, Ascend, Overflow, Report

LEMMA SameTree ==
  ASSUME UNCHANGED tree
  PROVE  \A std : Extracted(tree, std)' = Extracted(tree, std)
  BY DEF Extracted, GoNodes, RustNodes

LEMMA TreeInvStep == TreeInv /\ [Next]_allVars => TreeInv'
  <1> SUFFICES ASSUME TreeInv, [Next]_allVars PROVE TreeInv'
    OBVIOUS
  <1>1. CASE Extract
    <2>1. UNCHANGED <<vars, tree>> /\ phase = "extract"
          /\ \E std \in {Std, {}} : extracted' = Extracted(tree, std)
      BY <1>1 DEF Extract
    <2>2. UNCHANGED <<nodes, edges, phase, tree>>
      BY <2>1 DEF vars, graphVars
    <2>3. \A std : Extracted(tree, std)' = Extracted(tree, std)
      BY <2>2, SameTree
    <2>4. QED
      BY <2>1, <2>2, <2>3 DEF TreeInv
  <1>2. ASSUME UNCHANGED <<vars, tree, extracted>>
        PROVE  TreeInv'
    <2>1. UNCHANGED <<nodes, edges, phase, tree, extracted>>
      BY <1>2 DEF vars, graphVars
    <2>2. QED
      BY <2>1, SameTree DEF TreeInv, depEdges
  <1>3. CASE ExtractorFails \/ CompareWithBaseline
          \/ ExtractHead \/ ExtractBase \/ HeadAsBase \/ DiffFiles
    BY <1>2, <1>3 DEF ExtractorFails, CompareWithBaseline, ExtractHead,
                      ExtractBase, HeadAsBase, DiffFiles
  <1>4. CASE BuildFromExtracted
    <2>1. /\ extracted # <<>> /\ phase' = "built" /\ UNCHANGED <<tree, extracted>>
          /\ nodes' = DOMAIN extracted /\ edges' = depEdges(extracted)
      BY <1>4 DEF BuildFromExtracted, BuildGraph, Build
    <2>2. QED
      BY <2>1, SameTree DEF TreeInv, depEdges
  <1>5. CASE Validate \/ Conclude
    <2>1. /\ phase # "extract" /\ phase' # "extract" /\ UNCHANGED graphVars
          /\ UNCHANGED <<tree, extracted>>
      BY <1>5, StepPhase DEF Validate, Conclude, pgvVars
    <2>2. UNCHANGED <<nodes, edges>>
      BY <2>1 DEF graphVars
    <2>3. QED
      BY <2>1, <2>2, SameTree DEF TreeInv, depEdges
  <1>6. CASE UNCHANGED allVars
    BY <1>2, <1>6 DEF allVars, pgvVars
  <1>7. QED
    BY <1>1, <1>3, <1>4, <1>5, <1>6 DEF Next

(* The nodes and the edges in terms of the tree.                           *)
LEMMA ExtractedFacts ==
  ASSUME NEW t, IsTree(t), NEW std
  PROVE  /\ DOMAIN Extracted(t, std) = DOMAIN t.go \cup DOMAIN t.rust
         /\ \A p \in DOMAIN t.go : Extracted(t, std)[p] = t.go[p] \ std
         /\ \A m \in DOMAIN t.rust : Extracted(t, std)[m] = {ScanUse(u) : u \in t.rust[m]}
  <1>1. DOMAIN t.go \cap DOMAIN t.rust = {}
    BY DEF IsTree
  <1>2. QED
    BY <1>1 DEF Extracted, GoNodes, RustNodes

LEMMA GraphIsTyped ==
  ASSUME TreeInv
  PROVE  nodes \subseteq Range(ImportPaths) /\ edges \subseteq nodes \X Range(ImportPaths)
  <1>1. CASE phase = "extract"
    BY <1>1 DEF TreeInv
  <1>2. CASE phase # "extract"
    <2>1. PICK std \in {Std, {}} : extracted = Extracted(tree, std)
      BY <1>2 DEF TreeInv
    <2>2. IsTree(tree)
      BY PgvConstants DEF TreeInv
    <2>3. /\ DOMAIN Extracted(tree, std) = DOMAIN tree.go \cup DOMAIN tree.rust
          /\ \A p \in DOMAIN tree.go : Extracted(tree, std)[p] = tree.go[p] \ std
          /\ \A m \in DOMAIN tree.rust :
               Extracted(tree, std)[m] = {ScanUse(u) : u \in tree.rust[m]}
      BY <2>2, ExtractedFacts
    <2>4. \A n \in DOMAIN extracted : n \in Paths /\ extracted[n] \subseteq Paths
      BY <2>1, <2>2, <2>3 DEF IsTree
    <2>5. QED
      BY <1>2, <2>4 DEF TreeInv, depEdges, Paths
  <1>3. QED
    BY <1>1, <1>2

-------------------------------------------------------------------------------
(***************************************************************************)
(* What the codes say of the edges, phase by phase.                        *)
(***************************************************************************)
SearchCodes == {"P6_DEPTH_EXCEEDED", "P7_CROSS_IMPORT", "P8_CYCLE"}

Codes == SearchCodes \cup {"P9_BACKFLOW", "P10A_FORBIDDEN_IMPORT",
                           "P10B_UNDECLARED_DEP", "P10B_DECLARED_VS_ACTUAL"}

CodesInv ==
  /\ phase \in {"cycles", "depth"} => violations \subseteq SearchCodes
  /\ phase \in {"cycles", "depth", "done"} =>
       ("P7_CROSS_IMPORT" \in violations <=> projectionEdges # {})
  /\ phase = "done" =>
       /\ violations \subseteq Codes
       /\ ("P9_BACKFLOW" \in violations <=> backflowEdges # {})
       /\ ("P10A_FORBIDDEN_IMPORT" \in violations <=> backflowEdges # {})
       /\ ("P10B_UNDECLARED_DEP" \in violations <=> outsideEdges # {})
       /\ ("P10B_DECLARED_VS_ACTUAL" \in violations => Projections \ RustPaths # {})

OutcomeInv ==
  outcome \in {"PASSED", "FAILED"} =>
    phase = "done" /\ (outcome = "PASSED" <=> violations = {})

LEMMA CodesInvStart == Init => CodesInv /\ OutcomeInv
  BY DEF Init, NoGraph, CodesInv, OutcomeInv

LEMMA SameEdges ==
  ASSUME UNCHANGED graphVars
  PROVE  /\ Projections' = Projections /\ projectionEdges' = projectionEdges
         /\ backflowEdges' = backflowEdges /\ outsideEdges' = outsideEdges
  BY DEF graphVars, Projections, projectionEdges, backflowEdges, outsideEdges

LEMMA CodesInvStep == CodesInv /\ (Step \/ UNCHANGED vars) => CodesInv'
  <1> SUFFICES ASSUME CodesInv, Step \/ UNCHANGED vars PROVE CodesInv'
    OBVIOUS
  <1>1. CASE UNCHANGED vars
    <2>1. UNCHANGED <<graphVars, phase, violations>>
      BY <1>1 DEF vars, checkVars
    <2>2. QED
      BY <2>1, SameEdges DEF CodesInv
  <1>2. CASE BeginChecks
    <2>1. UNCHANGED graphVars /\ phase' = "cycles" /\ violations' = checkCrossImport
      BY <1>2 DEF BeginChecks
    <2>2. QED
      BY <2>1, SameEdges DEF CodesInv, checkCrossImport, Code, SearchCodes
  <1>3. CASE \E ns, es : Build(ns, es)
    BY <1>3 DEF Build, CodesInv
  <1>4. ASSUME UNCHANGED graphVars, phase \in {"cycles", "depth"},
               phase' \in {"cycles", "depth", "crashed"},
               \/ UNCHANGED violations
               \/ violations' = violations \cup {"P8_CYCLE"}
               \/ violations' = violations \cup {"P6_DEPTH_EXCEEDED"}
        PROVE  CodesInv'
    BY <1>4, SameEdges DEF CodesInv, SearchCodes
  <1>5. CASE StartCycleSearch \/ NextNeighbour \/ LeaveNode \/ EndCycleSearch
    BY <1>4, <1>5 DEF StartCycleSearch, NextNeighbour, LeaveNode, EndCycleSearch
  <1>6. CASE StartDepth \/ Descend \/ Overflow
    BY <1>4, <1>6 DEF StartDepth, Descend, Overflow, depthVars
  <1>7. CASE Ascend
    <2>1. /\ UNCHANGED graphVars /\ phase = "depth" /\ UNCHANGED phase
          /\ \/ UNCHANGED violations
             \/ violations' = violations \cup Code(Top.deepest > 1, "P6_DEPTH_EXCEEDED")
      BY <1>7 DEF Ascend
    <2>2. \/ UNCHANGED violations
          \/ violations' = violations \cup {"P6_DEPTH_EXCEEDED"}
      BY <2>1 DEF Code
    <2>3. QED
      BY <1>4, <2>1, <2>2
  <1>8. CASE \E declared : Report(declared)
    <2>1. PICK declared : Report(declared)
      BY <1>8
    <2>2. /\ UNCHANGED graphVars /\ phase = "depth" /\ phase' = "done"
          /\ violations' = violations \cup checkBackflow \cup checkP10aForbidden
                             \cup checkP10bAllowlist \cup checkP10bDeclared(declared)
      BY <2>1 DEF Report
    <2>3. checkBackflow = Code(backflowEdges # {}, "P9_BACKFLOW")
          /\ checkP10aForbidden = Code(backflowEdges # {}, "P10A_FORBIDDEN_IMPORT")
          /\ checkP10bAllowlist = Code(outsideEdges # {}, "P10B_UNDECLARED_DEP")
      BY DEF checkBackflow, checkP10aForbidden, checkP10bAllowlist
    <2>4. /\ checkP10bDeclared(declared) \subseteq {"P10B_DECLARED_VS_ACTUAL"}
          /\ checkP10bDeclared(declared) # {} => Projections \ RustPaths # {}
      BY DEF checkP10bDeclared, Code
    <2>5. violations \subseteq SearchCodes
          /\ ("P7_CROSS_IMPORT" \in violations <=> projectionEdges # {})
      BY <2>2 DEF CodesInv
    <2>6. /\ violations' \subseteq Codes
          /\ ("P7_CROSS_IMPORT" \in violations' <=> projectionEdges # {})
          /\ ("P9_BACKFLOW" \in violations' <=> backflowEdges # {})
          /\ ("P10A_FORBIDDEN_IMPORT" \in violations' <=> backflowEdges # {})
          /\ ("P10B_UNDECLARED_DEP" \in violations' <=> outsideEdges # {})
          /\ ("P10B_DECLARED_VS_ACTUAL" \in violations' => Projections \ RustPaths # {})
      BY <2>2, <2>3, <2>4, <2>5 DEF Code, Codes, SearchCodes
    <2>7. QED
      BY <2>2, <2>6, SameEdges DEF CodesInv
  <1>9. QED
    BY <1>1, <1>2, <1>3, <1>5, <1>6, <1>7, <1>8 DEF Step, Check

LEMMA OutcomeInvStep == OutcomeInv /\ [Next]_allVars => OutcomeInv'
  <1> SUFFICES ASSUME OutcomeInv, [Next]_allVars PROVE OutcomeInv'
    OBVIOUS
  <1>1. ASSUME outcome' \notin {"PASSED", "FAILED"} PROVE OutcomeInv'
    BY <1>1 DEF OutcomeInv
  <1>2. ASSUME UNCHANGED <<phase, violations, outcome>> PROVE OutcomeInv'
    BY <1>2 DEF OutcomeInv
  <1>3. CASE Extract \/ ExtractorFails \/ CompareWithBaseline
          \/ ExtractHead \/ ExtractBase \/ HeadAsBase \/ DiffFiles
    BY <1>1, <1>3 DEF Extract, ExtractorFails, CompareWithBaseline,
                      ExtractHead, ExtractBase, HeadAsBase, DiffFiles
  <1>4. CASE BuildFromExtracted
    <2>1. phase = "extract" /\ outcome' = outcome
      BY <1>4 DEF BuildFromExtracted, Build
    <2>2. QED
      BY <2>1 DEF OutcomeInv
  <1>5. CASE Validate
    <2>1. phase # "done" /\ outcome' = outcome
      BY <1>5 DEF Validate, pgvVars, Check, BeginChecks, StartCycleSearch, NextNeighbour,
                  LeaveNode, EndCycleSearch, StartDepth, Descend, Ascend, Overflow
    <2>2. QED
      BY <2>1 DEF OutcomeInv
  <1>6. CASE Conclude
    BY <1>6 DEF Conclude, Report, OutcomeInv
  <1>7. CASE UNCHANGED allVars
    BY <1>2, <1>7 DEF allVars, pgvVars, vars, checkVars
  <1>8. QED
    BY <1>3, <1>4, <1>5, <1>6, <1>7 DEF Next

(* Without an edge between projections there is neither cycle nor depth.   *)
LEMMA NoEdgesNoSearch ==
  ASSUME GraphInv, phase = "done", projectionEdges = {}
  PROVE  "P8_CYCLE" \notin violations /\ "P6_DEPTH_EXCEEDED" \notin violations
  <1>1. \A p, d : d \in Nat /\ d > 0 => ~IsChain(p, d)
    <2>1. ASSUME NEW p, NEW d \in Nat, d > 0 PROVE ~IsChain(p, d)
      <3>1. 0 \in 0..(d - 1)
        BY <2>1
      <3>2. QED
        BY <3>1 DEF IsChain
    <2>2. QED
      BY <2>1
  <1>2. ~Cyclic
    <2>1. Cardinality(Projections) \in Nat
      BY ProjectionsFinite
    <2>2. QED
      BY <1>1, <2>1 DEF Cyclic
  <1>3. ~(maxDepth > 1) /\ maxDepth \in Nat
    <2>1. MaxSoFar /\ maxDepth \in Nat
      BY <1>2 DEF GraphInv, DepthInv, TypeInv
    <2>2. ASSUME maxDepth # 0 PROVE FALSE
      <3>1. PICK n \in Projections : Longest(n, maxDepth)
        BY <2>1, <2>2 DEF MaxSoFar
      <3>2. PICK p \in [0..maxDepth -> Projections] : IsChain(p, maxDepth)
        BY <3>1 DEF Longest, ChainFrom
      <3>3. QED
        BY <1>1, <2>1, <2>2, <3>2
    <2>3. QED
      BY <2>1, <2>2
  <1>4. QED
    BY <1>2, <1>3 DEF GraphInv, SearchInv, DepthInv

-------------------------------------------------------------------------------
(* The invariant of the commands.                                          *)

PgvInv == GraphInv /\ TreeInv /\ CodesInv /\ OutcomeInv

LEMMA PgvInvHolds == FairSpec => []PgvInv
  <1>1. Init => PgvInv
    BY GraphInvStart, TreeInvStart, CodesInvStart DEF Init, PgvInv
  <1>2. PgvInv /\ [Next]_allVars => PgvInv'
    BY NextIsStep, GraphInvStep, TreeInvStep, CodesInvStep, OutcomeInvStep DEF PgvInv
  <1>3. QED
    BY <1>1, <1>2, PTL DEF FairSpec

(* The edges that the checks look for are what the tree says.              *)
LEMMA EdgesOfTheTree ==
  ASSUME TreeInv, phase # "extract"
  PROVE  /\ IsTree(tree)
         /\ Projections = RustModules \cap ProjectionPaths
         /\ \A m \in RustModules : \A p :
              <<m, p>> \in edges <=> \E u \in tree.rust[m] : p = ScanUse(u)
         /\ \A e \in edges : e = <<e[1], e[2]>> /\ e[1] \in nodes
         /\ nodes \cap (ProjectionPaths \cup Kernel) \subseteq RustModules
  <1>1. PICK std \in {Std, {}} : extracted = Extracted(tree, std)
    BY DEF TreeInv
  <1>2. IsTree(tree)
    BY PgvConstants DEF TreeInv
  <1>3. /\ DOMAIN Extracted(tree, std) = DOMAIN tree.go \cup DOMAIN tree.rust
        /\ \A m \in DOMAIN tree.rust :
             Extracted(tree, std)[m] = {ScanUse(u) : u \in tree.rust[m]}
    BY <1>2, ExtractedFacts
  <1>4. nodes = DOMAIN tree.go \cup RustModules
    BY <1>1, <1>3 DEF TreeInv, RustModules
  <1>5. nodes \cap (ProjectionPaths \cup Kernel) \subseteq RustModules
    BY <1>2, <1>4 DEF IsTree, RustModules
  <1>6. Projections = RustModules \cap ProjectionPaths
    BY <1>4, <1>5 DEF Projections
  <1>7. \A m \in RustModules : extracted[m] = {ScanUse(u) : u \in tree.rust[m]}
    BY <1>1, <1>3 DEF RustModules
  <1>8. edges = UNION {{<<n, d>> : d \in extracted[n]} : n \in nodes}
    BY DEF TreeInv, depEdges
  <1>9. \A n, p : <<n, p>> \in edges <=> n \in nodes /\ p \in extracted[n]
    BY <1>8
  <1>10. \A m \in RustModules : \A p :
           <<m, p>> \in edges <=> \E u \in tree.rust[m] : p = ScanUse(u)
    BY <1>4, <1>7, <1>9
  <1>11. \A e \in edges : e = <<e[1], e[2]>> /\ e[1] \in nodes
    BY <1>8
  <1>12. QED
    BY <1>2, <1>5, <1>6, <1>10, <1>11

(* The uses of one module by another as a whole.                           *)
WholeUses == {e \in RustModules \X RustModules :
                [module |-> e[2], item |-> FALSE] \in tree.rust[e[1]]}

(* An edge between modules is the use of a module as a whole.              *)
LEMMA WholeUsesAreEdges ==
  ASSUME TreeInv, phase # "extract", NEW m \in RustModules, NEW p \in RustModules
  PROVE  <<m, p>> \in edges <=> <<m, p>> \in WholeUses
  <1>1. /\ IsTree(tree)
        /\ <<m, p>> \in edges <=> \E u \in tree.rust[m] : p = ScanUse(u)
    BY EdgesOfTheTree
  <1>2. <<m, p>> \in WholeUses <=> [module |-> p, item |-> FALSE] \in tree.rust[m]
    BY DEF WholeUses
  <1>3. ASSUME NEW u \in tree.rust[m], p = ScanUse(u)
        PROVE  u = [module |-> p, item |-> FALSE]
    <2>1. u \in [module : Paths, item : BOOLEAN] /\ ~u.item
      BY <1>1, <1>3 DEF IsTree, RustModules
    <2>2. u.module = p
      BY <1>3, <2>1 DEF ScanUse
    <2>3. QED
      BY <2>1, <2>2
  <1>4. ScanUse([module |-> p, item |-> FALSE]) = p
    BY DEF ScanUse
  <1>5. QED
    BY <1>1, <1>2, <1>3, <1>4

WholeUse(A, B) == \E e \in WholeUses : e[1] \in A /\ e[2] \in B

UseOutside == \E m \in RustModules \cap ProjectionPaths : \E u \in tree.rust[m] :
                ScanUse(u) \notin Kernel \cup ProjectionPaths \cup Allowed

(* The checks see the uses of whole modules, and those of outside paths.   *)
LEMMA WholeUsesDecide ==
  ASSUME PgvInv, phase = "done"
  PROVE  /\ "P7_CROSS_IMPORT" \in violations <=> WholeUse(ProjectionPaths, ProjectionPaths)
         /\ "P9_BACKFLOW" \in violations <=> WholeUse(Kernel, ProjectionPaths)
         /\ "P10B_UNDECLARED_DEP" \in violations <=> UseOutside
         /\ outcome \in {"PASSED", "FAILED"} =>
              (outcome = "PASSED"
                 <=> ~ (WholeUse(ProjectionPaths \cup Kernel, ProjectionPaths) \/ UseOutside))
  <1> DEFINE among(A, B) == WholeUse(A, B)
             outside == UseOutside
  <1> USE DEF WholeUse, UseOutside
  <1> USE DEF PgvInv
  <1>1. /\ IsTree(tree)
        /\ Projections = RustModules \cap ProjectionPaths
        /\ \A m \in RustModules : \A p :
             <<m, p>> \in edges <=> \E u \in tree.rust[m] : p = ScanUse(u)
        /\ \A e \in edges : e = <<e[1], e[2]>> /\ e[1] \in nodes
        /\ nodes \cap (ProjectionPaths \cup Kernel) \subseteq RustModules
    BY EdgesOfTheTree
  <1>2. \A m, p \in RustModules : <<m, p>> \in edges <=> <<m, p>> \in WholeUses
    BY WholeUsesAreEdges
  <1>3. \A e \in WholeUses : e = <<e[1], e[2]>> /\ e[1] \in RustModules /\ e[2] \in RustModules
    BY DEF WholeUses
  <1>4. projectionEdges # {} <=> among(ProjectionPaths, ProjectionPaths)
    <2>1. ASSUME NEW e \in projectionEdges PROVE among(ProjectionPaths, ProjectionPaths)
      <3>1. e \in edges /\ e[1] \in Projections /\ e[2] \in Projections
        BY DEF projectionEdges
      <3>2. e = <<e[1], e[2]>> /\ e \in WholeUses
        BY <1>1, <1>2, <3>1
      <3>3. QED
        BY <1>1, <3>1, <3>2
    <2>2. ASSUME NEW e \in WholeUses, e[1] \in ProjectionPaths, e[2] \in ProjectionPaths
          PROVE  e \in projectionEdges
      BY <1>1, <1>2, <1>3, <2>2 DEF projectionEdges
    <2>3. QED
      BY <2>1, <2>2
  <1>5. backflowEdges # {} <=> among(Kernel, ProjectionPaths)
    <2>1. ASSUME NEW e \in backflowEdges PROVE among(Kernel, ProjectionPaths)
      <3>1. e \in edges /\ e[1] \in Kernel /\ e[2] \in Projections
        BY DEF backflowEdges
      <3>2. e = <<e[1], e[2]>> /\ e \in WholeUses
        BY <1>1, <1>2, <3>1
      <3>3. QED
        BY <1>1, <3>1, <3>2
    <2>2. ASSUME NEW e \in WholeUses, e[1] \in Kernel, e[2] \in ProjectionPaths
          PROVE  e \in backflowEdges
      BY <1>1, <1>2, <1>3, <2>2 DEF backflowEdges
    <2>3. QED
      BY <2>1, <2>2
  <1>6. outsideEdges # {} <=> outside
    <2>1. ASSUME NEW e \in outsideEdges PROVE outside
      <3>1. /\ e \in edges /\ e[1] \in Projections
            /\ e[2] \notin Kernel \cup ProjectionPaths \cup Allowed
        BY DEF outsideEdges
      <3>2. PICK u \in tree.rust[e[1]] : e[2] = ScanUse(u)
        BY <1>1, <3>1
      <3>3. QED
        BY <1>1, <3>1, <3>2
    <2>2. ASSUME NEW m \in RustModules \cap ProjectionPaths, NEW u \in tree.rust[m],
                 ScanUse(u) \notin Kernel \cup ProjectionPaths \cup Allowed
          PROVE  <<m, ScanUse(u)>> \in outsideEdges
      BY <1>1, <2>2 DEF outsideEdges
    <2>3. QED
      BY <2>1, <2>2
  <1>7. Projections \ RustPaths = {}
    BY <1>1 DEF IsTree, RustModules
  <1>8. violations = {} <=> projectionEdges = {} /\ backflowEdges = {} /\ outsideEdges = {}
    <2>1. violations \subseteq Codes
          /\ ("P7_CROSS_IMPORT" \in violations <=> projectionEdges # {})
          /\ ("P9_BACKFLOW" \in violations <=> backflowEdges # {})
          /\ ("P10A_FORBIDDEN_IMPORT" \in violations <=> backflowEdges # {})
          /\ ("P10B_UNDECLARED_DEP" \in violations <=> outsideEdges # {})
          /\ "P10B_DECLARED_VS_ACTUAL" \notin violations
      BY <1>7 DEF CodesInv
    <2>2. projectionEdges = {} => /\ "P8_CYCLE" \notin violations
                                  /\ "P6_DEPTH_EXCEEDED" \notin violations
      BY NoEdgesNoSearch
    <2>3. QED
      BY <2>1, <2>2 DEF Codes, SearchCodes
  <1>9. among(ProjectionPaths \cup Kernel, ProjectionPaths)
          <=> among(ProjectionPaths, ProjectionPaths) \/ among(Kernel, ProjectionPaths)
    OBVIOUS
  <1>10. /\ "P7_CROSS_IMPORT" \in violations <=> projectionEdges # {}
         /\ "P9_BACKFLOW" \in violations <=> backflowEdges # {}
         /\ "P10B_UNDECLARED_DEP" \in violations <=> outsideEdges # {}
         /\ outcome \in {"PASSED", "FAILED"} => (outcome = "PASSED" <=> violations = {})
    BY DEF CodesInv, OutcomeInv
  <1>11. QED
    <2> HIDE DEF WholeUse, UseOutside
    <2>1. QED
      BY <1>4, <1>5, <1>6, <1>8, <1>9, <1>10

(* A use of a whole module is a use, and without items there are no others. *)
LEMMA VerdictFollows == PgvInv => VerdictIsTheTrees
  <1> DEFINE among(A, B) == \E e \in Uses : e[1] \in A /\ e[2] \in B
  <1> SUFFICES ASSUME PgvInv, phase = "done"
               PROVE  /\ "P7_CROSS_IMPORT" \in violations
                           => among(ProjectionPaths, ProjectionPaths)
                      /\ "P9_BACKFLOW" \in violations => among(Kernel, ProjectionPaths)
                      /\ "P10B_UNDECLARED_DEP" \in violations <=> UseOutside
                      /\ NoItems =>
                           /\ among(ProjectionPaths, ProjectionPaths)
                                => "P7_CROSS_IMPORT" \in violations
                           /\ among(Kernel, ProjectionPaths) => "P9_BACKFLOW" \in violations
                           /\ outcome \in {"PASSED", "FAILED"} =>
                                (outcome = "PASSED" <=>
                                   ~ \/ among(ProjectionPaths \cup Kernel, ProjectionPaths)
                                     \/ UseOutside)
    BY DEF VerdictIsTheTrees, UseOutside
  <1>1. IsTree(tree)
    BY EdgesOfTheTree DEF PgvInv
  <1>2. WholeUses \subseteq Uses
    BY DEF WholeUses, Uses
  <1>3. NoItems => WholeUses = Uses
    <2> SUFFICES ASSUME NoItems, NEW e \in Uses PROVE e \in WholeUses
      BY <1>2
    <2>1. e \in RustModules \X RustModules
      BY DEF Uses
    <2>2. PICK u \in tree.rust[e[1]] : u.module = e[2]
      BY DEF Uses
    <2>3. u \in [module : Paths, item : BOOLEAN] /\ ~u.item
      BY <1>1, <2>1 DEF IsTree, RustModules, NoItems
    <2>4. u = [module |-> e[2], item |-> FALSE]
      BY <2>2, <2>3
    <2>5. QED
      BY <2>1, <2>2, <2>4 DEF WholeUses
  <1>4. \A A, B : WholeUse(A, B) => among(A, B)
    BY <1>2 DEF WholeUse
  <1>5. NoItems => \A A, B : among(A, B) <=> WholeUse(A, B)
    BY <1>3 DEF WholeUse
  <1>6. QED
    <2> HIDE DEF among
    <2>1. QED
      BY <1>4, <1>5, WholeUsesDecide

LEMMA TypesFollow == PgvInv => TypeOK
  <1> SUFFICES ASSUME PgvInv PROVE TypeOK
    OBVIOUS
  <1>1. nodes \subseteq Range(ImportPaths) /\ edges \subseteq nodes \X Range(ImportPaths)
    BY GraphIsTyped DEF PgvInv
  <1>2. /\ phase \in Phases /\ maxDepth \in Nat
        /\ phase \in {"extract", "built"} => Untouched
        /\ \A i \in DOMAIN stack : stack[i] \in FrameType
    BY StackTyped DEF PgvInv, GraphInv, TypeInv
  <1>3. phase \notin {"extract", "built"} => Partition
    BY DEF PgvInv, GraphInv, SearchInv
  <1>4. /\ phase \notin {"extract", "built"} => white \cup gray \cup black = Projections
        /\ white \cap (gray \cup black) = {} /\ gray \cap black = {}
    BY <1>2, <1>3 DEF Partition, Untouched
  <1>5. QED
    BY <1>1, <1>2, <1>4 DEF TypeOK, Phases, FrameType

-------------------------------------------------------------------------------
(***************************************************************************)
(* The hash: sorting lists every member once, whatever the set, and the    *)
(* list of the nodes followed by that of the edges can be taken apart,     *)
(* because the first edge starts at a node and no node is listed twice.    *)
(***************************************************************************)
LEMMA LeastCounterexample ==
  ASSUME NEW S \in SUBSET Nat, S # {}
  PROVE  \E n \in S : n = 0 \/ (n - 1 \in Nat /\ n - 1 \notin S)
  <1>1. PICK n \in S : \A m \in Nat : <<m, n>> \in OpToRel(<, Nat) => m \notin S
    BY NatLessThanWellFounded, WFMin
  <1>2. ASSUME n # 0 PROVE n - 1 \in Nat /\ n - 1 \notin S
    <2>1. n - 1 \in Nat /\ n \in Nat /\ n - 1 < n
      BY <1>2
    <2>2. <<n - 1, n>> \in OpToRel(<, Nat)
      BY <2>1 DEF OpToRel
    <2>3. QED
      BY <1>1, <2>1, <2>2
  <1>3. QED
    BY <1>2

\* A recursion over the first N numbers: its start is b, and step tells what
\* comes next.
Recursion(N, T, b, step) == N \in Nat /\ b \in T /\ step \in [T \X (1..N) -> T]

SolvesTo(n, T, b, step, g) == /\ g \in [0..n -> T] /\ g[0] = b
                              /\ \A i \in 1..n : g[i] = step[<<g[i - 1], i>>]

LEMMA RecursionSolved ==
  ASSUME NEW N, NEW T, NEW b, NEW step, Recursion(N, T, b, step)
  PROVE  \E g : SolvesTo(N, T, b, step, g)
  <1> DEFINE Solves(g, n) == /\ g \in [0..n -> T] /\ g[0] = b
                             /\ \A i \in 1..n : g[i] = step[<<g[i - 1], i>>]
             Bad == {n \in 0..N : ~\E g : Solves(g, n)}
  <1> USE DEF Recursion
  <1>1. SUFFICES ASSUME Bad # {} PROVE FALSE
    <2>1. N \in 0..N
      OBVIOUS
    <2>2. QED
      BY <1>1, <2>1 DEF SolvesTo
  <1>2. Bad \in SUBSET Nat
    OBVIOUS
  <1>3. PICK n \in Bad : n = 0 \/ (n - 1 \in Nat /\ n - 1 \notin Bad)
    <2> HIDE DEF Bad
    <2>1. QED
      BY <1>1, <1>2, LeastCounterexample
  <1>4. n # 0
    <2>1. Solves([i \in 0..0 |-> b], 0)
      OBVIOUS
    <2>2. QED
      BY <1>3, <2>1
  <1>5. n \in 1..N /\ n - 1 \in 0..N /\ n \in Nat
    BY <1>3, <1>4
  <1>6. PICK g : Solves(g, n - 1)
    BY <1>3, <1>4, <1>5
  <1> DEFINE h == [i \in 0..n |-> IF i = n THEN step[<<g[n - 1], n>>] ELSE g[i]]
  <1>7. n - 1 \in 0..(n - 1) /\ \A i \in 0..n : i # n => i \in 0..(n - 1)
    BY <1>5
  <1>8. h \in [0..n -> T]
    <2>1. g[n - 1] \in T /\ \A i \in 0..(n - 1) : g[i] \in T
      BY <1>6, <1>7
    <2>2. <<g[n - 1], n>> \in T \X (1..N)
      BY <1>5, <2>1
    <2>3. step[<<g[n - 1], n>>] \in T
      BY <2>2
    <2>4. QED
      BY <1>7, <2>1, <2>3
  <1>9. h[0] = b
    BY <1>5, <1>6
  <1>10. ASSUME NEW i \in 1..n PROVE h[i] = step[<<h[i - 1], i>>]
    <2>1. i \in 0..n /\ i - 1 \in 0..n /\ i - 1 # n /\ (i # n => i \in 1..(n - 1))
      BY <1>5
    <2>2. h[i - 1] = g[i - 1]
      BY <2>1
    <2>3. CASE i = n
      BY <2>1, <2>2, <2>3
    <2>4. CASE i # n
      <3>1. h[i] = g[i] /\ g[i] = step[<<g[i - 1], i>>]
        BY <1>6, <2>1, <2>4
      <3>2. QED
        BY <2>2, <3>1
    <2>5. QED
      BY <2>3, <2>4
  <1>11. Solves(h, n)
    <2> HIDE DEF h
    <2>1. QED
      BY <1>8, <1>9, <1>10
  <1>12. QED
    BY <1>3, <1>11

LEMMA PathsOnce ==
  /\ ImportPaths \in Seq(Paths) /\ Len(ImportPaths) \in Nat
  /\ \A i \in 1..Len(ImportPaths) : ImportPaths[i] \in Paths
  /\ \A p \in Paths : \E i \in 1..Len(ImportPaths) : ImportPaths[i] = p
  /\ \A i, j \in 1..Len(ImportPaths) : ImportPaths[i] = ImportPaths[j] => i = j
  <1>1. ImportPaths \in Seq(Paths)
    BY GraphConstants DEF Paths
  <1>2. DOMAIN ImportPaths = 1..Len(ImportPaths) /\ Len(ImportPaths) \in Nat
    BY <1>1
  <1>3. QED
    BY <1>1, <1>2, GraphConstants DEF Paths, Range, IsInjective

\* The members of S, each once.
LEMMA InOrderLists ==
  ASSUME NEW S
  PROVE  /\ InOrder(S) \in Seq(Paths)
         /\ \A p : p \in S \cap Paths <=> \E i \in 1..Len(InOrder(S)) : InOrder(S)[i] = p
         /\ \A i, j \in 1..Len(InOrder(S)) : InOrder(S)[i] = InOrder(S)[j] => i = j
  <1> DEFINE N == Len(ImportPaths)
             T == Seq(Paths)
             Turn(q, n) == IF ImportPaths[n] \in S THEN Append(q, ImportPaths[n]) ELSE q
             Body(g, n) == IF n = 0 THEN <<>>
                           ELSE IF ImportPaths[n] \in S THEN Append(g[n - 1], ImportPaths[n])
                           ELSE g[n - 1]
             f == CHOOSE g : g = [n \in 0..N |-> Body(g, n)]
             step == [x \in T \X (1..N) |-> Turn(x[1], x[2])]
  <1>1. N \in Nat /\ <<>> \in T
    BY PathsOnce
  <1>2. step \in [T \X (1..N) -> T]
    <2>1. ASSUME NEW q \in T, NEW n \in 1..N PROVE Turn(q, n) \in T
      BY PathsOnce
    <2>2. QED
      BY <2>1
  <1> DEFINE none == <<>>
  <1>3. PICK g \in [0..N -> T] :
          g[0] = none /\ \A n \in 1..N : g[n] = step[<<g[n - 1], n>>]
    <2>1. Recursion(N, T, none, step)
      BY <1>1, <1>2 DEF Recursion
    <2> HIDE DEF step, T, N, none
    <2>2. PICK g : SolvesTo(N, T, none, step, g)
      BY <2>1, RecursionSolved
    <2>3. QED
      BY <2>2 DEF SolvesTo
  <1>4. \A n \in 1..N : g[n] = Turn(g[n - 1], n)
    <2>1. ASSUME NEW n \in 1..N PROVE g[n] = Turn(g[n - 1], n)
      <3>1. g[n - 1] \in T
        BY <1>1
      <3>2. <<g[n - 1], n>> \in T \X (1..N)
        BY <3>1
      <3>3. step[<<g[n - 1], n>>] = Turn(g[n - 1], n)
        BY <3>2
      <3>4. QED
        BY <1>3, <3>3
    <2>2. QED
      BY <2>1
  <1>5. g = [n \in 0..N |-> Body(g, n)]
    <2>1. \A n \in 0..N : n # 0 => n \in 1..N
      BY <1>1
    <2>2. \A n \in 0..N : g[n] = Body(g, n)
      BY <1>3, <1>4, <2>1
    <2> HIDE DEF Body
    <2>3. QED
      BY <2>2
  <1>6. f = [n \in 0..N |-> Body(f, n)]
    <2> HIDE DEF Body
    <2>1. QED
      BY <1>5
  <1>7. InOrder(S) = f[N]
    BY DEF InOrder
  <1> HIDE DEF f
  <1> DEFINE Lists(q, n) == /\ q \in Seq(Paths)
                            /\ \A p : (p \in S /\ \E i \in 1..n : ImportPaths[i] = p)
                                        <=> \E i \in 1..Len(q) : q[i] = p
                            /\ \A i, j \in 1..Len(q) : q[i] = q[j] => i = j
             Bad == {n \in 0..N : ~Lists(f[n], n)}
  <1>8. Bad = {}
    <2>1. SUFFICES ASSUME Bad # {} PROVE FALSE
      OBVIOUS
    <2>2. Bad \in SUBSET Nat
      OBVIOUS
    <2>3. PICK n \in Bad : n = 0 \/ (n - 1 \in Nat /\ n - 1 \notin Bad)
      <3> HIDE DEF Bad
      <3>1. QED
        BY <2>1, <2>2, LeastCounterexample
    <2>4. n # 0
      <3>1. 0 \in 0..N
        BY <1>1
      <3>2. f[0] = <<>>
        BY <1>6, <3>1
      <3>3. Lists(<<>>, 0)
        OBVIOUS
      <3> HIDE DEF Lists
      <3>4. QED
        BY <2>3, <3>2, <3>3
    <2>5. n \in 1..N /\ n \in 0..N /\ n - 1 \in 0..N /\ n - 1 \in Nat
      BY <1>1, <2>3, <2>4
    <2>6. Lists(f[n - 1], n - 1)
      <3> HIDE DEF Lists
      <3>1. QED
        BY <2>3, <2>4, <2>5
    <2>7. f[n] = Turn(f[n - 1], n)
      BY <1>6, <2>4, <2>5
    <2> DEFINE q == f[n - 1]
               p0 == ImportPaths[n]
    <2>8. /\ q \in Seq(Paths) /\ Len(q) \in Nat /\ p0 \in Paths
          /\ \A p : (p \in S /\ \E i \in 1..(n - 1) : ImportPaths[i] = p)
                      <=> \E i \in 1..Len(q) : q[i] = p
          /\ \A i, j \in 1..Len(q) : q[i] = q[j] => i = j
      BY <2>5, <2>6, PathsOnce
    <2>9. \A p : (\E i \in 1..n : ImportPaths[i] = p)
                   <=> p = p0 \/ \E i \in 1..(n - 1) : ImportPaths[i] = p
      BY <2>5
    <2>10. ~\E i \in 1..(n - 1) : ImportPaths[i] = p0
      <3>1. \A i \in 1..(n - 1) : i \in 1..N /\ i # n
        BY <1>1, <2>5
      <3>2. QED
        BY <2>5, <3>1, PathsOnce
    <2> HIDE DEF q, p0
    <2>11. CASE p0 \in S
      <3>1. f[n] = Append(q, p0)
        BY <2>7, <2>11 DEF q, p0
      <3>2. /\ Append(q, p0) \in Seq(Paths) /\ Len(Append(q, p0)) = Len(q) + 1
            /\ Append(q, p0)[Len(q) + 1] = p0
            /\ \A i \in 1..Len(q) : Append(q, p0)[i] = q[i]
        BY <2>8
      <3>3. \A p : (\E i \in 1..Len(f[n]) : f[n][i] = p)
                     <=> p = p0 \/ \E i \in 1..Len(q) : q[i] = p
        BY <2>8, <3>1, <3>2
      <3>4. ~\E i \in 1..Len(q) : q[i] = p0
        BY <2>8, <2>10
      <3>5. \A i, j \in 1..Len(f[n]) : f[n][i] = f[n][j] => i = j
        BY <2>8, <3>1, <3>2, <3>4
      <3>6. Lists(f[n], n)
        BY <2>8, <2>9, <2>11, <3>1, <3>2, <3>3, <3>5
      <3>7. QED
        BY <2>3, <2>5, <3>6
    <2>12. CASE p0 \notin S
      <3>1. f[n] = q
        BY <2>7, <2>12 DEF q, p0
      <3>2. Lists(q, n)
        BY <2>8, <2>9, <2>12
      <3>3. QED
        BY <2>3, <2>5, <3>1, <3>2
    <2>13. QED
      BY <2>11, <2>12
  <1>9. Lists(f[N], N)
    <2>1. N \in 0..N
      BY <1>1
    <2> HIDE DEF Lists
    <2>2. QED
      BY <1>8, <2>1
  <1>10. \A p : p \in Paths <=> \E i \in 1..N : ImportPaths[i] = p
    BY PathsOnce
  <1>11. QED
    BY <1>7, <1>9, <1>10

\* What s lists two by two are the pairs in A.
HasPair(s, k, p, d) == \E i \in 1..k : s[2 * i - 1] = p /\ s[2 * i] = d

PairsOf(s, k, A) ==
  /\ s \in Seq(Paths) /\ k \in Nat /\ Len(s) = 2 * k
  /\ \A p, d : <<p, d>> \in A <=> HasPair(s, k, p, d)

LEMMA PairsJoined ==
  ASSUME NEW s, NEW k, NEW A, NEW t, NEW m, NEW B, PairsOf(s, k, A), PairsOf(t, m, B)
  PROVE  PairsOf(s \o t, k + m, A \cup B)
  <1>1. /\ s \in Seq(Paths) /\ k \in Nat /\ Len(s) = 2 * k
        /\ t \in Seq(Paths) /\ m \in Nat /\ Len(t) = 2 * m
    BY DEF PairsOf
  <1>2. s \o t \in Seq(Paths) /\ k + m \in Nat /\ Len(s \o t) = 2 * (k + m)
    BY <1>1
  <1>3. /\ \A i \in 1..(2 * k) : (s \o t)[i] = s[i]
        /\ \A i \in 1..(2 * m) : (s \o t)[2 * k + i] = t[i]
    BY <1>1
  <1>4. ASSUME NEW p, NEW d PROVE HasPair(s, k, p, d) => HasPair(s \o t, k + m, p, d)
    <2>1. SUFFICES ASSUME NEW i \in 1..k, s[2 * i - 1] = p, s[2 * i] = d
                   PROVE  HasPair(s \o t, k + m, p, d)
      BY DEF HasPair
    <2>2. i \in 1..(k + m) /\ 2 * i - 1 \in 1..(2 * k) /\ 2 * i \in 1..(2 * k)
      BY <1>1
    <2>3. (s \o t)[2 * i - 1] = p /\ (s \o t)[2 * i] = d
      BY <1>3, <2>1, <2>2
    <2>4. QED
      BY <2>2, <2>3 DEF HasPair
  <1>5. ASSUME NEW p, NEW d PROVE HasPair(t, m, p, d) => HasPair(s \o t, k + m, p, d)
    <2>1. SUFFICES ASSUME NEW i \in 1..m, t[2 * i - 1] = p, t[2 * i] = d
                   PROVE  HasPair(s \o t, k + m, p, d)
      BY DEF HasPair
    <2>2. /\ k + i \in 1..(k + m) /\ 2 * i - 1 \in 1..(2 * m) /\ 2 * i \in 1..(2 * m)
          /\ 2 * (k + i) - 1 = 2 * k + (2 * i - 1) /\ 2 * (k + i) = 2 * k + 2 * i
      BY <1>1
    <2>3. (s \o t)[2 * (k + i) - 1] = p /\ (s \o t)[2 * (k + i)] = d
      BY <1>3, <2>1, <2>2
    <2>4. QED
      BY <2>2, <2>3 DEF HasPair
  <1>6. ASSUME NEW p, NEW d
        PROVE  HasPair(s \o t, k + m, p, d) => HasPair(s, k, p, d) \/ HasPair(t, m, p, d)
    <2>1. SUFFICES ASSUME NEW j \in 1..(k + m),
                          (s \o t)[2 * j - 1] = p, (s \o t)[2 * j] = d
                   PROVE  HasPair(s, k, p, d) \/ HasPair(t, m, p, d)
      BY DEF HasPair
    <2>2. CASE j \in 1..k
      <3>1. 2 * j - 1 \in 1..(2 * k) /\ 2 * j \in 1..(2 * k)
        BY <1>1, <2>2
      <3>2. s[2 * j - 1] = p /\ s[2 * j] = d
        BY <1>3, <2>1, <3>1
      <3>3. QED
        BY <2>2, <3>2 DEF HasPair
    <2>3. CASE j \notin 1..k
      <3>1. /\ j - k \in 1..m
            /\ 2 * (j - k) - 1 \in 1..(2 * m) /\ 2 * (j - k) \in 1..(2 * m)
            /\ 2 * j - 1 = 2 * k + (2 * (j - k) - 1) /\ 2 * j = 2 * k + 2 * (j - k)
        BY <1>1, <2>3
      <3>2. t[2 * (j - k) - 1] = p /\ t[2 * (j - k)] = d
        BY <1>3, <2>1, <3>1
      <3>3. QED
        BY <3>1, <3>2 DEF HasPair
    <2>4. QED
      BY <2>2, <2>3
  <1>7. ASSUME NEW p, NEW d PROVE <<p, d>> \in A \cup B <=> HasPair(s \o t, k + m, p, d)
    BY <1>4, <1>5, <1>6 DEF PairsOf
  <1>8. QED
    BY <1>2, <1>7 DEF PairsOf

LEMMA OnePair ==
  ASSUME NEW p \in Paths, NEW d \in Paths
  PROVE  PairsOf(<<p, d>>, 1, {<<p, d>>})
  <1>1. <<p, d>> \in Seq(Paths) /\ Len(<<p, d>>) = 2 * 1
    OBVIOUS
  <1>2. \A i \in 1..1 : 2 * i - 1 = 1 /\ 2 * i = 2
    OBVIOUS
  <1>3. 1 \in 1..1
    OBVIOUS
  <1>4. QED
    BY <1>1, <1>2, <1>3 DEF PairsOf, HasPair

LEMMA NoPairs == PairsOf(<<>>, 0, {})
  <1>1. 1..0 = {}
    OBVIOUS
  <1>2. QED
    BY <1>1 DEF PairsOf, HasPair

\* The edges that start at p.
LEMMA EndsFromLists ==
  ASSUME NEW es, NEW p \in Paths
  PROVE  \E k : PairsOf(endsFrom(p, es), k, {<<p, d>> : d \in {d \in Paths : <<p, d>> \in es}})
  <1> DEFINE N == Len(ImportPaths)
             T == Seq(Paths)
             Turn(q, n) == IF <<p, ImportPaths[n]>> \in es THEN q \o <<p, ImportPaths[n]>> ELSE q
             Body(g, n) == IF n = 0 THEN <<>>
                           ELSE IF <<p, ImportPaths[n]>> \in es
                           THEN g[n - 1] \o <<p, ImportPaths[n]>>
                           ELSE g[n - 1]
             f == CHOOSE g : g = [n \in 0..N |-> Body(g, n)]
             step == [x \in T \X (1..N) |-> Turn(x[1], x[2])]
  <1>1. N \in Nat /\ <<>> \in T
    BY PathsOnce
  <1>2. step \in [T \X (1..N) -> T]
    <2>1. ASSUME NEW q \in T, NEW n \in 1..N PROVE Turn(q, n) \in T
      BY PathsOnce
    <2>2. QED
      BY <2>1
  <1> DEFINE none == <<>>
  <1>3. PICK g \in [0..N -> T] :
          g[0] = none /\ \A n \in 1..N : g[n] = step[<<g[n - 1], n>>]
    <2>1. Recursion(N, T, none, step)
      BY <1>1, <1>2 DEF Recursion
    <2> HIDE DEF step, T, N, none
    <2>2. PICK g : SolvesTo(N, T, none, step, g)
      BY <2>1, RecursionSolved
    <2>3. QED
      BY <2>2 DEF SolvesTo
  <1>4. \A n \in 1..N : g[n] = Turn(g[n - 1], n)
    <2>1. ASSUME NEW n \in 1..N PROVE g[n] = Turn(g[n - 1], n)
      <3>1. g[n - 1] \in T
        BY <1>1
      <3>2. <<g[n - 1], n>> \in T \X (1..N)
        BY <3>1
      <3>3. step[<<g[n - 1], n>>] = Turn(g[n - 1], n)
        BY <3>2
      <3>4. QED
        BY <1>3, <3>3
    <2>2. QED
      BY <2>1
  <1>5. g = [n \in 0..N |-> Body(g, n)]
    <2>1. \A n \in 0..N : n # 0 => n \in 1..N
      BY <1>1
    <2>2. \A n \in 0..N : g[n] = Body(g, n)
      BY <1>3, <1>4, <2>1
    <2> HIDE DEF Body
    <2>3. QED
      BY <2>2
  <1>6. f = [n \in 0..N |-> Body(f, n)]
    <2> HIDE DEF Body
    <2>1. QED
      BY <1>5
  <1>7. endsFrom(p, es) = f[N]
    BY DEF endsFrom
  <1> HIDE DEF f
  <1> DEFINE Upto(n) == {<<p, d>> : d \in {d \in Paths : /\ <<p, d>> \in es
                                                        /\ \E i \in 1..n : ImportPaths[i] = d}}
             Bad == {n \in 0..N : ~\E k : PairsOf(f[n], k, Upto(n))}
  <1>8. Bad = {}
    <2>1. SUFFICES ASSUME Bad # {} PROVE FALSE
      OBVIOUS
    <2>2. Bad \in SUBSET Nat
      OBVIOUS
    <2>3. PICK n \in Bad : n = 0 \/ (n - 1 \in Nat /\ n - 1 \notin Bad)
      <3> HIDE DEF Bad
      <3>1. QED
        BY <2>1, <2>2, LeastCounterexample
    <2>4. n # 0
      <3>1. f[0] = <<>>
        BY <1>1, <1>6
      <3>2. Upto(0) = {}
        OBVIOUS
      <3> HIDE DEF Upto
      <3>3. QED
        BY <2>3, <3>1, <3>2, NoPairs
    <2>5. n \in 1..N /\ n \in 0..N /\ n - 1 \in 0..N /\ n - 1 \in Nat
      BY <1>1, <2>3, <2>4
    <2>6. PICK k : PairsOf(f[n - 1], k, Upto(n - 1))
      <3> HIDE DEF Upto
      <3>1. QED
        BY <2>3, <2>4, <2>5
    <2>7. f[n] = Turn(f[n - 1], n)
      BY <1>6, <2>4, <2>5
    <2> DEFINE d0 == ImportPaths[n]
    <2>8. d0 \in Paths
      BY <2>5, PathsOnce
    <2>9. \A d : (\E i \in 1..n : ImportPaths[i] = d)
                   <=> d = d0 \/ \E i \in 1..(n - 1) : ImportPaths[i] = d
      BY <2>5
    <2> HIDE DEF d0
    <2>10. CASE <<p, d0>> \in es
      <3>1. Upto(n) = Upto(n - 1) \cup {<<p, d0>>}
        BY <2>8, <2>9, <2>10
      <3>2. f[n] = f[n - 1] \o <<p, d0>>
        BY <2>7, <2>10 DEF d0
      <3>3. PairsOf(<<p, d0>>, 1, {<<p, d0>>})
        BY <2>8, OnePair
      <3> HIDE DEF Upto
      <3>4. PairsOf(f[n - 1] \o <<p, d0>>, k + 1, Upto(n - 1) \cup {<<p, d0>>})
        BY <2>6, <3>3, PairsJoined
      <3>5. QED
        BY <2>3, <2>5, <3>1, <3>2, <3>4
    <2>11. CASE <<p, d0>> \notin es
      <3>1. Upto(n) = Upto(n - 1)
        BY <2>9, <2>11
      <3>2. f[n] = f[n - 1]
        BY <2>7, <2>11 DEF d0
      <3> HIDE DEF Upto
      <3>3. QED
        BY <2>3, <2>5, <2>6, <3>1, <3>2
    <2>12. QED
      BY <2>10, <2>11
  <1>9. PICK k : PairsOf(f[N], k, Upto(N))
    <2>1. N \in 0..N
      BY <1>1
    <2> HIDE DEF Upto
    <2>2. QED
      BY <1>8, <2>1
  <1>10. Upto(N) = {<<p, d>> : d \in {d \in Paths : <<p, d>> \in es}}
    BY PathsOnce
  <1>11. QED
    BY <1>7, <1>9, <1>10

LEMMA SortedEndsList ==
  ASSUME NEW es \in SUBSET (Paths \X Paths)
  PROVE  \E k : PairsOf(sortedEnds(es), k, es)
  <1> DEFINE N == Len(ImportPaths)
             T == Seq(Paths)
             Turn(q, n) == q \o endsFrom(ImportPaths[n], es)
             Body(g, n) == IF n = 0 THEN <<>> ELSE g[n - 1] \o endsFrom(ImportPaths[n], es)
             f == CHOOSE g : g = [n \in 0..N |-> Body(g, n)]
             step == [x \in T \X (1..N) |-> Turn(x[1], x[2])]
  <1>1. N \in Nat /\ <<>> \in T
    BY PathsOnce
  <1>2. step \in [T \X (1..N) -> T]
    <2>1. ASSUME NEW q \in T, NEW n \in 1..N PROVE Turn(q, n) \in T
      <3>1. endsFrom(ImportPaths[n], es) \in T
        BY PathsOnce, EndsFromLists DEF PairsOf
      <3>2. QED
        BY <3>1
    <2>2. QED
      BY <2>1
  <1> DEFINE none == <<>>
  <1>3. PICK g \in [0..N -> T] :
          g[0] = none /\ \A n \in 1..N : g[n] = step[<<g[n - 1], n>>]
    <2>1. Recursion(N, T, none, step)
      BY <1>1, <1>2 DEF Recursion
    <2> HIDE DEF step, T, N, none
    <2>2. PICK g : SolvesTo(N, T, none, step, g)
      BY <2>1, RecursionSolved
    <2>3. QED
      BY <2>2 DEF SolvesTo
  <1>4. \A n \in 1..N : g[n] = Turn(g[n - 1], n)
    <2>1. ASSUME NEW n \in 1..N PROVE g[n] = Turn(g[n - 1], n)
      <3>1. g[n - 1] \in T
        BY <1>1
      <3>2. <<g[n - 1], n>> \in T \X (1..N)
        BY <3>1
      <3>3. step[<<g[n - 1], n>>] = Turn(g[n - 1], n)
        BY <3>2
      <3>4. QED
        BY <1>3, <3>3
    <2>2. QED
      BY <2>1
  <1>5. g = [n \in 0..N |-> Body(g, n)]
    <2>1. \A n \in 0..N : n # 0 => n \in 1..N
      BY <1>1
    <2>2. \A n \in 0..N : g[n] = Body(g, n)
      BY <1>3, <1>4, <2>1
    <2> HIDE DEF Body
    <2>3. QED
      BY <2>2
  <1>6. f = [n \in 0..N |-> Body(f, n)]
    <2> HIDE DEF Body
    <2>1. QED
      BY <1>5
  <1>7. sortedEnds(es) = f[N]
    BY DEF sortedEnds
  <1> HIDE DEF f
  <1> DEFINE Upto(n) == {e \in es : \E i \in 1..n : ImportPaths[i] = e[1]}
             Bad == {n \in 0..N : ~\E k : PairsOf(f[n], k, Upto(n))}
  <1>8. Bad = {}
    <2>1. SUFFICES ASSUME Bad # {} PROVE FALSE
      OBVIOUS
    <2>2. Bad \in SUBSET Nat
      OBVIOUS
    <2>3. PICK n \in Bad : n = 0 \/ (n - 1 \in Nat /\ n - 1 \notin Bad)
      <3> HIDE DEF Bad
      <3>1. QED
        BY <2>1, <2>2, LeastCounterexample
    <2>4. n # 0
      <3>1. f[0] = <<>>
        BY <1>1, <1>6
      <3>2. Upto(0) = {}
        OBVIOUS
      <3> HIDE DEF Upto
      <3>3. QED
        BY <2>3, <3>1, <3>2, NoPairs
    <2>5. n \in 1..N /\ n \in 0..N /\ n - 1 \in 0..N /\ n - 1 \in Nat
      BY <1>1, <2>3, <2>4
    <2>6. PICK k : PairsOf(f[n - 1], k, Upto(n - 1))
      <3> HIDE DEF Upto
      <3>1. QED
        BY <2>3, <2>4, <2>5
    <2>7. f[n] = Turn(f[n - 1], n)
      BY <1>6, <2>4, <2>5
    <2> DEFINE p0 == ImportPaths[n]
               new == {<<p0, d>> : d \in {d \in Paths : <<p0, d>> \in es}}
    <2>8. p0 \in Paths
      BY <2>5, PathsOnce
    <2>9. PICK m : PairsOf(endsFrom(p0, es), m, new)
      <3> HIDE DEF p0
      <3>1. QED
        BY <2>8, EndsFromLists
    <2>10. Upto(n) = Upto(n - 1) \cup new
      <3>1. \A p : (\E i \in 1..n : ImportPaths[i] = p)
                     <=> p = p0 \/ \E i \in 1..(n - 1) : ImportPaths[i] = p
        BY <2>5
      <3>2. \A e \in es : e = <<e[1], e[2]>> /\ e[2] \in Paths
        OBVIOUS
      <3> HIDE DEF p0
      <3>3. \A e : e \in new <=> e \in es /\ e[1] = p0
        BY <3>2
      <3> HIDE DEF new
      <3>4. QED
        BY <3>1, <3>3
    <2> HIDE DEF new, Upto
    <2>11. PairsOf(f[n - 1] \o endsFrom(p0, es), k + m, Upto(n - 1) \cup new)
      BY <2>6, <2>9, PairsJoined
    <2>12. QED
      BY <2>3, <2>5, <2>7, <2>10, <2>11
  <1>9. PICK k : PairsOf(f[N], k, Upto(N))
    <2>1. N \in 0..N
      BY <1>1
    <2> HIDE DEF Upto
    <2>2. QED
      BY <1>8, <2>1
  <1>10. Upto(N) = es
    <2>1. \A e \in es : e[1] \in Paths
      OBVIOUS
    <2>2. QED
      BY <2>1, PathsOnce
  <1>11. QED
    BY <1>7, <1>9, <1>10

LEMMA JoinedAt ==
  ASSUME NEW a \in Seq(Paths), NEW b \in Seq(Paths)
  PROVE  /\ Len(a) \in Nat /\ Len(b) \in Nat /\ Len(a \o b) = Len(a) + Len(b)
         /\ \A i \in 1..Len(a) : (a \o b)[i] = a[i]
         /\ \A i \in 1..Len(b) : (a \o b)[Len(a) + i] = b[i]
  OBVIOUS

\* Where the shorter list of nodes ends, its first edge would repeat one.
LEMMA NoShorterList ==
  ASSUME NEW a \in Seq(Paths), NEW b \in Seq(Paths),
         NEW c \in Seq(Paths), NEW d \in Seq(Paths),
         a \o b = c \o d, Len(a) < Len(c),
         \A i, j \in 1..Len(c) : c[i] = c[j] => i = j,
         Len(b) > 0 => \E i \in 1..Len(a) : a[i] = b[1]
  PROVE  FALSE
  <1>1. Len(a) \in Nat /\ Len(b) \in Nat /\ Len(c) \in Nat /\ Len(d) \in Nat
    OBVIOUS
  <1>2. Len(a) + Len(b) = Len(c) + Len(d)
    BY JoinedAt
  <1>3. Len(b) > 0 /\ Len(a) + 1 \in 1..Len(c) /\ 1 \in 1..Len(b)
    BY <1>1, <1>2
  <1>4. PICK i \in 1..Len(a) : a[i] = b[1]
    BY <1>3
  <1>5. i \in 1..Len(c) /\ i # Len(a) + 1
    BY <1>1
  <1>6. /\ (a \o b)[i] = a[i] /\ (c \o d)[i] = c[i]
        /\ (a \o b)[Len(a) + 1] = b[1] /\ (c \o d)[Len(a) + 1] = c[Len(a) + 1]
    BY <1>3, <1>5, JoinedAt
  <1>7. c[i] = c[Len(a) + 1]
    BY <1>4, <1>6
  <1>8. QED
    BY <1>3, <1>5, <1>7

LEMMA FirstEdgeListed ==
  ASSUME NEW ns \in SUBSET Paths, NEW es \in SUBSET (ns \X Paths)
  PROVE  LET a == InOrder(ns)
             b == sortedEnds(es)
         IN  Len(b) > 0 => \E i \in 1..Len(a) : a[i] = b[1]
  <1> DEFINE a == InOrder(ns)
             b == sortedEnds(es)
  <1>1. SUFFICES ASSUME Len(b) > 0 PROVE \E i \in 1..Len(a) : a[i] = b[1]
    OBVIOUS
  <1>2. es \in SUBSET (Paths \X Paths)
    OBVIOUS
  <1>3. PICK k : PairsOf(b, k, es)
    BY <1>2, SortedEndsList
  <1> HIDE DEF a, b
  <1>4. k \in Nat /\ Len(b) = 2 * k
    BY <1>3 DEF PairsOf
  <1>5. 1 \in 1..k /\ 2 * 1 - 1 = 1
    BY <1>1, <1>4
  <1>6. HasPair(b, k, b[1], b[2])
    BY <1>5 DEF HasPair
  <1>7. <<b[1], b[2]>> \in es
    BY <1>3, <1>6 DEF PairsOf
  <1>8. b[1] \in ns \cap Paths
    BY <1>7
  <1>9. QED
    BY <1>8, InOrderLists DEF a

LEMMA HashTells ==
  ASSUME NEW ns \in SUBSET Paths, NEW es \in SUBSET (ns \X Paths),
         NEW ms \in SUBSET Paths, NEW fs \in SUBSET (ms \X Paths),
         computeIRHash(ns, es) = computeIRHash(ms, fs)
  PROVE  ns = ms /\ es = fs
  <1> DEFINE a == InOrder(ns)
             b == sortedEnds(es)
             c == InOrder(ms)
             d == sortedEnds(fs)
  <1>1. a \o b = c \o d
    BY DEF computeIRHash, sortedNodes
  <1>2. es \in SUBSET (Paths \X Paths) /\ fs \in SUBSET (Paths \X Paths)
    OBVIOUS
  <1>3. PICK k : PairsOf(b, k, es)
    BY <1>2, SortedEndsList
  <1>4. PICK m : PairsOf(d, m, fs)
    BY <1>2, SortedEndsList
  <1>5. /\ a \in Seq(Paths) /\ c \in Seq(Paths)
        /\ \A i, j \in 1..Len(a) : a[i] = a[j] => i = j
        /\ \A i, j \in 1..Len(c) : c[i] = c[j] => i = j
    BY InOrderLists
  <1>6. /\ Len(b) > 0 => \E i \in 1..Len(a) : a[i] = b[1]
        /\ Len(d) > 0 => \E i \in 1..Len(c) : c[i] = d[1]
    BY FirstEdgeListed
  <1>7. /\ \A p : p \in ns <=> \E i \in 1..Len(a) : a[i] = p
        /\ \A p : p \in ms <=> \E i \in 1..Len(c) : c[i] = p
    <2>1. ns \cap Paths = ns /\ ms \cap Paths = ms
      OBVIOUS
    <2>2. QED
      BY <2>1, InOrderLists
  <1> HIDE DEF a, b, c, d
  <1>8. b \in Seq(Paths) /\ d \in Seq(Paths)
    BY <1>3, <1>4 DEF PairsOf
  <1>9. ~(Len(a) < Len(c)) /\ ~(Len(c) < Len(a))
    BY <1>1, <1>5, <1>6, <1>8, NoShorterList
  <1>10. /\ Len(a) \in Nat /\ Len(c) \in Nat /\ Len(b) \in Nat /\ Len(d) \in Nat
         /\ Len(a) = Len(c)
    BY <1>5, <1>8, <1>9
  <1>11. Len(b) = Len(d)
    <2>1. Len(a \o b) = Len(a) + Len(b) /\ Len(c \o d) = Len(c) + Len(d)
      BY <1>5, <1>8
    <2>2. QED
      BY <1>1, <1>10, <2>1
  <1>12. \A i \in 1..Len(a) : a[i] = c[i]
    <2>1. \A i \in 1..Len(a) : (a \o b)[i] = a[i] /\ (c \o d)[i] = c[i]
      BY <1>5, <1>8, <1>10
    <2>2. QED
      BY <1>1, <2>1
  <1>13. \A i \in 1..Len(b) : b[i] = d[i]
    <2>1. \A i \in 1..Len(b) : /\ (a \o b)[Len(a) + i] = b[i]
                               /\ (c \o d)[Len(c) + i] = d[i]
      BY <1>5, <1>8, <1>10, <1>11
    <2>2. QED
      BY <1>1, <1>10, <2>1
  <1>14. b = d
    BY <1>8, <1>11, <1>13
  <1>15. ns = ms
    BY <1>7, <1>10, <1>12
  <1>16. k = m
    BY <1>3, <1>4, <1>14 DEF PairsOf
  <1>17. \A p, q : <<p, q>> \in es <=> <<p, q>> \in fs
    BY <1>3, <1>4, <1>14, <1>16 DEF PairsOf
  <1>18. es = fs
    BY <1>2, <1>17
  <1>19. QED
    BY <1>15, <1>18

OnPaths(ns, es) == ns \in SUBSET Paths /\ es \in SUBSET (ns \X Paths)

LEMMA HashTellsGraphs ==
  ASSUME NEW ns, NEW es, NEW ms, NEW fs, OnPaths(ns, es), OnPaths(ms, fs),
         computeIRHash(ns, es) = computeIRHash(ms, fs)
  PROVE  ns = ms /\ es = fs
  BY HashTells DEF OnPaths

-------------------------------------------------------------------------------
(***************************************************************************)
(* The baseline and the diff: what the files hold, and what the outcome    *)
(* says of them.                                                           *)
(***************************************************************************)
LEMMA TreeGraphTyped ==
  ASSUME NEW t, IsTree(t), NEW std
  PROVE  LET found == Extracted(t, std)
         IN  /\ DOMAIN found = DOMAIN t.go \cup DOMAIN t.rust
             /\ DOMAIN found \subseteq Paths
             /\ depEdges(found) \subseteq (DOMAIN found) \X Paths
  <1> DEFINE found == Extracted(t, std)
  <1>1. /\ DOMAIN found = DOMAIN t.go \cup DOMAIN t.rust
        /\ \A p \in DOMAIN t.go : found[p] = t.go[p] \ std
        /\ \A m \in DOMAIN t.rust : found[m] = {ScanUse(u) : u \in t.rust[m]}
    BY ExtractedFacts
  <1>2. \A n \in DOMAIN found : n \in Paths /\ found[n] \subseteq Paths
    BY <1>1 DEF IsTree
  <1>3. QED
    BY <1>1, <1>2 DEF depEdges

\* A file that holds a graph holds that of the tree, with its hash.
LEMMA GraphFileIs ==
  ASSUME NEW t, IsTree(t), NEW std
  PROVE  LET g == GraphFile(t, std)
         IN  \/ g = NoGraphFile /\ DOMAIN t.go \cup DOMAIN t.rust = {}
             \/ /\ g # NoGraphFile
                /\ g.nodes = DOMAIN t.go \cup DOMAIN t.rust /\ g.nodes # {}
                /\ g.nodes \in SUBSET Paths /\ g.edges \in SUBSET (g.nodes \X Paths)
                /\ g.hash = computeIRHash(g.nodes, g.edges)
  <1> DEFINE found == Extracted(t, std)
  <1>1. /\ DOMAIN found = DOMAIN t.go \cup DOMAIN t.rust
        /\ DOMAIN found \subseteq Paths
        /\ depEdges(found) \subseteq (DOMAIN found) \X Paths
    BY TreeGraphTyped
  <1>2. GraphFile(t, std) = IF DOMAIN found = {} THEN NoGraphFile ELSE BuildGraph(found)
    BY DEF GraphFile
  <1> HIDE DEF found
  <1>3. CASE DOMAIN found = {}
    BY <1>1, <1>2, <1>3
  <1>4. CASE DOMAIN found # {}
    <2>1. GraphFile(t, std) = [nodes |-> DOMAIN found, edges |-> depEdges(found),
                               hash |-> computeIRHash(DOMAIN found, depEdges(found))]
      BY <1>2, <1>4 DEF BuildGraph
    <2>2. GraphFile(t, std).nodes # NoGraphFile.nodes
      BY <1>4, <2>1 DEF NoGraphFile
    <2>3. QED
      BY <1>1, <1>4, <2>1, <2>2
  <1>5. QED
    BY <1>3, <1>4

LEMMA BaselineIs ==
  /\ Baseline.nodes \in SUBSET Paths /\ Baseline.edges \in SUBSET (Baseline.nodes \X Paths)
  /\ Baseline.hash = computeIRHash(Baseline.nodes, Baseline.edges)
  /\ Baseline.hash # <<>>
  <1>1. IsTree(BaselineTree) /\ DOMAIN BaselineTree.go \cup DOMAIN BaselineTree.rust # {}
    BY PgvConstants
  <1>2. /\ Baseline.nodes # {} /\ Baseline.nodes \in SUBSET Paths
        /\ Baseline.edges \in SUBSET (Baseline.nodes \X Paths)
        /\ Baseline.hash = computeIRHash(Baseline.nodes, Baseline.edges)
    BY <1>1, GraphFileIs DEF Baseline
  <1> DEFINE a == InOrder(Baseline.nodes)
             b == sortedEnds(Baseline.edges)
  <1>3. Baseline.hash = a \o b
    BY <1>2 DEF computeIRHash, sortedNodes
  <1>4. PICK p : p \in Baseline.nodes \cap Paths
    BY <1>2
  <1>5. a \in Seq(Paths) /\ \E i \in 1..Len(a) : a[i] = p
    BY <1>4, InOrderLists
  <1>6. b \in Seq(Paths)
    <2>1. Baseline.edges \in SUBSET (Paths \X Paths)
      BY <1>2
    <2>2. QED
      BY <2>1, SortedEndsList DEF PairsOf
  <1> HIDE DEF a, b
  <1>7. Len(a \o b) > 0
    BY <1>5, <1>6, JoinedAt
  <1>8. Baseline.hash # <<>>
    BY <1>3, <1>7
  <1>9. QED
    BY <1>2, <1>8

\* The hash is that of the graph, and the status was taken from it at the end.
Concluded == {"PASSED", "FAILED", "no packages", "extractor failed",
              "matches baseline", "MISMATCH"}

HashInv ==
  /\ phase \in Phases
  /\ phase # "extract" => hash = computeIRHash(nodes, edges)
  /\ outcome \in Concluded =>
       phase \in {"done", "crashed"} \/ (phase = "extract" /\ extracted = <<>>)
  /\ outcome \in {"matches baseline", "MISMATCH"} =>
       (outcome = "matches baseline" <=> phase = "done" /\ hash = Baseline.hash)

FilesOf(t) == {GraphFile(t, Std), GraphFile(t, {}), NoGraphFile}

DiffInv ==
  /\ baseTree \in Trees \cup RefTrees
  /\ outcome \in {"running", "head extracted"} => baseTree = tree
  /\ outcome \in {"head extracted", "base extracted", "compared"} => head \in FilesOf(tree)
  /\ outcome \in {"base extracted", "compared"} => base \in FilesOf(baseTree)
  /\ outcome = "compared" => /\ delta = DiffGraphs(base, head)
                             /\ head # NoGraphFile /\ base # NoGraphFile

LEMMA NothingExtracted ==
  ASSUME NEW t, NEW std, DOMAIN Extracted(t, std) = {}
  PROVE  Extracted(t, std) = <<>>
  BY DEF Extracted

LEMMA CheckPhases ==
  ASSUME Check \/ \E declared : Report(declared)
  PROVE  /\ phase \in {"built", "cycles", "depth"}
         /\ phase' \in {"cycles", "depth", "done", "crashed"}
  BY DEF Check, BeginChecks, StartCycleSearch, NextNeighbour, LeaveNode, EndCycleSearch,
         StartDepth, Descend, Ascend, Overflow, Report

LEMMA HashInvStep == TreeInv /\ HashInv /\ [Next]_allVars => HashInv'
  <1> SUFFICES ASSUME TreeInv, HashInv, [Next]_allVars PROVE HashInv'
    OBVIOUS
  <1> USE DEF HashInv, Concluded, Phases
  <1>1. ASSUME UNCHANGED <<nodes, edges, phase, hash, extracted>>,
               \/ outcome' = outcome
               \/ outcome' \notin Concluded
        PROVE  HashInv'
    BY <1>1
  <1>2. ASSUME UNCHANGED vars PROVE UNCHANGED <<nodes, edges, phase>>
    BY <1>2 DEF vars, graphVars
  <1>3. CASE Extract
    <2>1. /\ UNCHANGED <<nodes, edges, phase, hash>> /\ phase = "extract"
          /\ outcome' = IF DOMAIN extracted' = {} THEN "no packages" ELSE "running"
      BY <1>2, <1>3 DEF Extract
    <2>2. PICK std : extracted' = Extracted(tree, std)
      BY <1>3 DEF Extract
    <2>3. DOMAIN extracted' = {} => extracted' = <<>>
      BY <2>2, NothingExtracted
    <2>4. QED
      BY <2>1, <2>3
  <1>4. CASE ExtractorFails
    BY <1>2, <1>4 DEF ExtractorFails
  <1>5. CASE BuildFromExtracted
    <2>1. /\ phase = "extract" /\ extracted # <<>> /\ phase' = "built"
          /\ hash' = computeIRHash(nodes', edges') /\ outcome' = outcome
      BY <1>5 DEF BuildFromExtracted, Build
    <2>2. QED
      BY <2>1
  <1>6. CASE Validate \/ Conclude
    <2>1. /\ phase \in {"built", "cycles", "depth"}
          /\ phase' \in {"cycles", "depth", "done", "crashed"}
          /\ UNCHANGED graphVars /\ UNCHANGED <<hash, extracted>>
      BY <1>6, CheckPhases, StepPhase DEF Validate, Conclude, pgvVars
    <2>2. UNCHANGED <<nodes, edges>>
      BY <2>1 DEF graphVars
    <2>3. CASE Validate
      BY <2>1, <2>2, <2>3 DEF Validate, pgvVars
    <2>4. CASE Conclude
      <3>1. phase' = "done" /\ outcome' \in {"PASSED", "FAILED"}
        BY <2>4 DEF Conclude, Report
      <3>2. QED
        BY <2>1, <2>2, <3>1
    <2>5. QED
      BY <1>6, <2>3, <2>4
  <1>7. CASE CompareWithBaseline
    <2>1. /\ UNCHANGED <<nodes, edges, phase, hash, extracted>>
          /\ outcome \in Concluded \/ phase = "crashed"
          /\ outcome' = IF (IF phase = "done" THEN hash ELSE <<>>) = Baseline.hash
                        THEN "matches baseline" ELSE "MISMATCH"
      BY <1>2, <1>7 DEF CompareWithBaseline
    <2>2. Baseline.hash # <<>>
      BY BaselineIs
    <2>3. /\ outcome' \in {"matches baseline", "MISMATCH"}
          /\ outcome' = "matches baseline" <=> phase = "done" /\ hash = Baseline.hash
      BY <2>1, <2>2
    <2>4. QED
      BY <2>1, <2>3
  <1>8. CASE ExtractHead \/ ExtractBase \/ HeadAsBase \/ DiffFiles
    BY <1>1, <1>2, <1>8 DEF ExtractHead, ExtractBase, HeadAsBase, DiffFiles
  <1>9. CASE UNCHANGED allVars
    BY <1>1, <1>2, <1>9 DEF allVars, pgvVars
  <1>10. QED
    BY <1>3, <1>4, <1>5, <1>6, <1>7, <1>8, <1>9 DEF Next

LEMMA DiffInvStep == TreeInv /\ DiffInv /\ [Next]_allVars => DiffInv'
  <1> SUFFICES ASSUME TreeInv, DiffInv, [Next]_allVars PROVE DiffInv'
    OBVIOUS
  <1> USE DEF DiffInv
  <1>1. ASSUME UNCHANGED <<tree, head, base, baseTree, delta>>,
               \/ outcome' = outcome
               \/ outcome = "running" /\ outcome' = "running"
               \/ outcome' \notin {"running", "head extracted", "base extracted", "compared"}
        PROVE  DiffInv'
    BY <1>1
  <1>2. CASE Extract \/ ExtractorFails \/ CompareWithBaseline
    BY <1>1, <1>2 DEF Extract, ExtractorFails, CompareWithBaseline
  <1>3. CASE BuildFromExtracted \/ Validate \/ Conclude
    BY <1>1, <1>3 DEF BuildFromExtracted, Validate, Conclude, pgvVars
  <1>4. CASE ExtractHead
    BY <1>4 DEF ExtractHead, FilesOf
  <1>5. CASE ExtractBase
    <2>1. PICK t \in RefTrees : baseTree' = t /\ base' \in {GraphFile(t, Std), GraphFile(t, {})}
      BY <1>5 DEF ExtractBase
    <2>2. base' \in FilesOf(baseTree')
      BY <2>1 DEF FilesOf
    <2>3. outcome' = "base extracted" /\ outcome = "head extracted" /\ UNCHANGED <<tree, head>>
      BY <1>5 DEF ExtractBase
    <2>4. QED
      BY <2>1, <2>2, <2>3
  <1>6. CASE HeadAsBase
    BY <1>6 DEF HeadAsBase
  <1>7. CASE DiffFiles
    <2>1. /\ outcome = "base extracted" /\ UNCHANGED <<tree, head, base, baseTree>>
          /\ \/ outcome' = "unreadable"
             \/ /\ outcome' = "compared" /\ delta' = DiffGraphs(base, head)
                /\ head # NoGraphFile /\ base # NoGraphFile
      BY <1>7 DEF DiffFiles
    <2>2. delta' = DiffGraphs(base, head) => delta' = DiffGraphs(base', head')
      BY <2>1
    <2>3. QED
      BY <2>1, <2>2
  <1>8. CASE UNCHANGED allVars
    BY <1>1, <1>8 DEF allVars, pgvVars
  <1>9. QED
    BY <1>2, <1>3, <1>4, <1>5, <1>6, <1>7, <1>8 DEF Next

LEMMA HashesHold == FairSpec => [](PgvInv /\ HashInv /\ DiffInv)
  <1> DEFINE I == TreeInv /\ HashInv /\ DiffInv
  <1>1. Init => I
    <2>1. Init => HashInv
      BY DEF Init, NoGraph, HashInv, Concluded, Phases
    <2>2. Init => DiffInv
      BY DEF Init, DiffInv
    <2>3. QED
      BY <2>1, <2>2, TreeInvStart
  <1>2. I /\ [Next]_allVars => I'
    BY TreeInvStep, HashInvStep, DiffInvStep
  <1>3. QED
    BY <1>1, <1>2, PgvInvHolds, PTL DEF FairSpec

LEMMA BaselineFollows == PgvInv /\ HashInv => BaselineExact
  <1> SUFFICES ASSUME PgvInv, HashInv, outcome \in {"matches baseline", "MISMATCH"}
               PROVE  outcome = "matches baseline" <=>
                        /\ phase = "done"
                        /\ nodes = Baseline.nodes /\ edges = Baseline.edges
    BY DEF BaselineExact
  <1>1. outcome = "matches baseline" <=> phase = "done" /\ hash = Baseline.hash
    BY DEF HashInv
  <1>2. nodes \in SUBSET Paths /\ edges \in SUBSET (nodes \X Paths)
    BY GraphIsTyped DEF PgvInv, Paths
  <1>3. ASSUME phase = "done"
        PROVE  hash = Baseline.hash <=> nodes = Baseline.nodes /\ edges = Baseline.edges
    <2>1. hash = computeIRHash(nodes, edges)
      BY <1>3 DEF HashInv
    <2>2. ASSUME hash = Baseline.hash
          PROVE  nodes = Baseline.nodes /\ edges = Baseline.edges
      <3>1. OnPaths(nodes, edges) /\ OnPaths(Baseline.nodes, Baseline.edges)
        BY <1>2, BaselineIs DEF OnPaths
      <3>2. computeIRHash(nodes, edges) = computeIRHash(Baseline.nodes, Baseline.edges)
        BY <2>1, <2>2, BaselineIs
      <3>3. QED
        BY <3>1, <3>2, HashTellsGraphs
    <2>3. nodes = Baseline.nodes /\ edges = Baseline.edges => hash = Baseline.hash
      BY <2>1, BaselineIs
    <2>4. QED
      BY <2>2, <2>3
  <1>4. QED
    BY <1>1, <1>3

LEMMA DiffFollows == TreeInv /\ DiffInv => DiffExact
  <1> SUFFICES ASSUME TreeInv, DiffInv, outcome = "compared"
               PROVE  /\ (base.nodes \ delta.removed) \cup delta.added = DOMAIN Extracted(tree, Std)
                      /\ delta.unchanged = base.nodes \ delta.removed
                      /\ base.nodes = DOMAIN Extracted(baseTree, Std)
                      /\ delta.baseHash = delta.headHash => delta.added = {} /\ delta.removed = {}
                      /\ delta.baseHash = delta.headHash
                           <=> base.edges = head.edges /\ base.nodes = head.nodes
    BY DEF DiffExact
  <1>1. IsTree(tree) /\ IsTree(baseTree)
    BY PgvConstants DEF TreeInv, DiffInv
  <1>2. /\ DOMAIN Extracted(tree, Std) = DOMAIN tree.go \cup DOMAIN tree.rust
        /\ DOMAIN Extracted(baseTree, Std) = DOMAIN baseTree.go \cup DOMAIN baseTree.rust
    BY <1>1, ExtractedFacts
  <1>3. /\ head.nodes = DOMAIN tree.go \cup DOMAIN tree.rust
        /\ head.nodes \in SUBSET Paths /\ head.edges \in SUBSET (head.nodes \X Paths)
        /\ head.hash = computeIRHash(head.nodes, head.edges)
    <2>1. head \in FilesOf(tree) /\ head # NoGraphFile
      BY DEF DiffInv
    <2>2. PICK std : head = GraphFile(tree, std)
      BY <2>1 DEF FilesOf
    <2>3. QED
      BY <1>1, <2>1, <2>2, GraphFileIs
  <1>4. /\ base.nodes = DOMAIN baseTree.go \cup DOMAIN baseTree.rust
        /\ base.nodes \in SUBSET Paths /\ base.edges \in SUBSET (base.nodes \X Paths)
        /\ base.hash = computeIRHash(base.nodes, base.edges)
    <2>1. base \in FilesOf(baseTree) /\ base # NoGraphFile
      BY DEF DiffInv
    <2>2. PICK std : base = GraphFile(baseTree, std)
      BY <2>1 DEF FilesOf
    <2>3. QED
      BY <1>1, <2>1, <2>2, GraphFileIs
  <1>5. /\ delta.baseHash = base.hash /\ delta.headHash = head.hash
        /\ delta.added = head.nodes \ base.nodes /\ delta.removed = base.nodes \ head.nodes
        /\ delta.unchanged = base.nodes \cap head.nodes
    BY DEF DiffInv, DiffGraphs, Gone
  <1>6. base.hash = head.hash <=> base.edges = head.edges /\ base.nodes = head.nodes
    <2>1. base.hash = head.hash => base.edges = head.edges /\ base.nodes = head.nodes
      BY <1>3, <1>4, HashTells
    <2>2. QED
      BY <1>3, <1>4, <2>1
  <1>7. QED
    BY <1>2, <1>3, <1>4, <1>5, <1>6

-------------------------------------------------------------------------------
(* On any trees every state of both commands is one of the types: the      *)
(* three maps of hasCycleDFS are a partition of the projections, and the   *)
(* frames are those of projections.                                        *)
THEOREM PgvTypes == FairSpec => []TypeOK
  <1>1. PgvInv => TypeOK
    BY TypesFollow
  <1>2. QED
    BY <1>1, PgvInvHolds, PTL

(* The gray nodes are the path on the stack, whatever the graph is and     *)
(* however deep the recursion of hasCycleDFS goes.                         *)
THEOREM GrayPath == FairSpec => []GrayIsThePath
  <1>1. PgvInv => GrayIsThePath
    BY PathFollows, GraphIsTyped DEF PgvInv
  <1>2. QED
    BY <1>1, PgvInvHolds, PTL

(* checkCycles reports a cycle exactly if the imports between projections  *)
(* have one: for any finite graph and any order of the map of roots.       *)
THEOREM CycleSearchExact == FairSpec => []CyclesExact
  <1>1. PgvInv => CyclesExact
    BY CyclesFollow DEF PgvInv
  <1>2. QED
    BY <1>1, PgvInvHolds, PTL

(* Without a cycle checkDepth neither exhausts the stack nor memoizes a    *)
(* wrong depth, and reports the length of the longest chain of imports.    *)
THEOREM DepthSearchExact == FairSpec => []DepthExact
  <1>1. PgvInv => DepthExact
    BY DepthFollows DEF PgvInv
  <1>2. QED
    BY <1>1, PgvInvHolds, PTL

(* The verdict reports nothing that the uses in the Rust modules do not    *)
(* do, and everything they do where no item is used, whether go list could *)
(* name the standard library or not.                                       *)
THEOREM VerdictExact == FairSpec => []VerdictIsTheTrees
  <1>1. PgvInv => VerdictIsTheTrees
    BY VerdictFollows
  <1>2. QED
    BY <1>1, PgvInvHolds, PTL

(* make pdtp-window-status calls the tree clean exactly if its graph is    *)
(* that of the baseline: the hash tells any two graphs apart, whatever the *)
(* import paths, and a run that ended early is no match.                   *)
THEOREM BaselineStatusExact == FairSpec => []BaselineExact
  <1>1. PgvInv /\ HashInv => BaselineExact
    BY BaselineFollows
  <1>2. QED
    BY <1>1, HashesHold, PTL

(* The diff of two commits leads from the nodes of one to those of the     *)
(* other, and their hashes are equal exactly if the graphs are.            *)
THEOREM DeltaExact == FairSpec => []DiffExact
  <1>1. TreeInv /\ DiffInv => DiffExact
    BY DiffFollows
  <1>2. QED
    BY <1>1, HashesHold, PTL DEF PgvInv
===============================================================================
