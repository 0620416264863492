---------------------------- MODULE HarnessProofs ----------------------------
(***************************************************************************)
(* Proofs about the pipeline, its hosts and the programs that judge it     *)
(* (Ccnf, CcnfHosts, Harness), for any normalization, dates, artifact ids, *)
(* inputs, orders and vector files.                                        *)
(***************************************************************************)
EXTENDS Harness, SequenceTheorems, FiniteSetTheorems, TLAPS

(* A document, and a decoded object.                                       *)
Doc(d) == /\ d = [p \in DOMAIN d |-> d[p]]
          /\ DOMAIN d \subseteq Seq(Name) /\ <<>> \in DOMAIN d

Object(f) == /\ f = [k \in DOMAIN f |-> f[k]]
             /\ DOMAIN f \subseteq Name
             /\ \A k \in DOMAIN f : Doc(f[k])

-----------------------------------------------------------------------------
(* A path that is not empty is a first step and the path from there.       *)
LEMMA ConsPath ==
  ASSUME NEW k \in Name, NEW q \in Seq(Name)
  PROVE  /\ Cons(k, q) \in Seq(Name) /\ Cons(k, q) # <<>>
         /\ Head(Cons(k, q)) = k /\ Tail(Cons(k, q)) = q
         /\ Len(Cons(k, q)) = Len(q) + 1
         /\ Cons(k, q)[1] = k
         /\ \A i \in 1..Len(q) : Cons(k, q)[i + 1] = q[i]
  <1>1. <<k>> \in Seq(Name) /\ Len(<<k>>) = 1 /\ <<k>>[1] = k
    OBVIOUS
  <1>2. /\ Cons(k, q) \in Seq(Name) /\ Len(Cons(k, q)) = Len(q) + 1
        /\ Cons(k, q)[1] = k
        /\ \A i \in 1..Len(q) : Cons(k, q)[i + 1] = q[i]
    BY <1>1 DEF Cons
  <1>3. Cons(k, q) # <<>>
    BY <1>2
  <1>4. Head(Cons(k, q)) = k
    BY <1>2
  <1>5. Tail(Cons(k, q)) = q
    BY <1>2, <1>3
  <1> QED
    BY <1>2, <1>3, <1>4, <1>5

LEMMA Uncons ==
  ASSUME NEW p \in Seq(Name), p # <<>>
  PROVE  /\ Head(p) \in Name /\ Tail(p) \in Seq(Name)
         /\ p = Cons(Head(p), Tail(p))
  <1>1. Head(p) \in Name /\ Tail(p) \in Seq(Name)
        /\ Len(Tail(p)) = Len(p) - 1 /\ Len(p) \in Nat
        /\ \A i \in 1..Len(Tail(p)) : Tail(p)[i] = p[i + 1]
    BY HeadTailProperties
  <1> DEFINE r == Cons(Head(p), Tail(p))
  <1>2. /\ r \in Seq(Name) /\ Len(r) = Len(Tail(p)) + 1 /\ r[1] = Head(p)
        /\ \A i \in 1..Len(Tail(p)) : r[i + 1] = Tail(p)[i]
    BY <1>1, ConsPath
  <1> HIDE DEF r
  <1>3. ASSUME NEW i \in 1..Len(r) PROVE r[i] = p[i]
    <2>1. CASE i = 1
      BY <1>2, <2>1
    <2>2. CASE i # 1
      <3>1. i - 1 \in 1..Len(Tail(p)) /\ (i - 1) + 1 = i
        BY <1>1, <1>2, <2>2
      <3>2. r[(i - 1) + 1] = p[(i - 1) + 1]
        BY <1>1, <1>2, <3>1
      <3> QED
        BY <3>1, <3>2
    <2> QED
      BY <2>1, <2>2
  <1>4. r = p
    BY <1>1, <1>2, <1>3, SeqEqual
  <1> QED
    BY <1>1, <1>4 DEF r

LEMMA Single ==
  /\ \A k \in Name : Cons(k, <<>>) = <<k>>
  /\ <<>> \in Seq(Name) /\ Len(<<>>) = 0
  /\ \A p \in Seq(Name) : Len(p) = 1 => /\ p = <<p[1]>> /\ p # <<>> /\ p[1] \in Name
                                          /\ Head(p) = p[1]
  <1>1. \A k \in Name : Cons(k, <<>>) = <<k>>
    BY DEF Cons
  <1>2. <<>> \in Seq(Name) /\ Len(<<>>) = 0
    OBVIOUS
  <1>3. ASSUME NEW p \in Seq(Name), Len(p) = 1
        PROVE  p = <<p[1]>> /\ p # <<>> /\ p[1] \in Name /\ Head(p) = p[1]
    BY <1>3
  <1> QED
    BY <1>1, <1>2, <1>3

-----------------------------------------------------------------------------
(* Leaves and trees are documents, and Members takes an object apart.      *)
LEMMA LeafIs ==
  ASSUME NEW x
  PROVE  /\ Doc(Leaf(x)) /\ Leaf(x)[<<>>] = x /\ DOMAIN Leaf(x) = {<<>>}
  BY DEF Doc, Leaf

LEMMA TreePaths ==
  ASSUME NEW kind, NEW f, Object(f)
  PROVE  /\ Doc(Tree(kind, f))
         /\ Tree(kind, f)[<<>>] = <<kind>>
         /\ \A p : p \in DOMAIN Tree(kind, f)
                     <=> \/ p = <<>>
                         \/ \E k \in DOMAIN f : \E q \in DOMAIN f[k] : p = Cons(k, q)
         /\ \A k \in DOMAIN f : \A q \in DOMAIN f[k] :
              Cons(k, q) \in DOMAIN Tree(kind, f) /\ Tree(kind, f)[Cons(k, q)] = f[k][q]
  <1>1. \A p : p \in DOMAIN Tree(kind, f)
                 <=> \/ p = <<>>
                     \/ \E k \in DOMAIN f : \E q \in DOMAIN f[k] : p = Cons(k, q)
    BY DEF Tree
  <1>2. \A k \in DOMAIN f : k \in Name /\ DOMAIN f[k] \subseteq Seq(Name)
    BY DEF Object, Doc
  <1>3. ASSUME NEW k \in DOMAIN f, NEW q \in DOMAIN f[k]
        PROVE  /\ Cons(k, q) \in DOMAIN Tree(kind, f)
               /\ Tree(kind, f)[Cons(k, q)] = f[k][q]
               /\ Cons(k, q) \in Seq(Name)
    <2>1. k \in Name /\ q \in Seq(Name)
      BY <1>2
    <2>2. Cons(k, q) # <<>> /\ Head(Cons(k, q)) = k /\ Tail(Cons(k, q)) = q
          /\ Cons(k, q) \in Seq(Name)
      BY <2>1, ConsPath
    <2>3. Cons(k, q) \in DOMAIN Tree(kind, f)
      BY <1>1
    <2> QED
      BY <2>2, <2>3 DEF Tree
  <1>4. Tree(kind, f)[<<>>] = <<kind>>
    BY DEF Tree
  <1>5. Tree(kind, f) = [p \in DOMAIN Tree(kind, f) |-> Tree(kind, f)[p]]
    <2> DEFINE S == {<<>>} \cup UNION {{Cons(k, q) : q \in DOMAIN f[k]} : k \in DOMAIN f}
               e(p) == IF p = <<>> THEN <<kind>> ELSE f[Head(p)][Tail(p)]
    <2>1. Tree(kind, f) = [p \in S |-> e(p)]
      BY DEF Tree
    <2> HIDE DEF S, e
    <2> QED
      BY <2>1
  <1>6. ASSUME NEW p \in DOMAIN Tree(kind, f) PROVE p \in Seq(Name)
    <2>1. CASE p = <<>>
      BY <2>1, Single
    <2>2. CASE p # <<>>
      <3>1. PICK k \in DOMAIN f : \E q \in DOMAIN f[k] : p = Cons(k, q)
        BY <1>1, <2>2
      <3> QED
        BY <1>3, <3>1
    <2> QED
      BY <2>1, <2>2
  <1>7. Doc(Tree(kind, f))
    BY <1>1, <1>5, <1>6 DEF Doc
  <1> QED
    BY <1>1, <1>3, <1>4, <1>7

LEMMA AtIs ==
  ASSUME NEW d, Doc(d), NEW k \in Keys(d)
  PROVE  /\ k \in Name /\ Doc(At(d, k))
         /\ \A q : q \in DOMAIN At(d, k) <=> q \in Seq(Name) /\ Cons(k, q) \in DOMAIN d
         /\ \A q \in DOMAIN At(d, k) : At(d, k)[q] = d[Cons(k, q)]
         /\ <<k>> \in DOMAIN d /\ At(d, k)[<<>>] = d[<<k>>]
  <1>1. PICK p \in DOMAIN d : Len(p) = 1 /\ k = p[1]
    BY DEF Keys
  <1>2. k \in Name /\ <<k>> \in DOMAIN d /\ Cons(k, <<>>) = <<k>>
    BY <1>1, Single DEF Doc
  <1>3. ASSUME NEW q
        PROVE  q \in DOMAIN At(d, k) <=> q \in Seq(Name) /\ Cons(k, q) \in DOMAIN d
    <2>1. ASSUME q \in DOMAIN At(d, k)
          PROVE  q \in Seq(Name) /\ Cons(k, q) \in DOMAIN d
      <3>1. PICK x \in DOMAIN d : x # <<>> /\ Head(x) = k /\ q = Tail(x)
        BY <2>1 DEF At
      <3> QED
        BY <3>1, Uncons DEF Doc
    <2>2. ASSUME q \in Seq(Name), Cons(k, q) \in DOMAIN d
          PROVE  q \in DOMAIN At(d, k)
      BY <1>2, <2>2, ConsPath DEF At
    <2> QED
      BY <2>1, <2>2
  <1>4. \A q \in DOMAIN At(d, k) : At(d, k)[q] = d[Cons(k, q)]
    BY DEF At
  <1>5. At(d, k) = [q \in DOMAIN At(d, k) |-> At(d, k)[q]]
    BY DEF At
  <1>6. <<>> \in DOMAIN At(d, k) /\ DOMAIN At(d, k) \subseteq Seq(Name)
    BY <1>2, <1>3, Single
  <1> QED
    BY <1>2, <1>3, <1>4, <1>5, <1>6 DEF Doc

LEMMA MembersIs ==
  ASSUME NEW d, Doc(d)
  PROVE  Object(Members(d)) /\ DOMAIN Members(d) = Keys(d)
         /\ \A k \in Keys(d) : Members(d)[k] = At(d, k)
  BY AtIs DEF Members, Object

LEMMA MembersOfTree ==
  ASSUME NEW kind, NEW f, Object(f)
  PROVE  Keys(Tree(kind, f)) = DOMAIN f /\ Members(Tree(kind, f)) = f
  <1> DEFINE t == Tree(kind, f)
  <1>1. Doc(t)
    BY TreePaths
  <1>2. \A k \in DOMAIN f : k \in Name /\ Doc(f[k])
    BY DEF Object
  <1>3. Keys(t) = DOMAIN f
    <2>1. ASSUME NEW k \in Keys(t) PROVE k \in DOMAIN f
      <3>1. PICK p \in DOMAIN t : Len(p) = 1 /\ k = p[1]
        BY DEF Keys
      <3>2. p # <<>> /\ Head(p) = k
        BY <1>1, <3>1, Single DEF Doc
      <3>3. PICK j \in DOMAIN f : \E q \in DOMAIN f[j] : p = Cons(j, q)
        BY <3>2, TreePaths
      <3>4. PICK q \in DOMAIN f[j] : p = Cons(j, q)
        BY <3>3
      <3>5. j \in Name /\ q \in Seq(Name)
        BY <1>2 DEF Doc
      <3>6. Head(p) = j
        BY <3>4, <3>5, ConsPath
      <3> QED
        BY <3>2, <3>6
    <2>2. ASSUME NEW k \in DOMAIN f PROVE k \in Keys(t)
      <3>1. Cons(k, <<>>) \in DOMAIN t
        BY <1>2, TreePaths DEF Doc
      <3>2. <<k>> \in DOMAIN t /\ Len(<<k>>) = 1 /\ <<k>>[1] = k
        BY <1>2, <3>1, Single
      <3> QED
        BY <3>2 DEF Keys
    <2> QED
      BY <2>1, <2>2
  <1>4. ASSUME NEW k \in DOMAIN f PROVE At(t, k) = f[k]
    <2>1. k \in Name /\ Doc(f[k])
      BY <1>2
    <2>2. Doc(At(t, k)) /\ \A q : q \in DOMAIN At(t, k) <=> q \in Seq(Name) /\ Cons(k, q) \in DOMAIN t
      BY <1>1, <1>3, AtIs
    <2>3. ASSUME NEW q PROVE q \in DOMAIN At(t, k) <=> q \in DOMAIN f[k]
      <3>1. ASSUME q \in DOMAIN At(t, k) PROVE q \in DOMAIN f[k]
        <4>1. q \in Seq(Name) /\ Cons(k, q) \in DOMAIN t
          BY <2>2, <3>1
        <4>2. Cons(k, q) # <<>> /\ Head(Cons(k, q)) = k /\ Tail(Cons(k, q)) = q
          BY <2>1, <4>1, ConsPath
        <4>3. PICK j \in DOMAIN f : \E r \in DOMAIN f[j] : Cons(k, q) = Cons(j, r)
          BY <4>1, <4>2, TreePaths
        <4>4. PICK r \in DOMAIN f[j] : Cons(k, q) = Cons(j, r)
          BY <4>3
        <4>5. Head(Cons(k, q)) = j /\ Tail(Cons(k, q)) = r
          BY <1>2, <4>4, ConsPath DEF Doc
        <4> QED
          BY <4>2, <4>5
      <3>2. ASSUME q \in DOMAIN f[k] PROVE q \in DOMAIN At(t, k)
        BY <2>1, <2>2, <3>2, TreePaths DEF Doc
      <3> QED
        BY <3>1, <3>2
    <2>4. ASSUME NEW q \in DOMAIN At(t, k) PROVE At(t, k)[q] = f[k][q]
      <3>1. At(t, k)[q] = t[Cons(k, q)]
        <4>1. k \in Keys(t)
          BY <1>3
        <4> HIDE DEF t
        <4> QED
          BY <1>1, <4>1, AtIs
      <3> QED
        BY <2>3, <3>1, TreePaths
    <2>5. DOMAIN At(t, k) = DOMAIN f[k]
      BY <2>3
    <2> QED
      BY <2>1, <2>2, <2>4, <2>5 DEF Doc
  <1> QED
    BY <1>1, <1>3, <1>4, MembersIs DEF Object

LEMMA DocEqual ==
  ASSUME NEW d, NEW e, Doc(d), Doc(e), DOMAIN d = DOMAIN e, \A p \in DOMAIN d : d[p] = e[p]
  PROVE  d = e
  BY DEF Doc

LEMMA ObjectEqual ==
  ASSUME NEW f, NEW g, Object(f), Object(g), DOMAIN f = DOMAIN g,
         \A k \in DOMAIN f : f[k] = g[k]
  PROVE  f = g
  BY DEF Object

LEMMA EmptyIs == Object(Empty) /\ DOMAIN Empty = {}
  BY DEF Object, Empty

-----------------------------------------------------------------------------
(* CanonicalJSON keeps the paths, writes null for Go values and can be     *)
(* applied member by member.                                               *)
NoGo(d) == \A p \in DOMAIN d : d[p][1] # "go"

LEMMA Encoded ==
  ASSUME NEW d, Doc(d)
  PROVE  /\ Doc(CanonicalJSON(d)) /\ DOMAIN CanonicalJSON(d) = DOMAIN d
         /\ \A p \in DOMAIN d : CanonicalJSON(d)[p] = encode(d[p])
         /\ NoGo(CanonicalJSON(d))
  <1>1. \A x : encode(x)[1] # "go"
    BY DEF encode
  <1> QED
    BY <1>1 DEF Doc, CanonicalJSON, NoGo

LEMMA PlainStays ==
  ASSUME NEW d, Doc(d), NoGo(d)
  PROVE  CanonicalJSON(d) = d
  <1>1. \A p \in DOMAIN d : CanonicalJSON(d)[p] = d[p]
    BY Encoded DEF NoGo, encode
  <1> QED
    BY <1>1, Encoded, DocEqual

LEMMA EncodeLeaf ==
  ASSUME NEW x
  PROVE  CanonicalJSON(Leaf(x)) = Leaf(encode(x))
  <1>1. /\ Doc(CanonicalJSON(Leaf(x))) /\ DOMAIN CanonicalJSON(Leaf(x)) = {<<>>}
        /\ CanonicalJSON(Leaf(x))[<<>>] = encode(x)
    BY Encoded, LeafIs
  <1> QED
    BY <1>1, LeafIs, DocEqual

Each(f) == [k \in DOMAIN f |-> CanonicalJSON(f[k])]

LEMMA EncodeTree ==
  ASSUME NEW kind, kind # "go", NEW f, Object(f)
  PROVE  Object(Each(f)) /\ CanonicalJSON(Tree(kind, f)) = Tree(kind, Each(f))
  <1>1. Object(Each(f)) /\ DOMAIN Each(f) = DOMAIN f
        /\ \A k \in DOMAIN f : Each(f)[k] = CanonicalJSON(f[k]) /\ DOMAIN Each(f)[k] = DOMAIN f[k]
    BY Encoded DEF Object, Each
  <1> DEFINE t == Tree(kind, f)
             u == Tree(kind, Each(f))
  <1>2. Doc(t) /\ Doc(u) /\ t[<<>>] = <<kind>> /\ u[<<>>] = <<kind>>
    BY <1>1, TreePaths
  <1>3. ASSUME NEW p PROVE p \in DOMAIN t <=> p \in DOMAIN u
    <2>1. p \in DOMAIN t <=> p = <<>> \/ \E k \in DOMAIN f : \E q \in DOMAIN f[k] : p = Cons(k, q)
      BY TreePaths
    <2>2. p \in DOMAIN u <=> p = <<>> \/ \E k \in DOMAIN Each(f) :
                                         \E q \in DOMAIN Each(f)[k] : p = Cons(k, q)
      BY <1>1, TreePaths
    <2> QED
      BY <1>1, <2>1, <2>2
  <1>4. ASSUME NEW p \in DOMAIN t PROVE CanonicalJSON(t)[p] = u[p]
    <2>1. CanonicalJSON(t)[p] = encode(t[p])
      BY <1>2, Encoded
    <2>2. CASE p = <<>>
      BY <1>2, <2>1, <2>2 DEF encode
    <2>3. CASE p # <<>>
      <3>1. PICK k \in DOMAIN f : \E q \in DOMAIN f[k] : p = Cons(k, q)
        BY <2>3, TreePaths
      <3>2. PICK q \in DOMAIN f[k] : p = Cons(k, q)
        BY <3>1
      <3>3. t[p] = f[k][q] /\ u[p] = Each(f)[k][q]
        BY <1>1, <3>2, TreePaths
      <3>4. Each(f)[k][q] = encode(f[k][q])
        BY <1>1, Encoded DEF Object
      <3> QED
        BY <2>1, <3>3, <3>4
    <2> QED
      BY <2>2, <2>3
  <1>5. DOMAIN t = DOMAIN u /\ DOMAIN CanonicalJSON(t) = DOMAIN t /\ Doc(CanonicalJSON(t))
    <2>1. DOMAIN t = DOMAIN u
      BY <1>3
    <2> QED
      BY <1>2, <2>1, Encoded
  <1> QED
    BY <1>1, <1>2, <1>4, <1>5, DocEqual

LEMMA EncodeTwice ==
  ASSUME NEW d, Doc(d)
  PROVE  CanonicalJSON(CanonicalJSON(d)) = CanonicalJSON(d)
  BY Encoded, PlainStays

LEMMA PlainTree ==
  ASSUME NEW kind, kind # "go", NEW f, Object(f), \A k \in DOMAIN f : NoGo(f[k])
  PROVE  NoGo(Tree(kind, f))
  <1>1. Each(f) = f
    BY PlainStays DEF Each, Object
  <1>2. CanonicalJSON(Tree(kind, f)) = Tree(kind, f) /\ Doc(Tree(kind, f))
    BY <1>1, EncodeTree, TreePaths
  <1> QED
    BY <1>2, Encoded

LEMMA PlainMembers ==
  ASSUME NEW d, Doc(d), NoGo(d), NEW k \in Keys(d)
  PROVE  NoGo(Members(d)[k])
  <1>1. Members(d)[k] = At(d, k)
    BY MembersIs
  <1>2. ASSUME NEW q \in DOMAIN At(d, k) PROVE At(d, k)[q][1] # "go"
    <2>1. Cons(k, q) \in DOMAIN d /\ At(d, k)[q] = d[Cons(k, q)]
      BY AtIs
    <2> QED
      BY <2>1 DEF NoGo
  <1> QED
    BY <1>1, <1>2 DEF NoGo

-----------------------------------------------------------------------------
(* Where no two keys normalize alike, no order of a map range matters.     *)
LEMMA NothingLost ==
  ASSUME NEW v, Distinct(v), NEW late, NEW p \in DOMAIN v
  PROVE  Winner(v, p, late) = p
  <1> DEFINE spellings == {q \in DOMAIN v : /\ Len(q) = Len(p) /\ Front(q) = Front(p)
                                           /\ normalizePath(q) = normalizePath(p)}
             Wins(q) == Last(q) \in late \/ \A r \in spellings : Last(r) \notin late
  <1>1. spellings = {p}
    BY DEF Distinct
  <1>2. Winner(v, p, late) = CHOOSE q \in spellings : Wins(q)
    BY DEF Winner
  <1> HIDE DEF spellings
  <1>3. Wins(p)
    BY <1>1
  <1>4. Winner(v, p, late) = CHOOSE q \in {p} : Wins(q)
    BY <1>1, <1>2
  <1> HIDE DEF Wins
  <1> QED
    BY <1>3, <1>4

Normalized(v) ==
  [q \in {normalizePath(p) : p \in DOMAIN v} |->
     normalizeLeaf(v[CHOOSE p \in DOMAIN v : normalizePath(p) = q])]

LEMMA OrderFree ==
  ASSUME NEW v, Distinct(v), NEW late
  PROVE  normalizeStrings(v, late) = Normalized(v)
  <1> DEFINE lost == {p \in DOMAIN v \ {<<>>} : Winner(v, p, late) # p}
             kept == {p \in DOMAIN v : \A n \in 1..Len(p) : SubSeq(p, 1, n) \notin lost}
  <1>1. lost = {}
    BY NothingLost
  <1>2. kept = DOMAIN v
    BY <1>1
  <1>3. normalizeStrings(v, late)
          = [q \in {normalizePath(p) : p \in kept} |->
               normalizeLeaf(v[CHOOSE p \in kept : normalizePath(p) = q])]
    BY DEF normalizeStrings
  <1> HIDE DEF kept
  <1> QED
    BY <1>2, <1>3 DEF Normalized

LEMMA MeaningIs ==
  ASSUME NEW v, Distinct(v), NEW late
  PROVE  CanonicalizeFields(v, late) = Meaning(v)
  BY OrderFree DEF CanonicalizeFields, Meaning

-----------------------------------------------------------------------------
(* The canonical fields of any document: each path and each value in them  *)
(* is settled, canonicalization would leave it alone.                      *)
Fields(v, late) == normalizeAbsentFields(convertTimestamps(normalizeStrings(v, late)))

Settled(p, x) ==
  /\ normalizePath(p) = p /\ normalizeLeaf(x) = x
  /\ convertTimestamp(p, x) = x /\ normalizeAbsent(p, x) = x
  /\ x[1] # "go"

LEMMA NormalTwice ==
  ASSUME NEW s
  PROVE  /\ normalizeString(normalizeString(s)) = normalizeString(s)
         /\ s \in Name => normalizeString(s) \in Name
  BY NormAssumption DEF normalizeString

LEMMA NormalPath ==
  ASSUME NEW p \in Seq(Name)
  PROVE  /\ normalizePath(p) \in Seq(Name) /\ Len(normalizePath(p)) = Len(p)
         /\ normalizePath(normalizePath(p)) = normalizePath(p)
         /\ \A i \in 1..Len(p) : normalizePath(p)[i] = normalizeString(p[i])
  <1> DEFINE n == normalizePath(p)
  <1>1. Len(p) \in Nat /\ DOMAIN p = 1..Len(p) /\ \A i \in 1..Len(p) : p[i] \in Name
    OBVIOUS
  <1>2. n = [i \in 1..Len(p) |-> normalizeString(p[i])]
    BY <1>1 DEF normalizePath
  <1>3. n \in [1..Len(p) -> Name]
    BY <1>1, <1>2, NormalTwice
  <1>4. n \in Seq(Name) /\ Len(n) = Len(p) /\ DOMAIN n = 1..Len(p)
    BY <1>1, <1>3
  <1>5. normalizePath(n) = [i \in 1..Len(p) |-> normalizeString(n[i])]
    BY <1>4 DEF normalizePath
  <1>6. \A i \in 1..Len(p) : n[i] = normalizeString(p[i])
    BY <1>2
  <1>7. \A i \in 1..Len(p) : normalizeString(n[i]) = n[i]
    BY <1>6, NormalTwice
  <1>8. normalizePath(n) = n
    BY <1>2, <1>5, <1>6, <1>7
  <1> QED
    BY <1>4, <1>6, <1>8

LEMMA NormalizedIs ==
  ASSUME NEW v, Doc(v), NEW late
  PROVE  LET n == normalizeStrings(v, late)
         IN /\ Doc(n)
            /\ \A q \in DOMAIN n : \E p \in DOMAIN v :
                 q = normalizePath(p) /\ n[q] = normalizeLeaf(v[p])
            /\ n[<<>>] = normalizeLeaf(v[<<>>])
  <1> DEFINE lost == {p \in DOMAIN v \ {<<>>} : Winner(v, p, late) # p}
             kept == {p \in DOMAIN v : \A i \in 1..Len(p) : SubSeq(p, 1, i) \notin lost}
             n == normalizeStrings(v, late)
  <1>1. n = [q \in {normalizePath(p) : p \in kept} |->
               normalizeLeaf(v[CHOOSE p \in kept : normalizePath(p) = q])]
    BY DEF normalizeStrings
  <1>2. <<>> \in kept /\ kept \subseteq DOMAIN v /\ DOMAIN v \subseteq Seq(Name)
    BY DEF Doc
  <1> HIDE DEF kept, n
  <1>3. ASSUME NEW q \in DOMAIN n
        PROVE  \E p \in kept : q = normalizePath(p) /\ n[q] = normalizeLeaf(v[p])
    BY <1>1
  <1>4. n = [q \in DOMAIN n |-> n[q]]
    BY <1>1
  <1>5. normalizePath(<<>>) = <<>>
    BY DEF normalizePath
  <1>6. <<>> \in DOMAIN n
    BY <1>1, <1>2, <1>5
  <1>7. DOMAIN n \subseteq Seq(Name)
    BY <1>2, <1>3, NormalPath
  <1>8. n[<<>>] = normalizeLeaf(v[<<>>])
    <2>1. PICK p \in kept : <<>> = normalizePath(p) /\ n[<<>>] = normalizeLeaf(v[p])
      BY <1>3, <1>6
    <2>2. p \in Seq(Name) /\ Len(p) = 0
      BY <1>2, <2>1, NormalPath, Single
    <2>3. p = <<>>
      BY <2>2
    <2> QED
      BY <2>1, <2>3
  <1>9. Doc(n)
    BY <1>4, <1>6, <1>7 DEF Doc
  <1>10. \A q \in DOMAIN n : \E p \in DOMAIN v : q = normalizePath(p) /\ n[q] = normalizeLeaf(v[p])
    BY <1>2, <1>3
  <1> QED
    BY <1>8, <1>9, <1>10 DEF n

LEMMA FieldsPointwise ==
  ASSUME NEW v, NEW late
  PROVE  LET n == normalizeStrings(v, late)
         IN Fields(v, late)
              = [p \in DOMAIN n |-> normalizeAbsent(p, convertTimestamp(p, n[p]))]
  BY DEF Fields, normalizeAbsentFields, convertTimestamps

LEMMA LeafSettles ==
  ASSUME NEW p, NEW x, x[1] # "go"
  PROVE  LET y == normalizeAbsent(p, convertTimestamp(p, normalizeLeaf(x)))
         IN /\ normalizeLeaf(y) = y /\ y[1] # "go"
            /\ convertTimestamp(p, y) = y /\ normalizeAbsent(p, y) = y
  <1> DEFINE a == normalizeLeaf(x)
             b == convertTimestamp(p, a)
             y == normalizeAbsent(p, b)
  <1>1. a[1] # "go" /\ normalizeLeaf(a) = a
    BY NormalTwice DEF normalizeLeaf
  <1>2. /\ b = a \/ b[1] = "number"
        /\ convertTimestamp(p, b) = b
    BY DEF convertTimestamp
  <1>3. /\ y = b \/ y = <<"null">>
        /\ normalizeAbsent(p, y) = y
    BY DEF normalizeAbsent
  <1> HIDE DEF a, b, y
  <1>4. normalizeLeaf(b) = b /\ b[1] # "go"
    BY <1>1, <1>2 DEF normalizeLeaf
  <1>5. normalizeLeaf(y) = y /\ y[1] # "go" /\ convertTimestamp(p, y) = y
    BY <1>2, <1>3, <1>4 DEF normalizeLeaf, convertTimestamp
  <1> QED
    BY <1>3, <1>5 DEF a, b, y

LEMMA FieldsSettled ==
  ASSUME NEW v, Doc(v), NoGo(v), NEW late
  PROVE  /\ Doc(Fields(v, late)) /\ NoGo(Fields(v, late))
         /\ \A q \in DOMAIN Fields(v, late) : Settled(q, Fields(v, late)[q])
  <1> DEFINE n == normalizeStrings(v, late)
             f == Fields(v, late)
  <1>1. f = [p \in DOMAIN n |-> normalizeAbsent(p, convertTimestamp(p, n[p]))]
    BY FieldsPointwise
  <1>2. Doc(n) /\ \A q \in DOMAIN n : \E p \in DOMAIN v :
                     q = normalizePath(p) /\ n[q] = normalizeLeaf(v[p])
    BY NormalizedIs
  <1> HIDE DEF n, f
  <1>3. Doc(f)
    BY <1>1, <1>2 DEF Doc
  <1>4. ASSUME NEW q \in DOMAIN f PROVE Settled(q, f[q])
    <2>1. PICK p \in DOMAIN v : q = normalizePath(p) /\ n[q] = normalizeLeaf(v[p])
      BY <1>1, <1>2
    <2>2. f[q] = normalizeAbsent(q, convertTimestamp(q, normalizeLeaf(v[p])))
      BY <1>1, <2>1
    <2>3. v[p][1] # "go" /\ p \in Seq(Name)
      BY DEF NoGo, Doc
    <2>4. normalizePath(q) = q
      BY <2>1, <2>3, NormalPath
    <2>5. /\ normalizeLeaf(f[q]) = f[q] /\ f[q][1] # "go"
          /\ convertTimestamp(q, f[q]) = f[q] /\ normalizeAbsent(q, f[q]) = f[q]
      BY <2>2, <2>3, LeafSettles
    <2> QED
      BY <2>4, <2>5 DEF Settled
  <1>5. NoGo(f)
    BY <1>4 DEF NoGo, Settled
  <1> QED
    BY <1>3, <1>4, <1>5 DEF f

(* A document of normal paths keeps them, and every value that is settled. *)
LEMMA SettledStays ==
  ASSUME NEW w, Doc(w), \A p \in DOMAIN w : normalizePath(p) = p, NEW late
  PROVE  /\ DOMAIN Fields(w, late) = DOMAIN w
         /\ \A p \in DOMAIN w : Settled(p, w[p]) => Fields(w, late)[p] = w[p]
  <1>1. Distinct(w)
    BY DEF Distinct
  <1> DEFINE n == normalizeStrings(w, late)
  <1>2. n = [q \in {normalizePath(p) : p \in DOMAIN w} |->
               normalizeLeaf(w[CHOOSE p \in DOMAIN w : normalizePath(p) = q])]
    BY <1>1, OrderFree DEF Normalized
  <1>3. {normalizePath(p) : p \in DOMAIN w} = DOMAIN w
    OBVIOUS
  <1>4. Fields(w, late) = [p \in DOMAIN n |-> normalizeAbsent(p, convertTimestamp(p, n[p]))]
    BY FieldsPointwise
  <1> HIDE DEF n
  <1>5. DOMAIN n = DOMAIN w
    BY <1>2, <1>3
  <1>6. ASSUME NEW p \in DOMAIN w PROVE n[p] = normalizeLeaf(w[p])
    <2>1. (CHOOSE q \in DOMAIN w : normalizePath(q) = p) = p
      OBVIOUS
    <2> QED
      BY <1>2, <1>3, <2>1
  <1> QED
    BY <1>4, <1>5, <1>6 DEF Settled

-----------------------------------------------------------------------------
(* The record that Run builds, without its signature.                      *)
WithIntent(m0) == [m0 EXCEPT !["intent"] = Obj(NormalizeIntent(m0))]

Core(m0, version, now) ==
  LET m    == WithIntent(m0)
      refs == SortedKeys(m, {})
  IN [event_id      |-> getString(m, "event_id"),
      ccnf_version  |-> version,
      domain        |-> getString(m, "domain"),
      timestamp     |-> Stamp(m, now),
      actor         |-> getMap(m, "actor"),
      intent        |-> NormalizeIntent(m0),
      entity_key    |-> DeriveIdentity(m),
      collapse_key  |-> DeriveCollapseKey(m),
      causality     |-> normalizeCausality(m),
      artifact_refs |-> refs,
      state_delta   |-> ComputeStateDeltas(m, refs),
      payload       |-> buildPayload(m)]

Signed(core) == Over(core, [signature |-> ComputeHash(core)])

LEMMA CanonicalIs ==
  ASSUME NEW m0, NEW version, NEW now, NEW late
  PROVE  Canonical(m0, version, now, late) = Signed(Core(m0, version, now))
  <1>1. \A m : ResolveArtifacts(m, late) = SortedKeys(m, {})
    BY DEF ResolveArtifacts, SortedKeys
  <1> QED
    BY <1>1 DEF Canonical, Core, Signed, WithIntent

(* The signature is the hash of the record, with or without it.            *)
LEMMA SignedIs ==
  ASSUME NEW m0, NEW version, NEW now, NEW k, k = Core(m0, version, now),
         NEW c, c = Signed(k)
  PROVE  /\ c.event_id = k.event_id /\ c.ccnf_version = version
         /\ c.domain = k.domain /\ c.timestamp = k.timestamp
         /\ c.actor = k.actor /\ c.intent = k.intent /\ c.entity_key = k.entity_key
         /\ c.collapse_key = k.collapse_key /\ c.causality = k.causality
         /\ c.artifact_refs = k.artifact_refs /\ c.state_delta = k.state_delta
         /\ c.payload = k.payload
         /\ BuildCERMap(c) = BuildCERMap(k)
         /\ c.signature = ComputeHash(c)
  <1>1. DOMAIN k = {"event_id", "ccnf_version", "domain", "timestamp", "actor", "intent",
                    "entity_key", "collapse_key", "causality", "artifact_refs",
                    "state_delta", "payload"}
        /\ k.ccnf_version = version
    BY DEF Core
  <1>2. /\ c.event_id = k.event_id /\ c.ccnf_version = k.ccnf_version
        /\ c.domain = k.domain /\ c.timestamp = k.timestamp
        /\ c.actor = k.actor /\ c.intent = k.intent /\ c.entity_key = k.entity_key
        /\ c.collapse_key = k.collapse_key /\ c.causality = k.causality
        /\ c.artifact_refs = k.artifact_refs /\ c.state_delta = k.state_delta
        /\ c.payload = k.payload /\ c.signature = ComputeHash(k)
    BY <1>1 DEF Signed, Over
  <1>3. BuildCERMap(c) = BuildCERMap(k)
    BY <1>2 DEF BuildCERMap
  <1>4. ComputeHash(c) = ComputeHash(k)
    BY <1>3 DEF ComputeHash
  <1> QED
    BY <1>1, <1>2, <1>3, <1>4

-----------------------------------------------------------------------------
(* Apart from the clock that dates an event without a date, Run is a       *)
(* function of its input.                                                  *)
LEMMA IntentOnly ==
  ASSUME NEW m0, m0 = [x \in DOMAIN m0 |-> m0[x]], NEW k, k # "intent"
  PROVE  /\ Has(WithIntent(m0), k) <=> Has(m0, k)
         /\ Nested(WithIntent(m0), k) <=> Nested(m0, k)
         /\ getString(WithIntent(m0), k) = getString(m0, k)
         /\ getMap(WithIntent(m0), k) = getMap(m0, k)
         /\ Has(m0, k) => WithIntent(m0)[k] = m0[k]
  <1>1. DOMAIN WithIntent(m0) = DOMAIN m0
    BY DEF WithIntent
  <1>2. k \in DOMAIN m0 => WithIntent(m0)[k] = m0[k]
    BY DEF WithIntent
  <1>3. Nested(WithIntent(m0), k) <=> Nested(m0, k)
    BY <1>1, <1>2 DEF Nested, Has
  <1> QED
    BY <1>1, <1>2, <1>3 DEF Has, getString, getMap, Nested

LEMMA DateOnly ==
  ASSUME NEW m0, m0 = [x \in DOMAIN m0 |-> m0[x]], NEW now
  PROVE  /\ parseTimestamp(WithIntent(m0)) = parseTimestamp(m0)
         /\ Stamp(WithIntent(m0), now) = Stamp(m0, now)
  <1>1. Has(WithIntent(m0), "timestamp") <=> Has(m0, "timestamp")
    BY IntentOnly
  <1>2. Has(m0, "timestamp") => WithIntent(m0)["timestamp"] = m0["timestamp"]
    BY IntentOnly
  <1>3. parseTimestamp(WithIntent(m0)) = parseTimestamp(m0)
    BY <1>1, <1>2 DEF parseTimestamp
  <1> QED
    BY <1>3 DEF Stamp

LEMMA ErrorFree ==
  ASSUME NEW v, NEW version, NEW now, NEW late
  PROVE  Run(v, version, now, late).error = RunError(v, CanonicalizeFields(v, late), version)
  BY CanonicalIs DEF Run

LEMMA RecordMade ==
  ASSUME NEW v, NEW version, NEW now, NEW late, Run(v, version, now, late).error = ""
  PROVE  Run(v, version, now, late).cer
           = Signed(Core(CanonicalizeFields(v, late), version, now))
  BY CanonicalIs DEF Run

LEMMA RunIsFunction ==
  ASSUME NEW v, Distinct(v), NEW version, NEW now, NEW late, NEW now2, NEW late2
  PROVE  /\ Run(v, version, now, late).error = Run(v, version, now2, late2).error
         /\ Stamped(v) => Run(v, version, now, late) = Run(v, version, now2, late2)
  <1>1. CanonicalizeFields(v, late) = Meaning(v) /\ CanonicalizeFields(v, late2) = Meaning(v)
    BY MeaningIs
  <1>2. Run(v, version, now, late).error = Run(v, version, now2, late2).error
    <2>1. Run(v, version, now, late).error = RunError(v, Meaning(v), version)
      BY <1>1, ErrorFree
    <2>2. Run(v, version, now2, late2).error = RunError(v, Meaning(v), version)
      BY <1>1, ErrorFree
    <2> QED
      BY <2>1, <2>2
  <1>3. ASSUME Stamped(v)
        PROVE  Run(v, version, now, late) = Run(v, version, now2, late2)
    <2>1. Meaning(v) = [x \in DOMAIN Meaning(v) |-> Meaning(v)[x]]
      BY DEF Meaning, CanonicalizeFields, Members
    <2>2. Stamp(WithIntent(Meaning(v)), now) = Stamp(WithIntent(Meaning(v)), now2)
      <3>1. /\ Stamp(WithIntent(Meaning(v)), now) = Stamp(Meaning(v), now)
            /\ Stamp(WithIntent(Meaning(v)), now2) = Stamp(Meaning(v), now2)
        BY <2>1, DateOnly
      <3>2. Stamp(Meaning(v), now) = Stamp(Meaning(v), now2)
        BY <1>3 DEF Stamped, Stamp
      <3> QED
        BY <3>1, <3>2
    <2>3. Core(Meaning(v), version, now) = Core(Meaning(v), version, now2)
      BY <2>2 DEF Core
    <2>4. Canonical(Meaning(v), version, now, late) = Canonical(Meaning(v), version, now2, late2)
      BY <2>3, CanonicalIs
    <2> QED
      BY <1>1, <2>4 DEF Run
  <1> QED
    BY <1>2, <1>3

(* So inputs of one meaning have one outcome.                              *)
LEMMA MeaningDecides ==
  ASSUME NEW v, NEW w, Distinct(v), Distinct(w), Meaning(v) = Meaning(w), NEW version,
         NEW now, NEW late, NEW now2, NEW late2, Stamped(v),
         StructuralParse(v) <=> StructuralParse(w),
         checkEmbeddedVersion(Members(v), version) <=> checkEmbeddedVersion(Members(w), version)
  PROVE  Run(v, version, now, late) = Run(w, version, now2, late2)
  <1>1. Stamped(w)
    BY DEF Stamped
  <1>2. /\ Run(v, version, now, late) = Run(v, version, 1, {})
        /\ Run(w, version, now2, late2) = Run(w, version, 1, {})
    BY <1>1, RunIsFunction
  <1>3. RunError(v, Meaning(v), version) = RunError(w, Meaning(w), version)
    BY DEF RunError
  <1> QED
    BY <1>2, <1>3 DEF Run, Meaning

-----------------------------------------------------------------------------
(* Objects without Go values: what canonicalization leaves, and the parts  *)
(* of a record.                                                            *)
Plain(f) == Object(f) /\ \A k \in DOMAIN f : NoGo(f[k])

LEMMA LeafPlain ==
  /\ \A s : Doc(Str(s)) /\ NoGo(Str(s)) /\ Doc(Digest(s)) /\ NoGo(Digest(s))
  /\ \A n : Doc(Num(n)) /\ NoGo(Num(n)) /\ Doc(Bool(n)) /\ NoGo(Bool(n))
  /\ Doc(Null) /\ NoGo(Null) /\ \A x : Doc(Go(x))
  <1>1. ASSUME NEW x, x[1] # "go" PROVE Doc(Leaf(x)) /\ NoGo(Leaf(x))
    BY <1>1, LeafIs DEF NoGo
  <1> QED
    BY <1>1, LeafIs DEF Str, Digest, Num, Bool, Null, Go

LEMMA TreePlain ==
  ASSUME NEW f, Plain(f)
  PROVE  Doc(Obj(f)) /\ NoGo(Obj(f)) /\ Kind(Obj(f)) = "object" /\ Members(Obj(f)) = f
         /\ Keys(Obj(f)) = DOMAIN f /\ CanonicalJSON(Obj(f)) = Obj(f)
  <1>1. Doc(Obj(f)) /\ Obj(f)[<<>>] = <<"object">>
    BY TreePaths DEF Obj, Plain
  <1>2. NoGo(Obj(f))
    BY PlainTree DEF Obj, Plain
  <1>3. Members(Obj(f)) = f /\ Keys(Obj(f)) = DOMAIN f
    BY MembersOfTree DEF Obj, Plain
  <1> QED
    BY <1>1, <1>2, <1>3, PlainStays DEF Kind

LEMMA MapPlain ==
  ASSUME NEW m, Plain(m), NEW k
  PROVE  Plain(getMap(m, k)) /\ (Nested(m, k) => Members(m[k]) = getMap(m, k))
  <1>1. CASE Nested(m, k)
    <2>1. Doc(m[k]) /\ NoGo(m[k])
      BY <1>1 DEF Nested, Has, Plain, Object
    <2>2. Object(Members(m[k])) /\ DOMAIN Members(m[k]) = Keys(m[k])
      BY <2>1, MembersIs
    <2>3. Plain(Members(m[k]))
      BY <2>1, <2>2, PlainMembers DEF Plain
    <2> QED
      BY <1>1, <2>3 DEF getMap
  <1>2. CASE ~Nested(m, k)
    BY <1>2, EmptyIs DEF getMap, Plain
  <1> QED
    BY <1>1, <1>2

LEMMA OverPlain ==
  ASSUME NEW f, NEW g, Plain(f), Plain(g)
  PROVE  Plain(Over(f, g))
  BY DEF Plain, Object, Over

LEMMA FieldsPlain ==
  ASSUME NEW v, Doc(v), NoGo(v), NEW late
  PROVE  Plain(CanonicalizeFields(v, late))
  <1>1. Doc(Fields(v, late)) /\ NoGo(Fields(v, late))
    BY FieldsSettled
  <1>2. CanonicalizeFields(v, late) = Members(Fields(v, late))
    BY DEF CanonicalizeFields, Fields
  <1> QED
    BY <1>1, <1>2, MembersIs, PlainMembers DEF Plain

(* The names the source spells out are names, and are normal.              *)
LEMMA FixedNames ==
  /\ Fixed \subseteq Name /\ Range(Place) \subseteq Name
  /\ \A k \in Fixed \cup Range(Place) : normalizeString(k) = k
  BY NormAssumption DEF normalizeString, Spelled

LEMMA IntentPlain ==
  ASSUME NEW m
  PROVE  Plain(NormalizeIntent(m))
  <1>1. NormalizeIntent(m) = [k \in DOMAIN NormalizeIntent(m) |-> NormalizeIntent(m)[k]]
        /\ DOMAIN NormalizeIntent(m) = {"type", "action", "target_type", "target_id"}
    BY DEF NormalizeIntent
  <1>2. \A k \in DOMAIN NormalizeIntent(m) : \E s : NormalizeIntent(m)[k] = Str(s)
    BY DEF NormalizeIntent
  <1>3. DOMAIN NormalizeIntent(m) \subseteq Name
    <2>1. DOMAIN NormalizeIntent(m) \subseteq Fixed
      BY <1>1, Zenon DEF Fixed
    <2> QED
      BY <2>1, FixedNames
  <1> QED
    BY <1>1, <1>2, <1>3, LeafPlain DEF Plain, Object

LEMMA WithIntentPlain ==
  ASSUME NEW m0, Plain(m0)
  PROVE  Plain(WithIntent(m0))
  <1>1. Doc(Obj(NormalizeIntent(m0))) /\ NoGo(Obj(NormalizeIntent(m0)))
    BY IntentPlain, TreePlain
  <1>2. DOMAIN WithIntent(m0) = DOMAIN m0
        /\ WithIntent(m0) = [x \in DOMAIN WithIntent(m0) |-> WithIntent(m0)[x]]
        /\ \A k \in DOMAIN m0 : WithIntent(m0)[k] = m0[k]
                                \/ WithIntent(m0)[k] = Obj(NormalizeIntent(m0))
    BY DEF WithIntent
  <1> QED
    BY <1>1, <1>2 DEF Plain, Object

(* The parts of a record that are objects, and what it is serialized from. *)
Parts(c) == Plain(c.actor) /\ Plain(c.intent) /\ Plain(c.causality) /\ Plain(c.payload)

Record(c) == Parts(c) /\ c.signature = ComputeHash(c)

LEMMA CausalityPlain ==
  ASSUME NEW m, Plain(m)
  PROVE  Plain(normalizeCausality(m))
  <1> DEFINE none == [k \in {Place[i] : i \in DOMAIN <<>>} |->
                        <<>>[CHOOSE i \in DOMAIN <<>> : Place[i] = k]]
             always == [ordered |-> Bool(TRUE), parent_event_ids |-> Arr(<<>>)]
             absent == [causal_chain_id |-> Str(""), trace_depth |-> Num(0)]
  <1>1. Plain(none)
    BY DEF Plain, Object
  <1>2. Doc(Arr(<<>>)) /\ NoGo(Arr(<<>>))
    <2> HIDE DEF none
    <2>1. Doc(Tree("array", none)) /\ NoGo(Tree("array", none))
      BY <1>1, TreePaths, PlainTree DEF Plain
    <2> QED
      BY <2>1 DEF Arr, none
  <1>3. Plain(always)
    <2>1. /\ DOMAIN always = {"ordered", "parent_event_ids"}
          /\ always = [k \in DOMAIN always |-> always[k]]
          /\ always["ordered"] = Bool(TRUE) /\ always["parent_event_ids"] = Arr(<<>>)
      OBVIOUS
    <2>2. DOMAIN always \subseteq Name
      <3>1. DOMAIN always \subseteq Fixed
        BY <2>1, Zenon DEF Fixed
      <3> QED
        BY <3>1, FixedNames
    <2> HIDE DEF always
    <2> QED
      BY <1>2, <2>1, <2>2, LeafPlain DEF Plain, Object
  <1>4. Plain(absent)
    <2>1. /\ DOMAIN absent = {"causal_chain_id", "trace_depth"}
          /\ absent = [k \in DOMAIN absent |-> absent[k]]
          /\ absent["causal_chain_id"] = Str("") /\ absent["trace_depth"] = Num(0)
      OBVIOUS
    <2>2. DOMAIN absent \subseteq Name
      <3>1. DOMAIN absent \subseteq Fixed
        BY <2>1, Zenon DEF Fixed
      <3> QED
        BY <3>1, FixedNames
    <2> HIDE DEF absent
    <2>3. \A k \in DOMAIN absent : Doc(absent[k]) /\ NoGo(absent[k])
      BY <2>1, LeafPlain
    <2> QED
      BY <2>1, <2>2, <2>3 DEF Plain, Object
  <1> HIDE DEF always, absent
  <1>5. Plain(getMap(m, "causality"))
    BY MapPlain
  <1>6. Plain(Over(getMap(m, "causality"), always)) /\ Plain(Over(always, absent))
    BY <1>3, <1>4, <1>5, OverPlain
  <1> QED
    BY <1>6 DEF normalizeCausality, always, absent

LEMMA DataPlain ==
  ASSUME NEW m, Plain(m)
  PROVE  Plain(Data(m))
  <1>1. Plain(getMap(m, "payload"))
    BY MapPlain
  <1> QED
    BY <1>1, MapPlain DEF Data

LEMMA PayloadPlain ==
  ASSUME NEW m, Plain(m)
  PROVE  Plain(buildPayload(m))
  <1> DEFINE kept == {k \in DOMAIN Data(m) : ~isValidArtifactID(k)}
             rest == [k \in kept |-> Data(m)[k]]
             own == [type |-> Str("structured"), data |-> Obj(rest)]
  <1>1. Plain(rest)
    BY DataPlain DEF Plain, Object
  <1> HIDE DEF rest
  <1>2. Doc(Obj(rest)) /\ NoGo(Obj(rest))
    BY <1>1, TreePlain
  <1>3. Plain(own)
    <2>1. DOMAIN own \subseteq Name
      BY FixedNames DEF Fixed
    <2>2. own = [k \in DOMAIN own |-> own[k]]
      OBVIOUS
    <2>3. \A k \in DOMAIN own : Doc(own[k]) /\ NoGo(own[k])
      BY <1>2, LeafPlain
    <2> HIDE DEF own
    <2> QED
      BY <2>1, <2>2, <2>3 DEF Plain, Object
  <1> HIDE DEF own
  <1>4. Plain(Over(own, getMap(m, "payload")))
    BY <1>3, MapPlain, OverPlain
  <1> QED
    BY <1>4 DEF buildPayload, own, rest

LEMMA RecordOf ==
  ASSUME NEW m0, Plain(m0), NEW version, NEW now
  PROVE  Record(Signed(Core(m0, version, now)))
  <1>1. PICK k : k = Core(m0, version, now)
    OBVIOUS
  <1>2. PICK c : c = Signed(k)
    OBVIOUS
  <1>3. /\ k.actor = getMap(WithIntent(m0), "actor") /\ k.intent = NormalizeIntent(m0)
        /\ k.causality = normalizeCausality(WithIntent(m0))
        /\ k.payload = buildPayload(WithIntent(m0))
    BY <1>1 DEF Core
  <1>4. /\ c.actor = k.actor /\ c.intent = k.intent /\ c.causality = k.causality
        /\ c.payload = k.payload /\ c.signature = ComputeHash(c)
    BY <1>1, <1>2, SignedIs
  <1>5. Plain(WithIntent(m0))
    BY WithIntentPlain
  <1>6. Record(c)
    BY <1>3, <1>4, <1>5, MapPlain, IntentPlain, CausalityPlain, PayloadPlain DEF Record, Parts
  <1> QED
    BY <1>1, <1>2, <1>6

(* What acceptance says: no stage refused the canonical fields.            *)
Accepts(outcome) == outcome.error = ""

Passes(v, m0, version) == RunError(v, m0, version) = ""

LEMMA AcceptsIs ==
  ASSUME NEW v, NEW version, NEW now, NEW late, NEW x, x = Run(v, version, now, late),
         NEW m0, m0 = CanonicalizeFields(v, late)
  PROVE  /\ Accepts(x) <=> Passes(v, m0, version)
         /\ Accepts(x) => x.cer = Signed(Core(m0, version, now))
  <1>1. /\ Run(v, version, now, late).error = RunError(v, CanonicalizeFields(v, late), version)
        /\ Run(v, version, now, late).error = ""
             => Run(v, version, now, late).cer
                  = Signed(Core(CanonicalizeFields(v, late), version, now))
    <2>1. Run(v, version, now, late).error
            = RunError(v, CanonicalizeFields(v, late), version)
      BY ErrorFree
    <2>2. ASSUME Run(v, version, now, late).error = ""
          PROVE  Run(v, version, now, late).cer
                   = Signed(Core(CanonicalizeFields(v, late), version, now))
      BY <2>2, RecordMade
    <2> QED
      BY <2>1, <2>2
  <1>2. /\ x.error = RunError(v, m0, version)
        /\ x.error = "" => x.cer = Signed(Core(m0, version, now))
    BY <1>1
  <1> QED
    BY <1>2 DEF Accepts, Passes

LEMMA Accepted ==
  ASSUME NEW v, Doc(v), NoGo(v), NEW version, NEW now, NEW late,
         NEW x, x = Run(v, version, now, late), Accepts(x),
         NEW m0, m0 = CanonicalizeFields(v, late), NEW c, c = x.cer
  PROVE  /\ Plain(m0) /\ c = Signed(Core(m0, version, now)) /\ Record(c)
         /\ version = CurrentCCNFVersion /\ StructuralParse(v)
         /\ IntentOK(m0) /\ checkTargetID(m0) /\ ArtifactsOK(m0)
  <1>1. Plain(m0)
    BY FieldsPlain
  <1>2. c = Signed(Core(m0, version, now)) /\ Passes(v, m0, version)
    BY AcceptsIs
  <1>3. /\ version = CurrentCCNFVersion /\ StructuralParse(v)
        /\ IntentOK(m0) /\ checkTargetID(m0) /\ ArtifactsOK(m0)
    BY <1>2 DEF Passes, RunError
  <1> QED
    BY <1>1, <1>2, <1>3, RecordOf

(* What a record is serialized from is an object, so that the wire carries *)
(* a document without Go values, whose members are those of the record.    *)
Wire(c) == Over([signature |-> Obj([hash |-> Digest(c.signature)])], BuildCERMap(c))

Identity(c) ==
  [entity_key |-> Digest(c.entity_key), type |-> Str("event"),
   scope |-> Str(domainToScope(c.domain)),
   collapse_key |-> Go(c.collapse_key), alias_keys |-> Go(<<>>)]

LEMMA IdentityIs ==
  ASSUME NEW c
  PROVE  /\ Object(Identity(c))
         /\ DOMAIN Identity(c) = {"entity_key", "type", "scope", "collapse_key", "alias_keys"}
         /\ Identity(c)["entity_key"] = Digest(c.entity_key)
         /\ Identity(c)["collapse_key"] = Go(c.collapse_key)
         /\ Identity(c)["alias_keys"] = Go(<<>>)
  <1>1. /\ DOMAIN Identity(c) = {"entity_key", "type", "scope", "collapse_key", "alias_keys"}
        /\ Identity(c) = [k \in DOMAIN Identity(c) |-> Identity(c)[k]]
        /\ Identity(c)["entity_key"] = Digest(c.entity_key)
        /\ Identity(c)["type"] = Str("event")
        /\ Identity(c)["scope"] = Str(domainToScope(c.domain))
        /\ Identity(c)["collapse_key"] = Go(c.collapse_key)
        /\ Identity(c)["alias_keys"] = Go(<<>>)
    BY DEF Identity
  <1>2. DOMAIN Identity(c) \subseteq Name
    <2>1. DOMAIN Identity(c) \subseteq Fixed
      BY <1>1, Zenon DEF Fixed
    <2> QED
      BY <2>1, FixedNames
  <1> QED
    BY <1>1, <1>2, LeafPlain DEF Object

WireKeys == {"event_id", "event_version", "ccnf_version", "system", "domain", "timestamp",
             "actor", "intent", "identity", "causality", "artifact_refs", "state_delta",
             "payload"}

LEMMA RecordMap ==
  ASSUME NEW c, Parts(c)
  PROVE  LET b == BuildCERMap(c)
         IN /\ Object(b) /\ DOMAIN b = WireKeys
            /\ b["event_id"] = Str(c.event_id) /\ b["event_version"] = Num(1)
            /\ b["ccnf_version"] = Num(c.ccnf_version) /\ b["system"] = Str("nexus")
            /\ b["domain"] = Str(c.domain) /\ b["timestamp"] = Num(c.timestamp)
            /\ b["actor"] = Obj(c.actor) /\ b["intent"] = Obj(c.intent)
            /\ b["identity"] = Obj(Identity(c)) /\ b["causality"] = Obj(c.causality)
            /\ b["artifact_refs"] = Go(c.artifact_refs)
            /\ b["state_delta"] = Go(c.state_delta) /\ b["payload"] = Obj(c.payload)
  <1> DEFINE b == BuildCERMap(c)
  <1>1. /\ DOMAIN b = WireKeys /\ b = [k \in DOMAIN b |-> b[k]]
    BY DEF BuildCERMap, WireKeys
  <1>2. /\ b["event_id"] = Str(c.event_id) /\ b["event_version"] = Num(1)
        /\ b["ccnf_version"] = Num(c.ccnf_version) /\ b["system"] = Str("nexus")
        /\ b["domain"] = Str(c.domain) /\ b["timestamp"] = Num(c.timestamp)
        /\ b["actor"] = Obj(c.actor) /\ b["intent"] = Obj(c.intent)
        /\ b["identity"] = Obj(Identity(c)) /\ b["causality"] = Obj(c.causality)
        /\ b["artifact_refs"] = Go(c.artifact_refs)
        /\ b["state_delta"] = Go(c.state_delta) /\ b["payload"] = Obj(c.payload)
    BY DEF BuildCERMap, Identity
  <1> HIDE DEF b
  <1>3. WireKeys \subseteq Name
    <2>1. WireKeys \subseteq Fixed
      BY Zenon DEF WireKeys, Fixed
    <2> QED
      BY <2>1, FixedNames
  <1>4. Doc(Obj(Identity(c)))
    BY IdentityIs, TreePaths DEF Obj
  <1>5. /\ Doc(Obj(c.actor)) /\ Doc(Obj(c.intent)) /\ Doc(Obj(c.causality))
        /\ Doc(Obj(c.payload))
    BY TreePlain DEF Parts
  <1>6. ASSUME NEW k \in WireKeys PROVE Doc(b[k])
    BY <1>2, <1>4, <1>5, LeafPlain DEF WireKeys
  <1>7. Object(b)
    BY <1>1, <1>3, <1>6 DEF Object
  <1> QED
    BY <1>1, <1>2, <1>7 DEF b

LEMMA SignatureIs ==
  ASSUME NEW h
  PROVE  Plain([hash |-> Digest(h)])
  <1> DEFINE f == [hash |-> Digest(h)]
  <1>1. DOMAIN f = {"hash"} /\ f = [k \in DOMAIN f |-> f[k]] /\ f["hash"] = Digest(h)
    OBVIOUS
  <1>2. DOMAIN f \subseteq Name
    BY <1>1, FixedNames DEF Fixed
  <1> HIDE DEF f
  <1>3. Plain(f)
    BY <1>1, <1>2, LeafPlain DEF Plain, Object
  <1> QED
    BY <1>3 DEF f

LEMMA WireIs ==
  ASSUME NEW c, Parts(c)
  PROVE  /\ Object(Wire(c)) /\ DOMAIN Wire(c) = WireKeys \cup {"signature"}
         /\ \A k \in WireKeys : Wire(c)[k] = BuildCERMap(c)[k]
         /\ Wire(c)["signature"] = Obj([hash |-> Digest(c.signature)])
         /\ SerializeCER(c) = Obj(Each(Wire(c)))
         /\ Object(Each(Wire(c)))
         /\ Doc(SerializeCER(c)) /\ NoGo(SerializeCER(c))
  <1> DEFINE sig == [signature |-> Obj([hash |-> Digest(c.signature)])]
             b == BuildCERMap(c)
  <1>1. Object(b) /\ DOMAIN b = WireKeys
    BY RecordMap
  <1>2. Doc(Obj([hash |-> Digest(c.signature)]))
    BY SignatureIs, TreePlain
  <1>3. DOMAIN sig = {"signature"} /\ sig["signature"] = Obj([hash |-> Digest(c.signature)])
    OBVIOUS
  <1> HIDE DEF sig, b
  <1>4. Wire(c) = Over(sig, b)
    BY DEF Wire, sig, b
  <1>5. /\ DOMAIN Wire(c) = WireKeys \cup {"signature"}
        /\ Wire(c) = [k \in DOMAIN Wire(c) |-> Wire(c)[k]]
        /\ \A k \in WireKeys : k # "signature" => Wire(c)[k] = b[k]
        /\ Wire(c)["signature"] = sig["signature"]
    BY <1>1, <1>3, <1>4 DEF Over
  <1>6. \A k \in WireKeys : k # "signature"
    BY DEF WireKeys
  <1>7. DOMAIN Wire(c) \subseteq Name
    BY <1>1, <1>5, FixedNames DEF Fixed, Object
  <1>8. Object(Wire(c))
    BY <1>1, <1>2, <1>3, <1>5, <1>6, <1>7 DEF Object
  <1>9. SerializeCER(c) = CanonicalJSON(Obj(Wire(c)))
    BY DEF SerializeCER, Wire
  <1>10. SerializeCER(c) = Obj(Each(Wire(c))) /\ Object(Each(Wire(c)))
    BY <1>8, <1>9, EncodeTree DEF Obj
  <1>11. Doc(Obj(Wire(c)))
    BY <1>8, TreePaths DEF Obj
  <1>12. Doc(SerializeCER(c)) /\ NoGo(SerializeCER(c))
    BY <1>9, <1>11, Encoded
  <1> QED
    BY <1>3, <1>5, <1>6, <1>8, <1>10, <1>12 DEF b

-----------------------------------------------------------------------------
(* The hosts: every outcome is that of a run at some second so far, and    *)
(* every record received was made by such a run.                           *)
RunAt(r) == \E now \in 1..clock, late \in Orders :
              r.result = Run(r.raw, r.version, now, late)

HostInv ==
  /\ clock \in Nat \ {0}
  /\ \A r \in runs : Doc(r.raw) /\ NoGo(r.raw) /\ RunAt(r)
  /\ \A p \in received : p.sent \in Records /\ p.got = ParseCER(SerializeCER(p.sent))

LEMMA RecordsAre ==
  ASSUME HostInv
  PROVE  \A c \in Records : Record(c)
  <1> SUFFICES ASSUME NEW r \in runs, Accepts(r.result) PROVE Record(r.result.cer)
    BY DEF Records, Accepts
  <1>1. Doc(r.raw) /\ NoGo(r.raw) /\ RunAt(r)
    BY DEF HostInv
  <1>2. PICK now, late : r.result = Run(r.raw, r.version, now, late)
    BY <1>1 DEF RunAt
  <1>3. PICK v, x : v = r.raw /\ x = r.result
    OBVIOUS
  <1>4. PICK m0, c : m0 = CanonicalizeFields(v, late) /\ c = x.cer
    OBVIOUS
  <1>5. Record(c)
    BY <1>1, <1>2, <1>3, <1>4, Accepted
  <1> QED
    BY <1>3, <1>4, <1>5

LEMMA CompileKeeps ==
  ASSUME HostInv, NEW raw, Doc(raw), NoGo(raw), NEW version, NEW late \in Orders,
         Compile(raw, version, late)
  PROVE  HostInv'
  <1> DEFINE new == [raw |-> raw, version |-> version, result |-> Run(raw, version, clock, late)]
  <1>1. runs' = runs \cup {new} /\ clock' = clock /\ received' = received
    BY DEF Compile
  <1>2. new.raw = raw /\ new.result = Run(new.raw, new.version, clock, late)
    OBVIOUS
  <1> HIDE DEF new
  <1>3. clock \in 1..clock
    BY DEF HostInv
  <1>4. ASSUME NEW r \in runs' PROVE Doc(r.raw) /\ NoGo(r.raw) /\ RunAt(r)'
    <2>1. CASE r \in runs
      BY <1>1, <2>1 DEF HostInv, RunAt
    <2>2. CASE r = new
      BY <1>1, <1>2, <1>3, <2>2 DEF RunAt
    <2> QED
      BY <1>1, <2>1, <2>2
  <1>5. Records \subseteq Records'
    BY <1>1 DEF Records
  <1> QED
    BY <1>1, <1>4, <1>5 DEF HostInv

LEMMA HostInductive ==
  /\ Init => HostInv
  /\ HostInv /\ [Next]_vars => HostInv'
  <1>1. Init => HostInv
    BY DEF Init, HostInit, HostInv
  <1>2. ASSUME HostInv, [Next]_vars PROVE HostInv'
    <2>1. ASSUME UNCHANGED hostVars PROVE HostInv'
      BY <1>2, <2>1 DEF hostVars, HostInv, RunAt, Records
    <2>2. CASE Tick
      <3>1. clock' = clock + 1 /\ runs' = runs /\ received' = received
        BY <2>2 DEF Tick
      <3>2. 1..clock \subseteq 1..clock' /\ clock' \in Nat \ {0}
        BY <1>2, <3>1 DEF HostInv
      <3>3. \A r \in runs : RunAt(r) => RunAt(r)'
        BY <3>1, <3>2 DEF RunAt
      <3>4. Records' = Records
        BY <3>1 DEF Records
      <3> QED
        BY <1>2, <3>1, <3>2, <3>3, <3>4 DEF HostInv
    <2>3. CASE HostNext
      <3>1. ASSUME NEW raw \in RawEvents, NEW v \in Versions, NEW late \in Orders,
                   Compile(raw, v, late)
            PROVE  HostInv'
        <4>1. Doc(raw) /\ NoGo(raw)
          BY RawAssumption DEF Document, Doc, NoGo
        <4> QED
          BY <1>2, <3>1, <4>1, CompileKeeps
      <3>2. ASSUME NEW cer \in Records, NEW late \in Orders, Recompile(cer, late)
            PROVE  HostInv'
        <4>1. Doc(SerializeCER(cer)) /\ NoGo(SerializeCER(cer))
          BY <1>2, RecordsAre, WireIs DEF Record
        <4> QED
          BY <1>2, <3>2, <4>1, CompileKeeps DEF Recompile
      <3>3. ASSUME NEW cer \in Records, Receive(cer) PROVE HostInv'
        <4>1. /\ received' = received \cup {[sent |-> cer, got |-> ParseCER(SerializeCER(cer))]}
              /\ clock' = clock /\ runs' = runs
          BY <3>3 DEF Receive
        <4>2. Records' = Records /\ \A r : RunAt(r)' = RunAt(r)
          BY <4>1 DEF Records, RunAt
        <4> QED
          BY <1>2, <3>3, <4>1, <4>2 DEF HostInv
      <3> QED
        BY <2>3, <3>1, <3>2, <3>3 DEF HostNext
    <2> QED
      BY <1>2, <2>1, <2>2, <2>3 DEF Next, StartTest, TryCopy, RunInput, Judge, OpenFile, Exit, vars
  <1> QED
    BY <1>1, <1>2

LEMMA HostInvariant == Spec => []HostInv
  BY HostInductive, PTL DEF Spec

(* An input of one meaning has one outcome on every host.                  *)
LEMMA SameOutcome ==
  ASSUME HostInv
  PROVE  SameMeaningSameOutcome
  <1> SUFFICES ASSUME NEW a \in runs, NEW b \in runs, a.version = b.version,
                      Distinct(a.raw), Distinct(b.raw), SameFront(a, b),
                      Meaning(a.raw) = Meaning(b.raw), Stamped(a.raw)
               PROVE  a.result = b.result
    BY DEF SameMeaningSameOutcome
  <1>1. PICK now \in 1..clock, late \in Orders : a.result = Run(a.raw, a.version, now, late)
    BY DEF HostInv, RunAt
  <1>2. PICK now2 \in 1..clock, late2 \in Orders : b.result = Run(b.raw, b.version, now2, late2)
    BY DEF HostInv, RunAt
  <1>3. /\ StructuralParse(a.raw) <=> StructuralParse(b.raw)
        /\ checkEmbeddedVersion(Members(a.raw), a.version)
             <=> checkEmbeddedVersion(Members(b.raw), a.version)
    BY DEF SameFront
  <1>4. Run(a.raw, a.version, now, late) = Run(b.raw, a.version, now2, late2)
    BY <1>3, MeaningDecides
  <1> QED
    BY <1>1, <1>2, <1>4

(* SameMeaningSameOutcome for every reachable state: the pipeline decides  *)
(* by what an input means, on any host, at any time, in any order.         *)
THEOREM MeaningDecidesOutcome == Spec => []SameMeaningSameOutcome
  BY HostInvariant, SameOutcome, PTL

-----------------------------------------------------------------------------
(* The entity key, which is the hash of the subject and determines it.     *)
LEMMA StrOne ==
  ASSUME NEW s, NEW t
  PROVE  (Str(s) = Str(t) => s = t) /\ Content(Str(s)) = s /\ Kind(Str(s)) = "string"
  <1>1. Str(s)[<<>>] = <<"string", s>> /\ Str(t)[<<>>] = <<"string", t>>
    BY LeafIs DEF Str
  <1> QED
    BY <1>1 DEF Content, Kind

LEMMA IntentMap ==
  ASSUME NEW m0, Plain(m0), Nested(m0, "intent")
  PROVE  getMap(WithIntent(m0), "intent") = NormalizeIntent(m0)
  <1>1. Has(WithIntent(m0), "intent") /\ WithIntent(m0)["intent"] = Obj(NormalizeIntent(m0))
    BY DEF WithIntent, Nested, Has
  <1>2. Nested(WithIntent(m0), "intent")
    BY <1>1, IntentPlain, TreePlain DEF Nested, IsObj
  <1> QED
    BY <1>1, <1>2, IntentPlain, TreePlain DEF getMap

KeyOf(d, i, a) == Sha([domain |-> Str(d), scope |-> domainToScope(d), intent |-> Obj(i),
                       actor |-> Obj(a)])

LEMMA KeyIs ==
  ASSUME NEW m0, Plain(m0), Nested(m0, "intent")
  PROVE  DeriveIdentity(WithIntent(m0))
           = KeyOf(getString(m0, "domain"), NormalizeIntent(m0), getMap(m0, "actor"))
  <1>1. m0 = [x \in DOMAIN m0 |-> m0[x]]
    BY DEF Plain, Object
  <1>2. /\ getString(WithIntent(m0), "domain") = getString(m0, "domain")
        /\ getMap(WithIntent(m0), "actor") = getMap(m0, "actor")
    BY <1>1, IntentOnly
  <1>3. CanonicalJSON(Obj(NormalizeIntent(m0))) = Obj(NormalizeIntent(m0))
    BY IntentPlain, TreePlain
  <1>4. CanonicalJSON(Obj(getMap(m0, "actor"))) = Obj(getMap(m0, "actor"))
    BY MapPlain, TreePlain
  <1> QED
    BY <1>2, <1>3, <1>4, IntentMap DEF DeriveIdentity, KeyOf

LEMMA KeyOne ==
  ASSUME NEW d, NEW i, NEW a, NEW e, NEW j, NEW b, Plain(i), Plain(a), Plain(j), Plain(b),
         KeyOf(d, i, a) = KeyOf(e, j, b)
  PROVE  d = e /\ i = j /\ a = b
  <1> DEFINE x == [domain |-> Str(d), scope |-> domainToScope(d), intent |-> Obj(i),
                   actor |-> Obj(a)]
             y == [domain |-> Str(e), scope |-> domainToScope(e), intent |-> Obj(j),
                   actor |-> Obj(b)]
  <1>1. /\ x.domain = Str(d) /\ x.intent = Obj(i) /\ x.actor = Obj(a)
        /\ y.domain = Str(e) /\ y.intent = Obj(j) /\ y.actor = Obj(b)
    OBVIOUS
  <1>2. Sha(x) = Sha(y)
    BY DEF KeyOf
  <1> HIDE DEF x, y
  <1>3. x = y
    BY <1>2 DEF Sha
  <1>4. Str(d) = Str(e) /\ Obj(i) = Obj(j) /\ Obj(a) = Obj(b)
    BY <1>1, <1>3
  <1> QED
    BY <1>4, StrOne, TreePlain

LEMMA IntentOne ==
  ASSUME NEW m, NEW n
  PROVE  NormalizeIntent(m) = NormalizeIntent(n)
           <=> \A k \in {"action", "target_type", "target_id"} :
                 getString(getMap(m, "intent"), k) = getString(getMap(n, "intent"), k)
  <1>1. /\ NormalizeIntent(m).action = Str(getString(getMap(m, "intent"), "action"))
        /\ NormalizeIntent(m).target_type = Str(getString(getMap(m, "intent"), "target_type"))
        /\ NormalizeIntent(m).target_id = Str(getString(getMap(m, "intent"), "target_id"))
        /\ NormalizeIntent(n).action = Str(getString(getMap(n, "intent"), "action"))
        /\ NormalizeIntent(n).target_type = Str(getString(getMap(n, "intent"), "target_type"))
        /\ NormalizeIntent(n).target_id = Str(getString(getMap(n, "intent"), "target_id"))
    BY DEF NormalizeIntent
  <1>2. ASSUME NormalizeIntent(m) = NormalizeIntent(n),
               NEW k \in {"action", "target_type", "target_id"}
        PROVE  getString(getMap(m, "intent"), k) = getString(getMap(n, "intent"), k)
    BY <1>1, <1>2, StrOne
  <1>3. ASSUME \A k \in {"action", "target_type", "target_id"} :
                 getString(getMap(m, "intent"), k) = getString(getMap(n, "intent"), k)
        PROVE  NormalizeIntent(m) = NormalizeIntent(n)
    BY <1>3 DEF NormalizeIntent
  <1> QED
    BY <1>2, <1>3

LEMMA KeyOfRun ==
  ASSUME NEW v, Doc(v), NoGo(v), NEW version, NEW now, NEW late, NEW m,
         m = CanonicalizeFields(v, late), NEW x, x = Run(v, version, now, late), Accepts(x)
  PROVE  /\ Plain(m) /\ Plain(getMap(m, "actor"))
         /\ x.cer.entity_key
              = KeyOf(getString(m, "domain"), NormalizeIntent(m), getMap(m, "actor"))
  <1>1. PICK c : c = x.cer
    OBVIOUS
  <1>2. Plain(m) /\ c = Signed(Core(m, version, now)) /\ IntentOK(m)
    BY <1>1, Accepted
  <1>3. PICK k : k = Core(m, version, now)
    OBVIOUS
  <1>4. c.entity_key = k.entity_key
    BY <1>2, <1>3, SignedIs
  <1>5. k.entity_key = DeriveIdentity(WithIntent(m))
    BY <1>3 DEF Core
  <1>6. Nested(m, "intent")
    BY <1>2 DEF IntentOK
  <1>7. c.entity_key = KeyOf(getString(m, "domain"), NormalizeIntent(m), getMap(m, "actor"))
    BY <1>2, <1>4, <1>5, <1>6, KeyIs
  <1>8. Plain(getMap(m, "actor"))
    BY <1>2, MapPlain
  <1> QED
    BY <1>1, <1>2, <1>7, <1>8

LEMMA KeyIsSubject ==
  ASSUME NEW r, Doc(r.raw), NoGo(r.raw), RunAt(r), Accepts(r.result), Distinct(r.raw)
  PROVE  LET m == Meaning(r.raw)
         IN /\ Plain(m) /\ Plain(getMap(m, "actor"))
            /\ r.result.cer.entity_key
                 = KeyOf(getString(m, "domain"), NormalizeIntent(m), getMap(m, "actor"))
  <1>1. PICK now \in 1..clock, late \in Orders : r.result = Run(r.raw, r.version, now, late)
    BY DEF RunAt
  <1>2. PICK v, version : v = r.raw /\ version = r.version
    OBVIOUS
  <1>3. PICK m : m = Meaning(v)
    OBVIOUS
  <1>4. /\ Accepts(Run(v, version, now, late)) /\ m = CanonicalizeFields(v, late)
        /\ Doc(v) /\ NoGo(v)
    BY <1>1, <1>2, <1>3, MeaningIs
  <1>5. /\ Plain(m) /\ Plain(getMap(m, "actor"))
        /\ Run(v, version, now, late).cer.entity_key
             = KeyOf(getString(m, "domain"), NormalizeIntent(m), getMap(m, "actor"))
    BY <1>4, KeyOfRun
  <1> QED
    BY <1>1, <1>2, <1>3, <1>5

LEMMA KeyDecides ==
  ASSUME HostInv
  PROVE  EntityKeyIsTheSubject
  <1> SUFFICES ASSUME NEW a \in runs, NEW b \in runs,
                      Accepts(a.result), Accepts(b.result),
                      Distinct(a.raw), Distinct(b.raw)
               PROVE  a.result.cer.entity_key = b.result.cer.entity_key
                        <=> Subject(a.raw) = Subject(b.raw)
    BY DEF EntityKeyIsTheSubject, Accepts
  <1> DEFINE m == Meaning(a.raw)
             n == Meaning(b.raw)
  <1>1. /\ Plain(getMap(m, "actor")) /\ Plain(getMap(n, "actor"))
        /\ a.result.cer.entity_key
             = KeyOf(getString(m, "domain"), NormalizeIntent(m), getMap(m, "actor"))
        /\ b.result.cer.entity_key
             = KeyOf(getString(n, "domain"), NormalizeIntent(n), getMap(n, "actor"))
    BY KeyIsSubject DEF HostInv
  <1>2. Subject(a.raw) = Subject(b.raw)
          <=> /\ getString(m, "domain") = getString(n, "domain")
              /\ getMap(m, "actor") = getMap(n, "actor")
              /\ \A k \in {"action", "target_type", "target_id"} :
                   getString(getMap(m, "intent"), k) = getString(getMap(n, "intent"), k)
    BY DEF Subject
  <1> HIDE DEF m, n
  <1>3. NormalizeIntent(m) = NormalizeIntent(n)
          <=> \A k \in {"action", "target_type", "target_id"} :
                getString(getMap(m, "intent"), k) = getString(getMap(n, "intent"), k)
    BY IntentOne
  <1>4. ASSUME a.result.cer.entity_key = b.result.cer.entity_key
        PROVE  /\ getString(m, "domain") = getString(n, "domain")
               /\ getMap(m, "actor") = getMap(n, "actor")
               /\ NormalizeIntent(m) = NormalizeIntent(n)
    <2>1. PICK d, i, x : d = getString(m, "domain") /\ i = NormalizeIntent(m)
                         /\ x = getMap(m, "actor")
      OBVIOUS
    <2>2. PICK e, j, y : e = getString(n, "domain") /\ j = NormalizeIntent(n)
                         /\ y = getMap(n, "actor")
      OBVIOUS
    <2>3. KeyOf(d, i, x) = KeyOf(e, j, y) /\ Plain(i) /\ Plain(x) /\ Plain(j) /\ Plain(y)
      BY <1>1, <1>4, <2>1, <2>2, IntentPlain
    <2>4. d = e /\ i = j /\ x = y
      BY <2>3, KeyOne
    <2> QED
      BY <2>1, <2>2, <2>4
  <1> QED
    BY <1>1, <1>2, <1>3, <1>4

(* EntityKeyIsTheSubject: accepted events share a key exactly when they    *)
(* agree on domain, actor and intent, whatever else they carry.            *)
THEOREM KeyIsTheSubject == Spec => []EntityKeyIsTheSubject
  BY HostInvariant, KeyDecides, PTL

-----------------------------------------------------------------------------
(* The wire.  The Go values of a record are null on the wire and in the    *)
(* hash, so that its other members decide the hash.                        *)
LEMMA EncodedLeaves ==
  /\ \A s : CanonicalJSON(Str(s)) = Str(s) /\ CanonicalJSON(Num(s)) = Num(s)
            /\ CanonicalJSON(Digest(s)) = Digest(s) /\ CanonicalJSON(Go(s)) = Null
            /\ Content(Num(s)) = s /\ Content(Digest(s)) = s
  /\ Kind(Null) = "null"
  <1>1. ASSUME NEW s
        PROVE  /\ encode(<<"string", s>>) = <<"string", s>> /\ encode(<<"number", s>>) = <<"number", s>>
               /\ encode(<<"digest", s>>) = <<"digest", s>> /\ encode(<<"go", s>>) = <<"null">>
    BY DEF encode
  <1>2. ASSUME NEW s
        PROVE  Content(Num(s)) = s /\ Content(Digest(s)) = s /\ Kind(Null) = "null"
    BY LeafIs DEF Num, Digest, Null, Content, Kind
  <1> QED
    BY <1>1, <1>2, EncodeLeaf DEF Str, Num, Digest, Go, Null

LEMMA SameIdentity ==
  ASSUME NEW c, NEW d, c.entity_key = d.entity_key, c.domain = d.domain
  PROVE  CanonicalJSON(Obj(Identity(c))) = CanonicalJSON(Obj(Identity(d)))
  <1>1. \A k \in DOMAIN Identity(c) : CanonicalJSON(Identity(c)[k]) = CanonicalJSON(Identity(d)[k])
    <2>1. /\ CanonicalJSON(Identity(c)["collapse_key"]) = Null
          /\ CanonicalJSON(Identity(d)["collapse_key"]) = Null
      BY IdentityIs, EncodedLeaves
    <2>2. \A k \in DOMAIN Identity(c) : k = "collapse_key" \/ Identity(c)[k] = Identity(d)[k]
      BY DEF Identity
    <2> QED
      BY <2>1, <2>2
  <1>2. Each(Identity(c)) = Each(Identity(d))
    BY <1>1, IdentityIs DEF Each
  <1> QED
    BY <1>2, IdentityIs, EncodeTree DEF Obj

LEMMA SameHash ==
  ASSUME NEW c, NEW d, Parts(c), Parts(d),
         c.event_id = d.event_id, c.ccnf_version = d.ccnf_version, c.domain = d.domain,
         c.timestamp = d.timestamp, c.actor = d.actor, c.intent = d.intent,
         c.entity_key = d.entity_key, c.causality = d.causality, c.payload = d.payload
  PROVE  ComputeHash(c) = ComputeHash(d)
  <1> DEFINE b == BuildCERMap(c)
             e == BuildCERMap(d)
  <1>1. Object(b) /\ Object(e) /\ DOMAIN b = WireKeys /\ DOMAIN e = WireKeys
    BY RecordMap
  <1>2. /\ b["event_id"] = e["event_id"] /\ b["event_version"] = e["event_version"]
        /\ b["ccnf_version"] = e["ccnf_version"] /\ b["system"] = e["system"]
        /\ b["domain"] = e["domain"] /\ b["timestamp"] = e["timestamp"]
        /\ b["actor"] = e["actor"] /\ b["intent"] = e["intent"]
        /\ b["causality"] = e["causality"] /\ b["payload"] = e["payload"]
    BY RecordMap
  <1>3. /\ CanonicalJSON(b["artifact_refs"]) = Null /\ CanonicalJSON(e["artifact_refs"]) = Null
        /\ CanonicalJSON(b["state_delta"]) = Null /\ CanonicalJSON(e["state_delta"]) = Null
    BY RecordMap, EncodedLeaves
  <1>4. CanonicalJSON(b["identity"]) = CanonicalJSON(e["identity"])
    BY RecordMap, SameIdentity
  <1> HIDE DEF b, e
  <1>5. \A k \in WireKeys : CanonicalJSON(b[k]) = CanonicalJSON(e[k])
    BY <1>2, <1>3, <1>4 DEF WireKeys
  <1>6. Each(b) = Each(e)
    BY <1>1, <1>5 DEF Each
  <1>7. CanonicalJSON(Obj(b)) = CanonicalJSON(Obj(e))
    BY <1>1, <1>6, EncodeTree DEF Obj
  <1> QED
    BY <1>7 DEF ComputeHash, b, e

(* The members of a serialized record, as the reader of the wire has them. *)
OnWire(m, c) ==
  /\ Plain(m) /\ DOMAIN m = WireKeys \cup {"signature"}
  /\ m["event_id"] = Str(c.event_id) /\ m["ccnf_version"] = Num(c.ccnf_version)
  /\ m["event_version"] = Num(1) /\ m["system"] = Str("nexus")
  /\ m["domain"] = Str(c.domain) /\ m["timestamp"] = Num(c.timestamp)
  /\ m["actor"] = Obj(c.actor) /\ m["intent"] = Obj(c.intent)
  /\ m["causality"] = Obj(c.causality) /\ m["payload"] = Obj(c.payload)
  /\ m["artifact_refs"] = Null /\ m["state_delta"] = Null
  /\ m["identity"] = Obj(Each(Identity(c)))
  /\ m["signature"] = Obj([hash |-> Digest(c.signature)])

LEMMA WireMembers ==
  ASSUME NEW c, Parts(c)
  PROVE  OnWire(Members(SerializeCER(c)), c)
  <1> DEFINE m == Members(SerializeCER(c))
  <1>1. /\ SerializeCER(c) = Obj(Each(Wire(c))) /\ Object(Each(Wire(c)))
        /\ Doc(SerializeCER(c)) /\ NoGo(SerializeCER(c))
        /\ DOMAIN Wire(c) = WireKeys \cup {"signature"}
        /\ \A k \in WireKeys : Wire(c)[k] = BuildCERMap(c)[k]
        /\ Wire(c)["signature"] = Obj([hash |-> Digest(c.signature)])
    BY WireIs
  <1>2. m = Each(Wire(c)) /\ Keys(SerializeCER(c)) = DOMAIN Each(Wire(c))
    BY <1>1, MembersOfTree DEF Obj
  <1> HIDE DEF m
  <1>3. Plain(m)
    BY <1>1, <1>2, PlainMembers, MembersIs DEF Plain, m
  <1>4. DOMAIN m = WireKeys \cup {"signature"}
        /\ \A k \in DOMAIN m : m[k] = CanonicalJSON(Wire(c)[k])
    BY <1>1, <1>2 DEF Each
  <1> DEFINE b == BuildCERMap(c)
  <1>5. \A k \in WireKeys : m[k] = CanonicalJSON(b[k])
    BY <1>1, <1>4
  <1>6. /\ m["event_id"] = CanonicalJSON(b["event_id"])
        /\ m["event_version"] = CanonicalJSON(b["event_version"])
        /\ m["system"] = CanonicalJSON(b["system"])
        /\ m["ccnf_version"] = CanonicalJSON(b["ccnf_version"])
        /\ m["domain"] = CanonicalJSON(b["domain"])
        /\ m["timestamp"] = CanonicalJSON(b["timestamp"])
        /\ m["actor"] = CanonicalJSON(b["actor"]) /\ m["intent"] = CanonicalJSON(b["intent"])
        /\ m["causality"] = CanonicalJSON(b["causality"])
        /\ m["payload"] = CanonicalJSON(b["payload"])
        /\ m["artifact_refs"] = CanonicalJSON(b["artifact_refs"])
        /\ m["state_delta"] = CanonicalJSON(b["state_delta"])
        /\ m["identity"] = CanonicalJSON(b["identity"])
    BY <1>5 DEF WireKeys
  <1>7. /\ b["event_id"] = Str(c.event_id) /\ b["event_version"] = Num(1)
        /\ b["ccnf_version"] = Num(c.ccnf_version) /\ b["system"] = Str("nexus")
        /\ b["domain"] = Str(c.domain) /\ b["timestamp"] = Num(c.timestamp)
        /\ b["actor"] = Obj(c.actor) /\ b["intent"] = Obj(c.intent)
        /\ b["identity"] = Obj(Identity(c)) /\ b["causality"] = Obj(c.causality)
        /\ b["artifact_refs"] = Go(c.artifact_refs)
        /\ b["state_delta"] = Go(c.state_delta) /\ b["payload"] = Obj(c.payload)
    BY RecordMap
  <1> HIDE DEF b
  <1>8. CanonicalJSON(Obj(Identity(c))) = Obj(Each(Identity(c)))
    BY IdentityIs, EncodeTree DEF Obj
  <1>9. /\ CanonicalJSON(Obj(c.actor)) = Obj(c.actor)
        /\ CanonicalJSON(Obj(c.intent)) = Obj(c.intent)
        /\ CanonicalJSON(Obj(c.causality)) = Obj(c.causality)
        /\ CanonicalJSON(Obj(c.payload)) = Obj(c.payload)
    BY TreePlain DEF Parts
  <1>10. m["signature"] = Obj([hash |-> Digest(c.signature)])
    BY <1>1, <1>4, SignatureIs, TreePlain
  <1> QED
    BY <1>3, <1>4, <1>6, <1>7, <1>8, <1>9, <1>10, EncodedLeaves DEF OnWire, m

LEMMA NestedIs ==
  ASSUME NEW m, NEW k, k \in DOMAIN m, NEW f, Plain(f), m[k] = Obj(f)
  PROVE  Nested(m, k) /\ getMap(m, k) = f
  <1>1. Nested(m, k)
    BY TreePlain DEF Nested, Has, IsObj
  <1> QED
    BY <1>1, TreePlain DEF getMap

LEMMA EachPlain ==
  ASSUME NEW f, Object(f)
  PROVE  Plain(Each(f))
  BY Encoded DEF Plain, Object, Each

LEMMA WireReads ==
  ASSUME NEW c, Parts(c), NEW g, g = ParseCER(SerializeCER(c))
  PROVE  /\ g.event_id = c.event_id /\ g.ccnf_version = c.ccnf_version
         /\ g.domain = c.domain /\ g.timestamp = c.timestamp
         /\ g.actor = c.actor /\ g.intent = c.intent /\ g.entity_key = c.entity_key
         /\ g.causality = c.causality /\ g.payload = c.payload /\ g.signature = c.signature
  <1>1. PICK m : m = Members(SerializeCER(c))
    OBVIOUS
  <1>2. PICK id : id = getMap(m, "identity")
    OBVIOUS
  <1>3. /\ g.event_id = getString(m, "event_id") /\ g.ccnf_version = Content(m["ccnf_version"])
        /\ g.domain = getString(m, "domain") /\ g.timestamp = Content(m["timestamp"])
        /\ g.actor = getMap(m, "actor") /\ g.intent = getMap(m, "intent")
        /\ g.entity_key = Content(id["entity_key"])
        /\ g.causality = getMap(m, "causality") /\ g.payload = getMap(m, "payload")
        /\ g.signature = Content(getMap(m, "signature")["hash"])
    BY <1>1, <1>2 DEF ParseCER
  <1>4. OnWire(m, c)
    BY <1>1, WireMembers
  <1>5. {"event_id", "domain", "actor", "intent", "causality", "payload", "identity"}
          \subseteq DOMAIN m /\ "signature" \in DOMAIN m
    BY <1>4 DEF OnWire, WireKeys
  <1>6. getString(m, "event_id") = c.event_id /\ getString(m, "domain") = c.domain
    BY <1>4, <1>5, StrOne DEF OnWire, getString, Has
  <1>7. Content(m["ccnf_version"]) = c.ccnf_version /\ Content(m["timestamp"]) = c.timestamp
    BY <1>4, EncodedLeaves DEF OnWire
  <1>8. /\ getMap(m, "actor") = c.actor /\ getMap(m, "intent") = c.intent
        /\ getMap(m, "causality") = c.causality /\ getMap(m, "payload") = c.payload
    BY <1>4, <1>5, NestedIs DEF OnWire, Parts
  <1>9. id = Each(Identity(c))
    BY <1>4, <1>2, <1>5, NestedIs, EachPlain, IdentityIs DEF OnWire
  <1>10. Content(id["entity_key"]) = c.entity_key
    BY <1>9, IdentityIs, EncodedLeaves DEF Each
  <1>11. getMap(m, "signature") = [hash |-> Digest(c.signature)]
    BY <1>4, <1>5, NestedIs, SignatureIs DEF OnWire
  <1>12. Content(getMap(m, "signature")["hash"]) = c.signature
    BY <1>11, EncodedLeaves
  <1> QED
    BY <1>3, <1>6, <1>7, <1>8, <1>10, <1>12

LEMMA WireHash ==
  ASSUME NEW c, Record(c), NEW g, g = ParseCER(SerializeCER(c))
  PROVE  g.signature = c.signature /\ ComputeHash(g) = g.signature
  <1>1. Parts(c) /\ c.signature = ComputeHash(c)
    BY DEF Record
  <1>2. /\ g.event_id = c.event_id /\ g.ccnf_version = c.ccnf_version
        /\ g.domain = c.domain /\ g.timestamp = c.timestamp
        /\ g.actor = c.actor /\ g.intent = c.intent /\ g.entity_key = c.entity_key
        /\ g.causality = c.causality /\ g.payload = c.payload /\ g.signature = c.signature
    BY <1>1, WireReads
  <1>3. Parts(g)
    BY <1>1, <1>2 DEF Parts
  <1>4. ComputeHash(g) = ComputeHash(c)
    BY <1>1, <1>2, <1>3, SameHash
  <1> QED
    BY <1>1, <1>2, <1>4

(* WireKeepsHash: a signature verifies on the other side of the wire.      *)
THEOREM SignatureVerifiesElsewhere == Spec => []WireKeepsHash
  <1>1. ASSUME HostInv PROVE WireKeepsHash
    <2> SUFFICES ASSUME NEW p \in received
                 PROVE  p.got.signature = p.sent.signature /\ ComputeHash(p.got) = p.got.signature
      BY DEF WireKeepsHash
    <2>1. Record(p.sent) /\ p.got = ParseCER(SerializeCER(p.sent))
      BY <1>1, RecordsAre DEF HostInv
    <2> QED
      BY <2>1, WireHash
  <1> QED
    BY <1>1, HostInvariant, PTL

-----------------------------------------------------------------------------
(* A record is a settled input: where each part of it came from settled    *)
(* fields or from the names and strings of the source.                     *)
Under(k, d)  == \A q \in DOMAIN d : Settled(Cons(k, q), d[q])
Beneath(k, f) == \A j \in DOMAIN f : \A q \in DOMAIN f[j] :
                   Settled(Cons(k, Cons(j, q)), f[j][q])

LEMMA NormalCons ==
  ASSUME NEW k \in Name, normalizeString(k) = k, NEW q \in Seq(Name), normalizePath(q) = q
  PROVE  normalizePath(Cons(k, q)) = Cons(k, q)
  <1> DEFINE p == Cons(k, q)
  <1>1. /\ p \in Seq(Name) /\ Len(p) = Len(q) + 1 /\ p[1] = k
        /\ \A i \in 1..Len(q) : p[i + 1] = q[i]
    BY ConsPath
  <1>2. \A i \in 1..Len(q) : normalizeString(q[i]) = q[i]
    BY NormalPath
  <1> HIDE DEF p
  <1>3. /\ normalizePath(p) \in Seq(Name) /\ Len(normalizePath(p)) = Len(p)
        /\ \A i \in 1..Len(p) : normalizePath(p)[i] = normalizeString(p[i])
    BY <1>1, NormalPath
  <1>4. ASSUME NEW i \in 1..Len(p) PROVE normalizeString(p[i]) = p[i]
    <2>1. CASE i = 1
      BY <1>1, <2>1
    <2>2. CASE i # 1
      <3>1. i - 1 \in 1..Len(q) /\ (i - 1) + 1 = i
        BY <1>1, <2>2
      <3>2. p[(i - 1) + 1] = q[i - 1]
        BY <1>1, <3>1
      <3> QED
        BY <1>2, <3>1, <3>2
    <2> QED
      BY <2>1, <2>2
  <1>5. normalizePath(p) = p
    BY <1>1, <1>3, <1>4, SeqEqual
  <1> QED
    BY <1>5 DEF p

LEMMA EmptyPath == <<>> \in Seq(Name) /\ normalizePath(<<>>) = <<>> /\ Len(<<>>) = 0
  BY Single DEF normalizePath

LEMMA OtherSettled ==
  ASSUME NEW p, normalizePath(p) = p, NEW x, x[1] # "string", x[1] # "go"
  PROVE  Settled(p, x)
  <1>1. PICK e : e = <<"string", "">>
    OBVIOUS
  <1>2. e[1] = "string"
    BY <1>1
  <1>3. x # e
    BY <1>2
  <1> QED
    BY <1>1, <1>3 DEF Settled, normalizeLeaf, convertTimestamp, normalizeAbsent

LEMMA StringSettled ==
  ASSUME NEW p, normalizePath(p) = p, NEW s, normalizeString(s) = s,
         ~Named(p, "timestamp"), ~Named(p, "collapse_key")
  PROVE  Settled(p, <<"string", s>>)
  BY DEF Settled, normalizeLeaf, convertTimestamp, normalizeAbsent

LEMMA ShortPaths ==
  ASSUME NEW k \in Fixed
  PROVE  /\ normalizePath(Cons(k, <<>>)) = Cons(k, <<>>) /\ Cons(k, <<>>) \in Seq(Name)
         /\ \A n : Named(Cons(k, <<>>), n) => n = k
         /\ \A j \in Fixed : /\ normalizePath(Cons(k, Cons(j, <<>>))) = Cons(k, Cons(j, <<>>))
                             /\ \A n : Named(Cons(k, Cons(j, <<>>)), n) => n = j
  <1>1. k \in Name /\ normalizeString(k) = k
    BY FixedNames
  <1>2. PICK e \in Seq(Name) : e = <<>> /\ normalizePath(e) = e /\ Len(e) = 0
    BY EmptyPath
  <1> DEFINE p == Cons(k, e)
  <1>3. p \in Seq(Name) /\ Len(p) = 1 /\ p[1] = k /\ normalizePath(p) = p
    <2>1. p \in Seq(Name) /\ Len(p) = Len(e) + 1 /\ p[1] = k
      BY <1>1, ConsPath
    <2>2. normalizePath(p) = p
      BY <1>1, <1>2, NormalCons
    <2> QED
      BY <1>2, <2>1, <2>2
  <1> HIDE DEF p
  <1>4. \A n : Named(p, n) => n = k
    BY <1>3 DEF Named
  <1>5. ASSUME NEW j \in Fixed
        PROVE  /\ normalizePath(Cons(k, Cons(j, <<>>))) = Cons(k, Cons(j, <<>>))
               /\ \A n : Named(Cons(k, Cons(j, <<>>)), n) => n = j
    <2>1. j \in Name /\ normalizeString(j) = j
      BY FixedNames
    <2> DEFINE r == Cons(j, e)
               t == Cons(k, r)
    <2>2. r \in Seq(Name) /\ Len(r) = 1 /\ r[1] = j /\ normalizePath(r) = r
      <3>1. r \in Seq(Name) /\ Len(r) = Len(e) + 1 /\ r[1] = j
        BY <2>1, ConsPath
      <3>2. normalizePath(r) = r
        BY <2>1, <1>2, NormalCons
      <3> QED
        BY <1>2, <3>1, <3>2
    <2> HIDE DEF r
    <2>3. normalizePath(t) = t /\ Len(t) = Len(r) + 1 /\ \A i \in 1..Len(r) : t[i + 1] = r[i]
      BY <1>1, <2>2, ConsPath, NormalCons
    <2> HIDE DEF t
    <2>4. Len(t) = 2 /\ t[2] = j
      <3>1. 1 \in 1..Len(r) /\ 1 + 1 = 2
        BY <2>2
      <3>2. t[1 + 1] = r[1]
        BY <2>3, <3>1
      <3> QED
        BY <2>2, <2>3, <3>2
    <2>5. \A n : Named(t, n) => n = j
      BY <2>4 DEF Named
    <2> QED
      BY <1>2, <2>3, <2>5 DEF r, t
  <1> QED
    BY <1>2, <1>3, <1>4, <1>5 DEF p

(* Which leaves are settled next to the root, and one step further.        *)
Steady(k, x) ==
  \/ x[1] # "string" /\ x[1] # "go"
  \/ /\ \E s : x = <<"string", s>> /\ normalizeString(s) = s
     /\ k # "timestamp" /\ k # "collapse_key"

LEMMA SteadySettled ==
  ASSUME NEW k \in Fixed, NEW x
  PROVE  /\ Steady(k, x) => Settled(Cons(k, <<>>), x)
         /\ \A j \in Fixed : Steady(j, x) => Settled(Cons(k, Cons(j, <<>>)), x)
  <1>1. ASSUME NEW n \in Fixed, NEW p, normalizePath(p) = p,
               \A y : Named(p, y) => y = n, Steady(n, x)
        PROVE  Settled(p, x)
    <2>1. CASE x[1] # "string" /\ x[1] # "go"
      BY <1>1, <2>1, OtherSettled
    <2>2. CASE /\ \E s : x = <<"string", s>> /\ normalizeString(s) = s
               /\ n # "timestamp" /\ n # "collapse_key"
      <3>1. ~Named(p, "timestamp") /\ ~Named(p, "collapse_key")
        BY <1>1, <2>2
      <3>2. PICK s : x = <<"string", s>> /\ normalizeString(s) = s
        BY <2>2
      <3> QED
        BY <1>1, <3>1, <3>2, StringSettled
    <2> QED
      BY <1>1, <2>1, <2>2 DEF Steady
  <1> QED
    BY <1>1, ShortPaths

LEMMA LeafUnder ==
  ASSUME NEW k \in Fixed, NEW x, Steady(k, x)
  PROVE  Under(k, Leaf(x))
  BY SteadySettled, LeafIs DEF Under

LEMMA TreeUnder ==
  ASSUME NEW k \in Fixed, NEW f, Object(f), Beneath(k, f)
  PROVE  Under(k, Obj(f))
  <1>1. ASSUME NEW q \in DOMAIN Obj(f) PROVE Settled(Cons(k, q), Obj(f)[q])
    <2>1. CASE q = <<>>
      <3>1. Obj(f)[<<>>] = <<"object">>
        BY TreePaths DEF Obj
      <3>2. Steady(k, <<"object">>)
        BY DEF Steady
      <3> QED
        BY <2>1, <3>1, <3>2, SteadySettled
    <2>2. CASE q # <<>>
      <3>1. PICK j \in DOMAIN f : \E r \in DOMAIN f[j] : q = Cons(j, r)
        BY <2>2, TreePaths DEF Obj
      <3>2. PICK r \in DOMAIN f[j] : q = Cons(j, r)
        BY <3>1
      <3>3. Obj(f)[q] = f[j][r]
        BY <3>2, TreePaths DEF Obj
      <3> QED
        BY <3>2, <3>3 DEF Beneath
    <2> QED
      BY <2>1, <2>2
  <1> QED
    BY <1>1 DEF Under

LEMMA OverBeneath ==
  ASSUME NEW k, NEW f, NEW g, Beneath(k, f), Beneath(k, g)
  PROVE  Beneath(k, Over(f, g))
  <1>1. /\ DOMAIN Over(f, g) = DOMAIN f \cup DOMAIN g
        /\ \A j \in DOMAIN f : Over(f, g)[j] = f[j]
        /\ \A j \in DOMAIN g \ DOMAIN f : Over(f, g)[j] = g[j]
    BY DEF Over
  <1> QED
    BY <1>1 DEF Beneath

LEMMA LeavesBeneath ==
  ASSUME NEW k \in Fixed, NEW f, DOMAIN f \subseteq Fixed,
         \A j \in DOMAIN f : DOMAIN f[j] = {<<>>} /\ Steady(j, f[j][<<>>])
  PROVE  Beneath(k, f)
  BY SteadySettled DEF Beneath

(* The canonical fields, at their root and one step further.               *)
LEMMA FieldsBeneath ==
  ASSUME NEW d, Doc(d), \A p \in DOMAIN d : Settled(p, d[p]), NEW k
  PROVE  Beneath(k, getMap(Members(d), k))
  <1> DEFINE m == Members(d)
  <1>1. DOMAIN m = Keys(d) /\ \A j \in Keys(d) : m[j] = At(d, j)
    BY MembersIs
  <1> HIDE DEF m
  <1>2. CASE ~Nested(m, k)
    BY <1>2, EmptyIs DEF getMap, Beneath, m
  <1>3. CASE Nested(m, k)
    <2>1. k \in Keys(d) /\ m[k] = At(d, k)
      BY <1>1, <1>3 DEF Nested, Has
    <2> DEFINE e == At(d, k)
    <2>2. /\ Doc(e) /\ \A q \in DOMAIN e : Cons(k, q) \in DOMAIN d /\ e[q] = d[Cons(k, q)]
      BY <2>1, AtIs
    <2> HIDE DEF e
    <2>3. ASSUME NEW j \in Keys(e), NEW q \in DOMAIN At(e, j)
          PROVE  Settled(Cons(k, Cons(j, q)), At(e, j)[q])
      <3>1. Cons(j, q) \in DOMAIN e /\ At(e, j)[q] = e[Cons(j, q)]
        BY <2>2, AtIs
      <3>2. Cons(k, Cons(j, q)) \in DOMAIN d /\ e[Cons(j, q)] = d[Cons(k, Cons(j, q))]
        BY <2>2, <3>1
      <3> QED
        BY <3>1, <3>2
    <2>4. /\ getMap(m, k) = Members(e) /\ DOMAIN Members(e) = Keys(e)
          /\ \A j \in Keys(e) : Members(e)[j] = At(e, j)
      BY <1>3, <2>1, <2>2, MembersIs DEF getMap, e
    <2> QED
      BY <2>3, <2>4 DEF Beneath, m
  <1> QED
    BY <1>2, <1>3

LEMMA SettledString ==
  ASSUME NEW p, NEW x, Settled(p, x), x[1] = "string"
  PROVE  normalizeString(x[2]) = x[2]
  <1>1. x = <<"string", normalizeString(x[2])>>
    BY DEF Settled, normalizeLeaf
  <1> QED
    BY <1>1

LEMMA EmptyNormal == normalizeString("") = ""
  BY FixedNames DEF Fixed

LEMMA FieldsStrings ==
  ASSUME NEW d, Doc(d), \A p \in DOMAIN d : Settled(p, d[p]), NEW k, NEW j
  PROVE  LET m == Members(d)
         IN /\ normalizeString(getString(m, k)) = getString(m, k)
            /\ normalizeString(getString(getMap(m, k), j)) = getString(getMap(m, k), j)
  <1> DEFINE m == Members(d)
             f == getMap(m, k)
  <1>1. normalizeString(getString(m, k)) = getString(m, k)
    <2>1. CASE k \in DOMAIN m /\ Kind(m[k]) = "string"
      <3>1. <<k>> \in DOMAIN d /\ m[k][<<>>] = d[<<k>>]
        BY <2>1, MembersIs, AtIs
      <3>2. d[<<k>>][1] = "string" /\ Content(m[k]) = d[<<k>>][2]
        BY <2>1, <3>1 DEF Kind, Content
      <3>3. normalizeString(d[<<k>>][2]) = d[<<k>>][2]
        BY <3>1, <3>2, SettledString
      <3> QED
        BY <2>1, <3>2, <3>3 DEF getString, Has
    <2>2. CASE ~(k \in DOMAIN m /\ Kind(m[k]) = "string")
      BY <2>2, EmptyNormal DEF getString, Has
    <2> QED
      BY <2>1, <2>2
  <1>2. normalizeString(getString(f, j)) = getString(f, j)
    <2>0. Beneath(k, f) /\ Object(f)
      <3>1. CASE Nested(m, k)
        <4>1. Doc(m[k])
          BY <3>1, MembersIs DEF Nested, Has, Object
        <4> QED
          BY <3>1, <4>1, FieldsBeneath, MembersIs DEF getMap
      <3>2. CASE ~Nested(m, k)
        BY <3>2, EmptyIs, FieldsBeneath DEF getMap
      <3> QED
        BY <3>1, <3>2
    <2> HIDE DEF f
    <2>1. CASE j \in DOMAIN f /\ Kind(f[j]) = "string"
      <3>1. <<>> \in DOMAIN f[j]
        BY <2>0, <2>1 DEF Object, Doc
      <3>2. Settled(Cons(k, Cons(j, <<>>)), f[j][<<>>])
        BY <2>0, <2>1, <3>1 DEF Beneath
      <3>3. f[j][<<>>][1] = "string" /\ Content(f[j]) = f[j][<<>>][2]
        BY <2>1 DEF Kind, Content
      <3>4. normalizeString(f[j][<<>>][2]) = f[j][<<>>][2]
        BY <3>2, <3>3, SettledString
      <3> QED
        BY <2>1, <3>3, <3>4 DEF getString, Has
    <2>2. CASE ~(j \in DOMAIN f /\ Kind(f[j]) = "string")
      BY <2>2, EmptyNormal DEF getString, Has
    <2> QED
      BY <2>1, <2>2
  <1> QED
    BY <1>1, <1>2

LEMMA StrLeaf ==
  ASSUME NEW s, normalizeString(s) = s, NEW k, k # "timestamp", k # "collapse_key"
  PROVE  DOMAIN Str(s) = {<<>>} /\ Str(s)[<<>>] = <<"string", s>> /\ Steady(k, Str(s)[<<>>])
  <1>1. DOMAIN Str(s) = {<<>>} /\ Str(s)[<<>>] = <<"string", s>>
    BY LeafIs DEF Str
  <1> QED
    BY <1>1 DEF Steady

LEMMA OtherLeaves ==
  ASSUME NEW k
  PROVE  /\ \A n : /\ DOMAIN Num(n) = {<<>>} /\ Steady(k, Num(n)[<<>>])
                   /\ DOMAIN Bool(n) = {<<>>} /\ Steady(k, Bool(n)[<<>>])
                   /\ DOMAIN Digest(n) = {<<>>} /\ Steady(k, Digest(n)[<<>>])
         /\ DOMAIN Null = {<<>>} /\ Steady(k, Null[<<>>])
  BY LeafIs DEF Num, Bool, Digest, Null, Steady

LEMMA Constants ==
  \A s \in {"nexus", "structured", "normalized_verb", ""} : normalizeString(s) = s
  BY FixedNames DEF Fixed

LEMMA IntentBeneath ==
  ASSUME NEW d, Doc(d), \A p \in DOMAIN d : Settled(p, d[p]), NEW m0, m0 = Members(d)
  PROVE  Beneath("intent", NormalizeIntent(m0))
  <1> DEFINE i == getMap(m0, "intent")
             f == NormalizeIntent(m0)
  <1>1. /\ normalizeString(getString(i, "action")) = getString(i, "action")
        /\ normalizeString(getString(i, "target_type")) = getString(i, "target_type")
        /\ normalizeString(getString(i, "target_id")) = getString(i, "target_id")
    BY FieldsStrings
  <1>2. /\ DOMAIN f = {"type", "action", "target_type", "target_id"}
        /\ f["type"] = Str("normalized_verb") /\ f["action"] = Str(getString(i, "action"))
        /\ f["target_type"] = Str(getString(i, "target_type"))
        /\ f["target_id"] = Str(getString(i, "target_id"))
    BY DEF NormalizeIntent
  <1> HIDE DEF i, f
  <1>3. \A j \in DOMAIN f : \E s : f[j] = Str(s) /\ normalizeString(s) = s
    BY <1>1, <1>2, Constants
  <1>4. \A j \in DOMAIN f : DOMAIN f[j] = {<<>>} /\ Steady(j, f[j][<<>>])
    <2> SUFFICES ASSUME NEW j \in DOMAIN f
                 PROVE  DOMAIN f[j] = {<<>>} /\ Steady(j, f[j][<<>>])
      OBVIOUS
    <2>1. PICK s : f[j] = Str(s) /\ normalizeString(s) = s
      BY <1>3
    <2>2. j # "timestamp" /\ j # "collapse_key"
      BY <1>2
    <2> QED
      BY <2>1, <2>2, StrLeaf
  <1>5. DOMAIN f \subseteq Fixed /\ "intent" \in Fixed
    BY <1>2 DEF Fixed
  <1>6. Beneath("intent", f)
    BY <1>4, <1>5, LeavesBeneath
  <1> QED
    BY <1>6 DEF f

LEMMA ArrIs == DOMAIN Arr(<<>>) = {<<>>} /\ Arr(<<>>)[<<>>] = <<"array">>
  <1> DEFINE none == [k \in {Place[i] : i \in DOMAIN <<>>} |->
                        <<>>[CHOOSE i \in DOMAIN <<>> : Place[i] = k]]
  <1>1. Object(none) /\ DOMAIN none = {}
    BY DEF Object
  <1> HIDE DEF none
  <1>2. Arr(<<>>) = Tree("array", none)
    BY DEF Arr, none
  <1>3. /\ Tree("array", none)[<<>>] = <<"array">>
        /\ \A p : p \in DOMAIN Tree("array", none) <=> p = <<>>
    BY <1>1, TreePaths
  <1> QED
    BY <1>2, <1>3

LEMMA CausalityBeneath ==
  ASSUME NEW m, Beneath("causality", getMap(m, "causality"))
  PROVE  Beneath("causality", normalizeCausality(m))
  <1> DEFINE always == [ordered |-> Bool(TRUE), parent_event_ids |-> Arr(<<>>)]
             absent == [causal_chain_id |-> Str(""), trace_depth |-> Num(0)]
  <1>1. Beneath("causality", always)
    <2>1. /\ DOMAIN always = {"ordered", "parent_event_ids"}
          /\ always["ordered"] = Bool(TRUE) /\ always["parent_event_ids"] = Arr(<<>>)
      OBVIOUS
    <2>2. DOMAIN always \subseteq Fixed /\ "causality" \in Fixed
      BY <2>1 DEF Fixed
    <2> HIDE DEF always
    <2>3. Steady("parent_event_ids", <<"array">>)
      BY DEF Steady
    <2>4. \A j \in DOMAIN always : DOMAIN always[j] = {<<>>} /\ Steady(j, always[j][<<>>])
      BY <2>1, <2>3, ArrIs, OtherLeaves
    <2> QED
      BY <2>2, <2>4, LeavesBeneath
  <1>2. Beneath("causality", absent)
    <2>1. /\ DOMAIN absent = {"causal_chain_id", "trace_depth"}
          /\ absent["causal_chain_id"] = Str("") /\ absent["trace_depth"] = Num(0)
      OBVIOUS
    <2>2. DOMAIN absent \subseteq Fixed /\ "causality" \in Fixed
      BY <2>1 DEF Fixed
    <2> HIDE DEF absent
    <2>3. \A j \in DOMAIN absent : DOMAIN absent[j] = {<<>>} /\ Steady(j, absent[j][<<>>])
      BY <2>1, OtherLeaves, StrLeaf, Constants
    <2> QED
      BY <2>2, <2>3, LeavesBeneath
  <1> HIDE DEF always, absent
  <1>3. /\ Beneath("causality", Over(getMap(m, "causality"), always))
        /\ Beneath("causality", Over(always, absent))
    BY <1>1, <1>2, OverBeneath
  <1> QED
    BY <1>3 DEF normalizeCausality, always, absent

(* What is left of the payload when every artifact in it has an id.        *)
Structured == [type |-> Str("structured"), data |-> Obj(Empty)]

LEMMA StructuredIs ==
  /\ Plain(Structured) /\ Beneath("payload", Structured)
  /\ DOMAIN Structured = {"type", "data"} /\ Structured["data"] = Obj(Empty)
  <1>1. /\ DOMAIN Structured = {"type", "data"} /\ Structured["data"] = Obj(Empty)
        /\ Structured["type"] = Str("structured")
        /\ Structured = [k \in DOMAIN Structured |-> Structured[k]]
    BY DEF Structured
  <1>2. DOMAIN Structured \subseteq Fixed /\ "payload" \in Fixed
    BY <1>1 DEF Fixed
  <1>3. Plain(Empty)
    BY EmptyIs DEF Plain
  <1>4. Doc(Obj(Empty)) /\ NoGo(Obj(Empty)) /\ DOMAIN Obj(Empty) = {<<>>}
        /\ Obj(Empty)[<<>>] = <<"object">>
    <2>1. /\ Obj(Empty)[<<>>] = <<"object">> /\ \A p : p \in DOMAIN Obj(Empty) <=> p = <<>>
      BY EmptyIs, TreePaths DEF Obj
    <2> QED
      BY <1>3, <2>1, TreePlain
  <1>5. Plain(Structured)
    BY <1>1, <1>2, <1>4, LeafPlain, FixedNames DEF Plain, Object
  <1>6. Steady("data", <<"object">>)
    BY DEF Steady
  <1>7. \A j \in DOMAIN Structured :
          DOMAIN Structured[j] = {<<>>} /\ Steady(j, Structured[j][<<>>])
    BY <1>1, <1>4, <1>6, StrLeaf, Constants
  <1> QED
    BY <1>1, <1>2, <1>5, <1>7, LeavesBeneath

LEMMA PayloadIs ==
  ASSUME NEW m, \A k \in DOMAIN Data(m) : isValidArtifactID(k)
  PROVE  buildPayload(m) = Over(Structured, getMap(m, "payload"))
  <1> DEFINE kept == {k \in DOMAIN Data(m) : ~isValidArtifactID(k)}
             rest == [k \in kept |-> Data(m)[k]]
  <1>1. rest = Empty
    BY DEF Empty
  <1>2. buildPayload(m) = Over([type |-> Str("structured"), data |-> Obj(rest)],
                               getMap(m, "payload"))
    BY DEF buildPayload
  <1> HIDE DEF rest
  <1> QED
    BY <1>1, <1>2 DEF Structured

(* The canonical fields of an input, and the core of a record of them that *)
(* no stage refuses.                                                       *)
Settling(m0) == \E d : Doc(d) /\ NoGo(d) /\ m0 = Members(d) /\ \A p \in DOMAIN d : Settled(p, d[p])

LEMMA FieldsSettling ==
  ASSUME NEW v, Doc(v), NoGo(v), NEW late
  PROVE  Settling(CanonicalizeFields(v, late))
  <1>1. CanonicalizeFields(v, late) = Members(Fields(v, late))
    BY DEF CanonicalizeFields, Fields
  <1>2. /\ Doc(Fields(v, late)) /\ NoGo(Fields(v, late))
        /\ \A p \in DOMAIN Fields(v, late) : Settled(p, Fields(v, late)[p])
    BY FieldsSettled
  <1> QED
    BY <1>1, <1>2 DEF Settling

LEMMA CoreSettles ==
  ASSUME NEW m0, Settling(m0), Plain(m0), ArtifactsOK(m0), NEW version, NEW now,
         NEW k, k = Core(m0, version, now)
  PROVE  /\ normalizeString(k.event_id) = k.event_id /\ normalizeString(k.domain) = k.domain
         /\ Beneath("actor", k.actor) /\ Beneath("intent", k.intent)
         /\ Beneath("causality", k.causality) /\ Beneath("payload", k.payload)
  <1>1. PICK d : Doc(d) /\ NoGo(d) /\ m0 = Members(d) /\ \A p \in DOMAIN d : Settled(p, d[p])
    BY DEF Settling
  <1>2. PICK m : m = WithIntent(m0)
    OBVIOUS
  <1>3. /\ k.event_id = getString(m, "event_id") /\ k.domain = getString(m, "domain")
        /\ k.actor = getMap(m, "actor") /\ k.intent = NormalizeIntent(m0)
        /\ k.causality = normalizeCausality(m) /\ k.payload = buildPayload(m)
    BY <1>2 DEF Core
  <1>4. m0 = [x \in DOMAIN m0 |-> m0[x]]
    BY DEF Plain, Object
  <1>5. /\ getString(m, "event_id") = getString(m0, "event_id")
        /\ getString(m, "domain") = getString(m0, "domain")
        /\ getMap(m, "actor") = getMap(m0, "actor")
        /\ getMap(m, "causality") = getMap(m0, "causality")
        /\ getMap(m, "payload") = getMap(m0, "payload")
    BY <1>2, <1>4, IntentOnly
  <1>6. Data(m) = Data(m0)
    BY <1>5 DEF Data
  <1>7. normalizeString(k.event_id) = k.event_id /\ normalizeString(k.domain) = k.domain
    BY <1>1, <1>3, <1>5, FieldsStrings
  <1>8. Beneath("actor", k.actor)
    BY <1>1, <1>3, <1>5, FieldsBeneath
  <1>9. Beneath("intent", k.intent)
    BY <1>1, <1>3, IntentBeneath
  <1>10. Beneath("causality", k.causality)
    BY <1>1, <1>3, <1>5, FieldsBeneath, CausalityBeneath
  <1>11. Beneath("payload", k.payload)
    <2>1. k.payload = Over(Structured, getMap(m, "payload"))
      BY <1>3, <1>6, PayloadIs DEF ArtifactsOK
    <2>2. Beneath("payload", getMap(m, "payload"))
      BY <1>1, <1>5, FieldsBeneath
    <2> QED
      BY <2>1, <2>2, OverBeneath, StructuredIs
  <1> QED
    BY <1>7, <1>8, <1>9, <1>10, <1>11

(* Every path of a serialized record is normal, and every value outside    *)
(* its identity is settled.                                                *)
SettledParts(c) ==
  /\ normalizeString(c.event_id) = c.event_id /\ normalizeString(c.domain) = c.domain
  /\ Beneath("actor", c.actor) /\ Beneath("intent", c.intent)
  /\ Beneath("causality", c.causality) /\ Beneath("payload", c.payload)

LEMMA IdentityPaths ==
  ASSUME NEW c, NEW q \in DOMAIN Obj(Each(Identity(c)))
  PROVE  q \in Seq(Name) /\ normalizePath(q) = q
  <1> DEFINE f == Each(Identity(c))
  <1>1. Object(f) /\ DOMAIN f = DOMAIN Identity(c)
    BY IdentityIs, EncodeTree DEF Each
  <1>2. Doc(Obj(f)) /\ \A p : p \in DOMAIN Obj(f) <=> \/ p = <<>>
                                     \/ \E j \in DOMAIN f : \E r \in DOMAIN f[j] : p = Cons(j, r)
    BY <1>1, TreePaths DEF Obj
  <1>3. \A j \in DOMAIN f : j \in Fixed
    BY <1>1, IdentityIs DEF Fixed
  <1>4. \A j \in DOMAIN f : \A r \in DOMAIN f[j] : r = <<>>
    <2>1. /\ Identity(c)["entity_key"] = Digest(c.entity_key) /\ Identity(c)["type"] = Str("event")
          /\ Identity(c)["scope"] = Str(domainToScope(c.domain))
          /\ Identity(c)["collapse_key"] = Go(c.collapse_key)
          /\ Identity(c)["alias_keys"] = Go(<<>>)
      BY DEF Identity
    <2>2. \A j \in DOMAIN Identity(c) : \E x : Identity(c)[j] = Leaf(x)
      BY <2>1, IdentityIs DEF Digest, Str, Go
    <2>3. \A j \in DOMAIN Identity(c) : DOMAIN f[j] = {<<>>}
      BY <2>2, LeafIs, Encoded DEF Each
    <2> QED
      BY <1>1, <2>3
  <1> HIDE DEF f
  <1>5. CASE q = <<>>
    BY <1>5, EmptyPath
  <1>6. CASE q # <<>>
    <2>1. PICK j \in DOMAIN f : \E r \in DOMAIN f[j] : q = Cons(j, r)
      BY <1>2, <1>6 DEF f
    <2>2. q = Cons(j, <<>>) /\ j \in Fixed
      BY <1>3, <1>4, <2>1
    <2> QED
      BY <2>2, ShortPaths
  <1> QED
    BY <1>5, <1>6

LEMMA WireKeysFixed == WireKeys \cup {"signature"} \subseteq Fixed
  BY DEF WireKeys, Fixed

LEMMA WireUnder ==
  ASSUME NEW c, Parts(c), SettledParts(c), NEW m, OnWire(m, c),
         NEW k \in DOMAIN m, k # "identity"
  PROVE  Under(k, m[k])
  <1>1. k \in Fixed
    BY WireKeysFixed DEF OnWire
  <1>2. CASE k \in {"event_id", "system", "domain"}
    <2>1. PICK s : m[k] = Str(s) /\ normalizeString(s) = s
      BY <1>2, Constants DEF OnWire, SettledParts
    <2>2. Steady(k, <<"string", s>>)
      BY <1>2, <2>1 DEF Steady
    <2> QED
      BY <1>1, <2>1, <2>2, LeafUnder DEF Str
  <1>3. CASE k \in {"event_version", "ccnf_version", "timestamp"}
    <2>1. PICK n : m[k] = Num(n)
      BY <1>3 DEF OnWire
    <2>2. Steady(k, <<"number", n>>)
      BY DEF Steady
    <2> QED
      BY <1>1, <2>1, <2>2, LeafUnder DEF Num
  <1>4. CASE k \in {"artifact_refs", "state_delta"}
    <2>1. m[k] = Null
      BY <1>4 DEF OnWire
    <2>2. Steady(k, <<"null">>)
      BY DEF Steady
    <2> QED
      BY <1>1, <2>1, <2>2, LeafUnder DEF Null
  <1>5. CASE k \in {"actor", "intent", "causality", "payload"}
    <2>1. \E f : m[k] = Obj(f) /\ Object(f) /\ Beneath(k, f)
      BY <1>5 DEF OnWire, SettledParts, Parts, Plain
    <2> QED
      BY <1>1, <2>1, TreeUnder
  <1>6. CASE k = "signature"
    <2> DEFINE f == [hash |-> Digest(c.signature)]
    <2>1. DOMAIN f = {"hash"} /\ f["hash"] = Digest(c.signature)
      OBVIOUS
    <2>2. Plain(f)
      BY SignatureIs
    <2>3. m[k] = Obj(f)
      BY <1>6 DEF OnWire
    <2> HIDE DEF f
    <2>4. DOMAIN f \subseteq Fixed
      BY <2>1 DEF Fixed
    <2>5. Beneath(k, f)
      BY <1>1, <2>1, <2>4, OtherLeaves, LeavesBeneath
    <2> QED
      BY <1>1, <2>2, <2>3, <2>5, TreeUnder DEF Plain
  <1> QED
    BY <1>2, <1>3, <1>4, <1>5, <1>6 DEF OnWire, WireKeys

LEMMA WireSettled ==
  ASSUME NEW c, Parts(c), SettledParts(c), NEW w, w = SerializeCER(c)
  PROVE  /\ Doc(w) /\ NoGo(w)
         /\ \A p \in DOMAIN w : normalizePath(p) = p
         /\ \A k \in Keys(w) : k # "identity" => \A q \in DOMAIN At(w, k) :
              Settled(Cons(k, q), w[Cons(k, q)])
  <1>1. Doc(w) /\ NoGo(w)
    BY WireIs
  <1>2. PICK m : m = Members(w)
    OBVIOUS
  <1>3. OnWire(m, c)
    BY <1>2, WireMembers
  <1>4. DOMAIN m = Keys(w) /\ \A k \in Keys(w) : m[k] = At(w, k)
    BY <1>1, <1>2, MembersIs
  <1>5. ASSUME NEW k \in Keys(w), k # "identity", NEW q \in DOMAIN At(w, k)
        PROVE  Settled(Cons(k, q), w[Cons(k, q)])
    <2>1. Under(k, m[k])
      BY <1>3, <1>4, <1>5, WireUnder
    <2>2. Settled(Cons(k, q), At(w, k)[q])
      BY <1>4, <2>1 DEF Under
    <2>3. At(w, k)[q] = w[Cons(k, q)]
      BY <1>1, AtIs
    <2> QED
      BY <2>2, <2>3
  <1>6. ASSUME NEW p \in DOMAIN w PROVE normalizePath(p) = p
    <2>1. CASE p = <<>>
      BY <2>1, EmptyPath
    <2>2. CASE p # <<>>
      <3>0. \A x : x \in DOMAIN w <=> x = <<>> \/ \E k \in DOMAIN Each(Wire(c)) :
                                          \E q \in DOMAIN Each(Wire(c))[k] : x = Cons(k, q)
        <4>1. w = Obj(Each(Wire(c))) /\ Object(Each(Wire(c)))
          BY WireIs
        <4> DEFINE f == Each(Wire(c))
        <4> HIDE DEF f
        <4>2. w = Tree("object", f) /\ Object(f)
          BY <4>1 DEF Obj, f
        <4>3. \A x : x \in DOMAIN w <=> x = <<>> \/ \E k \in DOMAIN f :
                                              \E q \in DOMAIN f[k] : x = Cons(k, q)
          BY <4>2, TreePaths
        <4> QED
          BY <4>3 DEF f
      <3>1. PICK k \in DOMAIN Each(Wire(c)) : \E q \in DOMAIN Each(Wire(c))[k] : p = Cons(k, q)
        BY <2>2, <3>0
      <3>2. PICK q \in DOMAIN Each(Wire(c))[k] : p = Cons(k, q)
        BY <3>1
      <3>3. Each(Wire(c)) = m
        BY <1>2, WireIs, MembersOfTree DEF Obj
      <3>4. k \in Keys(w) /\ q \in DOMAIN At(w, k) /\ k \in Fixed
        BY <1>3, <1>4, <3>2, <3>3, WireKeysFixed DEF OnWire
      <3>5. CASE k # "identity"
        BY <1>5, <3>2, <3>4, <3>5 DEF Settled
      <3>6. CASE k = "identity"
        <4>1. q \in DOMAIN Obj(Each(Identity(c)))
          BY <1>3, <1>4, <3>4, <3>6 DEF OnWire
        <4>2. k \in Name /\ normalizeString(k) = k
          BY <3>4, FixedNames
        <4> QED
          BY <3>2, <4>1, <4>2, IdentityPaths, NormalCons
      <3> QED
        BY <3>5, <3>6
    <2> QED
      BY <2>1, <2>2
  <1> QED
    BY <1>1, <1>5, <1>6

(* So canonicalization gives the members of the record back.               *)
LEMMA WireAgain ==
  ASSUME NEW c, Parts(c), SettledParts(c), NEW late, NEW m, OnWire(m, c),
         m = Members(SerializeCER(c)), NEW m2, m2 = CanonicalizeFields(SerializeCER(c), late)
  PROVE  /\ Plain(m2) /\ DOMAIN m2 = DOMAIN m
         /\ \A k \in DOMAIN m : k # "identity" => m2[k] = m[k]
  <1> DEFINE w == SerializeCER(c)
             e == Fields(w, late)
  <1>1. /\ Doc(w) /\ NoGo(w) /\ \A p \in DOMAIN w : normalizePath(p) = p
        /\ \A k \in Keys(w) : k # "identity" => \A q \in DOMAIN At(w, k) :
             Settled(Cons(k, q), w[Cons(k, q)])
    BY WireSettled
  <1>2. DOMAIN e = DOMAIN w /\ \A p \in DOMAIN w : Settled(p, w[p]) => e[p] = w[p]
    BY <1>1, SettledStays
  <1>3. Doc(e) /\ m2 = Members(e) /\ Plain(m2)
    BY <1>1, FieldsSettled, FieldsPlain DEF CanonicalizeFields, Fields
  <1> HIDE DEF w, e
  <1>4. Keys(e) = Keys(w)
    BY <1>2 DEF Keys
  <1>5. /\ DOMAIN m = Keys(w) /\ \A k \in Keys(w) : m[k] = At(w, k)
        /\ DOMAIN m2 = Keys(e) /\ \A k \in Keys(e) : m2[k] = At(e, k)
    BY <1>1, <1>3, MembersIs DEF w
  <1>6. ASSUME NEW k \in Keys(w), k # "identity" PROVE At(e, k) = At(w, k)
    <2>1. /\ Doc(At(e, k)) /\ Doc(At(w, k))
          /\ \A q : q \in DOMAIN At(e, k) <=> q \in Seq(Name) /\ Cons(k, q) \in DOMAIN e
          /\ \A q : q \in DOMAIN At(w, k) <=> q \in Seq(Name) /\ Cons(k, q) \in DOMAIN w
          /\ \A q \in DOMAIN At(e, k) : At(e, k)[q] = e[Cons(k, q)]
          /\ \A q \in DOMAIN At(w, k) : At(w, k)[q] = w[Cons(k, q)]
      <3>1. k \in Keys(e)
        BY <1>4
      <3>2. /\ Doc(At(e, k))
            /\ \A q : q \in DOMAIN At(e, k) <=> q \in Seq(Name) /\ Cons(k, q) \in DOMAIN e
            /\ \A q \in DOMAIN At(e, k) : At(e, k)[q] = e[Cons(k, q)]
        BY <1>3, <3>1, AtIs
      <3>3. /\ Doc(At(w, k))
            /\ \A q : q \in DOMAIN At(w, k) <=> q \in Seq(Name) /\ Cons(k, q) \in DOMAIN w
            /\ \A q \in DOMAIN At(w, k) : At(w, k)[q] = w[Cons(k, q)]
        BY <1>1, AtIs
      <3> QED
        BY <3>2, <3>3
    <2>2. DOMAIN At(e, k) = DOMAIN At(w, k)
      BY <1>2, <2>1
    <2>3. ASSUME NEW q \in DOMAIN At(w, k) PROVE At(e, k)[q] = At(w, k)[q]
      <3>1. Settled(Cons(k, q), w[Cons(k, q)]) /\ Cons(k, q) \in DOMAIN w
        BY <1>1, <1>6, <2>1
      <3>2. e[Cons(k, q)] = w[Cons(k, q)]
        BY <1>2, <3>1
      <3> QED
        BY <2>1, <2>2, <3>2
    <2> QED
      BY <2>1, <2>2, <2>3, DocEqual
  <1> QED
    BY <1>3, <1>4, <1>5, <1>6

(* The second run of a record: it is accepted, and has the parts it had.   *)
LEMMA TimeIsNotZero ==
  ASSUME NEW m, NEW now, now # 0
  PROVE  Stamp(m, now) # 0
  BY DEF Stamp

LEMMA OverTwice ==
  ASSUME NEW f, NEW g
  PROVE  /\ Over(f, Over(f, g)) = Over(f, g)
         /\ Over(Over(f, g), f) = Over(f, g)
         /\ Over(Over(f, g), g) = Over(f, g)
  BY DEF Over

LEMMA CausalityTwice ==
  ASSUME NEW m, NEW m2, Nested(m2, "causality"),
         getMap(m2, "causality") = normalizeCausality(m)
  PROVE  normalizeCausality(m2) = normalizeCausality(m)
  <1> DEFINE always == [ordered |-> Bool(TRUE), parent_event_ids |-> Arr(<<>>)]
             absent == [causal_chain_id |-> Str(""), trace_depth |-> Num(0)]
  <1>1. /\ normalizeCausality(m) = IF Nested(m, "causality")
                                   THEN Over(getMap(m, "causality"), always)
                                   ELSE Over(always, absent)
        /\ normalizeCausality(m2) = Over(getMap(m2, "causality"), always)
    BY DEF normalizeCausality
  <1> HIDE DEF always, absent
  <1> QED
    BY <1>1, OverTwice

LEMMA StructuralWire ==
  ASSUME NEW c, Parts(c), c.ccnf_version = CurrentCCNFVersion
  PROVE  /\ StructuralParse(SerializeCER(c))
         /\ checkEmbeddedVersion(Members(SerializeCER(c)), CurrentCCNFVersion)
  <1>1. PICK m : m = Members(SerializeCER(c))
    OBVIOUS
  <1>2. OnWire(m, c)
    BY <1>1, WireMembers
  <1>3. m["ccnf_version"] = Num(CurrentCCNFVersion)
    BY <1>2 DEF OnWire
  <1>4. Content(m["ccnf_version"]) = CurrentCCNFVersion
    BY <1>3, EncodedLeaves
  <1>5. checkEmbeddedVersion(m, CurrentCCNFVersion)
    BY <1>4 DEF checkEmbeddedVersion
  <1>6. SerializeCER(c) = Obj(Each(Wire(c))) /\ Object(Each(Wire(c))) /\ Doc(SerializeCER(c))
    BY WireIs
  <1>7. Kind(SerializeCER(c)) = "object"
    BY <1>6, TreePaths DEF Kind, Obj
  <1>8. Keys(SerializeCER(c)) = WireKeys \cup {"signature"}
    BY <1>1, <1>2, <1>6, MembersIs DEF OnWire
  <1>9. StructuralParse(SerializeCER(c))
    BY <1>7, <1>8 DEF StructuralParse, IsObj, Required, WireKeys
  <1> QED
    BY <1>1, <1>5, <1>9

LEMMA SecondIntent ==
  ASSUME NEW m0, NEW m2, getMap(m2, "intent") = NormalizeIntent(m0)
  PROVE  /\ \A k \in {"action", "target_type", "target_id"} :
              getString(getMap(m2, "intent"), k) = getString(getMap(m0, "intent"), k)
         /\ NormalizeIntent(m2) = NormalizeIntent(m0)
  <1> DEFINE f == NormalizeIntent(m0)
  <1>1. /\ DOMAIN f = {"type", "action", "target_type", "target_id"}
        /\ \A k \in {"action", "target_type", "target_id"} :
             f[k] = Str(getString(getMap(m0, "intent"), k))
    BY DEF NormalizeIntent
  <1> HIDE DEF f
  <1>2. \A k \in {"action", "target_type", "target_id"} :
          getString(f, k) = getString(getMap(m0, "intent"), k)
    <2> SUFFICES ASSUME NEW k \in {"action", "target_type", "target_id"}
                 PROVE  getString(f, k) = getString(getMap(m0, "intent"), k)
      OBVIOUS
    <2>1. k \in DOMAIN f /\ f[k] = Str(getString(getMap(m0, "intent"), k))
      BY <1>1
    <2>2. Kind(f[k]) = "string" /\ Content(f[k]) = getString(getMap(m0, "intent"), k)
      BY <2>1, StrOne
    <2> QED
      BY <2>1, <2>2 DEF getString, Has
  <1>3. \A k \in {"action", "target_type", "target_id"} :
          getString(getMap(m2, "intent"), k) = getString(getMap(m0, "intent"), k)
    BY <1>2 DEF f
  <1> QED
    BY <1>3, IntentOne

(* The members of the second canonicalization that its stages read.        *)
Again(m2, c) ==
  /\ Plain(m2)
  /\ getString(m2, "event_id") = c.event_id /\ getString(m2, "domain") = c.domain
  /\ Has(m2, "timestamp") /\ m2["timestamp"] = Num(c.timestamp)
  /\ getMap(m2, "actor") = c.actor /\ getMap(m2, "payload") = c.payload
  /\ Nested(m2, "intent") /\ getMap(m2, "intent") = c.intent
  /\ Nested(m2, "causality") /\ getMap(m2, "causality") = c.causality

LEMMA AgainIs ==
  ASSUME NEW c, Parts(c), SettledParts(c), NEW late, NEW m2,
         m2 = CanonicalizeFields(SerializeCER(c), late)
  PROVE  Again(m2, c)
  <1>1. PICK m : m = Members(SerializeCER(c))
    OBVIOUS
  <1>2. OnWire(m, c)
    BY <1>1, WireMembers
  <1>3. /\ Plain(m2) /\ DOMAIN m2 = DOMAIN m
        /\ \A k \in DOMAIN m : k # "identity" => m2[k] = m[k]
    BY <1>1, <1>2, WireAgain
  <1>4. {"event_id", "domain", "timestamp", "actor", "payload", "intent", "causality"}
          \subseteq DOMAIN m
    BY <1>2 DEF OnWire, WireKeys
  <1>5. /\ m2["event_id"] = Str(c.event_id) /\ m2["domain"] = Str(c.domain)
        /\ m2["timestamp"] = Num(c.timestamp)
        /\ m2["actor"] = Obj(c.actor) /\ m2["intent"] = Obj(c.intent)
        /\ m2["causality"] = Obj(c.causality) /\ m2["payload"] = Obj(c.payload)
    BY <1>2, <1>3, <1>4 DEF OnWire
  <1>6. getString(m2, "event_id") = c.event_id /\ getString(m2, "domain") = c.domain
    BY <1>3, <1>4, <1>5, StrOne DEF getString, Has
  <1>7. Has(m2, "timestamp")
    BY <1>3, <1>4 DEF Has
  <1>8. /\ getMap(m2, "actor") = c.actor /\ getMap(m2, "payload") = c.payload
        /\ Nested(m2, "intent") /\ getMap(m2, "intent") = c.intent
        /\ Nested(m2, "causality") /\ getMap(m2, "causality") = c.causality
    BY <1>3, <1>4, <1>5, NestedIs DEF Parts
  <1> QED
    BY <1>3, <1>5, <1>6, <1>7, <1>8 DEF Again

LEMMA SecondStages ==
  ASSUME NEW m0, Plain(m0), IntentOK(m0), checkTargetID(m0), ArtifactsOK(m0), NEW version,
         NEW now, NEW k, k = Core(m0, version, now), NEW m2, Again(m2, k)
  PROVE  /\ IntentOK(m2) /\ checkTargetID(m2) /\ ArtifactsOK(m2)
         /\ NormalizeIntent(m2) = NormalizeIntent(m0) /\ DOMAIN Data(m2) = {}
  <1>1. k.intent = NormalizeIntent(m0) /\ k.payload = buildPayload(WithIntent(m0))
    BY DEF Core
  <1>2. /\ \A x \in {"action", "target_type", "target_id"} :
              getString(getMap(m2, "intent"), x) = getString(getMap(m0, "intent"), x)
        /\ NormalizeIntent(m2) = NormalizeIntent(m0)
    BY <1>1, SecondIntent DEF Again
  <1>3. IntentOK(m2) /\ checkTargetID(m2)
    BY <1>2 DEF IntentOK, checkTargetID, Again
  <1>4. Data(WithIntent(m0)) = Data(m0)
    BY IntentOnly DEF Plain, Object, Data
  <1>5. k.payload = Over(Structured, getMap(WithIntent(m0), "payload"))
    BY <1>1, <1>4, PayloadIs DEF ArtifactsOK
  <1>6. "data" \in DOMAIN k.payload /\ k.payload["data"] = Obj(Empty)
    BY <1>5, StructuredIs DEF Over
  <1>7. Data(m2) = Empty
    BY <1>6, NestedIs, EmptyIs DEF Data, Again, Plain
  <1> QED
    BY <1>2, <1>3, <1>7, EmptyIs DEF ArtifactsOK

LEMMA CoreTwice ==
  ASSUME NEW m0, Plain(m0), IntentOK(m0), checkTargetID(m0), ArtifactsOK(m0),
         NEW version, NEW now, now # 0, NEW k, k = Core(m0, version, now),
         NEW m2, Again(m2, k), NEW now2, NEW k2, k2 = Core(m2, version, now2)
  PROVE  /\ k2.event_id = k.event_id /\ k2.ccnf_version = k.ccnf_version
         /\ k2.domain = k.domain /\ k2.timestamp = k.timestamp /\ k2.actor = k.actor
         /\ k2.intent = k.intent /\ k2.entity_key = k.entity_key
         /\ k2.causality = k.causality /\ k2.payload = k.payload
  <1>1. PICK m : m = WithIntent(m0)
    OBVIOUS
  <1>2. PICK n : n = WithIntent(m2)
    OBVIOUS
  <1>3. /\ k.event_id = getString(m, "event_id") /\ k.ccnf_version = version
        /\ k.domain = getString(m, "domain") /\ k.timestamp = Stamp(m, now)
        /\ k.actor = getMap(m, "actor") /\ k.intent = NormalizeIntent(m0)
        /\ k.entity_key = DeriveIdentity(m)
        /\ k.causality = normalizeCausality(m) /\ k.payload = buildPayload(m)
    BY <1>1 DEF Core
  <1>4. /\ k2.event_id = getString(n, "event_id") /\ k2.ccnf_version = version
        /\ k2.domain = getString(n, "domain") /\ k2.timestamp = Stamp(n, now2)
        /\ k2.actor = getMap(n, "actor") /\ k2.intent = NormalizeIntent(m2)
        /\ k2.entity_key = DeriveIdentity(n)
        /\ k2.causality = normalizeCausality(n) /\ k2.payload = buildPayload(n)
    BY <1>2 DEF Core
  <1>5. m0 = [x \in DOMAIN m0 |-> m0[x]] /\ m2 = [x \in DOMAIN m2 |-> m2[x]] /\ Plain(m2)
    BY DEF Plain, Object, Again
  <1>6. /\ getString(n, "event_id") = getString(m2, "event_id")
        /\ getString(n, "domain") = getString(m2, "domain")
        /\ getMap(n, "actor") = getMap(m2, "actor")
        /\ getMap(n, "payload") = getMap(m2, "payload")
        /\ getMap(n, "causality") = getMap(m2, "causality")
        /\ Nested(n, "causality") <=> Nested(m2, "causality")
    BY <1>2, <1>5, IntentOnly
  <1>7. k2.event_id = k.event_id /\ k2.domain = k.domain /\ k2.actor = k.actor
    BY <1>4, <1>6 DEF Again
  <1>8. NormalizeIntent(m2) = NormalizeIntent(m0) /\ DOMAIN Data(m2) = {} /\ IntentOK(m2)
    BY SecondStages
  <1>9. k2.timestamp = k.timestamp
    <2>1. k.timestamp # 0
      BY <1>3, TimeIsNotZero
    <2>2. Has(m2, "timestamp") /\ m2["timestamp"] = Num(k.timestamp)
      BY DEF Again
    <2>3. Kind(Num(k.timestamp)) = "number" /\ Content(Num(k.timestamp)) = k.timestamp
      BY LeafIs DEF Num, Kind, Content
    <2>4. parseTimestamp(m2) = k.timestamp
      BY <2>2, <2>3 DEF parseTimestamp
    <2>5. Stamp(n, now2) = Stamp(m2, now2)
      BY <1>2, <1>5, DateOnly
    <2> QED
      BY <1>4, <2>1, <2>4, <2>5 DEF Stamp
  <1>10. k2.entity_key = k.entity_key
    <2>1. DeriveIdentity(m) = KeyOf(getString(m0, "domain"), NormalizeIntent(m0), getMap(m0, "actor"))
      BY <1>1, KeyIs DEF IntentOK
    <2>2. DeriveIdentity(n) = KeyOf(getString(m2, "domain"), NormalizeIntent(m2), getMap(m2, "actor"))
      BY <1>2, <1>5, <1>8, KeyIs DEF IntentOK
    <2>3. getString(m, "domain") = getString(m0, "domain") /\ getMap(m, "actor") = getMap(m0, "actor")
      BY <1>1, <1>5, IntentOnly
    <2> QED
      BY <1>3, <1>4, <1>6, <1>7, <1>8, <2>1, <2>2, <2>3
  <1>11. k2.causality = k.causality
    <2>1. Nested(n, "causality") /\ getMap(n, "causality") = normalizeCausality(m)
      BY <1>3, <1>6 DEF Again
    <2> QED
      BY <1>3, <1>4, <2>1, CausalityTwice
  <1>12. k2.payload = k.payload
    <2>1. Data(m) = Data(m0)
      BY <1>1, <1>5, IntentOnly DEF Data
    <2>2. k.payload = Over(Structured, getMap(m, "payload"))
      BY <1>3, <2>1, PayloadIs DEF ArtifactsOK
    <2>3. Data(n) = Data(m2)
      BY <1>6 DEF Data
    <2>4. k2.payload = Over(Structured, getMap(n, "payload"))
      BY <1>4, <1>8, <2>3, PayloadIs
    <2>5. getMap(n, "payload") = k.payload
      BY <1>6 DEF Again
    <2> QED
      BY <2>2, <2>4, <2>5, OverTwice
  <1> QED
    BY <1>3, <1>4, <1>7, <1>8, <1>9, <1>10, <1>11, <1>12

Dates(now) == now # 0

(* An accepted run of a record serialized by an accepted run.              *)
LEMMA RunTwice ==
  ASSUME NEW v, Doc(v), NoGo(v), NEW version, version = CurrentCCNFVersion, NEW now, Dates(now), NEW late,
         NEW x, x = Run(v, version, now, late), Accepts(x), NEW c, c = x.cer,
         NEW now2, NEW late2,
         NEW r, r = Run(SerializeCER(c), version, now2, late2)
  PROVE  /\ Accepts(r)
         /\ r.cer.signature = c.signature /\ r.cer.entity_key = c.entity_key
  <1>1. PICK m0 : m0 = CanonicalizeFields(v, late)
    OBVIOUS
  <1>2. /\ Plain(m0) /\ c = Signed(Core(m0, version, now)) /\ Record(c)
        /\ IntentOK(m0) /\ checkTargetID(m0) /\ ArtifactsOK(m0)
    BY <1>1, Accepted
  <1>3. Settling(m0)
    BY <1>1, FieldsSettling
  <1>4. PICK k : k = Core(m0, version, now)
    OBVIOUS
  <1>5. /\ c.event_id = k.event_id /\ c.ccnf_version = version
        /\ c.domain = k.domain /\ c.timestamp = k.timestamp
        /\ c.actor = k.actor /\ c.intent = k.intent /\ c.entity_key = k.entity_key
        /\ c.causality = k.causality /\ c.payload = k.payload
        /\ c.signature = ComputeHash(c)
    BY <1>2, <1>4, SignedIs
  <1>6. SettledParts(c)
    BY <1>2, <1>3, <1>4, <1>5, CoreSettles DEF SettledParts
  <1>7. PICK m2 : m2 = CanonicalizeFields(SerializeCER(c), late2)
    OBVIOUS
  <1>8. Parts(c)
    BY <1>2 DEF Record
  <1>9. Again(m2, c)
    BY <1>6, <1>7, <1>8, AgainIs
  <1>10. Again(m2, k)
    BY <1>5, <1>9 DEF Again
  <1>11. IntentOK(m2) /\ checkTargetID(m2) /\ ArtifactsOK(m2)
    BY <1>2, <1>4, <1>10, SecondStages
  <1>12. /\ StructuralParse(SerializeCER(c))
         /\ checkEmbeddedVersion(Members(SerializeCER(c)), version)
    BY <1>2, <1>5, <1>8, StructuralWire
  <1>13. Passes(SerializeCER(c), m2, version)
    BY <1>11, <1>12 DEF Passes, RunError
  <1>14. Accepts(r)
    BY <1>7, <1>13, AcceptsIs
  <1>15. PICK c2 : c2 = r.cer
    OBVIOUS
  <1>16. Doc(SerializeCER(c)) /\ NoGo(SerializeCER(c))
    BY <1>8, WireIs
  <1>17. c2 = Signed(Core(m2, version, now2)) /\ Record(c2)
    BY <1>7, <1>14, <1>15, <1>16, Accepted
  <1>18. PICK k2 : k2 = Core(m2, version, now2)
    OBVIOUS
  <1>19. /\ c2.event_id = k2.event_id /\ c2.ccnf_version = version
         /\ c2.domain = k2.domain /\ c2.timestamp = k2.timestamp
         /\ c2.actor = k2.actor /\ c2.intent = k2.intent /\ c2.entity_key = k2.entity_key
         /\ c2.causality = k2.causality /\ c2.payload = k2.payload
         /\ c2.signature = ComputeHash(c2)
    BY <1>17, <1>18, SignedIs
  <1>20. /\ k2.event_id = k.event_id
         /\ k2.domain = k.domain /\ k2.timestamp = k.timestamp /\ k2.actor = k.actor
         /\ k2.intent = k.intent /\ k2.entity_key = k.entity_key
         /\ k2.causality = k.causality /\ k2.payload = k.payload
    BY <1>2, <1>4, <1>10, <1>18, CoreTwice DEF Dates
  <1>21. ComputeHash(c2) = ComputeHash(c)
    BY <1>5, <1>8, <1>17, <1>19, <1>20, SameHash DEF Record
  <1> QED
    BY <1>5, <1>14, <1>15, <1>19, <1>20, <1>21

(* RecompileKeepsHash: the pipeline accepts its own records, at any later  *)
(* time and on any host, and gives them the hash and the key they had.     *)
THEOREM RecordsRunAgain == Spec => []RecompileKeepsHash
  <1>1. ASSUME HostInv PROVE RecompileKeepsHash
    <2> SUFFICES ASSUME NEW a \in runs, NEW b \in runs, Accepts(a.result),
                        b.raw = SerializeCER(a.result.cer), b.version = CurrentCCNFVersion
                 PROVE  /\ Accepts(b.result)
                        /\ b.result.cer.signature = a.result.cer.signature
                        /\ b.result.cer.entity_key = a.result.cer.entity_key
      BY DEF RecompileKeepsHash, Accepts
    <2>1. Doc(a.raw) /\ NoGo(a.raw) /\ RunAt(a) /\ RunAt(b)
      BY <1>1 DEF HostInv
    <2>2. PICK now, late : Dates(now) /\ a.result = Run(a.raw, a.version, now, late)
      BY <1>1, <2>1 DEF RunAt, HostInv, Dates
    <2>3. PICK now2, late2 : b.result = Run(b.raw, b.version, now2, late2)
      BY <2>1 DEF RunAt
    <2>4. Dates(now)
      BY <2>2
    <2>5. PICK v, version : v = a.raw /\ version = a.version
      OBVIOUS
    <2>6. PICK x, c : x = Run(v, version, now, late) /\ c = x.cer
      OBVIOUS
    <2>7. PICK r : r = Run(SerializeCER(c), version, now2, late2)
      OBVIOUS
    <2>8. Doc(v) /\ NoGo(v) /\ Accepts(x)
      BY <2>1, <2>2, <2>5, <2>6
    <2>9. version = CurrentCCNFVersion
      BY <2>2, <2>5, <2>6, <2>8, Accepted
    <2>10. a.result.cer = c /\ b.result = r
      BY <2>2, <2>3, <2>5, <2>6, <2>7, <2>9
    <2>11. /\ Accepts(r)
           /\ r.cer.signature = c.signature /\ r.cer.entity_key = c.entity_key
      BY <2>4, <2>6, <2>7, <2>8, <2>9, RunTwice
    <2> QED
      BY <2>10, <2>11
  <1> QED
    BY <1>1, HostInvariant, PTL

-----------------------------------------------------------------------------
(* The conformance runner.  What one input of a dated file adds to the     *)
(* count says whether what the file claims of that input holds.            *)
Good(f, l) ==
  LET r == Run(f.inputs[l], f.version, 1, {})
  IN \/ f.error # "" /\ r.error = f.error
     \/ /\ f.error = "" /\ r.error = ""
        /\ Mismatches(f, l, r.cer) = {}

LEMMA MismatchesFinite ==
  ASSUME NEW f, NEW l, NEW c
  PROVE  /\ Cardinality(Mismatches(f, l, c)) \in Nat
         /\ Cardinality(Mismatches(f, l, c)) = 0 <=> Mismatches(f, l, c) = {}
  <1>1. Mismatches(f, l, c) \subseteq {"entity_key", "canonical_hash"}
    BY DEF Mismatches
  <1>2. IsFiniteSet({"entity_key", "canonical_hash"})
    <2>1. {"entity_key", "canonical_hash"} = {"entity_key"} \cup {"canonical_hash"}
      OBVIOUS
    <2>2. IsFiniteSet({"entity_key"}) /\ IsFiniteSet({"canonical_hash"})
      BY FS_Singleton
    <2> QED
      BY <2>1, <2>2, FS_Union
  <1>3. IsFiniteSet(Mismatches(f, l, c))
    BY <1>1, <1>2, FS_Subset
  <1> QED
    BY <1>3, FS_CardinalityType, FS_EmptySet

LEMMA FailuresCount ==
  ASSUME NEW f, NEW l, NEW r
  PROVE  Failures(f, l, r) \in Nat
  BY MismatchesFinite DEF Failures

Expects(f) == f.error # ""
Same(f, r) == r.error = f.error

LEMMA FailuresIs ==
  ASSUME NEW f, NEW l, NEW r
  PROVE  /\ Expects(f) /\ Same(f, r) => Failures(f, l, r) = 0
         /\ Expects(f) /\ ~Same(f, r) => Failures(f, l, r) = 1
         /\ ~Expects(f) /\ ~Accepts(r) => Failures(f, l, r) = 1
         /\ ~Expects(f) /\ Accepts(r)
              => Failures(f, l, r) = Cardinality(Mismatches(f, l, r.cer))
  BY DEF Failures, Expects, Same, Accepts

LEMMA GoodIs ==
  ASSUME NEW f, NEW l, NEW r, r = Run(f.inputs[l], f.version, 1, {})
  PROVE  Good(f, l) <=> \/ Expects(f) /\ Same(f, r)
                        \/ ~Expects(f) /\ Accepts(r) /\ Mismatches(f, l, r.cer) = {}
  BY DEF Good, Expects, Same, Accepts

LEMMA RunSame ==
  ASSUME NEW v, Distinct(v), NEW version, NEW now, NEW late, NEW now2, NEW late2,
         NEW r, r = Run(v, version, now, late), NEW s, s = Run(v, version, now2, late2)
  PROVE  /\ Accepts(r) <=> Accepts(s)
         /\ \A f : Same(f, r) <=> Same(f, s)
         /\ Stamped(v) => r = s
  <1>1. r.error = s.error /\ (Stamped(v) => r = s)
    BY RunIsFunction
  <1> QED
    BY <1>1 DEF Accepts, Same

LEMMA FailuresDecide ==
  ASSUME NEW f, Dated(f), NEW l \in DOMAIN f.inputs, NEW now, NEW late
  PROVE  Failures(f, l, Run(f.inputs[l], f.version, now, late)) = 0 <=> Good(f, l)
  <1>1. Distinct(f.inputs[l]) /\ (Expects(f) \/ Stamped(f.inputs[l]))
    BY DEF Dated, Expects
  <1>2. PICK v, w, n : v = f.inputs[l] /\ w = f.version /\ n = 1
    OBVIOUS
  <1>3. PICK r, s : r = Run(v, w, now, late) /\ s = Run(v, w, n, {})
    OBVIOUS
  <1>4. (Accepts(r) <=> Accepts(s)) /\ (Same(f, r) <=> Same(f, s)) /\ (Stamped(v) => r = s)
    BY <1>1, <1>2, <1>3, RunSame
  <1>5. Good(f, l) <=> \/ Expects(f) /\ Same(f, s)
                       \/ ~Expects(f) /\ Accepts(s) /\ Mismatches(f, l, s.cer) = {}
    BY <1>2, <1>3, GoodIs
  <1>6. Failures(f, l, r) = 0 <=> Good(f, l)
    <2>1. CASE Expects(f)
      BY <1>4, <1>5, <2>1, FailuresIs
    <2>2. CASE ~Expects(f)
      <3>1. r = s
        BY <1>1, <1>2, <1>4, <2>2
      <3>2. CASE ~Accepts(s)
        BY <1>5, <2>2, <3>1, <3>2, FailuresIs
      <3>3. CASE Accepts(s)
        BY <1>5, <2>2, <3>1, <3>3, FailuresIs, MismatchesFinite
      <3> QED
        BY <3>2, <3>3
    <2> QED
      BY <2>1, <2>2
  <1> QED
    BY <1>2, <1>3, <1>6

LEMMA HoldsIs ==
  ASSUME NEW f
  PROVE  Holds(f) <=> /\ f.readable /\ DOMAIN f.inputs # {}
                      /\ \A l \in DOMAIN f.inputs : Good(f, l)
  BY DEF Holds, Good

(* The labels of a file, each once, are those of its inputs.               *)
Left(s) == {s[i] : i \in 1..Len(s)}
Once(s) == \A i, j \in 1..Len(s) : s[i] = s[j] => i = j

LEMMA LeftIs ==
  ASSUME NEW s \in Seq(Labels), Once(s), s # <<>>
  PROVE  /\ Head(s) \in Left(s) /\ Tail(s) \in Seq(Labels) /\ Once(Tail(s))
         /\ Left(Tail(s)) = Left(s) \ {Head(s)}
  <1>1. /\ Len(s) \in Nat /\ Len(s) # 0 /\ Head(s) = s[1] /\ Tail(s) \in Seq(Labels)
        /\ Len(Tail(s)) = Len(s) - 1 /\ \A i \in 1..Len(Tail(s)) : Tail(s)[i] = s[i + 1]
    BY HeadTailProperties
  <1>2. Head(s) \in Left(s)
    BY <1>1 DEF Left
  <1>3. Once(Tail(s))
    BY <1>1 DEF Once
  <1>4. ASSUME NEW x \in Left(Tail(s)) PROVE x \in Left(s) \ {Head(s)}
    <2>1. PICK i \in 1..Len(Tail(s)) : x = Tail(s)[i]
      BY DEF Left
    <2>2. i + 1 \in 1..Len(s) /\ x = s[i + 1] /\ i + 1 # 1 /\ 1 \in 1..Len(s)
      BY <1>1, <2>1
    <2> QED
      BY <1>1, <2>2 DEF Left, Once
  <1>5. ASSUME NEW x \in Left(s) \ {Head(s)} PROVE x \in Left(Tail(s))
    <2>1. PICK i \in 1..Len(s) : x = s[i]
      BY DEF Left
    <2>2. i # 1
      BY <1>1, <2>1
    <2>3. i - 1 \in 1..Len(Tail(s)) /\ (i - 1) + 1 = i
      BY <1>1, <2>2
    <2>4. Tail(s)[i - 1] = s[(i - 1) + 1]
      BY <1>1, <2>3
    <2> QED
      BY <2>1, <2>3, <2>4 DEF Left
  <1> QED
    BY <1>1, <1>2, <1>3, <1>4, <1>5

LEMMA ThreeAtMost ==
  ASSUME NEW S, NEW x \in S, NEW y \in S, NEW z \in S, x # y, x # z, y # z,
         NEW a \in Seq(S), NEW b \in Seq(S), NEW c \in Seq(S),
         Len(a) \in 0..1, Len(b) \in 0..1, Len(c) \in 0..1,
         \A i \in 1..Len(a) : a[i] = x, \A i \in 1..Len(b) : b[i] = y,
         \A i \in 1..Len(c) : c[i] = z
  PROVE  LET g == a \o b \o c
         IN /\ g \in Seq(S) /\ Once(g)
            /\ \A u : u \in Left(g) <=> \/ u = x /\ Len(a) = 1
                                        \/ u = y /\ Len(b) = 1
                                        \/ u = z /\ Len(c) = 1
  <1> DEFINE g == a \o b \o c
  <1>2. /\ g \in Seq(S) /\ Len(g) = Len(a) + Len(b) + Len(c)
        /\ \A i \in 1..Len(a) : g[i] = x
        /\ \A i \in (Len(a) + 1)..(Len(a) + Len(b)) : g[i] = y
        /\ \A i \in (Len(a) + Len(b) + 1)..(Len(a) + Len(b) + Len(c)) : g[i] = z
    OBVIOUS
  <1> HIDE DEF g
  <1>1. ASSUME NEW i \in 1..Len(g)
        PROVE  \/ g[i] = x /\ Len(a) = 1 /\ i = 1
               \/ g[i] = y /\ Len(b) = 1 /\ i = Len(a) + 1
               \/ g[i] = z /\ Len(c) = 1 /\ i = Len(a) + Len(b) + 1
    <2>1. PICK la \in 0..1, lb \in 0..1, lc \in 0..1 :
            la = Len(a) /\ lb = Len(b) /\ lc = Len(c)
      OBVIOUS
    <2>2. i \in Int /\ i >= 1 /\ i <= la + lb + lc
      BY <1>2, <2>1
    <2>3. CASE i <= la
      <3>1. la = 1 /\ i \in 1..Len(a) /\ i = 1
        BY <2>1, <2>2, <2>3
      <3> QED
        BY <1>2, <2>1, <3>1
    <2>4. CASE i > la /\ i <= la + lb
      <3>1. lb = 1 /\ i = la + 1
        BY <2>2, <2>4
      <3>2. i \in (Len(a) + 1)..(Len(a) + Len(b))
        BY <2>1, <2>2, <3>1
      <3>3. g[i] = y
        BY <1>2, <3>2
      <3> QED
        BY <2>1, <3>1, <3>3
    <2>5. CASE i > la + lb
      <3>1. lc = 1 /\ i = la + lb + 1
        BY <2>2, <2>5
      <3>2. i \in (Len(a) + Len(b) + 1)..(Len(a) + Len(b) + Len(c))
        BY <2>1, <3>1
      <3>3. g[i] = z
        BY <1>2, <3>2
      <3> QED
        BY <2>1, <3>1, <3>3
    <2>6. i <= la \/ (i > la /\ i <= la + lb) \/ i > la + lb
      BY <2>2
    <2> QED
      BY Zenon, <2>3, <2>4, <2>5, <2>6
  <1>3. Once(g)
    BY <1>1 DEF Once
  <1>4. ASSUME NEW u, u \in Left(g)
        PROVE  \/ u = x /\ Len(a) = 1
               \/ u = y /\ Len(b) = 1
               \/ u = z /\ Len(c) = 1
    <2>1. PICK i \in 1..Len(g) : u = g[i]
      BY <1>4 DEF Left
    <2> QED
      BY <1>1, <2>1
  <1>5. Len(a) = 1 => x \in Left(g)
    <2>1. Len(a) = 1 => 1 \in 1..Len(g) /\ g[1] = x
      BY <1>2
    <2> QED
      BY <2>1 DEF Left
  <1>6. Len(b) = 1 => y \in Left(g)
    <2>1. Len(b) = 1 => Len(a) + 1 \in 1..Len(g) /\ g[Len(a) + 1] = y
      BY <1>2
    <2> QED
      BY <2>1 DEF Left
  <1>7. Len(c) = 1 => z \in Left(g)
    <2>1. Len(c) = 1 => Len(g) \in 1..Len(g) /\ g[Len(g)] = z
      BY <1>2
    <2> QED
      BY <2>1 DEF Left
  <1> QED
    BY <1>2, <1>3, <1>4, <1>5, <1>6, <1>7 DEF g

LEMMA GivenIs ==
  ASSUME NEW f, DOMAIN f.inputs \subseteq Labels
  PROVE  /\ Given(f) \in Seq(Labels) /\ Once(Given(f)) /\ Left(Given(f)) = DOMAIN f.inputs
         /\ Given(f) = <<>> <=> DOMAIN f.inputs = {}
  <1> DEFINE only(l) == IF l \in DOMAIN f.inputs THEN <<l>> ELSE <<>>
  <1>1. Given(f) = only("input") \o only("input_a") \o only("input_b")
    BY DEF Given
  <1>2. /\ Given(f) \in Seq(Labels) /\ Once(Given(f))
        /\ \A x : x \in Left(Given(f)) <=> x \in DOMAIN f.inputs
    <2>1. PICK x \in Labels, y \in Labels, z \in Labels :
            x = "input" /\ y = "input_a" /\ z = "input_b" /\ x # y /\ x # z /\ y # z
      BY DEF Labels
    <2>2. ASSUME NEW l \in Labels
          PROVE  /\ only(l) \in Seq(Labels) /\ Len(only(l)) \in 0..1
                 /\ Len(only(l)) = 1 <=> l \in DOMAIN f.inputs
                 /\ \A i \in 1..Len(only(l)) : only(l)[i] = l
      OBVIOUS
    <2>3. \A u \in DOMAIN f.inputs : u = x \/ u = y \/ u = z
      BY <2>1 DEF Labels
    <2>4. Given(f) = only(x) \o only(y) \o only(z)
      BY <1>1, <2>1
    <2> HIDE DEF only
    <2>5. PICK a \in Seq(Labels), b \in Seq(Labels), c \in Seq(Labels) :
            a = only(x) /\ b = only(y) /\ c = only(z)
      BY <2>2
    <2>6. /\ Given(f) \in Seq(Labels) /\ Once(Given(f))
          /\ \A u : u \in Left(Given(f)) <=> \/ u = x /\ Len(a) = 1
                                             \/ u = y /\ Len(b) = 1
                                             \/ u = z /\ Len(c) = 1
      <3>1. /\ Len(a) \in 0..1 /\ \A i \in 1..Len(a) : a[i] = x
            /\ Len(b) \in 0..1 /\ \A i \in 1..Len(b) : b[i] = y
            /\ Len(c) \in 0..1 /\ \A i \in 1..Len(c) : c[i] = z
        BY <2>2, <2>5
      <3>2. Given(f) = a \o b \o c
        BY <2>4, <2>5
      <3>3. x # y /\ x # z /\ y # z
        BY <2>1
      <3>4. LET g == a \o b \o c
            IN /\ g \in Seq(Labels) /\ Once(g)
               /\ \A u : u \in Left(g) <=> \/ u = x /\ Len(a) = 1
                                           \/ u = y /\ Len(b) = 1
                                           \/ u = z /\ Len(c) = 1
        BY <3>1, <3>3, ThreeAtMost
      <3> QED
        BY <3>2, <3>4
    <2> QED
      BY <2>2, <2>3, <2>5, <2>6
  <1>3. Left(Given(f)) = DOMAIN f.inputs
    BY <1>2
  <1>4. Given(f) = <<>> <=> Left(Given(f)) = {}
    <2>1. Left(<<>>) = {}
      BY DEF Left
    <2>2. ASSUME Given(f) # <<>> PROVE Left(Given(f)) # {}
      BY <1>2, <2>2, LeftIs
    <2> QED
      BY <2>1, <2>2
  <1> QED
    BY <1>2, <1>3, <1>4

(* The runner between two files and within one, r being what it has kept   *)
(* and s the directory: the count of failures is zero as long as no file   *)
(* failed, each file done has its verdict, and the flag of the open file   *)
(* is that of the inputs already run.                                      *)
Runners == [file : Nat, labels : Seq(Labels), ok : BOOLEAN, passed : SUBSET Nat,
            failed : Nat, exit : {"none", "0", "1"}]

Suited(s) == /\ Len(s) \in Nat /\ DOMAIN s = 1..Len(s)
             /\ \A n \in DOMAIN s : DOMAIN s[n].inputs \subseteq Labels

Fine(r, n) == n \in r.passed \/ (n = r.file /\ r.labels # <<>> /\ r.ok)

Kept(r, s)    == r \in Runners /\ r.file \in 0..Len(s) /\ r.passed \subseteq 1..r.file
Tallied(r)    == r.failed = 0 <=> \A n \in 1..r.file : Fine(r, n)
Halfway(r, s) ==
  r.labels # <<>> =>
    /\ r.file >= 1 /\ r.file \notin r.passed
    /\ s[r.file].readable /\ Once(r.labels) /\ Left(r.labels) \subseteq DOMAIN s[r.file].inputs
    /\ Dated(s[r.file]) => (r.ok <=> \A l \in DOMAIN s[r.file].inputs \ Left(r.labels) :
                                       Good(s[r.file], l))
Judged(r, s) ==
  \A n \in 1..r.file : (Dated(s[n]) /\ (n < r.file \/ r.labels = <<>>))
                         => (n \in r.passed <=> Holds(s[n]))
Exited(r, s) ==
  r.exit # "none" => /\ r.labels = <<>> /\ r.file = Len(s)
                     /\ r.exit = IF r.failed > 0 THEN "1" ELSE "0"

Sound(r, s) == Suited(s) /\ Kept(r, s) /\ Tallied(r) /\ Halfway(r, s) /\ Judged(r, s) /\ Exited(r, s)

LEMMA EmptySuite == Suited(<<>>)
  BY DEF Suited

LEMMA RunnerStarts ==
  ASSUME NEW s, Suited(s)
  PROVE  Sound(NoRun, s)
  <1>1. NoRun \in Runners /\ NoRun.file = 0 /\ NoRun.passed = {} /\ NoRun.labels = <<>>
        /\ NoRun.failed = 0 /\ NoRun.exit = "none"
    BY DEF NoRun, Runners
  <1>2. Kept(NoRun, s)
    BY <1>1 DEF Kept, Suited
  <1>3. Tallied(NoRun) /\ Judged(NoRun, s)
    BY <1>1 DEF Tallied, Judged
  <1>4. Halfway(NoRun, s) /\ Exited(NoRun, s)
    BY <1>1 DEF Halfway, Exited
  <1> QED
    BY <1>2, <1>3, <1>4 DEF Sound

LEMMA NoLabels == \E e : e = <<>> /\ e \in Seq(Labels)
  <1>1. <<>> \in Seq(Labels)
    OBVIOUS
  <1> QED
    BY <1>1

Opened(r, file, ok, failed, labels) ==
  [r EXCEPT !.file = file, !.ok = ok, !.failed = failed, !.labels = labels]

\* A file that has inputs.
LEMMA FileOpens ==
  ASSUME NEW r, NEW s, Sound(r, s), r.labels = <<>>, r.file < Len(s),
         NEW f, f = s[r.file + 1], f.readable, Given(f) # <<>>,
         NEW q \in Runners, q.file = r.file + 1, q.ok = TRUE, q.labels = Given(f),
         q.passed = r.passed, q.failed = r.failed, q.exit = r.exit
  PROVE  Sound(q, s)
  <1>1. /\ r \in Runners /\ r.file \in 0..Len(s) /\ r.passed \subseteq 1..r.file
        /\ Len(s) \in Nat /\ DOMAIN s = 1..Len(s)
    BY DEF Sound, Kept, Suited
  <1>2. r.file \in Nat /\ r.file + 1 \in DOMAIN s /\ r.failed \in Nat
    BY <1>1 DEF Runners
  <1>3. DOMAIN f.inputs \subseteq Labels
    BY <1>2 DEF Sound, Suited
  <1>4. PICK g : g = Given(f)
    OBVIOUS
  <1>5. g \in Seq(Labels) /\ g # <<>> /\ Once(g) /\ Left(g) = DOMAIN f.inputs
    BY <1>3, <1>4, GivenIs
  <1>6. /\ q \in Runners /\ q.file = r.file + 1 /\ q.ok = TRUE /\ q.labels = g
        /\ q.passed = r.passed /\ q.failed = r.failed /\ q.exit = r.exit
    BY <1>4
  <1>7. Kept(q, s)
    BY <1>1, <1>2, <1>6 DEF Kept
  <1>8. Tallied(q)
    <2>1. \A n \in 1..r.file : Fine(q, n) <=> Fine(r, n)
      BY <1>2, <1>6 DEF Fine
    <2>2. Fine(q, r.file + 1)
      BY <1>5, <1>6 DEF Fine
    <2>3. 1..q.file = (1..r.file) \cup {r.file + 1}
      BY <1>2, <1>6
    <2> QED
      BY <1>6, <2>1, <2>2, <2>3 DEF Sound, Tallied
  <1>9. Halfway(q, s)
    <2>1. q.file >= 1 /\ q.file \notin q.passed
      BY <1>1, <1>2, <1>6
    <2>2. \A l \in DOMAIN f.inputs \ Left(g) : Good(f, l)
      BY <1>5
    <2> QED
      BY <1>5, <1>6, <2>1, <2>2 DEF Halfway
  <1>10. Judged(q, s)
    <2> SUFFICES ASSUME NEW n \in 1..q.file, n < q.file, Dated(s[n])
                 PROVE  n \in q.passed <=> Holds(s[n])
      BY <1>5, <1>6 DEF Judged
    <2>1. n \in 1..r.file
      BY <1>2, <1>6
    <2> QED
      BY <1>6, <2>1 DEF Sound, Judged
  <1>11. Exited(q, s)
    <2>1. r.exit = "none"
      BY <1>1 DEF Sound, Exited
    <2> QED
      BY <1>6, <2>1 DEF Exited
  <1> QED
    BY <1>7, <1>8, <1>9, <1>10, <1>11 DEF Sound

\* A file that cannot be read, or has no input.
LEMMA FileFails ==
  ASSUME NEW r, NEW s, Sound(r, s), r.labels = <<>>, r.file < Len(s),
         NEW f, f = s[r.file + 1], ~(f.readable /\ Given(f) # <<>>),
         NEW q \in Runners, q.file = r.file + 1, q.labels = <<>>,
         q.passed = r.passed, q.failed = r.failed + 1, q.exit = r.exit
  PROVE  Sound(q, s)
  <1>1. /\ r \in Runners /\ r.file \in 0..Len(s) /\ r.passed \subseteq 1..r.file
        /\ Len(s) \in Nat /\ DOMAIN s = 1..Len(s)
    BY DEF Sound, Kept, Suited
  <1>2. r.file \in Nat /\ r.file + 1 \in DOMAIN s /\ r.failed \in Nat
    BY <1>1 DEF Runners
  <1>3. DOMAIN f.inputs \subseteq Labels
    BY <1>2 DEF Sound, Suited
  <1>4. ~Holds(f)
    BY <1>3, GivenIs, HoldsIs
  <1>5. PICK e : e = <<>> /\ e \in Seq(Labels)
    BY NoLabels
  <1>6. /\ q \in Runners /\ q.file = r.file + 1 /\ q.labels = e
        /\ q.passed = r.passed /\ q.failed = r.failed + 1 /\ q.exit = r.exit
    BY <1>5
  <1>7. Kept(q, s)
    BY <1>1, <1>2, <1>6 DEF Kept
  <1>8. Tallied(q)
    <2>1. r.file + 1 \notin q.passed
      BY <1>1, <1>2, <1>6
    <2>2. ~Fine(q, r.file + 1)
      BY <1>5, <1>6, <2>1 DEF Fine
    <2>3. r.file + 1 \in 1..q.file /\ q.failed # 0
      BY <1>2, <1>6
    <2> QED
      BY <2>2, <2>3 DEF Tallied
  <1>9. Halfway(q, s)
    BY <1>5, <1>6 DEF Halfway
  <1>10. Judged(q, s)
    <2> SUFFICES ASSUME NEW n \in 1..q.file, Dated(s[n])
                 PROVE  n \in q.passed <=> Holds(s[n])
      BY DEF Judged
    <2>1. CASE n = r.file + 1
      <3>1. n \notin q.passed
        BY <1>1, <1>2, <1>6, <2>1
      <3> QED
        BY <1>4, <2>1, <3>1
    <2>2. CASE n # r.file + 1
      <3>1. n \in 1..r.file
        BY <1>2, <1>6, <2>2
      <3> QED
        BY <1>6, <3>1 DEF Sound, Judged
    <2> QED
      BY <2>1, <2>2
  <1>11. Exited(q, s)
    <2>1. r.exit = "none"
      BY <1>1 DEF Sound, Exited
    <2> QED
      BY <1>6, <2>1 DEF Exited
  <1> QED
    BY <1>7, <1>8, <1>9, <1>10, <1>11 DEF Sound

Ran(r, labels, ok, failed, passed) ==
  [r EXCEPT !.labels = labels, !.ok = ok, !.failed = failed, !.passed = passed]

\* One input of the open file, n being the failures it adds.
LEMMA InputRuns ==
  ASSUME NEW r, NEW s, Sound(r, s), r.labels # <<>>,
         NEW f, f = s[r.file], NEW n \in Nat,
         Dated(f) => (n = 0 <=> Good(f, Head(r.labels))),
         NEW ok \in BOOLEAN, ok <=> r.ok /\ n = 0,
         NEW p, p = IF ok /\ Tail(r.labels) = <<>> THEN r.passed \cup {r.file} ELSE r.passed,
         NEW q \in Runners, q.file = r.file, q.ok = ok, q.labels = Tail(r.labels),
         q.passed = p, q.failed = r.failed + n, q.exit = r.exit
  PROVE  Sound(q, s)
  <1>1. /\ r \in Runners /\ r.file \in 0..Len(s) /\ r.passed \subseteq 1..r.file
        /\ Len(s) \in Nat /\ DOMAIN s = 1..Len(s)
    BY DEF Sound, Kept, Suited
  <1>2. /\ r.file >= 1 /\ r.file \notin r.passed
        /\ f.readable /\ Once(r.labels) /\ Left(r.labels) \subseteq DOMAIN f.inputs
        /\ Dated(f) => (r.ok <=> \A l \in DOMAIN f.inputs \ Left(r.labels) : Good(f, l))
    BY DEF Sound, Halfway
  <1>3. r.file \in Nat /\ r.failed \in Nat /\ r.labels \in Seq(Labels)
        /\ r.passed \in SUBSET Nat
    BY <1>1 DEF Runners
  <1>4. PICK t, l : t = Tail(r.labels) /\ l = Head(r.labels)
    OBVIOUS
  <1>5. /\ l \in Left(r.labels) /\ t \in Seq(Labels) /\ Once(t)
        /\ Left(t) = Left(r.labels) \ {l}
    BY <1>2, <1>3, <1>4, LeftIs
  <1>6. p \in SUBSET Nat /\ p = IF ok /\ t = <<>> THEN r.passed \cup {r.file} ELSE r.passed
    BY <1>3, <1>4
  <1>7. r.failed + n \in Nat
    BY <1>3
  <1>8. /\ q \in Runners /\ q.file = r.file /\ q.ok = ok /\ q.labels = t
        /\ q.passed = p /\ q.failed = r.failed + n /\ q.exit = r.exit
    BY <1>4
  <1>9. Kept(q, s)
    <2>1. p \subseteq 1..r.file
      BY <1>1, <1>2, <1>3, <1>6
    <2> QED
      BY <1>1, <1>8, <2>1 DEF Kept
  <1>10. Tallied(q)
    <2>1. Fine(r, r.file) <=> r.ok
      BY <1>2 DEF Fine
    <2>2. Fine(q, r.file) <=> ok
      BY <1>2, <1>6, <1>8 DEF Fine
    <2>3. \A m \in 1..r.file : m # r.file => (Fine(q, m) <=> Fine(r, m))
      BY <1>6, <1>8 DEF Fine
    <2>4. r.file \in 1..r.file
      BY <1>2, <1>3
    <2>5. q.failed = 0 <=> r.failed = 0 /\ n = 0
      <3>1. q.failed = r.failed + n
        BY <1>8
      <3>2. PICK e \in Nat : e = r.failed
        BY <1>3
      <3>3. e + n = 0 <=> e = 0 /\ n = 0
        OBVIOUS
      <3> QED
        BY <3>1, <3>2, <3>3
    <2>6. r.failed = 0 <=> \A m \in 1..r.file : Fine(r, m)
      BY DEF Sound, Tallied
    <2>7. q.failed = 0 <=> \A m \in 1..r.file : Fine(q, m)
      BY <2>1, <2>2, <2>3, <2>4, <2>5, <2>6
    <2> QED
      BY <1>8, <2>7 DEF Tallied
  <1>11. Dated(f) => (ok <=> \A m \in DOMAIN f.inputs \ Left(t) : Good(f, m))
    BY <1>2, <1>4, <1>5
  <1>12. Halfway(q, s)
    <2> SUFFICES ASSUME t # <<>>
                 PROVE  /\ r.file \notin p /\ Left(t) \subseteq DOMAIN f.inputs
      BY <1>2, <1>5, <1>8, <1>11 DEF Halfway
    <2> QED
      BY <1>2, <1>5, <1>6
  <1>13. Judged(q, s)
    <2> SUFFICES ASSUME NEW m \in 1..r.file, Dated(s[m]), m < r.file \/ t = <<>>
                 PROVE  m \in p <=> Holds(s[m])
      BY <1>8 DEF Judged
    <2>1. CASE m = r.file
      <3>1. t = <<>>
        BY <1>3, <2>1
      <3>2. Left(t) = {}
        BY <3>1 DEF Left
      <3>3. DOMAIN f.inputs # {} /\ (ok <=> \A k \in DOMAIN f.inputs : Good(f, k))
        BY <1>2, <1>5, <1>11, <2>1, <3>2
      <3>4. ok <=> Holds(f)
        BY <1>2, <3>3, HoldsIs
      <3>5. m \in p <=> ok
        BY <1>2, <1>6, <2>1, <3>1
      <3> QED
        BY <2>1, <3>4, <3>5
    <2>2. CASE m # r.file
      <3>1. m < r.file
        BY <1>3, <2>2
      <3>2. m \in r.passed <=> Holds(s[m])
        BY <3>1 DEF Sound, Judged
      <3> QED
        BY <1>6, <2>2, <3>2
    <2> QED
      BY <2>1, <2>2
  <1>14. Exited(q, s)
    <2>1. r.exit = "none"
      BY DEF Sound, Exited
    <2> QED
      BY <1>8, <2>1 DEF Exited
  <1> QED
    BY <1>9, <1>10, <1>12, <1>13, <1>14 DEF Sound

\* The directory is done.
LEMMA RunnerExits ==
  ASSUME NEW r, NEW s, Sound(r, s), r.labels = <<>>, r.file = Len(s),
         NEW q, q = [r EXCEPT !.exit = IF r.failed > 0 THEN "1" ELSE "0"]
  PROVE  Sound(q, s)
  <1>1. /\ r \in Runners /\ r.file \in 0..Len(s) /\ r.passed \subseteq 1..r.file
    BY DEF Sound, Kept
  <1>2. PICK e \in {"none", "0", "1"} : e = IF r.failed > 0 THEN "1" ELSE "0"
    OBVIOUS
  <1>3. /\ q \in Runners /\ q.file = r.file /\ q.ok = r.ok /\ q.labels = r.labels
        /\ q.passed = r.passed /\ q.failed = r.failed /\ q.exit = e
    BY <1>1, <1>2 DEF Runners
  <1>4. Kept(q, s)
    BY <1>1, <1>3 DEF Kept
  <1>5. Tallied(q)
    BY <1>3 DEF Sound, Tallied, Fine
  <1>6. Halfway(q, s) /\ Judged(q, s)
    BY <1>3 DEF Sound, Halfway, Judged
  <1>7. Exited(q, s)
    BY <1>2, <1>3 DEF Exited
  <1> QED
    BY <1>4, <1>5, <1>6, <1>7 DEF Sound

(* The invariant of the runner.                                            *)
THEOREM RunnerInvariant == Spec => []Sound(runner, suite)
  <1>1. Init => Sound(runner, suite)
    <2> SUFFICES ASSUME Init PROVE Sound(runner, suite)
      OBVIOUS
    <2>1. Suited(suite)
      BY HarnessAssumption, EmptySuite DEF Init, Suited
    <2> QED
      BY <2>1, RunnerStarts DEF Init
  <1>2. Sound(runner, suite) /\ [Next]_vars => Sound(runner, suite)'
    <2> SUFFICES ASSUME Sound(runner, suite), [Next]_vars PROVE Sound(runner', suite')
      OBVIOUS
    <2>1. CASE UNCHANGED vars
      BY <2>1 DEF vars
    <2>2. CASE Tick /\ UNCHANGED <<program, test, suite, runner>>
      BY <2>2
    <2>3. CASE program = "hosts" /\ HostNext /\ UNCHANGED <<program, test, suite, runner>>
      BY <2>3
    <2>4. ASSUME NEW input \in Generated, NEW keys \in KeyOrders, NEW late \in Orders,
                 StartTest(input, keys, late)
          PROVE  Sound(runner', suite')
      BY <2>4 DEF StartTest
    <2>5. ASSUME NEW late \in Orders, TryCopy(late)
          PROVE  Sound(runner', suite')
      BY <2>5 DEF TryCopy
    <2>6. ASSUME NEW late \in Orders, RunInput(late)
          PROVE  Sound(runner', suite')
      <3>1. PICK f : f = File
        OBVIOUS
      <3>2. PICK l, n : /\ l = Head(runner.labels)
                        /\ n = Failures(f, l, Run(f.inputs[l], f.version, clock, late))
        OBVIOUS
      <3>3. PICK ok : ok = (runner.ok /\ n = 0)
        OBVIOUS
      <3>4. f = suite[runner.file] /\ runner.labels # <<>> /\ suite' = suite
        BY <2>6, <3>1 DEF File, RunInput
      <3>11. PICK p : p = IF ok /\ Tail(runner.labels) = <<>>
                          THEN runner.passed \cup {runner.file} ELSE runner.passed
        OBVIOUS
      <3>12. PICK failed, labels : failed = runner.failed + n /\ labels = Tail(runner.labels)
        OBVIOUS
      <3>5. runner' = Ran(runner, labels, ok, failed, p)
        BY <2>6, <3>1, <3>2, <3>3, <3>11, <3>12 DEF RunInput, StillOK, Ran
      <3>6. n \in Nat
        BY <3>2, FailuresCount
      <3>7. /\ runner.labels \in Seq(Labels) /\ Once(runner.labels)
            /\ Left(runner.labels) \subseteq DOMAIN f.inputs
        BY <3>4 DEF Sound, Kept, Runners, Halfway
      <3>8. l \in DOMAIN f.inputs
        BY <3>2, <3>4, <3>7, LeftIs
      <3>9. Dated(f) => (n = 0 <=> Good(f, l))
        BY <3>2, <3>8, FailuresDecide
      <3>10. ok \in BOOLEAN /\ (ok <=> runner.ok /\ n = 0)
        BY <3>3
      <3>13. /\ runner \in Runners /\ runner.file \in Nat /\ runner.failed \in Nat
             /\ runner.passed \in SUBSET Nat
        BY DEF Sound, Kept, Runners
      <3>14. failed \in Nat /\ p \in SUBSET Nat
        BY <3>6, <3>11, <3>12, <3>13
      <3>15. labels \in Seq(Labels)
        BY <3>4, <3>7, <3>12, LeftIs
      <3>16. /\ runner' \in Runners /\ runner'.file = runner.file /\ runner'.ok = ok
             /\ runner'.labels = labels /\ runner'.passed = p
             /\ runner'.failed = failed /\ runner'.exit = runner.exit
        BY <3>5, <3>10, <3>13, <3>14, <3>15 DEF Ran, Runners
      <3>17. Dated(f) => (n = 0 <=> Good(f, Head(runner.labels)))
        BY <3>2, <3>9
      <3>18. /\ runner'.labels = Tail(runner.labels)
             /\ runner'.failed = runner.failed + n
        BY <3>12, <3>16
      <3>19. Sound(runner', suite)
        BY <3>4, <3>6, <3>10, <3>11, <3>16, <3>17, <3>18, InputRuns
      <3> QED
        BY <3>4, <3>19
    <2>7. CASE Judge
      BY <2>7 DEF Judge
    <2>8. CASE OpenFile
      <3>1. PICK f : f = suite[runner.file + 1]
        OBVIOUS
      <3>2. /\ runner.labels = <<>> /\ runner.file < Len(suite) /\ suite' = suite
        BY <2>8 DEF OpenFile
      <3>5. runner \in Runners /\ runner.file \in Nat /\ runner.failed \in Nat
        BY <3>2 DEF Sound, Kept, Runners
      <3>6. DOMAIN f.inputs \subseteq Labels
        <4>1. runner.file + 1 \in DOMAIN suite
          BY <3>2, <3>5 DEF Sound, Suited
        <4> QED
          BY <3>1, <4>1 DEF Sound, Suited
      <3>3. CASE f.readable /\ Given(f) # <<>>
        <4>1. PICK file, failed, ok, labels :
                /\ file = runner.file + 1 /\ failed = runner.failed /\ ok = TRUE
                /\ labels = Given(f)
          OBVIOUS
        <4>2. runner' = Opened(runner, file, ok, failed, labels)
          BY <2>8, <3>1, <3>3, <4>1 DEF OpenFile, Opened
        <4>3. file \in Nat /\ failed \in Nat /\ ok \in BOOLEAN
          <5>1. file \in Nat /\ failed \in Nat
            BY <3>5, <4>1
          <5>2. ok \in BOOLEAN
            BY <4>1
          <5> QED
            BY <5>1, <5>2
        <4>4. labels \in Seq(Labels)
          BY <3>6, <4>1, GivenIs
        <4>5. /\ runner' \in Runners /\ runner'.file = file /\ runner'.ok = ok
              /\ runner'.labels = labels /\ runner'.passed = runner.passed
              /\ runner'.failed = failed /\ runner'.exit = runner.exit
          BY <3>5, <4>2, <4>3, <4>4 DEF Opened, Runners
        <4> QED
          BY <3>1, <3>2, <3>3, <4>1, <4>5, FileOpens
      <3>4. CASE ~(f.readable /\ Given(f) # <<>>)
        <4>1. PICK file, failed, ok, labels :
                /\ file = runner.file + 1 /\ failed = runner.failed + 1 /\ ok = FALSE
                /\ labels = <<>>
          OBVIOUS
        <4>2. runner' = Opened(runner, file, ok, failed, labels)
          BY <2>8, <3>1, <3>4, <4>1 DEF OpenFile, Opened
        <4>3. file \in Nat /\ failed \in Nat /\ ok \in BOOLEAN
          <5>1. file \in Nat /\ failed \in Nat
            BY <3>5, <4>1
          <5>2. ok \in BOOLEAN
            BY <4>1
          <5> QED
            BY <5>1, <5>2
        <4>4. labels \in Seq(Labels)
          BY <4>1, NoLabels
        <4>5. /\ runner' \in Runners /\ runner'.file = file /\ runner'.ok = ok
              /\ runner'.labels = labels /\ runner'.passed = runner.passed
              /\ runner'.failed = failed /\ runner'.exit = runner.exit
          BY <3>5, <4>2, <4>3, <4>4 DEF Opened, Runners
        <4> QED
          BY <3>1, <3>2, <3>4, <4>1, <4>5, FileFails
      <3> QED
        BY <3>3, <3>4
    <2>9. CASE Exit
      BY <2>9, RunnerExits DEF Exit
    <2> QED
      BY <2>1, <2>2, <2>3, <2>4, <2>5, <2>6, <2>7, <2>8, <2>9 DEF Next
  <1> QED
    BY <1>1, <1>2, PTL DEF Spec

(* VectorsDecide: the exit code says whether every file passed, and a file *)
(* whose inputs are dated passes exactly if its claims hold.               *)
THEOREM ExitCodeDecides == Spec => []VectorsDecide
  <1>1. ASSUME Sound(runner, suite) PROVE VectorsDecide
    <2> SUFFICES ASSUME runner.exit # "none"
                 PROVE  /\ runner.exit = "0" <=> runner.passed = DOMAIN suite
                        /\ \A n \in DOMAIN suite :
                             Dated(suite[n]) => (n \in runner.passed <=> Holds(suite[n]))
      BY DEF VectorsDecide
    <2>1. /\ runner.labels = <<>> /\ runner.file = Len(suite)
          /\ runner.exit = IF runner.failed > 0 THEN "1" ELSE "0"
      BY <1>1 DEF Sound, Exited
    <2>2. /\ DOMAIN suite = 1..runner.file /\ runner.passed \subseteq 1..runner.file
          /\ runner.failed \in Nat
      BY <1>1, <2>1 DEF Sound, Suited, Kept, Runners
    <2>3. runner.failed = 0 <=> \A n \in 1..runner.file : n \in runner.passed
      BY <1>1, <2>1 DEF Sound, Tallied, Fine
    <2>4. runner.exit = "0" <=> runner.failed = 0
      BY <2>1, <2>2
    <2>5. runner.failed = 0 <=> runner.passed = DOMAIN suite
      BY <2>2, <2>3
    <2>6. \A n \in 1..runner.file : Dated(suite[n]) => (n \in runner.passed <=> Holds(suite[n]))
      BY <1>1, <2>1 DEF Sound, Judged
    <2> QED
      BY <2>2, <2>4, <2>5, <2>6
  <1> QED
    BY <1>1, RunnerInvariant, PTL

-----------------------------------------------------------------------------
(* The cross-order test.  A document whose names normalization leaves      *)
(* alone loses none of them, and no two of them normalize alike.           *)
Verbatim(d) == Doc(d) /\ \A p \in DOMAIN d : normalizePath(p) = p

Fair(f) == Object(f) /\ \A k \in DOMAIN f : normalizeString(k) = k /\ Verbatim(f[k])

LEMMA LeafVerbatim ==
  ASSUME NEW x
  PROVE  Verbatim(Leaf(x)) /\ <<"action">> \notin DOMAIN Leaf(x)
  BY LeafIs, EmptyPath DEF Verbatim

LEMMA TreeVerbatim ==
  ASSUME NEW kind, NEW f, Fair(f)
  PROVE  /\ Verbatim(Tree(kind, f))
         /\ <<"action">> \in DOMAIN Tree(kind, f) => "action" \in DOMAIN f
         /\ "action" \in DOMAIN f => <<"action">> \in DOMAIN Tree(kind, f)
  <1>1. PICK t : t = Tree(kind, f)
    OBVIOUS
  <1>2. /\ Doc(t)
        /\ \A p : p \in DOMAIN t <=> \/ p = <<>>
                                     \/ \E k \in DOMAIN f : \E q \in DOMAIN f[k] : p = Cons(k, q)
    BY <1>1, TreePaths DEF Fair
  <1>3. \A k \in DOMAIN f : k \in Name /\ Doc(f[k]) /\ normalizeString(k) = k /\ Verbatim(f[k])
    BY DEF Fair, Object
  <1>4. ASSUME NEW p \in DOMAIN t PROVE normalizePath(p) = p
    <2>1. CASE p = <<>>
      BY <2>1, EmptyPath
    <2>2. CASE p # <<>>
      <3>1. PICK k \in DOMAIN f : \E q \in DOMAIN f[k] : p = Cons(k, q)
        BY <1>2, <2>2
      <3>2. PICK q \in DOMAIN f[k] : p = Cons(k, q)
        BY <3>1
      <3>3. q \in Seq(Name) /\ normalizePath(q) = q
        BY <1>3 DEF Doc, Verbatim
      <3> QED
        BY <1>3, <3>2, <3>3, NormalCons
    <2> QED
      BY <2>1, <2>2
  <1>5. PICK a \in Name : a = "action"
    BY FixedNames DEF Fixed
  <1>6. ASSUME <<a>> \in DOMAIN t PROVE a \in DOMAIN f
    <2>1. <<a>> # <<>> /\ Head(<<a>>) = a
      OBVIOUS
    <2>2. PICK k \in DOMAIN f : \E q \in DOMAIN f[k] : <<a>> = Cons(k, q)
      BY <1>2, <1>6, <2>1
    <2>3. PICK q \in DOMAIN f[k] : <<a>> = Cons(k, q)
      BY <2>2
    <2>4. Head(Cons(k, q)) = k
      BY <1>3, ConsPath DEF Doc
    <2> QED
      BY <2>1, <2>3, <2>4
  <1>7. ASSUME a \in DOMAIN f PROVE <<a>> \in DOMAIN t
    <2>1. <<>> \in DOMAIN f[a] /\ Cons(a, <<>>) = <<a>>
      BY <1>3, <1>7, Single DEF Doc
    <2> QED
      BY <1>2, <1>7, <2>1
  <1>8. Verbatim(t)
    BY <1>2, <1>4 DEF Verbatim
  <1> QED
    BY <1>1, <1>5, <1>6, <1>7, <1>8

(* Run accepts an object with such names only if its intent has an action. *)
LEMMA ActionNeeded ==
  ASSUME NEW g, Fair(g), NEW version, NEW now, NEW late,
         NEW r, r = Run(Obj(g), version, now, late), Accepts(r)
  PROVE  "intent" \in DOMAIN g /\ <<"action">> \in DOMAIN g["intent"]
  <1>1. PICK w, m : w = Fields(Obj(g), late) /\ m = CanonicalizeFields(Obj(g), late)
    OBVIOUS
  <1>2. Verbatim(Obj(g))
    BY TreeVerbatim DEF Obj
  <1>3. m = Members(w)
    BY <1>1 DEF CanonicalizeFields, Fields
  <1>4. DOMAIN w = DOMAIN Obj(g)
    BY <1>1, <1>2, SettledStays DEF Verbatim
  <1>5. Doc(w)
    <2>1. w = [p \in DOMAIN w |-> w[p]]
      BY <1>1 DEF Fields, normalizeAbsentFields
    <2> QED
      BY <1>2, <1>4, <2>1 DEF Verbatim, Doc
  <1>6. IntentOK(m)
    <2>1. Passes(Obj(g), m, version)
      BY <1>1, AcceptsIs
    <2> QED
      BY <2>1 DEF Passes, RunError
  <1>7. PICK i \in Name, a \in Name : i = "intent" /\ a = "action"
    BY FixedNames DEF Fixed
  <1>8. Has(m, i) /\ IsObj(m[i]) /\ getMap(m, i) = Members(m[i]) /\ Has(getMap(m, i), a)
    <2>1. Nested(m, i) /\ getString(getMap(m, i), a) \in controlledVocab
      BY <1>6, <1>7 DEF IntentOK
    <2>2. getString(getMap(m, i), a) # ""
      BY <2>1 DEF controlledVocab
    <2> QED
      BY <2>1, <2>2 DEF Nested, getString, getMap
  <1>9. i \in Keys(w) /\ m[i] = At(w, i)
    BY <1>3, <1>5, <1>8, MembersIs DEF Has
  <1>10. Doc(At(w, i)) /\ \A q : q \in DOMAIN At(w, i) => Cons(i, q) \in DOMAIN w
    BY <1>5, <1>9, AtIs
  <1>11. a \in Keys(At(w, i))
    BY <1>8, <1>9, <1>10, MembersIs DEF Has
  <1>12. <<a>> \in DOMAIN At(w, i)
    BY <1>10, <1>11, AtIs
  <1>13. Cons(i, <<a>>) \in DOMAIN Tree("object", g)
    BY <1>4, <1>10, <1>12 DEF Obj
  <1>14. <<a>> \in Seq(Name) /\ Cons(i, <<a>>) # <<>> /\ Head(Cons(i, <<a>>)) = i
         /\ Tail(Cons(i, <<a>>)) = <<a>>
    <2>1. <<a>> \in Seq(Name)
      OBVIOUS
    <2> QED
      BY <2>1, ConsPath
  <1>15. PICK k \in DOMAIN g : \E q \in DOMAIN g[k] : Cons(i, <<a>>) = Cons(k, q)
    BY <1>13, <1>14, TreePaths DEF Fair
  <1>16. PICK q \in DOMAIN g[k] : Cons(i, <<a>>) = Cons(k, q)
    BY <1>15
  <1>17. Head(Cons(k, q)) = k /\ Tail(Cons(k, q)) = q
    BY ConsPath DEF Fair, Object, Doc
  <1>18. k = i /\ q = <<a>>
    BY <1>14, <1>16, <1>17
  <1> QED
    BY <1>7, <1>16, <1>18

(* The rotations.                                                          *)
LEMMA Turn ==
  ASSUME NEW n \in Nat, n > 0, NEW x \in 1..n, NEW i \in 0..(n - 1)
  PROVE  /\ ((x + i) % n) + 1 \in 1..n
         /\ ((x + i) % n) + 1 = x <=> i + 1 = n
  <1>1. PICK a \in Nat : a = x + i
    OBVIOUS
  <1>2. CASE a < n
    <2>1. a % n = a
      BY <1>2
    <2> QED
      BY <1>1, <1>2, <2>1
  <1>3. CASE a >= n
    <2>1. a < n + n
      BY <1>1
    <2>2. a % n = a - n
      BY <1>3, <2>1
    <2> QED
      BY <1>1, <1>3, <2>1, <2>2
  <1> QED
    BY <1>1, <1>2, <1>3

LEMMA RotatedIs ==
  ASSUME NEW f, Object(f), NEW keys \in Seq(Name), Range(keys) = DOMAIN f, IsInjective(keys),
         NEW i \in Nat, i < Len(keys)
  PROVE  LET g == Rotated(f, keys, i)
         IN /\ g = [k \in DOMAIN g |-> g[k]] /\ DOMAIN g = DOMAIN f
            /\ \A k \in DOMAIN f : \E j \in DOMAIN f :
                 g[k] = f[j] /\ (j = k <=> i + 1 = Len(keys))
            /\ i + 1 = Len(keys) => g = f
  <1>1. PICK n \in Nat : n = Len(keys)
    OBVIOUS
  <1>2. n > 0 /\ i \in 0..(n - 1) /\ DOMAIN keys = 1..n
    BY <1>1
  <1>3. PICK g : g = Rotated(f, keys, i)
    OBVIOUS
  <1>4. /\ g = [k \in DOMAIN g |-> g[k]] /\ DOMAIN g = DOMAIN f
        /\ \A k \in DOMAIN f :
             g[k] = f[keys[(((CHOOSE x \in 1..n : keys[x] = k) + i) % n) + 1]]
    BY <1>1, <1>3 DEF Rotated
  <1>5. ASSUME NEW k \in DOMAIN f
        PROVE  \E j \in DOMAIN f : g[k] = f[j] /\ (j = k <=> i + 1 = n)
    <2>1. \E x \in 1..n : keys[x] = k
      BY <1>2 DEF Range
    <2>2. PICK x \in 1..n : x = (CHOOSE y \in 1..n : keys[y] = k) /\ keys[x] = k
      BY <2>1
    <2>3. PICK z : z = ((x + i) % n) + 1
      OBVIOUS
    <2>4. z \in 1..n /\ (z = x <=> i + 1 = n)
      BY <1>2, <2>3, Turn
    <2>5. g[k] = f[keys[z]]
      BY <1>4, <2>2, <2>3
    <2>6. keys[z] \in DOMAIN f
      BY <1>2, <2>4 DEF Range
    <2>7. keys[z] = k <=> z = x
      BY <1>2, <2>2, <2>4 DEF IsInjective
    <2> QED
      BY <2>4, <2>5, <2>6, <2>7
  <1>6. ASSUME i + 1 = n PROVE g = f
    <2>1. \A k \in DOMAIN f : g[k] = f[k]
      BY <1>5, <1>6
    <2> QED
      BY <1>4, <2>1 DEF Object
  <1> QED
    BY <1>1, <1>3, <1>4, <1>5, <1>6

(* Of an input whose intent alone has an action, no rotation but the last, *)
(* which is the input, is accepted.                                        *)
Fuzzed(f) == Fair(f) /\ \A k \in DOMAIN f : <<"action">> \in DOMAIN f[k] => k = "intent"

LEMMA OnlyTheLast ==
  ASSUME NEW f, Fuzzed(f), NEW keys \in Seq(Name), Range(keys) = DOMAIN f, IsInjective(keys),
         NEW i \in Nat, i < Len(keys), NEW version, NEW now, NEW late,
         NEW r, r = Run(Obj(Rotated(f, keys, i)), version, now, late), Accepts(r)
  PROVE  i + 1 = Len(keys)
  <1>1. PICK g : g = Rotated(f, keys, i)
    OBVIOUS
  <1>2. /\ g = [k \in DOMAIN g |-> g[k]] /\ DOMAIN g = DOMAIN f
        /\ \A k \in DOMAIN f : \E j \in DOMAIN f :
             g[k] = f[j] /\ (j = k <=> i + 1 = Len(keys))
    BY <1>1, RotatedIs DEF Fuzzed, Fair
  <1>3. Fair(g)
    BY <1>2 DEF Fuzzed, Fair, Object
  <1>4. "intent" \in DOMAIN g /\ <<"action">> \in DOMAIN g["intent"]
    BY <1>1, <1>3, ActionNeeded
  <1>5. PICK j \in DOMAIN f : g["intent"] = f[j] /\ (j = "intent" <=> i + 1 = Len(keys))
    BY <1>2, <1>4
  <1>6. j = "intent"
    BY <1>4, <1>5 DEF Fuzzed
  <1> QED
    BY <1>5, <1>6

(* The generated inputs are such inputs.                                   *)
Known == Fixed \cup FuzzNames \cup Range(Place) \cup Range(Lex)
Inert(d) == Verbatim(d) /\ <<"action">> \notin DOMAIN d

LEMMA KnownNames ==
  Known \subseteq Name /\ \A k \in Known : normalizeString(k) = k
  BY NormAssumption, HarnessAssumption DEF Known, Spelled, normalizeString

LEMMA KnownFair ==
  ASSUME NEW f, f = [k \in DOMAIN f |-> f[k]], DOMAIN f \subseteq Known,
         \A k \in DOMAIN f : Verbatim(f[k])
  PROVE  Fair(f)
  BY KnownNames DEF Fair, Object, Verbatim

LEMMA LeavesInert ==
  /\ \A s : Inert(Str(s)) /\ Inert(Num(s)) /\ Verbatim(Str(s)) /\ Verbatim(Num(s))
  /\ Inert(Null)
  BY LeafVerbatim DEF Str, Num, Null, Inert

LEMMA TreeInert ==
  ASSUME NEW kind, NEW f, Fair(f), "action" \notin DOMAIN f
  PROVE  Inert(Tree(kind, f)) /\ Verbatim(Tree(kind, f))
  BY TreeVerbatim DEF Inert

LEMMA EmptyFair == Fair(Empty) /\ Inert(Obj(Empty)) /\ Verbatim(Obj(Empty))
  <1>1. Fair(Empty)
    BY EmptyIs DEF Fair
  <1> QED
    BY <1>1, EmptyIs, TreeInert DEF Obj

LEMMA ArrayInert == Inert(Arr(<<>>)) /\ Verbatim(Arr(<<>>)) /\ Inert(Arr(<<Str("alias")>>))
                    /\ Verbatim(Arr(<<Str("alias")>>))
  <1> DEFINE none == [k \in {Place[i] : i \in DOMAIN <<>>} |->
                        <<>>[CHOOSE i \in DOMAIN <<>> : Place[i] = k]]
             one == [k \in {Place[i] : i \in DOMAIN <<Str("alias")>>} |->
                       <<Str("alias")>>[CHOOSE i \in DOMAIN <<Str("alias")>> : Place[i] = k]]
  <1>1. none = [k \in DOMAIN none |-> none[k]] /\ DOMAIN none = {}
    OBVIOUS
  <1>2. Arr(<<>>) = Tree("array", none)
    BY DEF Arr
  <1>3. Arr(<<Str("alias")>>) = Tree("array", one)
    BY DEF Arr
  <1>4. /\ one = [k \in DOMAIN one |-> one[k]] /\ DOMAIN one = {Place[1]}
        /\ one[Place[1]] = Str("alias")
    <2>1. DOMAIN <<Str("alias")>> = {1} /\ <<Str("alias")>>[1] = Str("alias")
      OBVIOUS
    <2>2. {Place[i] : i \in DOMAIN <<Str("alias")>>} = {Place[1]}
      BY <2>1
    <2>3. (CHOOSE i \in DOMAIN <<Str("alias")>> : Place[i] = Place[1]) = 1
      BY <2>1
    <2> QED
      BY <2>1, <2>2, <2>3
  <1> HIDE DEF none, one
  <1>5. Place[1] = "[0]" /\ Place[1] \in Known
    BY DEF Place, Known, Range
  <1>6. Fair(none) /\ "action" \notin DOMAIN none
    BY <1>1, KnownFair
  <1>7. Fair(one) /\ "action" \notin DOMAIN one
    BY <1>4, <1>5, KnownFair, LeavesInert
  <1> QED
    BY <1>2, <1>3, <1>6, <1>7, TreeInert

LEMMA ActorInert ==
  ASSUME NEW id
  PROVE  Inert(Obj([type |-> Str("system"), id |-> Str(id), session_id |-> Str("sess")]))
  <1> DEFINE f == [type |-> Str("system"), id |-> Str(id), session_id |-> Str("sess")]
  <1>1. /\ f = [k \in DOMAIN f |-> f[k]] /\ DOMAIN f = {"type", "id", "session_id"}
        /\ f["type"] = Str("system") /\ f["id"] = Str(id) /\ f["session_id"] = Str("sess")
    OBVIOUS
  <1> HIDE DEF f
  <1>2. DOMAIN f \subseteq Known /\ "action" \notin DOMAIN f
    BY <1>1 DEF Known, Fixed, FuzzNames
  <1>3. Fair(f)
    BY <1>1, <1>2, KnownFair, LeavesInert
  <1> QED
    BY <1>2, <1>3, TreeInert DEF f, Obj

LEMMA PayloadInert ==
  ASSUME NEW data, Fair(data)
  PROVE  Inert(Payload(data))
  <1> DEFINE f == [data |-> Obj(data)]
  <1>1. f = [k \in DOMAIN f |-> f[k]] /\ DOMAIN f = {"data"} /\ f["data"] = Obj(data)
    OBVIOUS
  <1> HIDE DEF f
  <1>2. DOMAIN f \subseteq Known /\ "action" \notin DOMAIN f
    BY <1>1 DEF Known, Fixed
  <1>3. Verbatim(Obj(data))
    BY TreeVerbatim DEF Obj
  <1>4. Fair(f)
    BY <1>1, <1>2, <1>3, KnownFair
  <1> QED
    BY <1>2, <1>4, TreeInert DEF f, Obj, Payload

LEMMA CausalityInert ==
  ASSUME NEW s, NEW n
  PROVE  Inert(Obj([parent_event_ids |-> Arr(<<>>), causal_chain_id |-> Str(s),
                    trace_depth |-> Num(n)]))
  <1> DEFINE f == [parent_event_ids |-> Arr(<<>>), causal_chain_id |-> Str(s),
                   trace_depth |-> Num(n)]
  <1>1. /\ f = [k \in DOMAIN f |-> f[k]]
        /\ DOMAIN f = {"parent_event_ids", "causal_chain_id", "trace_depth"}
        /\ f["parent_event_ids"] = Arr(<<>>) /\ f["causal_chain_id"] = Str(s)
        /\ f["trace_depth"] = Num(n)
    OBVIOUS
  <1> HIDE DEF f
  <1>2. DOMAIN f \subseteq Known /\ "action" \notin DOMAIN f
    BY <1>1 DEF Known, Fixed
  <1>3. Fair(f)
    BY <1>1, <1>2, KnownFair, LeavesInert, ArrayInert
  <1> QED
    BY <1>2, <1>3, TreeInert DEF f, Obj

LEMMA AliasInert ==
  Inert(Obj([collapse_key |-> Str("ck"), alias_keys |-> Arr(<<Str("alias")>>)]))
  <1> DEFINE f == [collapse_key |-> Str("ck"), alias_keys |-> Arr(<<Str("alias")>>)]
  <1>1. /\ f = [k \in DOMAIN f |-> f[k]] /\ DOMAIN f = {"collapse_key", "alias_keys"}
        /\ f["collapse_key"] = Str("ck") /\ f["alias_keys"] = Arr(<<Str("alias")>>)
    OBVIOUS
  <1> HIDE DEF f
  <1>2. DOMAIN f \subseteq Known /\ "action" \notin DOMAIN f
    BY <1>1 DEF Known, Fixed
  <1>3. Fair(f)
    BY <1>1, <1>2, KnownFair, LeavesInert, ArrayInert
  <1> QED
    BY <1>2, <1>3, TreeInert DEF f, Obj

LEMMA IntentVerbatim ==
  ASSUME NEW a, NEW t, NEW i
  PROVE  Verbatim(Obj([action |-> Str(a), target_type |-> Str(t), target_id |-> Str(i)]))
  <1> DEFINE f == [action |-> Str(a), target_type |-> Str(t), target_id |-> Str(i)]
  <1>1. /\ f = [k \in DOMAIN f |-> f[k]] /\ DOMAIN f = {"action", "target_type", "target_id"}
        /\ f["action"] = Str(a) /\ f["target_type"] = Str(t) /\ f["target_id"] = Str(i)
    OBVIOUS
  <1> HIDE DEF f
  <1>2. DOMAIN f \subseteq Known
    BY <1>1 DEF Known, Fixed
  <1>3. Fair(f)
    BY <1>1, <1>2, KnownFair, LeavesInert
  <1> QED
    BY <1>3, TreeVerbatim DEF f, Obj

LEMMA StandardFuzzed ==
  ASSUME NEW d
  PROVE  /\ Fuzzed(genStandardInput(d))
         /\ {"actor", "payload", "timestamp"} \subseteq DOMAIN genStandardInput(d)
  <1>1. PICK actor, intent, payload, domain, event, stamp, causality :
          /\ actor = Obj([type |-> Str("system"), id |-> Str(d.actor), session_id |-> Str("sess")])
          /\ intent = Obj([action |-> Str(d.action), target_type |-> Str(d.type),
                           target_id |-> Str(d.target)])
          /\ payload = Payload(Empty) /\ domain = Str(d.domain) /\ event = Str("fuzz")
          /\ stamp = Num(d.timestamp)
          /\ causality = Obj([parent_event_ids |-> Arr(<<>>), causal_chain_id |-> Str("chain"),
                              trace_depth |-> Num(0)])
    OBVIOUS
  <1>2. /\ Inert(actor) /\ Inert(payload) /\ Inert(domain) /\ Inert(event) /\ Inert(stamp)
        /\ Inert(causality) /\ Verbatim(intent)
    BY <1>1, ActorInert, IntentVerbatim, PayloadInert, EmptyFair, LeavesInert, CausalityInert
  <1> DEFINE f == [actor |-> actor, intent |-> intent, payload |-> payload, domain |-> domain,
                   event_id |-> event, timestamp |-> stamp, causality |-> causality]
  <1>3. genStandardInput(d) = f
    BY <1>1 DEF genStandardInput
  <1>4. /\ f = [k \in DOMAIN f |-> f[k]]
        /\ DOMAIN f = {"actor", "intent", "payload", "domain", "event_id", "timestamp", "causality"}
        /\ f["actor"] = actor /\ f["intent"] = intent /\ f["payload"] = payload
        /\ f["domain"] = domain /\ f["event_id"] = event /\ f["timestamp"] = stamp
        /\ f["causality"] = causality
    OBVIOUS
  <1> HIDE DEF f
  <1>5. DOMAIN f \subseteq Known
    BY <1>4 DEF Known, Fixed
  <1>6. \A k \in DOMAIN f : Verbatim(f[k]) /\ (k # "intent" => Inert(f[k]))
    BY <1>2, <1>4 DEF Inert
  <1>7. Fair(f)
    BY <1>4, <1>5, <1>6, KnownFair
  <1>8. Fuzzed(f)
    BY <1>6, <1>7 DEF Fuzzed, Inert
  <1> QED
    BY <1>3, <1>4, <1>8

Replaced(f, k, v) == [f EXCEPT ![k] = v]

LEMMA ReplacedFuzzed ==
  ASSUME NEW f, Fuzzed(f), NEW k \in DOMAIN f, NEW v, Inert(v)
  PROVE  Fuzzed(Replaced(f, k, v))
  <1> DEFINE g == [f EXCEPT ![k] = v]
  <1>1. /\ g = [x \in DOMAIN g |-> g[x]] /\ DOMAIN g = DOMAIN f
        /\ \A x \in DOMAIN f : g[x] = IF x = k THEN v ELSE f[x]
    OBVIOUS
  <1> HIDE DEF g
  <1>2. g = [x \in DOMAIN g |-> g[x]] /\ DOMAIN g = DOMAIN f
        /\ \A x \in DOMAIN f : g[x] = f[x] \/ g[x] = v
    BY <1>1
  <1>3. Fair(g)
    BY <1>2 DEF Fuzzed, Fair, Object, Inert, Verbatim
  <1> QED
    BY <1>2, <1>3 DEF Fuzzed, Inert, g, Replaced

LEMMA OverFuzzed ==
  ASSUME NEW f, Fuzzed(f), NEW h, DOMAIN h \subseteq Known, \A k \in DOMAIN h : Inert(h[k])
  PROVE  Fuzzed(Over(h, f))
  <1>1. PICK g : g = Over(h, f)
    OBVIOUS
  <1>2. /\ g = [x \in DOMAIN g |-> g[x]] /\ DOMAIN g = DOMAIN h \cup DOMAIN f
        /\ \A x \in DOMAIN g : \/ x \in DOMAIN h /\ g[x] = h[x]
                               \/ x \in DOMAIN f /\ g[x] = f[x]
    BY <1>1 DEF Over
  <1>3. \A x \in DOMAIN g : /\ x \in Name /\ normalizeString(x) = x
                            /\ Verbatim(g[x]) /\ (<<"action">> \in DOMAIN g[x] => x = "intent")
    BY <1>2, KnownNames DEF Fuzzed, Fair, Object, Inert
  <1> QED
    BY <1>1, <1>2, <1>3 DEF Fuzzed, Fair, Object, Verbatim

LEMMA OneInert ==
  ASSUME NEW k \in Known, NEW v, Inert(v), NEW h, h = [x \in {k} |-> v]
  PROVE  DOMAIN h \subseteq Known /\ \A x \in DOMAIN h : Inert(h[x])
  OBVIOUS

LEMMA GeneratedFuzzed ==
  ASSUME NEW f \in Generated
  PROVE  Fuzzed(f)
  <1>1. PICK d \in Draws : f \in Generate(genStandardInput(d))
    BY DEF Generated
  <1>2. PICK b : b = genStandardInput(d)
    OBVIOUS
  <1>3. Fuzzed(b) /\ {"actor", "payload", "timestamp"} \subseteq DOMAIN b
    BY <1>2, StandardFuzzed
  <1>4. Fuzzed(genFieldPermutation(b))
    BY <1>3 DEF genFieldPermutation
  <1>5. Fuzzed(genNullVsOmission(b))
    <2>1. PICK k \in Known : k = "signature"
      BY DEF Known, Fixed
    <2>2. PICK h : h = [signature |-> Null]
      OBVIOUS
    <2>3. h = [x \in {k} |-> Null]
      BY <2>1, <2>2
    <2>4. DOMAIN h \subseteq Known /\ \A x \in DOMAIN h : Inert(h[x])
      BY <2>3, OneInert, LeavesInert
    <2> QED
      BY <1>3, <2>2, <2>4, OverFuzzed DEF genNullVsOmission
  <1>6. Fuzzed(genFloatBoundary(b))
    <2>1. PICK k \in Known : k = "_float_test"
      BY DEF Known, FuzzNames
    <2>2. PICK h : h = [_float_test |-> Num(0)]
      OBVIOUS
    <2>3. h = [x \in {k} |-> Num(0)]
      BY <2>1, <2>2
    <2>4. DOMAIN h \subseteq Known /\ \A x \in DOMAIN h : Inert(h[x])
      BY <2>3, OneInert, LeavesInert
    <2> QED
      BY <1>3, <2>2, <2>4, OverFuzzed DEF genFloatBoundary
  <1>7. Fuzzed(genAliasChain(b))
    <2>1. PICK k \in Known : k = "identity"
      BY DEF Known, Fixed
    <2>2. PICK v : v = Obj([collapse_key |-> Str("ck"), alias_keys |-> Arr(<<Str("alias")>>)])
      OBVIOUS
    <2>3. PICK h : h = [identity |-> v]
      OBVIOUS
    <2>4. h = [x \in {k} |-> v]
      BY <2>1, <2>3
    <2>5. DOMAIN h \subseteq Known /\ \A x \in DOMAIN h : Inert(h[x])
      BY <2>2, <2>4, OneInert, AliasInert
    <2>6. genAliasChain(b) = Over(h, b)
      BY <2>2, <2>3 DEF genAliasChain
    <2> QED
      BY <1>3, <2>5, <2>6, OverFuzzed
  <1>8. Fuzzed(genMultiArtifact(b))
    <2> DEFINE data == [k \in Range(Lex) |-> Obj([state |-> Str(k)])]
    <2>1. ASSUME NEW k \in Range(Lex) PROVE Verbatim(Obj([state |-> Str(k)]))
      <3> DEFINE h == [state |-> Str(k)]
      <3>1. h = [x \in DOMAIN h |-> h[x]] /\ DOMAIN h = {"state"} /\ h["state"] = Str(k)
        OBVIOUS
      <3> HIDE DEF h
      <3>2. DOMAIN h \subseteq Known
        BY <3>1 DEF Known, FuzzNames
      <3>3. Fair(h)
        BY <3>1, <3>2, KnownFair, LeavesInert
      <3> QED
        BY <3>3, TreeVerbatim DEF h, Obj
    <2>2. /\ data = [k \in DOMAIN data |-> data[k]] /\ DOMAIN data = Range(Lex)
          /\ \A k \in DOMAIN data : Verbatim(data[k])
      BY <2>1
    <2> HIDE DEF data
    <2>3. DOMAIN data \subseteq Known
      BY <2>2 DEF Known
    <2>4. Inert(Payload(data))
      BY <2>2, <2>3, KnownFair, PayloadInert
    <2>5. genMultiArtifact(b) = Replaced(b, "payload", Payload(data))
      BY DEF genMultiArtifact, Replaced, data
    <2> QED
      BY <1>3, <2>4, <2>5, ReplacedFuzzed
  <1>9. Fuzzed(genNestedStructure(b))
    <2> DEFINE data == [lvl_1_key |-> Obj(Empty)]
    <2>1. /\ data = [k \in DOMAIN data |-> data[k]] /\ DOMAIN data = {"lvl_1_key"}
          /\ data["lvl_1_key"] = Obj(Empty)
      OBVIOUS
    <2> HIDE DEF data
    <2>2. DOMAIN data \subseteq Known
      BY <2>1 DEF Known, FuzzNames
    <2>3. Inert(Payload(data))
      BY <2>1, <2>2, EmptyFair, KnownFair, PayloadInert
    <2>4. genNestedStructure(b) = Replaced(b, "payload", Payload(data))
      BY DEF genNestedStructure, Replaced, data
    <2> QED
      BY <1>3, <2>3, <2>4, ReplacedFuzzed
  <1>10. ASSUME NEW id PROVE Fuzzed(genUnicodeVariant(b, id))
    <2>1. PICK v : v = Obj([type |-> Str("system"), id |-> Str(id), session_id |-> Str("sess")])
      OBVIOUS
    <2>2. Inert(v)
      BY <2>1, ActorInert
    <2>3. genUnicodeVariant(b, id) = Replaced(b, "actor", v)
      BY <2>1 DEF genUnicodeVariant, Replaced
    <2> QED
      BY <1>3, <2>2, <2>3, ReplacedFuzzed
  <1>11. ASSUME NEW s PROVE Fuzzed(genTimestampBoundary(b, s))
    <2>1. genTimestampBoundary(b, s) = Replaced(b, "timestamp", Str(s))
      BY DEF genTimestampBoundary, Replaced
    <2> QED
      BY <1>3, <2>1, LeavesInert, ReplacedFuzzed
  <1> QED
    BY <1>1, <1>2, <1>4, <1>5, <1>6, <1>7, <1>8, <1>9, <1>10, <1>11 DEF Generate

(* What the cross-order test has kept: the hash of the input, as it was at *)
(* the start, and the hashes of the copies of it that were accepted.       *)
RefOf(input, ref) ==
  \E now, late : /\ Accepts(Run(Obj(input), CurrentCCNFVersion, now, late))
                 /\ ref = ComputeHash(Run(Obj(input), CurrentCCNFVersion, now, late).cer)

Dateful(input) == Stamped(Obj(input))
Within(n) == n >= 2 /\ n <= 8

Comparing(t) ==
  /\ Fuzzed(t.input) /\ t.keys \in Seq(Name) /\ Range(t.keys) = DOMAIN t.input
  /\ IsInjective(t.keys) /\ RefOf(t.input, t.ref)
  /\ t.i \in Nat /\ t.i <= turns(Len(t.keys))
  /\ Dateful(t.input) => t.others \subseteq {t.ref}
  /\ Within(Len(t.keys)) /\ t.i = Len(t.keys) => t.others # {}

Tester(t) == DOMAIN t = {"verdict", "input", "keys", "ref", "i", "copies", "others"}

Tested(t) ==
  /\ Tester(t)
  /\ t.verdict \in {"none", "error"} \/ Comparing(t)
  /\ t.verdict = "stable" => /\ t.i = turns(Len(t.keys)) /\ t.others \subseteq {t.ref}
  /\ t.verdict = "diverged" => ~(t.others \subseteq {t.ref})

LEMMA FuzzedDistinct ==
  ASSUME NEW f, Fuzzed(f)
  PROVE  Distinct(Obj(f))
  <1>1. Verbatim(Obj(f))
    BY TreeVerbatim DEF Fuzzed, Obj
  <1> QED
    BY <1>1 DEF Verbatim, Distinct

LEMMA TurnsAre ==
  ASSUME NEW n \in Nat, NEW i \in Nat, i < turns(n)
  PROVE  i < n /\ i + 1 <= turns(n) /\ turns(n) \in Nat
  BY DEF turns

LEMMA AllTurns ==
  ASSUME NEW n \in Nat, Within(n)
  PROVE  turns(n) = n
  BY DEF turns, Within

\* A copy that is accepted is the input, and the copies of the last turn are.
LEMMA CopyIs ==
  ASSUME NEW f, Fuzzed(f), NEW keys \in Seq(Name), Range(keys) = DOMAIN f, IsInjective(keys),
         NEW i \in Nat, i < Len(keys), NEW ref, RefOf(f, ref), NEW now, NEW late,
         NEW r, r = Run(Obj(Rotated(f, keys, i)), CurrentCCNFVersion, now, late)
  PROVE  /\ Accepts(r) /\ Dateful(f) => ComputeHash(r.cer) = ref
         /\ i + 1 = Len(keys) => Accepts(r)
  <1>1. PICK now2, late2 :
          /\ Accepts(Run(Obj(f), CurrentCCNFVersion, now2, late2))
          /\ ref = ComputeHash(Run(Obj(f), CurrentCCNFVersion, now2, late2).cer)
    BY DEF RefOf
  <1>2. PICK s : s = Run(Obj(f), CurrentCCNFVersion, now2, late2)
    OBVIOUS
  <1>3. Accepts(r) => i + 1 = Len(keys)
    BY OnlyTheLast
  <1>4. ASSUME i + 1 = Len(keys)
        PROVE  (Accepts(r) <=> Accepts(s)) /\ (Stamped(Obj(f)) => r = s)
    <2>1. Rotated(f, keys, i) = f
      BY <1>4, RotatedIs DEF Fuzzed, Fair
    <2>2. r = Run(Obj(f), CurrentCCNFVersion, now, late)
      BY <2>1
    <2> QED
      BY <1>2, <2>2, FuzzedDistinct, RunSame
  <1> QED
    BY <1>1, <1>2, <1>3, <1>4 DEF Dateful

LEMMA TestStarts ==
  ASSUME NEW input, Fuzzed(input), NEW keys \in Seq(Name), Range(keys) = DOMAIN input,
         IsInjective(keys), NEW ref, RefOf(input, ref),
         NEW t, Tester(t), t.verdict = "running", t.input = input, t.keys = keys,
         t.ref = ref, t.i = 0, t.others = {}
  PROVE  Tested(t)
  <1>1. Len(keys) \in Nat
    OBVIOUS
  <1>2. 0 <= turns(Len(keys))
    BY <1>1 DEF turns
  <1>3. ~(Within(Len(keys)) /\ 0 = Len(keys))
    BY <1>1 DEF Within
  <1>4. Comparing(t)
    BY <1>2, <1>3 DEF Comparing
  <1> QED
    BY <1>4 DEF Tested

LEMMA CopyKeeps ==
  ASSUME NEW t, Tested(t), t.verdict = "running", t.i < turns(Len(t.keys)),
         NEW now, NEW late,
         NEW r, r = Run(Obj(Rotated(t.input, t.keys, t.i)), CurrentCCNFVersion, now, late),
         NEW q, Tester(q), q.verdict = "running", q.input = t.input, q.keys = t.keys, q.ref = t.ref,
         q.i = t.i + 1 \/ q.i = t.i,
         Accepts(r) => q.others = t.others \cup {ComputeHash(r.cer)},
         ~Accepts(r) => q.others = t.others
  PROVE  Tested(q)
  <1>1. Comparing(t)
    BY DEF Tested
  <1>2. /\ Fuzzed(t.input) /\ t.keys \in Seq(Name) /\ Range(t.keys) = DOMAIN t.input
        /\ IsInjective(t.keys) /\ RefOf(t.input, t.ref) /\ t.i \in Nat
        /\ Dateful(t.input) => t.others \subseteq {t.ref}
        /\ Within(Len(t.keys)) /\ t.i = Len(t.keys) => t.others # {}
    BY <1>1 DEF Comparing
  <1>3. PICK n \in Nat : n = Len(t.keys)
    BY <1>2
  <1>4. t.i < n /\ t.i + 1 <= turns(n) /\ turns(n) \in Nat
    BY <1>2, <1>3, TurnsAre
  <1>5. /\ Accepts(r) /\ Dateful(t.input) => ComputeHash(r.cer) = t.ref
        /\ t.i + 1 = n => Accepts(r)
    BY <1>2, <1>3, <1>4, CopyIs
  <1>6. q.i \in Nat /\ q.i <= turns(n)
    <2>1. PICK i \in Nat, m \in Nat : i = t.i /\ m = turns(n)
      BY <1>2, <1>4
    <2>2. q.i = i + 1 \/ q.i = i
      BY <2>1
    <2>3. i + 1 <= m
      BY <1>4, <2>1
    <2> QED
      BY <2>1, <2>2, <2>3
  <1>7. Dateful(t.input) => q.others \subseteq {t.ref}
    BY <1>2, <1>5
  <1>8. q.i = n => q.others # {}
    <2>1. q.i = n => t.i + 1 = n
      BY <1>2, <1>4
    <2> QED
      BY <1>5, <2>1
  <1>9. Comparing(q)
    BY <1>2, <1>3, <1>6, <1>7, <1>8 DEF Comparing
  <1> QED
    BY <1>9 DEF Tested

LEMMA TestJudged ==
  ASSUME NEW t, Tested(t), t.verdict = "running", t.i = turns(Len(t.keys)),
         NEW q, Tester(q), q.input = t.input, q.keys = t.keys, q.ref = t.ref,
         q.i = t.i, q.others = t.others,
         q.verdict = IF t.others \subseteq {t.ref} THEN "stable" ELSE "diverged"
  PROVE  Tested(q)
  <1>1. Comparing(q)
    BY DEF Tested, Comparing
  <1> QED
    BY <1>1 DEF Tested

(* The invariant of the cross-order test.                                  *)
THEOREM TestInvariant == Spec => []Tested(test)
  <1>1. Init => Tested(test)
    <2>1. Tester(NoTest) /\ NoTest.verdict = "none"
      BY DEF NoTest, Tester
    <2>2. Tested(NoTest)
      BY <2>1 DEF Tested
    <2> QED
      BY <2>2 DEF Init
  <1>2. Tested(test) /\ [Next]_vars => Tested(test)'
    <2> SUFFICES ASSUME Tested(test), [Next]_vars PROVE Tested(test')
      OBVIOUS
    <2>1. CASE UNCHANGED vars
      BY <2>1 DEF vars
    <2>2. CASE Tick /\ UNCHANGED <<program, test, suite, runner>>
      BY <2>2
    <2>3. CASE program = "hosts" /\ HostNext /\ UNCHANGED <<program, test, suite, runner>>
      BY <2>3
    <2>4. ASSUME NEW input \in Generated, NEW keys \in KeyOrders, NEW late \in Orders,
                 StartTest(input, keys, late)
          PROVE  Tested(test')
      <3>1. PICK version : version = 1
        OBVIOUS
      <3>2. PICK r : r = Run(Obj(input), version, clock, late)
        OBVIOUS
      <3>3. version = CurrentCCNFVersion
        BY <3>1 DEF CurrentCCNFVersion
      <3>4. /\ Range(keys) = DOMAIN input /\ IsInjective(keys)
            /\ ~Accepts(r) => test' = [NoTest EXCEPT !.verdict = "error", !.input = input]
            /\ Accepts(r) => test' = [NoTest EXCEPT !.verdict = "running", !.input = input,
                                        !.keys = keys, !.ref = ComputeHash(r.cer)]
        BY <2>4, <3>1, <3>2 DEF StartTest, Accepts
      <3>5. keys \in Seq(Name) /\ Fuzzed(input)
        BY HarnessAssumption, GeneratedFuzzed
      <3>6. CASE ~Accepts(r)
        <4>1. Tester(test') /\ test'.verdict = "error"
          BY <3>4, <3>6 DEF NoTest, Tester
        <4> QED
          BY <4>1 DEF Tested
      <3>7. CASE Accepts(r)
        <4>1. PICK ref : ref = ComputeHash(r.cer)
          OBVIOUS
        <4>2. RefOf(input, ref)
          BY <3>2, <3>3, <3>7, <4>1 DEF RefOf
        <4>3. test' = [NoTest EXCEPT !.verdict = "running", !.input = input,
                         !.keys = keys, !.ref = ref]
          BY <3>4, <3>7, <4>1
        <4>4. /\ Tester(test') /\ test'.verdict = "running" /\ test'.input = input
              /\ test'.keys = keys /\ test'.ref = ref /\ test'.i = 0 /\ test'.others = {}
          BY <4>3 DEF NoTest, Tester
        <4> QED
          BY <3>4, <3>5, <4>2, <4>4, TestStarts
      <3> QED
        BY <3>6, <3>7
    <2>5. ASSUME NEW late \in Orders, TryCopy(late)
          PROVE  Tested(test')
      <3>1. PICK version : version = 1
        OBVIOUS
      <3>2. PICK r : r = Run(Obj(Rotated(test.input, test.keys, test.i)), version, clock, late)
        OBVIOUS
      <3>3. version = CurrentCCNFVersion
        BY <3>1 DEF CurrentCCNFVersion
      <3>4. PICK last, h, others :
              /\ last = (test.copies
                           = Cardinality({k \in DOMAIN test.input : IsObj(test.input[k])}))
              /\ h = ComputeHash(r.cer)
              /\ others = IF Accepts(r) THEN test.others \cup {h} ELSE test.others
        OBVIOUS
      <3>5. /\ test.verdict = "running" /\ test.i < turns(Len(test.keys))
            /\ test' = [test EXCEPT !.others = others,
                          !.i = IF last THEN test.i + 1 ELSE test.i,
                          !.copies = IF last THEN 0 ELSE test.copies + 1]
        BY <2>5, <3>1, <3>2, <3>4 DEF TryCopy, Accepts
      <3>6. /\ Tester(test') /\ test'.verdict = test.verdict /\ test'.input = test.input
            /\ test'.keys = test.keys /\ test'.ref = test.ref /\ test'.others = others
            /\ test'.i = test.i + 1 \/ test'.i = test.i
        BY <3>5 DEF Tested, Tester
      <3>7. r = Run(Obj(Rotated(test.input, test.keys, test.i)), CurrentCCNFVersion, clock, late)
        BY <3>2, <3>3
      <3>8. /\ Accepts(r) => test'.others = test.others \cup {ComputeHash(r.cer)}
            /\ ~Accepts(r) => test'.others = test.others
        BY <3>4, <3>6
      <3>9. /\ Tested(test) /\ test.verdict = "running" /\ test'.verdict = "running"
            /\ test.i < turns(Len(test.keys))
        BY <3>5, <3>6
      <3> QED
        BY <3>6, <3>7, <3>8, <3>9, CopyKeeps
    <2>6. ASSUME NEW late \in Orders, RunInput(late)
          PROVE  Tested(test')
      BY <2>6 DEF RunInput
    <2>7. CASE Judge
      <3>1. /\ test.verdict = "running" /\ test.i = turns(Len(test.keys))
            /\ test' = [test EXCEPT !.verdict = IF test.others \subseteq {test.ref}
                                                THEN "stable" ELSE "diverged"]
        BY <2>7 DEF Judge
      <3>2. /\ Tester(test') /\ test'.input = test.input /\ test'.keys = test.keys
            /\ test'.ref = test.ref /\ test'.i = test.i /\ test'.others = test.others
            /\ test'.verdict = IF test.others \subseteq {test.ref} THEN "stable" ELSE "diverged"
        BY <3>1 DEF Tested, Tester
      <3> QED
        BY <3>1, <3>2, TestJudged
    <2>8. CASE OpenFile
      BY <2>8 DEF OpenFile
    <2>9. CASE Exit
      BY <2>9 DEF Exit
    <2> QED
      BY <2>1, <2>2, <2>3, <2>4, <2>5, <2>6, <2>7, <2>8, <2>9 DEF Next
  <1> QED
    BY <1>1, <1>2, PTL DEF Spec

(* CrossOrderVerdict: the test reports a divergence only of an input       *)
(* without a date, and a verdict of stability rests on a comparison of the *)
(* input with itself.                                                      *)
THEOREM CrossOrderDecides == Spec => []CrossOrderVerdict
  <1>1. ASSUME Tested(test) PROVE CrossOrderVerdict
    <2>1. ASSUME test.verdict = "diverged" PROVE ~Stamped(Obj(test.input))
      BY <1>1, <2>1 DEF Tested, Comparing, Dateful
    <2>2. ASSUME test.verdict = "stable", Len(test.keys) \in 2..8
          PROVE  test.others = {test.ref}
      <3>1. Comparing(test) /\ test.i = turns(Len(test.keys)) /\ test.others \subseteq {test.ref}
        BY <1>1, <2>2 DEF Tested
      <3>4. PICK n \in 2..8 : n = Len(test.keys)
        BY <2>2
      <3>2. Within(n) /\ n \in Nat
        BY DEF Within
      <3>3. test.others # {}
        BY <3>1, <3>2, <3>4, AllTurns DEF Comparing
      <3> QED
        BY <3>1, <3>3
    <2> QED
      BY <2>1, <2>2 DEF CrossOrderVerdict
  <1> QED
    BY <1>1, TestInvariant, PTL
=============================================================================
