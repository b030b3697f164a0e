---------------------------- MODULE SheetProofs -----------------------------
(* Theorems about a sheet on its way to directed runs (SheetTopology): what *)
(* assembly makes of its strokes (RunAssembly), what conversion makes of a  *)
(* reading (DiagexGraph), and the flow directions (OrientRuns), for every   *)
(* sheet and every reading.                                                 *)
EXTENDS SheetTopology, WellFoundedInduction, FiniteSetTheorems, TLAPS

----------------------------------------------------------------------------
(* What holds of numbers, sets and sequences.                                *)

IsSequence(s) == \E S : s \in Seq(S)

\* A set of numbers has a least one.
LEMMA MinIn ==
    ASSUME NEW S \in SUBSET Nat, S # {}
    PROVE  Min(S) \in S /\ \A y \in S : Min(S) <= y
<1> DEFINE R == {ss \in Nat \X Nat : ss[1] < ss[2]}
<1>1. OpToRel(<, Nat) = R
      BY DEF OpToRel
<1>2. IsWellFoundedOn(R, Nat)
      BY <1>1, NatLessThanWellFounded, Zenon
<1>3. PICK x \in S : \A y \in S : <<y, x>> \notin R
  <2> HIDE DEF R
  <2>1. QED BY <1>2, WFMin
<1>4. ASSUME NEW y \in S PROVE x <= y
  <2>1. x \in Nat /\ y \in Nat
        OBVIOUS
  <2>2. y < x => <<y, x>> \in R
        BY <2>1
  <2>3. QED BY <1>3, <2>1, <2>2
<1>5. \E m \in S : \A y \in S : m <= y
      BY <1>4
<1>6. QED BY <1>5 DEF Min

\* What holds of the first number and is handed on holds up to the last.
LEMMA UpTo ==
    ASSUME NEW n \in Nat, NEW S \in SUBSET (1..n), 1 \in S,
           \A k \in 1..n : k \in S /\ k + 1 \in 1..n => k + 1 \in S
    PROVE  S = 1..n
<1> DEFINE Bad == (1..n) \ S
<1>1. SUFFICES ASSUME Bad # {} PROVE FALSE
      OBVIOUS
<1>2. Bad \in SUBSET Nat
      OBVIOUS
<1>3. Min(Bad) \in Bad /\ \A y \in Bad : Min(Bad) <= y
  <2> HIDE DEF Bad
  <2>1. QED BY <1>1, <1>2, MinIn
<1>4. PICK k \in Bad : \A y \in Bad : k <= y
      BY <1>3
<1>5. k - 1 \in 1..n /\ k - 1 \in S /\ k = (k - 1) + 1
      BY <1>2, <1>4
<1>6. QED BY <1>4, <1>5

\* The order SetToSeq puts a finite set in names each member once.
LEMMA Listed ==
    ASSUME NEW S, IsFiniteSet(S)
    PROVE  /\ Cardinality(S) \in Nat
           /\ SetToSeq(S) \in [1..Cardinality(S) -> S]
           /\ \A x \in S : \E k \in 1..Cardinality(S) : SetToSeq(S)[k] = x
           /\ \A k, l \in 1..Cardinality(S) : SetToSeq(S)[k] = SetToSeq(S)[l] => k = l
<1> DEFINE n == Cardinality(S)
           f == SetToSeq(S)
<1>1. n \in Nat /\ ExistsBijection(1..n, S)
      BY FS_CardinalityType
<1>2. PICK g \in Bijection(1..n, S) : TRUE
      BY <1>1 DEF ExistsBijection
<1>3. g \in [1..n -> S] /\ IsInjective(g)
      BY <1>2 DEF Bijection, Injection, Surjection, IsInjective
<1> HIDE DEF n
<1>4. f \in [1..n -> S] /\ IsInjective(f)
      BY <1>3 DEF SetToSeq, n
<1> HIDE DEF f
<1>5. f \in Injection(1..n, S)
      BY <1>4 DEF Injection, IsInjective
<1>6. IsFiniteSet(1..n) /\ Cardinality(1..n) = n
      BY <1>1, FS_Interval
<1>7. f \in Surjection(1..n, S)
      BY <1>5, <1>6, FS_Injection DEF n
<1>8. QED BY <1>1, <1>4, <1>7 DEF Surjection, IsInjective, n, f

\* Of two different members of a set of two, one is any other.
LEMMA OfTwo ==
    ASSUME NEW S, IsFiniteSet(S), Cardinality(S) = 2
    PROVE  /\ \A x \in S : \E y \in S : y # x
           /\ \A x, y \in S : x # y => S = {x, y}
<1>1. ASSUME NEW x \in S
      PROVE  \E y \in S : y # x
  <2>1. IsFiniteSet({x}) /\ Cardinality({x}) = 1
        BY FS_Singleton
  <2>2. S # {x}
        BY <2>1
  <2>3. QED BY <2>2
<1>2. ASSUME NEW x \in S, NEW y \in S, x # y
      PROVE  S = {x, y}
  <2>1. {x, y} \in SUBSET S
        OBVIOUS
  <2>2. IsFiniteSet({x}) /\ Cardinality({x}) = 1
        BY FS_Singleton
  <2>3. Cardinality({x} \cup {y}) = 2
    <3>1. y \notin {x}
          BY <1>2
    <3>2. Cardinality({x} \cup {y}) = Cardinality({x}) + 1
          BY <2>2, <3>1, FS_AddElement
    <3>3. QED BY <2>2, <3>2
  <2>4. {x, y} = {x} \cup {y}
        OBVIOUS
  <2>5. QED BY <2>1, <2>3, <2>4, FS_Subset
<1>3. QED BY <1>1, <1>2

\* At most one.
LEMMA AtMostOne ==
    ASSUME NEW S, IsFiniteSet(S)
    PROVE  Cardinality(S) <= 1 <=> \A x, y \in S : x = y
<1>1. ASSUME NEW x \in S, NEW y \in S, x # y
      PROVE  ~ Cardinality(S) <= 1
  <2>1. {x, y} \in SUBSET S
        OBVIOUS
  <2>2. IsFiniteSet({x}) /\ Cardinality({x}) = 1
        BY FS_Singleton
  <2>3. Cardinality({x} \cup {y}) = 2
        BY <1>1, <2>2, FS_AddElement
  <2>4. {x, y} = {x} \cup {y}
        OBVIOUS
  <2>5. Cardinality({x, y}) <= Cardinality(S) /\ Cardinality(S) \in Nat
        BY <2>1, FS_Subset, FS_CardinalityType
  <2>6. QED BY <2>3, <2>4, <2>5
<1>2. ASSUME \A x, y \in S : x = y
      PROVE  Cardinality(S) <= 1
  <2>1. CASE S = {}
        BY <2>1, FS_EmptySet
  <2>2. CASE S # {}
    <3>1. PICK x : S = {x}
          BY <1>2, <2>2
    <3>2. QED BY <3>1, FS_Singleton
  <2>3. QED BY <2>1, <2>2
<1>3. QED BY <1>1, <1>2

----------------------------------------------------------------------------
(* The k-th of some strokes.                                                 *)

RankIn(S, i) == Cardinality({j \in S : j <= i})

LEMMA PlacesDiffer ==
    ASSUME NEW S \in SUBSET Nat, IsFiniteSet(S)
    PROVE  /\ Cardinality(S) \in Nat
           /\ \A i \in S : RankIn(S, i) \in 1..Cardinality(S)
           /\ \A i, j \in S : RankIn(S, i) = RankIn(S, j) => i = j
           /\ \A k \in 1..Cardinality(S) : \E i \in S : RankIn(S, i) = k
<1> DEFINE n == Cardinality(S)
<1>1. n \in Nat
      BY FS_CardinalityType
<1>2. ASSUME NEW i \in S
      PROVE  RankIn(S, i) \in 1..n
  <2>1. {j \in S : j <= i} \in SUBSET S /\ i \in {j \in S : j <= i}
        OBVIOUS
  <2>2. IsFiniteSet({j \in S : j <= i}) /\ RankIn(S, i) <= n /\ RankIn(S, i) \in Nat
        BY <2>1, FS_Subset, FS_CardinalityType DEF RankIn
  <2>3. RankIn(S, i) # 0
        BY <2>1, <2>2, FS_EmptySet DEF RankIn
  <2>4. QED BY <1>1, <2>2, <2>3
<1>3. ASSUME NEW i \in S, NEW j \in S, i < j
      PROVE  RankIn(S, i) # RankIn(S, j)
  <2> DEFINE I == {l \in S : l <= i}
             J == {l \in S : l <= j}
  <2>1. I \in SUBSET J /\ J \in SUBSET S /\ j \in J /\ j \notin I
    <3>1. \A l \in S : l \in Nat
          OBVIOUS
    <3>2. \A l \in S : l <= i => l <= j
          BY <1>3, <3>1
    <3>3. j <= j /\ ~ j <= i
          BY <1>3, <3>1
    <3>4. QED BY <3>2, <3>3
  <2>2. IsFiniteSet(J)
        BY <2>1, FS_Subset
  <2> HIDE DEF I, J
  <2>3. Cardinality(J) # Cardinality(I)
        BY <2>1, <2>2, FS_Subset
  <2>4. QED BY <2>3 DEF RankIn, I, J
<1>4. \A i, j \in S : RankIn(S, i) = RankIn(S, j) => i = j
  <2>1. \A i, j \in S : i = j \/ i < j \/ j < i
        OBVIOUS
  <2>2. QED BY <1>3, <2>1
<1> DEFINE f == [i \in S |-> RankIn(S, i)]
           D == 1..n
<1>5. f \in Injection(S, D)
  <2>1. f \in [S -> D]
        BY <1>2
  <2>2. \A i, j \in S : f[i] = f[j] => i = j
        BY <1>4
  <2> HIDE DEF f, D
  <2>3. DOMAIN f = S
        BY <2>1
  <2>4. QED BY <2>1, <2>2, <2>3 DEF Injection, IsInjective
<1>6. IsFiniteSet(D) /\ Cardinality(D) = n
      BY <1>1, FS_Interval
<1>7. f \in Surjection(S, D)
  <2> HIDE DEF f, D
  <2>1. QED BY <1>5, <1>6, FS_Injection
<1>8. \A k \in D : \E i \in S : f[i] = k
  <2> HIDE DEF f, D
  <2>1. QED BY <1>7 DEF Surjection
<1>9. QED BY <1>1, <1>2, <1>4, <1>8

LEMMA NthIs ==
    ASSUME NEW S \in SUBSET Nat, IsFiniteSet(S)
    PROVE  /\ Cardinality(S) \in Nat
           /\ \A k \in 1..Cardinality(S) : Nth(S, k) \in S
           /\ \A k, l \in 1..Cardinality(S) : Nth(S, k) = Nth(S, l) => k = l
           /\ \A i \in S : \E k \in 1..Cardinality(S) : Nth(S, k) = i
<1>1. ASSUME NEW k \in 1..Cardinality(S)
      PROVE  Nth(S, k) \in S /\ RankIn(S, Nth(S, k)) = k
  <2>1. Nth(S, k) = CHOOSE i \in S : RankIn(S, i) = k
        BY DEF Nth, RankIn
  <2>2. \E i \in S : RankIn(S, i) = k
        BY PlacesDiffer
  <2>3. QED BY <2>1, <2>2
<1>2. \A k, l \in 1..Cardinality(S) : Nth(S, k) = Nth(S, l) => k = l
      BY <1>1
<1>3. ASSUME NEW i \in S
      PROVE  \E k \in 1..Cardinality(S) : Nth(S, k) = i
  <2>1. RankIn(S, i) \in 1..Cardinality(S)
        BY PlacesDiffer
  <2>2. Nth(S, RankIn(S, i)) \in S /\ RankIn(S, Nth(S, RankIn(S, i))) = RankIn(S, i)
        BY <1>1, <2>1
  <2>3. \A j \in S : RankIn(S, j) = RankIn(S, i) => j = i
        BY PlacesDiffer
  <2>4. QED BY <2>1, <2>2, <2>3
<1>4. Cardinality(S) \in Nat
      BY PlacesDiffer
<1>5. QED BY <1>1, <1>2, <1>3, <1>4

----------------------------------------------------------------------------
(* What build_graph and the claim of the boxes leave.                        *)

NodeKinds == {"point", "valve", "instrument", "dead-end", "corner", "junction",
              "nozzle", "equipment", "off-page"}
StrokeStyles == {"solid", "dashed", "bridge", "internal"}

EdgeEnds(i) == {edges[i].a, edges[i].b}
IsBridge(i) == edges[i].style = "bridge"
IsPoint(n)  == sheet.kind[n] = "point"

\* Strokes join nodes, and none a node to itself.
StrokesAre ==
    /\ sheet \in Sheets
    /\ kind \in Seq(NodeKinds)
    /\ \E S : edges \in Seq(S)
    /\ \A i \in DOMAIN edges :
          /\ edges[i].a \in DOMAIN kind /\ edges[i].b \in DOMAIN kind
          /\ edges[i].a # edges[i].b
          /\ edges[i].style \in StrokeStyles

BridgedOnce ==
    \A n \in DOMAIN sheet.kind : IsPoint(n) =>
        \A i, j \in At(n) : IsBridge(i) /\ IsBridge(j) => i = j

Bridging == building \in {"bridge", "claim"}

\* Before the claim: bridges were added to the strokes, each from a symbol, and what
\* was bridged is not loose any more.
BridgedSoFar ==
    Bridging =>
        /\ DOMAIN kind = DOMAIN sheet.kind
        /\ \A n \in DOMAIN kind :
              IF IsPoint(n) THEN kind[n] \in {"point", "dead-end", "corner", "junction"}
                            ELSE kind[n] \in {"valve", "instrument"}
        /\ building = "bridge" => kind = sheet.kind
        /\ \A e \in ToSet(edges) : e.style # "bridge" => e \in ToSet(sheet.strokes)
        /\ \A e \in ToSet(sheet.strokes) : e \in ToSet(edges)
        /\ \A i \in DOMAIN edges : IsBridge(i) => ~IsPoint(edges[i].a)
        /\ \A n \in DOMAIN kind : IsPoint(n) =>
              \A i \in At(n) : IsBridge(i) => \E j \in At(n) : j # i
        /\ visited = {} /\ walk = NoWalk /\ runs = <<>>

\* From the claim on: what is inside is gone, and each nozzle is joined to its item.
ClaimedSince ==
    ~Bridging =>
        /\ \A e \in ToSet(sheet.strokes) : e \in ToSet(edges) <=> ~Inside(e)
        /\ \A i \in DOMAIN edges : IsBridge(i) => kind[edges[i].a] # "corner"
        /\ \A i \in DOMAIN edges : edges[i].style = "internal" =>
              kind[edges[i].a] # "corner" /\ kind[edges[i].b] # "corner"
        /\ \A n \in DOMAIN kind : kind[n] = "nozzle" =>
              \E i \in DOMAIN edges :
                 /\ edges[i].style = "internal"
                 /\ EdgeEnds(i) = {n, Len(sheet.kind) + sheet.owner[n]}

BuildInv == StrokesAre /\ BridgedOnce /\ BridgedSoFar /\ ClaimedSince

\* What a sheet is.
LEMMA SheetIs ==
    ASSUME sheet \in Sheets
    PROVE  /\ sheet.kind \in Seq({"point", "valve", "instrument"})
           /\ Len(sheet.kind) \in Nat /\ DOMAIN sheet.kind = 1..Len(sheet.kind)
           /\ \A n \in DOMAIN sheet.kind : IsPoint(n) \/ sheet.kind[n] \in {"valve", "instrument"}
           /\ sheet.strokes \in Seq(ToSet(sheet.strokes))
           /\ \A e \in ToSet(sheet.strokes) :
                 /\ e.a \in DOMAIN sheet.kind /\ e.b \in DOMAIN sheet.kind /\ e.a # e.b
                 /\ e.style \in {"solid", "dashed"}
           /\ Owned \subseteq DOMAIN sheet.kind
           /\ DOMAIN sheet.shape = 1..Len(sheet.shape) /\ Len(sheet.shape) \in Nat
           /\ \A n \in Owned : sheet.owner[n] \in DOMAIN sheet.shape
<1>1. Traced(sheet)
      BY SheetsAreTraced
<1>2. QED BY <1>1 DEF Traced, Owned, IsPoint

\* Edges are numbered from 1, and finitely many.
LEMMA EdgesAre ==
    ASSUME StrokesAre
    PROVE  /\ Len(edges) \in Nat /\ DOMAIN edges = 1..Len(edges)
           /\ IsFiniteSet(DOMAIN edges)
           /\ \A n : At(n) \in SUBSET (DOMAIN edges) /\ IsFiniteSet(At(n))
           /\ \A n, i : i \in At(n) <=> i \in DOMAIN edges /\ n \in EdgeEnds(i)
           /\ Len(kind) \in Nat /\ DOMAIN kind = 1..Len(kind)
           /\ \A n \in DOMAIN kind : kind[n] \in NodeKinds
<1>1. Len(edges) \in Nat /\ DOMAIN edges = 1..Len(edges)
      BY DEF StrokesAre
<1>2. IsFiniteSet(DOMAIN edges)
      BY <1>1, FS_Interval
<1>3. \A n : At(n) \in SUBSET (DOMAIN edges)
      BY DEF At
<1>4. \A n : IsFiniteSet(At(n))
      BY <1>2, <1>3, FS_Subset
<1>5. \A n, i : i \in At(n) <=> i \in DOMAIN edges /\ n \in EdgeEnds(i)
      BY DEF At, EdgeEnds
<1>6. Len(kind) \in Nat /\ DOMAIN kind = 1..Len(kind) /\ \A n \in DOMAIN kind : kind[n] \in NodeKinds
      BY DEF StrokesAre
<1>7. QED BY <1>1, <1>2, <1>3, <1>4, <1>5, <1>6

LEMMA BuildStarts == AssemblyInit => BuildInv
<1> SUFFICES ASSUME AssemblyInit PROVE BuildInv
    OBVIOUS
<1>1. sheet \in Sheets /\ building = "bridge" /\ kind = sheet.kind /\ edges = sheet.strokes
      BY DEF AssemblyInit
<1>2. \A i \in DOMAIN edges : edges[i] \in ToSet(sheet.strokes)
      BY <1>1 DEF ToSet
<1>3. \A i \in DOMAIN edges : ~IsBridge(i)
      BY <1>1, <1>2, SheetIs DEF IsBridge
<1>4. StrokesAre
  <2>1. kind \in Seq(NodeKinds)
        BY <1>1, SheetIs DEF NodeKinds
  <2>2. \E S : edges \in Seq(S)
        BY <1>1, SheetIs
  <2>3. QED BY <1>1, <1>2, <2>1, <2>2, SheetIs DEF StrokesAre, StrokeStyles
<1>5. BridgedOnce
      BY <1>3 DEF BridgedOnce, At
<1>6. BridgedSoFar
  <2>1. \A n \in DOMAIN kind :
           IF IsPoint(n) THEN kind[n] \in {"point", "dead-end", "corner", "junction"}
                         ELSE kind[n] \in {"valve", "instrument"}
        BY <1>1, SheetIs DEF IsPoint
  <2>2. QED BY <1>1, <1>3, <2>1 DEF BridgedSoFar, At, AssemblyInit
<1>7. ClaimedSince
      BY <1>1 DEF ClaimedSince, Bridging
<1>8. QED BY <1>4, <1>5, <1>6, <1>7 DEF BuildInv

LEMMA PutTogether ==
    ASSUME NEW T, NEW a \in Seq(T), NEW b \in Seq(T)
    PROVE  /\ a \o b \in Seq(T) /\ Len(a) \in Nat /\ Len(b) \in Nat
           /\ DOMAIN (a \o b) = 1..Len(a) + Len(b)
           /\ \A i \in 1..Len(a) : (a \o b)[i] = a[i]
           /\ \A k \in 1..Len(b) : (a \o b)[Len(a) + k] = b[k]
<1>1. /\ a \o b \in Seq(T) /\ Len(a) \in Nat /\ Len(b) \in Nat
      /\ Len(a \o b) = Len(a) + Len(b)
      OBVIOUS
<1>2. DOMAIN (a \o b) = 1..Len(a) + Len(b)
      BY <1>1
<1>3. \A i \in 1..Len(a) : (a \o b)[i] = a[i]
      BY <1>1
<1>4. ASSUME NEW k \in 1..Len(b)
      PROVE  (a \o b)[Len(a) + k] = b[k]
  <2>1. Len(a) + k \in 1..Len(a) + Len(b) /\ ~ Len(a) + k <= Len(a) /\ Len(a) + k - Len(a) = k
        BY <1>1
  <2>2. QED BY <1>1, <2>1
<1>5. QED BY <1>1, <1>2, <1>3, <1>4

\* What a symbol adds to the strokes: one bridge to each loose end within reach.
Stubs(n) == {m \in DOMAIN kind : /\ <<n, m>> \in sheet.near
                                 /\ kind[m] = "point" /\ Cardinality(At(m)) = 1}

LEMMA BridgeAdds ==
    ASSUME StrokesAre, NEW n, Bridge(n)
    PROVE  LET c == Cardinality(Stubs(n))
               q == SetToSeq(Stubs(n))
           IN  /\ c \in Nat
               /\ q \in [1..c -> Stubs(n)]
               /\ \A m \in Stubs(n) : \E k \in 1..c : q[k] = m
               /\ \A k, l \in 1..c : q[k] = q[l] => k = l
               /\ DOMAIN edges' = 1..Len(edges) + c
               /\ \A i \in DOMAIN edges : edges'[i] = edges[i]
               /\ \A k \in 1..c : /\ edges'[Len(edges) + k].a = n
                                  /\ edges'[Len(edges) + k].b = q[k]
                                  /\ edges'[Len(edges) + k].style = "bridge"
               /\ \E S : edges' \in Seq(S)
<1> DEFINE c == Cardinality(Stubs(n))
           q == SetToSeq(Stubs(n))
           new == [k \in 1..c |-> [a |-> n, b |-> q[k], style |-> "bridge", length |-> 10]]
<1>1. IsFiniteSet(Stubs(n))
  <2>1. Len(kind) \in Nat /\ DOMAIN kind = 1..Len(kind)
        BY EdgesAre
  <2>2. IsFiniteSet(1..Len(kind))
        BY <2>1, FS_Interval
  <2>3. Stubs(n) \in SUBSET DOMAIN kind
        BY DEF Stubs
  <2>4. QED BY <2>1, <2>2, <2>3, FS_Subset
<1>2. /\ c \in Nat
      /\ q \in [1..c -> Stubs(n)]
      /\ \A m \in Stubs(n) : \E k \in 1..c : q[k] = m
      /\ \A k, l \in 1..c : q[k] = q[l] => k = l
      BY <1>1, Listed
<1>3. edges' = edges \o [k \in DOMAIN q |->
                 [a |-> n, b |-> q[k], style |-> "bridge", length |-> 10]]
      BY DEF Bridge, Stubs
<1> HIDE DEF c, q
<1>4. edges' = edges \o new
      BY <1>2, <1>3
<1>5. PICK S : edges \in Seq(S)
      BY DEF StrokesAre
<1>6. new \in Seq({new[k] : k \in 1..c}) /\ Len(new) = c
      BY <1>2
<1> DEFINE T == S \cup {new[k] : k \in 1..c}
<1>7. edges \in Seq(T) /\ new \in Seq(T)
      BY <1>5, <1>6
<1>8. Len(edges) \in Nat /\ DOMAIN edges = 1..Len(edges)
      BY EdgesAre
<1>9. \A k \in 1..c : new[k].a = n /\ new[k].b = q[k] /\ new[k].style = "bridge"
      OBVIOUS
<1> HIDE DEF new, T
<1>10. /\ edges' \in Seq(T) /\ DOMAIN edges' = 1..Len(edges) + c
       /\ \A i \in 1..Len(edges) : edges'[i] = edges[i]
       /\ \A k \in 1..c : edges'[Len(edges) + k] = new[k]
      BY <1>4, <1>6, <1>7, PutTogether
<1>11. QED BY <1>2, <1>8, <1>9, <1>10 DEF c, q

LEMMA BridgeKeeps ==
    ASSUME BuildInv, NEW n \in Symbols, Bridge(n)
    PROVE  BuildInv'
<1> DEFINE c == Cardinality(Stubs(n))
           q == SetToSeq(Stubs(n))
<1>1. /\ building = "bridge" /\ sheet' = sheet /\ building' = building /\ kind' = kind
      /\ visited' = visited /\ walk' = walk /\ runs' = runs
      BY DEF Bridge
<1>2. StrokesAre /\ BridgedOnce /\ BridgedSoFar
      BY DEF BuildInv
<1>3. /\ c \in Nat
      /\ q \in [1..c -> Stubs(n)]
      /\ \A m \in Stubs(n) : \E k \in 1..c : q[k] = m
      /\ \A k, l \in 1..c : q[k] = q[l] => k = l
      /\ DOMAIN edges' = 1..Len(edges) + c
      /\ \A i \in DOMAIN edges : edges'[i] = edges[i]
      /\ \A k \in 1..c : /\ edges'[Len(edges) + k].a = n
                         /\ edges'[Len(edges) + k].b = q[k]
                         /\ edges'[Len(edges) + k].style = "bridge"
      BY <1>2, BridgeAdds
<1>0. \E S : edges' \in Seq(S)
      BY <1>2, BridgeAdds
<1> HIDE DEF c, q
<1>4. Len(edges) \in Nat /\ DOMAIN edges = 1..Len(edges)
      BY <1>2, EdgesAre
<1>5. /\ \A i \in DOMAIN edges : i \in DOMAIN edges'
      /\ \A k \in 1..c : Len(edges) + k \in DOMAIN edges' /\ Len(edges) + k \notin DOMAIN edges
      /\ \A i \in DOMAIN edges' : i \in DOMAIN edges \/ \E k \in 1..c : i = Len(edges) + k
  <2>1. ASSUME NEW i \in 1..Len(edges) + c, i \notin 1..Len(edges)
        PROVE  i - Len(edges) \in 1..c /\ i = Len(edges) + (i - Len(edges))
        BY <1>3, <1>4, <2>1
  <2>2. QED BY <1>3, <1>4, <2>1
<1>6. /\ kind = sheet.kind /\ n \in DOMAIN kind /\ ~IsPoint(n)
      /\ \A m \in Stubs(n) : m \in DOMAIN kind /\ IsPoint(m) /\ m # n
      BY <1>1, <1>2 DEF Symbols, Stubs, BridgedSoFar, Bridging, IsPoint
<1>7. \A m : /\ \A i \in At(m) : i \in At(m)'
             /\ \A k \in 1..c : Len(edges) + k \in At(m)' <=> m = n \/ m = q[k]
             /\ \A i \in At(m)' : i \in At(m) \/ \E k \in 1..c : i = Len(edges) + k
  <2>1. \A m, i : i \in At(m)' <=> i \in DOMAIN edges' /\ m \in {edges'[i].a, edges'[i].b}
        BY DEF At
  <2>2. \A m, i : i \in At(m) <=> i \in DOMAIN edges /\ m \in {edges[i].a, edges[i].b}
        BY DEF At
  <2>3. \A m : \A i \in At(m) : i \in At(m)'
        BY <1>3, <1>5, <2>1, <2>2
  <2>4. \A k \in 1..c : edges'[Len(edges) + k].a = n /\ edges'[Len(edges) + k].b = q[k]
        BY <1>3
  <2>5. \A m : \A k \in 1..c : Len(edges) + k \in At(m)' <=> m = n \/ m = q[k]
        BY <1>5, <2>1, <2>4
  <2>6. ASSUME NEW m, NEW i \in At(m)'
        PROVE  i \in At(m) \/ \E k \in 1..c : i = Len(edges) + k
    <3>1. i \in DOMAIN edges' /\ m \in {edges'[i].a, edges'[i].b}
          BY <2>1
    <3>2. CASE i \in DOMAIN edges
      <4>1. edges'[i] = edges[i]
            BY <1>3, <3>2
      <4>2. QED BY <2>2, <3>1, <3>2, <4>1
    <3>3. CASE i \notin DOMAIN edges
          BY <1>5, <3>1, <3>3
    <3>4. QED BY <3>2, <3>3
  <2>7. QED BY <2>3, <2>5, <2>6
<1>8. /\ \A i \in DOMAIN edges : IsBridge(i)' <=> IsBridge(i)
      /\ \A k \in 1..c : edges'[Len(edges) + k].style = "bridge"
      /\ \A m : IsPoint(m)' <=> IsPoint(m)
  <2>1. \A k \in 1..c : edges'[Len(edges) + k].style = "bridge"
        BY <1>3
  <2>2. \A i \in DOMAIN edges : edges'[i].style = edges[i].style
        BY <1>3
  <2>3. \A i : IsBridge(i)' <=> edges'[i].style = "bridge"
        BY DEF IsBridge
  <2>4. QED BY <1>1, <2>1, <2>2, <2>3 DEF IsBridge, IsPoint
<1>9. \A m \in Stubs(n) : \E x \in At(m) : At(m) = {x}
  <2>1. \A m \in Stubs(n) : Cardinality(At(m)) = 1
        BY DEF Stubs
  <2>2. QED BY <1>2, <2>1, EdgesAre, FS_Singleton
<1>10. \A m \in Stubs(n) : \A i \in At(m) : ~IsBridge(i)
      BY <1>1, <1>2, <1>6, <1>9 DEF BridgedSoFar, Bridging
<1>11. StrokesAre'
  <2>1. ASSUME NEW i \in DOMAIN edges'
        PROVE  /\ edges'[i].a \in DOMAIN kind' /\ edges'[i].b \in DOMAIN kind'
               /\ edges'[i].a # edges'[i].b
               /\ edges'[i].style \in StrokeStyles
    <3>1. CASE i \in DOMAIN edges
          BY <1>1, <1>2, <1>3, <3>1 DEF StrokesAre
    <3>2. CASE i \notin DOMAIN edges
      <4>1. PICK k \in 1..c : i = Len(edges) + k
            BY <1>5, <3>2
      <4>2. edges'[i].a = n /\ edges'[i].b = q[k] /\ edges'[i].style = "bridge"
            BY <1>3, <4>1
      <4>3. q[k] \in Stubs(n)
            BY <1>3, <4>1
      <4>4. QED BY <1>1, <1>6, <4>2, <4>3 DEF StrokeStyles
    <3>3. QED BY <3>1, <3>2
  <2>2. QED BY <1>0, <1>1, <1>2, <2>1 DEF StrokesAre
<1>12. BridgedOnce'
  <2>1. SUFFICES ASSUME NEW m \in DOMAIN sheet.kind, IsPoint(m),
                        NEW i \in At(m)', NEW j \in At(m)', IsBridge(i)', IsBridge(j)'
                 PROVE  i = j
        BY <1>1, <1>8 DEF BridgedOnce
  <2>2. m # n
        BY <1>6, <2>1
  <2>3. CASE i \in At(m) /\ j \in At(m)
        BY <1>2, <1>8, <2>1, <2>3 DEF BridgedOnce, At
  <2>4. ASSUME NEW k \in 1..c, NEW l \in At(m),
               Len(edges) + k \in At(m)', IsBridge(l)'
        PROVE  FALSE
    <3>1. m = q[k] /\ q[k] \in Stubs(n)
          BY <1>3, <1>7, <2>2, <2>4
    <3>2. l \in DOMAIN edges
          BY DEF At
    <3>3. QED BY <1>8, <1>10, <2>4, <3>1, <3>2
  <2>5. CASE i \notin At(m) /\ j \notin At(m)
    <3>1. PICK k \in 1..c : i = Len(edges) + k
          BY <1>7, <2>1, <2>5
    <3>2. PICK l \in 1..c : j = Len(edges) + l
          BY <1>7, <2>1, <2>5
    <3>3. m = q[k] /\ m = q[l]
          BY <1>7, <2>1, <2>2, <3>1, <3>2
    <3>4. QED BY <1>3, <3>1, <3>2, <3>3
  <2>6. CASE i \in At(m) /\ j \notin At(m)
    <3>1. PICK k \in 1..c : j = Len(edges) + k
          BY <1>7, <2>1, <2>6
    <3>2. QED BY <2>1, <2>4, <2>6, <3>1
  <2>7. CASE i \notin At(m) /\ j \in At(m)
    <3>1. PICK k \in 1..c : i = Len(edges) + k
          BY <1>7, <2>1, <2>7
    <3>2. QED BY <2>1, <2>4, <2>7, <3>1
  <2>8. QED BY <2>3, <2>5, <2>6, <2>7
<1>13. BridgedSoFar'
  <2>1. ASSUME NEW e \in ToSet(edges'), e.style # "bridge"
        PROVE  e \in ToSet(sheet.strokes)
    <3>1. PICK i \in DOMAIN edges' : e = edges'[i]
          BY DEF ToSet
    <3>2. i \in DOMAIN edges
      <4>1. \A k \in 1..c : edges'[Len(edges) + k].style = "bridge"
            BY <1>3
      <4>2. QED BY <1>5, <2>1, <3>1, <4>1
    <3>3. e \in ToSet(edges)
          BY <1>3, <3>1, <3>2 DEF ToSet
    <3>4. QED BY <1>1, <1>2, <2>1, <3>3 DEF BridgedSoFar, Bridging
  <2>2. ASSUME NEW e \in ToSet(sheet.strokes)
        PROVE  e \in ToSet(edges')
    <3>1. e \in ToSet(edges)
          BY <1>1, <1>2 DEF BridgedSoFar, Bridging
    <3>2. PICK i \in DOMAIN edges : e = edges[i]
          BY <3>1 DEF ToSet
    <3>3. QED BY <1>3, <1>5, <3>2 DEF ToSet
  <2>3. ASSUME NEW i \in DOMAIN edges', IsBridge(i)'
        PROVE  ~IsPoint(edges'[i].a)
    <3>1. CASE i \in DOMAIN edges
          BY <1>1, <1>2, <1>3, <1>8, <2>3, <3>1 DEF BridgedSoFar, Bridging
    <3>2. CASE i \notin DOMAIN edges
      <4>1. PICK k \in 1..c : i = Len(edges) + k
            BY <1>5, <3>2
      <4>2. edges'[i].a = n
            BY <1>3, <4>1
      <4>3. QED BY <1>6, <4>2
    <3>3. QED BY <3>1, <3>2
  <2>4. ASSUME NEW m \in DOMAIN kind, IsPoint(m), NEW i \in At(m)', IsBridge(i)'
        PROVE  \E j \in At(m)' : j # i
    <3>1. CASE i \in At(m)
      <4>1. IsBridge(i)
            BY <1>8, <2>4, <3>1 DEF At
      <4>2. \E j \in At(m) : j # i
            BY <1>1, <1>2, <2>4, <3>1, <4>1 DEF BridgedSoFar, Bridging
      <4>3. QED BY <1>7, <4>2
    <3>2. CASE i \notin At(m)
      <4>1. PICK k \in 1..c : i = Len(edges) + k
            BY <1>7, <2>4, <3>2
      <4>2. m # n
            BY <1>6, <2>4
      <4>3. m = q[k] /\ q[k] \in Stubs(n)
            BY <1>3, <1>7, <2>4, <4>1, <4>2
      <4>4. PICK x \in At(m) : At(m) = {x}
            BY <1>9, <4>3
      <4>5. x \in At(m)' /\ x # i
            BY <1>7, <3>2, <4>4
      <4>6. QED BY <4>5
    <3>3. QED BY <3>1, <3>2
  <2>5. \A m \in DOMAIN kind :
           IF IsPoint(m) THEN kind[m] \in {"point", "dead-end", "corner", "junction"}
                         ELSE kind[m] \in {"valve", "instrument"}
        BY <1>1, <1>2 DEF BridgedSoFar, Bridging
  <2>6. visited = {} /\ walk = NoWalk /\ runs = <<>>
        BY <1>1, <1>2 DEF BridgedSoFar, Bridging
  <2>7. QED BY <1>1, <1>6, <1>8, <2>1, <2>2, <2>3, <2>4, <2>5, <2>6 DEF BridgedSoFar
<1>14. ClaimedSince'
      BY <1>1 DEF ClaimedSince, Bridging
<1>15. QED BY <1>11, <1>12, <1>13, <1>14 DEF BuildInv

LEMMA ClassifyKeeps ==
    ASSUME BuildInv, Classify
    PROVE  BuildInv'
<1>1. /\ building = "bridge" /\ building' = "claim" /\ sheet' = sheet /\ edges' = edges
      /\ visited' = visited /\ walk' = walk /\ runs' = runs
      BY DEF Classify
<1>2. StrokesAre /\ BridgedOnce /\ BridgedSoFar
      BY DEF BuildInv
<1>3. kind = sheet.kind
      BY <1>1, <1>2 DEF BridgedSoFar, Bridging
<1>4. /\ DOMAIN kind' = DOMAIN kind
      /\ \A n \in DOMAIN kind : IF IsPoint(n) THEN kind'[n] \in {"dead-end", "corner", "junction"}
                                              ELSE kind'[n] = kind[n]
      BY <1>3 DEF Classify, IsPoint
<1>5. /\ \A n : At(n)' = At(n)
      /\ \A i : IsBridge(i)' <=> IsBridge(i)
      /\ \A n : IsPoint(n)' <=> IsPoint(n)
      BY <1>1 DEF At, IsBridge, IsPoint
<1>6. StrokesAre'
  <2>1. \A n \in DOMAIN kind : kind[n] \in NodeKinds
        BY <1>2, EdgesAre
  <2>2. \A n \in DOMAIN kind' : kind'[n] \in NodeKinds
        BY <1>4, <2>1 DEF NodeKinds
  <2>3. kind' \in Seq(NodeKinds)
    <3>1. kind' = [n \in DOMAIN kind' |-> kind'[n]]
          BY DEF Classify
    <3>2. DOMAIN kind' = 1..Len(kind) /\ Len(kind) \in Nat
          BY <1>2, <1>4, EdgesAre
    <3>3. kind' \in [1..Len(kind) -> NodeKinds]
          BY <2>2, <3>1, <3>2
    <3>4. QED BY <3>2, <3>3
  <2>4. QED BY <1>1, <1>2, <1>4, <2>3 DEF StrokesAre
<1>7. BridgedOnce'
      BY <1>1, <1>2, <1>5 DEF BridgedOnce
<1>8. BridgedSoFar'
      BY <1>1, <1>2, <1>3, <1>4, <1>5 DEF BridgedSoFar, Bridging
<1>9. ClaimedSince'
      BY <1>1 DEF ClaimedSince, Bridging
<1>10. QED BY <1>6, <1>7, <1>8, <1>9 DEF BuildInv

----------------------------------------------------------------------------
(* The claim.                                                                *)

Outside == {i \in DOMAIN edges : ~Inside(edges[i])}
Nozzles == {n \in Owned : \E i \in Outside : n \in EdgeEnds(i)}

\* The strokes that are kept, and the nodes of boxes they reach.
KeptStrokes == [k \in 1..Cardinality(Outside) |-> edges[Nth(Outside, k)]]

LEMMA KeptAre ==
    ASSUME StrokesAre
    PROVE  /\ Cardinality(Outside) \in Nat
           /\ \A k \in 1..Cardinality(Outside) : Nth(Outside, k) \in Outside
           /\ \A k, l \in 1..Cardinality(Outside) : Nth(Outside, k) = Nth(Outside, l) => k = l
           /\ \A i \in Outside : \E k \in 1..Cardinality(Outside) : Nth(Outside, k) = i
           /\ Owned \cap UNION {{e.a, e.b} : e \in ToSet(KeptStrokes)} = Nozzles
<1> DEFINE c == Cardinality(Outside)
<1>1. /\ Outside \in SUBSET Nat /\ IsFiniteSet(Outside) /\ Outside \subseteq DOMAIN edges
  <2>1. Outside \in SUBSET DOMAIN edges
        BY DEF Outside
  <2>2. DOMAIN edges \subseteq Nat /\ IsFiniteSet(DOMAIN edges)
        BY EdgesAre
  <2>3. QED BY <2>1, <2>2, FS_Subset
<1>2. /\ c \in Nat
      /\ \A k \in 1..c : Nth(Outside, k) \in Outside
      /\ \A k, l \in 1..c : Nth(Outside, k) = Nth(Outside, l) => k = l
      /\ \A i \in Outside : \E k \in 1..c : Nth(Outside, k) = i
      BY <1>1, NthIs
<1>3. \A e : e \in ToSet(KeptStrokes) <=> \E k \in 1..c : e = edges[Nth(Outside, k)]
      BY DEF ToSet, KeptStrokes
<1> HIDE DEF c
<1>4. \A e : e \in ToSet(KeptStrokes) <=> \E i \in Outside : e = edges[i]
  <2>1. ASSUME NEW e, NEW i \in Outside, e = edges[i]
        PROVE  e \in ToSet(KeptStrokes)
    <3>1. PICK k \in 1..c : Nth(Outside, k) = i
          BY <1>2
    <3>2. QED BY <1>3, <2>1, <3>1
  <2>2. QED BY <1>2, <1>3, <2>1
<1>5. ASSUME NEW n
      PROVE  n \in UNION {{e.a, e.b} : e \in ToSet(KeptStrokes)}
                 <=> \E i \in Outside : n \in EdgeEnds(i)
  <2>1. n \in UNION {{e.a, e.b} : e \in ToSet(KeptStrokes)} <=>
            \E e \in ToSet(KeptStrokes) : n \in {e.a, e.b}
        OBVIOUS
  <2>2. QED BY <1>4, <2>1 DEF EdgeEnds
<1>6. Owned \cap UNION {{e.a, e.b} : e \in ToSet(KeptStrokes)} = Nozzles
      BY <1>5 DEF Nozzles
<1>7. QED BY <1>2, <1>6 DEF c

LEMMA ClaimMakes ==
    ASSUME StrokesAre, DOMAIN kind = DOMAIN sheet.kind, Claim
    PROVE  LET c == Cardinality(Outside)
               d == Cardinality(Nozzles)
               q == SetToSeq(Nozzles)
           IN  /\ c \in Nat /\ d \in Nat
               /\ \A k \in 1..c : Nth(Outside, k) \in Outside
               /\ \A k, l \in 1..c : Nth(Outside, k) = Nth(Outside, l) => k = l
               /\ \A i \in Outside : \E k \in 1..c : Nth(Outside, k) = i
               /\ q \in [1..d -> Nozzles]
               /\ \A m \in Nozzles : \E k \in 1..d : q[k] = m
               /\ DOMAIN edges' = 1..c + d
               /\ \A k \in 1..c : edges'[k] = edges[Nth(Outside, k)]
               /\ \A k \in 1..d : /\ edges'[c + k].a = q[k]
                                  /\ edges'[c + k].b = Len(kind) + sheet.owner[q[k]]
                                  /\ edges'[c + k].style = "internal"
               /\ \E S : edges' \in Seq(S)
<1> DEFINE c == Cardinality(Outside)
           d == Cardinality(Nozzles)
           q == SetToSeq(Nozzles)
           kept == [k \in 1..c |-> edges[Nth(Outside, k)]]
           new == [k \in 1..d |-> [a |-> q[k], b |-> Len(kind) + sheet.owner[q[k]],
                                   style |-> "internal", length |-> 10]]
<1>2. /\ c \in Nat
      /\ \A k \in 1..c : Nth(Outside, k) \in Outside
      /\ \A k, l \in 1..c : Nth(Outside, k) = Nth(Outside, l) => k = l
      /\ \A i \in Outside : \E k \in 1..c : Nth(Outside, k) = i
      BY KeptAre
<1>3. IsFiniteSet(Nozzles)
  <2>1. Nozzles \in SUBSET DOMAIN kind
        BY SheetIs DEF Nozzles, StrokesAre
  <2>2. Len(kind) \in Nat /\ DOMAIN kind = 1..Len(kind)
        BY EdgesAre
  <2>3. IsFiniteSet(1..Len(kind))
        BY <2>2, FS_Interval
  <2>4. QED BY <2>1, <2>2, <2>3, FS_Subset
<1>4. /\ d \in Nat
      /\ q \in [1..d -> Nozzles]
      /\ \A m \in Nozzles : \E k \in 1..d : q[k] = m
      BY <1>3, Listed
<1>5. Owned \cap UNION {{e.a, e.b} : e \in ToSet(kept)} = Nozzles
      BY KeptAre DEF KeptStrokes
<1>6. edges' = kept \o new
  <2> DEFINE nozzles == Owned \cap UNION {{e.a, e.b} : e \in ToSet(kept)}
             order   == SetToSeq(nozzles)
  <2>1. edges' = kept \o [k \in DOMAIN order |->
                 [a |-> order[k], b |-> Len(kind) + sheet.owner[order[k]],
                  style |-> "internal", length |-> 10]]
        BY DEF Claim, Outside
  <2>2. nozzles = Nozzles
        BY <1>5
  <2> HIDE DEF kept, nozzles
  <2>3. order = q
        BY <2>2
  <2>4. DOMAIN q = 1..d
        BY <1>4
  <2> HIDE DEF order, q, d
  <2>5. QED BY <2>1, <2>3, <2>4
<1>7. /\ Len(new) = d /\ Len(kept) = c
      BY <1>2, <1>4
<1>8. \A k \in 1..d : /\ new[k].a = q[k]
                      /\ new[k].b = Len(kind) + sheet.owner[q[k]]
                      /\ new[k].style = "internal"
      OBVIOUS
<1>9. \A k \in 1..c : kept[k] = edges[Nth(Outside, k)]
      OBVIOUS
<1>10. PICK T : kept \in Seq(T) /\ new \in Seq(T)
  <2> DEFINE T == {kept[k] : k \in 1..c} \cup {new[k] : k \in 1..d}
  <2>1. \A k \in 1..c : kept[k] \in T
        OBVIOUS
  <2>2. \A k \in 1..d : new[k] \in T
        OBVIOUS
  <2>3. kept = [k \in 1..c |-> kept[k]] /\ new = [k \in 1..d |-> new[k]]
        OBVIOUS
  <2> HIDE DEF kept, new, T, c, d
  <2>4. kept \in [1..c -> T] /\ new \in [1..d -> T]
        BY <2>1, <2>2, <2>3
  <2>5. c \in Nat /\ d \in Nat
        BY <1>2, <1>4
  <2>6. kept \in Seq(T)
        BY <2>4, <2>5
  <2>7. new \in Seq(T)
        BY <2>4, <2>5
  <2>8. QED BY <2>6, <2>7
<1> HIDE DEF new, kept, c, d, q
<1>11. /\ edges' \in Seq(T) /\ DOMAIN edges' = 1..c + d
       /\ \A k \in 1..c : edges'[k] = kept[k]
       /\ \A k \in 1..d : edges'[c + k] = new[k]
       BY <1>6, <1>7, <1>10, PutTogether
<1>12. QED BY <1>2, <1>4, <1>8, <1>9, <1>11 DEF c, d, q

LEMMA ClaimKinds ==
    ASSUME StrokesAre, DOMAIN kind = DOMAIN sheet.kind, Claim
    PROVE  /\ kind' \in Seq(NodeKinds)
           /\ DOMAIN kind' = 1..Len(kind) + Len(sheet.shape)
           /\ \A n \in DOMAIN kind : kind'[n] = IF n \in Nozzles THEN "nozzle" ELSE kind[n]
           /\ \A n \in DOMAIN kind' : n \notin DOMAIN kind => kind'[n] = "equipment"
           /\ \A n \in Owned : /\ Len(kind) + sheet.owner[n] \in DOMAIN kind'
                               /\ Len(kind) + sheet.owner[n] \notin DOMAIN kind
<1> DEFINE old == [n \in DOMAIN kind |-> IF n \in Nozzles THEN "nozzle" ELSE kind[n]]
           items == [k \in DOMAIN sheet.shape |-> "equipment"]
<1>1. Owned \cap UNION {{e.a, e.b} : e \in ToSet([k \in 1..Cardinality(Outside) |->
          edges[Nth(Outside, k)]])} = Nozzles
      BY KeptAre DEF KeptStrokes
<1>2. kind' = old \o items
      BY <1>1 DEF Claim, Outside
<1>3. /\ Len(kind) \in Nat /\ DOMAIN kind = 1..Len(kind)
      /\ \A n \in DOMAIN kind : kind[n] \in NodeKinds
      /\ Len(sheet.shape) \in Nat /\ DOMAIN sheet.shape = 1..Len(sheet.shape)
      /\ \A n \in Owned : sheet.owner[n] \in DOMAIN sheet.shape
      BY EdgesAre, SheetIs DEF StrokesAre
<1>4. old \in Seq(NodeKinds) /\ items \in Seq(NodeKinds)
      /\ Len(old) = Len(kind) /\ Len(items) = Len(sheet.shape)
      BY <1>3 DEF NodeKinds
<1>5. /\ \A n \in 1..Len(kind) : old[n] = IF n \in Nozzles THEN "nozzle" ELSE kind[n]
      /\ \A k \in 1..Len(sheet.shape) : items[k] = "equipment"
      BY <1>3
<1> HIDE DEF old, items
<1>6. /\ kind' \in Seq(NodeKinds) /\ DOMAIN kind' = 1..Len(kind) + Len(sheet.shape)
      /\ \A n \in 1..Len(kind) : kind'[n] = old[n]
      /\ \A k \in 1..Len(sheet.shape) : kind'[Len(kind) + k] = items[k]
  <2>1. PICK T : T = NodeKinds /\ old \in Seq(T) /\ items \in Seq(T)
        BY <1>4
  <2>2. /\ kind' \in Seq(T)
        /\ DOMAIN kind' = 1..Len(old) + Len(items)
        /\ \A n \in 1..Len(old) : kind'[n] = old[n]
        /\ \A k \in 1..Len(items) : kind'[Len(old) + k] = items[k]
        BY <1>2, <2>1, PutTogether
  <2>3. QED BY <1>4, <2>1, <2>2
<1>7. ASSUME NEW n \in DOMAIN kind', n \notin DOMAIN kind
      PROVE  kind'[n] = "equipment"
  <2>1. n - Len(kind) \in 1..Len(sheet.shape) /\ n = Len(kind) + (n - Len(kind))
        BY <1>3, <1>6, <1>7
  <2>2. QED BY <1>5, <1>6, <2>1
<1>8. ASSUME NEW n \in Owned
      PROVE  /\ Len(kind) + sheet.owner[n] \in DOMAIN kind'
             /\ Len(kind) + sheet.owner[n] \notin DOMAIN kind
      BY <1>3, <1>6
<1>9. QED BY <1>3, <1>5, <1>6, <1>7, <1>8

LEMMA SameBound ==
    ASSUME NEW a \in Nat, NEW b \in Nat, 1..a = 1..b
    PROVE  a = b
<1>1. /\ a # 0 => a \in 1..a
      /\ b # 0 => b \in 1..b
      OBVIOUS
<1>2. /\ a # 0 => a \in 1..b
      /\ b # 0 => b \in 1..a
      BY <1>1
<1>3. QED BY <1>2

LEMMA ClaimKeeps ==
    ASSUME BuildInv, Claim
    PROVE  BuildInv'
<1> DEFINE c == Cardinality(Outside)
           d == Cardinality(Nozzles)
           q == SetToSeq(Nozzles)
<1>1. /\ building = "claim" /\ building' = "chains" /\ sheet' = sheet
      BY DEF Claim
<1>2. StrokesAre /\ BridgedOnce /\ BridgedSoFar /\ DOMAIN kind = DOMAIN sheet.kind
      BY <1>1 DEF BuildInv, BridgedSoFar, Bridging
<1>3. /\ c \in Nat /\ d \in Nat
      /\ \A k \in 1..c : Nth(Outside, k) \in Outside
      /\ \A k, l \in 1..c : Nth(Outside, k) = Nth(Outside, l) => k = l
      /\ \A i \in Outside : \E k \in 1..c : Nth(Outside, k) = i
      /\ q \in [1..d -> Nozzles]
      /\ \A m \in Nozzles : \E k \in 1..d : q[k] = m
      /\ DOMAIN edges' = 1..c + d
      /\ \A k \in 1..c : edges'[k] = edges[Nth(Outside, k)]
      /\ \A k \in 1..d : /\ edges'[c + k].a = q[k]
                         /\ edges'[c + k].b = Len(kind) + sheet.owner[q[k]]
                         /\ edges'[c + k].style = "internal"
      BY <1>2, ClaimMakes
<1>4. \E S : edges' \in Seq(S)
      BY <1>2, ClaimMakes
<1>5. /\ kind' \in Seq(NodeKinds)
      /\ \A n \in DOMAIN kind : n \in DOMAIN kind'
      /\ \A n \in DOMAIN kind : kind'[n] = IF n \in Nozzles THEN "nozzle" ELSE kind[n]
      /\ \A n \in DOMAIN kind' : n \notin DOMAIN kind => kind'[n] = "equipment"
      /\ \A n \in Owned : /\ Len(kind) + sheet.owner[n] \in DOMAIN kind'
                          /\ Len(kind) + sheet.owner[n] \notin DOMAIN kind
  <2>1. Len(kind) \in Nat /\ DOMAIN kind = 1..Len(kind) /\ Len(sheet.shape) \in Nat
        BY <1>2, EdgesAre, SheetIs DEF StrokesAre
  <2>2. \A n \in 1..Len(kind) : n \in 1..Len(kind) + Len(sheet.shape)
        BY <2>1
  <2>3. DOMAIN kind' = 1..Len(kind) + Len(sheet.shape)
        BY <1>2, ClaimKinds
  <2>4. \A n \in DOMAIN kind : n \in DOMAIN kind'
        BY <2>1, <2>2, <2>3
  <2>5. QED BY <1>2, <2>4, ClaimKinds
<1>6. Nozzles \subseteq Owned /\ Owned \subseteq DOMAIN kind /\ Outside \subseteq DOMAIN edges
      BY <1>2, SheetIs DEF Nozzles, StrokesAre, Outside
<1> HIDE DEF c, d, q
<1>7. /\ \A k \in 1..c : k \in DOMAIN edges'
      /\ \A k \in 1..d : c + k \in DOMAIN edges' /\ c + k \notin 1..c
      /\ \A i \in DOMAIN edges' : i \in 1..c \/ \E k \in 1..d : i = c + k
  <2>1. ASSUME NEW i \in 1..c + d, i \notin 1..c
        PROVE  i - c \in 1..d /\ i = c + (i - c)
        BY <1>3, <2>1
  <2>2. QED BY <1>3, <2>1
<1>8. ASSUME NEW i \in DOMAIN edges', i \notin 1..c
      PROVE  \E m \in Nozzles : /\ edges'[i].a = m
                                /\ edges'[i].b = Len(kind) + sheet.owner[m]
                                /\ edges'[i].style = "internal"
  <2>1. PICK k \in 1..d : i = c + k
        BY <1>7, <1>8
  <2>2. q[k] \in Nozzles
        BY <1>3
  <2>3. QED BY <1>3, <2>1, <2>2
<1>9. ASSUME NEW i \in 1..c
      PROVE  Nth(Outside, i) \in DOMAIN edges /\ edges'[i] = edges[Nth(Outside, i)]
      BY <1>3, <1>6
<1>10. \A i \in DOMAIN edges : edges[i].style \in {"solid", "dashed", "bridge"}
  <2>1. SUFFICES ASSUME NEW i \in DOMAIN edges, edges[i].style # "bridge"
                 PROVE  edges[i].style \in {"solid", "dashed"}
        OBVIOUS
  <2>2. edges[i] \in ToSet(sheet.strokes)
        BY <1>1, <1>2, <2>1 DEF BridgedSoFar, Bridging, ToSet
  <2>3. QED BY <1>2, <2>2, SheetIs DEF StrokesAre
<1>11. \A i \in DOMAIN edges' : edges'[i].style = "bridge" => i \in 1..c
      BY <1>8
<1>12. StrokesAre'
  <2>1. ASSUME NEW i \in DOMAIN edges'
        PROVE  /\ edges'[i].a \in DOMAIN kind' /\ edges'[i].b \in DOMAIN kind'
               /\ edges'[i].a # edges'[i].b
               /\ edges'[i].style \in StrokeStyles
    <3>1. CASE i \in 1..c
          BY <1>2, <1>5, <1>9, <3>1 DEF StrokesAre
    <3>2. CASE i \notin 1..c
      <4>1. PICK m \in Nozzles : /\ edges'[i].a = m
                                 /\ edges'[i].b = Len(kind) + sheet.owner[m]
                                 /\ edges'[i].style = "internal"
            BY <1>8, <3>2
      <4>2. m \in Owned /\ m \in DOMAIN kind
            BY <1>6
      <4>3. QED BY <1>5, <4>1, <4>2 DEF StrokeStyles
    <3>3. QED BY <3>1, <3>2
  <2>2. QED BY <1>1, <1>2, <1>4, <1>5, <2>1 DEF StrokesAre
<1>13. BridgedOnce'
  <2>1. SUFFICES ASSUME NEW m \in DOMAIN sheet.kind, IsPoint(m),
                        NEW i \in At(m)', NEW j \in At(m)', IsBridge(i)', IsBridge(j)'
                 PROVE  i = j
        BY <1>1 DEF BridgedOnce, IsPoint
  <2>2. \A l \in At(m)' : l \in DOMAIN edges' /\ m \in {edges'[l].a, edges'[l].b}
        BY DEF At
  <2>3. i \in 1..c /\ j \in 1..c
        BY <1>11, <2>1, <2>2 DEF IsBridge
  <2>4. \A l \in 1..c : l \in At(m)' => Nth(Outside, l) \in At(m)
        BY <1>9, <2>2 DEF At
  <2>5. edges[Nth(Outside, i)].style = "bridge" /\ edges[Nth(Outside, j)].style = "bridge"
        BY <1>9, <2>1, <2>3 DEF IsBridge
  <2>6. \A x, y \in At(m) : edges[x].style = "bridge" /\ edges[y].style = "bridge" => x = y
        BY <1>2, <2>1 DEF BridgedOnce, IsBridge
  <2>7. Nth(Outside, i) = Nth(Outside, j)
        BY <2>1, <2>3, <2>4, <2>5, <2>6
  <2>8. QED BY <1>3, <2>3, <2>7
<1>14. BridgedSoFar'
      BY <1>1 DEF BridgedSoFar, Bridging
<1>15. ClaimedSince'
  <2>1. ASSUME NEW e \in ToSet(sheet.strokes)
        PROVE  e \in ToSet(edges') <=> ~Inside(e)
    <3>1. e \in ToSet(edges) /\ e.style \in {"solid", "dashed"}
          BY <1>1, <1>2, SheetIs DEF BridgedSoFar, Bridging, StrokesAre
    <3>2. ASSUME e \in ToSet(edges')
          PROVE  ~Inside(e)
      <4>1. PICK i \in DOMAIN edges' : e = edges'[i]
            BY <3>2 DEF ToSet
      <4>2. i \in 1..c
            BY <1>8, <3>1, <4>1
      <4>3. Nth(Outside, i) \in Outside /\ e = edges[Nth(Outside, i)]
            BY <1>3, <4>1, <4>2
      <4>4. QED BY <4>3 DEF Outside
    <3>3. ASSUME ~Inside(e)
          PROVE  e \in ToSet(edges')
      <4>1. PICK i \in DOMAIN edges : e = edges[i]
            BY <3>1 DEF ToSet
      <4>2. i \in Outside
            BY <3>3, <4>1 DEF Outside
      <4>3. PICK k \in 1..c : Nth(Outside, k) = i
            BY <1>3, <4>2
      <4>4. k \in DOMAIN edges' /\ edges'[k] = e
            BY <1>7, <1>9, <4>1, <4>3
      <4>5. QED BY <4>4 DEF ToSet
    <3>4. QED BY <3>2, <3>3
  <2>2. ASSUME NEW i \in DOMAIN edges', edges'[i].style = "bridge"
        PROVE  kind'[edges'[i].a] # "corner"
    <3>1. i \in 1..c
          BY <1>11, <2>2
    <3>2. PICK j \in DOMAIN edges : edges'[i] = edges[j]
          BY <1>9, <3>1
    <3>3. IsBridge(j) /\ edges[j].a \in DOMAIN kind
          BY <1>2, <2>2, <3>2 DEF IsBridge, StrokesAre
    <3>4. ~IsPoint(edges[j].a)
          BY <1>1, <1>2, <3>3 DEF BridgedSoFar, Bridging
    <3>5. kind[edges[j].a] \in {"valve", "instrument"}
          BY <1>1, <1>2, <3>3, <3>4 DEF BridgedSoFar, Bridging
    <3>6. QED BY <1>5, <3>2, <3>3, <3>5
  <2>3. ASSUME NEW i \in DOMAIN edges', edges'[i].style = "internal"
        PROVE  kind'[edges'[i].a] # "corner" /\ kind'[edges'[i].b] # "corner"
    <3>1. i \notin 1..c
      <4>1. SUFFICES ASSUME i \in 1..c PROVE FALSE
            OBVIOUS
      <4>2. PICK j \in DOMAIN edges : edges'[i] = edges[j]
            BY <1>9, <4>1
      <4>3. QED BY <1>10, <2>3, <4>2
    <3>2. PICK m \in Nozzles : /\ edges'[i].a = m
                               /\ edges'[i].b = Len(kind) + sheet.owner[m]
          BY <1>8, <3>1
    <3>3. m \in Owned /\ m \in DOMAIN kind
          BY <1>6
    <3>4. QED BY <1>5, <3>2, <3>3
  <2>4. ASSUME NEW n \in DOMAIN kind', kind'[n] = "nozzle"
        PROVE  \E i \in DOMAIN edges' :
                  /\ edges'[i].style = "internal"
                  /\ {edges'[i].a, edges'[i].b} = {n, Len(sheet.kind) + sheet.owner[n]}
    <3>1. n \in DOMAIN kind
          BY <1>5, <2>4
    <3>2. kind[n] # "nozzle"
          BY <1>1, <1>2, <3>1 DEF BridgedSoFar, Bridging
    <3>3. n \in Nozzles
          BY <1>5, <2>4, <3>1, <3>2
    <3>4. PICK k \in 1..d : q[k] = n
          BY <1>3, <3>3
    <3>5. /\ c + k \in DOMAIN edges' /\ edges'[c + k].a = n
          /\ edges'[c + k].b = Len(kind) + sheet.owner[n]
          /\ edges'[c + k].style = "internal"
          BY <1>3, <1>7, <3>4
    <3>6. Len(kind) = Len(sheet.kind)
      <4>1. /\ Len(kind) \in Nat /\ DOMAIN kind = 1..Len(kind)
            /\ Len(sheet.kind) \in Nat /\ DOMAIN sheet.kind = 1..Len(sheet.kind)
            BY <1>2, EdgesAre, SheetIs DEF StrokesAre
      <4>2. 1..Len(kind) = 1..Len(sheet.kind)
            BY <1>2, <4>1
      <4>3. QED BY <4>1, <4>2, SameBound
    <3>7. QED BY <3>5, <3>6
  <2>5. QED BY <1>1, <2>1, <2>2, <2>3, <2>4 DEF ClaimedSince, IsBridge, EdgeEnds, Inside, Owned
<1>16. QED BY <1>12, <1>13, <1>14, <1>15 DEF BuildInv

\* Attaching a reference makes a connector of equipment or a loose end only.
LEMMA ConnectKeeps ==
    ASSUME BuildInv, Connect
    PROVE  BuildInv' /\ Collapsible' = Collapsible
<1>1. /\ building = "connect" /\ building' = building /\ sheet' = sheet /\ edges' = edges
      BY DEF Connect
<1>2. StrokesAre /\ BridgedOnce /\ ClaimedSince
      BY DEF BuildInv
<1>3. /\ DOMAIN kind' = DOMAIN kind
      /\ \A n \in DOMAIN kind : kind'[n] = kind[n]
            \/ (kind'[n] = "off-page" /\ kind[n] \in {"equipment", "dead-end"})
  <2> DEFINE at == sheet.texts[read + 1]
  <2>1. \/ kind' = kind
        \/ kind[at] \in {"equipment", "dead-end"} /\ kind' = [kind EXCEPT ![at] = "off-page"]
    <3> DEFINE free == \/ kind[at] = "equipment" /\ IsCircle(at)
                       \/ kind[at] = "dead-end" /\ Degree(at) = 1
    <3>1. kind' = IF free THEN [kind EXCEPT ![at] = "off-page"] ELSE kind
          BY DEF Connect
    <3>2. free => kind[at] \in {"equipment", "dead-end"}
          OBVIOUS
    <3> HIDE DEF free
    <3>3. QED BY <3>1, <3>2
  <2>2. kind \in [DOMAIN kind -> NodeKinds]
        BY <1>2 DEF StrokesAre
  <2> HIDE DEF at
  <2>3. CASE kind[at] \in {"equipment", "dead-end"} /\ kind' = [kind EXCEPT ![at] = "off-page"]
    <3>1. DOMAIN kind' = DOMAIN kind
          BY <2>3
    <3>2. \A m \in DOMAIN kind : kind'[m] = IF m = at THEN "off-page" ELSE kind[m]
          BY <2>2, <2>3
    <3>3. QED BY <2>3, <3>1, <3>2
  <2>4. QED BY <2>1, <2>3
<1>4. /\ \A n : At(n)' = At(n)
      /\ \A i : IsBridge(i)' <=> IsBridge(i)
      /\ \A n : IsPoint(n)' <=> IsPoint(n)
      /\ \A i : EdgeEnds(i)' = EdgeEnds(i)
      /\ \A n : Styles(At(n))' = Styles(At(n))
      /\ \A e : Inside(e)' <=> Inside(e)
      BY <1>1 DEF At, IsBridge, IsPoint, EdgeEnds, Styles, Inside, Owned
<1>5. \A n \in DOMAIN kind : kind'[n] = "corner" <=> kind[n] = "corner"
      BY <1>3
<1>6. Collapsible' = Collapsible
      BY <1>3, <1>4, <1>5 DEF Collapsible
<1>7. StrokesAre'
  <2>1. \A n \in DOMAIN kind : kind[n] \in NodeKinds
        BY <1>2, EdgesAre
  <2>2. \A n \in DOMAIN kind' : kind'[n] \in NodeKinds
        BY <1>3, <2>1 DEF NodeKinds
  <2>3. kind' \in Seq(NodeKinds)
    <3>1. kind' = [n \in DOMAIN kind' |-> kind'[n]]
          BY <1>2 DEF Connect, StrokesAre
    <3>2. DOMAIN kind' = 1..Len(kind) /\ Len(kind) \in Nat
          BY <1>2, <1>3, EdgesAre
    <3>3. kind' \in [1..Len(kind) -> NodeKinds]
          BY <2>2, <3>1, <3>2
    <3>4. QED BY <3>2, <3>3
  <2>4. QED BY <1>1, <1>2, <1>3, <2>3 DEF StrokesAre
<1>8. BridgedOnce'
      BY <1>1, <1>2, <1>4 DEF BridgedOnce
<1>9. BridgedSoFar'
      BY <1>1 DEF BridgedSoFar, Bridging
<1>10. ClaimedSince'
  <2>1. \A i \in DOMAIN edges : edges[i].a \in DOMAIN kind /\ edges[i].b \in DOMAIN kind
        BY <1>2 DEF StrokesAre
  <2>2. \A n \in DOMAIN kind : kind'[n] = "nozzle" <=> kind[n] = "nozzle"
        BY <1>3
  <2>3. QED BY <1>1, <1>2, <1>3, <1>4, <1>5, <2>1, <2>2 DEF ClaimedSince, Bridging
<1>11. QED BY <1>6, <1>7, <1>8, <1>9, <1>10 DEF BuildInv

\* What leaves the strokes and their nodes alone.
LEMMA StrokesStay ==
    ASSUME sheet' = sheet, edges' = edges, kind' = kind
    PROVE  /\ \A n : At(n)' = At(n)
           /\ \A i : IsBridge(i)' <=> IsBridge(i)
           /\ \A n : IsPoint(n)' <=> IsPoint(n)
           /\ \A i : EdgeEnds(i)' = EdgeEnds(i)
           /\ Collapsible' = Collapsible
           /\ \A i : Anchors(i)' = Anchors(i)
           /\ \A S : Styles(S)' = Styles(S)
           /\ \A e : Inside(e)' <=> Inside(e)
<1>1. \A n : At(n)' = At(n)
      BY DEF At
<1>2. \A S : Styles(S)' = Styles(S)
      BY DEF Styles
<1>3. \A n : Styles(At(n))' = Styles(At(n))
      BY DEF Styles, At
<1>4. Collapsible' = Collapsible
      BY <1>1, <1>3 DEF Collapsible
<1>5. QED BY <1>1, <1>2, <1>4 DEF IsBridge, IsPoint, EdgeEnds, Anchors, Inside, Owned

LEMMA QuietKeeps ==
    ASSUME BuildInv, sheet' = sheet, edges' = edges, kind' = kind, ~Bridging, ~Bridging'
    PROVE  BuildInv'
<1>1. StrokesAre'
      BY DEF BuildInv, StrokesAre
<1>2. BridgedOnce'
      BY StrokesStay DEF BuildInv, BridgedOnce
<1>3. ClaimedSince'
      BY StrokesStay DEF BuildInv, ClaimedSince
<1>4. QED BY <1>1, <1>2, <1>3 DEF BuildInv, BridgedSoFar

----------------------------------------------------------------------------
(* Chains of corners.                                                        *)

LEMMA Appended ==
    ASSUME NEW T, NEW s \in Seq(T), NEW e
    PROVE  /\ Append(s, e) \in Seq(T \cup {e})
           /\ Len(s) \in Nat /\ DOMAIN s = 1..Len(s)
           /\ Len(Append(s, e)) = Len(s) + 1
           /\ DOMAIN Append(s, e) = 1..Len(s) + 1
           /\ \A k \in 1..Len(s) : Append(s, e)[k] = s[k]
           /\ Append(s, e)[Len(s) + 1] = e
<1>1. s \in Seq(T \cup {e}) /\ e \in T \cup {e} /\ Len(s) \in Nat
      OBVIOUS
<1>2. Append(s, e) \in Seq(T \cup {e}) /\ Len(Append(s, e)) = Len(s) + 1
      BY <1>1
<1>3. DOMAIN Append(s, e) = 1..Len(s) + 1 /\ DOMAIN s = 1..Len(s)
      BY <1>2
<1>4. QED BY <1>1, <1>2, <1>3

\* Strokes in a row, none twice.
Trail(chain) ==
    /\ chain \in Seq(Nat) /\ Len(chain) > 0
    /\ \A k \in 1..Len(chain) : chain[k] \in DOMAIN edges
    /\ \A k, l \in 1..Len(chain) : chain[k] = chain[l] => k = l

\* f names the nodes they pass, corners all but the first and the last.
Passes(f, start, chain, at) ==
    /\ DOMAIN f = 1..Len(chain) + 1
    /\ f[1] = start /\ f[Len(chain) + 1] = at
    /\ \A k \in 1..Len(chain) : /\ f[k + 1] = Other(edges[chain[k]], f[k])
                                /\ {f[k], f[k + 1]} = EdgeEnds(chain[k])
    /\ \A k \in 2..Len(chain) : f[k] \in Collapsible

Led(start, chain, at) == Trail(chain) /\ \E f : Passes(f, start, chain, at)

OneStyle(chain, t) == \A k \in 1..Len(chain) : edges[chain[k]].style \in {"bridge", t}

\* The strokes on a run.
Done == visited \ ToSet(walk.chain)

Finished(r) ==
    /\ Led(r.a, r.chain, r.b)
    /\ OneStyle(r.chain, r.style)
    /\ \/ r.a \notin Collapsible /\ r.b \notin Collapsible
       \/ r.a = r.b /\ Len(r.chain) > 1

WalkIs ==
    /\ walk \in [start : Nat, chain : Seq(Nat), at : Nat]
    /\ visited \subseteq DOMAIN edges
    /\ walk # NoWalk =>
          /\ Led(walk.start, walk.chain, walk.at)
          /\ \E t : OneStyle(walk.chain, t)
          /\ ToSet(walk.chain) \subseteq visited
          /\ building = "chains" => walk.start \notin Collapsible

PassesAre ==
    /\ building \in {"chains", "loops", "back", "connect", "built"}
    /\ building \in {"loops", "back"} =>
          \A i \in Left \cup ToSet(walk.chain) : Anchors(i) = {}
    /\ building = "back" => walk # NoWalk
    /\ building \in {"connect", "built"} => Left = {} /\ walk = NoWalk

RunsAre ==
    /\ \E S : runs \in Seq(S)
    /\ \A k \in DOMAIN runs : Finished(runs[k])
    /\ \A i : i \in Done <=> \E k \in DOMAIN runs : i \in ToSet(runs[k].chain)
    /\ \A k, l \in DOMAIN runs : \A i \in ToSet(runs[k].chain) :
          i \in ToSet(runs[l].chain) => k = l

\* A corner is passed once.
CornersArePassed ==
    \A i \in Done : \A n \in EdgeEnds(i) : n \in Collapsible => At(n) \subseteq Done

RunInv == ~Bridging => WalkIs /\ PassesAre /\ RunsAre /\ CornersArePassed

AssemblyInv == BuildInv /\ RunInv

LEMMA ChainSet ==
    ASSUME NEW chain \in Seq(Nat)
    PROVE  /\ Len(chain) \in Nat /\ DOMAIN chain = 1..Len(chain)
           /\ \A k \in 1..Len(chain) : chain[k] \in Nat /\ chain[k] \in ToSet(chain)
           /\ \A i \in ToSet(chain) : \E k \in 1..Len(chain) : chain[k] = i
<1>1. Len(chain) \in Nat /\ DOMAIN chain = 1..Len(chain) /\ \A k \in 1..Len(chain) : chain[k] \in Nat
      OBVIOUS
<1>2. QED BY <1>1 DEF ToSet

\* Not walking, no strokes are on the walk.
LEMMA AtRest == NoWalk.chain = <<>> /\ ToSet(NoWalk.chain) = {}
<1>1. NoWalk.chain = <<>>
      BY DEF NoWalk
<1>2. DOMAIN <<>> = {}
      OBVIOUS
<1>3. QED BY <1>1, <1>2 DEF ToSet

\* What leaves the strokes and the corners alone leaves what was walked.
LEMMA LedStays ==
    ASSUME edges' = edges, Collapsible' = Collapsible
    PROVE  /\ \A a, c, b : Led(a, c, b)' <=> Led(a, c, b)
           /\ \A c, t : OneStyle(c, t)' <=> OneStyle(c, t)
           /\ \A r : Finished(r)' <=> Finished(r)
           /\ \A i : EdgeEnds(i)' = EdgeEnds(i)
           /\ \A n : At(n)' = At(n)
           /\ \A i : Anchors(i)' = Anchors(i)
<1>1. \A i : EdgeEnds(i)' = EdgeEnds(i)
      BY DEF EdgeEnds
<1>2. \A f, a, c, b : Passes(f, a, c, b)' <=> Passes(f, a, c, b)
      BY <1>1 DEF Passes
<1>3. \A c : Trail(c)' <=> Trail(c)
      BY DEF Trail
<1>4. \A a, c, b : Led(a, c, b)' <=> Led(a, c, b)
      BY <1>2, <1>3 DEF Led
<1>5. \A c, t : OneStyle(c, t)' <=> OneStyle(c, t)
      BY DEF OneStyle
<1>6. \A r : Finished(r)' <=> Finished(r)
      BY <1>4, <1>5 DEF Finished
<1>7. \A n : At(n)' = At(n)
      BY DEF At
<1>8. \A i : Anchors(i)' = Anchors(i)
      BY DEF Anchors
<1>9. QED BY <1>1, <1>4, <1>5, <1>6, <1>7, <1>8

\* Setting out over a stroke from one of its ends.
LEMMA FirstStep ==
    ASSUME StrokesAre, NEW i \in DOMAIN edges, NEW start \in EdgeEnds(i)
    PROVE  /\ Led(start, <<i>>, Other(edges[i], start))
           /\ \E t : OneStyle(<<i>>, t)
           /\ ToSet(<<i>>) = {i}
           /\ [start |-> start, chain |-> <<i>>, at |-> Other(edges[i], start)]
                 \in [start : Nat, chain : Seq(Nat), at : Nat]
<1> DEFINE c == <<i>>
           at == Other(edges[i], start)
           f  == [k \in 1..2 |-> IF k = 1 THEN start ELSE at]
<1>1. /\ edges[i].a \in DOMAIN kind /\ edges[i].b \in DOMAIN kind /\ edges[i].a # edges[i].b
      /\ i \in Nat /\ DOMAIN kind \subseteq Nat
      BY EdgesAre DEF StrokesAre
<1>2. c \in Seq(Nat) /\ Len(c) = 1 /\ c[1] = i
      BY <1>1
<1>3. start \in Nat /\ at \in Nat /\ {start, at} = EdgeEnds(i)
      BY <1>1 DEF Other, EdgeEnds
<1>4. DOMAIN f = 1..2 /\ f[1] = start /\ f[2] = at
      OBVIOUS
<1> HIDE DEF c, f
<1>5. Trail(c)
      BY <1>2 DEF Trail
<1>6. Passes(f, start, c, at)
      BY <1>2, <1>3, <1>4 DEF Passes
<1>7. OneStyle(c, edges[i].style)
      BY <1>2 DEF OneStyle
<1>8. ToSet(c) = {i}
      BY <1>2 DEF ToSet
<1>9. QED BY <1>2, <1>3, <1>5, <1>6, <1>7, <1>8 DEF c, Led

LEMMA Along ==
    ASSUME StrokesAre, NEW f, NEW a, NEW c, NEW b, Trail(c), Passes(f, a, c, b)
    PROVE  /\ \A k \in 1..Len(c) : /\ f[k] # f[k + 1]
                                   /\ c[k] \in At(f[k]) /\ c[k] \in At(f[k + 1])
           /\ \A k \in 2..Len(c) : k - 1 \in 1..Len(c) /\ At(f[k]) = {c[k - 1], c[k]}
<1>1. ASSUME NEW k \in 1..Len(c)
      PROVE  f[k] # f[k + 1] /\ c[k] \in At(f[k]) /\ c[k] \in At(f[k + 1])
  <2>1. c[k] \in DOMAIN edges /\ {f[k], f[k + 1]} = {edges[c[k]].a, edges[c[k]].b}
        BY DEF Trail, Passes, EdgeEnds
  <2>2. edges[c[k]].a # edges[c[k]].b
        BY <2>1 DEF StrokesAre
  <2>3. QED BY <2>1, <2>2 DEF At
<1>2. ASSUME NEW k \in 2..Len(c)
      PROVE  k - 1 \in 1..Len(c) /\ At(f[k]) = {c[k - 1], c[k]}
  <2>1. /\ Len(c) \in Nat /\ k - 1 \in 1..Len(c) /\ k \in 1..Len(c) /\ (k - 1) + 1 = k
        /\ k - 1 # k
        BY DEF Trail
  <2>2. f[k] \in Collapsible
        BY DEF Passes
  <2>3. IsFiniteSet(At(f[k])) /\ Cardinality(At(f[k])) = 2
        BY <2>2, EdgesAre DEF Collapsible
  <2>4. c[k - 1] \in At(f[k]) /\ c[k] \in At(f[k])
        BY <1>1, <2>1
  <2>5. c[k - 1] # c[k]
        BY <2>1 DEF Trail
  <2>6. QED BY <2>1, <2>3, <2>4, <2>5, OfTwo
<1>3. QED BY <1>1, <1>2

\* A walk that stops at a corner is back where it set out.
LEMMA ComesBack ==
    ASSUME StrokesAre, CornersArePassed, WalkIs, Arrived, walk.at \in Collapsible
    PROVE  /\ walk.start = walk.at /\ Len(walk.chain) > 1
           /\ At(walk.at) \subseteq ToSet(walk.chain)
<1> DEFINE c == walk.chain
           n == Len(c)
           at == walk.at
<1>1. walk # NoWalk /\ Led(walk.start, c, at) /\ At(at) \subseteq visited
      BY DEF Arrived, Ways, WalkIs
<1>2. Trail(c) /\ c \in Seq(Nat) /\ n \in Nat /\ n > 0
      BY <1>1 DEF Led, Trail
<1>3. PICK f : Passes(f, walk.start, c, at)
      BY <1>1 DEF Led
<1>4. /\ \A k \in 1..n : f[k] # f[k + 1] /\ c[k] \in At(f[k]) /\ c[k] \in At(f[k + 1])
      /\ \A k \in 2..n : k - 1 \in 1..n /\ At(f[k]) = {c[k - 1], c[k]}
      BY <1>2, <1>3, Along
<1>5. f[1] = walk.start /\ f[n + 1] = at /\ \A k \in 1..n : EdgeEnds(c[k]) = {f[k], f[k + 1]}
      BY <1>3 DEF Passes
<1>6. DOMAIN c = 1..n /\ (\A k \in 1..n : c[k] \in ToSet(c)) /\ \A i \in ToSet(c) : \E k \in 1..n : c[k] = i
      BY <1>2, ChainSet
<1>7. IsFiniteSet(At(at)) /\ Cardinality(At(at)) = 2
      BY EdgesAre DEF Collapsible
<1>8. \A k, l \in 1..n : c[k] = c[l] => k = l
      BY <1>2 DEF Trail
<1> HIDE DEF c, n, at
<1>9. n \in 1..n /\ c[n] \in At(at) /\ f[n] # at
      BY <1>2, <1>4, <1>5
<1>10. PICK y \in At(at) : y # c[n]
      BY <1>7, <1>9, OfTwo
<1>11. At(at) = {y, c[n]}
      BY <1>7, <1>9, <1>10, OfTwo
<1>12. y \notin Done
  <2>1. SUFFICES ASSUME y \in Done PROVE FALSE
        OBVIOUS
  <2>2. at \in EdgeEnds(y)
        BY <1>10 DEF At, EdgeEnds
  <2>3. At(at) \subseteq Done
        BY <2>1, <2>2 DEF CornersArePassed, at
  <2>4. c[n] \notin Done
        BY <1>6, <1>9 DEF Done, c
  <2>5. QED BY <1>9, <2>3, <2>4
<1>13. y \in ToSet(c)
      BY <1>1, <1>10, <1>12 DEF Done, c
<1>14. PICK m \in 1..n : c[m] = y
      BY <1>6, <1>13
<1>15. m # n /\ m \in 1..n /\ m + 1 \in 2..n
      BY <1>2, <1>10, <1>14
<1>16. at \in {f[m], f[m + 1]}
  <2>1. at \in EdgeEnds(y)
        BY <1>10 DEF At, EdgeEnds
  <2>2. QED BY <1>5, <1>14, <2>1
<1>17. \A q \in 2..n : f[q] # at
  <2>1. SUFFICES ASSUME NEW q \in 2..n, f[q] = at PROVE FALSE
        OBVIOUS
  <2>2. c[n] \in {c[q - 1], c[q]} /\ q - 1 \in 1..n /\ q \in 1..n
        BY <1>4, <1>9, <2>1
  <2>3. q - 1 # n
        BY <1>2
  <2>4. q = n
        BY <1>8, <1>9, <2>2, <2>3
  <2>5. QED BY <1>9, <2>1, <2>4
<1>18. f[m] = at /\ m = 1
  <2>1. f[m] = at
        BY <1>15, <1>16, <1>17
  <2>2. m \notin 2..n
        BY <1>17, <2>1
  <2>3. QED BY <1>15, <2>1, <2>2
<1>19. walk.start = at /\ n > 1
      BY <1>2, <1>5, <1>15, <1>18
<1>20. At(at) \subseteq ToSet(c)
      BY <1>6, <1>9, <1>11, <1>13
<1>21. QED BY <1>19, <1>20 DEF c, n, at

\* A bridge starts at a symbol, so it is the first or the last of a chain; what joins
\* a nozzle to its item is a chain by itself.
LEMMA ChainEnds ==
    ASSUME StrokesAre, ClaimedSince, ~Bridging, NEW a, NEW c, NEW b, Led(a, c, b),
           NEW k \in 1..Len(c)
    PROVE  /\ IsBridge(c[k]) => k = 1 \/ k = Len(c)
           /\ edges[c[k]].style = "internal" => Len(c) = 1
<1>1. PICK f : Passes(f, a, c, b)
      BY DEF Led
<1>2. Trail(c) /\ Len(c) \in Nat /\ c[k] \in DOMAIN edges
      BY DEF Led, Trail
<1>3. {f[k], f[k + 1]} = {edges[c[k]].a, edges[c[k]].b}
      BY <1>1 DEF Passes, EdgeEnds
<1>4. \A q \in 2..Len(c) : kind[f[q]] = "corner"
      BY <1>1 DEF Passes, Collapsible
<1>5. k \in 2..Len(c) => kind[f[k]] = "corner"
      BY <1>4
<1>6. k + 1 \in 2..Len(c) => kind[f[k + 1]] = "corner"
      BY <1>4
<1>7. /\ k = 1 \/ k \in 2..Len(c)
      /\ k = Len(c) \/ k + 1 \in 2..Len(c)
      BY <1>2
<1>8. ASSUME IsBridge(c[k])
      PROVE  k = 1 \/ k = Len(c)
  <2>1. kind[edges[c[k]].a] # "corner"
        BY <1>2, <1>8 DEF ClaimedSince
  <2>2. QED BY <1>3, <1>5, <1>6, <1>7, <2>1
<1>9. ASSUME edges[c[k]].style = "internal"
      PROVE  Len(c) = 1
  <2>1. kind[edges[c[k]].a] # "corner" /\ kind[edges[c[k]].b] # "corner"
        BY <1>2, <1>9 DEF ClaimedSince
  <2>2. k = 1 /\ k = Len(c)
        BY <1>3, <1>5, <1>6, <1>7, <2>1
  <2>3. QED BY <2>2
<1>10. QED BY <1>8, <1>9

\* A chain goes on through a corner, in the style it has.
LEMMA GoesOn ==
    ASSUME StrokesAre, ClaimedSince, ~Bridging, NEW a, NEW c, NEW b, Led(a, c, b),
           \E t : OneStyle(c, t), b \in Collapsible, NEW j \in At(b), j \notin ToSet(c)
    PROVE  /\ Led(a, Append(c, j), Other(edges[j], b))
           /\ \E t : OneStyle(Append(c, j), t)
           /\ ToSet(Append(c, j)) = ToSet(c) \cup {j}
           /\ Append(c, j) \in Seq(Nat) /\ Append(c, j) # <<>> /\ Other(edges[j], b) \in Nat
<1> DEFINE n == Len(c)
           d == Append(c, j)
           next == Other(edges[j], b)
<1>1. Trail(c) /\ c \in Seq(Nat) /\ n \in Nat /\ n > 0 /\ DOMAIN c = 1..n
      BY ChainSet DEF Led, Trail
<1>2. PICK f : Passes(f, a, c, b)
      BY DEF Led
<1>3. PICK t : OneStyle(c, t)
      OBVIOUS
<1>4. /\ j \in DOMAIN edges /\ j \in Nat /\ b \in EdgeEnds(j)
      /\ edges[j].a \in DOMAIN kind /\ edges[j].b \in DOMAIN kind /\ DOMAIN kind \subseteq Nat
      BY EdgesAre DEF StrokesAre
<1>5. next \in Nat /\ {b, next} = EdgeEnds(j)
      BY <1>4 DEF Other, EdgeEnds
<1>6. /\ d \in Seq(Nat) /\ Len(d) = n + 1 /\ DOMAIN d = 1..n + 1 /\ d[n + 1] = j
      /\ \A k \in 1..n : d[k] = c[k]
  <2>1. d \in Seq(Nat)
        BY <1>1, <1>4
  <2> HIDE DEF n, d
  <2>2. QED BY <1>1, <2>1, Appended DEF n, d
<1>7. \A k \in 1..n : c[k] \in ToSet(c)
      BY <1>1, ChainSet
<1> HIDE DEF d, next
<1>8. \A k \in 1..n + 1 : k \in 1..n \/ k = n + 1
      BY <1>1
<1>9. Trail(d)
  <2>1. \A k \in 1..n + 1 : d[k] \in DOMAIN edges
        BY <1>1, <1>4, <1>6, <1>8 DEF Trail
  <2>2. \A k, l \in 1..n + 1 : d[k] = d[l] => k = l
    <3>1. SUFFICES ASSUME NEW k \in 1..n + 1, NEW l \in 1..n + 1, d[k] = d[l] PROVE k = l
          OBVIOUS
    <3>2. CASE k \in 1..n /\ l \in 1..n
          BY <1>1, <1>6, <3>1, <3>2 DEF Trail
    <3>3. CASE k = n + 1 /\ l = n + 1
          BY <3>3
    <3>4. CASE k \in 1..n /\ l = n + 1
          BY <1>6, <1>7, <3>1, <3>4
    <3>5. CASE k = n + 1 /\ l \in 1..n
          BY <1>6, <1>7, <3>1, <3>5
    <3>6. QED BY <1>8, <3>2, <3>3, <3>4, <3>5
  <2>3. QED BY <1>1, <1>6, <2>1, <2>2 DEF Trail
<1> DEFINE g == [k \in 1..n + 2 |-> IF k = n + 2 THEN next ELSE f[k]]
<1>10. Passes(g, a, d, next)
  <2>1. DOMAIN g = 1..Len(d) + 1 /\ g[n + 2] = next /\ Len(d) + 1 = n + 2
        BY <1>1, <1>6
  <2>2. \A k \in 1..n + 1 : g[k] = f[k]
        BY <1>1
  <2> HIDE DEF g
  <2>3. g[1] = a
        BY <1>1, <1>2, <2>2 DEF Passes
  <2>4. ASSUME NEW k \in 1..n + 1
        PROVE  g[k + 1] = Other(edges[d[k]], g[k]) /\ {g[k], g[k + 1]} = EdgeEnds(d[k])
    <3>1. CASE k \in 1..n
      <4>1. k \in 1..n + 1 /\ k + 1 \in 1..n + 1
            BY <1>1, <3>1
      <4>2. g[k] = f[k] /\ g[k + 1] = f[k + 1] /\ d[k] = c[k]
            BY <1>6, <2>2, <3>1, <4>1
      <4>3. QED BY <1>2, <3>1, <4>2 DEF Passes
    <3>2. CASE k = n + 1
      <4>1. g[k] = b /\ g[k + 1] = next /\ d[k] = j
            BY <1>1, <1>2, <1>6, <2>1, <2>2, <3>2 DEF Passes
      <4>2. QED BY <1>5, <4>1 DEF next
    <3>3. QED BY <1>8, <3>1, <3>2
  <2>5. ASSUME NEW k \in 2..n + 1
        PROVE  g[k] \in Collapsible
    <3>1. k \in 1..n + 1 /\ (k \in 2..n \/ k = n + 1)
          BY <1>1
    <3>2. QED BY <1>2, <2>2, <3>1 DEF Passes
  <2>6. QED BY <1>6, <2>1, <2>3, <2>4, <2>5 DEF Passes
<1>11. \E u : OneStyle(d, u)
  <2>1. CASE edges[j].style \in {"bridge", t}
    <3>1. OneStyle(d, t)
          BY <1>3, <1>6, <1>8, <2>1 DEF OneStyle
    <3>2. QED BY <3>1
  <2>2. CASE edges[j].style \notin {"bridge", t}
    <3>1. n \in 1..n /\ n + 1 = n + 1 /\ c[n] \in DOMAIN edges
          BY <1>1 DEF Trail
    <3>2. b \in EdgeEnds(c[n])
          BY <1>1, <1>2, <3>1 DEF Passes
    <3>3. c[n] \in At(b) /\ j \in At(b)
          BY <3>1, <3>2, EdgesAre
    <3>4. Styles(At(b)) = {edges[i].style : i \in At(b)} \ {"bridge"} /\ Cardinality(Styles(At(b))) <= 1
          BY DEF Styles, Collapsible
    <3>5. \A x, y \in Styles(At(b)) : x = y
      <4> DEFINE U == {edges[i].style : i \in At(b)}
                 h == [i \in At(b) |-> edges[i].style]
      <4>1. IsFiniteSet(U)
        <5>1. h \in [At(b) -> U] /\ \A x \in U : \E i \in At(b) : h[i] = x
              OBVIOUS
        <5>2. IsFiniteSet(At(b))
              BY EdgesAre
        <5> HIDE DEF U, h
        <5>3. h \in Surjection(At(b), U)
              BY <5>1 DEF Surjection
        <5>4. QED BY <5>2, <5>3, FS_Surjection
      <4>2. IsFiniteSet(Styles(At(b)))
            BY <3>4, <4>1, FS_Subset
      <4>3. QED BY <3>4, <4>2, AtMostOne
    <3>6. edges[c[n]].style = "bridge"
      <4>1. edges[j].style \in Styles(At(b))
            BY <2>2, <3>3, <3>4
      <4>2. edges[c[n]].style \in {"bridge"} \cup Styles(At(b))
            BY <3>3, <3>4
      <4>3. edges[c[n]].style \in {"bridge", t}
            BY <1>3, <3>1 DEF OneStyle
      <4>4. QED BY <2>2, <3>5, <4>1, <4>2, <4>3
    <3>7. n = 1
      <4>1. SUFFICES ASSUME n # 1 PROVE FALSE
            OBVIOUS
      <4>2. n \in 2..n
            BY <1>1, <4>1
      <4>3. f[n] \in Collapsible
            BY <1>2, <4>2 DEF Passes
      <4>4. EdgeEnds(c[n]) = {f[n], b}
            BY <1>1, <1>2, <3>1 DEF Passes
      <4>5. kind[edges[c[n]].a] # "corner"
            BY <3>1, <3>6 DEF ClaimedSince, IsBridge
      <4>6. QED BY <4>3, <4>4, <4>5 DEF EdgeEnds, Collapsible
    <3>8. OneStyle(d, edges[j].style)
      <4>1. \A k \in 1..2 : edges[d[k]].style \in {"bridge", edges[j].style}
            BY <1>6, <3>6, <3>7
      <4>2. QED BY <1>6, <3>7, <4>1 DEF OneStyle
    <3>9. QED BY <3>8
  <2>3. QED BY <2>1, <2>2
<1>12. ToSet(d) = ToSet(c) \cup {j}
  <2>1. \A k \in 1..n + 1 : d[k] \in ToSet(c) \cup {j}
        BY <1>6, <1>7, <1>8
  <2>2. \A i \in ToSet(c) : \E k \in 1..n + 1 : d[k] = i
    <3>1. ASSUME NEW i \in ToSet(c)
          PROVE  \E k \in 1..n + 1 : d[k] = i
      <4>1. PICK k \in 1..n : c[k] = i
            BY <1>1, ChainSet
      <4>2. k \in 1..n + 1
            BY <1>1
      <4>3. QED BY <1>6, <4>1, <4>2
    <3>2. QED BY <3>1
  <2>3. n + 1 \in 1..n + 1
        BY <1>1
  <2>4. QED BY <1>6, <2>1, <2>2, <2>3 DEF ToSet
<1>13. QED BY <1>5, <1>6, <1>9, <1>10, <1>11, <1>12 DEF Led, d, next

LEMMA FurtherKeeps ==
    ASSUME AssemblyInv, Further, ~Bridging
    PROVE  AssemblyInv'
<1> DEFINE c == walk.chain
           at == walk.at
           j == Min(Ways)
<1>1. /\ sheet' = sheet /\ edges' = edges /\ kind' = kind /\ building' = building
      /\ runs' = runs /\ visited' = visited \cup {j} /\ walk # NoWalk /\ Ways # {}
      /\ walk' = [walk EXCEPT !.chain = Append(@, j), !.at = Other(edges[j], @)]
      BY DEF Further
<1>2. StrokesAre /\ ClaimedSince /\ WalkIs /\ PassesAre /\ RunsAre /\ CornersArePassed
      BY DEF AssemblyInv, BuildInv, RunInv
<1>3. /\ Led(walk.start, c, at) /\ (\E t : OneStyle(c, t)) /\ ToSet(c) \subseteq visited
      /\ (building = "chains" => walk.start \notin Collapsible)
      BY <1>1, <1>2 DEF WalkIs
<1>4. at \in Collapsible /\ j \in At(at) /\ j \notin visited
  <2>1. at \in Collapsible /\ Ways = At(at) \ visited
        BY <1>1 DEF Ways
  <2>2. Ways \in SUBSET Nat
    <3>1. At(at) \subseteq DOMAIN edges /\ DOMAIN edges \subseteq Nat
          BY <1>2, EdgesAre
    <3>2. QED BY <2>1, <3>1
  <2>3. j \in Ways
        BY <1>1, <2>2, MinIn
  <2>4. QED BY <2>1, <2>3
<1>5. j \in DOMAIN edges /\ j \notin ToSet(c)
      BY <1>2, <1>3, <1>4, EdgesAre
<1> HIDE DEF j
<1>6. /\ Led(walk.start, Append(c, j), Other(edges[j], at))
      /\ \E t : OneStyle(Append(c, j), t)
      /\ ToSet(Append(c, j)) = ToSet(c) \cup {j}
      /\ Append(c, j) \in Seq(Nat) /\ Other(edges[j], at) \in Nat
      BY <1>2, <1>3, <1>4, <1>5, GoesOn
<1>7. /\ walk'.start = walk.start /\ walk'.chain = Append(c, j) /\ walk'.at = Other(edges[j], at)
      /\ walk' \in [start : Nat, chain : Seq(Nat), at : Nat]
  <2>1. walk \in [start : Nat, chain : Seq(Nat), at : Nat]
        BY <1>2 DEF WalkIs
  <2>2. QED BY <1>1, <1>6, <2>1
<1>8. /\ Collapsible' = Collapsible /\ BuildInv'
      /\ \A a, e, b : Led(a, e, b)' <=> Led(a, e, b)
      /\ \A e, t : OneStyle(e, t)' <=> OneStyle(e, t)
      /\ \A r : Finished(r)' <=> Finished(r)
      /\ \A i : EdgeEnds(i)' = EdgeEnds(i)
      /\ \A n : At(n)' = At(n)
      /\ \A i : Anchors(i)' = Anchors(i)
  <2>1. Collapsible' = Collapsible
        BY <1>1, StrokesStay
  <2>2. ~Bridging'
        BY <1>1 DEF Bridging
  <2>3. BuildInv'
        BY <1>1, <2>2, QuietKeeps DEF AssemblyInv
  <2>4. QED BY <1>1, <2>1, <2>3, LedStays
<1>9. Done' = Done /\ Left' \cup ToSet(walk'.chain) = Left \cup ToSet(c)
  <2>1. ToSet(walk'.chain) = ToSet(c) \cup {j}
        BY <1>6, <1>7
  <2>2. Done' = visited' \ ToSet(walk'.chain)
        BY DEF Done
  <2>3. Left' = DOMAIN edges \ visited'
        BY <1>1 DEF Left
  <2>4. QED BY <1>1, <1>3, <1>4, <1>5, <2>1, <2>2, <2>3 DEF Done, Left
<1>10. WalkIs'
  <2>1. visited' \subseteq DOMAIN edges'
        BY <1>1, <1>2, <1>5 DEF WalkIs
  <2>2. PICK p, q, r : p = walk.start /\ q = Append(c, j) /\ r = Other(edges[j], at)
        OBVIOUS
  <2>3. Led(p, q, r)'
        BY <1>6, <1>8, <2>2
  <2>4. Led(walk.start, walk.chain, walk.at)'
        BY <1>7, <2>2, <2>3
  <2>5. \E t : OneStyle(q, t)'
        BY <1>6, <1>8, <2>2
  <2>6. (\E t : OneStyle(walk.chain, t))'
        BY <1>7, <2>2, <2>5
  <2>7. ToSet(walk'.chain) \subseteq visited'
        BY <1>1, <1>3, <1>6, <1>7
  <2>8. building' = "chains" => walk'.start \notin Collapsible'
        BY <1>1, <1>3, <1>7, <1>8
  <2>9. QED BY <1>7, <2>1, <2>4, <2>6, <2>7, <2>8 DEF WalkIs
<1>11. PassesAre'
  <2>1. walk' # NoWalk
    <3>1. j \in ToSet(walk'.chain)
          BY <1>6, <1>7
    <3>2. QED BY <3>1, AtRest
  <2>2. building \notin {"connect", "built"}
        BY <1>1, <1>2 DEF PassesAre
  <2>3. \A i \in Left' \cup ToSet(walk'.chain) : building \in {"loops", "back"} => Anchors(i)' = {}
        BY <1>2, <1>8, <1>9 DEF PassesAre
  <2>4. QED BY <1>1, <1>2, <2>1, <2>2, <2>3 DEF PassesAre
<1>12. RunsAre'
      BY <1>1, <1>2, <1>8, <1>9 DEF RunsAre
<1>13. CornersArePassed'
      BY <1>2, <1>8, <1>9 DEF CornersArePassed
<1>14. QED BY <1>8, <1>10, <1>11, <1>12, <1>13 DEF AssemblyInv, RunInv

\* The strokes and their nodes stay as they are while chains are followed.
LEMMA WalkingKeeps ==
    ASSUME AssemblyInv, ~Bridging, building' # "bridge", building' # "claim",
           sheet' = sheet, edges' = edges, kind' = kind
    PROVE  /\ StrokesAre /\ ClaimedSince /\ WalkIs /\ PassesAre /\ RunsAre /\ CornersArePassed
           /\ Collapsible' = Collapsible /\ BuildInv'
           /\ \A a, e, b : Led(a, e, b)' <=> Led(a, e, b)
           /\ \A e, t : OneStyle(e, t)' <=> OneStyle(e, t)
           /\ \A r : Finished(r)' <=> Finished(r)
           /\ \A i : EdgeEnds(i)' = EdgeEnds(i)
           /\ \A n : At(n)' = At(n)
           /\ \A i : Anchors(i)' = Anchors(i)
           /\ \A i : Anchors(i) = EdgeEnds(i) \ Collapsible
           /\ Left' = DOMAIN edges \ visited'
<1>1. Collapsible' = Collapsible
      BY StrokesStay
<1>2. BuildInv'
      BY QuietKeeps DEF AssemblyInv, Bridging
<1>3. StrokesAre /\ ClaimedSince /\ WalkIs /\ PassesAre /\ RunsAre /\ CornersArePassed
      BY DEF AssemblyInv, BuildInv, RunInv
<1>4. /\ \A i : Anchors(i) = EdgeEnds(i) \ Collapsible
      /\ Left' = DOMAIN edges \ visited'
      BY DEF Anchors, EdgeEnds, Left
<1>5. /\ \A a, e, b : Led(a, e, b)' <=> Led(a, e, b)
      /\ \A e, t : OneStyle(e, t)' <=> OneStyle(e, t)
      /\ \A r : Finished(r)' <=> Finished(r)
      /\ \A i : EdgeEnds(i)' = EdgeEnds(i)
      /\ \A n : At(n)' = At(n)
      /\ \A i : Anchors(i)' = Anchors(i)
      BY <1>1, LedStays
<1>6. QED BY <1>1, <1>2, <1>3, <1>4, <1>5

\* Setting out over a stroke that is on no run yet.
LEMMA SetOutKeeps ==
    ASSUME AssemblyInv, ~Bridging, building' \in {"chains", "loops", "back"},
           sheet' = sheet, edges' = edges, kind' = kind, runs' = runs,
           NEW i \in DOMAIN edges, NEW start \in EdgeEnds(i), SetOut(i, start),
           i \notin Done, visited' = Done \cup {i},
           building' = "chains" => start \notin Collapsible,
           building' \in {"loops", "back"} => \A j \in DOMAIN edges \ Done : Anchors(j) = {}
    PROVE  AssemblyInv'
<1>1. /\ StrokesAre /\ ClaimedSince /\ WalkIs /\ PassesAre /\ RunsAre /\ CornersArePassed
      /\ Collapsible' = Collapsible /\ BuildInv'
      /\ \A a, e, b : Led(a, e, b)' <=> Led(a, e, b)
      /\ \A e, t : OneStyle(e, t)' <=> OneStyle(e, t)
      /\ \A r : Finished(r)' <=> Finished(r)
      /\ \A j : EdgeEnds(j)' = EdgeEnds(j)
      /\ \A n : At(n)' = At(n)
      /\ \A j : Anchors(j)' = Anchors(j)
      /\ Left' = DOMAIN edges \ visited'
      BY WalkingKeeps
<1>2. PICK c, at : c = <<i>> /\ at = Other(edges[i], start)
      OBVIOUS
<1>3. /\ Led(start, c, at) /\ (\E t : OneStyle(c, t)) /\ ToSet(c) = {i}
      /\ [start |-> start, chain |-> c, at |-> at] \in [start : Nat, chain : Seq(Nat), at : Nat]
      BY <1>1, <1>2, FirstStep
<1>4. /\ walk'.start = start /\ walk'.chain = c /\ walk'.at = at /\ ToSet(walk'.chain) = {i}
      /\ walk' \in [start : Nat, chain : Seq(Nat), at : Nat]
  <2>1. walk' = [start |-> start, chain |-> c, at |-> at]
        BY <1>2 DEF SetOut
  <2>2. QED BY <1>3, <2>1
<1>5. Done' = Done
  <2>1. Done' = visited' \ ToSet(walk'.chain)
        BY DEF Done
  <2>2. QED BY <1>4, <2>1
<1>6. WalkIs'
  <2>1. visited' \subseteq DOMAIN edges'
        BY <1>1 DEF WalkIs, Done
  <2>2. Led(start, c, at)' /\ \E t : OneStyle(c, t)'
        BY <1>1, <1>3
  <2>3. Led(walk.start, walk.chain, walk.at)' /\ (\E t : OneStyle(walk.chain, t))'
        BY <1>4, <2>2
  <2>4. ToSet(walk'.chain) \subseteq visited'
        BY <1>4
  <2>5. building' = "chains" => walk'.start \notin Collapsible'
        BY <1>1, <1>4
  <2>6. QED BY <1>4, <2>1, <2>3, <2>4, <2>5 DEF WalkIs
<1>7. PassesAre'
  <2>1. walk' # NoWalk
        BY <1>4, AtRest
  <2>2. Left' \cup ToSet(walk'.chain) \subseteq DOMAIN edges \ Done
        BY <1>1, <1>4
  <2>3. building' \in {"loops", "back"} => \A j \in Left' \cup ToSet(walk'.chain) : Anchors(j)' = {}
        BY <1>1, <2>2
  <2>4. QED BY <2>1, <2>3 DEF PassesAre
<1>8. RunsAre'
      BY <1>1, <1>5 DEF RunsAre
<1>9. CornersArePassed'
      BY <1>1, <1>5 DEF CornersArePassed
<1>10. QED BY <1>1, <1>6, <1>7, <1>8, <1>9 DEF AssemblyInv, RunInv

\* Not walking, every visited stroke is on a run.
LEMMA Resting == ASSUME walk = NoWalk PROVE Done = visited
      BY AtRest DEF Done

LEMMA SetOutFromAnchorKeeps ==
    ASSUME AssemblyInv, SetOutFromAnchor
    PROVE  AssemblyInv'
<1> DEFINE i == Min(Anchored)
           start == IF edges[i].a \in Anchors(i) THEN edges[i].a ELSE edges[i].b
<1>1. /\ building = "chains" /\ walk = NoWalk /\ Anchored # {}
      /\ sheet' = sheet /\ building' = building /\ kind' = kind /\ edges' = edges /\ runs' = runs
      /\ visited' = visited \cup {i}
      /\ SetOut(i, start)
      BY DEF SetOutFromAnchor
<1>2. StrokesAre /\ ~Bridging
      BY <1>1 DEF AssemblyInv, BuildInv, Bridging
<1>3. i \in Anchored
  <2>1. Anchored \subseteq DOMAIN edges /\ DOMAIN edges \subseteq Nat
        BY <1>2, EdgesAre DEF Anchored, Left
  <2>2. Anchored \in SUBSET Nat
        BY <2>1
  <2>3. QED BY <1>1, <2>2, MinIn
<1> HIDE DEF i
<1>4. i \in DOMAIN edges /\ i \notin visited /\ Anchors(i) # {}
      BY <1>3 DEF Anchored, Left
<1>5. start \in EdgeEnds(i) /\ start \notin Collapsible
      BY <1>4 DEF Anchors, EdgeEnds
<1>6. Done = visited
      BY <1>1, Resting
<1> HIDE DEF start
<1>7. building' = "chains"
      BY <1>1
<1>8. QED BY <1>1, <1>2, <1>4, <1>5, <1>6, <1>7, SetOutKeeps

LEMMA SetOutOnLoopKeeps ==
    ASSUME AssemblyInv, SetOutOnLoop
    PROVE  AssemblyInv'
<1> DEFINE i == Min(Left)
           start == edges[i].b
<1>1. /\ building = "loops" /\ walk = NoWalk /\ Left # {}
      /\ sheet' = sheet /\ building' = building /\ kind' = kind /\ edges' = edges /\ runs' = runs
      /\ visited' = visited \cup {i}
      /\ SetOut(i, start)
      BY DEF SetOutOnLoop
<1>2. StrokesAre /\ ~Bridging /\ PassesAre
      BY <1>1 DEF AssemblyInv, BuildInv, Bridging, RunInv
<1>3. i \in Left
  <2>1. Left \subseteq DOMAIN edges /\ DOMAIN edges \subseteq Nat
        BY <1>2, EdgesAre DEF Left
  <2>2. Left \in SUBSET Nat
        BY <2>1
  <2>3. QED BY <1>1, <2>2, MinIn
<1> HIDE DEF i
<1>4. i \in DOMAIN edges /\ i \notin visited
      BY <1>3 DEF Left
<1>5. start \in EdgeEnds(i)
      BY DEF EdgeEnds
<1>6. Done = visited
      BY <1>1, Resting
<1>7. \A j \in DOMAIN edges \ Done : Anchors(j) = {}
      BY <1>1, <1>2, <1>6 DEF PassesAre, Left
<1> HIDE DEF start
<1>8. building' = "loops"
      BY <1>1
<1>9. QED BY <1>1, <1>2, <1>4, <1>5, <1>6, <1>7, <1>8, SetOutKeeps

LEMMA TurnBackKeeps ==
    ASSUME AssemblyInv, TurnBack
    PROVE  AssemblyInv'
<1> DEFINE i == walk.chain[1]
           start == walk.at
<1>1. /\ building = "loops" /\ Arrived /\ walk # NoWalk
      /\ sheet' = sheet /\ building' = "back" /\ kind' = kind /\ edges' = edges /\ runs' = runs
      /\ visited' = (visited \ ToSet(walk.chain)) \cup {i}
      /\ SetOut(i, start)
      BY DEF TurnBack, Arrived
<1>2. StrokesAre /\ ~Bridging /\ WalkIs /\ PassesAre /\ CornersArePassed
      BY <1>1 DEF AssemblyInv, BuildInv, Bridging, RunInv
<1>3. Led(walk.start, walk.chain, walk.at)
      BY <1>1, <1>2 DEF WalkIs
<1>4. PICK f : Passes(f, walk.start, walk.chain, walk.at)
      BY <1>3 DEF Led
<1>5. /\ Trail(walk.chain) /\ Len(walk.chain) \in Nat
      /\ 1 \in 1..Len(walk.chain) /\ Len(walk.chain) \in 1..Len(walk.chain)
      BY <1>3 DEF Led, Trail
<1>6. /\ i \in DOMAIN edges /\ i \in ToSet(walk.chain)
      /\ walk.chain[Len(walk.chain)] \in ToSet(walk.chain)
      BY <1>5, ChainSet DEF Trail
<1>7. walk.at \in Collapsible
  <2>1. walk.at \in EdgeEnds(walk.chain[Len(walk.chain)])
        BY <1>4, <1>5 DEF Passes
  <2>2. Anchors(walk.chain[Len(walk.chain)]) = {}
        BY <1>1, <1>2, <1>6 DEF PassesAre
  <2>3. QED BY <2>1, <2>2 DEF Anchors, EdgeEnds
<1>8. start \in EdgeEnds(i)
  <2>1. walk.start = walk.at
        BY <1>1, <1>2, <1>7, ComesBack
  <2>2. walk.start \in EdgeEnds(i)
        BY <1>4, <1>5 DEF Passes
  <2>3. QED BY <2>1, <2>2
<1>9. i \notin Done /\ visited' = Done \cup {i}
      BY <1>1, <1>6 DEF Done
<1>10. \A j \in DOMAIN edges \ Done : Anchors(j) = {}
      BY <1>1, <1>2 DEF PassesAre, Left, Done
<1> HIDE DEF i, start
<1>11. QED BY <1>1, <1>2, <1>6, <1>8, <1>9, <1>10, SetOutKeeps

\* What has been walked becomes a run, and its corners have been passed.
LEMMA EmitKeeps ==
    ASSUME AssemblyInv, Emit
    PROVE  AssemblyInv'
<1> DEFINE drawn == {k \in DOMAIN walk.chain : edges[walk.chain[k]].style # "bridge"}
           style == IF drawn = {} THEN "solid" ELSE edges[walk.chain[Min(drawn)]].style
           run   == [a |-> walk.start, b |-> walk.at, chain |-> walk.chain, style |-> style]
<1>1. /\ building \in {"chains", "back"} /\ Arrived /\ walk # NoWalk
      /\ building' = IF building = "back" THEN "loops" ELSE building
      /\ sheet' = sheet /\ edges' = edges /\ kind' = kind /\ visited' = visited /\ walk' = NoWalk
      /\ runs' = Append(runs, run)
      BY DEF Emit, Arrived
<1>2. /\ StrokesAre /\ ClaimedSince /\ WalkIs /\ PassesAre /\ RunsAre /\ CornersArePassed
      /\ ~Bridging
      /\ Collapsible' = Collapsible /\ BuildInv'
      /\ \A r : Finished(r)' <=> Finished(r)
      /\ \A i : EdgeEnds(i)' = EdgeEnds(i)
      /\ \A n : At(n)' = At(n)
      /\ \A i : Anchors(i)' = Anchors(i)
      /\ Left' = Left
  <2>1. ~Bridging /\ building' # "bridge" /\ building' # "claim"
        BY <1>1 DEF Bridging
  <2>2. Left' = Left
        BY <1>1 DEF Left
  <2>3. QED BY <1>1, <2>1, <2>2, WalkingKeeps
<1>3. /\ Led(walk.start, walk.chain, walk.at) /\ (\E t : OneStyle(walk.chain, t))
      /\ ToSet(walk.chain) \subseteq visited
      /\ (building = "chains" => walk.start \notin Collapsible)
      BY <1>1, <1>2 DEF WalkIs
<1>4. PICK t : OneStyle(walk.chain, t)
      BY <1>3
<1>5. PICK f : Passes(f, walk.start, walk.chain, walk.at)
      BY <1>3 DEF Led
<1>6. /\ Trail(walk.chain) /\ Len(walk.chain) \in Nat /\ DOMAIN walk.chain = 1..Len(walk.chain)
      /\ Len(walk.chain) > 0
      /\ \A k \in 1..Len(walk.chain) : walk.chain[k] \in ToSet(walk.chain)
      /\ \A i \in ToSet(walk.chain) : \E k \in 1..Len(walk.chain) : walk.chain[k] = i
      BY <1>3, ChainSet DEF Led, Trail
<1>7. OneStyle(walk.chain, style)
  <2>1. CASE drawn = {}
        BY <1>6, <2>1 DEF OneStyle
  <2>2. CASE drawn # {}
    <3>1. drawn \in SUBSET Nat
          BY <1>6
    <3>2. Min(drawn) \in drawn
      <4> HIDE DEF drawn
      <4>1. QED BY <2>2, <3>1, MinIn
    <3>3. edges[walk.chain[Min(drawn)]].style = t
          BY <1>4, <1>6, <3>2 DEF OneStyle
    <3>4. QED BY <1>4, <2>2, <3>3
  <2>3. QED BY <2>1, <2>2
<1>8. /\ run.a = walk.start /\ run.b = walk.at /\ run.chain = walk.chain /\ run.style = style
      OBVIOUS
<1> HIDE DEF style, run
<1>9. walk.at \in Collapsible => /\ building = "back"
                                 /\ walk.start = walk.at /\ Len(walk.chain) > 1
                                 /\ At(walk.at) \subseteq ToSet(walk.chain)
      BY <1>1, <1>2, <1>3, ComesBack
<1>10. building = "back" => walk.at \in Collapsible
  <2>1. SUFFICES ASSUME building = "back" PROVE walk.at \in Collapsible
        OBVIOUS
  <2>2. Len(walk.chain) \in 1..Len(walk.chain)
        BY <1>6
  <2>3. walk.at \in EdgeEnds(walk.chain[Len(walk.chain)])
        BY <1>5, <2>2 DEF Passes
  <2>4. Anchors(walk.chain[Len(walk.chain)]) = {}
        BY <1>2, <1>6, <2>1, <2>2 DEF PassesAre
  <2>5. QED BY <2>3, <2>4 DEF Anchors, EdgeEnds
<1>11. Finished(run)
  <2>1. \/ run.a \notin Collapsible /\ run.b \notin Collapsible
        \/ run.a = run.b /\ Len(run.chain) > 1
        BY <1>1, <1>3, <1>8, <1>9, <1>10
  <2>2. Led(run.a, run.chain, run.b) /\ OneStyle(run.chain, run.style)
        BY <1>3, <1>7, <1>8
  <2>3. QED BY <2>1, <2>2 DEF Finished
<1>12. Done' = Done \cup ToSet(walk.chain) /\ Done' = visited
  <2>1. Done' = visited' \ ToSet(walk'.chain)
        BY DEF Done
  <2>2. QED BY <1>1, <1>3, <2>1, AtRest DEF Done
<1>13. /\ Len(runs) \in Nat /\ DOMAIN runs = 1..Len(runs) /\ DOMAIN runs' = 1..Len(runs) + 1
       /\ \A k \in 1..Len(runs) : runs'[k] = runs[k]
       /\ runs'[Len(runs) + 1] = run
       /\ \E S : runs' \in Seq(S)
  <2>1. PICK T : runs \in Seq(T)
        BY <1>2 DEF RunsAre
  <2>2. /\ Append(runs, run) \in Seq(T \cup {run})
        /\ Len(runs) \in Nat /\ DOMAIN runs = 1..Len(runs)
        /\ DOMAIN Append(runs, run) = 1..Len(runs) + 1
        /\ \A k \in 1..Len(runs) : Append(runs, run)[k] = runs[k]
        /\ Append(runs, run)[Len(runs) + 1] = run
        BY <2>1, Appended
  <2>3. QED BY <1>1, <2>2
<1>14. \A k \in 1..Len(runs) + 1 : k \in 1..Len(runs) \/ k = Len(runs) + 1
      BY <1>13
<1>15. \A k \in 1..Len(runs) : k \in 1..Len(runs) + 1 /\ k # Len(runs) + 1
      BY <1>13
<1>16. Len(runs) + 1 \in 1..Len(runs) + 1
      BY <1>13
<1>17. WalkIs'
  <2>1. walk' \in [start : Nat, chain : Seq(Nat), at : Nat]
        BY <1>1 DEF NoWalk
  <2>2. QED BY <1>1, <1>2, <2>1 DEF WalkIs, NoWalk
<1>18. PassesAre'
  <2>1. walk'.chain = <<>> /\ ToSet(walk'.chain) = {}
        BY <1>1, AtRest
  <2>2. building' \in {"chains", "loops"}
        BY <1>1
  <2>3. building' = "loops" => \A i \in Left : Anchors(i)' = {}
        BY <1>1, <1>2 DEF PassesAre
  <2>4. QED BY <1>2, <2>1, <2>2, <2>3 DEF PassesAre
<1>19. RunsAre'
  <2>1. ASSUME NEW k \in DOMAIN runs'
        PROVE  Finished(runs'[k])
    <3>1. CASE k \in 1..Len(runs)
          BY <1>2, <1>13, <3>1 DEF RunsAre
    <3>2. CASE k = Len(runs) + 1
          BY <1>11, <1>13, <3>2
    <3>3. QED BY <1>13, <1>14, <3>1, <3>2
  <2>2. ASSUME NEW k \in DOMAIN runs'
        PROVE  Finished(runs[k])'
    <3>1. PICK r : r = runs'[k]
          OBVIOUS
    <3>2. Finished(r)'
          BY <1>2, <2>1, <3>1
    <3>3. QED BY <3>1, <3>2
  <2>3. ASSUME NEW i
        PROVE  i \in Done' <=> \E k \in DOMAIN runs' : i \in ToSet(runs'[k].chain)
    <3>1. i \in Done <=> \E k \in DOMAIN runs : i \in ToSet(runs[k].chain)
          BY <1>2 DEF RunsAre
    <3>2. (\E k \in DOMAIN runs' : i \in ToSet(runs'[k].chain))
             <=> \/ \E k \in DOMAIN runs : i \in ToSet(runs[k].chain)
                 \/ i \in ToSet(walk.chain)
          BY <1>8, <1>13, <1>14, <1>15, <1>16
    <3>3. QED BY <1>12, <3>1, <3>2
  <2>4. ASSUME NEW k \in DOMAIN runs', NEW l \in DOMAIN runs', NEW i \in ToSet(runs'[k].chain),
               i \in ToSet(runs'[l].chain)
        PROVE  k = l
    <3>1. \A m \in DOMAIN runs : i \in ToSet(runs[m].chain) => i \notin ToSet(walk.chain)
          BY <1>2 DEF RunsAre, Done
    <3>2. CASE k \in 1..Len(runs) /\ l \in 1..Len(runs)
          BY <1>2, <1>13, <2>4, <3>2 DEF RunsAre
    <3>3. CASE k = Len(runs) + 1 /\ l = Len(runs) + 1
          BY <3>3
    <3>4. CASE k \in 1..Len(runs) /\ l = Len(runs) + 1
          BY <1>8, <1>13, <2>4, <3>1, <3>4
    <3>5. CASE k = Len(runs) + 1 /\ l \in 1..Len(runs)
          BY <1>8, <1>13, <2>4, <3>1, <3>5
    <3>6. QED BY <1>13, <1>14, <3>2, <3>3, <3>4, <3>5
  <2>5. QED BY <1>13, <2>2, <2>3, <2>4 DEF RunsAre
<1>20. CornersArePassed'
  <2>1. ASSUME NEW i \in Done', NEW n \in EdgeEnds(i), n \in Collapsible
        PROVE  At(n) \subseteq Done'
    <3>1. CASE i \in Done
          BY <1>2, <1>12, <2>1, <3>1 DEF CornersArePassed
    <3>2. CASE i \in ToSet(walk.chain)
      <4>1. PICK k \in 1..Len(walk.chain) : walk.chain[k] = i
            BY <1>6, <3>2
      <4>2. n = f[k] \/ n = f[k + 1]
            BY <1>5, <2>1, <4>1 DEF Passes
      <4>3. /\ k = 1 \/ k \in 2..Len(walk.chain)
            /\ k = Len(walk.chain) \/ k + 1 \in 2..Len(walk.chain)
            BY <1>6
      <4>4. f[1] = walk.start /\ f[Len(walk.chain) + 1] = walk.at
            BY <1>5 DEF Passes
      <4>5. \A q \in 2..Len(walk.chain) : At(f[q]) \subseteq ToSet(walk.chain)
        <5>1. \A q \in 2..Len(walk.chain) :
                 /\ q \in 1..Len(walk.chain) /\ q - 1 \in 1..Len(walk.chain)
                 /\ At(f[q]) = {walk.chain[q - 1], walk.chain[q]}
          <6>1. \A q \in 2..Len(walk.chain) : q \in 1..Len(walk.chain)
                BY <1>6
          <6>2. QED BY <1>2, <1>5, <1>6, <6>1, Along
        <5>2. QED BY <1>6, <5>1
      <4>6. n = walk.start \/ n = walk.at => At(n) \subseteq ToSet(walk.chain)
            BY <1>1, <1>3, <1>9, <1>10, <2>1
      <4>7. At(n) \subseteq ToSet(walk.chain)
            BY <4>2, <4>3, <4>4, <4>5, <4>6
      <4>8. QED BY <1>12, <4>7
    <3>3. QED BY <1>12, <2>1, <3>1, <3>2
  <2>2. QED BY <1>2, <2>1 DEF CornersArePassed
<1>21. QED BY <1>2, <1>17, <1>18, <1>19, <1>20 DEF AssemblyInv, RunInv

\* One pass ends, and the next begins.
LEMMA PassEnds ==
    ASSUME AssemblyInv, EndChains \/ EndLoops \/ EndAssembly
    PROVE  AssemblyInv'
<1>1. /\ ~Bridging /\ building' # "bridge" /\ building' # "claim"
      /\ building' \in {"loops", "connect", "built"}
      /\ sheet' = sheet /\ edges' = edges /\ kind' = kind
      /\ visited' = visited /\ walk' = walk /\ runs' = runs
      BY DEF EndChains, EndLoops, EndAssembly, Bridging
<1>2. /\ StrokesAre /\ WalkIs /\ PassesAre /\ RunsAre /\ CornersArePassed
      /\ Collapsible' = Collapsible /\ BuildInv'
      /\ \A a, e, b : Led(a, e, b)' <=> Led(a, e, b)
      /\ \A e, t : OneStyle(e, t)' <=> OneStyle(e, t)
      /\ \A r : Finished(r)' <=> Finished(r)
      /\ \A i : EdgeEnds(i)' = EdgeEnds(i)
      /\ \A n : At(n)' = At(n)
      /\ \A i : Anchors(i)' = Anchors(i)
      /\ Left' = DOMAIN edges \ visited'
      BY <1>1, WalkingKeeps
<1>3. Done' = Done /\ Left' = Left
  <2>1. Done' = visited' \ ToSet(walk'.chain)
        BY DEF Done
  <2>2. QED BY <1>1, <1>2, <2>1 DEF Done, Left
<1>4. walk = NoWalk /\ ToSet(walk.chain) = {}
  <2>1. walk = NoWalk
        BY <1>2 DEF EndChains, EndLoops, EndAssembly, PassesAre
  <2>2. QED BY <2>1, AtRest
<1>5. WalkIs'
      BY <1>1, <1>2, <1>4 DEF WalkIs
<1>6. PassesAre'
  <2>1. building' = "loops" => \A i \in Left : Anchors(i) = {}
        BY <1>1 DEF EndChains, EndLoops, EndAssembly, Anchored
  <2>2. building' \in {"connect", "built"} => Left = {}
        BY <1>1, <1>2 DEF EndChains, EndLoops, EndAssembly, PassesAre
  <2>3. QED BY <1>1, <1>2, <1>3, <1>4, <2>1, <2>2 DEF PassesAre
<1>7. RunsAre'
      BY <1>1, <1>2, <1>3 DEF RunsAre
<1>8. CornersArePassed'
      BY <1>2, <1>3 DEF CornersArePassed
<1>9. QED BY <1>2, <1>5, <1>6, <1>7, <1>8 DEF AssemblyInv, RunInv

LEMMA ConnectingKeeps ==
    ASSUME AssemblyInv, Connect
    PROVE  AssemblyInv'
<1>1. /\ building = "connect" /\ building' = building /\ sheet' = sheet /\ edges' = edges
      /\ visited' = visited /\ walk' = walk /\ runs' = runs
      BY DEF Connect
<1>2. WalkIs /\ PassesAre /\ RunsAre /\ CornersArePassed
      BY <1>1 DEF AssemblyInv, RunInv, Bridging
<1>3. Collapsible' = Collapsible /\ BuildInv'
      BY ConnectKeeps DEF AssemblyInv
<1>4. /\ \A r : Finished(r)' <=> Finished(r)
      /\ \A i : EdgeEnds(i)' = EdgeEnds(i)
      /\ \A n : At(n)' = At(n)
      BY <1>1, <1>3, LedStays
<1>5. Done' = Done /\ Left' = Left
  <2>1. Done' = visited' \ ToSet(walk'.chain) /\ Left' = DOMAIN edges' \ visited'
        BY DEF Done, Left
  <2>2. QED BY <1>1, <2>1 DEF Done, Left
<1>6. walk = NoWalk /\ Left = {}
      BY <1>1, <1>2 DEF PassesAre
<1>7. WalkIs'
      BY <1>1, <1>2, <1>6 DEF WalkIs
<1>8. PassesAre'
      BY <1>1, <1>2, <1>5 DEF PassesAre
<1>9. RunsAre'
      BY <1>1, <1>2, <1>4, <1>5 DEF RunsAre
<1>10. CornersArePassed'
      BY <1>2, <1>3, <1>4, <1>5 DEF CornersArePassed
<1>11. QED BY <1>3, <1>7, <1>8, <1>9, <1>10 DEF AssemblyInv, RunInv

LEMMA ClaimingKeeps ==
    ASSUME AssemblyInv, Claim
    PROVE  AssemblyInv'
<1>1. /\ building = "claim" /\ building' = "chains"
      /\ visited' = visited /\ walk' = walk /\ runs' = runs
      BY DEF Claim
<1>2. visited = {} /\ walk = NoWalk /\ runs = <<>>
      BY <1>1 DEF AssemblyInv, BuildInv, BridgedSoFar, Bridging
<1>3. BuildInv'
      BY ClaimKeeps DEF AssemblyInv
<1>4. Done' = {}
  <2>1. Done' = visited' \ ToSet(walk'.chain)
        BY DEF Done
  <2>2. QED BY <1>1, <1>2, <2>1
<1>5. WalkIs'
  <2>1. walk' \in [start : Nat, chain : Seq(Nat), at : Nat]
        BY <1>1, <1>2 DEF NoWalk
  <2>2. QED BY <1>1, <1>2, <2>1 DEF WalkIs, NoWalk
<1>6. PassesAre'
      BY <1>1 DEF PassesAre
<1>7. RunsAre'
  <2>1. DOMAIN runs' = {} /\ \E S : runs' \in Seq(S)
    <3>1. <<>> \in Seq({}) /\ DOMAIN <<>> = {}
          OBVIOUS
    <3>2. QED BY <1>1, <1>2, <3>1
  <2>2. QED BY <1>4, <2>1 DEF RunsAre
<1>8. CornersArePassed'
      BY <1>4 DEF CornersArePassed
<1>9. QED BY <1>3, <1>5, <1>6, <1>7, <1>8 DEF AssemblyInv, RunInv

LEMMA AssemblyStarts == AssemblyInit => AssemblyInv
<1> SUFFICES ASSUME AssemblyInit PROVE AssemblyInv
    OBVIOUS
<1>1. Bridging
      BY DEF AssemblyInit, Bridging
<1>2. QED BY <1>1, BuildStarts DEF AssemblyInv, RunInv

LEMMA AssemblyKeeps ==
    ASSUME AssemblyInv, AssemblyNext
    PROVE  AssemblyInv'
<1>1. CASE \E n \in Symbols : Bridge(n)
  <2>1. Bridging'
        BY <1>1 DEF Bridge, Bridging
  <2>2. QED BY <1>1, <2>1, BridgeKeeps DEF AssemblyInv, RunInv
<1>2. CASE Classify
  <2>1. Bridging'
        BY <1>2 DEF Classify, Bridging
  <2>2. QED BY <1>2, <2>1, ClassifyKeeps DEF AssemblyInv, RunInv
<1>3. CASE Claim
      BY <1>3, ClaimingKeeps
<1>4. CASE Further
  <2>1. ~Bridging
    <3>1. SUFFICES ASSUME Bridging PROVE FALSE
          OBVIOUS
    <3>2. walk = NoWalk
          BY <3>1 DEF AssemblyInv, BuildInv, BridgedSoFar
    <3>3. QED BY <1>4, <3>2 DEF Further
  <2>2. QED BY <1>4, <2>1, FurtherKeeps
<1>5. CASE Emit
      BY <1>5, EmitKeeps
<1>6. CASE SetOutFromAnchor
      BY <1>6, SetOutFromAnchorKeeps
<1>7. CASE SetOutOnLoop
      BY <1>7, SetOutOnLoopKeeps
<1>8. CASE TurnBack
      BY <1>8, TurnBackKeeps
<1>9. CASE EndChains \/ EndLoops \/ EndAssembly
      BY <1>9, PassEnds
<1>10. CASE Connect
      BY <1>10, ConnectingKeeps
<1>11. QED BY <1>1, <1>2, <1>3, <1>4, <1>5, <1>6, <1>7, <1>8, <1>9, <1>10 DEF AssemblyNext

\* Stops names the nodes that a run passes.
LEMMA StopsAre ==
    ASSUME NEW r, Led(r.a, r.chain, r.b)
    PROVE  /\ Passes(Stops(r), r.a, r.chain, r.b)
           /\ Stops(r) = [k \in 1..Len(r.chain) + 1 |-> Stops(r)[k]]
<1> DEFINE D == 1..Len(r.chain) + 1
           Follows(f) == f = [k \in D |-> IF k = 1 THEN r.a
                                          ELSE Other(edges[r.chain[k - 1]], f[k - 1])]
<1>1. Trail(r.chain) /\ Len(r.chain) \in Nat
      BY DEF Led, Trail
<1>2. PICK f : Passes(f, r.a, r.chain, r.b)
      BY DEF Led
<1> DEFINE g == [k \in D |-> f[k]]
<1>3. Passes(g, r.a, r.chain, r.b)
  <2>1. DOMAIN g = D /\ (\A k \in D : g[k] = f[k])
        OBVIOUS
  <2>2. 1 \in D /\ Len(r.chain) + 1 \in D
        BY <1>1
  <2>3. \A k \in 1..Len(r.chain) : k \in D /\ k + 1 \in D
        BY <1>1
  <2>4. \A k \in 2..Len(r.chain) : k \in D
        BY <1>1
  <2> HIDE DEF g
  <2>5. QED BY <1>2, <2>1, <2>2, <2>3, <2>4 DEF Passes
<1>4. Follows(g)
  <2>1. \A k \in D : k = 1 \/ (k - 1 \in 1..Len(r.chain) /\ (k - 1) + 1 = k)
        BY <1>1
  <2>2. g[1] = r.a
        BY <1>3 DEF Passes
  <2>3. \A k \in 1..Len(r.chain) : g[k + 1] = Other(edges[r.chain[k]], g[k])
        BY <1>3 DEF Passes
  <2>4. \A k \in D : g[k] = IF k = 1 THEN r.a ELSE Other(edges[r.chain[k - 1]], g[k - 1])
        BY <2>1, <2>2, <2>3
  <2>5. g = [k \in D |-> g[k]]
        OBVIOUS
  <2> HIDE DEF g
  <2>6. QED BY <2>4, <2>5
<1>5. Stops(r) = CHOOSE h : Follows(h)
      BY DEF Stops
<1> HIDE DEF g
<1>6. Follows(Stops(r))
  <2> HIDE DEF Follows
  <2>1. QED BY <1>4, <1>5
<1>7. PICK h : h = Stops(r)
      OBVIOUS
<1>8. DOMAIN h = D /\ \A k \in D : h[k] = IF k = 1 THEN r.a ELSE Other(edges[r.chain[k - 1]], h[k - 1])
      BY <1>6, <1>7
<1>9. DOMAIN g = D /\ \A k \in D : g[k] = IF k = 1 THEN r.a ELSE Other(edges[r.chain[k - 1]], g[k - 1])
      BY <1>4
<1> DEFINE S == {k \in D : h[k] = g[k]}
<1>10. S = D
  <2>1. S \in SUBSET D /\ Len(r.chain) + 1 \in Nat
        BY <1>1
  <2>2. 1 \in S
        BY <1>1, <1>8, <1>9
  <2>3. ASSUME NEW k \in D, k \in S, k + 1 \in D
        PROVE  k + 1 \in S
    <3>1. (k + 1) - 1 = k /\ k + 1 # 1
          BY <1>1
    <3>2. h[k + 1] = Other(edges[r.chain[k]], h[k]) /\ g[k + 1] = Other(edges[r.chain[k]], g[k])
          BY <1>8, <1>9, <2>3, <3>1
    <3>3. QED BY <2>3, <3>2
  <2> HIDE DEF S
  <2>4. QED BY <2>1, <2>2, <2>3, UpTo
<1>11. h = g
  <2>1. h = [k \in D |-> h[k]]
        BY <1>6, <1>7
  <2>2. g = [k \in D |-> g[k]]
        BY <1>4
  <2>3. \A k \in D : h[k] = g[k]
        BY <1>10
  <2>4. QED BY <2>1, <2>2, <2>3
<1>12. h = [k \in D |-> h[k]]
      BY <1>6, <1>7
<1>13. QED BY <1>3, <1>7, <1>11, <1>12

\* What Stops names is as RunsCoverTheDrawing says.
LEMMA RunIsDrawn ==
    ASSUME NEW r, Finished(r)
    PROVE  LET stops == Stops(r)
               inner == {stops[k] : k \in 2..Len(stops) - 1}
               ends  == {r.a, r.b}
           IN  /\ \A k \in DOMAIN r.chain :
                     {stops[k], stops[k + 1]} = {edges[r.chain[k]].a, edges[r.chain[k]].b}
               /\ Last(stops) = r.b
               /\ Styles(ToSet(r.chain)) \subseteq {r.style}
               /\ inner \subseteq Collapsible
               /\ ends \cap Collapsible = {} \/ (r.a = r.b /\ inner # {})
<1> DEFINE stops == Stops(r)
           n == Len(r.chain)
           inner == {stops[k] : k \in 2..Len(stops) - 1}
<1>1. Led(r.a, r.chain, r.b) /\ Passes(stops, r.a, r.chain, r.b)
      BY StopsAre DEF Finished
<1>2. Trail(r.chain) /\ n \in Nat /\ n > 0 /\ DOMAIN r.chain = 1..n
      BY <1>1, ChainSet DEF Led, Trail
<1> HIDE DEF n, stops
<1>3. DOMAIN stops = 1..n + 1 /\ Len(stops) = n + 1
  <2> DEFINE T == {stops[k] : k \in 1..n + 1}
  <2>1. stops = [k \in 1..n + 1 |-> stops[k]]
        BY <1>1, StopsAre DEF n, stops, Finished
  <2>2. stops \in [1..n + 1 -> T] /\ n + 1 \in Nat
        BY <1>2, <2>1
  <2> HIDE DEF T
  <2>3. QED BY <2>2
<1>4. \A k \in 1..n : {stops[k], stops[k + 1]} = {edges[r.chain[k]].a, edges[r.chain[k]].b}
      BY <1>1 DEF Passes, EdgeEnds, n
<1>5. Last(stops) = r.b
      BY <1>1, <1>3 DEF Passes, Last, n
<1>6. Styles(ToSet(r.chain)) \subseteq {r.style}
  <2>1. \A i \in ToSet(r.chain) : edges[i].style \in {"bridge", r.style}
        BY <1>2 DEF Finished, OneStyle, ToSet, n
  <2>2. QED BY <2>1 DEF Styles
<1>7. inner \subseteq Collapsible /\ (n > 1 => inner # {})
  <2>1. Len(stops) - 1 = n
        BY <1>2, <1>3
  <2>2. \A k \in 2..n : stops[k] \in Collapsible
        BY <1>1 DEF Passes, n
  <2>3. n > 1 => 2 \in 2..n
        BY <1>2
  <2>4. QED BY <2>1, <2>2, <2>3
<1>8. {r.a, r.b} \cap Collapsible = {} \/ (r.a = r.b /\ inner # {})
      BY <1>7 DEF Finished, n
<1>9. QED BY <1>2, <1>4, <1>5, <1>6, <1>7, <1>8 DEF stops

LEMMA AssemblyCovers == AssemblyInv => RunsCoverTheDrawing
<1> SUFFICES ASSUME AssemblyInv, building = "built" PROVE RunsCoverTheDrawing
    BY DEF RunsCoverTheDrawing
<1>1. /\ StrokesAre /\ BridgedOnce /\ ClaimedSince
      /\ WalkIs /\ PassesAre /\ RunsAre /\ ~Bridging
      BY DEF AssemblyInv, BuildInv, RunInv, Bridging
<1>2. \A i \in DOMAIN edges : i \in Done
  <2>1. Left = {} /\ walk = NoWalk
        BY <1>1 DEF PassesAre
  <2>2. Done = visited
        BY <2>1, Resting
  <2>3. QED BY <2>1, <2>2 DEF Left
<1>3. \A k \in DOMAIN runs : Finished(runs[k]) /\ runs[k] \in ToSet(runs)
      BY <1>1 DEF RunsAre, ToSet
<1>4. \A r \in ToSet(runs) : Finished(r)
      BY <1>3 DEF ToSet
<1>5. ASSUME NEW i \in DOMAIN edges
      PROVE  \E k \in DOMAIN runs :
                /\ Cardinality({n \in DOMAIN runs[k].chain : runs[k].chain[n] = i}) = 1
                /\ \A l \in DOMAIN runs \ {k} : i \notin ToSet(runs[l].chain)
  <2>1. PICK k \in DOMAIN runs : i \in ToSet(runs[k].chain)
        BY <1>1, <1>2 DEF RunsAre
  <2>2. \A l \in DOMAIN runs \ {k} : i \notin ToSet(runs[l].chain)
        BY <1>1, <2>1 DEF RunsAre
  <2>3. PICK m \in DOMAIN runs[k].chain : runs[k].chain[m] = i
        BY <2>1 DEF ToSet
  <2>4. Trail(runs[k].chain) /\ DOMAIN runs[k].chain = 1..Len(runs[k].chain)
        BY <1>3, ChainSet DEF Finished, Led, Trail
  <2>5. {n \in DOMAIN runs[k].chain : runs[k].chain[n] = i} = {m}
        BY <2>3, <2>4 DEF Trail
  <2>6. QED BY <2>2, <2>5, FS_Singleton
<1>6. \A e \in ToSet(sheet.strokes) : e \in ToSet(edges) <=> ~Inside(e)
      BY <1>1 DEF ClaimedSince
<1>7. ASSUME NEW n \in DOMAIN kind, kind[n] = "nozzle"
      PROVE  \E r \in ToSet(runs) : /\ r.style = "internal" /\ n \in {r.a, r.b}
                                    /\ Len(sheet.kind) + sheet.owner[n] \in {r.a, r.b}
  <2>1. PICK i \in DOMAIN edges : /\ edges[i].style = "internal"
                                  /\ EdgeEnds(i) = {n, Len(sheet.kind) + sheet.owner[n]}
        BY <1>1, <1>7 DEF ClaimedSince
  <2>2. PICK k \in DOMAIN runs : i \in ToSet(runs[k].chain)
        BY <1>1, <1>2 DEF RunsAre
  <2>3. PICK r : r = runs[k]
        OBVIOUS
  <2>4. Finished(r) /\ r \in ToSet(runs) /\ i \in ToSet(r.chain)
        BY <1>3, <2>2, <2>3
  <2>5. Led(r.a, r.chain, r.b) /\ Trail(r.chain) /\ r.chain \in Seq(Nat)
        BY <2>4 DEF Finished, Led, Trail
  <2>6. PICK m \in 1..Len(r.chain) : r.chain[m] = i
        BY <2>4, <2>5, ChainSet
  <2>7. Len(r.chain) = 1 /\ m = 1
    <3>1. Len(r.chain) = 1
          BY <1>1, <2>1, <2>5, <2>6, ChainEnds
    <3>2. QED BY <3>1
  <2>8. r.style = "internal"
        BY <2>1, <2>4, <2>6 DEF Finished, OneStyle
  <2>9. {r.a, r.b} = EdgeEnds(i)
    <3>1. PICK f : Passes(f, r.a, r.chain, r.b)
          BY <2>5 DEF Led
    <3>2. f[1] = r.a /\ f[2] = r.b /\ {f[1], f[2]} = EdgeEnds(r.chain[1])
          BY <2>6, <2>7, <3>1 DEF Passes
    <3>3. QED BY <2>6, <2>7, <3>2
  <2>10. QED BY <2>1, <2>4, <2>8, <2>9
<1>8. ASSUME NEW n \in DOMAIN sheet.kind, sheet.kind[n] = "point"
      PROVE  Cardinality({i \in At(n) : edges[i].style = "bridge"}) <= 1
  <2> DEFINE B == {i \in At(n) : edges[i].style = "bridge"}
  <2>1. \A x, y \in B : x = y
        BY <1>1, <1>8 DEF BridgedOnce, IsPoint, IsBridge
  <2>2. IsFiniteSet(B)
    <3>1. B \subseteq At(n)
          OBVIOUS
    <3>2. QED BY <1>1, <3>1, EdgesAre, FS_Subset
  <2> HIDE DEF B
  <2>3. Cardinality(B) <= 1
        BY <2>1, <2>2, AtMostOne
  <2>4. QED BY <2>3 DEF B
<1>9. \A r \in ToSet(runs) :
              LET stops == Stops(r)
                  inner == {stops[k] : k \in 2..Len(stops) - 1}
                  ends  == {r.a, r.b}
              IN  /\ \A k \in DOMAIN r.chain :
                        {stops[k], stops[k + 1]} = {edges[r.chain[k]].a, edges[r.chain[k]].b}
                  /\ Last(stops) = r.b
                  /\ Styles(ToSet(r.chain)) \subseteq {r.style}
                  /\ inner \subseteq Collapsible
                  /\ ends \cap Collapsible = {} \/ (r.a = r.b /\ inner # {})
      BY <1>4, RunIsDrawn
<1>10. QED BY <1>5, <1>6, <1>7, <1>8, <1>9 DEF RunsCoverTheDrawing

----------------------------------------------------------------------------
(* What a vision model read: the pages as they are converted.                *)

\* The entities and the connections that have had their turn.
PastEntities == {i \in DOMAIN reading.entities : converting = "nodes" => i < turn}
PastEdges == {k \in DOMAIN reading.edges :
                 converting # "nodes" /\ (converting = "edges" => k < turn)}

IsRun(r) == r = [a |-> r.a, b |-> r.b, style |-> r.style, of |-> r.of]
Touches(paper, l, n, style) == /\ paper.runs[l].style = style
                               /\ n \in {paper.runs[l].a, paper.runs[l].b}

\* The runs of a page end at nodes of it; what joins a nozzle to its item is no
\* connection, and of a nozzle's pipes there is one.
PaperIs(paper) ==
    /\ DOMAIN paper = {"nodes", "runs", "connectors", "safety", "marked"}
    /\ IsSequence(paper.nodes) /\ IsSequence(paper.runs)
    /\ \A l \in DOMAIN paper.runs :
          /\ IsRun(paper.runs[l])
          /\ paper.runs[l].a \in DOMAIN paper.nodes /\ paper.runs[l].b \in DOMAIN paper.nodes
          /\ paper.runs[l].style \in {"solid", "dashed", "internal"}
          /\ paper.runs[l].style = "internal" =>
                /\ paper.runs[l].of = 0
                /\ paper.nodes[paper.runs[l].a].kind = "nozzle"
                /\ paper.nodes[paper.runs[l].b].kind = "equipment"
          /\ paper.runs[l].style # "internal" => paper.runs[l].of # 0
    /\ \A n \in DOMAIN paper.nodes : paper.nodes[n].kind = "nozzle" =>
          \A style \in {"solid", "internal"} :
             /\ \E l \in DOMAIN paper.runs : Touches(paper, l, n, style)
             /\ \A l, m \in DOMAIN paper.runs :
                   Touches(paper, l, n, style) /\ Touches(paper, m, n, style) => l = m

\* n is the node of i, or a nozzle of that node.
Stands(paper, n, i) ==
    IF paper.nodes[n].kind = "nozzle"
    THEN \E l \in DOMAIN paper.runs : /\ paper.runs[l].style = "internal" /\ paper.runs[l].a = n
                                      /\ paper.nodes[paper.runs[l].b].of = i
    ELSE paper.nodes[n].of = i

AsNode(i) == IF i \in Kept THEN i ELSE 0

\* Each entity past is one node of its page, of its kind; other nodes are dead ends or
\* nozzles.
EntitiesAre ==
    /\ \A i \in PastEntities \cap Kept :
          \E n \in DOMAIN papers[reading.entities[i].page].nodes :
             papers[reading.entities[i].page].nodes[n].of = i
    /\ \A p \in Pages : \A n \in DOMAIN papers[p].nodes :
          IF papers[p].nodes[n].of = 0
          THEN papers[p].nodes[n].kind \in {"dead-end", "nozzle"}
          ELSE /\ papers[p].nodes[n].of \in PastEntities \cap Kept
               /\ reading.entities[papers[p].nodes[n].of].page = p
               /\ papers[p].nodes[n].kind = Becomes(reading.entities[papers[p].nodes[n].of].kind)
               /\ \A m \in DOMAIN papers[p].nodes : papers[p].nodes[m].of = papers[p].nodes[n].of => m = n

Joins(e) == PagesOf(e) # {} /\ ~Crosses(e)

\* Each connection past that joins nodes of one page is one run of it, between them.
ConnectionsAre ==
    /\ \A k \in PastEdges : Joins(reading.edges[k]) =>
          \E p \in Pages : \E l \in DOMAIN papers[p].runs : papers[p].runs[l].of = k
    /\ \A p \in Pages : \A l \in DOMAIN papers[p].runs : papers[p].runs[l].of # 0 =>
          /\ papers[p].runs[l].of \in PastEdges
          /\ Joins(reading.edges[papers[p].runs[l].of])
          /\ Stands(papers[p], papers[p].runs[l].a, AsNode(reading.edges[papers[p].runs[l].of].from))
          /\ Stands(papers[p], papers[p].runs[l].b, AsNode(reading.edges[papers[p].runs[l].of].to))
          /\ \A q \in Pages : \A m \in DOMAIN papers[q].runs :
                papers[q].runs[m].of = papers[p].runs[l].of => q = p /\ m = l

LooseEnds == UNION {{<<p, n>> : n \in DeadEnds(papers[p])} : p \in Pages}

\* What was left out is counted.
CountsAre ==
    /\ DOMAIN report = {"dropped", "dangling", "cross", "nozzles"}
    /\ report.dropped = Cardinality({i \in PastEntities : reading.entities[i].page \in Pages /\ i \notin Kept})
    /\ report.cross = {k \in PastEdges : PagesOf(reading.edges[k]) # {} /\ Crosses(reading.edges[k])}
    /\ IsFiniteSet(LooseEnds)
    /\ report.dangling = Cardinality({k \in PastEdges : PagesOf(reading.edges[k]) = {}})
                            + Cardinality(LooseEnds)

\* Connections come after entities, and nozzles after connections.
InOrder ==
    /\ reading \in Readings /\ turn \in Nat
    /\ converting \in {"nodes", "edges", "nozzles", "converted", "emitted"}
    /\ converting \in {"nodes", "edges"} => turn > 0
    /\ converting = "nodes" => \A p \in Pages : papers[p].runs = <<>>
    /\ converting \in {"nodes", "edges"} =>
          \A p \in Pages : /\ \A n \in DOMAIN papers[p].nodes : papers[p].nodes[n].kind # "nozzle"
                           /\ \A l \in DOMAIN papers[p].runs : papers[p].runs[l].style # "internal"
    /\ converting \in {"converted", "emitted"} => \A p \in Pages : Bare(papers[p]) = {}

PapersAre == DOMAIN papers = Pages /\ \A p \in Pages : PaperIs(papers[p])

\* Connectors and safety valves are nodes; none is marked before the pages are emitted.
MarksAre ==
    \A p \in Pages :
        /\ papers[p].connectors \subseteq {n \in DOMAIN papers[p].nodes : papers[p].nodes[n].of # 0}
        /\ \A n \in DOMAIN papers[p].nodes :
              papers[p].nodes[n].of # 0
              /\ reading.entities[papers[p].nodes[n].of].kind = "safety-valve"
                 => n \in papers[p].safety
        /\ converting # "emitted" => papers[p].marked = {}

GraphInv == InOrder /\ PapersAre /\ EntitiesAre /\ ConnectionsAre /\ CountsAre /\ MarksAre

LEMMA ReadingIs ==
    ASSUME reading \in Readings
    PROVE  /\ Len(reading.entities) \in Nat /\ DOMAIN reading.entities = 1..Len(reading.entities)
           /\ Len(reading.edges) \in Nat /\ DOMAIN reading.edges = 1..Len(reading.edges)
           /\ \A i \in DOMAIN reading.entities : reading.entities[i].kind \in EntityKinds
           /\ IsFiniteSet(DOMAIN reading.entities) /\ IsFiniteSet(DOMAIN reading.edges)
<1>1. Readable(reading)
      BY ReadingsAssumption
<1>2. /\ reading.entities \in Seq(ToSet(reading.entities))
      /\ reading.edges \in Seq(ToSet(reading.edges))
      BY <1>1 DEF Readable
<1>3. /\ Len(reading.entities) \in Nat /\ DOMAIN reading.entities = 1..Len(reading.entities)
      /\ Len(reading.edges) \in Nat /\ DOMAIN reading.edges = 1..Len(reading.edges)
      BY <1>2
<1>4. \A i \in DOMAIN reading.entities : reading.entities[i].kind \in EntityKinds
      BY <1>1 DEF Readable, ToSet
<1>5. QED BY <1>3, <1>4, FS_Interval

LEMMA KindsAre ==
    ASSUME NEW k \in EntityKinds, k # "text"
    PROVE  /\ Becomes(k) \in {"off-page", "valve", "junction", "equipment", "instrument"}
           /\ Becomes(k) # "nozzle" /\ Becomes(k) # "dead-end"
BY DEF EntityKinds, Becomes

LEMMA SequenceIs ==
    ASSUME NEW s, IsSequence(s)
    PROVE  Len(s) \in Nat /\ DOMAIN s = 1..Len(s) /\ \E S : s \in Seq(S)
BY DEF IsSequence

\* A run goes from one node to another.
LEMMA RunMoves ==
    ASSUME NEW r, IsRun(r), NEW x
    PROVE  /\ IsRun([r EXCEPT !.a = x]) /\ IsRun([r EXCEPT !.b = x])
           /\ [r EXCEPT !.a = x].a = x /\ [r EXCEPT !.a = x].b = r.b
           /\ [r EXCEPT !.a = x].style = r.style /\ [r EXCEPT !.a = x].of = r.of
           /\ [r EXCEPT !.b = x].b = x /\ [r EXCEPT !.b = x].a = r.a
           /\ [r EXCEPT !.b = x].style = r.style /\ [r EXCEPT !.b = x].of = r.of
<1>1. DOMAIN r = {"a", "b", "style", "of"}
      BY DEF IsRun
<1>2. /\ [r EXCEPT !.a = x].a = x /\ [r EXCEPT !.a = x].b = r.b
      /\ [r EXCEPT !.a = x].style = r.style /\ [r EXCEPT !.a = x].of = r.of
      BY <1>1
<1>3. /\ [r EXCEPT !.b = x].b = x /\ [r EXCEPT !.b = x].a = r.a
      /\ [r EXCEPT !.b = x].style = r.style /\ [r EXCEPT !.b = x].of = r.of
      BY <1>1
<1>4. [r EXCEPT !.a = x] = [a |-> x, b |-> r.b, style |-> r.style, of |-> r.of]
      BY <1>1, <1>2 DEF IsRun
<1>5. [r EXCEPT !.b = x] = [a |-> r.a, b |-> x, style |-> r.style, of |-> r.of]
      BY <1>1, <1>3 DEF IsRun
<1>6. QED BY <1>2, <1>3, <1>4, <1>5 DEF IsRun

LEMMA ReadingStays ==
    ASSUME reading' = reading
    PROVE  /\ Kept' = Kept
           /\ \A e : PagesOf(e)' = PagesOf(e)
           /\ \A e : Crosses(e)' <=> Crosses(e)
           /\ \A e : Joins(e)' <=> Joins(e)
           /\ \A i : AsNode(i)' = AsNode(i)
<1>1. Kept' = Kept
      BY DEF Kept
<1>2. \A e : PagesOf(e)' = PagesOf(e)
      BY <1>1 DEF PagesOf
<1>3. \A e : Crosses(e)' <=> Crosses(e)
      BY <1>2 DEF Crosses
<1>4. \A i : AsNode(i)' = AsNode(i)
      BY <1>1 DEF AsNode
<1>5. QED BY <1>1, <1>2, <1>3, <1>4 DEF Joins

\* A turn that leaves the pages alone.
LEMMA PagesStay ==
    ASSUME GraphInv, papers' = papers, reading' = reading, InOrder',
           PastEntities \subseteq PastEntities', PastEdges \subseteq PastEdges',
           \A i \in PastEntities' \ PastEntities : i \notin Kept,
           \A k \in PastEdges' \ PastEdges : ~Joins(reading.edges[k]),
           converting # "emitted",
           CountsAre'
    PROVE  GraphInv'
<1>1. /\ Kept' = Kept
      /\ \A e : Joins(e)' <=> Joins(e)
      /\ \A i : AsNode(i)' = AsNode(i)
      BY ReadingStays
<1>2. PapersAre'
      BY DEF GraphInv, PapersAre
<1>3. EntitiesAre'
  <2>1. \A i \in PastEntities' \cap Kept : i \in PastEntities \cap Kept
        OBVIOUS
  <2>2. EntitiesAre
        BY DEF GraphInv
  <2>3. \A i \in PastEntities' \cap Kept' :
          \E n \in DOMAIN papers'[reading'.entities[i].page].nodes :
             papers'[reading'.entities[i].page].nodes[n].of = i
        BY <1>1, <2>1, <2>2 DEF EntitiesAre
  <2>4. \A p \in Pages : \A n \in DOMAIN papers'[p].nodes :
          IF papers'[p].nodes[n].of = 0
          THEN papers'[p].nodes[n].kind \in {"dead-end", "nozzle"}
          ELSE /\ papers'[p].nodes[n].of \in PastEntities' \cap Kept'
               /\ reading'.entities[papers'[p].nodes[n].of].page = p
               /\ papers'[p].nodes[n].kind = Becomes(reading'.entities[papers'[p].nodes[n].of].kind)
               /\ \A m \in DOMAIN papers'[p].nodes : papers'[p].nodes[m].of = papers'[p].nodes[n].of => m = n
        BY <1>1, <2>2 DEF EntitiesAre
  <2>5. QED BY <2>3, <2>4 DEF EntitiesAre
<1>4. ConnectionsAre'
  <2>1. ConnectionsAre
        BY DEF GraphInv
  <2>2. \A k \in PastEdges' : Joins(reading.edges[k]) => k \in PastEdges
        OBVIOUS
  <2>3. \A k \in PastEdges' : Joins(reading.edges[k])' =>
          \E p \in Pages : \E l \in DOMAIN papers'[p].runs : papers'[p].runs[l].of = k
    <3>1. \A k : Joins(reading.edges[k])' <=> Joins(reading.edges[k])
          BY <1>1
    <3>2. QED BY <2>1, <2>2, <3>1 DEF ConnectionsAre
  <2>4. ASSUME NEW p \in Pages, NEW l \in DOMAIN papers[p].runs, papers[p].runs[l].of # 0
        PROVE  /\ papers[p].runs[l].of \in PastEdges'
               /\ Joins(reading.edges[papers[p].runs[l].of])'
               /\ Stands(papers[p], papers[p].runs[l].a, AsNode(reading.edges[papers[p].runs[l].of].from)')
               /\ Stands(papers[p], papers[p].runs[l].b, AsNode(reading.edges[papers[p].runs[l].of].to)')
               /\ \A q \in Pages : \A m \in DOMAIN papers[q].runs :
                     papers[q].runs[m].of = papers[p].runs[l].of => q = p /\ m = l
        BY <1>1, <2>1, <2>4 DEF ConnectionsAre
  <2>5. QED BY <2>3, <2>4 DEF ConnectionsAre
<1>5. MarksAre'
  <2>1. MarksAre
        BY DEF GraphInv
  <2>2. QED BY <2>1 DEF MarksAre
<1>6. QED BY <1>2, <1>3, <1>4, <1>5 DEF GraphInv

\* One more is counted.
LEMMA OneMore ==
    ASSUME NEW S, IsFiniteSet(S), NEW x, x \notin S
    PROVE  Cardinality(S \cup {x}) = Cardinality(S) + 1 /\ Cardinality(S) \in Nat
BY FS_AddElement, FS_CardinalityType

\* The turn passes from one entity to the next, and from one connection to the next.
LEMMA NextEntity ==
    ASSUME InOrder, AtEntity, reading' = reading, converting' = converting, turn' = turn + 1
    PROVE  /\ PastEntities' = PastEntities \cup {turn} /\ turn \notin PastEntities
           /\ PastEdges' = {} /\ PastEdges = {}
           /\ turn \in DOMAIN reading.entities /\ turn # 0 /\ turn' \in Nat /\ turn' > 0
           /\ converting = "nodes" /\ IsFiniteSet(PastEntities)
<1>1. converting = "nodes" /\ turn \in Nat /\ turn > 0 /\ turn <= Len(reading.entities)
      BY DEF AtEntity, InOrder
<1>2. /\ Len(reading.entities) \in Nat /\ DOMAIN reading.entities = 1..Len(reading.entities)
      /\ IsFiniteSet(DOMAIN reading.entities)
      BY ReadingIs DEF InOrder
<1>3. turn \in DOMAIN reading.entities
      BY <1>1, <1>2
<1>4. \A i \in DOMAIN reading.entities : i < turn + 1 <=> i < turn \/ i = turn
      BY <1>1, <1>2
<1>5. PastEntities' = PastEntities \cup {turn} /\ turn \notin PastEntities
      BY <1>1, <1>3, <1>4 DEF PastEntities
<1>6. IsFiniteSet(PastEntities)
  <2>1. PastEntities \subseteq DOMAIN reading.entities
        BY DEF PastEntities
  <2>2. QED BY <1>2, <2>1, FS_Subset
<1>7. PastEdges' = {} /\ PastEdges = {}
      BY <1>1 DEF PastEdges
<1>8. QED BY <1>1, <1>3, <1>5, <1>6, <1>7

LEMMA NextConnection ==
    ASSUME InOrder, AtEdge, reading' = reading, converting' = converting, turn' = turn + 1
    PROVE  /\ PastEdges' = PastEdges \cup {turn} /\ turn \notin PastEdges
           /\ PastEntities' = PastEntities
           /\ turn \in DOMAIN reading.edges /\ turn # 0 /\ turn' \in Nat /\ turn' > 0
           /\ converting = "edges" /\ IsFiniteSet(PastEdges)
<1>1. converting = "edges" /\ turn \in Nat /\ turn > 0 /\ turn <= Len(reading.edges)
      BY DEF AtEdge, InOrder
<1>2. /\ Len(reading.edges) \in Nat /\ DOMAIN reading.edges = 1..Len(reading.edges)
      /\ IsFiniteSet(DOMAIN reading.edges)
      BY ReadingIs DEF InOrder
<1>3. turn \in DOMAIN reading.edges
      BY <1>1, <1>2
<1>4. \A i \in DOMAIN reading.edges : i < turn + 1 <=> i < turn \/ i = turn
      BY <1>1, <1>2
<1>5. PastEdges' = PastEdges \cup {turn} /\ turn \notin PastEdges
      BY <1>1, <1>3, <1>4 DEF PastEdges
<1>6. IsFiniteSet(PastEdges)
  <2>1. PastEdges \subseteq DOMAIN reading.edges
        BY DEF PastEdges
  <2>2. QED BY <1>2, <2>1, FS_Subset
<1>7. PastEntities' = PastEntities
      BY <1>1 DEF PastEntities
<1>8. QED BY <1>1, <1>3, <1>5, <1>6, <1>7

LEMMA PassOverKeeps ==
    ASSUME GraphInv, PassOver \/ Drop
    PROVE  GraphInv'
<1>1. /\ AtEntity /\ reading' = reading /\ converting' = converting /\ turn' = turn + 1
      /\ papers' = papers
      BY DEF PassOver, Drop
<1>2. InOrder /\ CountsAre
      BY DEF GraphInv
<1>3. /\ PastEntities' = PastEntities \cup {turn} /\ turn \notin PastEntities
      /\ PastEdges' = {} /\ PastEdges = {}
      /\ turn \in DOMAIN reading.entities /\ turn # 0 /\ turn' \in Nat /\ turn' > 0
      /\ converting = "nodes" /\ IsFiniteSet(PastEntities)
      BY <1>1, <1>2, NextEntity
<1>4. turn \notin Kept
      BY DEF PassOver, Drop, Kept, Entity
<1>5. InOrder'
      BY <1>1, <1>2, <1>3 DEF InOrder
<1>6. Kept' = Kept /\ (\A e : PagesOf(e)' = PagesOf(e)) /\ (\A e : Crosses(e)' <=> Crosses(e))
      BY <1>1, ReadingStays
<1>7. LooseEnds' = LooseEnds
      BY <1>1 DEF LooseEnds
<1> DEFINE D == {i \in PastEntities : reading.entities[i].page \in Pages /\ i \notin Kept}
<1>8. D' = {i \in PastEntities' : reading.entities[i].page \in Pages /\ i \notin Kept}
      BY <1>1, <1>6
<1>9. CountsAre'
  <2>1. CASE PassOver
    <3>1. report' = report /\ reading.entities[turn].page \notin Pages
          BY <2>1 DEF PassOver, Entity
    <3>2. D' = D
          BY <1>3, <1>8, <3>1
    <3>3. QED BY <1>1, <1>2, <1>3, <1>6, <1>7, <3>1, <3>2 DEF CountsAre
  <2>2. CASE Drop
    <3>1. reading.entities[turn].page \in Pages /\ report' = [report EXCEPT !.dropped = @ + 1]
          BY <2>2 DEF Drop, Entity
    <3>2. D' = D \cup {turn} /\ turn \notin D
          BY <1>3, <1>4, <1>8, <3>1
    <3>3. IsFiniteSet(D)
      <4>1. D \subseteq PastEntities
            OBVIOUS
      <4>2. QED BY <1>3, <4>1, FS_Subset
    <3>4. Cardinality(D') = Cardinality(D) + 1
      <4> HIDE DEF D
      <4>1. QED BY <3>2, <3>3, OneMore
    <3>5. /\ DOMAIN report' = {"dropped", "dangling", "cross", "nozzles"}
          /\ report'.dropped = report.dropped + 1
          /\ report'.dangling = report.dangling /\ report'.cross = report.cross
          BY <1>2, <3>1 DEF CountsAre
    <3>6. report.dropped = Cardinality(D)
          BY <1>2 DEF CountsAre
    <3>7. report'.dropped = Cardinality(D')
          BY <3>4, <3>5, <3>6
    <3>8. QED BY <1>1, <1>2, <1>3, <1>6, <1>7, <3>5, <3>7 DEF CountsAre
  <2>3. QED BY <2>1, <2>2
<1>10. /\ PastEntities \subseteq PastEntities' /\ PastEdges \subseteq PastEdges'
       /\ \A i \in PastEntities' \ PastEntities : i \notin Kept
       /\ \A k \in PastEdges' \ PastEdges : ~Joins(reading.edges[k])
       /\ converting # "emitted"
      BY <1>3, <1>4
<1>11. QED BY <1>1, <1>5, <1>9, <1>10, PagesStay

\* The loop over the entities ends, that over the connections, that over the pages.
LEMMA StageEnds ==
    ASSUME GraphInv, EndNodes \/ EndEdges \/ EndNozzles
    PROVE  GraphInv'
<1>1. reading' = reading /\ papers' = papers /\ report' = report /\ converting # "emitted"
      BY DEF EndNodes, EndEdges, EndNozzles
<1>2. InOrder /\ CountsAre
      BY DEF GraphInv
<1>3. /\ Len(reading.entities) \in Nat /\ DOMAIN reading.entities = 1..Len(reading.entities)
      /\ Len(reading.edges) \in Nat /\ DOMAIN reading.edges = 1..Len(reading.edges)
      BY <1>2, ReadingIs DEF InOrder
<1>4. InOrder'
  <2>1. CASE EndNodes
        BY <1>1, <1>2, <2>1 DEF InOrder, EndNodes
  <2>2. CASE EndEdges
        BY <1>1, <1>2, <2>2 DEF InOrder, EndEdges
  <2>3. CASE EndNozzles
    <3>1. /\ converting = "nozzles" /\ converting' = "converted" /\ turn' = turn
          /\ \A p \in Pages : Bare(papers'[p]) = {}
          BY <1>1, <2>3 DEF EndNozzles
    <3>2. QED BY <1>1, <1>2, <3>1 DEF InOrder
  <2>4. QED BY <2>1, <2>2, <2>3
<1>5. PastEntities' = PastEntities /\ PastEdges' = PastEdges
  <2>1. CASE EndNodes
    <3>1. /\ converting = "nodes" /\ converting' = "edges" /\ turn' = 1
          /\ turn > Len(reading.entities) /\ turn \in Nat
          BY <1>2, <2>1 DEF EndNodes, InOrder
    <3>2. (\A i \in DOMAIN reading.entities : i < turn) /\ (\A k \in DOMAIN reading.edges : ~(k < 1))
          BY <1>3, <3>1
    <3>3. QED BY <1>1, <3>1, <3>2 DEF PastEntities, PastEdges
  <2>2. CASE EndEdges
    <3>1. /\ converting = "edges" /\ converting' = "nozzles"
          /\ turn > Len(reading.edges) /\ turn \in Nat
          BY <1>2, <2>2 DEF EndEdges, InOrder
    <3>2. \A k \in DOMAIN reading.edges : k < turn
          BY <1>3, <3>1
    <3>3. QED BY <1>1, <3>1, <3>2 DEF PastEntities, PastEdges
  <2>3. CASE EndNozzles
        BY <1>1, <2>3 DEF EndNozzles, PastEntities, PastEdges
  <2>4. QED BY <2>1, <2>2, <2>3
<1>6. Kept' = Kept /\ (\A e : PagesOf(e)' = PagesOf(e)) /\ (\A e : Crosses(e)' <=> Crosses(e))
      BY <1>1, ReadingStays
<1>7. LooseEnds' = LooseEnds
      BY <1>1 DEF LooseEnds
<1>8. CountsAre'
      BY <1>1, <1>2, <1>5, <1>6, <1>7 DEF CountsAre
<1>9. QED BY <1>1, <1>4, <1>5, <1>8, PagesStay

\* A connection that becomes no run of a page.
LEMMA UnlaidKeeps ==
    ASSUME GraphInv, Dangle \/ LeaveToStitching
    PROVE  GraphInv'
<1>1. /\ AtEdge /\ reading' = reading /\ converting' = converting /\ turn' = turn + 1
      /\ papers' = papers
      BY DEF Dangle, LeaveToStitching
<1>2. InOrder /\ CountsAre
      BY DEF GraphInv
<1>3. /\ PastEdges' = PastEdges \cup {turn} /\ turn \notin PastEdges
      /\ PastEntities' = PastEntities
      /\ turn \in DOMAIN reading.edges /\ turn # 0 /\ turn' \in Nat /\ turn' > 0
      /\ converting = "edges" /\ IsFiniteSet(PastEdges)
      BY <1>1, <1>2, NextConnection
<1>4. ~Joins(reading.edges[turn])
      BY DEF Dangle, LeaveToStitching, Connection, Joins
<1>5. InOrder'
      BY <1>1, <1>2, <1>3 DEF InOrder
<1>6. Kept' = Kept /\ (\A e : PagesOf(e)' = PagesOf(e)) /\ (\A e : Crosses(e)' <=> Crosses(e))
      BY <1>1, ReadingStays
<1>7. LooseEnds' = LooseEnds
      BY <1>1 DEF LooseEnds
<1> DEFINE D == {k \in PastEdges : PagesOf(reading.edges[k]) = {}}
           C == {k \in PastEdges : PagesOf(reading.edges[k]) # {} /\ Crosses(reading.edges[k])}
           E == {i \in PastEntities : reading.entities[i].page \in Pages /\ i \notin Kept}
<1>8. /\ D' = {k \in PastEdges' : PagesOf(reading.edges[k]) = {}}
      /\ C' = {k \in PastEdges' : PagesOf(reading.edges[k]) # {} /\ Crosses(reading.edges[k])}
      /\ E' = E
      BY <1>1, <1>3, <1>6
<1>9. /\ DOMAIN report = {"dropped", "dangling", "cross", "nozzles"}
      /\ report.dropped = Cardinality(E) /\ report.cross = C /\ IsFiniteSet(LooseEnds)
      /\ report.dangling = Cardinality(D) + Cardinality(LooseEnds)
      BY <1>2 DEF CountsAre
<1>10. CountsAre'
  <2>1. CASE Dangle
    <3>1. PagesOf(reading.edges[turn]) = {} /\ report' = [report EXCEPT !.dangling = @ + 1]
          BY <2>1 DEF Dangle, Connection
    <3>2. D' = D \cup {turn} /\ turn \notin D /\ C' = C
          BY <1>3, <1>8, <3>1
    <3>3. IsFiniteSet(D)
      <4>1. D \subseteq PastEdges
            OBVIOUS
      <4>2. QED BY <1>3, <4>1, FS_Subset
    <3>4. Cardinality(D') = Cardinality(D) + 1 /\ Cardinality(D) \in Nat
      <4> HIDE DEF D
      <4>1. QED BY <3>2, <3>3, OneMore
    <3>5. /\ DOMAIN report' = {"dropped", "dangling", "cross", "nozzles"}
          /\ report'.dropped = report.dropped
          /\ report'.dangling = report.dangling + 1 /\ report'.cross = report.cross
          BY <1>9, <3>1
    <3>6. Cardinality(LooseEnds) \in Nat
          BY <1>9, FS_CardinalityType
    <3> HIDE DEF C, D, E
    <3>7. /\ report'.dropped = Cardinality(E') /\ report'.cross = C'
          /\ report'.dangling = Cardinality(D') + Cardinality(LooseEnds')
          BY <1>7, <1>8, <1>9, <3>2, <3>4, <3>5, <3>6
    <3>8. QED BY <1>7, <1>9, <3>5, <3>7 DEF CountsAre, C, D, E
  <2>2. CASE LeaveToStitching
    <3>1. /\ PagesOf(reading.edges[turn]) # {} /\ Crosses(reading.edges[turn])
          /\ report' = [report EXCEPT !.cross = @ \cup {turn}]
          BY <2>2 DEF LeaveToStitching, Connection
    <3>2. D' = D /\ C' = C \cup {turn}
          BY <1>3, <1>8, <3>1
    <3>3. /\ DOMAIN report' = {"dropped", "dangling", "cross", "nozzles"}
          /\ report'.dropped = report.dropped
          /\ report'.dangling = report.dangling /\ report'.cross = report.cross \cup {turn}
          BY <1>9, <3>1
    <3> HIDE DEF C, D, E
    <3>4. /\ report'.dropped = Cardinality(E') /\ report'.cross = C'
          /\ report'.dangling = Cardinality(D') + Cardinality(LooseEnds')
          BY <1>7, <1>8, <1>9, <3>2, <3>3
    <3>5. QED BY <1>7, <1>9, <3>3, <3>4 DEF CountsAre, C, D, E
  <2>3. QED BY <2>1, <2>2
<1>11. /\ PastEntities \subseteq PastEntities' /\ PastEdges \subseteq PastEdges'
       /\ \A i \in PastEntities' \ PastEntities : i \notin Kept
       /\ \A k \in PastEdges' \ PastEdges : ~Joins(reading.edges[k])
       /\ converting # "emitted"
      BY <1>3, <1>4
<1>12. QED BY <1>1, <1>5, <1>10, <1>11, PagesStay

\* An entity becomes the last node of its page.
LEMMA PlaceMakes ==
    ASSUME GraphInv, Place
    PROVE  LET q == Entity.page
               n == Len(papers[q].nodes) + 1
           IN  /\ q \in Pages /\ n \in Nat /\ n \notin DOMAIN papers[q].nodes
               /\ DOMAIN papers' = Pages
               /\ \A p \in Pages \ {q} : papers'[p] = papers[p]
               /\ DOMAIN papers'[q] = DOMAIN papers[q]
               /\ IsSequence(papers'[q].nodes) /\ papers'[q].runs = papers[q].runs
               /\ DOMAIN papers'[q].nodes = DOMAIN papers[q].nodes \cup {n}
               /\ \A m \in DOMAIN papers[q].nodes : papers'[q].nodes[m] = papers[q].nodes[m]
               /\ papers'[q].nodes[n].kind = Becomes(Entity.kind) /\ papers'[q].nodes[n].of = turn
               /\ papers'[q].connectors \subseteq papers[q].connectors \cup {n}
               /\ papers[q].safety \subseteq papers'[q].safety
               /\ Entity.kind = "safety-valve" => n \in papers'[q].safety
               /\ papers'[q].marked = papers[q].marked
<1>1. PICK q : q = Entity.page
      OBVIOUS
<1>2. PICK s : s = papers[q].nodes
      OBVIOUS
<1>3. PICK x : x = [kind |-> Becomes(Entity.kind), of |-> turn]
      OBVIOUS
<1>4. /\ q \in Pages /\ DOMAIN papers = Pages
      /\ DOMAIN papers[q] = {"nodes", "runs", "connectors", "safety", "marked"}
      /\ IsSequence(s)
      BY <1>1, <1>2 DEF Place, GraphInv, PapersAre, PaperIs
<1>5. PICK c, d, new :
         /\ papers' = [papers EXCEPT ![q] = new]
         /\ new = [papers[q] EXCEPT !.nodes = Append(s, x),
                                    !.connectors = papers[q].connectors \cup c,
                                    !.safety = papers[q].safety \cup d]
         /\ c \subseteq {Len(s) + 1}
         /\ (Entity.kind = "safety-valve" => Len(s) + 1 \in d)
  <2> DEFINE cc == IF Entity.kind = "opc" /\ Entity.heading # "none" THEN {Drawn(papers[q])} ELSE {}
             dd == IF Entity.kind = "safety-valve" THEN {Drawn(papers[q])} ELSE {}
             nn == [papers[q] EXCEPT !.nodes = Append(s, x),
                                     !.connectors = papers[q].connectors \cup cc,
                                     !.safety = papers[q].safety \cup dd]
  <2>1. papers' = [papers EXCEPT ![q] = nn]
        BY <1>1, <1>2, <1>3 DEF Place
  <2>2. Drawn(papers[q]) = Len(s) + 1
        BY <1>2 DEF Drawn
  <2>3. cc \subseteq {Len(s) + 1} /\ (Entity.kind = "safety-valve" => Len(s) + 1 \in dd)
        BY <2>2
  <2>4. \E new : papers' = [papers EXCEPT ![q] = new] /\ new = nn
        BY <2>1
  <2> HIDE DEF cc, dd
  <2>5. QED BY <2>3, <2>4
<1>6. /\ DOMAIN papers' = Pages /\ (\A p \in Pages \ {q} : papers'[p] = papers[p])
      /\ papers'[q] = new
      BY <1>4, <1>5
<1>7. /\ DOMAIN papers'[q] = DOMAIN papers[q]
      /\ papers'[q].nodes = Append(s, x) /\ papers'[q].runs = papers[q].runs
      /\ papers'[q].connectors = papers[q].connectors \cup c
      /\ papers'[q].safety = papers[q].safety \cup d
      /\ papers'[q].marked = papers[q].marked
      BY <1>4, <1>5, <1>6
<1>8. PICK T : s \in Seq(T)
      BY <1>4 DEF IsSequence
<1>9. /\ Append(s, x) \in Seq(T \cup {x})
      /\ Len(s) \in Nat /\ DOMAIN s = 1..Len(s)
      /\ DOMAIN Append(s, x) = 1..Len(s) + 1
      /\ \A k \in 1..Len(s) : Append(s, x)[k] = s[k]
      /\ Append(s, x)[Len(s) + 1] = x
      BY <1>8, Appended
<1>10. IsSequence(Append(s, x))
      BY <1>9 DEF IsSequence
<1>11. 1..Len(s) + 1 = (1..Len(s)) \cup {Len(s) + 1} /\ Len(s) + 1 \notin 1..Len(s)
      BY <1>9
<1>12. x.kind = Becomes(Entity.kind) /\ x.of = turn
      BY <1>3
<1>13. QED BY <1>1, <1>2, <1>4, <1>5, <1>6, <1>7, <1>9, <1>10, <1>11, <1>12

\* Loose ends, page by page.
LEMMA LooseEndsAre ==
    \A x : x \in LooseEnds <=>
        \E p \in Pages : \E n \in DOMAIN papers[p].nodes :
            papers[p].nodes[n].kind = "dead-end" /\ x = <<p, n>>
BY DEF LooseEnds, DeadEnds

LEMMA PlaceKeeps ==
    ASSUME GraphInv, Place
    PROVE  GraphInv'
<1>1. PICK q, n : q = Entity.page /\ n = Len(papers[q].nodes) + 1
      OBVIOUS
<1>2. /\ q \in Pages /\ n \in Nat /\ n \notin DOMAIN papers[q].nodes
      /\ DOMAIN papers' = Pages
      /\ \A p \in Pages \ {q} : papers'[p] = papers[p]
      /\ DOMAIN papers'[q] = DOMAIN papers[q]
      /\ IsSequence(papers'[q].nodes) /\ papers'[q].runs = papers[q].runs
      /\ DOMAIN papers'[q].nodes = DOMAIN papers[q].nodes \cup {n}
      /\ \A m \in DOMAIN papers[q].nodes : papers'[q].nodes[m] = papers[q].nodes[m]
      /\ papers'[q].nodes[n].kind = Becomes(Entity.kind) /\ papers'[q].nodes[n].of = turn
      /\ papers'[q].connectors \subseteq papers[q].connectors \cup {n}
      /\ papers[q].safety \subseteq papers'[q].safety
      /\ (Entity.kind = "safety-valve" => n \in papers'[q].safety)
      /\ papers'[q].marked = papers[q].marked
      BY <1>1, PlaceMakes
<1>3. /\ AtEntity /\ reading' = reading /\ converting' = converting /\ turn' = turn + 1
      /\ report' = report /\ Entity.kind # "text"
      BY DEF Place
<1>4. InOrder /\ PapersAre /\ EntitiesAre /\ ConnectionsAre /\ CountsAre /\ MarksAre
      BY DEF GraphInv
<1>5. /\ PastEntities' = PastEntities \cup {turn} /\ turn \notin PastEntities
      /\ PastEdges' = {} /\ PastEdges = {}
      /\ turn \in DOMAIN reading.entities /\ turn # 0 /\ turn' \in Nat /\ turn' > 0
      /\ converting = "nodes"
      BY <1>3, <1>4, NextEntity
<1>6. /\ Kept' = Kept /\ (\A e : PagesOf(e)' = PagesOf(e)) /\ (\A e : Crosses(e)' <=> Crosses(e))
      BY <1>3, ReadingStays
<1>7. Entity = reading.entities[turn] /\ turn \in Kept /\ Entity.kind \in EntityKinds
  <2>1. Entity = reading.entities[turn]
        BY DEF Entity
  <2>2. Entity.kind \in EntityKinds
        BY <1>4, <1>5, <2>1, ReadingIs DEF InOrder
  <2>3. QED BY <1>1, <1>2, <1>3, <1>5, <2>1, <2>2 DEF Kept
<1>8. Becomes(Entity.kind) # "nozzle" /\ Becomes(Entity.kind) # "dead-end"
      BY <1>3, <1>7, KindsAre
<1>9. \A p \in Pages : papers[p].runs = <<>> /\ papers'[p].runs = <<>> /\ DOMAIN papers[p].runs = {}
  <2>1. \A p \in Pages : papers[p].runs = <<>>
        BY <1>4, <1>5 DEF InOrder
  <2>2. DOMAIN <<>> = {}
        OBVIOUS
  <2>3. QED BY <1>2, <2>1, <2>2
<1>10. \A m \in DOMAIN papers'[q].nodes : m = n \/ m \in DOMAIN papers[q].nodes
      BY <1>2
<1>11. \A p \in Pages : \A m \in DOMAIN papers'[p].nodes :
          IF p = q /\ m = n
          THEN papers'[p].nodes[m].kind = Becomes(Entity.kind) /\ papers'[p].nodes[m].of = turn
          ELSE m \in DOMAIN papers[p].nodes /\ papers'[p].nodes[m] = papers[p].nodes[m]
      BY <1>2, <1>10
<1>12. \A p \in Pages : \A m \in DOMAIN papers[p].nodes :
          m \in DOMAIN papers'[p].nodes /\ papers'[p].nodes[m] = papers[p].nodes[m] /\ ~(p = q /\ m = n)
      BY <1>2
<1>13. InOrder'
  <2>1. \A p \in Pages : \A m \in DOMAIN papers'[p].nodes : papers'[p].nodes[m].kind # "nozzle"
        BY <1>4, <1>5, <1>8, <1>11 DEF InOrder
  <2>2. QED BY <1>3, <1>4, <1>5, <1>9, <2>1 DEF InOrder
<1>14. PapersAre'
  <2>1. ASSUME NEW p \in Pages
        PROVE  PaperIs(papers'[p])
    <3>1. CASE p # q
          BY <1>2, <1>4, <3>1 DEF PapersAre
    <3>2. CASE p = q
      <4>1. PaperIs(papers[q])
            BY <1>2, <1>4 DEF PapersAre
      <4>2. /\ DOMAIN papers'[q] = {"nodes", "runs", "connectors", "safety", "marked"}
            /\ IsSequence(papers'[q].nodes) /\ IsSequence(papers'[q].runs)
            /\ DOMAIN papers'[q].runs = {}
            BY <1>2, <1>9, <4>1 DEF PaperIs
      <4>3. \A m \in DOMAIN papers'[q].nodes : papers'[q].nodes[m].kind # "nozzle"
            BY <1>2, <1>4, <1>5, <1>8, <1>11 DEF InOrder
      <4>4. QED BY <3>2, <4>2, <4>3 DEF PaperIs
    <3>3. QED BY <3>1, <3>2
  <2>2. QED BY <1>2, <2>1 DEF PapersAre
<1>15. EntitiesAre'
  <2>1. ASSUME NEW i \in PastEntities' \cap Kept
        PROVE  \E m \in DOMAIN papers'[reading.entities[i].page].nodes :
                  papers'[reading.entities[i].page].nodes[m].of = i
    <3>1. CASE i = turn
      <4>1. n \in DOMAIN papers'[q].nodes /\ papers'[q].nodes[n].of = i
            BY <1>2, <3>1
      <4>2. QED BY <1>1, <1>7, <3>1, <4>1
    <3>2. CASE i # turn
      <4>1. i \in PastEntities \cap Kept /\ reading.entities[i].page \in Pages
            BY <1>5, <2>1, <3>2 DEF Kept
      <4>2. PICK m \in DOMAIN papers[reading.entities[i].page].nodes :
               papers[reading.entities[i].page].nodes[m].of = i
            BY <1>4, <4>1 DEF EntitiesAre
      <4>3. QED BY <1>12, <4>1, <4>2
    <3>3. QED BY <3>1, <3>2
  <2>2. ASSUME NEW p \in Pages, NEW m \in DOMAIN papers'[p].nodes
        PROVE  IF papers'[p].nodes[m].of = 0
               THEN papers'[p].nodes[m].kind \in {"dead-end", "nozzle"}
               ELSE /\ papers'[p].nodes[m].of \in PastEntities' \cap Kept
                    /\ reading.entities[papers'[p].nodes[m].of].page = p
                    /\ papers'[p].nodes[m].kind
                          = Becomes(reading.entities[papers'[p].nodes[m].of].kind)
                    /\ \A l \in DOMAIN papers'[p].nodes :
                          papers'[p].nodes[l].of = papers'[p].nodes[m].of => l = m
    <3>1. \A l \in DOMAIN papers[p].nodes : papers[p].nodes[l].of # turn
          BY <1>4, <1>5 DEF EntitiesAre
    <3>2. CASE p = q /\ m = n
      <4>1. papers'[p].nodes[m].of = turn /\ papers'[p].nodes[m].kind = Becomes(Entity.kind)
            BY <1>2, <3>2
      <4>2. \A l \in DOMAIN papers'[p].nodes : papers'[p].nodes[l].of = turn => l = m
            BY <1>2, <1>10, <3>1, <3>2
      <4>3. QED BY <1>1, <1>5, <1>7, <3>2, <4>1, <4>2
    <3>3. CASE ~(p = q /\ m = n)
      <4>1. m \in DOMAIN papers[p].nodes /\ papers'[p].nodes[m] = papers[p].nodes[m]
            BY <1>11, <3>3
      <4>2. IF papers[p].nodes[m].of = 0
               THEN papers[p].nodes[m].kind \in {"dead-end", "nozzle"}
               ELSE /\ papers[p].nodes[m].of \in PastEntities \cap Kept
                    /\ reading.entities[papers[p].nodes[m].of].page = p
                    /\ papers[p].nodes[m].kind
                          = Becomes(reading.entities[papers[p].nodes[m].of].kind)
                    /\ \A l \in DOMAIN papers[p].nodes :
                          papers[p].nodes[l].of = papers[p].nodes[m].of => l = m
            BY <1>4, <4>1 DEF EntitiesAre
      <4>3. \A l \in DOMAIN papers'[p].nodes :
               \/ papers'[p].nodes[l].of = turn
               \/ l \in DOMAIN papers[p].nodes /\ papers'[p].nodes[l] = papers[p].nodes[l]
            BY <1>2, <1>11
      <4>4. papers[p].nodes[m].of # turn
            BY <3>1, <4>1
      <4>5. QED BY <1>5, <4>1, <4>2, <4>3, <4>4
    <3>4. QED BY <3>2, <3>3
  <2>3. QED BY <1>3, <1>6, <2>1, <2>2 DEF EntitiesAre
<1>16. ConnectionsAre'
  <2>1. \A p \in Pages : DOMAIN papers'[p].runs = {}
        BY <1>9
  <2>2. QED BY <1>5, <2>1 DEF ConnectionsAre
<1>17. CountsAre'
  <2>1. LooseEnds' = LooseEnds
    <3>1. \A x : x \in LooseEnds' <=>
             \E p \in Pages : \E m \in DOMAIN papers'[p].nodes :
                papers'[p].nodes[m].kind = "dead-end" /\ x = <<p, m>>
          BY LooseEndsAre DEF LooseEnds, DeadEnds
    <3>2. \A x : x \in LooseEnds' <=> x \in LooseEnds
          BY <1>8, <1>11, <1>12, <3>1, LooseEndsAre
    <3>3. QED BY <3>2
  <2> DEFINE E == {i \in PastEntities : reading.entities[i].page \in Pages /\ i \notin Kept}
  <2>2. E' = E
    <3>1. E' = {i \in PastEntities' : reading.entities[i].page \in Pages /\ i \notin Kept}
          BY <1>3, <1>6
    <3>2. QED BY <1>5, <1>7, <3>1
  <2>3. QED BY <1>3, <1>4, <1>5, <2>1, <2>2 DEF CountsAre
<1>18. MarksAre'
  <2>1. ASSUME NEW p \in Pages
        PROVE  /\ papers'[p].connectors \subseteq {m \in DOMAIN papers'[p].nodes : papers'[p].nodes[m].of # 0}
               /\ \A m \in DOMAIN papers'[p].nodes :
                     papers'[p].nodes[m].of # 0
                     /\ reading.entities[papers'[p].nodes[m].of].kind = "safety-valve"
                        => m \in papers'[p].safety
               /\ papers'[p].marked = {}
    <3>1. /\ papers[p].connectors \subseteq {m \in DOMAIN papers[p].nodes : papers[p].nodes[m].of # 0}
          /\ \A m \in DOMAIN papers[p].nodes :
                     papers[p].nodes[m].of # 0
                     /\ reading.entities[papers[p].nodes[m].of].kind = "safety-valve"
                        => m \in papers[p].safety
          /\ papers[p].marked = {}
          BY <1>4, <1>5 DEF MarksAre
    <3>2. CASE p # q
          BY <1>2, <3>1, <3>2
    <3>3. CASE p = q
      <4>1. papers'[q].nodes[n].of # 0
            BY <1>2, <1>5
      <4>2. \A m \in papers[q].connectors : m \in DOMAIN papers'[q].nodes /\ papers'[q].nodes[m].of # 0
            BY <1>2, <3>1, <3>3
      <4>3. reading.entities[papers'[q].nodes[n].of].kind = Entity.kind
            BY <1>2, <1>7
      <4>4. QED BY <1>2, <1>10, <3>1, <3>3, <4>1, <4>2, <4>3
    <3>4. QED BY <3>2, <3>3
  <2>2. QED BY <1>3, <2>1 DEF MarksAre
<1>19. QED BY <1>13, <1>14, <1>15, <1>16, <1>17, <1>18 DEF GraphInv

\* A connection of one page, and what it lacks of the two nodes there.
LEMMA LayingIs ==
    ASSUME GraphInv, Lay
    PROVE  \E q \in Pages, c \in {0, 1} :
             /\ PagesOf(Connection) = {q}
             /\ \A i \in {Connection.from, Connection.to} : i \in Kept => reading.entities[i].page = q
             /\ c = 0 => {Connection.from, Connection.to} \subseteq Kept
             /\ {Connection.from, Connection.to} \subseteq Kept => c = 0
             /\ papers' = [papers EXCEPT
                   ![q].nodes = @ \o [k \in 1..c |-> [kind |-> "dead-end", of |-> 0]],
                   ![q].runs = Append(@,
                      [a |-> IF Connection.from \in Kept THEN NodeFor(papers[q], Connection.from)
                                                         ELSE Drawn(papers[q]),
                       b |-> IF Connection.to \in Kept THEN NodeFor(papers[q], Connection.to)
                                                       ELSE Drawn(papers[q]),
                       style |-> IF Connection.process THEN "solid" ELSE "dashed",
                       of |-> turn])]
             /\ report' = [report EXCEPT !.dangling = @ + c]
<1> DEFINE e    == Connection
           gone == {e.from, e.to} \ Kept
<1>1. PagesOf(e) # {} /\ ~Crosses(e)
      BY DEF Lay
<1>2. PICK q \in PagesOf(e) :
         /\ papers' = [papers EXCEPT
                   ![q].nodes = @ \o [k \in 1..Cardinality(gone) |-> [kind |-> "dead-end", of |-> 0]],
                   ![q].runs = Append(@,
                      [a |-> IF e.from \in Kept THEN NodeFor(papers[q], e.from) ELSE Drawn(papers[q]),
                       b |-> IF e.to \in Kept THEN NodeFor(papers[q], e.to) ELSE Drawn(papers[q]),
                       style |-> IF e.process THEN "solid" ELSE "dashed",
                       of |-> turn])]
         /\ report' = [report EXCEPT !.dangling = @ + Cardinality(gone)]
      BY DEF Lay
<1>3. PICK x, y : x = e.from /\ y = e.to
      OBVIOUS
<1>4. PagesOf(e) = {reading.entities[i].page : i \in {x, y} \cap Kept}
      BY <1>3 DEF PagesOf
<1>5. \A i \in {x, y} : i \in Kept => reading.entities[i].page = q
  <2>1. SUFFICES ASSUME NEW i \in {x, y}, i \in Kept, reading.entities[i].page # q PROVE FALSE
        OBVIOUS
  <2>2. PICK j \in {x, y} \cap Kept : reading.entities[j].page = q
        BY <1>4
  <2>3. {x, y} \cap Kept = {i, j}
        BY <2>1, <2>2
  <2>4. PagesOf(e) = {reading.entities[i].page, q}
        BY <1>4, <2>2, <2>3
  <2>5. IsFiniteSet({q}) /\ Cardinality({q}) = 1
        BY FS_Singleton
  <2>6. Cardinality({q} \cup {reading.entities[i].page}) = 2
        BY <2>1, <2>5, FS_AddElement
  <2>7. {q} \cup {reading.entities[i].page} = {reading.entities[i].page, q}
        OBVIOUS
  <2>8. QED BY <1>1, <2>4, <2>6, <2>7 DEF Crosses
<1>6. PagesOf(e) = {q} /\ q \in Pages
      BY <1>4, <1>5 DEF Kept
<1>7. \E i \in {x, y} : i \in Kept
      BY <1>4, <1>6
<1>8. \/ gone = {} /\ {x, y} \subseteq Kept
      \/ \E g \in {x, y} : gone = {g} /\ ~({x, y} \subseteq Kept)
      BY <1>3, <1>7
<1>9. /\ Cardinality(gone) \in {0, 1}
      /\ Cardinality(gone) = 0 <=> {x, y} \subseteq Kept
  <2> HIDE DEF gone
  <2>1. CASE gone = {} /\ {x, y} \subseteq Kept
        BY <2>1, FS_EmptySet
  <2>2. ASSUME NEW g \in {x, y}, gone = {g} /\ ~({x, y} \subseteq Kept)
        PROVE  Cardinality(gone) = 1 /\ ~({x, y} \subseteq Kept)
        BY <2>2, FS_Singleton
  <2>3. QED BY <1>8, <2>1, <2>2
<1>10. PICK c : c = Cardinality(gone)
      OBVIOUS
<1>11. /\ papers' = [papers EXCEPT
                   ![q].nodes = @ \o [k \in 1..c |-> [kind |-> "dead-end", of |-> 0]],
                   ![q].runs = Append(@,
                      [a |-> IF e.from \in Kept THEN NodeFor(papers[q], e.from) ELSE Drawn(papers[q]),
                       b |-> IF e.to \in Kept THEN NodeFor(papers[q], e.to) ELSE Drawn(papers[q]),
                       style |-> IF e.process THEN "solid" ELSE "dashed",
                       of |-> turn])]
         /\ report' = [report EXCEPT !.dangling = @ + c]
      BY <1>2, <1>10
<1> HIDE DEF gone
<1>12. c \in {0, 1} /\ (c = 0 <=> {e.from, e.to} \subseteq Kept)
      BY <1>3, <1>9, <1>10
<1>13. \A i \in {e.from, e.to} : i \in Kept => reading.entities[i].page = q
      BY <1>3, <1>5
<1> HIDE DEF e
<1>14. QED BY <1>6, <1>11, <1>12, <1>13 DEF e

\* While connections are read, the node of an entity is on its page.
LEMMA NodeIsThere ==
    ASSUME GraphInv, converting = "edges", NEW q \in Pages, NEW i \in Kept, reading.entities[i].page = q
    PROVE  /\ NodeFor(papers[q], i) \in DOMAIN papers[q].nodes
           /\ papers[q].nodes[NodeFor(papers[q], i)].of = i
<1>1. i \in PastEntities \cap Kept
      BY DEF PastEntities, Kept
<1>2. \E n \in DOMAIN papers[q].nodes : papers[q].nodes[n].of = i
      BY <1>1 DEF GraphInv, EntitiesAre
<1>3. QED BY <1>2 DEF NodeFor

\* A connection becomes the last run of its page, after a dead end where it lacks a node.
LEMMA LayMakes ==
    ASSUME GraphInv, Lay
    PROVE  \E q \in Pages, c \in {0, 1} : \E n, m \in Nat :
             /\ n \notin DOMAIN papers[q].nodes /\ m \notin DOMAIN papers[q].runs
             /\ report' = [report EXCEPT !.dangling = @ + c]
             /\ DOMAIN papers' = Pages
             /\ \A p \in Pages \ {q} : papers'[p] = papers[p]
             /\ DOMAIN papers'[q] = DOMAIN papers[q]
             /\ IsSequence(papers'[q].nodes) /\ IsSequence(papers'[q].runs)
             /\ DOMAIN papers'[q].nodes = DOMAIN papers[q].nodes \cup (IF c = 1 THEN {n} ELSE {})
             /\ \A k \in DOMAIN papers[q].nodes : papers'[q].nodes[k] = papers[q].nodes[k]
             /\ c = 1 => papers'[q].nodes[n].kind = "dead-end" /\ papers'[q].nodes[n].of = 0
             /\ DOMAIN papers'[q].runs = DOMAIN papers[q].runs \cup {m}
             /\ \A k \in DOMAIN papers[q].runs : papers'[q].runs[k] = papers[q].runs[k]
             /\ IsRun(papers'[q].runs[m])
             /\ papers'[q].runs[m].style \in {"solid", "dashed"} /\ papers'[q].runs[m].of = turn
             /\ papers'[q].runs[m].a \in DOMAIN papers'[q].nodes
             /\ papers'[q].runs[m].b \in DOMAIN papers'[q].nodes
             /\ papers'[q].nodes[papers'[q].runs[m].a].of = AsNode(Connection.from)
             /\ papers'[q].nodes[papers'[q].runs[m].b].of = AsNode(Connection.to)
             /\ papers'[q].connectors = papers[q].connectors
             /\ papers'[q].safety = papers[q].safety
             /\ papers'[q].marked = papers[q].marked
<1>1. PICK q \in Pages, c \in {0, 1} :
         /\ \A i \in {Connection.from, Connection.to} : i \in Kept => reading.entities[i].page = q
         /\ c = 0 => {Connection.from, Connection.to} \subseteq Kept
         /\ papers' = [papers EXCEPT
               ![q].nodes = @ \o [k \in 1..c |-> [kind |-> "dead-end", of |-> 0]],
               ![q].runs = Append(@,
                  [a |-> IF Connection.from \in Kept THEN NodeFor(papers[q], Connection.from)
                                                     ELSE Drawn(papers[q]),
                   b |-> IF Connection.to \in Kept THEN NodeFor(papers[q], Connection.to)
                                                   ELSE Drawn(papers[q]),
                   style |-> IF Connection.process THEN "solid" ELSE "dashed",
                   of |-> turn])]
         /\ report' = [report EXCEPT !.dangling = @ + c]
      BY LayingIs
<1>2. PICK s, t : s = papers[q].nodes /\ t = papers[q].runs
      OBVIOUS
<1>3. /\ DOMAIN papers = Pages
      /\ DOMAIN papers[q] = {"nodes", "runs", "connectors", "safety", "marked"}
      /\ IsSequence(s) /\ IsSequence(t)
      BY <1>2 DEF GraphInv, PapersAre, PaperIs
<1>4. PICK x, y : x = Connection.from /\ y = Connection.to
      OBVIOUS
<1>5. PICK a, b : /\ a = IF x \in Kept THEN NodeFor(papers[q], x) ELSE Len(s) + 1
                  /\ b = IF y \in Kept THEN NodeFor(papers[q], y) ELSE Len(s) + 1
      OBVIOUS
<1>6. PICK u : u \in {"solid", "dashed"} /\ u = IF Connection.process THEN "solid" ELSE "dashed"
      OBVIOUS
<1>7. PICK d : d = [k \in 1..c |-> [kind |-> "dead-end", of |-> 0]]
      OBVIOUS
<1>8. PICK r : r = [a |-> a, b |-> b, style |-> u, of |-> turn]
      OBVIOUS
<1>9. papers' = [papers EXCEPT ![q].nodes = @ \o d, ![q].runs = Append(@, r)]
      BY <1>1, <1>2, <1>4, <1>5, <1>6, <1>7, <1>8 DEF Drawn
<1>10. /\ DOMAIN papers' = Pages /\ (\A p \in Pages \ {q} : papers'[p] = papers[p])
       /\ DOMAIN papers'[q] = DOMAIN papers[q]
       /\ papers'[q].nodes = s \o d /\ papers'[q].runs = Append(t, r)
       /\ papers'[q].connectors = papers[q].connectors
       /\ papers'[q].safety = papers[q].safety
       /\ papers'[q].marked = papers[q].marked
      BY <1>2, <1>3, <1>9
<1>11. PICK S, T : s \in Seq(S) /\ t \in Seq(T)
      BY <1>3 DEF IsSequence
<1>12. PICK dead : dead = [kind |-> "dead-end", of |-> 0]
      OBVIOUS
<1>13. /\ s \in Seq(S \cup {dead}) /\ d \in Seq(S \cup {dead}) /\ Len(d) = c
       /\ \A k \in 1..c : d[k] = dead
  <2>1. d = [k \in 1..c |-> dead]
        BY <1>7, <1>12
  <2>2. d \in [1..c -> S \cup {dead}]
        BY <2>1
  <2>3. QED BY <1>11, <2>1, <2>2
<1>14. /\ s \o d \in Seq(S \cup {dead}) /\ Len(s) \in Nat
       /\ DOMAIN (s \o d) = 1..Len(s) + Len(d)
       /\ \A k \in 1..Len(s) : (s \o d)[k] = s[k]
       /\ \A k \in 1..Len(d) : (s \o d)[Len(s) + k] = d[k]
      BY <1>13, PutTogether
<1>15. /\ Append(t, r) \in Seq(T \cup {r})
       /\ Len(t) \in Nat /\ DOMAIN t = 1..Len(t)
       /\ DOMAIN Append(t, r) = 1..Len(t) + 1
       /\ \A k \in 1..Len(t) : Append(t, r)[k] = t[k]
       /\ Append(t, r)[Len(t) + 1] = r
      BY <1>11, Appended
<1>16. DOMAIN s = 1..Len(s)
      BY <1>11
<1>17. PICK n, m : n = Len(s) + 1 /\ m = Len(t) + 1
      OBVIOUS
<1>18. /\ n \in Nat /\ m \in Nat /\ n \notin DOMAIN s /\ m \notin DOMAIN t
       /\ DOMAIN Append(t, r) = DOMAIN t \cup {m}
       /\ \A k \in DOMAIN t : Append(t, r)[k] = t[k]
       /\ Append(t, r)[m] = r
      BY <1>14, <1>15, <1>16, <1>17
<1>19. /\ DOMAIN (s \o d) = DOMAIN s \cup (IF c = 1 THEN {n} ELSE {})
       /\ \A k \in DOMAIN s : (s \o d)[k] = s[k]
       /\ c = 1 => (s \o d)[n] = dead
  <2>1. CASE c = 0
    <3>1. 1..Len(s) + 0 = 1..Len(s)
          BY <1>14
    <3>2. QED BY <1>13, <1>14, <1>16, <2>1, <3>1
  <2>2. CASE c = 1
    <3>1. 1..Len(s) + 1 = (1..Len(s)) \cup {Len(s) + 1} /\ 1 \in 1..c
          BY <1>14, <2>2
    <3>2. QED BY <1>13, <1>14, <1>16, <1>17, <2>2, <3>1
  <2>3. QED BY <1>1, <2>1, <2>2
<1>20. converting = "edges"
      BY DEF Lay, AtEdge
<1>21. ASSUME NEW i \in {x, y}, i \in Kept
       PROVE  /\ NodeFor(papers[q], i) \in DOMAIN s /\ s[NodeFor(papers[q], i)].of = i
      BY <1>1, <1>2, <1>4, <1>20, <1>21, NodeIsThere
<1>22. ASSUME NEW i \in {x, y}, i \notin Kept
       PROVE  c = 1
      BY <1>1, <1>4, <1>22
<1>23. dead.of = 0 /\ dead.kind = "dead-end"
      BY <1>12
<1>24. /\ a \in DOMAIN (s \o d) /\ (s \o d)[a].of = AsNode(x)
       /\ b \in DOMAIN (s \o d) /\ (s \o d)[b].of = AsNode(y)
  <2>1. a \in DOMAIN (s \o d) /\ (s \o d)[a].of = AsNode(x)
    <3>1. CASE x \in Kept
          BY <1>5, <1>19, <1>21, <3>1 DEF AsNode
    <3>2. CASE x \notin Kept
          BY <1>5, <1>17, <1>19, <1>22, <1>23, <3>2 DEF AsNode
    <3>3. QED BY <3>1, <3>2
  <2>2. b \in DOMAIN (s \o d) /\ (s \o d)[b].of = AsNode(y)
    <3>1. CASE y \in Kept
          BY <1>5, <1>19, <1>21, <3>1 DEF AsNode
    <3>2. CASE y \notin Kept
          BY <1>5, <1>17, <1>19, <1>22, <1>23, <3>2 DEF AsNode
    <3>3. QED BY <3>1, <3>2
  <2>3. QED BY <2>1, <2>2
<1>25. /\ IsRun(r) /\ r.a = a /\ r.b = b /\ r.style = u /\ r.of = turn
      BY <1>8 DEF IsRun
<1>26. IsSequence(s \o d) /\ IsSequence(Append(t, r))
      BY <1>14, <1>15 DEF IsSequence
<1>27. PICK s2, t2 : s2 = s \o d /\ t2 = Append(t, r)
      OBVIOUS
<1>28. QED
  <2>1. /\ papers'[q].nodes = s2 /\ papers'[q].runs = t2
        /\ IsSequence(s2) /\ IsSequence(t2)
        /\ DOMAIN s2 = DOMAIN s \cup (IF c = 1 THEN {n} ELSE {})
        /\ \A k \in DOMAIN s : s2[k] = s[k]
        /\ c = 1 => s2[n].kind = "dead-end" /\ s2[n].of = 0
        /\ DOMAIN t2 = DOMAIN t \cup {m} /\ (\A k \in DOMAIN t : t2[k] = t[k]) /\ t2[m] = r
        /\ a \in DOMAIN s2 /\ s2[a].of = AsNode(x)
        /\ b \in DOMAIN s2 /\ s2[b].of = AsNode(y)
        BY <1>10, <1>18, <1>19, <1>23, <1>24, <1>26, <1>27
  <2>2. /\ report' = [report EXCEPT !.dangling = @ + c] /\ n \in Nat /\ m \in Nat
        /\ n \notin DOMAIN s /\ m \notin DOMAIN t
        BY <1>1, <1>18
  <2>3. QED BY <1>2, <1>4, <1>6, <1>10, <1>25, <2>1, <2>2

LEMMA LayKeeps ==
    ASSUME GraphInv, Lay
    PROVE  GraphInv'
<1>1. PICK q \in Pages, c \in {0, 1} : \E n, m \in Nat :
             /\ n \notin DOMAIN papers[q].nodes /\ m \notin DOMAIN papers[q].runs
             /\ report' = [report EXCEPT !.dangling = @ + c]
             /\ DOMAIN papers' = Pages
             /\ \A p \in Pages \ {q} : papers'[p] = papers[p]
             /\ DOMAIN papers'[q] = DOMAIN papers[q]
             /\ IsSequence(papers'[q].nodes) /\ IsSequence(papers'[q].runs)
             /\ DOMAIN papers'[q].nodes = DOMAIN papers[q].nodes \cup (IF c = 1 THEN {n} ELSE {})
             /\ \A k \in DOMAIN papers[q].nodes : papers'[q].nodes[k] = papers[q].nodes[k]
             /\ c = 1 => papers'[q].nodes[n].kind = "dead-end" /\ papers'[q].nodes[n].of = 0
             /\ DOMAIN papers'[q].runs = DOMAIN papers[q].runs \cup {m}
             /\ \A k \in DOMAIN papers[q].runs : papers'[q].runs[k] = papers[q].runs[k]
             /\ IsRun(papers'[q].runs[m])
             /\ papers'[q].runs[m].style \in {"solid", "dashed"} /\ papers'[q].runs[m].of = turn
             /\ papers'[q].runs[m].a \in DOMAIN papers'[q].nodes
             /\ papers'[q].runs[m].b \in DOMAIN papers'[q].nodes
             /\ papers'[q].nodes[papers'[q].runs[m].a].of = AsNode(Connection.from)
             /\ papers'[q].nodes[papers'[q].runs[m].b].of = AsNode(Connection.to)
             /\ papers'[q].connectors = papers[q].connectors
             /\ papers'[q].safety = papers[q].safety
             /\ papers'[q].marked = papers[q].marked
      BY LayMakes
<1>2. PICK n, m \in Nat :
             /\ n \notin DOMAIN papers[q].nodes /\ m \notin DOMAIN papers[q].runs
             /\ report' = [report EXCEPT !.dangling = @ + c]
             /\ DOMAIN papers' = Pages
             /\ \A p \in Pages \ {q} : papers'[p] = papers[p]
             /\ DOMAIN papers'[q] = DOMAIN papers[q]
             /\ IsSequence(papers'[q].nodes) /\ IsSequence(papers'[q].runs)
             /\ DOMAIN papers'[q].nodes = DOMAIN papers[q].nodes \cup (IF c = 1 THEN {n} ELSE {})
             /\ \A k \in DOMAIN papers[q].nodes : papers'[q].nodes[k] = papers[q].nodes[k]
             /\ c = 1 => papers'[q].nodes[n].kind = "dead-end" /\ papers'[q].nodes[n].of = 0
             /\ DOMAIN papers'[q].runs = DOMAIN papers[q].runs \cup {m}
             /\ \A k \in DOMAIN papers[q].runs : papers'[q].runs[k] = papers[q].runs[k]
             /\ IsRun(papers'[q].runs[m])
             /\ papers'[q].runs[m].style \in {"solid", "dashed"} /\ papers'[q].runs[m].of = turn
             /\ papers'[q].runs[m].a \in DOMAIN papers'[q].nodes
             /\ papers'[q].runs[m].b \in DOMAIN papers'[q].nodes
             /\ papers'[q].nodes[papers'[q].runs[m].a].of = AsNode(Connection.from)
             /\ papers'[q].nodes[papers'[q].runs[m].b].of = AsNode(Connection.to)
             /\ papers'[q].connectors = papers[q].connectors
             /\ papers'[q].safety = papers[q].safety
             /\ papers'[q].marked = papers[q].marked
      BY <1>1
<1>3. /\ AtEdge /\ reading' = reading /\ converting' = converting /\ turn' = turn + 1
      /\ Connection = reading.edges[turn] /\ Joins(reading.edges[turn])
      BY DEF Lay, Connection, Joins
<1>4. InOrder /\ PapersAre /\ EntitiesAre /\ ConnectionsAre /\ CountsAre /\ MarksAre
      BY DEF GraphInv
<1>5. /\ PastEdges' = PastEdges \cup {turn} /\ turn \notin PastEdges
      /\ PastEntities' = PastEntities
      /\ turn \in DOMAIN reading.edges /\ turn # 0 /\ turn' \in Nat /\ turn' > 0
      /\ converting = "edges" /\ IsFiniteSet(PastEdges)
      BY <1>3, <1>4, NextConnection
<1>6. /\ Kept' = Kept /\ (\A e : PagesOf(e)' = PagesOf(e)) /\ (\A e : Crosses(e)' <=> Crosses(e))
      /\ (\A e : Joins(e)' <=> Joins(e)) /\ (\A i : AsNode(i)' = AsNode(i))
      BY <1>3, ReadingStays
<1>7. \A p \in Pages : \A k \in DOMAIN papers[p].nodes :
          k \in DOMAIN papers'[p].nodes /\ papers'[p].nodes[k] = papers[p].nodes[k]
      BY <1>2
<1>8. \A p \in Pages : \A k \in DOMAIN papers'[p].nodes :
          \/ k \in DOMAIN papers[p].nodes /\ papers'[p].nodes[k] = papers[p].nodes[k]
          \/ /\ p = q /\ k = n /\ c = 1
             /\ papers'[p].nodes[k].kind = "dead-end" /\ papers'[p].nodes[k].of = 0
      BY <1>2
<1>9. \A p \in Pages : \A l \in DOMAIN papers[p].runs :
          l \in DOMAIN papers'[p].runs /\ papers'[p].runs[l] = papers[p].runs[l]
      BY <1>2
<1>10. \A p \in Pages : \A l \in DOMAIN papers'[p].runs :
          \/ l \in DOMAIN papers[p].runs /\ papers'[p].runs[l] = papers[p].runs[l]
          \/ p = q /\ l = m
      BY <1>2
<1>11. \A p \in Pages : /\ \A k \in DOMAIN papers[p].nodes : papers[p].nodes[k].kind # "nozzle"
                        /\ \A l \in DOMAIN papers[p].runs : papers[p].runs[l].style # "internal"
      BY <1>4, <1>5 DEF InOrder
<1>12. \A p \in Pages : /\ \A k \in DOMAIN papers'[p].nodes : papers'[p].nodes[k].kind # "nozzle"
                        /\ \A l \in DOMAIN papers'[p].runs : papers'[p].runs[l].style # "internal"
  <2>1. papers'[q].runs[m].style # "internal"
        BY <1>2
  <2>2. QED BY <1>8, <1>10, <1>11, <2>1
<1>13. InOrder'
      BY <1>3, <1>4, <1>5, <1>12 DEF InOrder
<1>14. PapersAre'
  <2>1. ASSUME NEW p \in Pages
        PROVE  PaperIs(papers'[p])
    <3>1. CASE p # q
          BY <1>2, <1>4, <3>1 DEF PapersAre
    <3>2. CASE p = q
      <4>1. PaperIs(papers[q])
            BY <1>4 DEF PapersAre
      <4>2. /\ DOMAIN papers'[q] = {"nodes", "runs", "connectors", "safety", "marked"}
            /\ IsSequence(papers'[q].nodes) /\ IsSequence(papers'[q].runs)
            BY <1>2, <4>1 DEF PaperIs
      <4>3. ASSUME NEW l \in DOMAIN papers'[q].runs
            PROVE  /\ IsRun(papers'[q].runs[l])
                   /\ papers'[q].runs[l].a \in DOMAIN papers'[q].nodes
                   /\ papers'[q].runs[l].b \in DOMAIN papers'[q].nodes
                   /\ papers'[q].runs[l].style \in {"solid", "dashed"}
                   /\ papers'[q].runs[l].of # 0
        <5>1. CASE l = m
              BY <1>2, <1>5, <5>1
        <5>2. CASE l \in DOMAIN papers[q].runs /\ papers'[q].runs[l] = papers[q].runs[l]
          <6>1. /\ IsRun(papers[q].runs[l])
                /\ papers[q].runs[l].a \in DOMAIN papers[q].nodes
                /\ papers[q].runs[l].b \in DOMAIN papers[q].nodes
                /\ papers[q].runs[l].style \in {"solid", "dashed", "internal"}
                /\ papers[q].runs[l].style # "internal" => papers[q].runs[l].of # 0
                BY <4>1, <5>2 DEF PaperIs
          <6>2. papers[q].runs[l].style # "internal"
                BY <1>11, <5>2
          <6>3. QED BY <1>7, <5>2, <6>1, <6>2
        <5>3. QED BY <1>10, <5>1, <5>2
      <4>4. \A l \in DOMAIN papers'[q].runs :
                   /\ papers'[q].runs[l].style \in {"solid", "dashed", "internal"}
                   /\ papers'[q].runs[l].style # "internal"
            BY <4>3
      <4>5. QED BY <1>12, <3>2, <4>2, <4>3, <4>4 DEF PaperIs
    <3>3. QED BY <3>1, <3>2
  <2>2. QED BY <1>2, <2>1 DEF PapersAre
<1>15. EntitiesAre'
  <2>1. ASSUME NEW i \in PastEntities \cap Kept
        PROVE  \E k \in DOMAIN papers'[reading.entities[i].page].nodes :
                  papers'[reading.entities[i].page].nodes[k].of = i
    <3>1. reading.entities[i].page \in Pages
          BY DEF Kept
    <3>2. QED BY <1>4, <1>7, <3>1 DEF EntitiesAre
  <2>2. \A i \in PastEntities \cap Kept : i # 0
    <3>1. \A i \in DOMAIN reading.entities : i # 0
          BY <1>4, ReadingIs DEF InOrder
    <3>2. QED BY <3>1 DEF PastEntities
  <2>3. ASSUME NEW p \in Pages, NEW k \in DOMAIN papers'[p].nodes
        PROVE  IF papers'[p].nodes[k].of = 0
               THEN papers'[p].nodes[k].kind \in {"dead-end", "nozzle"}
               ELSE /\ papers'[p].nodes[k].of \in PastEntities \cap Kept
                    /\ reading.entities[papers'[p].nodes[k].of].page = p
                    /\ papers'[p].nodes[k].kind
                          = Becomes(reading.entities[papers'[p].nodes[k].of].kind)
                    /\ \A l \in DOMAIN papers'[p].nodes :
                          papers'[p].nodes[l].of = papers'[p].nodes[k].of => l = k
    <3>1. CASE papers'[p].nodes[k].of = 0 /\ papers'[p].nodes[k].kind = "dead-end"
          BY <3>1
    <3>2. CASE k \in DOMAIN papers[p].nodes /\ papers'[p].nodes[k] = papers[p].nodes[k]
      <4>1. IF papers[p].nodes[k].of = 0
            THEN papers[p].nodes[k].kind \in {"dead-end", "nozzle"}
            ELSE /\ papers[p].nodes[k].of \in PastEntities \cap Kept
                 /\ reading.entities[papers[p].nodes[k].of].page = p
                 /\ papers[p].nodes[k].kind
                          = Becomes(reading.entities[papers[p].nodes[k].of].kind)
                 /\ \A l \in DOMAIN papers[p].nodes :
                          papers[p].nodes[l].of = papers[p].nodes[k].of => l = k
            BY <1>4, <3>2 DEF EntitiesAre
      <4>2. QED BY <1>8, <3>2, <4>1
    <3>3. QED BY <1>8, <3>1, <3>2
  <2>4. QED BY <1>3, <1>5, <1>6, <2>1, <2>3 DEF EntitiesAre
<1>16. ConnectionsAre'
  <2>1. ASSUME NEW k \in PastEdges', Joins(reading.edges[k])
        PROVE  \E p \in Pages : \E l \in DOMAIN papers'[p].runs : papers'[p].runs[l].of = k
    <3>1. CASE k = turn
          BY <1>2, <3>1
    <3>2. CASE k \in PastEdges
      <4>1. PICK p \in Pages : \E l \in DOMAIN papers[p].runs : papers[p].runs[l].of = k
            BY <1>4, <2>1, <3>2 DEF ConnectionsAre
      <4>2. QED BY <1>9, <4>1
    <3>3. QED BY <1>5, <3>1, <3>2
  <2>2. \A p \in Pages : \A l \in DOMAIN papers[p].runs : papers[p].runs[l].of # turn
        BY <1>4, <1>5 DEF ConnectionsAre
  <2>3. ASSUME NEW p \in Pages, NEW l \in DOMAIN papers'[p].runs, papers'[p].runs[l].of # 0
        PROVE  /\ papers'[p].runs[l].of \in PastEdges'
               /\ Joins(reading.edges[papers'[p].runs[l].of])
               /\ papers'[p].nodes[papers'[p].runs[l].a].of
                     = AsNode(reading.edges[papers'[p].runs[l].of].from)
               /\ papers'[p].nodes[papers'[p].runs[l].b].of
                     = AsNode(reading.edges[papers'[p].runs[l].of].to)
               /\ \A r \in Pages : \A k \in DOMAIN papers'[r].runs :
                     papers'[r].runs[k].of = papers'[p].runs[l].of => r = p /\ k = l
    <3>1. CASE p = q /\ l = m
      <4>1. papers'[p].runs[l].of = turn
            BY <1>2, <3>1
      <4>2. \A r \in Pages : \A k \in DOMAIN papers'[r].runs :
                     papers'[r].runs[k].of = turn => r = q /\ k = m
            BY <1>10, <2>2
      <4>3. QED BY <1>2, <1>3, <1>5, <3>1, <4>1, <4>2
    <3>2. CASE l \in DOMAIN papers[p].runs /\ papers'[p].runs[l] = papers[p].runs[l]
      <4>1. PICK e : e = reading.edges[papers[p].runs[l].of]
            OBVIOUS
      <4>2. /\ papers[p].runs[l].of \in PastEdges /\ Joins(e)
            /\ Stands(papers[p], papers[p].runs[l].a, AsNode(e.from))
            /\ Stands(papers[p], papers[p].runs[l].b, AsNode(e.to))
            /\ \A r \in Pages : \A k \in DOMAIN papers[r].runs :
                  papers[r].runs[k].of = papers[p].runs[l].of => r = p /\ k = l
            BY <1>4, <2>3, <3>2, <4>1 DEF ConnectionsAre
      <4>3. papers[p].runs[l].a \in DOMAIN papers[p].nodes /\ papers[p].runs[l].b \in DOMAIN papers[p].nodes
            BY <1>4, <3>2 DEF PapersAre, PaperIs
      <4>4. /\ papers[p].nodes[papers[p].runs[l].a].of = AsNode(e.from)
            /\ papers[p].nodes[papers[p].runs[l].b].of = AsNode(e.to)
            BY <1>11, <4>2, <4>3 DEF Stands
      <4>5. /\ papers'[p].nodes[papers'[p].runs[l].a].of = AsNode(e.from)
            /\ papers'[p].nodes[papers'[p].runs[l].b].of = AsNode(e.to)
            BY <1>7, <3>2, <4>3, <4>4
      <4>6. \A r \in Pages : \A k \in DOMAIN papers'[r].runs :
                  papers'[r].runs[k].of = papers[p].runs[l].of => r = p /\ k = l
            BY <1>2, <1>5, <1>10, <4>2
      <4>7. QED BY <1>5, <3>2, <4>1, <4>2, <4>5, <4>6
    <3>3. QED BY <1>10, <3>1, <3>2
  <2>4. ASSUME NEW p \in Pages, NEW l \in DOMAIN papers'[p].runs
        PROVE  /\ papers'[p].nodes[papers'[p].runs[l].a].kind # "nozzle"
               /\ papers'[p].nodes[papers'[p].runs[l].b].kind # "nozzle"
    <3>1. papers'[p].runs[l].a \in DOMAIN papers'[p].nodes /\ papers'[p].runs[l].b \in DOMAIN papers'[p].nodes
          BY <1>14, <2>4 DEF PapersAre, PaperIs
    <3>2. QED BY <1>12, <3>1
  <2>5. ASSUME NEW p \in Pages, NEW l \in DOMAIN papers'[p].runs, papers'[p].runs[l].of # 0
        PROVE  /\ Stands(papers'[p], papers'[p].runs[l].a, AsNode(reading.edges[papers'[p].runs[l].of].from))
               /\ Stands(papers'[p], papers'[p].runs[l].b, AsNode(reading.edges[papers'[p].runs[l].of].to))
        BY <2>3, <2>4, <2>5 DEF Stands
  <2>6. \A k \in PastEdges' : Joins(reading.edges[k])' =>
          \E p \in Pages : \E l \in DOMAIN papers'[p].runs : papers'[p].runs[l].of = k
    <3>1. \A k : Joins(reading.edges[k])' <=> Joins(reading.edges[k])
          BY <1>6, <1>3
    <3>2. QED BY <2>1, <3>1
  <2>7. ASSUME NEW p \in Pages, NEW l \in DOMAIN papers'[p].runs, papers'[p].runs[l].of # 0
        PROVE  /\ papers'[p].runs[l].of \in PastEdges'
               /\ Joins(reading.edges[papers[p].runs[l].of])'
               /\ Stands(papers[p], papers[p].runs[l].a, AsNode(reading.edges[papers[p].runs[l].of].from))'
               /\ Stands(papers[p], papers[p].runs[l].b, AsNode(reading.edges[papers[p].runs[l].of].to))'
               /\ \A r \in Pages : \A k \in DOMAIN papers'[r].runs :
                     papers'[r].runs[k].of = papers'[p].runs[l].of => r = p /\ k = l
        BY <1>3, <1>6, <2>3, <2>5, <2>7
  <2>8. QED BY <2>6, <2>7 DEF ConnectionsAre
<1>17. CountsAre'
  <2>1. \A x : x \in LooseEnds' <=>
             \E p \in Pages : \E k \in DOMAIN papers'[p].nodes :
                papers'[p].nodes[k].kind = "dead-end" /\ x = <<p, k>>
        BY LooseEndsAre DEF LooseEnds, DeadEnds
  <2>2. LooseEnds' = LooseEnds \cup (IF c = 1 THEN {<<q, n>>} ELSE {})
    <3>1. \A x : x \in LooseEnds' <=> x \in LooseEnds \/ (c = 1 /\ x = <<q, n>>)
          BY <1>2, <1>7, <1>8, <2>1, LooseEndsAre
    <3>2. QED BY <3>1
  <2>3. <<q, n>> \notin LooseEnds
        BY <1>2, LooseEndsAre
  <2>4. IsFiniteSet(LooseEnds)
        BY <1>4 DEF CountsAre
  <2>5. PICK z : z = <<q, n>>
        OBVIOUS
  <2>6. /\ IsFiniteSet(LooseEnds') /\ Cardinality(LooseEnds') = Cardinality(LooseEnds) + c
        /\ Cardinality(LooseEnds) \in Nat
    <3>1. CASE c = 0
          BY <2>2, <2>4, <3>1, FS_CardinalityType
    <3>2. CASE c = 1
      <4>1. LooseEnds' = LooseEnds \cup {z} /\ z \notin LooseEnds
            BY <2>2, <2>3, <2>5, <3>2
      <4>2. Cardinality(LooseEnds \cup {z}) = Cardinality(LooseEnds) + 1 /\ Cardinality(LooseEnds) \in Nat
            BY <2>4, <4>1, OneMore
      <4>3. IsFiniteSet(LooseEnds \cup {z})
            BY <2>4, FS_AddElement
      <4>4. QED BY <3>2, <4>1, <4>2, <4>3
    <3>3. QED BY <3>1, <3>2
  <2> DEFINE D == {k \in PastEdges : PagesOf(reading.edges[k]) = {}}
             C == {k \in PastEdges : PagesOf(reading.edges[k]) # {} /\ Crosses(reading.edges[k])}
             E == {i \in PastEntities : reading.entities[i].page \in Pages /\ i \notin Kept}
  <2>7. D' = D /\ C' = C /\ E' = E
    <3>1. /\ D' = {k \in PastEdges' : PagesOf(reading.edges[k]) = {}}
          /\ C' = {k \in PastEdges' : PagesOf(reading.edges[k]) # {} /\ Crosses(reading.edges[k])}
          /\ E' = E
          BY <1>3, <1>5, <1>6
    <3>2. PagesOf(reading.edges[turn]) # {} /\ ~Crosses(reading.edges[turn])
          BY <1>3 DEF Joins
    <3>3. QED BY <1>5, <3>1, <3>2
  <2>8. /\ DOMAIN report = {"dropped", "dangling", "cross", "nozzles"}
        /\ report.dropped = Cardinality(E) /\ report.cross = C
        /\ report.dangling = Cardinality(D) + Cardinality(LooseEnds)
        BY <1>4 DEF CountsAre
  <2>9. Cardinality(D) \in Nat
    <3>1. D \subseteq PastEdges
          OBVIOUS
    <3>2. IsFiniteSet(D)
          BY <1>5, <3>1, FS_Subset
    <3> HIDE DEF D
    <3>3. QED BY <3>2, FS_CardinalityType
  <2>10. /\ DOMAIN report' = {"dropped", "dangling", "cross", "nozzles"}
         /\ report'.dropped = report.dropped
         /\ report'.dangling = report.dangling + c /\ report'.cross = report.cross
        BY <1>2, <2>8
  <2> HIDE DEF C, D, E
  <2>11. /\ report'.dropped = Cardinality(E') /\ report'.cross = C'
         /\ report'.dangling = Cardinality(D') + Cardinality(LooseEnds')
        BY <2>6, <2>7, <2>8, <2>9, <2>10
  <2>12. QED BY <2>6, <2>10, <2>11 DEF CountsAre, C, D, E
<1>18. MarksAre'
  <2>1. ASSUME NEW p \in Pages
        PROVE  /\ papers'[p].connectors \subseteq {k \in DOMAIN papers'[p].nodes : papers'[p].nodes[k].of # 0}
               /\ \A k \in DOMAIN papers'[p].nodes :
                     papers'[p].nodes[k].of # 0
                     /\ reading.entities[papers'[p].nodes[k].of].kind = "safety-valve"
                        => k \in papers'[p].safety
               /\ papers'[p].marked = {}
    <3>1. /\ papers[p].connectors \subseteq {k \in DOMAIN papers[p].nodes : papers[p].nodes[k].of # 0}
          /\ \A k \in DOMAIN papers[p].nodes :
                     papers[p].nodes[k].of # 0
                     /\ reading.entities[papers[p].nodes[k].of].kind = "safety-valve"
                        => k \in papers[p].safety
          /\ papers[p].marked = {}
          BY <1>4, <1>5 DEF MarksAre
    <3>2. /\ papers'[p].connectors = papers[p].connectors /\ papers'[p].safety = papers[p].safety
          /\ papers'[p].marked = papers[p].marked
          BY <1>2
    <3>3. QED BY <1>7, <1>8, <3>1, <3>2
  <2>2. QED BY <1>3, <2>1 DEF MarksAre
<1>19. QED BY <1>13, <1>14, <1>15, <1>16, <1>17, <1>18 DEF GraphInv

\* Run k of a page goes on to its item by way of the new nozzle nz and the new run m.
Nozzled(paper, new, k, nz, m, item) ==
    /\ k \in DOMAIN paper.runs /\ paper.runs[k].style = "solid"
    /\ item \in DOMAIN paper.nodes /\ paper.nodes[item].kind = "equipment"
    /\ nz \notin DOMAIN paper.nodes /\ m \notin DOMAIN paper.runs
    /\ DOMAIN new = DOMAIN paper
    /\ IsSequence(new.nodes) /\ IsSequence(new.runs)
    /\ DOMAIN new.nodes = DOMAIN paper.nodes \cup {nz}
    /\ \A n \in DOMAIN paper.nodes : new.nodes[n] = paper.nodes[n]
    /\ new.nodes[nz].kind = "nozzle" /\ new.nodes[nz].of = 0
    /\ DOMAIN new.runs = DOMAIN paper.runs \cup {m}
    /\ \A l \in DOMAIN paper.runs \ {k} : new.runs[l] = paper.runs[l]
    /\ IsRun(new.runs[k]) /\ new.runs[k].style = "solid" /\ new.runs[k].of = paper.runs[k].of
    /\ \/ paper.runs[k].a = item /\ new.runs[k].a = nz /\ new.runs[k].b = paper.runs[k].b
       \/ paper.runs[k].b = item /\ new.runs[k].b = nz /\ new.runs[k].a = paper.runs[k].a
    /\ IsRun(new.runs[m]) /\ new.runs[m].a = nz /\ new.runs[m].b = item
    /\ new.runs[m].style = "internal" /\ new.runs[m].of = 0
    /\ new.connectors = paper.connectors /\ new.safety = paper.safety
    /\ new.marked = paper.marked

LEMMA WithNozzleIs ==
    ASSUME NEW paper, PaperIs(paper), Bare(paper) # {}
    PROVE  \E k, nz, m, item : Nozzled(paper, WithNozzle(paper, Min(Bare(paper))), k, nz, m, item)
<1>1. PICK k : k = Min(Bare(paper))
      OBVIOUS
<1>2. PICK s, t : s = paper.nodes /\ t = paper.runs
      OBVIOUS
<1>3. /\ DOMAIN paper = {"nodes", "runs", "connectors", "safety", "marked"}
      /\ IsSequence(s) /\ IsSequence(t)
      BY <1>2 DEF PaperIs
<1>4. PICK S, T : s \in Seq(S) /\ t \in Seq(T)
      BY <1>3 DEF IsSequence
<1>5. k \in DOMAIN t /\ k \in Bare(paper)
  <2>1. Bare(paper) \in SUBSET Nat /\ Bare(paper) \subseteq DOMAIN t
    <3>1. DOMAIN t \subseteq Nat
          BY <1>4
    <3>2. QED BY <1>2, <3>1 DEF Bare
  <2>2. Min(Bare(paper)) \in Bare(paper)
        BY <2>1, MinIn
  <2>3. QED BY <1>1, <2>1, <2>2
<1>6. PICK r : r = t[k]
      OBVIOUS
<1>7. /\ r.style = "solid" /\ IsRun(r) /\ r.a \in DOMAIN s /\ r.b \in DOMAIN s
      /\ \E n \in {r.a, r.b} : s[n].kind = "equipment"
      BY <1>2, <1>5, <1>6 DEF Bare, PaperIs
<1>8. PICK item : item = IF s[r.a].kind = "equipment" THEN r.a ELSE r.b
      OBVIOUS
<1>9. item \in DOMAIN s /\ s[item].kind = "equipment"
      BY <1>7, <1>8
<1>10. PICK nz, m : nz = Len(s) + 1 /\ m = Len(t) + 1
      OBVIOUS
<1>11. PICK moved : moved = IF s[r.a].kind = "equipment" THEN [r EXCEPT !.a = nz] ELSE [r EXCEPT !.b = nz]
      OBVIOUS
<1>12. /\ IsRun(moved) /\ moved.style = "solid" /\ moved.of = r.of
       /\ \/ r.a = item /\ moved.a = nz /\ moved.b = r.b
          \/ r.b = item /\ moved.b = nz /\ moved.a = r.a
  <2>1. CASE s[r.a].kind = "equipment"
    <3>1. moved = [r EXCEPT !.a = nz] /\ item = r.a
          BY <1>8, <1>11, <2>1
    <3>2. QED BY <1>7, <3>1, RunMoves
  <2>2. CASE s[r.a].kind # "equipment"
    <3>1. moved = [r EXCEPT !.b = nz] /\ item = r.b
          BY <1>8, <1>11, <2>2
    <3>2. QED BY <1>7, <3>1, RunMoves
  <2>3. QED BY <2>1, <2>2
<1>13. PICK inner, nozzle : /\ inner = [a |-> nz, b |-> item, style |-> "internal", of |-> 0]
                            /\ nozzle = [kind |-> "nozzle", of |-> 0]
      OBVIOUS
<1>14. PICK t1 : t1 = [t EXCEPT ![k] = moved]
      OBVIOUS
<1>15. PICK s2, t2 : s2 = Append(s, nozzle) /\ t2 = Append(t1, inner)
      OBVIOUS
<1>16. PICK new : new = WithNozzle(paper, Min(Bare(paper)))
      OBVIOUS
<1>17. new = [paper EXCEPT !.nodes = s2, !.runs = t2]
  <2>1. s[r.a].kind = "equipment" \/ s[r.a].kind # "equipment"
        OBVIOUS
  <2>2. new = [paper EXCEPT !.nodes = Append(s, nozzle),
                     !.runs = Append([t EXCEPT ![k] = IF s[r.a].kind = "equipment"
                                                      THEN [r EXCEPT !.a = nz]
                                                      ELSE [r EXCEPT !.b = nz]], inner)]
        BY <1>1, <1>2, <1>6, <1>8, <1>10, <1>13, <1>16 DEF WithNozzle, Drawn
  <2>3. QED BY <1>11, <1>14, <1>15, <2>2
<1>18. /\ DOMAIN new = DOMAIN paper /\ new.nodes = s2 /\ new.runs = t2
       /\ new.connectors = paper.connectors /\ new.safety = paper.safety
       /\ new.marked = paper.marked
      BY <1>3, <1>17
<1>19. /\ Append(s, nozzle) \in Seq(S \cup {nozzle})
       /\ Len(s) \in Nat /\ DOMAIN s = 1..Len(s)
       /\ DOMAIN Append(s, nozzle) = 1..Len(s) + 1
       /\ \A l \in 1..Len(s) : Append(s, nozzle)[l] = s[l]
       /\ Append(s, nozzle)[Len(s) + 1] = nozzle
      BY <1>4, Appended
<1>20. /\ t1 \in Seq(T \cup {moved}) /\ Len(t1) = Len(t) /\ Len(t) \in Nat /\ DOMAIN t1 = DOMAIN t
       /\ t1[k] = moved /\ \A l \in DOMAIN t \ {k} : t1[l] = t[l]
  <2>1. /\ Len(t) \in Nat /\ t \in [1..Len(t) -> T] /\ DOMAIN t = 1..Len(t)
        BY <1>4
  <2>2. t1 \in [1..Len(t) -> T \cup {moved}] /\ t1[k] = moved /\ \A l \in DOMAIN t \ {k} : t1[l] = t[l]
        BY <1>5, <1>14, <2>1
  <2>3. QED BY <2>1, <2>2
<1>21. /\ Append(t1, inner) \in Seq(T \cup {moved} \cup {inner})
       /\ DOMAIN Append(t1, inner) = 1..Len(t1) + 1
       /\ \A l \in 1..Len(t1) : Append(t1, inner)[l] = t1[l]
       /\ Append(t1, inner)[Len(t1) + 1] = inner
       /\ DOMAIN t1 = 1..Len(t1)
      BY <1>20, Appended
<1>22. /\ nz \notin DOMAIN s /\ IsSequence(s2) /\ DOMAIN s2 = DOMAIN s \cup {nz}
       /\ \A l \in DOMAIN s : s2[l] = s[l]
       /\ s2[nz] = nozzle
  <2>1. 1..Len(s) + 1 = (1..Len(s)) \cup {Len(s) + 1} /\ Len(s) + 1 \notin 1..Len(s)
        BY <1>19
  <2>2. IsSequence(s2)
        BY <1>15, <1>19 DEF IsSequence
  <2>3. QED BY <1>10, <1>15, <1>19, <2>1, <2>2
<1>23. /\ m \notin DOMAIN t /\ IsSequence(t2) /\ DOMAIN t2 = DOMAIN t \cup {m}
       /\ \A l \in DOMAIN t : t2[l] = t1[l]
       /\ t2[m] = inner
  <2>1. 1..Len(t) + 1 = (1..Len(t)) \cup {Len(t) + 1} /\ Len(t) + 1 \notin 1..Len(t)
        BY <1>20
  <2>2. IsSequence(t2)
        BY <1>15, <1>21 DEF IsSequence
  <2>3. QED BY <1>10, <1>15, <1>20, <1>21, <2>1, <2>2
<1>24. /\ IsRun(inner) /\ inner.a = nz /\ inner.b = item /\ inner.style = "internal" /\ inner.of = 0
       /\ nozzle.kind = "nozzle" /\ nozzle.of = 0
      BY <1>13 DEF IsRun
<1>25. Nozzled(paper, new, k, nz, m, item)
  <2>1. /\ k \in DOMAIN t /\ t[k].style = "solid"
        /\ item \in DOMAIN s /\ s[item].kind = "equipment"
        /\ nz \notin DOMAIN s /\ m \notin DOMAIN t
        /\ IsSequence(s2) /\ IsSequence(t2)
        /\ DOMAIN s2 = DOMAIN s \cup {nz} /\ (\A n \in DOMAIN s : s2[n] = s[n])
        /\ s2[nz].kind = "nozzle" /\ s2[nz].of = 0
        /\ DOMAIN t2 = DOMAIN t \cup {m} /\ (\A l \in DOMAIN t \ {k} : t2[l] = t[l])
        BY <1>5, <1>6, <1>7, <1>9, <1>20, <1>22, <1>23, <1>24
  <2>2. /\ t2[k] = moved /\ t[k] = r /\ t2[m] = inner
        BY <1>5, <1>6, <1>20, <1>23
  <2>3. QED BY <1>2, <1>12, <1>18, <1>24, <2>1, <2>2 DEF Nozzled
<1>26. QED BY <1>16, <1>25

\* The page is as sound as it was, and its connections stand for what they did.
LEMMA NozzledPaper ==
    ASSUME NEW paper, NEW new, NEW k, NEW nz, NEW m, NEW item,
           PaperIs(paper), Nozzled(paper, new, k, nz, m, item)
    PROVE  /\ PaperIs(new)
           /\ \A i : \A l \in DOMAIN paper.runs :
                 /\ Stands(paper, paper.runs[l].a, i) => Stands(new, new.runs[l].a, i)
                 /\ Stands(paper, paper.runs[l].b, i) => Stands(new, new.runs[l].b, i)
           /\ \A l \in DOMAIN new.runs : IF l \in DOMAIN paper.runs
                                         THEN new.runs[l].of = paper.runs[l].of
                                         ELSE new.runs[l].of = 0
           /\ \A n \in DOMAIN new.nodes :
                 IF n \in DOMAIN paper.nodes THEN new.nodes[n] = paper.nodes[n]
                 ELSE new.nodes[n].kind = "nozzle" /\ new.nodes[n].of = 0
           /\ DOMAIN paper.nodes \subseteq DOMAIN new.nodes
           /\ DOMAIN paper.runs \subseteq DOMAIN new.runs
<1>1. /\ k \in DOMAIN paper.runs /\ paper.runs[k].style = "solid"
      /\ item \in DOMAIN paper.nodes /\ paper.nodes[item].kind = "equipment"
      /\ nz \notin DOMAIN paper.nodes /\ m \notin DOMAIN paper.runs
      /\ DOMAIN new = DOMAIN paper
      /\ IsSequence(new.nodes) /\ IsSequence(new.runs)
      /\ DOMAIN new.nodes = DOMAIN paper.nodes \cup {nz}
      /\ \A n \in DOMAIN paper.nodes : new.nodes[n] = paper.nodes[n]
      /\ new.nodes[nz].kind = "nozzle" /\ new.nodes[nz].of = 0
      BY DEF Nozzled
<1>2. /\ DOMAIN new.runs = DOMAIN paper.runs \cup {m}
      /\ \A l \in DOMAIN paper.runs \ {k} : new.runs[l] = paper.runs[l]
      /\ IsRun(new.runs[k]) /\ new.runs[k].style = "solid" /\ new.runs[k].of = paper.runs[k].of
      /\ \/ paper.runs[k].a = item /\ new.runs[k].a = nz /\ new.runs[k].b = paper.runs[k].b
         \/ paper.runs[k].b = item /\ new.runs[k].b = nz /\ new.runs[k].a = paper.runs[k].a
      /\ IsRun(new.runs[m]) /\ new.runs[m].a = nz /\ new.runs[m].b = item
      /\ new.runs[m].style = "internal" /\ new.runs[m].of = 0
      BY DEF Nozzled
<1>3. \A l \in DOMAIN paper.runs :
          /\ IsRun(paper.runs[l])
          /\ paper.runs[l].a \in DOMAIN paper.nodes /\ paper.runs[l].b \in DOMAIN paper.nodes
          /\ paper.runs[l].style \in {"solid", "dashed", "internal"}
          /\ paper.runs[l].style = "internal" =>
                /\ paper.runs[l].of = 0
                /\ paper.nodes[paper.runs[l].a].kind = "nozzle"
                /\ paper.nodes[paper.runs[l].b].kind = "equipment"
          /\ paper.runs[l].style # "internal" => paper.runs[l].of # 0
      BY DEF PaperIs
<1>4. \A l \in DOMAIN new.runs :
          /\ IsRun(new.runs[l])
          /\ new.runs[l].a \in DOMAIN new.nodes /\ new.runs[l].b \in DOMAIN new.nodes
          /\ new.runs[l].style \in {"solid", "dashed", "internal"}
          /\ new.runs[l].style = "internal" =>
                /\ new.runs[l].of = 0
                /\ new.nodes[new.runs[l].a].kind = "nozzle"
                /\ new.nodes[new.runs[l].b].kind = "equipment"
          /\ new.runs[l].style # "internal" => new.runs[l].of # 0
  <2>1. ASSUME NEW l \in DOMAIN new.runs, l = k
        PROVE  /\ IsRun(new.runs[l])
               /\ new.runs[l].a \in DOMAIN new.nodes /\ new.runs[l].b \in DOMAIN new.nodes
               /\ new.runs[l].style = "solid" /\ new.runs[l].of # 0
        BY <1>1, <1>2, <1>3, <2>1
  <2>2. ASSUME NEW l \in DOMAIN new.runs, l = m
        PROVE  /\ IsRun(new.runs[l])
               /\ new.runs[l].a \in DOMAIN new.nodes /\ new.runs[l].b \in DOMAIN new.nodes
               /\ new.runs[l].style = "internal" /\ new.runs[l].of = 0
               /\ new.nodes[new.runs[l].a].kind = "nozzle"
               /\ new.nodes[new.runs[l].b].kind = "equipment"
        BY <1>1, <1>2, <2>2
  <2>3. ASSUME NEW l \in DOMAIN new.runs, l # m, l # k
        PROVE  /\ new.runs[l] = paper.runs[l] /\ l \in DOMAIN paper.runs
               /\ new.nodes[new.runs[l].a] = paper.nodes[paper.runs[l].a]
               /\ new.nodes[new.runs[l].b] = paper.nodes[paper.runs[l].b]
               /\ new.runs[l].a \in DOMAIN new.nodes /\ new.runs[l].b \in DOMAIN new.nodes
        BY <1>1, <1>2, <1>3, <2>3
  <2>4. QED BY <1>3, <2>1, <2>2, <2>3
<1>5. ASSUME NEW n \in DOMAIN paper.nodes, n # item, NEW style, NEW l \in DOMAIN new.runs
      PROVE  Touches(new, l, n, style) <=> l \in DOMAIN paper.runs /\ Touches(paper, l, n, style)
      BY <1>1, <1>2, <1>5 DEF Touches
<1>6. ASSUME NEW l \in DOMAIN new.runs
      PROVE  /\ Touches(new, l, nz, "solid") <=> l = k
             /\ Touches(new, l, nz, "internal") <=> l = m
      BY <1>1, <1>2, <1>3 DEF Touches
<1>7. \A n \in DOMAIN new.nodes : new.nodes[n].kind = "nozzle" =>
          \A style \in {"solid", "internal"} :
             /\ \E l \in DOMAIN new.runs : Touches(new, l, n, style)
             /\ \A l, j \in DOMAIN new.runs :
                   Touches(new, l, n, style) /\ Touches(new, j, n, style) => l = j
  <2>1. SUFFICES ASSUME NEW n \in DOMAIN new.nodes, new.nodes[n].kind = "nozzle",
                        NEW style \in {"solid", "internal"}
                 PROVE  /\ \E l \in DOMAIN new.runs : Touches(new, l, n, style)
                        /\ \A l, j \in DOMAIN new.runs :
                              Touches(new, l, n, style) /\ Touches(new, j, n, style) => l = j
        OBVIOUS
  <2>2. CASE n = nz
    <3>1. k \in DOMAIN new.runs /\ m \in DOMAIN new.runs
          BY <1>1, <1>2
    <3>2. QED BY <1>6, <2>2, <3>1
  <2>3. CASE n # nz
    <3>1. n \in DOMAIN paper.nodes /\ n # item /\ paper.nodes[n].kind = "nozzle"
          BY <1>1, <2>1, <2>3
    <3>2. /\ \E l \in DOMAIN paper.runs : Touches(paper, l, n, style)
          /\ \A l, j \in DOMAIN paper.runs :
                Touches(paper, l, n, style) /\ Touches(paper, j, n, style) => l = j
          BY <3>1 DEF PaperIs
    <3>3. QED BY <1>2, <1>5, <3>1, <3>2
  <2>4. QED BY <2>2, <2>3
<1>8. DOMAIN new = {"nodes", "runs", "connectors", "safety", "marked"}
      BY <1>1 DEF PaperIs
<1>9. PaperIs(new)
      BY <1>1, <1>4, <1>7, <1>8 DEF PaperIs
<1>10. ASSUME NEW n \in DOMAIN paper.nodes, NEW i, Stands(paper, n, i)
       PROVE  Stands(new, n, i)
  <2>1. new.nodes[n] = paper.nodes[n]
        BY <1>1
  <2>2. CASE paper.nodes[n].kind = "nozzle"
    <3>1. PICK l \in DOMAIN paper.runs : /\ paper.runs[l].style = "internal" /\ paper.runs[l].a = n
                                         /\ paper.nodes[paper.runs[l].b].of = i
          BY <1>10, <2>2 DEF Stands
    <3>2. /\ l \in DOMAIN new.runs /\ new.runs[l] = paper.runs[l]
          /\ new.nodes[paper.runs[l].b] = paper.nodes[paper.runs[l].b]
          BY <1>1, <1>2, <1>3, <3>1
    <3>3. QED BY <2>1, <2>2, <3>1, <3>2 DEF Stands
  <2>3. CASE paper.nodes[n].kind # "nozzle"
        BY <1>10, <2>1, <2>3 DEF Stands
  <2>4. QED BY <2>2, <2>3
<1>11. ASSUME NEW i, Stands(paper, item, i)
       PROVE  Stands(new, nz, i)
  <2>1. paper.nodes[item].of = i
        BY <1>1, <1>11 DEF Stands
  <2>2. /\ m \in DOMAIN new.runs /\ new.runs[m].style = "internal" /\ new.runs[m].a = nz
        /\ new.nodes[new.runs[m].b].of = i /\ new.nodes[nz].kind = "nozzle"
        BY <1>1, <1>2, <2>1
  <2>3. QED BY <2>2 DEF Stands
<1>12. ASSUME NEW l \in DOMAIN paper.runs, NEW i
       PROVE  /\ Stands(paper, paper.runs[l].a, i) => Stands(new, new.runs[l].a, i)
              /\ Stands(paper, paper.runs[l].b, i) => Stands(new, new.runs[l].b, i)
  <2>1. paper.runs[l].a \in DOMAIN paper.nodes /\ paper.runs[l].b \in DOMAIN paper.nodes
        BY <1>3
  <2>2. CASE l # k
    <3>1. new.runs[l] = paper.runs[l]
          BY <1>2, <2>2
    <3>2. QED BY <1>10, <2>1, <3>1
  <2>3. CASE l = k
        BY <1>2, <1>10, <1>11, <2>1, <2>3
  <2>4. QED BY <2>2, <2>3
<1>13. QED BY <1>1, <1>2, <1>9, <1>12

LEMMA AddNozzleKeeps ==
    ASSUME GraphInv, AddNozzle
    PROVE  GraphInv'
<1>1. /\ converting = "nozzles" /\ reading' = reading /\ converting' = converting /\ turn' = turn
      /\ report' = [report EXCEPT !.nozzles = @ + 1]
      BY DEF AddNozzle
<1>2. InOrder /\ PapersAre /\ EntitiesAre /\ ConnectionsAre /\ CountsAre /\ MarksAre
      BY DEF GraphInv
<1>3. PICK q \in Pages : /\ Bare(papers[q]) # {}
                         /\ papers' = [papers EXCEPT ![q] = WithNozzle(papers[q], Min(Bare(papers[q])))]
      BY DEF AddNozzle
<1>4. PICK paper : paper = papers[q]
      OBVIOUS
<1>5. PaperIs(paper) /\ DOMAIN papers = Pages
      BY <1>2, <1>4 DEF PapersAre
<1>6. PICK new : new = WithNozzle(paper, Min(Bare(paper)))
      OBVIOUS
<1>7. PICK k, nz, m, item : Nozzled(paper, new, k, nz, m, item)
      BY <1>3, <1>4, <1>5, <1>6, WithNozzleIs
<1>8. /\ DOMAIN papers' = Pages /\ papers'[q] = new
      /\ \A p \in Pages \ {q} : papers'[p] = papers[p]
      BY <1>3, <1>4, <1>5, <1>6
<1>9. /\ PaperIs(new)
      /\ \A i : \A l \in DOMAIN paper.runs :
            /\ Stands(paper, paper.runs[l].a, i) => Stands(new, new.runs[l].a, i)
            /\ Stands(paper, paper.runs[l].b, i) => Stands(new, new.runs[l].b, i)
      /\ \A l \in DOMAIN new.runs : IF l \in DOMAIN paper.runs
                                    THEN new.runs[l].of = paper.runs[l].of
                                    ELSE new.runs[l].of = 0
      /\ \A n \in DOMAIN new.nodes :
            IF n \in DOMAIN paper.nodes THEN new.nodes[n] = paper.nodes[n]
            ELSE new.nodes[n].kind = "nozzle" /\ new.nodes[n].of = 0
      /\ DOMAIN paper.nodes \subseteq DOMAIN new.nodes
      /\ DOMAIN paper.runs \subseteq DOMAIN new.runs
      BY <1>5, <1>7, NozzledPaper
<1>10. /\ new.connectors = paper.connectors /\ new.safety = paper.safety
       /\ new.marked = paper.marked
      BY <1>7 DEF Nozzled
<1>11. PastEntities' = PastEntities /\ PastEdges' = PastEdges
      BY <1>1 DEF PastEntities, PastEdges
<1>12. /\ Kept' = Kept /\ (\A e : PagesOf(e)' = PagesOf(e)) /\ (\A e : Crosses(e)' <=> Crosses(e))
       /\ (\A e : Joins(e)' <=> Joins(e)) /\ (\A i : AsNode(i)' = AsNode(i))
      BY <1>1, ReadingStays
<1>13. \A p \in Pages : \A n \in DOMAIN papers[p].nodes :
          n \in DOMAIN papers'[p].nodes /\ papers'[p].nodes[n] = papers[p].nodes[n]
      BY <1>4, <1>8, <1>9
<1>14. \A p \in Pages : \A n \in DOMAIN papers'[p].nodes :
          \/ n \in DOMAIN papers[p].nodes /\ papers'[p].nodes[n] = papers[p].nodes[n]
          \/ papers'[p].nodes[n].kind = "nozzle" /\ papers'[p].nodes[n].of = 0
      BY <1>4, <1>8, <1>9
<1>15. \A p \in Pages : \A l \in DOMAIN papers[p].runs :
          l \in DOMAIN papers'[p].runs /\ papers'[p].runs[l].of = papers[p].runs[l].of
      BY <1>4, <1>8, <1>9
<1>16. \A p \in Pages : \A l \in DOMAIN papers'[p].runs : papers'[p].runs[l].of # 0 =>
          l \in DOMAIN papers[p].runs /\ papers'[p].runs[l].of = papers[p].runs[l].of
      BY <1>4, <1>8, <1>9
<1>17. InOrder'
      BY <1>1, <1>2 DEF InOrder
<1>18. PapersAre'
  <2>1. \A p \in Pages : PaperIs(papers'[p])
        BY <1>2, <1>8, <1>9 DEF PapersAre
  <2>2. QED BY <1>8, <2>1 DEF PapersAre
<1>19. EntitiesAre'
  <2>1. ASSUME NEW i \in PastEntities \cap Kept
        PROVE  \E n \in DOMAIN papers'[reading.entities[i].page].nodes :
                  papers'[reading.entities[i].page].nodes[n].of = i
    <3>1. reading.entities[i].page \in Pages
          BY DEF Kept
    <3>2. QED BY <1>2, <1>13, <3>1 DEF EntitiesAre
  <2>2. ASSUME NEW p \in Pages, NEW n \in DOMAIN papers'[p].nodes
        PROVE  IF papers'[p].nodes[n].of = 0
               THEN papers'[p].nodes[n].kind \in {"dead-end", "nozzle"}
               ELSE /\ papers'[p].nodes[n].of \in PastEntities \cap Kept
                    /\ reading.entities[papers'[p].nodes[n].of].page = p
                    /\ papers'[p].nodes[n].kind
                          = Becomes(reading.entities[papers'[p].nodes[n].of].kind)
                    /\ \A l \in DOMAIN papers'[p].nodes :
                          papers'[p].nodes[l].of = papers'[p].nodes[n].of => l = n
    <3>1. CASE papers'[p].nodes[n].kind = "nozzle" /\ papers'[p].nodes[n].of = 0
          BY <3>1
    <3>2. CASE n \in DOMAIN papers[p].nodes /\ papers'[p].nodes[n] = papers[p].nodes[n]
      <4>1. IF papers[p].nodes[n].of = 0
            THEN papers[p].nodes[n].kind \in {"dead-end", "nozzle"}
            ELSE /\ papers[p].nodes[n].of \in PastEntities \cap Kept
                 /\ reading.entities[papers[p].nodes[n].of].page = p
                 /\ papers[p].nodes[n].kind
                          = Becomes(reading.entities[papers[p].nodes[n].of].kind)
                 /\ \A l \in DOMAIN papers[p].nodes :
                          papers[p].nodes[l].of = papers[p].nodes[n].of => l = n
            BY <1>2, <3>2 DEF EntitiesAre
      <4>2. QED BY <1>14, <3>2, <4>1
    <3>3. QED BY <1>14, <3>1, <3>2
  <2>3. QED BY <1>1, <1>11, <1>12, <2>1, <2>2 DEF EntitiesAre
<1>20. ConnectionsAre'
  <2>1. ASSUME NEW e \in PastEdges, Joins(reading.edges[e])
        PROVE  \E p \in Pages : \E l \in DOMAIN papers'[p].runs : papers'[p].runs[l].of = e
    <3>1. PICK p \in Pages : \E l \in DOMAIN papers[p].runs : papers[p].runs[l].of = e
          BY <1>2, <2>1 DEF ConnectionsAre
    <3>2. QED BY <1>15, <3>1
  <2>2. \A e \in PastEdges' : Joins(reading.edges[e])' =>
          \E p \in Pages : \E l \in DOMAIN papers'[p].runs : papers'[p].runs[l].of = e
    <3>1. \A e : Joins(reading.edges[e])' <=> Joins(reading.edges[e])
          BY <1>1, <1>12
    <3>2. QED BY <1>11, <2>1, <3>1
  <2>3. ASSUME NEW p \in Pages, NEW l \in DOMAIN papers'[p].runs, papers'[p].runs[l].of # 0
        PROVE  /\ papers'[p].runs[l].of \in PastEdges
               /\ Joins(reading.edges[papers'[p].runs[l].of])
               /\ Stands(papers'[p], papers'[p].runs[l].a, AsNode(reading.edges[papers'[p].runs[l].of].from))
               /\ Stands(papers'[p], papers'[p].runs[l].b, AsNode(reading.edges[papers'[p].runs[l].of].to))
               /\ \A r \in Pages : \A j \in DOMAIN papers'[r].runs :
                     papers'[r].runs[j].of = papers'[p].runs[l].of => r = p /\ j = l
    <3>1. PICK e : e = reading.edges[papers[p].runs[l].of]
          OBVIOUS
    <3>2. l \in DOMAIN papers[p].runs /\ papers'[p].runs[l].of = papers[p].runs[l].of
          BY <1>16, <2>3
    <3>3. /\ papers[p].runs[l].of \in PastEdges /\ Joins(e)
          /\ Stands(papers[p], papers[p].runs[l].a, AsNode(e.from))
          /\ Stands(papers[p], papers[p].runs[l].b, AsNode(e.to))
          /\ \A r \in Pages : \A j \in DOMAIN papers[r].runs :
                papers[r].runs[j].of = papers[p].runs[l].of => r = p /\ j = l
          BY <1>2, <2>3, <3>1, <3>2 DEF ConnectionsAre
    <3>4. /\ Stands(papers'[p], papers'[p].runs[l].a, AsNode(e.from))
          /\ Stands(papers'[p], papers'[p].runs[l].b, AsNode(e.to))
      <4>1. CASE p # q
            BY <1>8, <3>3, <4>1
      <4>2. CASE p = q
            BY <1>4, <1>8, <1>9, <3>2, <3>3, <4>2
      <4>3. QED BY <4>1, <4>2
    <3>5. \A r \in Pages : \A j \in DOMAIN papers'[r].runs :
                papers'[r].runs[j].of = papers[p].runs[l].of => r = p /\ j = l
          BY <1>16, <2>3, <3>2, <3>3
    <3>6. QED BY <3>1, <3>2, <3>3, <3>4, <3>5
  <2>4. ASSUME NEW p \in Pages, NEW l \in DOMAIN papers'[p].runs, papers'[p].runs[l].of # 0
        PROVE  /\ papers'[p].runs[l].of \in PastEdges'
               /\ Joins(reading.edges[papers[p].runs[l].of])'
               /\ Stands(papers[p], papers[p].runs[l].a, AsNode(reading.edges[papers[p].runs[l].of].from))'
               /\ Stands(papers[p], papers[p].runs[l].b, AsNode(reading.edges[papers[p].runs[l].of].to))'
               /\ \A r \in Pages : \A j \in DOMAIN papers'[r].runs :
                     papers'[r].runs[j].of = papers'[p].runs[l].of => r = p /\ j = l
        BY <1>1, <1>11, <1>12, <2>3, <2>4
  <2>5. QED BY <2>2, <2>4 DEF ConnectionsAre
<1>21. CountsAre'
  <2>1. \A x : x \in LooseEnds' <=>
             \E p \in Pages : \E n \in DOMAIN papers'[p].nodes :
                papers'[p].nodes[n].kind = "dead-end" /\ x = <<p, n>>
        BY LooseEndsAre DEF LooseEnds, DeadEnds
  <2>2. LooseEnds' = LooseEnds
    <3>1. \A x : x \in LooseEnds' <=> x \in LooseEnds
          BY <1>13, <1>14, <2>1, LooseEndsAre
    <3>2. QED BY <3>1
  <2>3. /\ DOMAIN report' = DOMAIN report /\ report'.dropped = report.dropped
        /\ report'.dangling = report.dangling /\ report'.cross = report.cross
        BY <1>1
  <2>4. QED BY <1>1, <1>2, <1>11, <1>12, <2>2, <2>3 DEF CountsAre
<1>22. MarksAre'
  <2>1. ASSUME NEW p \in Pages
        PROVE  /\ papers'[p].connectors \subseteq {n \in DOMAIN papers'[p].nodes : papers'[p].nodes[n].of # 0}
               /\ \A n \in DOMAIN papers'[p].nodes :
                     papers'[p].nodes[n].of # 0
                     /\ reading.entities[papers'[p].nodes[n].of].kind = "safety-valve"
                        => n \in papers'[p].safety
               /\ papers'[p].marked = {}
    <3>1. /\ papers[p].connectors \subseteq {n \in DOMAIN papers[p].nodes : papers[p].nodes[n].of # 0}
          /\ \A n \in DOMAIN papers[p].nodes :
                     papers[p].nodes[n].of # 0
                     /\ reading.entities[papers[p].nodes[n].of].kind = "safety-valve"
                        => n \in papers[p].safety
          /\ papers[p].marked = {}
          BY <1>1, <1>2 DEF MarksAre
    <3>2. /\ papers'[p].connectors = papers[p].connectors /\ papers'[p].safety = papers[p].safety
          /\ papers'[p].marked = papers[p].marked
          BY <1>4, <1>8, <1>10
    <3>3. QED BY <1>13, <1>14, <3>1, <3>2
  <2>2. QED BY <1>1, <2>1 DEF MarksAre
<1>23. QED BY <1>17, <1>18, <1>19, <1>20, <1>21, <1>22 DEF GraphInv

\* Once its runs are oriented, a page says which of its valves are safety valves.
LEMMA MarkSafetyMakes ==
    ASSUME GraphInv, NEW q, MarkSafety(q)
    PROVE  /\ DOMAIN papers' = Pages
           /\ \A p \in Pages :
                 /\ DOMAIN papers'[p] = DOMAIN papers[p]
                 /\ papers'[p].nodes = papers[p].nodes /\ papers'[p].runs = papers[p].runs
                 /\ papers'[p].connectors = papers[p].connectors
                 /\ papers'[p].safety = papers[p].safety
           /\ q \in Pages => papers'[q].marked = papers[q].safety
<1>1. /\ DOMAIN papers = Pages
      /\ \A p \in Pages : DOMAIN papers[p] = {"nodes", "runs", "connectors", "safety", "marked"}
      BY DEF GraphInv, PapersAre, PaperIs
<1>2. papers' = [papers EXCEPT ![q].marked = papers[q].safety]
      BY DEF MarkSafety
<1>3. QED BY <1>1, <1>2

LEMMA MarkSafetyKeeps ==
    ASSUME GraphInv, NEW q, MarkSafety(q)
    PROVE  GraphInv'
<1>1. /\ converting = "converted" /\ converting' = "emitted" /\ reading' = reading /\ turn' = turn
      /\ report' = report
      BY DEF MarkSafety
<1>2. /\ DOMAIN papers' = Pages
      /\ \A p \in Pages :
            /\ DOMAIN papers'[p] = DOMAIN papers[p]
            /\ papers'[p].nodes = papers[p].nodes /\ papers'[p].runs = papers[p].runs
            /\ papers'[p].connectors = papers[p].connectors
            /\ papers'[p].safety = papers[p].safety
      BY MarkSafetyMakes
<1>3. InOrder /\ PapersAre /\ EntitiesAre /\ ConnectionsAre /\ CountsAre /\ MarksAre
      BY DEF GraphInv
<1>4. PastEntities' = PastEntities /\ PastEdges' = PastEdges
      BY <1>1 DEF PastEntities, PastEdges
<1>5. /\ Kept' = Kept /\ (\A e : PagesOf(e)' = PagesOf(e)) /\ (\A e : Crosses(e)' <=> Crosses(e))
      /\ (\A e : Joins(e)' <=> Joins(e)) /\ (\A i : AsNode(i)' = AsNode(i))
      BY <1>1, ReadingStays
<1>6. InOrder'
  <2>1. \A p \in Pages : Bare(papers'[p]) = {}
        BY <1>1, <1>2, <1>3 DEF InOrder, Bare
  <2>2. QED BY <1>1, <1>3, <2>1 DEF InOrder
<1>7. PapersAre'
  <2>1. ASSUME NEW p \in Pages
        PROVE  PaperIs(papers'[p])
    <3>1. PaperIs(papers[p])
          BY <1>3 DEF PapersAre
    <3>2. QED BY <1>2, <3>1 DEF PaperIs, Touches
  <2>2. QED BY <1>2, <2>1 DEF PapersAre
<1>8. EntitiesAre'
  <2>1. \A i \in Kept : reading.entities[i].page \in Pages
        BY DEF Kept
  <2>2. QED BY <1>1, <1>2, <1>3, <1>4, <1>5, <2>1 DEF EntitiesAre
<1>9. ConnectionsAre'
  <2>1. \A e \in PastEdges' : Joins(reading.edges[e])' =>
          \E p \in Pages : \E l \in DOMAIN papers'[p].runs : papers'[p].runs[l].of = e
    <3>1. \A e : Joins(reading.edges[e])' <=> Joins(reading.edges[e])
          BY <1>1, <1>5
    <3>2. QED BY <1>2, <1>3, <1>4, <3>1 DEF ConnectionsAre
  <2>2. ASSUME NEW p \in Pages, NEW n, NEW i, Stands(papers[p], n, i)
        PROVE  Stands(papers'[p], n, i)
        BY <1>2, <2>2 DEF Stands
  <2>3. ASSUME NEW p \in Pages, NEW l \in DOMAIN papers'[p].runs, papers'[p].runs[l].of # 0
        PROVE  /\ papers'[p].runs[l].of \in PastEdges
               /\ Joins(reading.edges[papers'[p].runs[l].of])
               /\ Stands(papers'[p], papers'[p].runs[l].a, AsNode(reading.edges[papers'[p].runs[l].of].from))
               /\ Stands(papers'[p], papers'[p].runs[l].b, AsNode(reading.edges[papers'[p].runs[l].of].to))
               /\ \A r \in Pages : \A j \in DOMAIN papers'[r].runs :
                     papers'[r].runs[j].of = papers'[p].runs[l].of => r = p /\ j = l
        BY <1>2, <1>3, <2>2, <2>3 DEF ConnectionsAre
  <2>4. ASSUME NEW p \in Pages, NEW l \in DOMAIN papers'[p].runs, papers'[p].runs[l].of # 0
        PROVE  /\ papers'[p].runs[l].of \in PastEdges'
               /\ Joins(reading.edges[papers[p].runs[l].of])'
               /\ Stands(papers[p], papers[p].runs[l].a, AsNode(reading.edges[papers[p].runs[l].of].from))'
               /\ Stands(papers[p], papers[p].runs[l].b, AsNode(reading.edges[papers[p].runs[l].of].to))'
               /\ \A r \in Pages : \A j \in DOMAIN papers'[r].runs :
                     papers'[r].runs[j].of = papers'[p].runs[l].of => r = p /\ j = l
        BY <1>1, <1>4, <1>5, <2>3, <2>4
  <2>5. QED BY <2>1, <2>4 DEF ConnectionsAre
<1>10. CountsAre'
  <2>1. LooseEnds' = LooseEnds
        BY <1>2 DEF LooseEnds, DeadEnds
  <2>2. QED BY <1>1, <1>3, <1>4, <1>5, <2>1 DEF CountsAre
<1>11. MarksAre'
      BY <1>1, <1>2, <1>3 DEF MarksAre
<1>12. QED BY <1>6, <1>7, <1>8, <1>9, <1>10, <1>11 DEF GraphInv

LEMMA GraphKeeps ==
    ASSUME GraphInv, ConvertNext
    PROVE  GraphInv'
BY PassOverKeeps, PlaceKeeps, StageEnds, UnlaidKeeps, LayKeeps, AddNozzleKeeps DEF ConvertNext

LEMMA GraphStarts ==
    ASSUME DiagexInit
    PROVE  GraphInv
<1>1. /\ reading \in Readings /\ converting = "nodes" /\ turn = 1
      /\ report = [dropped |-> 0, dangling |-> 0, cross |-> {}, nozzles |-> 0]
      BY DEF DiagexInit
<1>2. /\ DOMAIN papers = Pages
      /\ \A p \in Pages :
            /\ DOMAIN papers[p] = {"nodes", "runs", "connectors", "safety", "marked"}
            /\ papers[p].nodes = <<>> /\ papers[p].runs = <<>>
            /\ papers[p].connectors = {} /\ papers[p].safety = {} /\ papers[p].marked = {}
      BY DEF DiagexInit
<1>3. IsSequence(<<>>) /\ DOMAIN <<>> = {}
  <2>1. <<>> \in Seq({})
        OBVIOUS
  <2>2. QED BY <2>1 DEF IsSequence
<1>4. PastEntities = {} /\ PastEdges = {}
  <2>1. /\ Len(reading.entities) \in Nat /\ DOMAIN reading.entities = 1..Len(reading.entities)
        BY <1>1, ReadingIs
  <2>2. \A i \in DOMAIN reading.entities : ~(i < 1)
        BY <2>1
  <2>3. QED BY <1>1, <2>2 DEF PastEntities, PastEdges
<1>5. \A p \in Pages : DOMAIN papers[p].nodes = {} /\ DOMAIN papers[p].runs = {}
      BY <1>2, <1>3
<1>6. InOrder
      BY <1>1, <1>2, <1>5 DEF InOrder
<1>7. PapersAre
      BY <1>2, <1>3, <1>5 DEF PapersAre, PaperIs
<1>8. EntitiesAre /\ ConnectionsAre
      BY <1>4, <1>5 DEF EntitiesAre, ConnectionsAre
<1>9. CountsAre
  <2>1. LooseEnds = {}
        BY <1>5 DEF LooseEnds, DeadEnds
  <2>2. IsFiniteSet(LooseEnds) /\ Cardinality(LooseEnds) = 0
        BY <2>1, FS_EmptySet
  <2> DEFINE D == {k \in PastEdges : PagesOf(reading.edges[k]) = {}}
             C == {k \in PastEdges : PagesOf(reading.edges[k]) # {} /\ Crosses(reading.edges[k])}
             E == {i \in PastEntities : reading.entities[i].page \in Pages /\ i \notin Kept}
  <2>3. D = {} /\ C = {} /\ E = {}
        BY <1>4
  <2> HIDE DEF D, C, E
  <2>4. Cardinality(D) = 0 /\ Cardinality(E) = 0
        BY <2>3, FS_EmptySet
  <2>5. /\ DOMAIN report = {"dropped", "dangling", "cross", "nozzles"}
        /\ report.dropped = Cardinality(E) /\ report.cross = C
        /\ report.dangling = Cardinality(D) + Cardinality(LooseEnds)
        BY <1>1, <2>2, <2>3, <2>4
  <2>6. QED BY <2>2, <2>5 DEF CountsAre, D, C, E
<1>10. MarksAre
      BY <1>2, <1>5 DEF MarksAre
<1>11. QED BY <1>6, <1>7, <1>8, <1>9, <1>10 DEF GraphInv

\* A nozzle leads to one item.
LEMMA NozzleLeads ==
    ASSUME NEW paper, PaperIs(paper), NEW n \in DOMAIN paper.nodes, NEW i, Stands(paper, n, i)
    PROVE  paper.nodes[StandsFor(paper, n)].of = i
<1>1. CASE paper.nodes[n].kind # "nozzle"
      BY <1>1 DEF Stands, StandsFor
<1>2. CASE paper.nodes[n].kind = "nozzle"
  <2>1. PICK l \in DOMAIN paper.runs : /\ paper.runs[l].style = "internal" /\ paper.runs[l].a = n
                                       /\ paper.nodes[paper.runs[l].b].of = i
        BY <1>2 DEF Stands
  <2>2. PICK m : m = paper.runs[l].b
        OBVIOUS
  <2>3. m \in DOMAIN paper.nodes /\ paper.runs[l].of = 0 /\ IsRun(paper.runs[l])
        BY <2>1, <2>2 DEF PaperIs
  <2>4. [a |-> n, b |-> m, style |-> "internal", of |-> 0] = paper.runs[l]
        BY <2>1, <2>2, <2>3 DEF IsRun
  <2>5. [a |-> n, b |-> m, style |-> "internal", of |-> 0] \in ToSet(paper.runs)
        BY <2>1, <2>4 DEF ToSet
  <2>6. ASSUME NEW o \in DOMAIN paper.nodes,
               [a |-> n, b |-> o, style |-> "internal", of |-> 0] \in ToSet(paper.runs)
        PROVE  o = m
    <3>1. PICK j \in DOMAIN paper.runs : paper.runs[j] = [a |-> n, b |-> o, style |-> "internal", of |-> 0]
          BY <2>6 DEF ToSet
    <3>2. Touches(paper, j, n, "internal") /\ Touches(paper, l, n, "internal")
          BY <2>1, <3>1 DEF Touches
    <3>3. j = l
          BY <1>2, <3>2 DEF PaperIs
    <3>4. QED BY <2>2, <3>1, <3>3
  <2>7. (CHOOSE o \in DOMAIN paper.nodes :
            [a |-> n, b |-> o, style |-> "internal", of |-> 0] \in ToSet(paper.runs)) = m
        BY <2>3, <2>5, <2>6
  <2>8. QED BY <1>2, <2>1, <2>2, <2>7 DEF StandsFor
<1>3. QED BY <1>1, <1>2

\* One of a kind.
LEMMA OnlyOne ==
    ASSUME NEW S, NEW x \in S, \A y \in S : y = x
    PROVE  Cardinality(S) = 1
<1>1. S = {x}
      OBVIOUS
<1>2. QED BY <1>1, FS_Singleton

\* A reading that has been converted is the drawing it read.
LEMMA GraphConverts ==
    ASSUME GraphInv
    PROVE  GraphIsConverted
<1>1. SUFFICES ASSUME converting \in {"converted", "emitted"} PROVE GraphIsConverted
      BY DEF GraphIsConverted
<1>2. InOrder /\ PapersAre /\ EntitiesAre /\ ConnectionsAre /\ CountsAre
      BY DEF GraphInv
<1>3. /\ DOMAIN reading.entities = 1..Len(reading.entities)
      /\ DOMAIN reading.edges = 1..Len(reading.edges)
      BY <1>2, ReadingIs DEF InOrder
<1>4. PastEntities = DOMAIN reading.entities /\ PastEdges = DOMAIN reading.edges
      BY <1>1 DEF PastEntities, PastEdges
<1>5. ASSUME NEW i \in Kept
      PROVE  Cardinality({n \in DOMAIN papers[reading.entities[i].page].nodes :
                             papers[reading.entities[i].page].nodes[n].of = i}) = 1
  <2>1. PICK p : p = reading.entities[i].page
        OBVIOUS
  <2>2. i \in PastEntities \cap Kept /\ p \in Pages /\ i # 0
        BY <1>3, <1>4, <2>1 DEF Kept
  <2>3. PICK n \in DOMAIN papers[p].nodes : papers[p].nodes[n].of = i
        BY <1>2, <2>1, <2>2 DEF EntitiesAre
  <2>4. \A m \in DOMAIN papers[p].nodes : papers[p].nodes[m].of = i => m = n
        BY <1>2, <2>2, <2>3 DEF EntitiesAre
  <2> DEFINE S == {m \in DOMAIN papers[p].nodes : papers[p].nodes[m].of = i}
  <2>5. n \in S /\ \A y \in S : y = n
        BY <2>3, <2>4
  <2> HIDE DEF S
  <2>6. Cardinality(S) = 1
        BY <2>5, OnlyOne
  <2>7. QED BY <2>1, <2>6 DEF S
<1>6. report.dropped = Cardinality({i \in DOMAIN reading.entities :
              reading.entities[i].page \in Pages /\ i \notin Kept})
      BY <1>2, <1>4 DEF CountsAre
<1>7. ASSUME NEW k \in DOMAIN reading.edges
      PROVE  LET e == reading.edges[k]
             IN  /\ k \in report.cross <=> PagesOf(e) # {} /\ Crosses(e)
                 /\ Cardinality(Lying(k)) =
                        IF PagesOf(e) = {} \/ k \in report.cross THEN 0 ELSE 1
                 /\ \A l \in Lying(k) :
                        LET p == l[1]
                            r == papers[p].runs[l[2]]
                            of(n) == papers[p].nodes[StandsFor(papers[p], n)].of
                            as(i) == IF i \in Kept THEN i ELSE 0
                        IN  of(r.a) = as(e.from) /\ of(r.b) = as(e.to)
  <2>1. PICK e : e = reading.edges[k]
        OBVIOUS
  <2>2. k \in report.cross <=> PagesOf(e) # {} /\ Crosses(e)
        BY <1>2, <1>4, <2>1 DEF CountsAre
  <2>3. k # 0 /\ k \in PastEdges
        BY <1>3, <1>4
  <2>4. \A x : x \in Lying(k) <=> \E p \in Pages : \E l \in DOMAIN papers[p].runs :
                                     papers[p].runs[l].of = k /\ x = <<p, l>>
        BY DEF Lying
  <2>5. Cardinality(Lying(k)) = IF PagesOf(e) = {} \/ k \in report.cross THEN 0 ELSE 1
    <3>1. CASE ~Joins(e)
      <4>1. Lying(k) = {}
        <5>1. \A p \in Pages : \A l \in DOMAIN papers[p].runs : papers[p].runs[l].of # k
              BY <1>2, <2>1, <2>3, <3>1 DEF ConnectionsAre
        <5>2. QED BY <2>4, <5>1
      <4>2. Cardinality(Lying(k)) = 0
            BY <4>1, FS_EmptySet
      <4>3. QED BY <2>2, <3>1, <4>2 DEF Joins
    <3>2. CASE Joins(e)
      <4>1. PICK p \in Pages : \E l \in DOMAIN papers[p].runs : papers[p].runs[l].of = k
            BY <1>2, <2>1, <2>3, <3>2 DEF ConnectionsAre
      <4>2. PICK l \in DOMAIN papers[p].runs : papers[p].runs[l].of = k
            BY <4>1
      <4>3. \A q \in Pages : \A m \in DOMAIN papers[q].runs : papers[q].runs[m].of = k => q = p /\ m = l
            BY <1>2, <2>3, <4>2 DEF ConnectionsAre
      <4>4. PICK z : z = <<p, l>>
            OBVIOUS
      <4>5. z \in Lying(k) /\ \A y \in Lying(k) : y = z
            BY <2>4, <4>2, <4>3, <4>4
      <4>6. Cardinality(Lying(k)) = 1
            BY <4>5, OnlyOne
      <4>7. QED BY <2>2, <3>2, <4>6 DEF Joins
    <3>3. QED BY <3>1, <3>2
  <2>6. ASSUME NEW x \in Lying(k)
        PROVE  /\ papers[x[1]].nodes[StandsFor(papers[x[1]], papers[x[1]].runs[x[2]].a)].of = AsNode(e.from)
               /\ papers[x[1]].nodes[StandsFor(papers[x[1]], papers[x[1]].runs[x[2]].b)].of = AsNode(e.to)
    <3>1. PICK p \in Pages : \E l \in DOMAIN papers[p].runs : papers[p].runs[l].of = k /\ x = <<p, l>>
          BY <2>4, <2>6
    <3>2. PICK l \in DOMAIN papers[p].runs : papers[p].runs[l].of = k /\ x = <<p, l>>
          BY <3>1
    <3>3. /\ Stands(papers[p], papers[p].runs[l].a, AsNode(e.from))
          /\ Stands(papers[p], papers[p].runs[l].b, AsNode(e.to))
          BY <1>2, <2>1, <2>3, <3>2 DEF ConnectionsAre
    <3>4. PaperIs(papers[p])
          BY <1>2 DEF PapersAre
    <3>5. papers[p].runs[l].a \in DOMAIN papers[p].nodes /\ papers[p].runs[l].b \in DOMAIN papers[p].nodes
          BY <3>2, <3>4 DEF PaperIs
    <3>6. /\ papers[p].nodes[StandsFor(papers[p], papers[p].runs[l].a)].of = AsNode(e.from)
          /\ papers[p].nodes[StandsFor(papers[p], papers[p].runs[l].b)].of = AsNode(e.to)
          BY <3>3, <3>4, <3>5, NozzleLeads
    <3>7. x[1] = p /\ x[2] = l
          BY <3>2
    <3>8. QED BY <3>6, <3>7
  <2>7. QED BY <2>1, <2>2, <2>5, <2>6 DEF AsNode
<1>8. report.dangling =
              Cardinality({k \in DOMAIN reading.edges : PagesOf(reading.edges[k]) = {}})
              + Cardinality(UNION {{<<p, n>> : n \in DeadEnds(papers[p])} : p \in Pages})
      BY <1>2, <1>4 DEF CountsAre, LooseEnds
<1>9. ASSUME NEW p \in Pages, NEW n \in DOMAIN papers[p].nodes
      PROVE  LET touching(style) ==
                      {m \in DOMAIN papers[p].runs :
                          /\ papers[p].runs[m].style = style
                          /\ n \in {papers[p].runs[m].a, papers[p].runs[m].b}}
             IN  /\ papers[p].nodes[n].kind = "equipment" => touching("solid") = {}
                 /\ papers[p].nodes[n].kind = "nozzle" =>
                        /\ Cardinality(touching("solid")) = 1
                        /\ Cardinality(touching("internal")) = 1
  <2>1. PaperIs(papers[p]) /\ Bare(papers[p]) = {}
        BY <1>1, <1>2 DEF PapersAre, InOrder
  <2>2. papers[p].nodes[n].kind = "equipment" =>
           {m \in DOMAIN papers[p].runs :
                          /\ papers[p].runs[m].style = "solid"
                          /\ n \in {papers[p].runs[m].a, papers[p].runs[m].b}} = {}
        BY <2>1 DEF Bare
  <2>3. ASSUME papers[p].nodes[n].kind = "nozzle", NEW style \in {"solid", "internal"}
        PROVE  Cardinality({m \in DOMAIN papers[p].runs :
                          /\ papers[p].runs[m].style = style
                          /\ n \in {papers[p].runs[m].a, papers[p].runs[m].b}}) = 1
    <3> DEFINE S == {m \in DOMAIN papers[p].runs :
                          /\ papers[p].runs[m].style = style
                          /\ n \in {papers[p].runs[m].a, papers[p].runs[m].b}}
    <3>1. PICK l \in DOMAIN papers[p].runs : Touches(papers[p], l, n, style)
          BY <2>1, <2>3 DEF PaperIs
    <3>2. \A m \in DOMAIN papers[p].runs : Touches(papers[p], m, n, style) => m = l
          BY <2>1, <2>3, <3>1 DEF PaperIs
    <3>3. l \in S /\ \A y \in S : y = l
          BY <3>1, <3>2 DEF Touches
    <3> HIDE DEF S
    <3>4. Cardinality(S) = 1
          BY <3>3, OnlyOne
    <3>5. QED BY <3>4 DEF S
  <2>4. QED BY <2>2, <2>3
<1>10. QED BY <1>5, <1>6, <1>7, <1>8, <1>9 DEF GraphIsConverted

----------------------------------------------------------------------------
(* What a page says does not depend on the directions.                       *)

SeedStages == {"arrow", "check-valve", "connector", "psv"}

LEMMA StagesAreSeedStages ==
    \A k \in 1..3 : Stages[k] \in SeedStages /\ Stages[k + 1] \in SeedStages
BY DEF Stages, SeedStages

\* A step that leaves the page alone leaves what is read off it alone.
LEMMA PageStays ==
    ASSUME page' = page
    PROVE  /\ Runs' = Runs /\ Nodes' = Nodes
           /\ \A n : Incident(n)' = Incident(n)
           /\ \A r : Ends(r)' = Ends(r)
           /\ \A n : Branches(n, Incident(n))' = Branches(n, Incident(n))
           /\ \A n, q : Branches(n, Incident(n) \ {q})' = Branches(n, Incident(n) \ {q})
           /\ \A ks : OfKind(ks)' = OfKind(ks)
<1>1. Runs' = Runs /\ Nodes' = Nodes
      BY DEF Runs, Nodes
<1>2. \A r : Ends(r)' = Ends(r)
      BY DEF Ends
<1>3. \A n : Incident(n)' = Incident(n)
      BY <1>1, <1>2 DEF Incident
<1>4. \A ks : OfKind(ks)' = OfKind(ks)
      BY <1>1 DEF OfKind
<1>5. \A r, n : Far(r, n)' = Far(r, n)
      BY DEF Far
<1>6. \A r, n : Ignorable(r, n)' <=> Ignorable(r, n)
      BY <1>5 DEF Ignorable
<1>7. \A n : Branches(n, Incident(n))' = Branches(n, Incident(n))
  <2>1. \A n : {r \in Incident(n) : ~Ignorable(r, n)}' = {r \in Incident(n) : ~Ignorable(r, n)}
        BY <1>3, <1>6
  <2>2. QED BY <2>1, <1>5 DEF Branches
<1>8. ASSUME NEW n, NEW q
      PROVE  Branches(n, Incident(n) \ {q})' = Branches(n, Incident(n) \ {q})
  <2>1. {r \in Incident(n) \ {q} : ~Ignorable(r, n)}'
           = {r \in Incident(n) \ {q} : ~Ignorable(r, n)}
        BY <1>3, <1>6
  <2>2. QED BY <2>1, <1>5 DEF Branches
<1>9. QED BY <1>1, <1>2, <1>3, <1>4, <1>7, <1>8

\* Branches are told apart by their far nodes.
LEMMA BranchesDisjoint ==
    ASSUME NEW n, NEW X, NEW b \in Branches(n, X), NEW c \in Branches(n, X), b # c
    PROVE  b \cap c = {}
BY DEF Branches

LEMMA BranchesAmong ==
    ASSUME NEW n, NEW X, NEW b \in Branches(n, X)
    PROVE  b \subseteq X
BY DEF Branches

LEMMA BranchesAreFinite ==
    ASSUME NEW n, NEW X, IsFiniteSet(X)
    PROVE  IsFiniteSet(Branches(n, X))
<1>1. Branches(n, X) \subseteq SUBSET X
      BY BranchesAmong
<1>2. IsFiniteSet(SUBSET X)
      BY FS_SUBSET
<1>3. QED BY <1>1, <1>2, FS_Subset

\* The two ends of a run are where it flows to and where it flows from.
LEMMA EndsAreDownAndUp ==
    ASSUME NEW r, NEW d \in Dirs
    PROVE  Ends(r) = {Downstream(d, r), Upstream(d, r)}
BY DEF Ends, Downstream, Upstream, Dirs

LEMMA TowardAndAway ==
    ASSUME NEW n, NEW r \in Incident(n)
    PROVE  /\ Toward(r, n) \in Dirs /\ Downstream(Toward(r, n), r) = n
           /\ Away(r, n) \in Dirs /\ Upstream(Away(r, n), r) = n
BY DEF Toward, Away, Downstream, Upstream, Incident, Ends, Dirs

LEMMA AwayIsNotToward ==
    ASSUME NEW n, NEW r \in Incident(n), Cardinality(Ends(r)) = 2
    PROVE  Downstream(Away(r, n), r) # n
<1>1. page.ends[r].a # page.ends[r].b
  <2> SUFFICES ASSUME page.ends[r].a = page.ends[r].b
               PROVE  FALSE
      OBVIOUS
  <2>1. Ends(r) = {page.ends[r].a}
        BY DEF Ends
  <2>2. Cardinality(Ends(r)) = 1
        BY <2>1, FS_Singleton
  <2>3. QED BY <2>2
<1>2. QED BY <1>1 DEF Away, Downstream, Incident, Ends

----------------------------------------------------------------------------
(* Directions are only ever added, and what justified one goes on doing so.  *)

Grows == page' = page /\ \A r \in Runs : direction[r] # "none" => direction'[r] = direction[r]

\* Balances in a form that more directions cannot spoil: every other branch has a
\* run that flows as r does not.
BalancesFirmly(r, n) ==
    /\ page.kind[n] \in {"junction", "valve"}
    /\ Cardinality(Branches(n, Incident(n))) >= 3
    /\ \A b \in Branches(n, Incident(n)) :
          r \notin b => FlowInto(b, n) \ FlowInto({r}, n) # {}

LEMMA FirmlyBalances ==
    ASSUME NEW r, NEW n, BalancesFirmly(r, n)
    PROVE  Balances(r, n)
BY DEF BalancesFirmly, Balances

LEMMA CarriesOnStands ==
    ASSUME Grows, NEW r \in Runs, NEW q \in Runs, NEW n,
           direction[r] # "none", CarriesOn(r, q, n)
    PROVE  CarriesOn(r, q, n)'
<1>1. page' = page /\ direction'[r] = direction[r] /\ direction'[q] = direction[q]
      BY DEF Grows, CarriesOn
<1>2. Branches(n, Incident(n) \ {q})' = Branches(n, Incident(n) \ {q})
      BY <1>1, PageStays
<1>3. QED BY <1>1, <1>2 DEF CarriesOn, Downstream, Upstream

LEMMA FlowOfOneRun ==
    ASSUME NEW r, NEW n, direction[r] # "none"
    PROVE  FlowInto({r}, n) = {Downstream(direction[r], r) = n}
BY DEF FlowInto

LEMMA FlowIsTrueOrFalse ==
    ASSUME NEW b, NEW n
    PROVE  FlowInto(b, n) \subseteq BOOLEAN
BY Zenon DEF FlowInto

LEMMA FlowIntoGrows ==
    ASSUME Grows, NEW n, NEW b \in SUBSET Runs
    PROVE  FlowInto(b, n) \subseteq FlowInto(b, n)'
<1>1. \A q \in b : direction[q] # "none" =>
         /\ direction'[q] # "none"
         /\ (Downstream(direction[q], q) = n)' = (Downstream(direction[q], q) = n)
      BY DEF Grows, Downstream
<1>2. QED BY <1>1 DEF FlowInto

LEMMA FlowOfOneRunStands ==
    ASSUME Grows, NEW r \in Runs, NEW n, direction[r] # "none"
    PROVE  FlowInto({r}, n)' = FlowInto({r}, n)
BY DEF Grows, FlowInto, Downstream

LEMMA BalancesStands ==
    ASSUME Grows, NEW r \in Runs, NEW n, direction[r] # "none", BalancesFirmly(r, n)
    PROVE  BalancesFirmly(r, n)'
<1>1. page' = page
      BY DEF Grows
<1>2. Branches(n, Incident(n))' = Branches(n, Incident(n))
      BY <1>1, PageStays
<1>3. ASSUME NEW b \in Branches(n, Incident(n)), r \notin b
      PROVE  FlowInto(b, n)' \ FlowInto({r}, n)' # {}
  <2>1. b \in SUBSET Runs
        BY <1>3, BranchesAmong DEF Incident
  <2>2. FlowInto(b, n) \subseteq FlowInto(b, n)'
        BY <2>1, FlowIntoGrows
  <2>3. FlowInto({r}, n)' = FlowInto({r}, n)
        BY FlowOfOneRunStands
  <2>4. FlowInto(b, n) \ FlowInto({r}, n) # {}
        BY <1>3 DEF BalancesFirmly
  <2>5. QED BY <2>2, <2>3, <2>4
<1>4. QED BY <1>1, <1>2, <1>3 DEF BalancesFirmly

----------------------------------------------------------------------------
(* The inductive invariant.                                                  *)

JunctionOrValve == {"junction", "valve"}

OrientTyped ==
    /\ IsFiniteSet(Runs)
    /\ stage \in SeedStages \cup {"waiting", "propagate", "conserve", "done"}
    /\ asked \in [Runs -> SUBSET Dirs]
    /\ direction \in [Runs -> Dirs \cup {"none"}]
    /\ source \in [Runs -> Sources \cup {"none"}]
    /\ conflict \subseteq Runs
    /\ \A r \in frontier \cup newly : r \in Runs /\ direction[r] # "none"
    /\ stage = "conserve" => unvisited \subseteq OfKind(JunctionOrValve)
    /\ stage = "waiting" => conflict = {} /\ frontier = {} /\ newly = {}

\* Until the seeding is over every direction is a seed's.
SeedsAreKept ==
    /\ SeedsStand
    /\ \A r \in Runs : source[r] = "none" <=> direction[r] = "none"
    /\ stage \in SeedStages =>
          \A r \in Runs : direction[r] # "none" => direction[r] \in asked[r]

IsCarriedOn(r) == \E n \in Ends(r) : \E q \in Incident(n) \ {r} : CarriesOn(r, q, n)
IsBalanced(r)  == \E n \in Ends(r) : BalancesFirmly(r, n)

Reasoned ==
    \A r \in Runs : /\ source[r] = "propagated" => IsCarriedOn(r)
                    /\ source[r] = "conservation" /\ Cardinality(Ends(r)) = 2 => IsBalanced(r)

\* The runs whose direction has still to be passed on.
Pending == CASE stage = "propagate" -> frontier
             [] stage = "conserve" -> newly
             [] OTHER -> {}

PassedOn(r) == \A n \in Ends(r) : Continues(direction, r, n) = {}

Exhausting ==
    /\ stage \in {"propagate", "conserve", "done"} =>
          \A r \in Runs \ Pending : direction[r] # "none" => PassedOn(r)
    /\ stage = "conserve" /\ newly = {} =>
          \A n \in OfKind(JunctionOrValve) \ unvisited : DOMAIN Owed(n) = {}
    /\ stage = "done" => \A n \in OfKind(JunctionOrValve) : DOMAIN Owed(n) = {}

OrientInv == OrientTyped /\ SeedsAreKept /\ Reasoned /\ Exhausting

\* The invariant says of an orientation under way, and of the seeds, all that the
\* property does.
LEMMA OrientInvImplies == OrientInv => OrientationIsJustified
<1> SUFFICES ASSUME OrientInv
             PROVE  OrientationIsJustified
    OBVIOUS
<1>1. SeedsStand
      BY DEF OrientInv, SeedsAreKept
<1>2. NothingIsGuessed
  <2> SUFFICES ASSUME NEW r \in {q \in Runs : Cardinality(Ends(q)) = 2}
               PROVE  /\ source[r] = "propagated" =>
                            \E n \in Ends(r) : \E q \in Incident(n) \ {r} : CarriesOn(r, q, n)
                      /\ source[r] = "conservation" => \E n \in Ends(r) : Balances(r, n)
      BY DEF NothingIsGuessed
  <2>1. source[r] = "propagated" => IsCarriedOn(r)
        BY DEF OrientInv, Reasoned
  <2>2. source[r] = "conservation" => IsBalanced(r)
        BY DEF OrientInv, Reasoned
  <2>3. QED BY <2>1, <2>2, FirmlyBalances DEF IsCarriedOn, IsBalanced
<1>3. ASSUME stage = "done"
      PROVE  NothingLeftToInfer
  <2>1. Pending = {}
        BY <1>3 DEF Pending
  <2>2. \A r \in Runs : direction[r] # "none" => PassedOn(r)
        BY <1>3, <2>1 DEF OrientInv, Exhausting
  <2>3. \A n \in OfKind(JunctionOrValve) : DOMAIN Owed(n) = {}
        BY <1>3 DEF OrientInv, Exhausting
  <2>4. QED BY <2>2, <2>3 DEF NothingLeftToInfer, PassedOn, JunctionOrValve
<1>4. QED BY <1>1, <1>2, <1>3 DEF OrientationIsJustified

----------------------------------------------------------------------------
(* What an inference concludes, and that it stays concluded.                 *)

LEMMA ReasonsStand ==
    ASSUME Grows, NEW r \in Runs, direction[r] # "none"
    PROVE  /\ IsCarriedOn(r) => IsCarriedOn(r)'
           /\ IsBalanced(r) => IsBalanced(r)'
<1>1. Ends(r)' = Ends(r) /\ \A n : Incident(n)' = Incident(n)
      BY PageStays DEF Grows
<1>2. ASSUME NEW n \in Ends(r), NEW q \in Incident(n) \ {r}, CarriesOn(r, q, n)
      PROVE  CarriesOn(r, q, n)'
      BY <1>2, CarriesOnStands DEF Incident
<1>3. IsCarriedOn(r) => IsCarriedOn(r)'
      BY <1>1, <1>2 DEF IsCarriedOn
<1>4. ASSUME NEW n \in Ends(r), BalancesFirmly(r, n)
      PROVE  BalancesFirmly(r, n)'
      BY <1>4, BalancesStands
<1>5. IsBalanced(r) => IsBalanced(r)'
      BY <1>1, <1>4 DEF IsBalanced
<1>6. QED BY <1>3, <1>5

LEMMA ContinuesShrinks ==
    ASSUME Grows, NEW r, NEW n, Continues(direction, r, n) = {}
    PROVE  Continues(direction, r, n)' = {}
<1>1. /\ page' = page
      /\ Branches(n, Incident(n) \ {r})' = Branches(n, Incident(n) \ {r})
      BY PageStays DEF Grows
<1>2. UNION Branches(n, Incident(n) \ {r}) \subseteq Runs
      BY BranchesAmong DEF Incident
<1>3. \A q \in Runs : direction'[q] = "none" => direction[q] = "none"
      BY DEF Grows
<1>4. QED BY <1>1, <1>2, <1>3 DEF Continues

LEMMA PassedOnStands ==
    ASSUME Grows, NEW r \in Runs, PassedOn(r)
    PROVE  PassedOn(r)'
<1>1. Ends(r)' = Ends(r)
      BY PageStays DEF Grows
<1>2. QED BY <1>1, ContinuesShrinks DEF PassedOn

\* What carries on is a run of the one other branch, undirected so far.
LEMMA ContinuesIsOneBranch ==
    ASSUME IsFiniteSet(Runs), NEW d, NEW r, NEW n, NEW q, q \in Continues(d, r, n)
    PROVE  /\ q \in Runs /\ q \in Incident(n) /\ q # r
           /\ page.kind[n] \in {"valve", "junction", "dead-end"}
           /\ \E b \in Branches(n, Incident(n) \ {r}) :
                 q \in b /\ Branches(n, Incident(n) \ {r}) = {b}
<1> DEFINE others == Branches(n, Incident(n) \ {r})
<1>1. /\ page.kind[n] \in {"valve", "junction", "dead-end"} /\ Cardinality(others) = 1
      /\ q \in UNION others /\ d[q] = "none"
      BY DEF Continues
<1>2. IsFiniteSet(Incident(n) \ {r})
      BY FS_Subset DEF Incident
<1>3. \E b : others = {b}
  <2>1. IsFiniteSet(others)
        BY <1>2, BranchesAreFinite
  <2>2. QED BY <1>1, <2>1, FS_Singleton
<1>4. q \in Incident(n) \ {r}
      BY <1>1, BranchesAmong
<1>5. QED BY <1>1, <1>3, <1>4 DEF Incident

\* After one turn of the loop a run of the frontier has been passed on.
LEMMA NothingMoreContinues ==
    ASSUME Grows, NEW r, NEW n,
           \A q \in Continues(direction, r, n) : direction'[q] # "none"
    PROVE  Continues(direction, r, n)' = {}
<1>1. /\ page' = page
      /\ Branches(n, Incident(n) \ {r})' = Branches(n, Incident(n) \ {r})
      BY PageStays DEF Grows
<1>2. UNION Branches(n, Incident(n) \ {r}) \subseteq Runs
      BY BranchesAmong DEF Incident
<1>3. \A q \in Runs : direction'[q] = "none" => direction[q] = "none"
      BY DEF Grows
<1>4. QED BY <1>1, <1>2, <1>3 DEF Continues

LEMMA OwedIsUndirected ==
    ASSUME NEW n, NEW q \in DOMAIN Owed(n)
    PROVE  /\ q \in Runs /\ q \in Incident(n) /\ direction[q] = "none"
           /\ Owed(n)[q] \in Dirs
<1> DEFINE branches == Branches(n, Incident(n))
           unknown  == {b \in branches : FlowInto(b, n) = {}}
<1>1. q \in UNION unknown /\ Owed(n)[q] \in Dirs
      BY DEF Owed, Away, Dirs
<1>2. PICK b \in unknown : q \in b
      BY <1>1
<1>3. direction[q] = "none"
      BY <1>2 DEF FlowInto
<1>4. b \subseteq Incident(n)
      BY <1>2, BranchesAmong
<1>5. QED BY <1>1, <1>2, <1>3, <1>4 DEF Incident

\* What a node owes depends on the page and the directions only.
LEMMA OwedStays ==
    ASSUME page' = page, direction' = direction, NEW n
    PROVE  Owed(n)' = Owed(n)
<1> DEFINE branches == Branches(n, Incident(n))
           unknown  == {b \in branches : FlowInto(b, n) = {}}
           statuses == UNION {FlowInto(b, n) : b \in branches}
<1>1. branches' = branches
      BY PageStays
<1>2. \A b : FlowInto(b, n)' = FlowInto(b, n)
  <2>1. \A r : Downstream(direction[r], r)' = Downstream(direction[r], r)
        BY DEF Downstream
  <2>2. QED BY <2>1 DEF FlowInto
<1>3. unknown' = unknown
      BY <1>1, <1>2
<1>4. statuses' = statuses
      BY <1>1, <1>2
<1>5. \A q : Away(q, n)' = Away(q, n)
      BY DEF Away
<1>6. QED BY <1>1, <1>3, <1>4, <1>5 DEF Owed

LEMMA OwedBalances ==
    ASSUME IsFiniteSet(Runs), Grows, NEW n \in OfKind(JunctionOrValve),
           NEW q \in DOMAIN Owed(n), Cardinality(Ends(q)) = 2,
           direction'[q] = Owed(n)[q]
    PROVE  BalancesFirmly(q, n)'
<1> DEFINE branches == Branches(n, Incident(n))
           unknown  == {b \in branches : FlowInto(b, n) = {}}
           statuses == UNION {FlowInto(b, n) : b \in branches}
<1>1. /\ Cardinality(branches) >= 3 /\ Cardinality(unknown) = 1 /\ Cardinality(statuses) = 1
      /\ q \in UNION unknown
      /\ Owed(n)[q] = IF statuses = {TRUE} THEN Away(q, n)
                      ELSE IF page.ends[q].b = n THEN "ab" ELSE "ba"
      BY DEF Owed
<1>2. q \in Runs /\ q \in Incident(n)
      BY OwedIsUndirected
<1>3. PICK b0 : unknown = {b0}
  <2>1. IsFiniteSet(Incident(n))
        BY FS_Subset DEF Incident
  <2>2. IsFiniteSet(branches)
        BY <2>1, BranchesAreFinite
  <2>3. IsFiniteSet(unknown)
        BY <2>2, FS_Subset
  <2>4. QED BY <1>1, <2>3, FS_Singleton
<1>4. q \in b0 /\ b0 \in branches
      BY <1>1, <1>3
<1>5. PICK v : statuses = {v}
  <2>1. statuses \subseteq BOOLEAN
        BY FlowIsTrueOrFalse
  <2>2. IsFiniteSet(BOOLEAN)
    <3>1. BOOLEAN = {TRUE} \cup {FALSE}
          OBVIOUS
    <3>2. IsFiniteSet({TRUE})
          BY FS_Singleton
    <3>3. QED BY <3>1, <3>2, FS_AddElement
  <2>3. IsFiniteSet(statuses)
        BY <2>1, <2>2, FS_Subset
  <2>4. QED BY <1>1, <2>3, FS_Singleton
<1>6. v \in BOOLEAN
      BY <1>5, FlowIsTrueOrFalse
<1>7. (Downstream(Owed(n)[q], q) = n) # v
  <2>1. CASE v = TRUE
    <3>1. Owed(n)[q] = Away(q, n)
          BY <1>1, <1>5, <2>1
    <3>2. Downstream(Away(q, n), q) # n
          BY <1>2, AwayIsNotToward
    <3>3. QED BY <2>1, <3>1, <3>2
  <2>2. CASE v = FALSE
    <3>1. Owed(n)[q] = IF page.ends[q].b = n THEN "ab" ELSE "ba"
          BY <1>1, <1>5, <2>2
    <3>2. Downstream(Owed(n)[q], q) = n
          BY <1>2, <3>1 DEF Downstream, Incident, Ends
    <3>3. QED BY <2>2, <3>2
  <2>3. QED BY <1>6, <2>1, <2>2
<1>8. /\ page' = page /\ branches' = branches
      BY PageStays DEF Grows
<1>9. direction'[q] # "none"
      BY OwedIsUndirected DEF Dirs
<1>10. FlowInto({q}, n)' = {Downstream(Owed(n)[q], q) = n}
  <2>1. FlowInto({q}, n)' = {(Downstream(direction[q], q) = n)'}
        BY <1>9 DEF FlowInto
  <2>2. Downstream(direction[q], q)' = Downstream(Owed(n)[q], q)
        BY <1>8 DEF Downstream
  <2>3. QED BY <2>1, <2>2
<1>11. ASSUME NEW b \in branches, q \notin b
       PROVE  FlowInto(b, n)' \ FlowInto({q}, n)' # {}
  <2>1. b \notin unknown
        BY <1>3, <1>4, <1>11
  <2>2. v \in FlowInto(b, n)
        BY <2>1, <1>5
  <2>3. b \in SUBSET Runs
        BY BranchesAmong DEF Incident
  <2>4. v \in FlowInto(b, n)'
        BY <2>2, <2>3, FlowIntoGrows
  <2>5. v \notin FlowInto({q}, n)'
        BY <1>7, <1>10
  <2>6. QED BY <2>4, <2>5
<1>12. page.kind[n] \in {"junction", "valve"}
       BY DEF OfKind, JunctionOrValve
<1>13. QED BY <1>1, <1>8, <1>11, <1>12 DEF BalancesFirmly

----------------------------------------------------------------------------
(* Every step keeps the invariant.                                           *)

LEMMA OrientStarts == OrientInit => OrientInv
<1> SUFFICES ASSUME OrientInit
             PROVE  OrientInv
    OBVIOUS
<1>1. Runs = {}
      BY DEF OrientInit, Runs
<1>2. OrientTyped
      BY <1>1, FS_EmptySet DEF OrientInit, OrientTyped
<1>3. SeedsAreKept
      BY <1>1 DEF OrientInit, SeedsAreKept, SeedsStand
<1>4. Reasoned
      BY <1>1 DEF Reasoned
<1>5. Exhausting
      BY DEF OrientInit, Exhausting
<1>6. QED BY <1>2, <1>3, <1>4, <1>5 DEF OrientInv

LEMMA OrientKeeps ==
    ASSUME OrientInv, NEW p, IsFiniteSet(DOMAIN p.ends), Orient(p)
    PROVE  OrientInv'
<1>1. /\ Runs' = DOMAIN p.ends /\ stage = "waiting" /\ stage' = "arrow"
      /\ asked' = [r \in DOMAIN p.ends |-> {}]
      /\ direction' = [r \in DOMAIN p.ends |-> "none"] /\ source' = direction'
      /\ conflict' = conflict /\ frontier' = frontier /\ newly' = newly
      BY DEF Orient, Runs
<1>2. conflict = {} /\ frontier = {} /\ newly = {}
      BY <1>1 DEF OrientInv, OrientTyped
<1>3. OrientTyped'
      BY <1>1, <1>2 DEF OrientTyped, SeedStages
<1>4. SeedsAreKept'
      BY <1>1, <1>2 DEF SeedsAreKept, SeedsStand, Dirs
<1>5. \A r \in Runs' : source'[r] = "none"
      BY <1>1
<1>6. Reasoned'
      BY <1>5 DEF Reasoned
<1>7. Exhausting'
      BY <1>1 DEF Exhausting
<1>8. QED BY <1>3, <1>4, <1>6, <1>7 DEF OrientInv

\* Reasons given before a step that only adds directions hold after it.
LEMMA OldReasons ==
    ASSUME OrientInv, Grows, NEW r \in Runs, direction[r] # "none", source'[r] = source[r]
    PROVE  /\ source'[r] = "propagated" => IsCarriedOn(r)'
           /\ source'[r] = "conservation" /\ Cardinality(Ends(r)) = 2 => IsBalanced(r)'
BY ReasonsStand DEF OrientInv, Reasoned

LEMMA SeedKeeps ==
    ASSUME OrientInv, NEW by \in SeedStages, NEW ask, DOMAIN ask \subseteq Runs,
           \A r \in DOMAIN ask : ask[r] \in Dirs, Seed(by, ask)
    PROVE  OrientInv'
<1> DEFINE fresh == {r \in DOMAIN ask : direction[r] = "none"}
<1>1. /\ page' = page /\ stage = by /\ stage' = stage /\ frontier' = frontier /\ newly' = newly
      /\ direction' = [r \in Runs |-> IF r \in fresh THEN ask[r] ELSE direction[r]]
      /\ source' = [r \in Runs |-> IF r \in fresh THEN by ELSE source[r]]
      /\ conflict' = conflict \cup {r \in DOMAIN ask \ fresh : direction[r] # ask[r]}
      /\ asked' = [r \in Runs |-> IF r \in DOMAIN ask THEN asked[r] \cup {ask[r]} ELSE asked[r]]
      BY DEF Seed, SetDir
<1>2. stage \notin {"waiting", "propagate", "conserve", "done"} /\ by # "none"
      /\ by # "propagated" /\ by # "conservation" /\ by \in Sources
      BY <1>1 DEF SeedStages, Sources
<1>3. Runs' = Runs /\ \A r : Ends(r)' = Ends(r)
      BY <1>1, PageStays
<1>4. Grows
      BY <1>1 DEF Grows
<1>5. /\ asked \in [Runs -> SUBSET Dirs] /\ direction \in [Runs -> Dirs \cup {"none"}]
      /\ source \in [Runs -> Sources \cup {"none"}] /\ conflict \subseteq Runs
      /\ IsFiniteSet(Runs)
      /\ \A r \in frontier \cup newly : r \in Runs /\ direction[r] # "none"
      BY DEF OrientInv, OrientTyped
<1>6. /\ \A r \in Runs : asked[r] # {} => direction[r] \in asked[r]
      /\ conflict = {r \in Runs : asked[r] = Dirs}
      /\ \A r \in Runs : source[r] = "none" <=> direction[r] = "none"
      /\ \A r \in Runs : direction[r] # "none" => direction[r] \in asked[r]
      BY <1>1 DEF OrientInv, SeedsAreKept, SeedsStand
<1> HIDE DEF fresh
<1>7. \A r \in fresh : r \in DOMAIN ask /\ direction[r] = "none" /\ asked[r] = {} /\ ask[r] \in Dirs
  <2>1. \A r \in fresh : r \in DOMAIN ask /\ direction[r] = "none"
        BY DEF fresh
  <2>2. \A r \in fresh : direction[r] \notin asked[r]
        BY <1>5, <2>1 DEF Dirs
  <2>3. QED BY <1>6, <2>1, <2>2
<1>8. \A r \in DOMAIN ask \ fresh : direction[r] \in asked[r] /\ direction[r] # "none"
      BY <1>6 DEF fresh
<1>9. OrientTyped'
  <2>1. asked' \in [Runs -> SUBSET Dirs]
        BY <1>1, <1>5
  <2>2. direction' \in [Runs -> Dirs \cup {"none"}]
        BY <1>1, <1>5, <1>7
  <2>3. source' \in [Runs -> Sources \cup {"none"}]
        BY <1>1, <1>2, <1>5
  <2>4. conflict' \subseteq Runs
        BY <1>1, <1>5
  <2>5. \A r \in frontier' \cup newly' : r \in Runs /\ direction'[r] # "none"
        BY <1>1, <1>4, <1>5 DEF Grows
  <2>6. QED BY <1>1, <1>2, <1>3, <1>5, <2>1, <2>2, <2>3, <2>4, <2>5 DEF OrientTyped
<1>10. SeedsAreKept'
  <2>1. \A r \in Runs : asked'[r] # {} => direction'[r] \in asked'[r]
        BY <1>1, <1>6, <1>7, <1>8
  <2>2. ASSUME NEW r \in Runs
        PROVE  r \in conflict' <=> asked'[r] = Dirs
    <3>1. CASE r \in fresh
          BY <1>1, <1>6, <1>7, <3>1 DEF Dirs
    <3>2. CASE r \in DOMAIN ask \ fresh
      <4>1. r \in conflict' <=> asked[r] = Dirs \/ direction[r] # ask[r]
            BY <1>1, <1>6, <3>2
      <4>2. asked'[r] = asked[r] \cup {ask[r]} /\ direction[r] \in asked[r] /\ ask[r] \in Dirs
            BY <1>1, <1>8, <3>2
      <4>3. asked[r] \subseteq Dirs
            BY <1>5
      <4>4. asked[r] = {direction[r]} \/ asked[r] = Dirs
            BY <4>2, <4>3 DEF Dirs
      <4>5. QED BY <4>1, <4>2, <4>3, <4>4 DEF Dirs
    <3>3. CASE r \notin DOMAIN ask
          BY <1>1, <1>6, <3>3 DEF fresh
    <3>4. QED BY <3>1, <3>2, <3>3
  <2>3. \A r \in Runs : source'[r] = "none" <=> direction'[r] = "none"
        BY <1>1, <1>2, <1>6, <1>7 DEF Dirs
  <2>4. \A r \in Runs : direction'[r] # "none" => direction'[r] \in asked'[r]
        BY <1>1, <1>6, <1>7, <1>8
  <2>5. conflict' = {r \in Runs : asked'[r] = Dirs}
        BY <2>2, <1>9, <1>3 DEF OrientTyped
  <2>6. QED BY <1>1, <1>3, <2>1, <2>3, <2>4, <2>5 DEF SeedsAreKept, SeedsStand
<1>11. Reasoned'
  <2>1. ASSUME NEW r \in Runs
        PROVE  /\ source'[r] = "propagated" => IsCarriedOn(r)'
               /\ source'[r] = "conservation" /\ Cardinality(Ends(r)) = 2 => IsBalanced(r)'
    <3>1. CASE r \in fresh
          BY <1>1, <1>2, <3>1
    <3>2. CASE r \notin fresh /\ direction[r] # "none"
          BY <1>1, <1>4, <3>2, OldReasons
    <3>3. CASE r \notin fresh /\ direction[r] = "none"
          BY <1>1, <1>6, <3>3
    <3>4. QED BY <3>1, <3>2, <3>3
  <2>2. QED BY <1>3, <2>1 DEF Reasoned
<1>12. Exhausting'
       BY <1>1, <1>2 DEF Exhausting
<1>13. QED BY <1>9, <1>10, <1>11, <1>12 DEF OrientInv

\* A step that sets no direction keeps the reasons of those there are.
LEMMA QuietStep ==
    ASSUME OrientInv, UNCHANGED <<page, seedVars, direction, source, conflict>>,
           stage' \in SeedStages => stage \in SeedStages
    PROVE  /\ Grows /\ SeedsAreKept' /\ Reasoned'
           /\ IsFiniteSet(Runs)' /\ Runs' = Runs
           /\ asked' \in [Runs -> SUBSET Dirs]
           /\ direction' \in [Runs -> Dirs \cup {"none"}]
           /\ source' \in [Runs -> Sources \cup {"none"}]
           /\ conflict' \subseteq Runs
<1>1. /\ page' = page /\ asked' = asked /\ direction' = direction /\ source' = source
      /\ conflict' = conflict
      BY DEF seedVars
<1>2. Grows /\ Runs' = Runs /\ \A r : Ends(r)' = Ends(r)
      BY <1>1, PageStays DEF Grows
<1>3. SeedsAreKept'
      BY <1>1, <1>2 DEF OrientInv, SeedsAreKept, SeedsStand
<1>4. Reasoned'
  <2>1. ASSUME NEW r \in Runs
        PROVE  /\ source'[r] = "propagated" => IsCarriedOn(r)'
               /\ source'[r] = "conservation" /\ Cardinality(Ends(r)) = 2 => IsBalanced(r)'
    <3>1. CASE direction[r] # "none"
          BY <1>1, <1>2, <3>1, OldReasons
    <3>2. CASE direction[r] = "none"
          BY <1>1, <3>2 DEF OrientInv, SeedsAreKept
    <3>3. QED BY <3>1, <3>2
  <2>2. QED BY <1>2, <2>1 DEF Reasoned
<1>5. QED BY <1>1, <1>2, <1>3, <1>4 DEF OrientInv, OrientTyped

LEMMA NextStageKeeps == OrientInv /\ NextStage => OrientInv'
<1> SUFFICES ASSUME OrientInv, NextStage
             PROVE  OrientInv'
    OBVIOUS
<1>1. stage \in SeedStages /\ stage' \in SeedStages
      BY StagesAreSeedStages DEF NextStage
<1>2. stage' \notin {"waiting", "propagate", "conserve", "done"}
      BY <1>1 DEF SeedStages
<1>3. UNCHANGED <<page, seedVars, direction, source, conflict>> /\ frontier' = frontier /\ newly' = newly
      BY DEF NextStage
<1>4. OrientTyped'
      BY <1>1, <1>2, <1>3, QuietStep DEF OrientInv, OrientTyped
<1>5. Exhausting'
      BY <1>2 DEF Exhausting
<1>6. QED BY <1>1, <1>3, <1>4, <1>5, QuietStep DEF OrientInv

LEMMA StartPropagationKeeps == OrientInv /\ StartPropagation => OrientInv'
<1> SUFFICES ASSUME OrientInv, StartPropagation
             PROVE  OrientInv'
    OBVIOUS
<1>1. /\ stage' = "propagate" /\ frontier' = {r \in Runs : direction[r] # "none"}
      /\ newly' = newly /\ direction' = direction
      /\ UNCHANGED <<page, seedVars, direction, source, conflict>>
      BY DEF StartPropagation
<1>2. stage' \notin SeedStages
      BY <1>1 DEF SeedStages
<1>3. OrientTyped'
      BY <1>1, <1>2, QuietStep DEF OrientInv, OrientTyped
<1>4. Exhausting'
  <2>1. Pending' = frontier'
        BY <1>1 DEF Pending
  <2>2. \A r \in Runs' \ Pending' : direction'[r] = "none"
        BY <1>1, <1>2, <2>1, QuietStep
  <2>3. QED BY <1>1, <2>2 DEF Exhausting
<1>5. QED BY <1>1, <1>2, <1>3, <1>4, QuietStep DEF OrientInv

LEMMA StartPassKeeps == OrientInv /\ StartPass => OrientInv'
<1> SUFFICES ASSUME OrientInv, StartPass
             PROVE  OrientInv'
    OBVIOUS
<1>1. /\ stage = "propagate" /\ frontier = {} /\ stage' = "conserve" /\ newly' = {}
      /\ frontier' = frontier /\ unvisited' = OfKind({"junction", "valve"})
      /\ page' = page /\ direction' = direction
      /\ UNCHANGED <<page, seedVars, direction, source, conflict>>
      BY DEF StartPass
<1>2. stage' \notin SeedStages
      BY <1>1 DEF SeedStages
<1>3. unvisited' = OfKind(JunctionOrValve)'
      BY <1>1, PageStays DEF JunctionOrValve
<1>4. OrientTyped'
      BY <1>1, <1>2, <1>3, QuietStep DEF OrientInv, OrientTyped
<1>5. Exhausting'
  <2>1. Pending = {} /\ Pending' = {}
        BY <1>1 DEF Pending
  <2>2. \A r \in Runs : direction[r] # "none" => PassedOn(r)
        BY <1>1, <2>1 DEF OrientInv, Exhausting
  <2>3. \A r \in Runs : direction'[r] # "none" => PassedOn(r)'
        BY <1>1, <1>2, <2>2, QuietStep, PassedOnStands
  <2>4. Runs' = Runs
        BY <1>1, PageStays
  <2>5. QED BY <1>1, <1>3, <2>3, <2>4 DEF Exhausting
<1>6. QED BY <1>1, <1>2, <1>4, <1>5, QuietStep DEF OrientInv

LEMMA EndPassKeeps == OrientInv /\ EndPass => OrientInv'
<1> SUFFICES ASSUME OrientInv, EndPass
             PROVE  OrientInv'
    OBVIOUS
<1>1. /\ stage = "conserve" /\ unvisited = {} /\ frontier' = newly /\ newly' = newly
      /\ stage' = IF newly = {} THEN "done" ELSE "propagate"
      /\ page' = page /\ direction' = direction
      /\ UNCHANGED <<page, seedVars, direction, source, conflict>>
      BY DEF EndPass
<1>2. stage' \notin SeedStages \cup {"conserve", "waiting"}
      BY <1>1 DEF SeedStages
<1>3. Runs' = Runs /\ \A ks : OfKind(ks)' = OfKind(ks)
      BY <1>1, PageStays
<1>4. OrientTyped'
      BY <1>1, <1>2, <1>3, QuietStep DEF OrientInv, OrientTyped
<1>5. Pending = newly /\ Pending' = newly
      BY <1>1 DEF Pending
<1>6. \A r \in Runs' \ Pending' : direction'[r] # "none" => PassedOn(r)'
  <2>1. \A r \in Runs \ Pending : direction[r] # "none" => PassedOn(r)
        BY <1>1 DEF OrientInv, Exhausting
  <2>2. Grows
        BY <1>1 DEF Grows
  <2>3. QED BY <1>1, <1>3, <1>5, <2>1, <2>2, PassedOnStands
<1>7. stage' = "done" => \A n \in OfKind(JunctionOrValve)' : DOMAIN Owed(n)' = {}
  <2>1. SUFFICES ASSUME newly = {}, NEW n \in OfKind(JunctionOrValve)
                 PROVE  DOMAIN Owed(n)' = {}
        BY <1>1, <1>3
  <2>2. DOMAIN Owed(n) = {}
        BY <1>1, <2>1 DEF OrientInv, Exhausting
  <2>3. Owed(n)' = Owed(n)
        BY <1>1, OwedStays
  <2>4. QED BY <2>2, <2>3
<1>8. Exhausting'
      BY <1>2, <1>6, <1>7 DEF Exhausting
<1>9. QED BY <1>1, <1>2, <1>4, <1>8, QuietStep DEF OrientInv

\* An inference only writes where nothing was written: what seeds asked for stands.
LEMMA InferenceKeepsSeeds ==
    ASSUME OrientInv, Grows, stage' \notin SeedStages, asked' = asked, conflict' = conflict,
           \A r \in Runs : source'[r] = "none" <=> direction'[r] = "none"
    PROVE  SeedsAreKept'
<1>1. Runs' = Runs
      BY PageStays DEF Grows
<1>2. ASSUME NEW r \in Runs, asked[r] # {}
      PROVE  direction'[r] \in asked[r]
  <2>1. direction[r] \in asked[r] /\ asked[r] \subseteq Dirs
        BY <1>2 DEF OrientInv, SeedsAreKept, SeedsStand, OrientTyped
  <2>2. direction[r] # "none"
        BY <2>1 DEF Dirs
  <2>3. QED BY <2>1, <2>2 DEF Grows
<1>3. conflict = {r \in Runs : asked[r] = Dirs}
      BY DEF OrientInv, SeedsAreKept, SeedsStand
<1>4. SeedsStand'
      BY <1>1, <1>2, <1>3 DEF SeedsStand
<1>5. QED BY <1>1, <1>4 DEF SeedsAreKept

LEMMA PropagateKeeps == OrientInv /\ Propagate => OrientInv'
<1> SUFFICES ASSUME OrientInv, Propagate
             PROVE  OrientInv'
    OBVIOUS
<1>1. PICK r0, down, up :
         /\ r0 \in frontier
         /\ down = Downstream(direction[r0], r0) /\ up = Upstream(direction[r0], r0)
         /\ LET after  == Continues(direction, r0, down)
                dir1   == [q \in Runs |-> IF q \in after THEN Away(q, down) ELSE direction[q]]
                before == Continues(dir1, r0, up)
            IN  /\ direction' = [q \in Runs |-> IF q \in before THEN Toward(q, up) ELSE dir1[q]]
                /\ source' = [q \in Runs |-> IF q \in after \cup before
                                             THEN "propagated" ELSE source[q]]
                /\ frontier' = (frontier \ {r0}) \cup after \cup before
      BY DEF Propagate
<1> DEFINE after  == Continues(direction, r0, down)
           dir1   == [q \in Runs |-> IF q \in after THEN Away(q, down) ELSE direction[q]]
           before == Continues(dir1, r0, up)
<1>2. /\ direction' = [q \in Runs |-> IF q \in before THEN Toward(q, up) ELSE dir1[q]]
      /\ source' = [q \in Runs |-> IF q \in after \cup before THEN "propagated" ELSE source[q]]
      /\ frontier' = (frontier \ {r0}) \cup after \cup before
      BY <1>1
<1>3. /\ stage = "propagate" /\ stage' = stage /\ page' = page /\ asked' = asked
      /\ conflict' = conflict /\ newly' = newly
      BY DEF Propagate, seedVars
<1>4. /\ asked \in [Runs -> SUBSET Dirs] /\ direction \in [Runs -> Dirs \cup {"none"}]
      /\ source \in [Runs -> Sources \cup {"none"}] /\ conflict \subseteq Runs
      /\ IsFiniteSet(Runs)
      /\ \A r \in frontier \cup newly : r \in Runs /\ direction[r] # "none"
      BY DEF OrientInv, OrientTyped
<1>5. r0 \in Runs /\ direction[r0] \in Dirs
      BY <1>1, <1>4
<1>6. Ends(r0) = {down, up}
      BY <1>1, <1>5, EndsAreDownAndUp
<1>7. r0 \in Incident(down) /\ r0 \in Incident(up)
      BY <1>5, <1>6 DEF Incident
<1>8. ASSUME NEW q \in after
      PROVE  /\ q \in Runs /\ q \in Incident(down) /\ q # r0 /\ direction[q] = "none"
             /\ page.kind[down] \in {"valve", "junction", "dead-end"}
             /\ \E b \in Branches(down, Incident(down) \ {r0}) :
                   q \in b /\ Branches(down, Incident(down) \ {r0}) = {b}
  <2>1. q \in Continues(direction, r0, down) /\ IsFiniteSet(Runs)
        BY <1>4, <1>8
  <2>2. direction[q] = "none"
        BY <2>1 DEF Continues
  <2>3. q \in Runs /\ q \in Incident(down) /\ q # r0
        BY <2>1, ContinuesIsOneBranch
  <2>4. page.kind[down] \in {"valve", "junction", "dead-end"}
        BY <2>1, ContinuesIsOneBranch
  <2>5. \E b \in Branches(down, Incident(down) \ {r0}) :
           q \in b /\ Branches(down, Incident(down) \ {r0}) = {b}
        BY <2>1, ContinuesIsOneBranch
  <2>6. QED BY <2>2, <2>3, <2>4, <2>5
<1>9. ASSUME NEW q \in before
      PROVE  /\ q \in Runs /\ q \in Incident(up) /\ q # r0 /\ dir1[q] = "none"
             /\ page.kind[up] \in {"valve", "junction", "dead-end"}
             /\ \E b \in Branches(up, Incident(up) \ {r0}) :
                   q \in b /\ Branches(up, Incident(up) \ {r0}) = {b}
  <2> HIDE DEF dir1
  <2>1. q \in Continues(dir1, r0, up) /\ IsFiniteSet(Runs)
        BY <1>4, <1>9
  <2>2. dir1[q] = "none"
        BY <2>1 DEF Continues
  <2>3. q \in Runs /\ q \in Incident(up) /\ q # r0
        BY <2>1, ContinuesIsOneBranch
  <2>4. page.kind[up] \in {"valve", "junction", "dead-end"}
        BY <2>1, ContinuesIsOneBranch
  <2>5. \E b \in Branches(up, Incident(up) \ {r0}) :
           q \in b /\ Branches(up, Incident(up) \ {r0}) = {b}
        BY <2>1, ContinuesIsOneBranch
  <2>6. QED BY <2>2, <2>3, <2>4, <2>5
<1> HIDE DEF after, before
<1>10. \A q \in after : Away(q, down) \in Dirs /\ Upstream(Away(q, down), q) = down
      BY <1>8, TowardAndAway
<1>11. \A q \in before : Toward(q, up) \in Dirs /\ Downstream(Toward(q, up), q) = up
      BY <1>9, TowardAndAway
<1>12. \A q \in before : q \notin after /\ direction[q] = "none"
      BY <1>9, <1>10 DEF Dirs
<1>13. \A q \in after : direction'[q] = Away(q, down)
      BY <1>2, <1>8, <1>12
<1>14. \A q \in before : direction'[q] = Toward(q, up)
      BY <1>2, <1>9
<1>15. \A q \in Runs \ (after \cup before) : direction'[q] = direction[q] /\ source'[q] = source[q]
      BY <1>2
<1>16. Grows
      BY <1>3, <1>8, <1>12, <1>15 DEF Grows
<1>17. Runs' = Runs /\ \A r : Ends(r)' = Ends(r) /\ \A n : Incident(n)' = Incident(n)
      BY <1>3, PageStays
<1>18. \A q \in after \cup before : q \in Runs /\ source'[q] = "propagated" /\ direction'[q] \in Dirs
      BY <1>2, <1>8, <1>9, <1>10, <1>11, <1>13, <1>14
<1>19. OrientTyped'
  <2>1. direction' \in [Runs -> Dirs \cup {"none"}]
    <3>1. \A q \in Runs : direction'[q] \in Dirs \cup {"none"}
          BY <1>4, <1>15, <1>18
    <3>2. QED BY <1>2, <3>1
  <2>2. source' \in [Runs -> Sources \cup {"none"}]
        BY <1>2, <1>4 DEF Sources
  <2>3. \A r \in frontier' \cup newly' : r \in Runs /\ direction'[r] # "none"
        BY <1>2, <1>3, <1>4, <1>16, <1>18 DEF Grows, Dirs
  <2>4. stage' \notin {"waiting", "conserve"} /\ stage' \in SeedStages \cup {"propagate"}
        BY <1>3
  <2>5. QED BY <1>3, <1>4, <1>17, <2>1, <2>2, <2>3, <2>4 DEF OrientTyped
<1>20. SeedsAreKept'
  <2>1. \A r \in Runs : source'[r] = "none" <=> direction'[r] = "none"
        BY <1>15, <1>18 DEF Dirs, OrientInv, SeedsAreKept
  <2>2. stage' \notin SeedStages
        BY <1>3 DEF SeedStages
  <2>3. QED BY <1>3, <1>16, <2>1, <2>2, InferenceKeepsSeeds
<1>21. ASSUME NEW q \in after
       PROVE  CarriesOn(q, r0, down)'
  <2>1. Branches(down, Incident(down) \ {r0})' = Branches(down, Incident(down) \ {r0})
        BY <1>3, PageStays
  <2>2. direction'[r0] = direction[r0] /\ direction[r0] # "none"
        BY <1>5, <1>16 DEF Grows, Dirs
  <2>3. Downstream(direction[r0], r0)' = down
        BY <1>1, <1>3, <2>2 DEF Downstream
  <2>4. Upstream(direction[q], q)' = down
        BY <1>3, <1>10, <1>13 DEF Upstream
  <2>5. QED BY <1>3, <1>8, <2>1, <2>2, <2>3, <2>4 DEF CarriesOn
<1>22. ASSUME NEW q \in before
       PROVE  CarriesOn(q, r0, up)'
  <2>1. Branches(up, Incident(up) \ {r0})' = Branches(up, Incident(up) \ {r0})
        BY <1>3, PageStays
  <2>2. direction'[r0] = direction[r0] /\ direction[r0] # "none"
        BY <1>5, <1>16 DEF Grows, Dirs
  <2>3. Upstream(direction[r0], r0)' = up
        BY <1>1, <1>3, <2>2 DEF Upstream
  <2>4. Downstream(direction[q], q)' = up
        BY <1>3, <1>11, <1>14 DEF Downstream
  <2>5. QED BY <1>3, <1>9, <2>1, <2>2, <2>3, <2>4 DEF CarriesOn
<1>23. Reasoned'
  <2>1. ASSUME NEW q \in Runs
        PROVE  /\ source'[q] = "propagated" => IsCarriedOn(q)'
               /\ source'[q] = "conservation" /\ Cardinality(Ends(q)) = 2 => IsBalanced(q)'
    <3>1. CASE q \in after
      <4>1. down \in Ends(q)' /\ r0 \in Incident(down)' \ {q}
            BY <1>7, <1>8, <1>17, <3>1 DEF Incident
      <4>2. IsCarriedOn(q)'
            BY <1>21, <3>1, <4>1 DEF IsCarriedOn
      <4>3. QED BY <1>18, <3>1, <4>2
    <3>2. CASE q \in before
      <4>1. up \in Ends(q)' /\ r0 \in Incident(up)' \ {q}
            BY <1>7, <1>9, <1>17, <3>2 DEF Incident
      <4>2. IsCarriedOn(q)'
            BY <1>22, <3>2, <4>1 DEF IsCarriedOn
      <4>3. QED BY <1>18, <3>2, <4>2
    <3>3. CASE q \notin after \cup before /\ direction[q] # "none"
          BY <1>15, <1>16, <3>3, OldReasons
    <3>4. CASE q \notin after \cup before /\ direction[q] = "none"
          BY <1>15, <3>4 DEF OrientInv, SeedsAreKept
    <3>5. QED BY <3>1, <3>2, <3>3, <3>4
  <2>2. QED BY <1>17, <2>1 DEF Reasoned
<1>24. Exhausting'
  <2>1. Pending = frontier /\ Pending' = frontier'
        BY <1>3 DEF Pending
  <2>2. PassedOn(r0)'
    <3>1. Continues(direction, r0, down)' = {}
      <4>1. \A q \in Continues(direction, r0, down) : direction'[q] # "none"
            BY <1>18 DEF after, Dirs
      <4>2. QED BY <1>16, <4>1, NothingMoreContinues
    <3>2. Continues(direction, r0, up)' = {}
      <4>1. ASSUME NEW q \in Continues(direction, r0, up)
            PROVE  direction'[q] # "none"
        <5>1. CASE q \in after
              BY <1>18, <5>1 DEF Dirs
        <5>2. CASE q \notin after
          <6>1. q \in Runs /\ direction[q] = "none"
            <7>1. IsFiniteSet(Runs)
                  BY <1>4
            <7>2. q \in Runs
                  BY <4>1, <7>1, ContinuesIsOneBranch
            <7>3. QED BY <4>1, <7>2 DEF Continues
          <6>2. dir1[q] = "none"
                BY <5>2, <6>1
          <6>3. q \in before
                BY <6>2 DEF before, Continues
          <6>4. QED BY <1>18, <6>3 DEF Dirs
        <5>3. QED BY <5>1, <5>2
      <4>2. QED BY <1>16, <4>1, NothingMoreContinues
    <3>3. Ends(r0)' = {down, up}
          BY <1>6, <1>17
    <3>4. QED BY <3>1, <3>2, <3>3 DEF PassedOn
  <2>3. ASSUME NEW r \in Runs \ frontier', direction'[r] # "none"
        PROVE  PassedOn(r)'
    <3>1. CASE r = r0
          BY <2>2, <3>1
    <3>2. CASE r # r0
      <4>1. r \notin frontier /\ r \notin after \cup before
            BY <1>2, <2>3, <3>2
      <4>2. direction[r] # "none"
            BY <1>15, <2>3, <4>1
      <4>3. PassedOn(r)
            BY <1>3, <2>1, <4>1, <4>2 DEF OrientInv, Exhausting
      <4>4. QED BY <1>16, <4>3, PassedOnStands
    <3>3. QED BY <3>1, <3>2
  <2>4. QED BY <1>3, <1>17, <2>1, <2>3 DEF Exhausting
<1>25. QED BY <1>19, <1>20, <1>23, <1>24 DEF OrientInv

LEMMA ConserveKeeps == OrientInv /\ Conserve => OrientInv'
<1> SUFFICES ASSUME OrientInv, Conserve
             PROVE  OrientInv'
    OBVIOUS
<1>1. PICK n \in unvisited : /\ SetDir(Owed(n), "conservation")
                             /\ newly' = newly \cup DOMAIN Owed(n)
                             /\ unvisited' = unvisited \ {n}
      BY DEF Conserve
<1> DEFINE fresh == {r \in DOMAIN Owed(n) : direction[r] = "none"}
<1>2. /\ stage = "conserve" /\ stage' = stage /\ page' = page /\ asked' = asked
      /\ frontier' = frontier
      BY DEF Conserve, seedVars
<1>3. fresh = DOMAIN Owed(n)
      BY OwedIsUndirected
<1>4. /\ direction' = [r \in Runs |-> IF r \in DOMAIN Owed(n) THEN Owed(n)[r] ELSE direction[r]]
      /\ source' = [r \in Runs |-> IF r \in DOMAIN Owed(n) THEN "conservation" ELSE source[r]]
      /\ conflict' = conflict
      BY <1>1, <1>3 DEF SetDir
<1>5. /\ asked \in [Runs -> SUBSET Dirs] /\ direction \in [Runs -> Dirs \cup {"none"}]
      /\ source \in [Runs -> Sources \cup {"none"}] /\ conflict \subseteq Runs
      /\ IsFiniteSet(Runs)
      /\ \A r \in frontier \cup newly : r \in Runs /\ direction[r] # "none"
      /\ unvisited \subseteq OfKind(JunctionOrValve)
      BY <1>2 DEF OrientInv, OrientTyped
<1>6. \A q \in DOMAIN Owed(n) : /\ q \in Runs /\ q \in Incident(n) /\ direction[q] = "none"
                                /\ Owed(n)[q] \in Dirs
      BY OwedIsUndirected
<1> HIDE DEF fresh
<1>7. \A q \in DOMAIN Owed(n) : /\ q \in Runs /\ direction'[q] = Owed(n)[q]
                                /\ direction'[q] \in Dirs /\ source'[q] = "conservation"
      BY <1>4, <1>6
<1>8. \A q \in Runs \ DOMAIN Owed(n) : direction'[q] = direction[q] /\ source'[q] = source[q]
      BY <1>4
<1>9. Grows
      BY <1>2, <1>6, <1>8 DEF Grows
<1>10. /\ Runs' = Runs /\ \A r : Ends(r)' = Ends(r)
       /\ \A ks : OfKind(ks)' = OfKind(ks)
       BY <1>2, PageStays
<1>11. OrientTyped'
  <2>1. direction' \in [Runs -> Dirs \cup {"none"}]
    <3>1. \A q \in Runs : direction'[q] \in Dirs \cup {"none"}
          BY <1>5, <1>7, <1>8
    <3>2. QED BY <1>4, <3>1
  <2>2. source' \in [Runs -> Sources \cup {"none"}]
        BY <1>4, <1>5 DEF Sources
  <2>3. \A r \in frontier' \cup newly' : r \in Runs /\ direction'[r] # "none"
        BY <1>1, <1>2, <1>5, <1>7, <1>9 DEF Grows, Dirs
  <2>4. unvisited' \subseteq OfKind(JunctionOrValve)'
        BY <1>1, <1>5, <1>10
  <2>5. QED BY <1>2, <1>4, <1>5, <1>10, <2>1, <2>2, <2>3, <2>4 DEF OrientTyped
<1>12. SeedsAreKept'
  <2>1. \A r \in Runs : source'[r] = "none" <=> direction'[r] = "none"
        BY <1>7, <1>8 DEF Dirs, OrientInv, SeedsAreKept
  <2>2. stage' \notin SeedStages
        BY <1>2 DEF SeedStages
  <2>3. QED BY <1>2, <1>4, <1>9, <2>1, <2>2, InferenceKeepsSeeds
<1>13. Reasoned'
  <2>1. ASSUME NEW q \in Runs
        PROVE  /\ source'[q] = "propagated" => IsCarriedOn(q)'
               /\ source'[q] = "conservation" /\ Cardinality(Ends(q)) = 2 => IsBalanced(q)'
    <3>1. CASE q \in DOMAIN Owed(n)
      <4>1. source'[q] = "conservation" /\ n \in Ends(q)'
            BY <1>6, <1>7, <1>10, <3>1 DEF Incident
      <4>2. ASSUME Cardinality(Ends(q)) = 2
            PROVE  BalancesFirmly(q, n)'
        <5>1. n \in OfKind(JunctionOrValve)
              BY <1>5
        <5>2. QED BY <1>5, <1>7, <1>9, <3>1, <4>2, <5>1, OwedBalances
      <4>3. QED BY <4>1, <4>2 DEF IsBalanced
    <3>2. CASE q \notin DOMAIN Owed(n) /\ direction[q] # "none"
          BY <1>8, <1>9, <3>2, OldReasons
    <3>3. CASE q \notin DOMAIN Owed(n) /\ direction[q] = "none"
          BY <1>8, <3>3 DEF OrientInv, SeedsAreKept
    <3>4. QED BY <3>1, <3>2, <3>3
  <2>2. QED BY <1>10, <2>1 DEF Reasoned
<1>14. Exhausting'
  <2>1. Pending = newly /\ Pending' = newly'
        BY <1>2 DEF Pending
  <2>2. ASSUME NEW r \in Runs \ newly', direction'[r] # "none"
        PROVE  PassedOn(r)'
    <3>1. r \notin newly /\ r \notin DOMAIN Owed(n)
          BY <1>1, <2>2
    <3>2. direction[r] # "none"
          BY <1>8, <2>2, <3>1
    <3>3. PassedOn(r)
          BY <1>2, <2>1, <3>1, <3>2 DEF OrientInv, Exhausting
    <3>4. QED BY <1>9, <3>3, PassedOnStands
  <2>3. ASSUME newly' = {}, NEW m \in OfKind(JunctionOrValve) \ unvisited'
        PROVE  DOMAIN Owed(m)' = {}
    <3>1. newly = {} /\ DOMAIN Owed(n) = {}
          BY <1>1, <2>3
    <3>2. direction' = direction
          BY <1>4, <1>5, <3>1
    <3>3. Owed(m)' = Owed(m)
          BY <1>2, <3>2, OwedStays
    <3>4. DOMAIN Owed(m) = {}
          BY <1>1, <1>2, <2>3, <3>1 DEF OrientInv, Exhausting
    <3>5. QED BY <3>3, <3>4
  <2>4. QED BY <1>2, <1>10, <2>1, <2>2, <2>3 DEF Exhausting
<1>15. QED BY <1>11, <1>12, <1>13, <1>14 DEF OrientInv

----------------------------------------------------------------------------
(* The page that is handed over has finitely many runs: they come off a      *)
(* sequence, whichever engine made it.                                       *)

LEMMA SequenceIsFinite ==
    ASSUME NEW s, IsSequence(s)
    PROVE  IsFiniteSet(DOMAIN s)
<1>1. DOMAIN s = 1..Len(s) /\ Len(s) \in Nat
      BY DEF IsSequence
<1>2. QED BY <1>1, FS_Interval

LEMMA SequenceGrows ==
    ASSUME NEW s, IsSequence(s), NEW x
    PROVE  IsSequence(Append(s, x))
<1>1. PICK S : s \in Seq(S)
      BY DEF IsSequence
<1>2. s \in Seq(S \cup {x})
      BY <1>1
<1>3. Append(s, x) \in Seq(S \cup {x})
      BY <1>2
<1>4. QED BY <1>3 DEF IsSequence

LEMMA SequenceIsChanged ==
    ASSUME NEW s, IsSequence(s), NEW k, NEW x
    PROVE  IsSequence([s EXCEPT ![k] = x])
<1>1. PICK S : s \in Seq(S)
      BY DEF IsSequence
<1>2. s \in [1..Len(s) -> S] /\ Len(s) \in Nat
      BY <1>1
<1>3. [s EXCEPT ![k] = x] \in [1..Len(s) -> S \cup {x}]
      BY <1>2
<1>4. [s EXCEPT ![k] = x] \in Seq(S \cup {x})
      BY <1>2, <1>3
<1>5. QED BY <1>4 DEF IsSequence

RunsAreSequences ==
    /\ IsSequence(runs)
    /\ DOMAIN papers = Pages
    /\ \A p \in Pages : "runs" \in DOMAIN papers[p] /\ IsSequence(papers[p].runs)

LEMMA AssemblyKeepsSequences ==
    ASSUME IsSequence(runs), AssemblyNext
    PROVE  IsSequence(runs')
<1>1. runs' = runs \/ \E x : runs' = Append(runs, x)
      BY DEF AssemblyNext, Bridge, Classify, Claim, Further, Emit, SetOutFromAnchor, EndChains,
             SetOutOnLoop, TurnBack, EndLoops, Connect, EndAssembly
<1>2. QED BY <1>1, SequenceGrows

\* What is done to one page keeps its runs a sequence, or adds one at the end.
LEMMA PageKeepsSequences ==
    ASSUME RunsAreSequences, NEW q \in Pages, NEW paper,
           papers' = [papers EXCEPT ![q] = paper],
           "runs" \in DOMAIN paper, IsSequence(paper.runs), runs' = runs
    PROVE  RunsAreSequences'
<1>1. DOMAIN papers' = Pages
      BY DEF RunsAreSequences
<1>2. ASSUME NEW p \in Pages
      PROVE  "runs" \in DOMAIN papers'[p] /\ IsSequence(papers'[p].runs)
      BY DEF RunsAreSequences
<1>3. QED BY <1>1, <1>2 DEF RunsAreSequences

LEMMA NozzleKeepsSequences ==
    ASSUME NEW paper, "runs" \in DOMAIN paper, IsSequence(paper.runs), NEW k
    PROVE  "runs" \in DOMAIN WithNozzle(paper, k) /\ IsSequence(WithNozzle(paper, k).runs)
<1>1. PICK x, y : WithNozzle(paper, k).runs = Append([paper.runs EXCEPT ![k] = x], y)
      BY DEF WithNozzle
<1>2. "runs" \in DOMAIN WithNozzle(paper, k)
      BY DEF WithNozzle
<1>3. QED BY <1>1, <1>2, SequenceIsChanged, SequenceGrows

LEMMA ConversionKeepsSequences ==
    ASSUME RunsAreSequences, runs' = runs,
           ConvertNext \/ \E p : MarkSafety(p)
    PROVE  RunsAreSequences'
<1>1. ASSUME papers' = papers
      PROVE  RunsAreSequences'
      BY <1>1 DEF RunsAreSequences
<1>2. CASE PassOver \/ Drop \/ EndNodes \/ Dangle \/ LeaveToStitching \/ EndEdges \/ EndNozzles
  <2>1. papers' = papers
        BY <1>2 DEF PassOver, Drop, EndNodes, Dangle, LeaveToStitching, EndEdges, EndNozzles
  <2>2. QED BY <1>1, <2>1
<1>3. CASE Place
  <2>1. Entity.page \in Pages
        BY <1>3 DEF Place
  <2>2. DOMAIN papers' = Pages
        BY <1>3 DEF Place, RunsAreSequences
  <2>3. ASSUME NEW p \in Pages
        PROVE  "runs" \in DOMAIN papers'[p] /\ papers'[p].runs = papers[p].runs
        BY <1>3, <2>1 DEF Place, RunsAreSequences
  <2>4. QED BY <2>2, <2>3 DEF RunsAreSequences
<1>4. CASE Lay
  <2>1. PICK q \in PagesOf(Connection) :
           LET gone   == {Connection.from, Connection.to} \ Kept
               end(i) == IF i \in Kept THEN NodeFor(papers[q], i) ELSE Drawn(papers[q])
           IN  papers' = [papers EXCEPT ![q].nodes = @ \o
                             [k \in 1..Cardinality(gone) |-> [kind |-> "dead-end", of |-> 0]],
                             ![q].runs = Append(@,
                             [a |-> end(Connection.from), b |-> end(Connection.to),
                              style |-> IF Connection.process THEN "solid" ELSE "dashed",
                              of |-> turn])]
        BY <1>4 DEF Lay
  <2>2. \E ns, r : papers' = [papers EXCEPT ![q].nodes = ns, ![q].runs = Append(@, r)]
        BY Zenon, <2>1
  <2> PICK ns, r : papers' = [papers EXCEPT ![q].nodes = ns, ![q].runs = Append(@, r)]
        BY <2>2
  <2>3. q \in Pages
        BY DEF PagesOf, Kept
  <2>4. DOMAIN papers' = Pages
        BY <2>2 DEF RunsAreSequences
  <2>5. /\ "runs" \in DOMAIN papers'[q] /\ papers'[q].runs = Append(papers[q].runs, r)
        /\ \A p \in Pages \ {q} : papers'[p] = papers[p]
        BY <2>2, <2>3 DEF RunsAreSequences
  <2>6. IsSequence(papers'[q].runs)
        BY <2>3, <2>5, SequenceGrows DEF RunsAreSequences
  <2>7. QED BY <2>3, <2>4, <2>5, <2>6 DEF RunsAreSequences
<1>5. CASE AddNozzle
  <2>1. PICK q \in Pages : papers' = [papers EXCEPT ![q] = WithNozzle(papers[q], Min(Bare(papers[q])))]
        BY <1>5 DEF AddNozzle
  <2>2. QED BY <2>1, NozzleKeepsSequences, PageKeepsSequences DEF RunsAreSequences
<1>6. CASE \E p \in Pages : MarkSafety(p)
  <2>1. PICK q \in Pages : papers' = [papers EXCEPT ![q].marked = papers[q].safety]
        BY <1>6 DEF MarkSafety
  <2> DEFINE paper == [papers[q] EXCEPT !.marked = papers[q].safety]
  <2>2. "runs" \in DOMAIN paper /\ paper.runs = papers[q].runs
        BY DEF RunsAreSequences
  <2>3. papers' = [papers EXCEPT ![q] = paper]
        BY <2>1
  <2>4. QED BY <2>2, <2>3, PageKeepsSequences DEF RunsAreSequences
<1>7. CASE \E p : p \notin Pages /\ MarkSafety(p)
  <2>1. PICK q : q \notin Pages /\ papers' = [papers EXCEPT ![q].marked = papers[q].safety]
        BY <1>7 DEF MarkSafety
  <2>2. DOMAIN papers' = Pages /\ \A p \in Pages : papers'[p] = papers[p]
        BY <2>1 DEF RunsAreSequences
  <2>3. QED BY <2>2 DEF RunsAreSequences
<1>8. QED BY <1>2, <1>3, <1>4, <1>5, <1>6, <1>7 DEF ConvertNext

----------------------------------------------------------------------------
(* The sheet.                                                                *)

SheetInv == RunsAreSequences /\ OrientInv

LEMMA SheetStarts == Init => SheetInv
<1> SUFFICES ASSUME Init
             PROVE  SheetInv
    OBVIOUS
<1>1. IsSequence(<<>>)
  <2>1. <<>> \in Seq({})
        OBVIOUS
  <2>2. QED BY <2>1 DEF IsSequence
<1>2. RunsAreSequences
      BY <1>1 DEF Init, AssemblyInit, DiagexInit, RunsAreSequences
<1>3. QED BY <1>2, OrientStarts DEF Init, SheetInv

LEMMA EndsAreFinite ==
    ASSUME NEW rs, IsSequence(rs)
    PROVE  IsFiniteSet(DOMAIN EndsOf(rs))
<1>1. IsFiniteSet(Solid(rs))
      BY SequenceIsFinite, FS_Subset DEF Solid
<1>2. QED BY <1>1 DEF EndsOf

LEMMA StepKeeps == OrientInv /\ Step => OrientInv'
BY NextStageKeeps, StartPropagationKeeps, PropagateKeeps, StartPassKeeps, ConserveKeeps,
   EndPassKeeps DEF Step

LEMMA SeedStepKeeps == OrientInv /\ SeedStep => OrientInv'
<1> SUFFICES ASSUME OrientInv, SeedStep
             PROVE  OrientInv'
    OBVIOUS
<1>1. CASE SeedArrow
  <2>1. PICK r \in Runs, d \in Dirs : Seed("arrow", [q \in {r} |-> d])
        BY <1>1 DEF SeedArrow
  <2>2. QED BY <2>1, SeedKeeps DEF SeedStages
<1>2. CASE SeedCheckValve
  <2>1. PICK n, S : S \subseteq Incident(n) /\ \E ask \in [S -> Dirs] : Seed("check-valve", ask)
        BY <1>2 DEF SeedCheckValve, SeedAt
  <2>2. PICK ask \in [S -> Dirs] : Seed("check-valve", ask)
        BY <2>1
  <2>3. S \subseteq Runs
        BY <2>1 DEF Incident
  <2>4. QED BY <2>2, <2>3, SeedKeeps DEF SeedStages
<1>3. CASE SeedConnector
  <2>1. PICK n, to :
           Seed("connector", [r \in Incident(n) |-> IF to THEN Toward(r, n) ELSE Away(r, n)])
        BY <1>3 DEF SeedConnector, SeedAt
  <2>2. \A r \in Incident(n) : (IF to THEN Toward(r, n) ELSE Away(r, n)) \in Dirs
        BY TowardAndAway
  <2>3. Incident(n) \subseteq Runs
        BY DEF Incident
  <2>4. QED BY <2>1, <2>2, <2>3, SeedKeeps DEF SeedStages
<1>4. CASE SeedPsv
  <2>1. PICK n, S : S \subseteq Incident(n) /\ \E ask \in [S -> Dirs] : Seed("psv", ask)
        BY <1>4 DEF SeedPsv, SeedAt
  <2>2. PICK ask \in [S -> Dirs] : Seed("psv", ask)
        BY <2>1
  <2>3. S \subseteq Runs
        BY <2>1 DEF Incident
  <2>4. QED BY <2>2, <2>3, SeedKeeps DEF SeedStages
<1>5. QED BY <1>1, <1>2, <1>3, <1>4 DEF SeedStep

LEMMA ReadSeedKeeps == OrientInv /\ ReadSeed => OrientInv'
<1> SUFFICES ASSUME OrientInv, ReadSeed
             PROVE  OrientInv'
    OBVIOUS
<1>1. PICK n \in Unread : \E ask \in IF stage = "connector" THEN {Heads(n)}
                                      ELSE [Incident(n) -> Dirs] : Seed(stage, ask)
      BY DEF ReadSeed, SeedAt
<1>2. stage \in SeedStages
  <2>1. stage = "connector" \/ stage = "psv"
        BY DEF Unread
  <2>2. QED BY <2>1 DEF SeedStages
<1>3. Heads(n) \in [Incident(n) -> Dirs]
      BY TowardAndAway DEF Heads
<1>4. PICK ask \in [Incident(n) -> Dirs] : Seed(stage, ask)
      BY <1>1, <1>3
<1>5. Incident(n) \subseteq Runs
      BY DEF Incident
<1>6. DOMAIN ask \subseteq Runs /\ \A r \in DOMAIN ask : ask[r] \in Dirs
      BY <1>4, <1>5
<1>7. QED BY <1>2, <1>4, <1>6, SeedKeeps

LEMMA OrientUnchanged == OrientInv /\ UNCHANGED orientVars => OrientInv'
<1> SUFFICES ASSUME OrientInv, UNCHANGED orientVars
             PROVE  OrientInv'
    OBVIOUS
<1>1. /\ UNCHANGED <<page, seedVars, direction, source, conflict>>
      /\ page' = page /\ stage' = stage /\ frontier' = frontier /\ unvisited' = unvisited
      /\ newly' = newly /\ direction' = direction
      BY DEF orientVars
<1>2. \A ks : OfKind(ks)' = OfKind(ks)
      BY <1>1, PageStays
<1>3. OrientTyped'
      BY <1>1, <1>2, QuietStep DEF OrientInv, OrientTyped
<1>4. Exhausting'
  <2>1. Pending' = Pending
        BY <1>1 DEF Pending
  <2>2. \A r \in Runs : PassedOn(r) => PassedOn(r)'
        BY <1>1, QuietStep, PassedOnStands
  <2>3. \A n : Owed(n)' = Owed(n)
        BY <1>1, OwedStays
  <2>4. Runs' = Runs
        BY <1>1, PageStays
  <2>5. QED BY <1>1, <1>2, <2>1, <2>2, <2>3, <2>4 DEF OrientInv, Exhausting
<1>5. QED BY <1>1, <1>3, <1>4, QuietStep DEF OrientInv

LEMMA GeometricKeeps == SheetInv /\ Geometric => SheetInv'
<1> SUFFICES ASSUME SheetInv, Geometric
             PROVE  SheetInv'
    OBVIOUS
<1>1. papers' = papers
      BY DEF Geometric, diagexVars
<1>2. CASE AssemblyNext /\ UNCHANGED <<orientVars, oriented>>
  <2>1. RunsAreSequences'
        BY <1>1, <1>2, AssemblyKeepsSequences DEF SheetInv, RunsAreSequences
  <2>2. OrientInv'
        BY <1>2, OrientUnchanged DEF SheetInv
  <2>3. QED BY <2>1, <2>2 DEF SheetInv
<1>3. ASSUME UNCHANGED assemblyVars
      PROVE  RunsAreSequences'
      BY <1>1, <1>3 DEF SheetInv, RunsAreSequences, assemblyVars
<1>4. CASE HandOver /\ UNCHANGED assemblyVars
  <2>1. Orient(Assembled) /\ Assembled.ends = EndsOf(runs)
        BY <1>4 DEF HandOver, Assembled
  <2>2. OrientInv'
        BY <2>1, EndsAreFinite, OrientKeeps DEF SheetInv, RunsAreSequences
  <2>3. QED BY <1>3, <1>4, <2>2 DEF SheetInv
<1>5. CASE Step /\ UNCHANGED <<assemblyVars, oriented>>
      BY <1>3, <1>5, StepKeeps DEF SheetInv
<1>6. QED BY <1>2, <1>4, <1>5 DEF Geometric

LEMMA VisionKeeps == SheetInv /\ Vision => SheetInv'
<1> SUFFICES ASSUME SheetInv, Vision
             PROVE  SheetInv'
    OBVIOUS
<1>1. runs' = runs
      BY DEF Vision, assemblyVars
<1>2. CASE ConvertNext /\ UNCHANGED <<orientVars, oriented>>
  <2>1. RunsAreSequences'
        BY <1>1, <1>2, ConversionKeepsSequences DEF SheetInv
  <2>2. OrientInv'
        BY <1>2, OrientUnchanged DEF SheetInv
  <2>3. QED BY <2>1, <2>2 DEF SheetInv
<1>3. ASSUME UNCHANGED diagexVars
      PROVE  RunsAreSequences'
      BY <1>1, <1>3 DEF SheetInv, RunsAreSequences, diagexVars
<1>4. CASE (\E p \in Pages : HandOverPage(p)) /\ UNCHANGED diagexVars
  <2>0. PICK p \in Pages : HandOverPage(p)
        BY <1>4
  <2>1. PICK short \in SUBSET Solid(papers[p].runs) : Orient(Converted(papers[p], short))
        BY <2>0 DEF HandOverPage
  <2>2. Converted(papers[p], short).ends = EndsOf(papers[p].runs)
        BY DEF Converted
  <2>3. OrientInv'
        BY <2>1, <2>2, EndsAreFinite, OrientKeeps DEF SheetInv, RunsAreSequences
  <2>4. QED BY <1>3, <1>4, <2>3 DEF SheetInv
<1>5. CASE ReadSeed /\ UNCHANGED <<diagexVars, oriented>>
      BY <1>3, <1>5, ReadSeedKeeps DEF SheetInv
<1>6. CASE Step /\ UNCHANGED <<diagexVars, oriented>>
      BY <1>3, <1>6, StepKeeps DEF SheetInv
<1>7. CASE MarkSafety(oriented) /\ UNCHANGED <<orientVars, oriented>>
  <2>1. OrientInv'
        BY <1>7, OrientUnchanged DEF SheetInv
  <2>2. RunsAreSequences'
        BY <1>1, <1>7, ConversionKeepsSequences DEF SheetInv
  <2>3. QED BY <2>1, <2>2 DEF SheetInv
<1>8. QED BY <1>2, <1>4, <1>5, <1>6, <1>7 DEF Vision

LEMMA SheetKeeps == SheetInv /\ [Next]_sheetVars => SheetInv'
<1> SUFFICES ASSUME SheetInv, [Next]_sheetVars
             PROVE  SheetInv'
    OBVIOUS
<1>1. ASSUME UNCHANGED <<assemblyVars, diagexVars>>
      PROVE  RunsAreSequences'
      BY <1>1 DEF SheetInv, RunsAreSequences, assemblyVars, diagexVars
<1>2. CASE Work
      BY <1>2, GeometricKeeps, VisionKeeps DEF Work
<1>3. CASE Seeding
      BY <1>1, <1>3, SeedStepKeeps DEF Seeding, SheetInv
<1>4. CASE UNCHANGED sheetVars
      BY <1>1, <1>4, OrientUnchanged DEF sheetVars, SheetInv
<1>5. QED BY <1>2, <1>3, <1>4 DEF Next

\* Whatever the drawing and its seeds: every direction that is assigned follows
\* from the seeds or the balances (orient_runs and its propagation, assemble_graph.py),
\* a seed is never turned, and when the propagation stops nothing is left that it
\* could infer.
THEOREM OrientationJustified == Spec => []OrientationIsJustified
<1>1. SheetInv => OrientationIsJustified
      BY OrientInvImplies DEF SheetInv
<1>2. QED BY <1>1, SheetStarts, SheetKeeps, PTL DEF Spec

----------------------------------------------------------------------------
(* What a reading says of flow is what is kept.                              *)

Followed(n) == \A r \in Incident(n) : direction[r] = Heads(n)[r] \/ r \in conflict

\* The turn of n has come among the connectors.
Heard(n) == /\ stage \notin {"arrow", "check-valve"}
            /\ stage = "connector" => n \notin unvisited

ReadSources == {"none", "connector", "propagated", "conservation"}

\* On a page that was read, directions come off clear connectors only. A connector
\* whose turn has come has been heard, and no valve is marked before the end.
HeadingInv ==
    engine = "diagex" =>
        /\ converting = "emitted" => stage = "done"
        /\ stage # "waiting" =>
              /\ oriented \in Pages /\ converting \in {"converted", "emitted"}
              /\ Nodes = DOMAIN Paper.nodes
              /\ \A r \in Runs : source[r] \in ReadSources
              /\ \A n \in Paper.connectors : Clear(n) /\ Heard(n) => Followed(n)
              /\ converting = "emitted" => Paper.marked = Paper.safety

\* What was heard stands while directions are only added.
LEMMA FollowedStands ==
    ASSUME Grows, conflict \subseteq conflict', reading' = reading, oriented' = oriented,
           papers'[oriented].nodes = papers[oriented].nodes, NEW n, Followed(n)
    PROVE  Followed(n)'
<1>1. page' = page
      BY DEF Grows
<1>2. Incident(n)' = Incident(n)
      BY <1>1, PageStays
<1>3. AsRead(n)' = AsRead(n)
      BY DEF AsRead, Paper
<1>4. \A r : Toward(r, n)' = Toward(r, n) /\ Away(r, n)' = Away(r, n)
      BY <1>1 DEF Toward, Away
<1>5. Heads(n)' = Heads(n)
      BY <1>2, <1>3, <1>4 DEF Heads
<1>6. ASSUME NEW r \in Incident(n)
      PROVE  direction'[r] = Heads(n)[r] \/ r \in conflict'
  <2>1. direction[r] = Heads(n)[r] \/ r \in conflict
        BY DEF Followed
  <2>2. Heads(n)[r] \in Dirs
        BY TowardAndAway DEF Heads
  <2>3. r \in Runs
        BY DEF Incident
  <2>4. QED BY <2>1, <2>2, <2>3 DEF Grows, Dirs
<1>7. QED BY <1>2, <1>5, <1>6 DEF Followed

\* The two inferences add directions, and say that they are theirs.
LEMMA StepsGrow ==
    ASSUME Step
    PROVE  /\ Grows /\ conflict \subseteq conflict' /\ stage # "waiting" /\ stage' # "waiting"
           /\ \A r \in Runs : source'[r] \in {source[r], "propagated", "conservation"}
<1>1. CASE NextStage \/ StartPropagation \/ StartPass \/ EndPass
  <2>1. /\ page' = page /\ direction' = direction /\ source' = source /\ conflict' = conflict
        BY <1>1 DEF NextStage, StartPropagation, StartPass, EndPass
  <2>2. stage # "waiting" /\ stage' # "waiting"
        BY <1>1, StagesAreSeedStages
           DEF NextStage, StartPropagation, StartPass, EndPass, SeedStages
  <2>3. QED BY <2>1, <2>2 DEF Grows
<1>2. CASE Propagate
  <2>1. /\ page' = page /\ conflict' = conflict /\ stage = "propagate" /\ stage' = stage
        BY <1>2 DEF Propagate
  <2>2. PICK r0, down, up :
           /\ r0 \in frontier
           /\ down = Downstream(direction[r0], r0) /\ up = Upstream(direction[r0], r0)
           /\ LET after  == Continues(direction, r0, down)
                  dir1   == [q \in Runs |-> IF q \in after THEN Away(q, down) ELSE direction[q]]
                  before == Continues(dir1, r0, up)
              IN  /\ direction' = [q \in Runs |-> IF q \in before THEN Toward(q, up) ELSE dir1[q]]
                  /\ source' = [q \in Runs |-> IF q \in after \cup before
                                               THEN "propagated" ELSE source[q]]
        BY <1>2 DEF Propagate
  <2> DEFINE after  == Continues(direction, r0, down)
             dir1   == [q \in Runs |-> IF q \in after THEN Away(q, down) ELSE direction[q]]
             before == Continues(dir1, r0, up)
  <2>3. /\ \A q \in after : direction[q] = "none"
        /\ \A q \in before : dir1[q] = "none"
        BY DEF Continues
  <2>4. \A q \in Runs : direction[q] # "none" => direction'[q] = direction[q]
        BY <2>2, <2>3
  <2>5. \A q \in Runs : source'[q] \in {source[q], "propagated"}
        BY <2>2
  <2>6. QED BY <2>1, <2>4, <2>5 DEF Grows
<1>3. CASE Conserve
  <2>1. /\ page' = page /\ stage = "conserve" /\ stage' = stage
        /\ \E n : SetDir(Owed(n), "conservation")
        BY <1>3 DEF Conserve
  <2>2. QED BY <2>1 DEF SetDir, Grows
<1>4. QED BY <1>1, <1>2, <1>3 DEF Step

\* A seed is the direction of a run, or it is flagged.
LEMMA SeedsAreHeard ==
    ASSUME NEW n, NEW by, SeedAt(n, by, Heads(n))
    PROVE  /\ Grows /\ conflict \subseteq conflict' /\ stage' = stage /\ stage = by
           /\ unvisited' = unvisited \ {n}
           /\ \A r \in Runs : source'[r] \in {source[r], by}
           /\ \A r \in Incident(n) : direction'[r] = Heads(n)[r] \/ r \in conflict'
<1>1. PICK ask : ask = Heads(n) /\ DOMAIN ask = Incident(n)
      BY DEF Heads
<1>2. /\ page' = page /\ stage = by /\ stage' = stage /\ unvisited' = unvisited \ {n}
      /\ SetDir(ask, by)
      BY <1>1 DEF SeedAt, Seed
<1>3. DOMAIN ask \subseteq Runs
      BY <1>1 DEF Incident
<1>4. \A r \in DOMAIN ask : direction'[r] = ask[r] \/ r \in conflict'
      BY <1>2, <1>3 DEF SetDir
<1>5. Grows /\ conflict \subseteq conflict' /\ \A r \in Runs : source'[r] \in {source[r], by}
      BY <1>2 DEF SetDir, Grows
<1>6. QED BY <1>1, <1>2, <1>4, <1>5

LEMMA HeadingsStart == Init => HeadingInv
BY DEF Init, DiagexInit, OrientInit, HeadingInv

\* A page is handed over with nothing heard.
LEMMA HandOverHeads ==
    ASSUME HeadingInv, NEW p \in Pages, HandOverPage(p), UNCHANGED diagexVars
    PROVE  HeadingInv'
<1>0. PICK short \in SUBSET Solid(papers[p].runs) :
         Orient(Converted(papers[p], short)) /\ oriented' = p /\ converting = "converted"
      BY DEF HandOverPage
<1>1. /\ oriented' = p /\ stage' = "arrow" /\ page' = Converted(papers[p], short)
      /\ converting = "converted"
      /\ source' = [r \in DOMAIN Converted(papers[p], short).ends |-> "none"]
      BY <1>0 DEF Orient
<1>2. papers' = papers /\ converting' = converting
      BY DEF diagexVars
<1>3. Paper' = papers[p]
      BY <1>1, <1>2 DEF Paper
<1>4. Nodes' = DOMAIN papers[p].nodes
      BY <1>1 DEF Nodes, Converted
<1>5. \A r \in Runs' : source'[r] = "none"
      BY <1>1 DEF Runs
<1>6. QED BY <1>1, <1>2, <1>3, <1>4, <1>5 DEF HeadingInv, Heard, ReadSources

\* A connector has its turn.
LEMMA ReadSeedHeads ==
    ASSUME HeadingInv, GraphInv, engine = "diagex", engine' = engine, ReadSeed, UNCHANGED <<diagexVars, oriented>>
    PROVE  HeadingInv'
<1>1. /\ reading' = reading /\ converting' = converting /\ papers' = papers /\ oriented' = oriented
      BY DEF diagexVars
<1>2. PICK n \in Unread : \E ask \in IF stage = "connector" THEN {Heads(n)}
                                     ELSE [Incident(n) -> Dirs] : SeedAt(n, stage, ask)
      BY DEF ReadSeed
<1>3. stage = "connector" \/ (stage = "psv" /\ n \in Paper.marked)
      BY <1>2 DEF Unread
<1>4. stage = "connector"
  <2>1. SUFFICES ASSUME stage = "psv", n \in Paper.marked PROVE FALSE
        BY <1>3
  <2>2. oriented \in Pages /\ converting # "emitted"
        BY <2>1 DEF HeadingInv
  <2>3. Paper.marked = {}
        BY <2>2 DEF GraphInv, MarksAre, Paper
  <2>4. QED BY <2>1, <2>3
<1>5. SeedAt(n, stage, Heads(n))
      BY <1>2, <1>4
<1>6. /\ Grows /\ conflict \subseteq conflict' /\ stage' = stage
      /\ unvisited' = unvisited \ {n}
      /\ \A r \in Runs : source'[r] \in {source[r], stage}
      /\ \A r \in Incident(n) : direction'[r] = Heads(n)[r] \/ r \in conflict'
      BY <1>5, SeedsAreHeard
<1>7. page' = page
      BY <1>6 DEF Grows
<1>8. Runs' = Runs /\ Nodes' = Nodes /\ Incident(n)' = Incident(n)
      BY <1>7, PageStays
<1>9. Paper' = Paper
      BY <1>1 DEF Paper
<1>10. \A m : AsRead(m)' = AsRead(m)
      BY <1>1, <1>9 DEF AsRead
<1>11. \A m : Clear(m)' <=> Clear(m)
      BY <1>10 DEF Clear
<1>12. Followed(n)'
  <2>1. \A r : Toward(r, n)' = Toward(r, n) /\ Away(r, n)' = Away(r, n)
        BY <1>7 DEF Toward, Away
  <2>2. Heads(n)' = Heads(n)
        BY <1>8, <1>10, <2>1 DEF Heads
  <2>3. QED BY <1>6, <1>8, <2>2 DEF Followed
<1>13. \A m : Followed(m) => Followed(m)'
      BY <1>1, <1>6, FollowedStands
<1>14. ASSUME NEW m \in Paper.connectors, Clear(m), Heard(m)'
       PROVE  Followed(m)'
  <2>1. CASE m = n
        BY <1>12, <2>1
  <2>2. CASE m # n
    <3>1. m \notin unvisited
          BY <1>4, <1>6, <1>14, <2>2 DEF Heard
    <3>2. Followed(m)
          BY <1>4, <1>14, <3>1 DEF HeadingInv, Heard
    <3>3. QED BY <1>13, <3>2
  <2>3. QED BY <2>1, <2>2
<1>15. \A r \in Runs : source'[r] \in ReadSources
      BY <1>4, <1>6 DEF HeadingInv, ReadSources
<1>16. QED BY <1>1, <1>4, <1>6, <1>8, <1>9, <1>11, <1>14, <1>15 DEF HeadingInv

\* Only when no connector is left to hear does the orientation go on.
LEMMA StepHeads ==
    ASSUME HeadingInv, GraphInv, engine = "diagex", engine' = engine, Unread = {}, Step,
           UNCHANGED <<diagexVars, oriented>>
    PROVE  HeadingInv'
<1>1. /\ reading' = reading /\ converting' = converting /\ papers' = papers /\ oriented' = oriented
      BY DEF diagexVars
<1>2. /\ Grows /\ conflict \subseteq conflict' /\ stage # "waiting" /\ stage' # "waiting"
      /\ \A r \in Runs : source'[r] \in {source[r], "propagated", "conservation"}
      BY StepsGrow
<1>3. page' = page
      BY <1>2 DEF Grows
<1>4. Runs' = Runs /\ Nodes' = Nodes
      BY <1>3, PageStays
<1>5. Paper' = Paper
      BY <1>1 DEF Paper
<1>6. \A m : AsRead(m)' = AsRead(m)
      BY <1>1, <1>5 DEF AsRead
<1>7. \A m : Clear(m)' <=> Clear(m)
      BY <1>6 DEF Clear
<1>8. \A m : Followed(m) => Followed(m)'
      BY <1>1, <1>2, FollowedStands
<1>9. \A r \in Runs : source'[r] \in ReadSources
      BY <1>2 DEF HeadingInv, ReadSources
<1>10. oriented \in Pages /\ Paper.connectors \subseteq Nodes
  <2>1. oriented \in Pages /\ Nodes = DOMAIN Paper.nodes
        BY <1>2 DEF HeadingInv
  <2>2. QED BY <2>1 DEF GraphInv, MarksAre, Paper
<1>11. converting = "emitted" => stage' = "done"
  <2>1. stage # "done"
        BY DEF Step, NextStage, StartPropagation, Propagate, StartPass, Conserve, EndPass, Stages
  <2>2. QED BY <2>1 DEF HeadingInv
<1>12. ASSUME NEW m \in Paper.connectors, Clear(m), Heard(m)'
       PROVE  Followed(m)'
  <2>1. CASE stage' = "connector"
    <3>1. NextStage
          BY <2>1 DEF Step, StartPropagation, Propagate, StartPass, Conserve, EndPass
    <3>2. m \in unvisited'
          BY <1>10, <1>12, <3>1 DEF NextStage
    <3>3. QED BY <1>12, <2>1, <3>2 DEF Heard
  <2>2. CASE stage' # "connector"
    <3>1. stage \notin {"arrow", "check-valve"}
          BY <1>12, <2>2 DEF Heard, Step, NextStage, StartPropagation, Propagate, StartPass, Conserve,
             EndPass, Stages
    <3>2. stage = "connector" => m \notin unvisited
          BY <1>12 DEF Unread
    <3>3. Followed(m)
          BY <1>2, <1>12, <3>1, <3>2 DEF HeadingInv, Heard
    <3>4. QED BY <1>8, <3>3
  <2>3. QED BY <2>1, <2>2
<1>13. QED BY <1>1, <1>2, <1>4, <1>5, <1>7, <1>9, <1>11, <1>12 DEF HeadingInv

\* The page is emitted.
LEMMA MarkSafetyHeads ==
    ASSUME HeadingInv, GraphInv, engine = "diagex", engine' = engine,
           stage = "done", MarkSafety(oriented), UNCHANGED <<orientVars, oriented>>
    PROVE  HeadingInv'
<1>1. /\ reading' = reading /\ converting' = "emitted" /\ oriented' = oriented
      /\ page' = page /\ stage' = stage /\ direction' = direction /\ source' = source
      /\ conflict' = conflict /\ unvisited' = unvisited
      BY DEF MarkSafety, orientVars
<1>2. oriented \in Pages
      BY DEF HeadingInv
<1>3. /\ papers'[oriented].nodes = papers[oriented].nodes
      /\ papers'[oriented].connectors = papers[oriented].connectors
      /\ papers'[oriented].safety = papers[oriented].safety
      /\ papers'[oriented].marked = papers[oriented].safety
      BY <1>2, MarkSafetyMakes
<1>4. Grows /\ conflict \subseteq conflict'
      BY <1>1 DEF Grows
<1>5. Runs' = Runs /\ Nodes' = Nodes
      BY <1>1, PageStays
<1>6. /\ Paper'.nodes = Paper.nodes /\ Paper'.connectors = Paper.connectors
      /\ Paper'.marked = Paper'.safety
      BY <1>1, <1>3 DEF Paper
<1>7. \A m : AsRead(m)' = AsRead(m)
      BY <1>1, <1>6 DEF AsRead
<1>8. \A m : Clear(m)' <=> Clear(m)
      BY <1>7 DEF Clear
<1>9. \A m : Followed(m) => Followed(m)'
      BY <1>1, <1>3, <1>4, FollowedStands
<1>10. QED BY <1>1, <1>2, <1>5, <1>6, <1>8, <1>9 DEF HeadingInv, Heard

\* The safety valves of a reading are those of its pages (MarksAre).
LEMMA HeadingsFollowed ==
    ASSUME HeadingInv, GraphInv
    PROVE  HeadingsAreFollowed
<1>1. SUFFICES ASSUME engine = "diagex", stage \notin {"waiting", "arrow", "check-valve", "connector"}
               PROVE  HeadingsAreFollowed
      BY DEF HeadingsAreFollowed
<1>2. /\ oriented \in Pages
      /\ \A r \in Runs : source[r] \in ReadSources
      /\ \A n \in Paper.connectors : Clear(n) => Followed(n)
      /\ converting = "emitted" => Paper.marked = Paper.safety
      BY <1>1 DEF HeadingInv, Heard
<1>3. converting = "emitted" => \A n \in DOMAIN Paper.nodes :
              Paper.nodes[n].of # 0 /\ AsRead(n).kind = "safety-valve" => n \in Paper.marked
      BY <1>2 DEF GraphInv, MarksAre, Paper, AsRead
<1>4. QED BY <1>1, <1>2, <1>3 DEF HeadingsAreFollowed, Followed, ReadSources

----------------------------------------------------------------------------
(* The drawing.                                                              *)

DrawingInv == AssemblyInv /\ GraphInv /\ HeadingInv

LEMMA DrawingStarts == Init => DrawingInv
BY AssemblyStarts, GraphStarts, HeadingsStart DEF Init, DrawingInv

\* Strokes, and a reading, that no step touches.
LEMMA AssemblyUnchanged ==
    ASSUME AssemblyInv, UNCHANGED assemblyVars
    PROVE  AssemblyInv'
<1>1. /\ sheet' = sheet /\ building' = building /\ kind' = kind /\ edges' = edges
      /\ visited' = visited /\ walk' = walk /\ runs' = runs
      BY DEF assemblyVars
<1>2. BuildInv'
  <2>1. StrokesAre' /\ BridgedOnce'
        BY <1>1 DEF AssemblyInv, BuildInv, StrokesAre, BridgedOnce, At, IsBridge, IsPoint
  <2>2. BridgedSoFar'
        BY <1>1 DEF AssemblyInv, BuildInv, BridgedSoFar, Bridging, At, IsBridge, IsPoint
  <2>3. ClaimedSince'
        BY <1>1 DEF AssemblyInv, BuildInv, ClaimedSince, Bridging, Inside, Owned, IsBridge, EdgeEnds
  <2>4. QED BY <2>1, <2>2, <2>3 DEF BuildInv
<1>3. Collapsible' = Collapsible
      BY <1>1 DEF Collapsible, At, Styles
<1>4. RunInv'
  <2>1. SUFFICES ASSUME ~Bridging PROVE (WalkIs /\ PassesAre /\ RunsAre /\ CornersArePassed)'
        BY <1>1 DEF RunInv, Bridging
  <2>2. WalkIs /\ PassesAre /\ RunsAre /\ CornersArePassed
        BY <2>1 DEF AssemblyInv, RunInv
  <2>3. /\ \A a, c, b : Led(a, c, b)' <=> Led(a, c, b)
        /\ \A c, t : OneStyle(c, t)' <=> OneStyle(c, t)
        /\ \A r : Finished(r)' <=> Finished(r)
        /\ \A i : EdgeEnds(i)' = EdgeEnds(i) /\ Anchors(i)' = Anchors(i)
        /\ \A n : At(n)' = At(n)
        BY <1>1, <1>3, LedStays
  <2>4. Done' = Done /\ Left' = Left
        BY <1>1 DEF Done, Left
  <2>5. WalkIs'
        BY <1>1, <1>3, <2>2, <2>3 DEF WalkIs
  <2>6. PassesAre'
        BY <1>1, <2>2, <2>3, <2>4 DEF PassesAre
  <2>7. RunsAre'
        BY <1>1, <2>2, <2>3, <2>4 DEF RunsAre
  <2>8. CornersArePassed'
        BY <1>3, <2>2, <2>3, <2>4 DEF CornersArePassed
  <2>9. QED BY <2>5, <2>6, <2>7, <2>8
<1>5. QED BY <1>2, <1>4 DEF AssemblyInv

LEMMA GraphUnchanged ==
    ASSUME GraphInv, UNCHANGED diagexVars
    PROVE  GraphInv'
<1>1. /\ reading' = reading /\ converting' = converting /\ turn' = turn /\ papers' = papers
      /\ report' = report
      BY DEF diagexVars
<1>2. /\ Kept' = Kept /\ (\A e : PagesOf(e)' = PagesOf(e)) /\ (\A e : Crosses(e)' <=> Crosses(e))
      /\ (\A e : Joins(e)' <=> Joins(e)) /\ (\A i : AsNode(i)' = AsNode(i))
      BY <1>1, ReadingStays
<1>3. PastEntities' = PastEntities /\ PastEdges' = PastEdges
      BY <1>1 DEF PastEntities, PastEdges
<1>4. LooseEnds' = LooseEnds
      BY <1>1 DEF LooseEnds
<1>5. InOrder' /\ PapersAre' /\ MarksAre'
      BY <1>1 DEF GraphInv, InOrder, PapersAre, MarksAre
<1>6. EntitiesAre'
      BY <1>1, <1>2, <1>3 DEF GraphInv, EntitiesAre
<1>7. CountsAre'
      BY <1>1, <1>2, <1>3, <1>4 DEF GraphInv, CountsAre
<1>8. ConnectionsAre'
  <2>1. ConnectionsAre
        BY DEF GraphInv
  <2>2. \A k : Joins(reading.edges[k])' <=> Joins(reading.edges[k])
        BY <1>1, <1>2
  <2>3. \A k \in PastEdges' : Joins(reading.edges[k])' =>
          \E p \in Pages : \E l \in DOMAIN papers'[p].runs : papers'[p].runs[l].of = k
        BY <1>1, <1>3, <2>1, <2>2 DEF ConnectionsAre
  <2>4. ASSUME NEW p \in Pages, NEW l \in DOMAIN papers[p].runs, papers[p].runs[l].of # 0
        PROVE  /\ papers[p].runs[l].of \in PastEdges'
               /\ Joins(reading.edges[papers[p].runs[l].of])'
               /\ Stands(papers[p], papers[p].runs[l].a, AsNode(reading.edges[papers[p].runs[l].of].from)')
               /\ Stands(papers[p], papers[p].runs[l].b, AsNode(reading.edges[papers[p].runs[l].of].to)')
               /\ \A q \in Pages : \A m \in DOMAIN papers[q].runs :
                     papers[q].runs[m].of = papers[p].runs[l].of => q = p /\ m = l
        BY <1>1, <1>2, <1>3, <2>1, <2>4 DEF ConnectionsAre
  <2>5. QED BY <1>1, <2>3, <2>4 DEF ConnectionsAre
<1>9. QED BY <1>5, <1>6, <1>7, <1>8 DEF GraphInv

LEMMA DrawingKeeps == DrawingInv /\ [Next]_sheetVars => DrawingInv'
<1> SUFFICES ASSUME DrawingInv, [Next]_sheetVars
             PROVE  DrawingInv'
    OBVIOUS
<1>1. AssemblyInv /\ GraphInv /\ HeadingInv
      BY DEF DrawingInv
<1>2. CASE Geometric
  <2>1. UNCHANGED diagexVars /\ engine = "geometric" /\ engine' = engine
        BY <1>2 DEF Geometric
  <2>2. GraphInv'
        BY <1>1, <2>1, GraphUnchanged
  <2>3. HeadingInv'
        BY <2>1 DEF HeadingInv
  <2>4. AssemblyInv'
        BY <1>1, <1>2, AssemblyKeeps, AssemblyUnchanged DEF Geometric
  <2>5. QED BY <2>2, <2>3, <2>4 DEF DrawingInv
<1>3. CASE Vision
  <2>1. UNCHANGED assemblyVars /\ engine = "diagex" /\ engine' = engine
        BY <1>3 DEF Vision
  <2>2. AssemblyInv'
        BY <1>1, <2>1, AssemblyUnchanged
  <2>3. CASE ConvertNext /\ UNCHANGED <<orientVars, oriented>>
    <3>1. GraphInv'
          BY <1>1, <2>3, GraphKeeps
    <3>2. converting \notin {"converted", "emitted"} /\ converting' # "emitted"
          BY <2>3 DEF ConvertNext, PassOver, Drop, Place, EndNodes, Dangle, LeaveToStitching, Lay,
             EndEdges, AddNozzle, EndNozzles, AtEntity, AtEdge
    <3>3. stage = "waiting" /\ stage' = stage
          BY <1>1, <2>1, <2>3, <3>2 DEF HeadingInv, orientVars
    <3>4. HeadingInv'
          BY <3>2, <3>3 DEF HeadingInv
    <3>5. QED BY <2>2, <3>1, <3>4 DEF DrawingInv
  <2>4. CASE (\E p \in Pages : HandOverPage(p)) /\ UNCHANGED diagexVars
        BY <1>1, <2>2, <2>4, GraphUnchanged, HandOverHeads DEF DrawingInv
  <2>5. CASE ReadSeed /\ UNCHANGED <<diagexVars, oriented>>
        BY <1>1, <2>1, <2>2, <2>5, GraphUnchanged, ReadSeedHeads DEF DrawingInv
  <2>6. CASE Unread = {} /\ Step /\ UNCHANGED <<diagexVars, oriented>>
        BY <1>1, <2>1, <2>2, <2>6, GraphUnchanged, StepHeads DEF DrawingInv
  <2>7. CASE stage = "done" /\ MarkSafety(oriented) /\ UNCHANGED <<orientVars, oriented>>
        BY <1>1, <2>1, <2>2, <2>7, MarkSafetyKeeps, MarkSafetyHeads DEF DrawingInv
  <2>8. QED BY <1>3, <2>3, <2>4, <2>5, <2>6, <2>7 DEF Vision
<1>4. CASE Seeding
  <2>1. UNCHANGED <<assemblyVars, diagexVars, engine>> /\ engine = "geometric"
        BY <1>4 DEF Seeding
  <2>2. HeadingInv'
        BY <2>1 DEF HeadingInv
  <2>3. QED BY <1>1, <2>1, <2>2, AssemblyUnchanged, GraphUnchanged DEF DrawingInv
<1>5. CASE UNCHANGED sheetVars
  <2>1. UNCHANGED <<assemblyVars, diagexVars, orientVars, engine, oriented>>
        BY <1>5 DEF sheetVars
  <2>2. HeadingInv'
    <3>1. /\ engine' = engine /\ oriented' = oriented /\ converting' = converting
          /\ papers' = papers /\ reading' = reading /\ stage' = stage /\ page' = page
          /\ direction' = direction /\ source' = source /\ conflict' = conflict
          /\ unvisited' = unvisited
          BY <2>1 DEF orientVars, diagexVars
    <3>2. Grows /\ Runs' = Runs /\ Nodes' = Nodes
          BY <3>1, PageStays DEF Grows
    <3>3. Paper' = Paper
          BY <3>1 DEF Paper
    <3>4. \A m : AsRead(m)' = AsRead(m)
          BY <3>1, <3>3 DEF AsRead
    <3>5. \A m : Clear(m)' <=> Clear(m)
          BY <3>4 DEF Clear
    <3>6. \A m : Followed(m) => Followed(m)'
          BY <3>1, <3>2, FollowedStands
    <3>7. QED BY <1>1, <3>1, <3>2, <3>3, <3>5, <3>6 DEF HeadingInv, Heard
  <2>3. QED BY <1>1, <2>1, <2>2, AssemblyUnchanged, GraphUnchanged DEF DrawingInv
<1>6. QED BY <1>2, <1>3, <1>4, <1>5 DEF Next, Work

\* Whichever engine reads a sheet, nothing of the drawing is lost on the way to its
\* runs (build_graph and assemble of assemble_graph.py, convert_graph of
\* diagex_fallback.py), and what a reading says of flow is kept or flagged.
THEOREM DrawingKept == Spec => []DrawingIsKept
<1>1. DrawingInv => DrawingIsKept
      BY AssemblyCovers, GraphConverts, HeadingsFollowed DEF DrawingInv, DrawingIsKept
<1>2. QED BY <1>1, DrawingStarts, DrawingKeeps, PTL DEF Spec
=============================================================================
