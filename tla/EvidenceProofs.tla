--------------------------- MODULE EvidenceProofs ---------------------------
(* What one deviation's row may claim, whatever the generator and the critic *)
(* answer: no finding is lost or told twice, and none stands in the body     *)
(* with a tag, a citation or a confidence it has not earned. The confidence  *)
(* counts citations, so the first part is about that count. Then the         *)
(* scorecard of a whole worksheet: its percentiles, the omissions seeded     *)
(* into it and what its gates are told by. Last the knowledge base the       *)
(* citations come from: what a search may show, and in which order.          *)
EXTENDS RowAudit, Scorecard, KnowledgeBase, FiniteSetTheorems, WellFoundedInduction, TLAPS

----------------------------------------------------------------------------
(* Counting citations. Cited sums over a set in an order CHOOSE decides; no  *)
(* induction scheme can be instantiated here, so that what is true of the    *)
(* sum of every finite set is shown of a least set it could fail of.         *)

Some(s) == CHOOSE x \in s : TRUE

\* g sums c over every subset of S.
IsSum(g, c, S) ==
    g = [s \in SUBSET S |-> IF s = {} THEN 0 ELSE c[Some(s)] + g[s \ {Some(s)}]]

Sums(c, S) == CHOOSE g : IsSum(g, c, S)

\* Of any subsets of a finite set, one has no other below it.
LEMMA LeastSubset ==
    ASSUME NEW S, IsFiniteSet(S), NEW T \in SUBSET (SUBSET S), T # {}
    PROVE  \E m \in T : \A k \in T : k \subseteq m => k = m
<1>1. IsWellFoundedOn(StrictSubsetOrdering(S), SUBSET S)
  BY FS_StrictSubsetOrderingWellFounded, FS_FiniteSubsetsOfFinite
<1>2. PICK m \in T : \A k \in T : ~(<<k, m>> \in StrictSubsetOrdering(S))
  BY <1>1, WFMin
<1>3. QED  BY <1>2 DEF StrictSubsetOrdering

\* What is chosen from a set is in it.
LEMMA SomeIn ==
    ASSUME NEW s, s # {}
    PROVE  Some(s) \in s
BY DEF Some

\* Sums over two sets agree where both are defined.
LEMMA SumsAgree ==
    ASSUME NEW S, IsFiniteSet(S), NEW T \in SUBSET S, NEW c, NEW g, NEW h,
           IsSum(g, c, S), IsSum(h, c, T)
    PROVE  \A s \in SUBSET T : g[s] = h[s]
<1> DEFINE Bad == {s \in SUBSET T : g[s] # h[s]}
<1>1. SUFFICES ASSUME Bad # {} PROVE FALSE
  OBVIOUS
<1>2. PICK m \in Bad : \A k \in Bad : k \subseteq m => k = m
  <2>1. IsFiniteSet(T)
    BY FS_Subset
  <2>2. Bad \in SUBSET (SUBSET T)
    OBVIOUS
  <2> HIDE DEF Bad
  <2>3. QED  BY <1>1, <2>1, <2>2, LeastSubset
<1>3. \A s \in SUBSET T :
         /\ g[s] = IF s = {} THEN 0 ELSE c[Some(s)] + g[s \ {Some(s)}]
         /\ h[s] = IF s = {} THEN 0 ELSE c[Some(s)] + h[s \ {Some(s)}]
  BY DEF IsSum
<1>4. m \in SUBSET T /\ m # {}
  BY <1>2, <1>3
<1>5. m \ {Some(m)} \in SUBSET T /\ m \ {Some(m)} # m
  BY <1>4, SomeIn
<1>6. g[m \ {Some(m)}] = h[m \ {Some(m)}]
  BY <1>2, <1>5
<1>7. QED  BY <1>2, <1>3, <1>4, <1>6

\* Every finite set has a sum.
LEMMA SumsExist ==
    ASSUME NEW S, IsFiniteSet(S), NEW c
    PROVE  IsSum(Sums(c, S), c, S)
<1> DEFINE Bad == {s \in SUBSET S : ~ \E g : IsSum(g, c, s)}
<1>1. SUFFICES ASSUME Bad # {} PROVE FALSE
  BY DEF Sums
<1>2. PICK m \in Bad : \A k \in Bad : k \subseteq m => k = m
  <2>1. Bad \in SUBSET (SUBSET S)
    OBVIOUS
  <2> HIDE DEF Bad
  <2>2. QED  BY <1>1, <2>1, LeastSubset
<1>3. m \in SUBSET S /\ ~ \E g : IsSum(g, c, m)
  BY <1>2
<1>4. ASSUME NEW t \in SUBSET m, t # m
      PROVE  IsSum(Sums(c, t), c, t) /\ IsFiniteSet(t)
  <2>1. t \in SUBSET S /\ t \notin Bad
    BY <1>2, <1>3, <1>4
  <2>2. IsFiniteSet(t)
    BY <2>1, FS_Subset
  <2>3. QED  BY <2>1, <2>2 DEF Sums
<1> DEFINE Rest(t) == t \ {Some(t)}
           g == [t \in SUBSET m |->
                   IF t = {} THEN 0 ELSE c[Some(t)] + Sums(c, Rest(t))[Rest(t)]]
<1>5. ASSUME NEW t \in SUBSET m, t # {}
      PROVE  g[Rest(t)] = Sums(c, Rest(t))[Rest(t)]
  <2> DEFINE r == Rest(t)
  <2>1. r \in SUBSET m /\ r # m
    BY <1>5, SomeIn
  <2>2. IsSum(Sums(c, r), c, r) /\ IsFiniteSet(r)
    BY <1>4, <2>1
  <2>3. CASE r = {}
    <3>1. g[r] = 0
      BY <2>1, <2>3
    <3>2. Sums(c, r)[r] = 0
      BY <2>2, <2>3 DEF IsSum
    <3>3. QED  BY <3>1, <3>2
  <2>4. CASE r # {}
    <3>1. Rest(r) \in SUBSET r /\ Rest(r) # m
      BY <2>1, <2>4, SomeIn
    <3>2. IsSum(Sums(c, Rest(r)), c, Rest(r))
      BY <1>4, <2>1, <3>1
    <3>3. Sums(c, r)[Rest(r)] = Sums(c, Rest(r))[Rest(r)]
      <4> HIDE DEF r, Rest
      <4>1. QED  BY <2>2, <3>1, <3>2, SumsAgree
    <3>4. Sums(c, r)[r] = c[Some(r)] + Sums(c, r)[Rest(r)]
      <4>1. r \in SUBSET r
        OBVIOUS
      <4> HIDE DEF r
      <4>2. QED  BY <2>2, <2>4, <4>1 DEF IsSum
    <3>5. g[r] = c[Some(r)] + Sums(c, Rest(r))[Rest(r)]
      BY <2>1, <2>4
    <3>6. QED  BY <3>3, <3>4, <3>5
  <2>5. QED  BY <2>3, <2>4
<1>6. IsSum(g, c, m)
  <2>1. g = [t \in SUBSET m |-> IF t = {} THEN 0 ELSE c[Some(t)] + g[Rest(t)]]
    BY <1>5
  <2> HIDE DEF g
  <2>2. QED  BY <2>1 DEF IsSum
<1>7. QED  BY <1>3, <1>6

\* Cited is the sum of the citations, one of S after the other.
LEMMA CitedIsSum ==
    ASSUME NEW d, NEW S
    PROVE  Cited(d, S) = Sums(d.cites, S)[S]
BY DEF Cited, MapThenSumSet, MapThenFoldSet, Sums, IsSum, Some

\* The recursion Cited unfolds by.
LEMMA CitedStep ==
    ASSUME NEW d, NEW S, IsFiniteSet(S)
    PROVE  /\ S = {} => Cited(d, S) = 0
           /\ S # {} => Cited(d, S) = d.cites[Some(S)] + Cited(d, S \ {Some(S)})
<1> DEFINE c == d.cites
           R == S \ {Some(S)}
<1>1. IsSum(Sums(c, S), c, S) /\ IsSum(Sums(c, R), c, R)
  BY SumsExist, FS_RemoveElement
<1>2. R \in SUBSET S
  OBVIOUS
<1>3. Sums(c, S)[R] = Sums(c, R)[R]
  <2> HIDE DEF R, c
  <2>1. QED  BY <1>1, <1>2, SumsAgree
<1>4. Sums(c, S)[S] = IF S = {} THEN 0 ELSE c[Some(S)] + Sums(c, S)[R]
  <2> HIDE DEF c
  <2>1. QED  BY <1>1 DEF IsSum
<1>5. QED  BY <1>3, <1>4, CitedIsSum

\* A count is a number of places.
LEMMA CitedNat ==
    ASSUME NEW d, d.cites \in [Ids -> Nat], NEW S \in SUBSET Sources
    PROVE  Cited(d, S) \in Nat
<1> DEFINE Bad == {s \in SUBSET Sources : Cited(d, s) \notin Nat}
<1>1. SUFFICES ASSUME Bad # {} PROVE FALSE
  OBVIOUS
<1>2. PICK m \in Bad : \A k \in Bad : k \subseteq m => k = m
  <2>1. Bad \in SUBSET (SUBSET Sources)
    OBVIOUS
  <2> HIDE DEF Bad
  <2>2. QED  BY <1>1, <2>1, LeastSubset, ConstantsAssumption
<1>3. m \in SUBSET Sources /\ IsFiniteSet(m) /\ Cited(d, m) \notin Nat
  BY <1>2, FS_Subset, ConstantsAssumption
<1> HIDE DEF Bad
<1>4. m # {} /\ Cited(d, m) = d.cites[Some(m)] + Cited(d, m \ {Some(m)})
  <2>1. m = {} => Cited(d, m) = 0
    BY <1>3, CitedStep
  <2>2. m # {}
    BY <1>3, <2>1
  <2>3. QED  BY <1>3, <2>2, CitedStep
<1>5. Some(m) \in m /\ d.cites[Some(m)] \in Nat
  BY <1>3, <1>4, SomeIn DEF Ids
<1>6. Cited(d, m \ {Some(m)}) \in Nat
  <2>1. m \ {Some(m)} \in SUBSET Sources /\ m \ {Some(m)} # m
    BY <1>3, <1>5
  <2>2. m \ {Some(m)} \notin Bad
    BY <1>2, <2>1
  <2>3. QED  BY <2>1, <2>2 DEF Bad
<1>7. QED  BY <1>3, <1>4, <1>5, <1>6

\* The sum may be taken from any end: that is what makes its order irrelevant.
LEMMA CitedSplit ==
    ASSUME NEW d, d.cites \in [Ids -> Nat], NEW S \in SUBSET Sources, NEW x \in S
    PROVE  Cited(d, S) = d.cites[x] + Cited(d, S \ {x})
<1> DEFINE Bad == {s \in SUBSET Sources :
                     \E y \in s : Cited(d, s) # d.cites[y] + Cited(d, s \ {y})}
<1>1. SUFFICES ASSUME Bad # {} PROVE FALSE
  OBVIOUS
<1>2. PICK m \in Bad : \A k \in Bad : k \subseteq m => k = m
  <2>1. Bad \in SUBSET (SUBSET Sources)
    OBVIOUS
  <2> HIDE DEF Bad
  <2>2. QED  BY <1>1, <2>1, LeastSubset, ConstantsAssumption
<1>3. PICK y \in m : Cited(d, m) # d.cites[y] + Cited(d, m \ {y})
  BY <1>2
<1>4. m \in SUBSET Sources /\ IsFiniteSet(m) /\ m # {}
  BY <1>2, <1>3, FS_Subset, ConstantsAssumption
<1> DEFINE z == Some(m)
<1>5. z \in m /\ Cited(d, m) = d.cites[z] + Cited(d, m \ {z})
  BY <1>4, CitedStep, SomeIn
<1> HIDE DEF z
<1>6. y # z
  BY <1>3, <1>5
<1>7. Cited(d, m \ {z}) = d.cites[y] + Cited(d, m \ {z, y})
  <2>1. m \ {z} \in SUBSET Sources /\ m \ {z} \subseteq m /\ m \ {z} # m
    BY <1>4, <1>5
  <2>2. m \ {z} \notin Bad
    BY <1>2, <2>1
  <2>3. y \in m \ {z} /\ (m \ {z}) \ {y} = m \ {z, y}
    BY <1>6
  <2>4. QED  BY <2>1, <2>2, <2>3
<1>8. Cited(d, m \ {y}) = d.cites[z] + Cited(d, m \ {z, y})
  <2>1. m \ {y} \in SUBSET Sources /\ m \ {y} \subseteq m /\ m \ {y} # m
    BY <1>4
  <2>2. m \ {y} \notin Bad
    BY <1>2, <2>1
  <2>3. z \in m \ {y} /\ (m \ {y}) \ {z} = m \ {z, y}
    BY <1>5, <1>6
  <2>4. QED  BY <2>1, <2>2, <2>3
<1>9. /\ d.cites[y] \in Nat /\ d.cites[z] \in Nat
      /\ Cited(d, m \ {z, y}) \in Nat
  <2>1. y \in Ids /\ z \in Ids /\ m \ {z, y} \in SUBSET Sources
    BY <1>4, <1>5 DEF Ids
  <2>2. QED  BY <2>1, CitedNat
<1> HIDE DEF Bad
<1>10. QED  BY <1>3, <1>5, <1>7, <1>8, <1>9

\* Fewer sources are cited no more often.
LEMMA CitedMonotone ==
    ASSUME NEW d, d.cites \in [Ids -> Nat],
           NEW S \in SUBSET Sources, NEW T \in SUBSET S
    PROVE  Cited(d, T) <= Cited(d, S)
<1> DEFINE Bad == {s \in SUBSET Sources :
                     T \subseteq s /\ ~(Cited(d, T) <= Cited(d, s))}
<1>1. SUFFICES ASSUME Bad # {} PROVE FALSE
  OBVIOUS
<1>2. PICK m \in Bad : \A k \in Bad : k \subseteq m => k = m
  <2>1. Bad \in SUBSET (SUBSET Sources)
    OBVIOUS
  <2> HIDE DEF Bad
  <2>2. QED  BY <1>1, <2>1, LeastSubset, ConstantsAssumption
<1>3. m \in SUBSET Sources /\ T \subseteq m /\ ~(Cited(d, T) <= Cited(d, m))
  BY <1>2
<1>4. Cited(d, m) \in Nat /\ Cited(d, T) \in Nat
  BY <1>3, CitedNat
<1>5. PICK x \in m : x \notin T
  BY <1>3, <1>4
<1>6. m \ {x} \in SUBSET Sources /\ m \ {x} \notin Bad /\ T \subseteq m \ {x}
  BY <1>2, <1>3, <1>5
<1>7. Cited(d, T) <= Cited(d, m \ {x})
  BY <1>6
<1>8. /\ Cited(d, m) = d.cites[x] + Cited(d, m \ {x})
      /\ d.cites[x] \in Nat /\ Cited(d, m \ {x}) \in Nat
  <2>1. x \in Ids
    BY <1>3 DEF Ids
  <2>2. QED  BY <1>3, <1>6, <2>1, CitedSplit, CitedNat
<1> HIDE DEF Bad
<1>9. QED  BY <1>3, <1>4, <1>7, <1>8

\* A source that is named counts.
LEMMA CitedPositive ==
    ASSUME NEW d, d.cites \in [Ids -> Nat],
           NEW S \in SUBSET Known(d), S # {}
    PROVE  Cited(d, S) > 0
<1>1. PICK x \in S : TRUE
  OBVIOUS
<1>2. S \in SUBSET Sources /\ x \in Ids /\ d.cites[x] > 0
  BY DEF Known, Ids
<1>3. Cited(d, S) = d.cites[x] + Cited(d, S \ {x}) /\ Cited(d, S \ {x}) \in Nat
  BY <1>2, CitedSplit, CitedNat
<1>4. QED  BY <1>2, <1>3

\* The sources that are not named do not count.
LEMMA CitedKnown ==
    ASSUME NEW d, d.cites \in [Ids -> Nat]
    PROVE  Cited(d, Known(d)) = Cited(d, Sources)
<1> DEFINE Bad == {s \in SUBSET Sources :
                     Known(d) \subseteq s /\ Cited(d, Known(d)) # Cited(d, s)}
<1>1. SUFFICES ASSUME Bad # {} PROVE FALSE
  BY DEF Known
<1>2. PICK m \in Bad : \A k \in Bad : k \subseteq m => k = m
  <2>1. Bad \in SUBSET (SUBSET Sources)
    OBVIOUS
  <2> HIDE DEF Bad
  <2>2. QED  BY <1>1, <2>1, LeastSubset, ConstantsAssumption
<1>3. m \in SUBSET Sources /\ Known(d) \subseteq m /\ Cited(d, Known(d)) # Cited(d, m)
  BY <1>2
<1>4. PICK x \in m : x \notin Known(d)
  BY <1>3
<1>5. m \ {x} \in SUBSET Sources /\ m \ {x} \notin Bad /\ Known(d) \subseteq m \ {x}
  BY <1>2, <1>3, <1>4
<1>6. Cited(d, Known(d)) = Cited(d, m \ {x})
  BY <1>5
<1>7. d.cites[x] = 0
  <2>1. x \in Sources /\ d.cites[x] \in Nat
    BY <1>3 DEF Ids
  <2>2. QED  BY <1>4, <2>1 DEF Known
<1>8. Cited(d, m) = d.cites[x] + Cited(d, m \ {x}) /\ Cited(d, m \ {x}) \in Nat
  BY <1>3, <1>5, CitedSplit, CitedNat
<1> HIDE DEF Bad
<1>9. QED  BY <1>3, <1>6, <1>7, <1>8

----------------------------------------------------------------------------
(* The inductive invariant. Until Stage B every draft is let through or on  *)
(* the record; from then on it is in the body, still to be judged, or on the *)
(* record; and both stages go through the findings in the order generated.  *)

Ordered(s)  == \A m, n \in 1..Len(s) : m < n => s[m].of < s[n].of
Distinct(s) == \A m, n \in 1..Len(s) : s[m].of = s[n].of => m = n

\* Draft i is among the grounded findings that follow the first k.
Follows(k, i) == \E n \in k + 1..Len(grounded) : grounded[n].of = i

Filtering ==
    /\ worksheet = <<>>
    /\ Len(grounded) + Len(audit) = at
    /\ \A n \in 1..Len(grounded) : grounded[n].of \in 1..at
    /\ \A n \in 1..Len(audit) : audit[n].of \in 1..at
    /\ \A i \in 1..at : Follows(0, i) <=> ~InAudit(i)

Weighing ==
    /\ Len(grounded) <= Len(drafts) /\ at <= Len(grounded)
    /\ Len(worksheet) + Len(audit) + Len(grounded) = Len(drafts) + at
    /\ Ordered(worksheet)
    /\ \A n \in 1..Len(worksheet) : \E m \in 1..at : worksheet[n].of = grounded[m].of
    /\ \A i \in 1..Len(drafts) : (InBody(i) \/ Follows(at, i)) <=> ~InAudit(i)

Accounting ==
    /\ phase = "generate" => at = 0 /\ grounded = <<>> /\ worksheet = <<>> /\ audit = <<>>
    /\ phase = "ground" => Filtering
    /\ phase \in {"judge", "emitted"} => Weighing
    /\ phase = "emitted" => at = Len(grounded)
    /\ Ordered(grounded) /\ Distinct(audit)

\* What the generator may claim for draft i.
Graded(i) ==
    /\ drafts[i].conf <= 95
    /\ generator = "model" => drafts[i].conf = Composed(Cited(drafts[i], Sources))

\* What Stage A lets through is what was generated, with tags that exist.
Admitted(f) ==
    /\ f.of \in 1..Len(drafts)
    /\ f = Finding(f.of)
    /\ gate => drafts[f.of].tags \subseteq Tags

\* The share of one finding of the body in FindingsAreEarned; without a critic
\* it is as Stage A left it.
Earned(f) ==
    /\ f.of \in 1..Len(drafts)
    /\ gate => drafts[f.of].tags \subseteq Tags
    /\ critic = "none" => f = Finding(f.of)
    /\ critic # "none" =>
          /\ DOMAIN f.checks = Known(drafts[f.of])
          /\ f.kept = {e \in DOMAIN f.checks : f.checks[e] = "supported"}
          /\ \A e \in DOMAIN f.checks : f.checks[e] # "contradicted"
    /\ generator = "model" =>
          /\ f.conf = Composed(Cited(drafts[f.of], f.kept))
          /\ f.conf < 40 <=> f.kept = {}
    /\ f.kept # Known(drafts[f.of]) =>
          f.conf <= Composed(Cited(drafts[f.of], f.kept))

\* Only Stage A rejects for tags, and only Stage B what cites something.
Justified(r) ==
    /\ r.of \in 1..Len(drafts)
    /\ r.reason = "invalid_tags" <=> Groundless(drafts[r.of])
    /\ r.reason = "evidence_contradicted" =>
          critic # "none" /\ Known(drafts[r.of]) # {}

Standards ==
    /\ \A i \in 1..Len(drafts) : Graded(i)
    /\ \A n \in 1..Len(grounded) : Admitted(grounded[n])
    /\ \A n \in 1..Len(worksheet) : Earned(worksheet[n])
    /\ \A n \in 1..Len(audit) : Justified(audit[n])

GateInv == TypeOK /\ Accounting /\ Standards

----------------------------------------------------------------------------
(* Types.                                                                    *)

\* What a sequence is after something was put at its end.
LEMMA Appended ==
    ASSUME NEW R, NEW s \in Seq(R), NEW e \in R
    PROVE  /\ Append(s, e) \in Seq(R)
           /\ Len(s) \in Nat
           /\ Len(Append(s, e)) = Len(s) + 1
           /\ \A n \in 1..Len(s) : Append(s, e)[n] = s[n]
           /\ Append(s, e)[Len(s) + 1] = e
OBVIOUS

\* A function on the first numbers is a sequence.
LEMMA IsSequence ==
    ASSUME NEW R, NEW n \in Nat, NEW f \in [1..n -> R]
    PROVE  f \in Seq(R)
OBVIOUS

\* SetToSeq lists the elements of a finite set.
LEMMA SetToSeqType ==
    ASSUME NEW S, IsFiniteSet(S)
    PROVE  /\ Cardinality(S) \in Nat
           /\ SetToSeq(S) \in [1..Cardinality(S) -> S]
<1>1. Cardinality(S) \in Nat /\ ExistsBijection(1..Cardinality(S), S)
  BY FS_CardinalityType
<1>2. PICK f \in [1..Cardinality(S) -> S] : IsInjective(f)
  BY <1>1 DEF ExistsBijection, Bijection, Injection, IsInjective
<1>3. QED  BY <1>1, <1>2 DEF SetToSeq

\* What the stub writes is a list of drafts, none of them above 95.
LEMMA StubTripleType ==
    ASSUME NEW S \in SUBSET Sources, NEW known \in BOOLEAN,
           NEW score \in [S -> {20, 95}]
    PROVE  StubTriple(SetToSeq(S), S, score, known) \in Seq({d \in Drafts : d.conf <= 95})
<1> DEFINE D == {d \in Drafts : d.conf <= 95}
           Of(cited, conf) == [tags |-> Tags, cites |-> Citing(cited), conf |-> conf]
           q == SetToSeq(S)
<1>1. Cardinality(S) \in Nat /\ q \in [1..Cardinality(S) -> S]
  BY SetToSeqType, FS_Subset, ConstantsAssumption
<1>2. ASSUME NEW T \in SUBSET Sources PROVE Citing(T) \in CiteLists
  <2>1. Citing(T) \in [Ids -> 0..MaxCites]
    BY ConstantsAssumption DEF Citing
  <2>2. \A e \in Phantoms : Citing(T)[e] <= 1
    BY DEF Citing, Ids
  <2>3. QED  BY <2>1, <2>2 DEF CiteLists
<1>3. ASSUME NEW T \in SUBSET Sources, NEW n \in Nat, n <= 95 PROVE Of(T, n) \in D
  BY <1>2, <1>3 DEF Drafts
<1>4. StubBase(S) \in Nat /\ StubBase(S) <= 95
  BY <1>1 DEF StubBase
<1>5. (StubBase(S) * 6) \div 10 \in Nat /\ (StubBase(S) * 6) \div 10 <= 95
  <2>1. \A n \in Nat : n <= 95 => (n * 6) \div 10 \in Nat /\ (n * 6) \div 10 <= 95
    OBVIOUS
  <2>2. QED  BY <1>4, <2>1
<1>6. [tags |-> {}, cites |-> Citing({}), conf |-> 35] \in D
  BY <1>2 DEF Drafts
<1>7. [n \in DOMAIN q |-> Of({q[n]}, score[q[n]])] \in Seq(D)
  <2>1. \A n \in 1..Cardinality(S) :
           /\ {q[n]} \in SUBSET Sources
           /\ score[q[n]] \in Nat /\ score[q[n]] <= 95
    BY <1>1
  <2>2. \A n \in 1..Cardinality(S) : Of({q[n]}, score[q[n]]) \in D
    BY <1>3, <2>1
  <2>3. DOMAIN q = 1..Cardinality(S)
    BY <1>1
  <2> HIDE DEF D, Of, q
  <2>4. [n \in DOMAIN q |-> Of({q[n]}, score[q[n]])] \in [1..Cardinality(S) -> D]
    BY <2>2, <2>3
  <2>5. QED  BY <1>1, <2>4, IsSequence
<1>8. <<Of({}, 30)>> \in Seq(D)
  BY <1>3
<1>9. Of(S, StubBase(S)) \in D /\ Of(S, (StubBase(S) * 6) \div 10) \in D
  BY <1>3, <1>4, <1>5
<1> DEFINE r == IF S = {} THEN <<Of({}, 30)>> ELSE [n \in DOMAIN q |-> Of({q[n]}, score[q[n]])]
           u == <<IF known THEN Of(S, StubBase(S)) ELSE Of(S, (StubBase(S) * 6) \div 10)>>
           v == <<IF known THEN Of(S, StubBase(S))
                  ELSE [tags |-> {}, cites |-> Citing({}), conf |-> 35]>>
<1>10. r \in Seq(D)
  BY <1>7, <1>8
<1>11. u \in Seq(D) /\ v \in Seq(D)
  BY <1>6, <1>9
<1>12. StubTriple(q, S, score, known) = r \o u \o v
  BY DEF StubTriple
<1> HIDE DEF r, u, v, D
<1>13. r \o u \in Seq(D)
  BY <1>10, <1>11
<1>14. r \o u \o v \in Seq(D)
  BY <1>11, <1>13
<1>15. QED  BY <1>12, <1>14 DEF D

\* Numbers up to a bound have a greatest one.
LEMMA Greatest ==
    ASSUME NEW k \in Nat, NEW H \in SUBSET (1..k), H # {}
    PROVE  \E n \in H : \A p \in H : p <= n
<1> DEFINE T == {n..k : n \in H}
           U == 1..k
<1>1. T \in SUBSET (SUBSET U)
  <2>1. \A n \in H : n..k \subseteq U
    OBVIOUS
  <2>2. QED  BY <2>1
<1>2. T # {}
  OBVIOUS
<1>3. IsFiniteSet(U)
  BY FS_Interval
<1>4. PICK m \in T : \A s \in T : s \subseteq m => s = m
  <2> HIDE DEF T, U
  <2>1. QED  BY <1>1, <1>2, <1>3, LeastSubset
<1>5. PICK n \in H : m = n..k
  OBVIOUS
<1>6. ASSUME NEW p \in H, ~(p <= n) PROVE FALSE
  <2>1. p..k \subseteq n..k /\ n \in n..k /\ n \notin p..k
    BY <1>6
  <2>2. p..k \in T
    OBVIOUS
  <2>3. QED  BY <1>4, <1>5, <2>1, <2>2
<1>7. QED  BY <1>6

\* Whatever a critic answers is read as a verdict.
LEMMA VerdictOnType ==
    ASSUME NEW reply \in Checks, NEW id
    PROVE  VerdictOn(reply, id) \in Verdicts
<1>1. PICK k \in 0..MaxChecks : reply \in [1..k -> Sources \X Verdicts]
  BY DEF Checks
<1>2. k \in Nat /\ DOMAIN reply = 1..k
  BY <1>1, ConstantsAssumption
<1> DEFINE H == {n \in 1..k : reply[n][1] = id}
<1>3. CASE H = {}
  BY <1>2, <1>3 DEF VerdictOn, Verdicts
<1>4. CASE H # {}
  <2>1. PICK n \in H : \A p \in H : p <= n
    <3>1. H \in SUBSET (1..k)
      OBVIOUS
    <3> HIDE DEF H
    <3>2. QED  BY <1>2, <1>4, <3>1, Greatest
  <2>2. ASSUME NEW p \in 1..k, p > n PROVE reply[p][1] # id
    BY <1>2, <2>1, <2>2
  <2> DEFINE LastOf(l) == /\ reply[l][1] = id
                        /\ \A p \in DOMAIN reply : p > l => reply[p][1] # id
             last == CHOOSE l \in DOMAIN reply : LastOf(l)
  <2>3. n \in DOMAIN reply /\ LastOf(n)
    BY <1>2, <2>2
  <2>4. last \in 1..k
    BY <1>2, <2>3
  <2>5. VerdictOn(reply, id) = reply[last][2]
    BY <2>3 DEF VerdictOn
  <2> HIDE DEF last
  <2>6. QED  BY <1>1, <2>4, <2>5
<1>5. QED  BY <1>3, <1>4

\* What is known of a draft, and of a finding made of it.
LEMMA DraftType ==
    ASSUME TypeOK, NEW i \in 1..Len(drafts)
    PROVE  /\ drafts[i] \in Drafts
           /\ drafts[i].cites \in [Ids -> Nat]
           /\ Known(drafts[i]) \in SUBSET Sources
           /\ Finding(i) \in Findings
<1>1. drafts[i] \in Drafts
  BY DEF TypeOK
<1>2. drafts[i].cites \in [Ids -> Nat]
  <2>1. drafts[i].cites \in [Ids -> 0..MaxCites]
    BY <1>1 DEF Drafts, CiteLists
  <2>2. QED  BY <2>1, ConstantsAssumption
<1>3. Known(drafts[i]) \in SUBSET Sources
  BY DEF Known
<1>4. <<>> \in UNION {[S -> Verdicts] : S \in SUBSET Sources}
  <2>1. <<>> \in [{} -> Verdicts]
    OBVIOUS
  <2>2. QED  BY <2>1
<1>5. Finding(i) \in Findings
  <2>1. drafts[i].conf \in Nat /\ i \in Nat
    BY <1>1 DEF Drafts
  <2>2. QED  BY <1>3, <1>4, <2>1 DEF Finding, Findings
<1>6. QED  BY <1>1, <1>2, <1>3, <1>5

\* A finding stays one when it is judged.
LEMMA JudgedType ==
    ASSUME TypeOK, NEW f \in Findings, f.of \in 1..Len(drafts),
           NEW checks \in [f.kept -> Verdicts]
    PROVE  Judged(f, checks) \in Findings
<1> DEFINE kept == Standing(f, checks)
           cap == Recomposed(Cited(drafts[f.of], kept))
           conf == IF kept # f.kept /\ cap < f.conf THEN cap ELSE f.conf
<1>1. f.of \in Nat /\ f.kept \in SUBSET Sources /\ f.conf \in Nat
  BY DEF Findings
<1>2. kept \in SUBSET Sources
  BY <1>1 DEF Standing
<1>3. Cited(drafts[f.of], kept) \in Nat
  BY <1>2, DraftType, CitedNat
<1>4. cap \in Nat
  BY <1>3 DEF Recomposed, Unsupported
<1>5. conf \in Nat
  BY <1>1, <1>4
<1>6. checks \in UNION {[S -> Verdicts] : S \in SUBSET Sources}
  BY <1>1
<1> HIDE DEF kept, cap, conf
<1>7. Judged(f, checks) = [of |-> f.of, kept |-> kept, conf |-> conf, checks |-> checks]
  <2>1. Judged(f, checks) = [f EXCEPT !.kept = kept, !.checks = checks, !.conf = conf]
    BY Zenon DEF Judged, kept, cap, conf
  <2>2. QED  BY <2>1 DEF Findings
<1>8. QED  BY <1>1, <1>2, <1>5, <1>6, <1>7 DEF Findings

----------------------------------------------------------------------------
(* The steps of Stage B.                                                     *)

Accept(g) == worksheet' = Append(worksheet, g) /\ UNCHANGED audit

Refuse(f) == Reject(f.of, "evidence_contradicted") /\ UNCHANGED worksheet

\* The confidence n citations earn, and what is left of it when k of them are.
LEMMA Dropping ==
    ASSUME NEW n \in Nat, NEW k \in Nat, k <= n, NEW conf \in Nat, conf <= 95
    PROVE  LET cap == Recomposed(k)
               new == IF cap < conf THEN cap ELSE conf
           IN  /\ new <= Composed(k)
               /\ conf = Composed(n) => new = Composed(k)
<1>1. CASE k = 0
  BY <1>1 DEF Recomposed, Composed, Unsupported
<1>2. CASE k # 0 /\ n # 0
  BY <1>2 DEF Recomposed, Composed, Unsupported
<1>3. QED  BY <1>1, <1>2

\* Only without a citation is a composed confidence below 40.
LEMMA BelowForty ==
    ASSUME NEW n \in Nat
    PROVE  Composed(n) \in Nat /\ Composed(n) <= 95 /\ (Composed(n) < 40 <=> n = 0)
BY DEF Composed, Unsupported

\* The finding to judge is one that was admitted.
LEMMA SubjectType ==
    ASSUME GateInv, Judging
    PROVE  /\ at + 1 \in 1..Len(grounded)
           /\ Subject \in Findings
           /\ Admitted(Subject)
           /\ Subject.of \in 1..Len(drafts)
           /\ Subject.kept = Known(drafts[Subject.of])
           /\ Subject.checks = <<>>
           /\ Subject.conf = drafts[Subject.of].conf
           /\ Graded(Subject.of)
<1>1. TypeOK /\ Standards
  BY DEF GateInv
<1>2. at + 1 \in 1..Len(grounded)
  BY <1>1 DEF TypeOK, Judging
<1>3. Subject \in Findings /\ Admitted(Subject)
  BY <1>1, <1>2 DEF TypeOK, Standards, Subject
<1>4. Subject.of \in 1..Len(drafts) /\ Subject = Finding(Subject.of)
  BY <1>3 DEF Admitted
<1> DEFINE i == Subject.of
<1>5. Finding(i).kept = Known(drafts[i]) /\ Finding(i).checks = <<>>
      /\ Finding(i).conf = drafts[i].conf
  BY DEF Finding
<1>6. Graded(i)
  BY <1>1, <1>4 DEF Standards
<1>7. QED  BY <1>2, <1>3, <1>4, <1>5, <1>6

\* A finding nothing of which was refused earns its place.
LEMMA JudgedEarns ==
    ASSUME GateInv, Judging, critic # "none",
           NEW checks \in [Subject.kept -> Verdicts],
           \A e \in Subject.kept : checks[e] # "contradicted"
    PROVE  /\ Judged(Subject, checks) \in Findings
           /\ Judged(Subject, checks).of = Subject.of
           /\ Earned(Judged(Subject, checks))
<1> DEFINE f == Subject
           d == drafts[f.of]
           kept == Standing(f, checks)
           cap == Recomposed(Cited(d, kept))
           g == Judged(f, checks)
<1>1. TypeOK /\ f \in Findings /\ Admitted(f) /\ Graded(f.of) /\ f.of \in 1..Len(drafts)
      /\ f.kept = Known(d) /\ f.conf = d.conf
  BY SubjectType DEF GateInv
<1>2. g \in Findings
  BY <1>1, JudgedType
<1>3. /\ g.of = f.of /\ g.kept = kept /\ g.checks = checks
      /\ g.conf = IF kept # f.kept /\ cap < f.conf THEN cap ELSE f.conf
  <2>1. f = [of |-> f.of, kept |-> f.kept, conf |-> f.conf, checks |-> f.checks]
    BY <1>1 DEF Findings
  <2> DEFINE conf == IF kept # f.kept /\ cap < f.conf THEN cap ELSE f.conf
  <2>2. Judged(f, checks) = [f EXCEPT !.kept = kept, !.checks = checks, !.conf = conf]
    BY Zenon DEF Judged
  <2> HIDE DEF f, kept, cap, conf
  <2>3. QED  BY <1>1, <2>2 DEF g, conf, Findings
<1>4. /\ d.cites \in [Ids -> Nat] /\ Known(d) \in SUBSET Sources
      /\ kept \in SUBSET Known(d) /\ d.conf \in Nat
  BY <1>1, DraftType DEF Standing, Drafts
<1> DEFINE k == Cited(d, kept)
           n == Cited(d, Known(d))
<1>5. k \in Nat /\ n \in Nat /\ k <= n /\ n = Cited(d, Sources)
  BY <1>4, CitedNat, CitedMonotone, CitedKnown
<1>6. k = 0 <=> kept = {}
  <2>1. kept # {} => k > 0
    BY <1>4, CitedPositive
  <2>2. kept = {} => k = 0
    BY CitedStep, FS_EmptySet
  <2>3. QED  BY <1>5, <2>1, <2>2
<1>7. d.conf <= 95 /\ (generator = "model" => d.conf = Composed(n))
  BY <1>1, <1>5 DEF Graded
<1>8. /\ g.kept # Known(d) => g.conf <= Composed(k)
      /\ generator = "model" => g.conf = Composed(k)
  <2>1. CASE kept = Known(d)
    BY <1>1, <1>3, <1>7, <2>1
  <2>2. CASE kept # Known(d)
    <3>1. g.conf = IF cap < d.conf THEN cap ELSE d.conf
      BY <1>1, <1>3, <2>2
    <3>2. cap = Recomposed(k)
      OBVIOUS
    <3>3. /\ g.conf <= Composed(k)
          /\ d.conf = Composed(n) => g.conf = Composed(k)
      <4> HIDE DEF g, k, n, d, kept, cap
      <4>1. QED  BY <1>4, <1>5, <1>7, <3>1, <3>2, Dropping
    <3>4. QED  BY <1>7, <3>3
  <2>3. QED  BY <2>1, <2>2
<1>9. generator = "model" => (g.conf < 40 <=> g.kept = {})
  BY <1>3, <1>5, <1>6, <1>8, BelowForty
<1>10. /\ DOMAIN g.checks = Known(d)
       /\ g.kept = {e \in DOMAIN g.checks : g.checks[e] = "supported"}
       /\ \A e \in DOMAIN g.checks : g.checks[e] # "contradicted"
  BY <1>1, <1>3 DEF Standing
<1>11. gate => d.tags \subseteq Tags
  BY <1>1 DEF Admitted
<1>12. g.of = f.of /\ g.kept = kept /\ f.of \in 1..Len(drafts)
  BY <1>1, <1>3
<1> HIDE DEF g, f
<1>13. QED  BY <1>2, <1>8, <1>9, <1>10, <1>11, <1>12 DEF Earned, g, f

\* A finding that is not judged has lost nothing.
LEMMA SubjectEarns ==
    ASSUME GateInv, Judging, critic = "none" \/ Subject.kept = {}
    PROVE  Earned(Subject)
<1> DEFINE f == Subject
           d == drafts[f.of]
           n == Cited(d, Known(d))
<1>1. /\ TypeOK /\ Admitted(f) /\ f.of \in 1..Len(drafts) /\ Graded(f.of)
      /\ f.kept = Known(d) /\ f.conf = d.conf /\ f.checks = <<>>
  BY SubjectType DEF GateInv
<1>2. d.cites \in [Ids -> Nat] /\ Known(d) \in SUBSET Sources
  BY <1>1, DraftType
<1>3. n \in Nat /\ n = Cited(d, Sources)
  BY <1>2, CitedNat, CitedKnown
<1>4. n = 0 <=> Known(d) = {}
  <2>1. Known(d) # {} => n > 0
    BY <1>2, CitedPositive
  <2>2. Known(d) = {} => n = 0
    BY CitedStep, FS_EmptySet
  <2>3. QED  BY <1>3, <2>1, <2>2
<1>5. generator = "model" => f.conf = Composed(n)
  BY <1>1, <1>3 DEF Graded
<1>6. generator = "model" => (f.conf < 40 <=> f.kept = {})
  BY <1>1, <1>3, <1>4, <1>5, BelowForty
<1>7. critic # "none" =>
         /\ DOMAIN f.checks = Known(d)
         /\ f.kept = {e \in DOMAIN f.checks : f.checks[e] = "supported"}
         /\ \A e \in DOMAIN f.checks : f.checks[e] # "contradicted"
  BY <1>1
<1>8. (gate => d.tags \subseteq Tags) /\ f = Finding(f.of)
  BY <1>1 DEF Admitted
<1> HIDE DEF f
<1>9. QED  BY <1>1, <1>5, <1>6, <1>7, <1>8 DEF Earned, f

\* Every step of Stage B takes the next finding and either puts it on record
\* or accepts what is left of it.
LEMMA StageB ==
    ASSUME GateInv, PassThrough \/ LexicalCheck \/ ModelCheck
    PROVE  /\ Judging
           /\ \/ Refuse(Subject) /\ critic # "none" /\ Subject.kept # {}
              \/ \E g \in Findings : g.of = Subject.of /\ Earned(g) /\ Accept(g)
<1>1. Judging
  BY DEF PassThrough, LexicalCheck, ModelCheck
<1>2. Subject \in Findings
  BY <1>1, SubjectType
<1>3. CASE PassThrough
  BY <1>2, <1>3, SubjectEarns DEF PassThrough, Accept
<1>4. ASSUME critic # "none", Subject.kept # {},
             NEW checks \in [Subject.kept -> Verdicts], Verdict(Subject, checks)
      PROVE  \/ Refuse(Subject)
             \/ \E g \in Findings : g.of = Subject.of /\ Earned(g) /\ Accept(g)
  <2>1. CASE \E e \in Subject.kept : checks[e] = "contradicted"
    BY <1>4, <2>1 DEF Verdict, Refuse
  <2>2. CASE \A e \in Subject.kept : checks[e] # "contradicted"
    <3> DEFINE g == Judged(Subject, checks)
    <3>1. Accept(g)
      BY <1>4, <2>2 DEF Verdict, Accept
    <3>2. g \in Findings /\ g.of = Subject.of /\ Earned(g)
      BY <1>1, <1>4, <2>2, JudgedEarns
    <3> HIDE DEF g
    <3>3. QED  BY <3>1, <3>2
  <2>3. QED  BY <2>1, <2>2
<1>5. CASE LexicalCheck
  <2>0. critic # "none" /\ Subject.kept # {}
    BY <1>5 DEF LexicalCheck
  <2>1. PICK hits \in SUBSET Subject.kept :
           Verdict(Subject, [e \in Subject.kept |->
              IF e \in hits THEN "supported" ELSE "insufficient"])
    BY <1>5 DEF LexicalCheck
  <2>2. [e \in Subject.kept |-> IF e \in hits THEN "supported" ELSE "insufficient"]
           \in [Subject.kept -> Verdicts]
    BY DEF Verdicts
  <2>3. QED  BY <1>1, <1>4, <2>0, <2>1, <2>2
<1>6. CASE ModelCheck
  <2>0. critic # "none" /\ Subject.kept # {}
    BY <1>6 DEF ModelCheck
  <2>1. PICK reply \in Checks :
           Verdict(Subject, [e \in Subject.kept |-> VerdictOn(reply, e)])
    BY <1>6 DEF ModelCheck
  <2>2. [e \in Subject.kept |-> VerdictOn(reply, e)] \in [Subject.kept -> Verdicts]
    BY VerdictOnType
  <2>3. QED  BY <1>1, <1>4, <2>0, <2>1, <2>2
<1>7. QED  BY <1>1, <1>3, <1>5, <1>6

----------------------------------------------------------------------------
(* Every step keeps the invariant.                                           *)

\* The invariant holds at first.
LEMMA GateInit == Init => GateInv
<1> SUFFICES ASSUME Init PROVE GateInv
  OBVIOUS
<1> USE DEF Init
<1>1. TypeOK
  BY DEF TypeOK
<1>2. Accounting
  BY DEF Accounting, Ordered, Distinct
<1>3. Standards
  BY DEF Standards
<1>4. QED  BY <1>1, <1>2, <1>3 DEF GateInv

\* The generator adds drafts, each with the confidence it is due.
LEMMA DraftStep ==
    ASSUME GateInv, NEW item \in Items, Draft(item)
    PROVE  GateInv'
<1> DEFINE d == [tags |-> item.tags, cites |-> item.cites,
                 conf |-> Composed(Cited(item, Sources))]
<1>1. TypeOK /\ Accounting /\ Standards
  BY DEF GateInv
<1>2. item.cites \in CiteLists /\ item.tags \in SUBSET (Tags \cup Ghosts)
      /\ item.cites \in [Ids -> Nat]
  <2>1. item.cites \in CiteLists /\ item.tags \in SUBSET (Tags \cup Ghosts)
    BY DEF Items
  <2>2. item.cites \in [Ids -> 0..MaxCites]
    BY <2>1 DEF CiteLists
  <2>3. QED  BY <2>1, <2>2, ConstantsAssumption
<1>3. Cited(item, Sources) \in Nat
  BY <1>2, CitedNat
<1>4. Composed(Cited(item, Sources)) \in Nat /\ Composed(Cited(item, Sources)) <= 95
  BY <1>3, BelowForty
<1>5. d \in Drafts
  BY <1>2, <1>4 DEF Drafts
<1>6. Cited(d, Sources) = Cited(item, Sources)
  <2>1. d.cites = item.cites
    OBVIOUS
  <2> HIDE DEF d
  <2>2. QED  BY <2>1, CitedIsSum
<1>7. d.conf = Composed(Cited(d, Sources)) /\ d.conf <= 95
  BY <1>4, <1>6
<1>8. drafts' = Append(drafts, d)
  BY DEF Draft
<1> HIDE DEF d
<1>9. /\ drafts' \in Seq(Drafts) /\ Len(drafts) \in Nat
      /\ Len(drafts') = Len(drafts) + 1
      /\ \A n \in 1..Len(drafts) : drafts'[n] = drafts[n]
      /\ drafts'[Len(drafts) + 1] = d
  BY <1>1, <1>5, <1>8, Appended DEF TypeOK
<1>10. /\ phase = "generate" /\ at = 0 /\ grounded = <<>> /\ worksheet = <<>>
       /\ audit = <<>> /\ tries' = 0
       /\ UNCHANGED <<gate, critic, generator, phase, at, grounded, worksheet, audit>>
  BY <1>1 DEF Accounting, Draft
<1>11. TypeOK'
  BY <1>1, <1>9, <1>10 DEF TypeOK
<1>12. Accounting'
  BY <1>10 DEF Accounting, Ordered, Distinct
<1>13. \A i \in 1..Len(drafts') : Graded(i)'
  <2>1. ASSUME NEW i \in 1..Len(drafts) PROVE Graded(i)'
    <3>1. Graded(i) /\ drafts'[i] = drafts[i]
      BY <1>1, <1>9 DEF Standards
    <3>2. QED  BY <1>10, <3>1 DEF Graded
  <2>2. ASSUME NEW i, i = Len(drafts) + 1 PROVE Graded(i)'
    BY <1>7, <1>9, <1>10, <2>2 DEF Graded
  <2>3. \A i \in 1..Len(drafts') : i \in 1..Len(drafts) \/ i = Len(drafts) + 1
    BY <1>9
  <2>4. QED  BY <2>1, <2>2, <2>3
<1>14. Standards'
  BY <1>10, <1>13 DEF Standards
<1>15. QED  BY <1>11, <1>12, <1>14 DEF GateInv

\* The stub's drafts claim no more than 95.
LEMMA StubStep ==
    ASSUME GateInv, Stub
    PROVE  GateInv'
<1> DEFINE D == {d \in Drafts : d.conf <= 95}
<1>1. TypeOK /\ Accounting /\ Standards
  BY DEF GateInv
<1>2. drafts' \in Seq(D)
  BY StubTripleType DEF Stub
<1>3. /\ drafts' \in Seq(Drafts) /\ Len(drafts') \in Nat
      /\ \A i \in 1..Len(drafts') : drafts'[i].conf <= 95
  BY <1>2
<1>4. /\ at = 0 /\ grounded = <<>> /\ worksheet = <<>> /\ audit = <<>>
      /\ generator = "stub" /\ phase' = "ground"
      /\ UNCHANGED <<gate, critic, generator, tries, at, grounded, worksheet, audit>>
  BY <1>1 DEF Accounting, Stub
<1>5. TypeOK'
  BY <1>1, <1>3, <1>4 DEF TypeOK
<1>6. Accounting'
  BY <1>4 DEF Accounting, Ordered, Distinct, Filtering
<1>7. Standards'
  <2>1. ASSUME NEW i \in 1..Len(drafts') PROVE Graded(i)'
    BY <1>3, <1>4, <2>1 DEF Graded
  <2>2. QED  BY <1>4, <2>1 DEF Standards
<1>8. QED  BY <1>5, <1>6, <1>7 DEF GateInv

\* The steps after which only the phase, or the count of retries, is another.
LEMMA PhaseStep ==
    ASSUME GateInv, Generated \/ NotJson \/ Emit \/ Raise
    PROVE  GateInv'
<1>1. TypeOK /\ Accounting /\ Standards
  BY DEF GateInv
<1>2. UNCHANGED <<gate, critic, generator, drafts, at, grounded, worksheet, audit>>
  BY DEF Generated, NotJson, Emit, Raise
<1>3. TypeOK'
  BY <1>1 DEF TypeOK, Generated, NotJson, Emit, Raise
<1>4. Standards'
  BY <1>1, <1>2 DEF Standards, Graded, Admitted, Finding, Earned, Justified, Groundless
<1>5. Ordered(grounded)' /\ Distinct(audit)'
  BY <1>1, <1>2 DEF Accounting, Ordered, Distinct
<1>6. Accounting'
  <2>1. CASE Generated
    <3>1. phase' = "ground" /\ at = 0 /\ grounded = <<>> /\ worksheet = <<>> /\ audit = <<>>
      BY <1>1, <2>1 DEF Generated, Accounting
    <3>2. QED  BY <1>2, <1>5, <3>1 DEF Accounting, Filtering
  <2>2. CASE NotJson
    BY <1>1, <1>2, <1>5, <2>2 DEF NotJson, Accounting
  <2>3. CASE Emit
    <3>1. phase' = "emitted" /\ at = Len(grounded) /\ Weighing
      BY <1>1, <2>3 DEF Emit, Accounting
    <3>2. Weighing'
      <4>1. /\ at' = at /\ grounded' = grounded /\ drafts' = drafts
            /\ worksheet' = worksheet /\ audit' = audit /\ gate' = gate
        BY <1>2, <2>3 DEF Emit
      <4>2. /\ Len(grounded') <= Len(drafts') /\ at' <= Len(grounded')
            /\ Len(worksheet') + Len(audit') + Len(grounded') = Len(drafts') + at'
        BY <3>1, <4>1 DEF Weighing
      <4>3. /\ Ordered(worksheet)'
            /\ \A n \in 1..Len(worksheet') : \E m \in 1..at' : worksheet'[n].of = grounded'[m].of
        BY <3>1, <4>1 DEF Weighing, Ordered
      <4>4. \A i \in 1..Len(drafts') : (InBody(i)' \/ Follows(at, i)') <=> ~InAudit(i)'
        BY <3>1, <4>1 DEF Weighing, InBody, InAudit, Follows
      <4>5. QED  BY <4>2, <4>3, <4>4 DEF Weighing
    <3>3. at' = at /\ grounded' = grounded
      BY <1>2
    <3>4. QED  BY <1>5, <3>1, <3>2, <3>3 DEF Accounting
  <2>4. CASE Raise
    BY <1>5, <2>4 DEF Raise, Accounting
  <2>5. QED  BY <2>1, <2>2, <2>3, <2>4
<1>7. QED  BY <1>3, <1>4, <1>6 DEF GateInv

\* Stage A ends: every draft is let through or on record, so that none is
\* missing where Stage B begins.
LEMMA GroundedStep ==
    ASSUME GateInv, Grounded
    PROVE  GateInv'
<1>1. TypeOK /\ Accounting /\ Standards
  BY DEF GateInv
<1>2. /\ phase = "ground" /\ at = Len(drafts) /\ phase' = "judge" /\ at' = 0
      /\ UNCHANGED <<gate, critic, generator, tries, drafts, grounded, worksheet, audit>>
  BY DEF Grounded
<1>3. Filtering /\ Ordered(grounded) /\ Distinct(audit)
  BY <1>1, <1>2 DEF Accounting
<1>4. /\ Len(drafts) \in Nat /\ Len(grounded) \in Nat /\ Len(audit) \in Nat
      /\ drafts \in Seq(Drafts) /\ grounded \in Seq(Findings)
  BY <1>1 DEF TypeOK
<1>5. TypeOK'
  BY <1>1, <1>2, <1>4 DEF TypeOK
<1>6. Standards'
  BY <1>1, <1>2 DEF Standards, Graded, Admitted, Finding, Earned, Justified, Groundless
<1>7. Weighing'
  <2>1. Len(grounded) <= Len(drafts) /\ worksheet = <<>>
        /\ Len(audit) + Len(grounded) = Len(drafts)
    BY <1>2, <1>3, <1>4 DEF Filtering
  <2>2. \A i \in 1..Len(drafts) : Follows(0, i) <=> ~InAudit(i)
    BY <1>2, <1>3 DEF Filtering
  <2>3. \A i : ~InBody(i)
    BY <2>1 DEF InBody
  <2>4. Len(grounded') <= Len(drafts') /\ at' <= Len(grounded')
        /\ Len(worksheet') + Len(audit') + Len(grounded') = Len(drafts') + at'
    BY <1>2, <1>4, <2>1
  <2>5. \A j \in 1..Len(drafts') :
           (InBody(j)' \/ (\E n \in at' + 1..Len(grounded') : grounded'[n].of = j))
              <=> ~InAudit(j)'
    BY <1>2, <2>2, <2>3 DEF InBody, InAudit, Follows
  <2>6. Ordered(worksheet)'
    BY <1>2, <2>1 DEF Ordered
  <2>7. QED  BY <1>2, <2>1, <2>4, <2>5, <2>6 DEF Weighing, Follows
<1>8. Ordered(grounded)' /\ Distinct(audit)'
  BY <1>2, <1>3 DEF Ordered, Distinct
<1>9. Accounting'
  BY <1>2, <1>7, <1>8 DEF Accounting
<1>10. QED  BY <1>5, <1>6, <1>9 DEF GateInv

\* Stage A looks at the next draft: it is let through, or put on record.
LEMMA GroundStep ==
    ASSUME GateInv, Ground
    PROVE  GateInv'
<1> DEFINE i == at + 1
           r == [of |-> i, reason |-> "invalid_tags"]
<1>1. TypeOK /\ Accounting /\ Standards
  BY DEF GateInv
<1>2. /\ phase = "ground" /\ at < Len(drafts) /\ at' = i
      /\ UNCHANGED <<gate, critic, generator, tries, phase, drafts, worksheet>>
  BY DEF Ground
<1>3. Filtering /\ Ordered(grounded) /\ Distinct(audit)
  BY <1>1, <1>2 DEF Accounting
<1>4. /\ at \in Nat /\ Len(drafts) \in Nat /\ i \in 1..Len(drafts) /\ i \in Nat
      /\ drafts \in Seq(Drafts) /\ grounded \in Seq(Findings)
      /\ audit \in Seq([of : Nat, reason : Reasons]) /\ at' \in 0..Len(drafts)
  BY <1>1, <1>2 DEF TypeOK
<1>5. worksheet = <<>> /\ worksheet' = <<>>
  BY <1>2, <1>3 DEF Filtering
<1>6. Finding(i) \in Findings
  BY <1>1, <1>4, DraftType
<1> HIDE DEF i
<1>7. CASE Groundless(drafts[i])
  <2>1. audit' = Append(audit, r) /\ UNCHANGED grounded
    BY <1>7 DEF Ground, Reject, i
  <2>2. r \in [of : Nat, reason : Reasons] /\ r.of = i
    BY <1>4 DEF Reasons
  <2>3. /\ audit' \in Seq([of : Nat, reason : Reasons]) /\ Len(audit) \in Nat
        /\ Len(audit') = Len(audit) + 1
        /\ \A n \in 1..Len(audit) : audit'[n] = audit[n]
        /\ audit'[Len(audit) + 1] = r
    <3> HIDE DEF r
    <3>1. QED  BY <1>4, <2>1, <2>2, Appended
  <2>4. TypeOK'
    BY <1>1, <1>2, <1>4, <2>1, <2>3 DEF TypeOK
  <2>5. Accounting'
    <3>1. Len(grounded) + Len(audit') = at'
      BY <1>2, <1>3, <1>4, <2>3 DEF Filtering, i
    <3>2. \A n \in 1..Len(grounded) : grounded[n].of \in 1..at'
      BY <1>2, <1>3, <1>4 DEF Filtering, i
    <3>3. ASSUME NEW n \in 1..Len(audit') PROVE audit'[n].of \in 1..at'
      <4>1. CASE n \in 1..Len(audit)
        <5>1. audit[n].of \in 1..at /\ audit'[n] = audit[n]
          BY <1>3, <2>3, <4>1 DEF Filtering
        <5>2. QED  BY <1>2, <1>4, <5>1 DEF i
      <4>2. CASE n = Len(audit) + 1
        BY <1>2, <1>4, <2>2, <2>3, <4>2 DEF i
      <4>3. QED  BY <2>3, <4>1, <4>2
    <3>4. ASSUME NEW j \in 1..at'
          PROVE  (\E n \in 0 + 1..Len(grounded) : grounded[n].of = j) <=>
                    ~ \E n \in 1..Len(audit') : audit'[n].of = j
      <4>1. CASE j = i
        <5>1. ~ \E n \in 0 + 1..Len(grounded) : grounded[n].of = j
          BY <1>3, <1>4, <4>1 DEF Filtering, i
        <5>2. Len(audit) + 1 \in 1..Len(audit') /\ audit'[Len(audit) + 1].of = j
          BY <2>2, <2>3, <4>1
        <5>3. QED  BY <5>1, <5>2
      <4>2. CASE j # i
        <5>1. j \in 1..at
          BY <1>2, <1>4, <4>2 DEF i
        <5>2. (\E n \in 1..Len(audit') : audit'[n].of = j) <=> InAudit(j)
          <6>1. \A n \in 1..Len(audit') : n \in 1..Len(audit) \/ n = Len(audit) + 1
            BY <2>3
          <6>2. \A n \in 1..Len(audit) : n \in 1..Len(audit')
            BY <2>3
          <6>3. QED  BY <2>2, <2>3, <4>2, <6>1, <6>2 DEF InAudit
        <5>3. QED  BY <1>3, <5>1, <5>2 DEF Filtering, Follows
      <4>3. QED  BY <4>1, <4>2
    <3>5. Filtering'
      BY <1>5, <2>1, <3>1, <3>2, <3>3, <3>4 DEF Filtering, Follows, InAudit
    <3>6. Ordered(grounded)'
      BY <1>3, <2>1 DEF Ordered
    <3>7. Distinct(audit)'
      <4>1. ASSUME NEW m \in 1..Len(audit'), NEW n \in 1..Len(audit'),
                   audit'[m].of = audit'[n].of
            PROVE  m = n
        <5>1. \A l \in 1..Len(audit') : l = Len(audit) + 1 \/ l \in 1..Len(audit)
          BY <2>3
        <5>2. \A l \in 1..Len(audit) : audit'[l] = audit[l] /\ audit[l].of # i
          <6>1. i \notin 1..at
            BY <1>4 DEF i
          <6>2. \A l \in 1..Len(audit) : audit[l].of \in 1..at
            BY <1>3 DEF Filtering
          <6>3. QED  BY <2>3, <6>1, <6>2
        <5>3. audit'[Len(audit) + 1].of = i
          BY <2>2, <2>3
        <5>4. CASE m \in 1..Len(audit) /\ n \in 1..Len(audit)
          BY <1>3, <4>1, <5>2, <5>4 DEF Distinct
        <5>5. QED  BY <4>1, <5>1, <5>2, <5>3, <5>4
      <4>2. QED  BY <4>1 DEF Distinct
    <3>8. QED  BY <1>2, <3>5, <3>6, <3>7 DEF Accounting
  <2>6. Standards'
    <3>1. ASSUME NEW n \in 1..Len(audit') PROVE Justified(audit[n])'
      <4>1. CASE n \in 1..Len(audit)
        <5>1. Justified(audit[n]) /\ audit'[n] = audit[n]
          BY <1>1, <2>3, <4>1 DEF Standards
        <5>2. QED  BY <1>2, <5>1 DEF Justified, Groundless
      <4>2. CASE n = Len(audit) + 1
        <5>1. audit'[n].of = i /\ audit'[n].reason = "invalid_tags"
          BY <2>2, <2>3, <4>2
        <5>2. QED  BY <1>2, <1>4, <1>7, <5>1 DEF Justified, Groundless
      <4>3. QED  BY <2>3, <4>1, <4>2
    <3>2. \A n \in 1..Len(grounded') : Admitted(grounded[n])'
      BY <1>1, <1>2, <2>1 DEF Standards, Admitted, Finding
    <3>3. \A n \in 1..Len(drafts') : Graded(n)'
      BY <1>1, <1>2 DEF Standards, Graded
    <3>4. QED  BY <1>5, <3>1, <3>2, <3>3 DEF Standards
  <2>7. QED  BY <2>4, <2>5, <2>6 DEF GateInv
<1>8. CASE ~Groundless(drafts[i])
  <2>1. grounded' = Append(grounded, Finding(i)) /\ UNCHANGED audit
    BY <1>8 DEF Ground, i
  <2>2. Finding(i).of = i
    BY DEF Finding
  <2>3. /\ grounded' \in Seq(Findings) /\ Len(grounded) \in Nat
        /\ Len(grounded') = Len(grounded) + 1
        /\ \A n \in 1..Len(grounded) : grounded'[n] = grounded[n]
        /\ grounded'[Len(grounded) + 1] = Finding(i)
    BY <1>4, <1>6, <2>1, Appended
  <2>4. TypeOK'
    BY <1>1, <1>2, <1>4, <2>1, <2>3 DEF TypeOK
  <2>5. Accounting'
    <3>1. Len(grounded') + Len(audit) = at' /\ Len(audit) \in Nat
      BY <1>2, <1>3, <1>4, <2>3 DEF Filtering, i
    <3>2. ASSUME NEW n \in 1..Len(grounded') PROVE grounded'[n].of \in 1..at'
      <4>1. CASE n \in 1..Len(grounded)
        <5>1. grounded[n].of \in 1..at /\ grounded'[n] = grounded[n]
          BY <1>3, <2>3, <4>1 DEF Filtering
        <5>2. QED  BY <1>2, <1>4, <5>1 DEF i
      <4>2. CASE n = Len(grounded) + 1
        BY <1>2, <1>4, <2>2, <2>3, <4>2 DEF i
      <4>3. QED  BY <2>3, <4>1, <4>2
    <3>3. \A n \in 1..Len(audit) : audit[n].of \in 1..at'
      BY <1>2, <1>3, <1>4 DEF Filtering, i
    <3>4. ASSUME NEW j \in 1..at'
          PROVE  (\E n \in 0 + 1..Len(grounded') : grounded'[n].of = j) <=>
                    ~ \E n \in 1..Len(audit) : audit[n].of = j
      <4>1. CASE j = i
        <5>1. ~ \E n \in 1..Len(audit) : audit[n].of = j
          BY <1>3, <1>4, <3>1, <4>1 DEF Filtering, i
        <5>2. Len(grounded) + 1 \in 0 + 1..Len(grounded')
              /\ grounded'[Len(grounded) + 1].of = j
          BY <2>2, <2>3, <4>1
        <5>3. QED  BY <5>1, <5>2
      <4>2. CASE j # i
        <5>1. j \in 1..at
          BY <1>2, <1>4, <4>2 DEF i
        <5>2. (\E n \in 0 + 1..Len(grounded') : grounded'[n].of = j) <=> Follows(0, j)
          <6>1. \A n \in 0 + 1..Len(grounded') :
                   n \in 0 + 1..Len(grounded) \/ n = Len(grounded) + 1
            BY <2>3
          <6>2. \A n \in 0 + 1..Len(grounded) :
                   n \in 0 + 1..Len(grounded') /\ grounded'[n] = grounded[n]
            BY <2>3
          <6>3. QED  BY <2>2, <2>3, <4>2, <6>1, <6>2 DEF Follows
        <5>3. QED  BY <1>3, <5>1, <5>2 DEF Filtering, InAudit
      <4>3. QED  BY <4>1, <4>2
    <3>5. Filtering'
      BY <1>5, <2>1, <3>1, <3>2, <3>3, <3>4 DEF Filtering, Follows, InAudit
    <3>6. Ordered(grounded)'
      <4>1. ASSUME NEW m \in 1..Len(grounded'), NEW n \in 1..Len(grounded'), m < n
            PROVE  grounded'[m].of < grounded'[n].of
        <5>1. m \in 1..Len(grounded) /\ grounded'[m] = grounded[m]
          BY <2>3, <4>1
        <5>2. CASE n \in 1..Len(grounded)
          BY <1>3, <2>3, <4>1, <5>1, <5>2 DEF Ordered
        <5>3. CASE n = Len(grounded) + 1
          <6>1. grounded[m].of \in 1..at
            BY <1>3, <5>1 DEF Filtering
          <6>2. grounded'[n].of = at + 1
            BY <2>2, <2>3, <5>3 DEF i
          <6>3. QED  BY <1>4, <5>1, <6>1, <6>2
        <5>4. QED  BY <2>3, <5>2, <5>3
      <4>2. QED  BY <4>1 DEF Ordered
    <3>7. Distinct(audit)'
      BY <1>3, <2>1 DEF Distinct
    <3>8. QED  BY <1>2, <3>5, <3>6, <3>7 DEF Accounting
  <2>6. Standards'
    <3>1. ASSUME NEW n \in 1..Len(grounded') PROVE Admitted(grounded[n])'
      <4>1. CASE n \in 1..Len(grounded)
        <5>1. Admitted(grounded[n]) /\ grounded'[n] = grounded[n]
          BY <1>1, <2>3, <4>1 DEF Standards
        <5>2. QED  BY <1>2, <5>1 DEF Admitted, Finding
      <4>2. CASE n = Len(grounded) + 1
        <5>1. grounded'[n] = Finding(i) /\ (gate => drafts[i].tags \subseteq Tags)
          BY <1>8, <2>3, <4>2 DEF Groundless
        <5>2. QED  BY <1>2, <1>4, <2>2, <5>1 DEF Admitted, Finding
      <4>3. QED  BY <2>3, <4>1, <4>2
    <3>2. \A n \in 1..Len(audit') : Justified(audit[n])'
      BY <1>1, <1>2, <2>1 DEF Standards, Justified, Groundless
    <3>3. \A n \in 1..Len(drafts') : Graded(n)'
      BY <1>1, <1>2 DEF Standards, Graded
    <3>4. QED  BY <1>5, <3>1, <3>2, <3>3 DEF Standards
  <2>7. QED  BY <2>4, <2>5, <2>6 DEF GateInv
<1>9. QED  BY <1>7, <1>8

\* What was among the findings to judge before finding k + 1 was taken.
LEMMA FollowsStep ==
    ASSUME NEW k \in Nat, Len(grounded) \in Nat, k + 1 \in 1..Len(grounded), NEW i
    PROVE  Follows(k, i) <=> i = grounded[k + 1].of \/ Follows(k + 1, i)
<1>1. \A n \in k + 1..Len(grounded) : n = k + 1 \/ n \in (k + 1) + 1..Len(grounded)
  OBVIOUS
<1>2. k + 1 \in k + 1..Len(grounded)
  OBVIOUS
<1>3. \A n \in (k + 1) + 1..Len(grounded) : n \in k + 1..Len(grounded)
  OBVIOUS
<1>4. QED  BY <1>1, <1>2, <1>3 DEF Follows

\* Stage B takes the next finding: it is accepted, or put on record.
LEMMA StageBStep ==
    ASSUME GateInv, PassThrough \/ LexicalCheck \/ ModelCheck
    PROVE  GateInv'
<1> DEFINE f == Subject
           i == f.of
           k == at + 1
<1>1. TypeOK /\ Accounting /\ Standards
  BY DEF GateInv
<1>2. /\ phase = "judge" /\ at < Len(grounded) /\ at' = k
      /\ UNCHANGED <<gate, critic, generator, tries, phase, drafts, grounded>>
  BY StageB DEF Judging
<1>3. Weighing /\ Ordered(grounded) /\ Distinct(audit)
  BY <1>1, <1>2 DEF Accounting
<1>4. /\ at \in Nat /\ k \in Nat /\ Len(grounded) \in Nat /\ Len(drafts) \in Nat
      /\ drafts \in Seq(Drafts) /\ grounded \in Seq(Findings)
      /\ worksheet \in Seq(Findings) /\ audit \in Seq([of : Nat, reason : Reasons])
      /\ Len(worksheet) \in Nat /\ Len(audit) \in Nat
  BY <1>1 DEF TypeOK
<1>5. /\ k \in 1..Len(grounded) /\ f \in Findings /\ i \in 1..Len(drafts)
      /\ grounded[k] = f /\ grounded[k].of = i
  BY StageB, SubjectType DEF Subject
<1>6. at' \in 0..Len(drafts) /\ at' <= Len(grounded)
  BY <1>2, <1>3, <1>4 DEF Weighing
<1>7. \A j : Follows(at, j) <=> j = i \/ Follows(k, j)
  BY <1>4, <1>5, FollowsStep
<1>8. ~Follows(k, i)
  BY <1>3, <1>4, <1>5 DEF Ordered, Follows
<1>9. ~InBody(i)
  <2>1. ASSUME NEW n \in 1..Len(worksheet), worksheet[n].of = i PROVE FALSE
    <3>1. PICK m \in 1..at : grounded[m].of = i
      BY <1>3, <2>1 DEF Weighing
    <3>2. m \in 1..Len(grounded) /\ m < k
      BY <1>2, <1>4
    <3>3. grounded[m].of < grounded[k].of /\ i \in Nat
      BY <1>3, <1>5, <3>2 DEF Ordered
    <3>4. QED  BY <1>5, <3>1, <3>3
  <2>2. QED  BY <2>1 DEF InBody
<1>s. Len(worksheet) + Len(audit) + Len(grounded) = Len(drafts) + at
  BY <1>3 DEF Weighing
<1> HIDE DEF f, i, k
<1>10. Ordered(grounded)'
  BY <1>2, <1>3 DEF Ordered
<1>11. /\ \A n \in 1..Len(drafts') : Graded(n)'
       /\ \A n \in 1..Len(grounded') : Admitted(grounded[n])'
  BY <1>1, <1>2 DEF Standards, Graded, Admitted, Finding
<1>12. CASE Refuse(f) /\ critic # "none" /\ f.kept # {}
  <2> DEFINE r == [of |-> i, reason |-> "evidence_contradicted"]
  <2>1. audit' = Append(audit, r) /\ UNCHANGED worksheet
    BY <1>12 DEF Refuse, Reject, i
  <2>2. r \in [of : Nat, reason : Reasons] /\ r.of = i
        /\ r.reason = "evidence_contradicted"
    BY <1>5 DEF Reasons
  <2> HIDE DEF r
  <2>3. /\ audit' \in Seq([of : Nat, reason : Reasons])
        /\ Len(audit') = Len(audit) + 1
        /\ \A n \in 1..Len(audit) : audit'[n] = audit[n]
        /\ audit'[Len(audit) + 1] = r
    BY <1>4, <2>1, <2>2, Appended
  <2>4. TypeOK'
    BY <1>1, <1>2, <1>6, <2>1, <2>3 DEF TypeOK
  <2>5. Accounting'
    <3>1. Len(worksheet) + Len(audit') + Len(grounded) = Len(drafts) + at'
      <4>1. at' = at + 1 /\ Len(audit') = Len(audit) + 1
        BY <1>2, <2>3 DEF k
      <4>2. /\ at \in Nat /\ Len(grounded) \in Nat /\ Len(drafts) \in Nat
            /\ Len(worksheet) \in Nat /\ Len(audit) \in Nat
        BY <1>4
      <4>3. QED  BY <1>s, <4>1, <4>2
    <3>2. \A n \in 1..Len(worksheet) : \E m \in 1..at' : worksheet[n].of = grounded[m].of
      <4>1. 1..at \subseteq 1..at'
        BY <1>2, <1>4 DEF k
      <4>2. QED  BY <1>3, <4>1 DEF Weighing
    <3>3. ASSUME NEW j \in 1..Len(drafts)
          PROVE  (InBody(j) \/ Follows(k, j)) <=> ~ \E n \in 1..Len(audit') : audit'[n].of = j
      <4>1. (\E n \in 1..Len(audit') : audit'[n].of = j) <=> InAudit(j) \/ j = i
        <5>1. \A n \in 1..Len(audit') : n \in 1..Len(audit) \/ n = Len(audit) + 1
          BY <1>4, <2>3
        <5>2. \A n \in 1..Len(audit) : n \in 1..Len(audit')
          BY <1>4, <2>3
        <5>3. Len(audit) + 1 \in 1..Len(audit')
          BY <1>4, <2>3
        <5>4. QED  BY <2>2, <2>3, <5>1, <5>2, <5>3 DEF InAudit
      <4>2. (InBody(j) \/ Follows(at, j)) <=> ~InAudit(j)
        BY <1>3 DEF Weighing
      <4>3. QED  BY <1>7, <1>8, <1>9, <4>1, <4>2
    <3>4. Weighing'
      <4>1. Ordered(worksheet)'
        BY <1>3, <2>1 DEF Weighing, Ordered
      <4>2. Len(grounded') <= Len(drafts')
        BY <1>2, <1>3 DEF Weighing
      <4>3. \A j \in 1..Len(drafts') : (InBody(j) \/ Follows(at, j))' <=> ~InAudit(j)'
        BY <1>2, <2>1, <3>3 DEF InBody, InAudit, Follows
      <4>4. QED  BY <1>2, <1>6, <2>1, <3>1, <3>2, <4>1, <4>2, <4>3 DEF Weighing
    <3>5. Distinct(audit)'
      <4>1. ~InAudit(i)
        BY <1>3, <1>5, <1>7 DEF Weighing
      <4>2. ASSUME NEW m \in 1..Len(audit'), NEW n \in 1..Len(audit'),
                   audit'[m].of = audit'[n].of
            PROVE  m = n
        <5>1. \A l \in 1..Len(audit') : l = Len(audit) + 1 \/ l \in 1..Len(audit)
          BY <1>4, <2>3
        <5>2. \A l \in 1..Len(audit) : audit'[l] = audit[l] /\ audit[l].of # i
          BY <2>3, <4>1 DEF InAudit
        <5>3. audit'[Len(audit) + 1].of = i
          BY <2>2, <2>3
        <5>4. CASE m \in 1..Len(audit) /\ n \in 1..Len(audit)
          BY <1>3, <4>2, <5>2, <5>4 DEF Distinct
        <5>5. QED  BY <4>2, <5>1, <5>2, <5>3, <5>4
      <4>3. QED  BY <4>2 DEF Distinct
    <3>6. QED  BY <1>2, <1>10, <3>4, <3>5 DEF Accounting
  <2>6. Standards'
    <3>1. ASSUME NEW n \in 1..Len(audit') PROVE Justified(audit[n])'
      <4>1. CASE n \in 1..Len(audit)
        <5>1. Justified(audit[n]) /\ audit'[n] = audit[n]
          BY <1>1, <2>3, <4>1 DEF Standards
        <5>2. QED  BY <1>2, <5>1 DEF Justified, Groundless
      <4>2. CASE n = Len(audit) + 1
        <5>1. /\ critic # "none" /\ Known(drafts[i]) # {}
              /\ gate => drafts[i].tags \subseteq Tags
          BY <1>12, StageB, SubjectType DEF Admitted, f, i
        <5>2. audit'[n].of = i /\ audit'[n].reason = "evidence_contradicted"
          BY <2>2, <2>3, <4>2
        <5>3. QED  BY <1>2, <1>5, <5>1, <5>2 DEF Justified, Groundless
      <4>3. QED  BY <1>4, <2>3, <4>1, <4>2
    <3>2. \A n \in 1..Len(worksheet') : Earned(worksheet[n])'
      BY <1>1, <1>2, <2>1 DEF Standards, Earned, Finding
    <3>3. QED  BY <1>11, <3>1, <3>2 DEF Standards
  <2>7. QED  BY <2>4, <2>5, <2>6 DEF GateInv
<1>13. ASSUME NEW g \in Findings, g.of = i, Earned(g), Accept(g)
       PROVE  GateInv'
  <2>1. worksheet' = Append(worksheet, g) /\ UNCHANGED audit
    BY <1>13 DEF Accept
  <2>2. /\ worksheet' \in Seq(Findings)
        /\ Len(worksheet') = Len(worksheet) + 1
        /\ \A n \in 1..Len(worksheet) : worksheet'[n] = worksheet[n]
        /\ worksheet'[Len(worksheet) + 1] = g
    BY <1>4, <2>1, Appended
  <2>3. TypeOK'
    BY <1>1, <1>2, <1>6, <2>1, <2>2 DEF TypeOK
  <2>4. Accounting'
    <3>1. Len(worksheet') + Len(audit) + Len(grounded) = Len(drafts) + at'
      <4>1. at' = at + 1 /\ Len(worksheet') = Len(worksheet) + 1
        BY <1>2, <2>2 DEF k
      <4>2. /\ at \in Nat /\ Len(grounded) \in Nat /\ Len(drafts) \in Nat
            /\ Len(worksheet) \in Nat /\ Len(audit) \in Nat
        BY <1>4
      <4>3. QED  BY <1>s, <4>1, <4>2
    <3>2. ASSUME NEW n \in 1..Len(worksheet')
          PROVE  \E m \in 1..at' : worksheet'[n].of = grounded[m].of
      <4>1. CASE n \in 1..Len(worksheet)
        <5>1. 1..at \subseteq 1..at'
          BY <1>2, <1>4 DEF k
        <5>2. QED  BY <1>3, <2>2, <4>1, <5>1 DEF Weighing
      <4>2. CASE n = Len(worksheet) + 1
        <5>1. k \in 1..at' /\ worksheet'[n].of = grounded[k].of
          BY <1>2, <1>4, <1>5, <1>13, <2>2, <4>2 DEF k
        <5>2. QED  BY <5>1
      <4>3. n \in 1..Len(worksheet) \/ n = Len(worksheet) + 1
        BY <1>4, <2>2
      <4>4. QED  BY <4>1, <4>2, <4>3
    <3>3. ASSUME NEW j \in 1..Len(drafts)
          PROVE  ((\E n \in 1..Len(worksheet') : worksheet'[n].of = j) \/ Follows(k, j))
                    <=> ~InAudit(j)
      <4>1. (\E n \in 1..Len(worksheet') : worksheet'[n].of = j) <=> InBody(j) \/ j = i
        <5>1. \A n \in 1..Len(worksheet') : n \in 1..Len(worksheet) \/ n = Len(worksheet) + 1
          BY <1>4, <2>2
        <5>2. \A n \in 1..Len(worksheet) : n \in 1..Len(worksheet')
          BY <1>4, <2>2
        <5>3. Len(worksheet) + 1 \in 1..Len(worksheet')
          BY <1>4, <2>2
        <5>4. QED  BY <1>13, <2>2, <5>1, <5>2, <5>3 DEF InBody
      <4>2. (InBody(j) \/ Follows(at, j)) <=> ~InAudit(j)
        BY <1>3 DEF Weighing
      <4>3. QED  BY <1>7, <4>1, <4>2
    <3>4. ASSUME NEW m \in 1..Len(worksheet'), NEW n \in 1..Len(worksheet'), m < n
          PROVE  worksheet'[m].of < worksheet'[n].of
      <4>1. m \in 1..Len(worksheet) /\ worksheet'[m] = worksheet[m]
        BY <1>4, <2>2, <3>4
      <4>2. CASE n \in 1..Len(worksheet)
        BY <1>3, <2>2, <3>4, <4>1, <4>2 DEF Weighing, Ordered
      <4>3. CASE n = Len(worksheet) + 1
        <5>1. PICK p \in 1..at : worksheet[m].of = grounded[p].of
          BY <1>3, <4>1 DEF Weighing
        <5>2. p \in 1..Len(grounded) /\ p < k
          BY <1>2, <1>4 DEF k
        <5>3. grounded[p].of < grounded[k].of
          BY <1>3, <1>5, <5>2 DEF Ordered
        <5>4. QED  BY <1>5, <1>13, <2>2, <4>1, <4>3, <5>1, <5>3
      <4>4. QED  BY <1>4, <2>2, <4>2, <4>3
    <3>5. Weighing'
      <4>1. Ordered(worksheet)'
        BY <3>4 DEF Ordered
      <4>2. Len(grounded') <= Len(drafts')
        BY <1>2, <1>3 DEF Weighing
      <4>3. \A j \in 1..Len(drafts') : (InBody(j) \/ Follows(at, j))' <=> ~InAudit(j)'
        BY <1>2, <2>1, <3>3 DEF InBody, InAudit, Follows
      <4>4. QED  BY <1>2, <1>6, <2>1, <3>1, <3>2, <4>1, <4>2, <4>3 DEF Weighing
    <3>6. Distinct(audit)'
      BY <1>3, <2>1 DEF Distinct
    <3>7. QED  BY <1>2, <1>10, <3>5, <3>6 DEF Accounting
  <2>5. Standards'
    <3>1. ASSUME NEW n \in 1..Len(worksheet') PROVE Earned(worksheet[n])'
      <4>1. PICK w : worksheet'[n] = w /\ Earned(w)
        <5>1. CASE n \in 1..Len(worksheet)
          BY <1>1, <2>2, <5>1 DEF Standards
        <5>2. CASE n = Len(worksheet) + 1
          BY <1>13, <2>2, <5>2
        <5>3. QED  BY <1>4, <2>2, <5>1, <5>2
      <4>2. QED  BY <1>2, <4>1 DEF Earned, Finding
    <3>2. \A n \in 1..Len(audit') : Justified(audit[n])'
      BY <1>1, <1>2, <2>1 DEF Standards, Justified, Groundless
    <3>3. QED  BY <1>11, <3>1, <3>2 DEF Standards
  <2>6. QED  BY <2>3, <2>4, <2>5 DEF GateInv
<1>14. QED  BY <1>12, <1>13, StageB DEF f, i

\* No step breaks the invariant.
LEMMA GateStep == GateInv /\ [Next]_vars => GateInv'
<1> SUFFICES ASSUME GateInv, [Next]_vars PROVE GateInv'
  OBVIOUS
<1>1. ASSUME NEW item \in Items, Draft(item) PROVE GateInv'
  BY <1>1, DraftStep
<1>2. CASE Generated \/ NotJson \/ Emit \/ Raise
  BY <1>2, PhaseStep
<1>3. CASE Stub
  BY <1>3, StubStep
<1>4. CASE Ground
  BY <1>4, GroundStep
<1>5. CASE Grounded
  BY <1>5, GroundedStep
<1>6. CASE PassThrough \/ LexicalCheck \/ ModelCheck
  BY <1>6, StageBStep
<1>7. CASE UNCHANGED vars
  <2>1. UNCHANGED <<gate, critic, generator, phase, tries, drafts, at, grounded,
                    worksheet, audit>>
    BY <1>7 DEF vars
  <2>2. TypeOK' /\ Standards'
    BY <2>1 DEF GateInv, TypeOK, Standards, Graded, Admitted, Finding, Earned, Justified, Groundless
  <2>3. Ordered(grounded)' /\ Ordered(worksheet) = Ordered(worksheet)' /\ Distinct(audit)'
    BY <2>1 DEF GateInv, Accounting, Ordered, Distinct
  <2>4. Filtering => Filtering'
    BY <2>1 DEF Filtering, InAudit, Follows
  <2>5. Weighing => Weighing'
    BY <2>1, <2>3 DEF Weighing, InBody, InAudit, Follows
  <2>6. Accounting'
    BY <2>1, <2>3, <2>4, <2>5 DEF GateInv, Accounting
  <2>7. QED  BY <2>2, <2>6 DEF GateInv
<1>8. QED
  BY <1>1, <1>2, <1>3, <1>4, <1>5, <1>6, <1>7 DEF Next

\* Every variable of the gate stays within its type.
THEOREM GateTypeCorrect == Spec => []TypeOK
<1>1. GateInv => TypeOK
  BY DEF GateInv
<1>2. QED  BY <1>1, GateInit, GateStep, PTL DEF Spec

\* However many findings are generated, whatever tags they name and whatever a
\* critic says of them: when the row is emitted, each is in the body or in the
\* record of rejected findings, in one place only, and the body is in the
\* order generated.
THEOREM EveryFindingIsAccountedFor == Spec => []NothingLost
<1>1. GateInv => NothingLost
  <2> SUFFICES ASSUME GateInv, phase = "emitted"
               PROVE  /\ Len(worksheet) + Len(audit) = Len(drafts)
                      /\ \A i \in 1..Len(drafts) : InBody(i) <=> ~InAudit(i)
                      /\ \A m, n \in 1..Len(worksheet) :
                            m < n => worksheet[m].of < worksheet[n].of
    BY DEF NothingLost
  <2>1. TypeOK /\ Weighing /\ at = Len(grounded)
    BY DEF GateInv, Accounting
  <2>2. /\ Len(worksheet) \in Nat /\ Len(audit) \in Nat
        /\ Len(drafts) \in Nat /\ Len(grounded) \in Nat
    BY <2>1 DEF TypeOK
  <2>3. \A i : ~Follows(at, i)
    BY <2>1, <2>2 DEF Follows
  <2>4. Len(worksheet) + Len(audit) = Len(drafts)
    BY <2>1, <2>2 DEF Weighing
  <2>5. QED  BY <2>1, <2>3, <2>4 DEF Weighing, Ordered
<1>2. QED  BY <1>1, GateInit, GateStep, PTL DEF Spec

\* Whatever the generator claims and the critic answers, no finding of the body
\* names a tag the topology has not got (the gate on), cites a source it did
\* not cite or was not found to support, or shows more confidence than its
\* surviving citations compose; and none is rejected for tags that exist.
THEOREM OnlyTheEarnedStands == Spec => []FindingsAreEarned
<1>1. GateInv => FindingsAreEarned
  <2> SUFFICES ASSUME GateInv PROVE FindingsAreEarned
    OBVIOUS
  <2>1. /\ \A n \in 1..Len(worksheet) : Earned(worksheet[n])
        /\ \A n \in 1..Len(audit) : Justified(audit[n])
    BY DEF GateInv, Standards
  <2>2. BodyIsGrounded
    BY <2>1 DEF BodyIsGrounded, Earned, Justified, Groundless
  <2>3. CitationsAreEarned
    BY <2>1 DEF CitationsAreEarned, Earned
  <2>4. ConfidenceIsComposed
    BY <2>1 DEF ConfidenceIsComposed, Earned
  <2>5. QED  BY <2>2, <2>3, <2>4 DEF FindingsAreEarned
<1>2. QED  BY <1>1, GateInit, GateStep, PTL DEF Spec

----------------------------------------------------------------------------
(* RowAudit: counting findings. The audits count places of the row, and what *)
(* they should agree with is a number of drafts; a draft has one place.      *)

Cites(i) == Known(drafts[i]) # {} /\ ~Groundless(drafts[i])

\* The drafts in some places of the body or of the record.
Of(s, places) == {s[n].of : n \in places}

\* Any places of a sequence are finitely many.
LEMMA PlacesFinite ==
    ASSUME NEW k \in Nat, NEW A \in SUBSET (1..k)
    PROVE  IsFiniteSet(A)
<1> DEFINE U == 1..k
<1>1. IsFiniteSet(U)
  BY FS_Interval
<1>2. A \in SUBSET U
  OBVIOUS
<1> HIDE DEF U
<1>3. QED  BY <1>1, <1>2, FS_Subset

\* Places of different drafts are as many as the drafts.
LEMMA CountByDraft ==
    ASSUME NEW s, NEW A, IsFiniteSet(A),
           \A m, n \in A : s[m].of = s[n].of => m = n
    PROVE  /\ IsFiniteSet(Of(s, A))
           /\ Cardinality(A) \in Nat
           /\ Cardinality(Of(s, A)) = Cardinality(A)
<1> DEFINE f == [n \in A |-> s[n].of]
<1>1. f \in Bijection(A, Of(s, A))
  BY DEF Bijection, Injection, Surjection, IsInjective, Of
<1>2. ExistsBijection(A, Of(s, A))
  BY <1>1 DEF ExistsBijection
<1>3. QED  BY <1>2, FS_Bijection, FS_CardinalityType

\* The number of drafts in two kinds of place that share none.
LEMMA CountBoth ==
    ASSUME NEW s, NEW A, IsFiniteSet(A),
           \A m, n \in A : s[m].of = s[n].of => m = n,
           NEW t, NEW B, IsFiniteSet(B),
           \A m, n \in B : t[m].of = t[n].of => m = n,
           Of(s, A) \cap Of(t, B) = {}
    PROVE  Cardinality(Of(s, A) \cup Of(t, B)) = Cardinality(A) + Cardinality(B)
<1> DEFINE S == Of(s, A)
           T == Of(t, B)
<1>1. /\ IsFiniteSet(S) /\ Cardinality(S) = Cardinality(A) /\ Cardinality(A) \in Nat
      /\ IsFiniteSet(T) /\ Cardinality(T) = Cardinality(B) /\ Cardinality(B) \in Nat
  BY CountByDraft
<1> HIDE DEF S, T
<1>2. S \cap T = {}
  BY DEF S, T
<1>3. Cardinality(S \cup T) = Cardinality(S) + Cardinality(T) - Cardinality(S \cap T)
  BY <1>1, FS_Union
<1>4. Cardinality(S \cap T) = 0
  BY <1>2, FS_EmptySet
<1>5. Cardinality(S \cup T) = Cardinality(A) + Cardinality(B)
  BY <1>1, <1>3, <1>4
<1>6. QED  BY <1>5 DEF S, T

\* Where every draft is when the row is emitted.
LEMMA EmittedRow ==
    ASSUME GateInv, phase = "emitted"
    PROVE  /\ worksheet \in Seq(Findings) /\ Len(worksheet) \in Nat
           /\ audit \in Seq([of : Nat, reason : Reasons]) /\ Len(audit) \in Nat
           /\ DOMAIN audit = 1..Len(audit) /\ DOMAIN drafts = 1..Len(drafts)
           /\ \A m, n \in Body : worksheet[m].of = worksheet[n].of => m = n
           /\ \A m, n \in 1..Len(audit) : audit[m].of = audit[n].of => m = n
           /\ \A n \in Body : worksheet[n].of \in 1..Len(drafts) /\ Earned(worksheet[n])
           /\ \A n \in 1..Len(audit) : audit[n].of \in 1..Len(drafts) /\ Justified(audit[n])
           /\ Len(worksheet) + Len(audit) = Len(drafts)
           /\ \A i \in 1..Len(drafts) : InBody(i) <=> ~InAudit(i)
<1>1. TypeOK /\ Weighing /\ at = Len(grounded) /\ Distinct(audit) /\ Standards
  BY DEF GateInv, Accounting
<1>2. /\ worksheet \in Seq(Findings) /\ Len(worksheet) \in Nat
      /\ audit \in Seq([of : Nat, reason : Reasons]) /\ Len(audit) \in Nat
      /\ DOMAIN audit = 1..Len(audit) /\ DOMAIN drafts = 1..Len(drafts)
      /\ Len(drafts) \in Nat /\ Len(grounded) \in Nat
  BY <1>1 DEF TypeOK
<1>3. \A n \in Body : worksheet[n].of \in 1..Len(drafts) /\ Earned(worksheet[n])
  BY <1>1 DEF Standards, Earned, Body
<1>4. \A n \in 1..Len(audit) : audit[n].of \in 1..Len(drafts) /\ Justified(audit[n])
  BY <1>1 DEF Standards, Justified
<1>5. ASSUME NEW m \in Body, NEW n \in Body, worksheet[m].of = worksheet[n].of
      PROVE  m = n
  <2>1. worksheet[m].of \in Nat /\ worksheet[n].of \in Nat
    BY <1>2, <1>3
  <2>2. /\ m < n => worksheet[m].of < worksheet[n].of
        /\ n < m => worksheet[n].of < worksheet[m].of
    BY <1>1 DEF Weighing, Ordered, Body
  <2>3. QED  BY <1>2, <1>5, <2>1, <2>2 DEF Body
<1>6. \A i : ~Follows(at, i)
  BY <1>1, <1>2 DEF Follows
<1>7. Len(worksheet) + Len(audit) = Len(drafts)
  <2>1. Len(worksheet) + Len(audit) + Len(grounded) = Len(drafts) + at
    BY <1>1 DEF Weighing
  <2>2. at = Len(grounded)
    BY <1>1
  <2>3. /\ Len(worksheet) \in Nat /\ Len(audit) \in Nat
        /\ Len(grounded) \in Nat /\ Len(drafts) \in Nat
    BY <1>2
  <2>4. QED  BY <2>1, <2>2, <2>3
<1>8. QED
  BY <1>1, <1>2, <1>3, <1>4, <1>5, <1>6, <1>7 DEF Weighing, Distinct

\* What is left in a finding of the body tells whether it ever cited a source,
\* whether it was judged, and whether a citation of it fell.
LEMMA BodyTells ==
    ASSUME GateInv, phase = "emitted", NEW n \in Body
    PROVE  LET f == worksheet[n]
               d == drafts[f.of]
           IN  /\ ~Groundless(d)
               /\ f.kept \subseteq Known(d)
               /\ OriginallyCited(f) <=> Known(d) # {}
               /\ critic = "none" => DOMAIN f.checks = {} /\ f.kept = Known(d)
               /\ critic # "none" =>
                     /\ DOMAIN f.checks = Known(d)
                     /\ HasFailedCheck(f) <=> f.kept # Known(d)
                     /\ \A e \in f.kept : f.checks[e] = "supported"
<1> DEFINE f == worksheet[n]
           d == drafts[f.of]
<1>1. Earned(f)
  BY EmittedRow
<1>2. ~Groundless(d)
  BY <1>1 DEF Earned, Groundless
<1>3. CASE critic = "none"
  <2>1. f = Finding(f.of)
    BY <1>1, <1>3 DEF Earned
  <2>2. f.kept = Known(d) /\ f.checks = <<>>
    <3> HIDE DEF f
    <3>1. QED  BY <2>1 DEF Finding
  <2>3. DOMAIN f.checks = {}
    BY <2>2
  <2> HIDE DEF f
  <2>4. QED  BY <1>2, <1>3, <2>2, <2>3 DEF OriginallyCited, f
<1>4. CASE critic # "none"
  <2>1. /\ DOMAIN f.checks = Known(d)
        /\ f.kept = {e \in DOMAIN f.checks : f.checks[e] = "supported"}
    BY <1>1, <1>4 DEF Earned
  <2> HIDE DEF f
  <2>2. HasFailedCheck(f) <=> f.kept # Known(d)
    BY <2>1 DEF HasFailedCheck
  <2>3. OriginallyCited(f) <=> Known(d) # {}
    BY <2>1 DEF OriginallyCited
  <2>4. QED  BY <1>2, <1>4, <2>1, <2>2, <2>3 DEF f
<1>5. QED  BY <1>3, <1>4

\* The record tells the drafts Stage B refused from those Stage A rejected.
LEMMA RecordTells ==
    ASSUME GateInv, phase = "emitted", NEW n \in 1..Len(audit)
    PROVE  /\ n \in Refused <=> ~Groundless(drafts[audit[n].of])
           /\ n \in Refused => critic # "none" /\ Cites(audit[n].of)
<1>a. /\ audit \in Seq([of : Nat, reason : Reasons]) /\ Len(audit) \in Nat
      /\ DOMAIN audit = 1..Len(audit)
      /\ \A m \in 1..Len(audit) : Justified(audit[m])
  BY EmittedRow
<1>1. /\ audit[n] \in [of : Nat, reason : Reasons] /\ Justified(audit[n])
      /\ DOMAIN audit = 1..Len(audit)
  <2> DEFINE R == [of : Nat, reason : Reasons]
  <2>1. audit \in Seq(R)
    BY <1>a
  <2> HIDE DEF R
  <2>2. audit[n] \in R
    BY <2>1
  <2>3. QED  BY <1>a, <2>2 DEF R
<1>2. audit[n].reason = "invalid_tags" <=> Groundless(drafts[audit[n].of])
  BY <1>1 DEF Justified
<1>3. audit[n].reason \in {"invalid_tags", "evidence_contradicted"}
  BY <1>1 DEF Reasons
<1>4. n \in Refused <=> audit[n].reason = "evidence_contradicted"
  BY <1>1 DEF Refused
<1>5. n \in Refused => critic # "none" /\ Known(drafts[audit[n].of]) # {}
  BY <1>1, <1>4 DEF Justified
<1>6. QED  BY <1>2, <1>3, <1>4, <1>5 DEF Cites

\* No draft is both in the body and on the record.
LEMMA ApartFromRecord ==
    ASSUME GateInv, phase = "emitted", NEW A \in SUBSET Body,
           NEW B \in SUBSET (1..Len(audit))
    PROVE  Of(worksheet, A) \cap Of(audit, B) = {}
<1> SUFFICES ASSUME NEW n \in A, NEW m \in B, worksheet[n].of = audit[m].of
             PROVE  FALSE
  BY DEF Of
<1>1. n \in 1..Len(worksheet) /\ worksheet[n].of \in 1..Len(drafts)
  BY EmittedRow DEF Body
<1>2. InBody(worksheet[n].of) /\ InAudit(worksheet[n].of)
  BY <1>1 DEF InBody, InAudit
<1>3. QED  BY <1>1, <1>2, EmittedRow

\* The findings counted as bearing citations are the drafts that cited.
LEMMA BearingAreCited ==
    ASSUME GateInv, phase = "emitted"
    PROVE  {i \in DOMAIN drafts : Cites(i)} = Of(worksheet, Bearing) \cup Of(audit, Refused)
<1>1. /\ DOMAIN drafts = 1..Len(drafts) /\ DOMAIN audit = 1..Len(audit)
      /\ \A n \in Body : worksheet[n].of \in 1..Len(drafts)
      /\ \A n \in 1..Len(audit) : audit[n].of \in 1..Len(drafts)
  BY EmittedRow
<1>2. ASSUME NEW i \in 1..Len(drafts), Cites(i)
      PROVE  i \in Of(worksheet, Bearing) \cup Of(audit, Refused)
  <2>1. CASE InBody(i)
    <3>1. PICK n \in Body : worksheet[n].of = i
      BY <2>1 DEF InBody, Body
    <3>2. n \in Bearing
      BY <1>2, <3>1, BodyTells DEF Bearing, Cites
    <3>3. QED  BY <3>1, <3>2 DEF Of
  <2>2. CASE InAudit(i)
    <3>1. PICK n \in 1..Len(audit) : audit[n].of = i
      BY <2>2 DEF InAudit
    <3>2. n \in Refused
      BY <1>2, <3>1, RecordTells DEF Cites
    <3>3. QED  BY <3>1, <3>2 DEF Of
  <2>3. QED  BY <2>1, <2>2, EmittedRow
<1>3. ASSUME NEW n \in Bearing
      PROVE  worksheet[n].of \in 1..Len(drafts) /\ Cites(worksheet[n].of)
  BY <1>1, BodyTells DEF Bearing, Cites
<1>4. ASSUME NEW n \in Refused
      PROVE  audit[n].of \in 1..Len(drafts) /\ Cites(audit[n].of)
  <2>1. n \in 1..Len(audit)
    BY <1>1 DEF Refused
  <2>2. QED  BY <1>1, <2>1, RecordTells
<1>5. QED  BY <1>1, <1>2, <1>3, <1>4 DEF Of

\* Drafts all the known citations of which still stand.
Whole == {worksheet[n].of : n \in {m \in Body : LET f == worksheet[m]
             IN f.kept # {} /\ f.kept = Known(drafts[f.of])}}

\* The findings counted as failures are the drafts some citation of which fell.
LEMMA FailingAreNotWhole ==
    ASSUME GateInv, phase = "emitted", critic # "none"
    PROVE  {i \in DOMAIN drafts : Cites(i)} \ Whole
              = Of(worksheet, Failing) \cup Of(audit, Refused)
<1>1. {i \in DOMAIN drafts : Cites(i)} = Of(worksheet, Bearing) \cup Of(audit, Refused)
  BY BearingAreCited
<1>2. Of(worksheet, Body) \cap Of(audit, Refused) = {}
  <2>1. Refused \in SUBSET (1..Len(audit))
    BY EmittedRow DEF Refused
  <2>2. QED  BY <2>1, ApartFromRecord
<1>3. Whole \subseteq Of(worksheet, Body)
  BY DEF Whole, Of
<1>4. ASSUME NEW n \in Body
      PROVE  n \in Failing <=> n \in Bearing /\ worksheet[n].of \notin Whole
  <2> DEFINE f == worksheet[n]
             d == drafts[f.of]
  <2>1. /\ n \in Failing <=> f.kept # Known(d)
        /\ n \in Bearing <=> Known(d) # {}
        /\ f.kept \subseteq Known(d)
    BY BodyTells DEF Failing, Bearing
  <2>2. f.of \in Whole <=> f.kept # {} /\ f.kept = Known(d)
    <3>1. \A m \in Body : worksheet[m].of = f.of => m = n
      BY EmittedRow
    <3>2. QED  BY <3>1 DEF Whole
  <2> HIDE DEF f, d
  <2>3. QED  BY <2>1, <2>2 DEF f
<1>5. Failing \subseteq Body /\ Bearing \subseteq Body
  BY DEF Failing, Bearing
<1>6. Of(worksheet, Bearing) \ Whole = Of(worksheet, Failing)
  BY <1>4, <1>5 DEF Of
<1>7. QED  BY <1>1, <1>2, <1>3, <1>6

\* Places of the body and of the record, counted together, are drafts.
LEMMA CountDrafts ==
    ASSUME GateInv, phase = "emitted", NEW A \in SUBSET Body
    PROVE  Cardinality(A) + Cardinality(Refused)
              = Cardinality(Of(worksheet, A) \cup Of(audit, Refused))
<1>1. /\ Len(worksheet) \in Nat /\ Len(audit) \in Nat /\ DOMAIN audit = 1..Len(audit)
      /\ \A m, n \in Body : worksheet[m].of = worksheet[n].of => m = n
      /\ \A m, n \in 1..Len(audit) : audit[m].of = audit[n].of => m = n
  BY EmittedRow
<1>2. Refused \in SUBSET (1..Len(audit)) /\ A \in SUBSET (1..Len(worksheet))
  BY <1>1 DEF Refused, Body
<1>3. Of(worksheet, A) \cap Of(audit, Refused) = {}
  BY <1>2, ApartFromRecord
<1>4. /\ \A m, n \in A : worksheet[m].of = worksheet[n].of => m = n
      /\ \A m, n \in Refused : audit[m].of = audit[n].of => m = n
  BY <1>1, <1>2
<1>5. IsFiniteSet(A) /\ IsFiniteSet(Refused)
  BY <1>1, <1>2, PlacesFinite
<1>6. QED  BY <1>3, <1>4, <1>5, CountBoth

\* A set of numbers has a least one, and Min is it.
LEMMA MinLeast ==
    ASSUME NEW S \in SUBSET Nat, S # {}
    PROVE  Min(S) \in S /\ \A y \in S : Min(S) <= y
<1> DEFINE R == {ss \in Nat \X Nat : ss[1] < ss[2]}
<1>1. OpToRel(<, Nat) = R
  BY DEF OpToRel
<1>2. IsWellFoundedOn(R, Nat)
  BY <1>1, NatLessThanWellFounded, Zenon
<1>3. PICK x \in S : \A y \in S : <<y, x>> \notin R
  <2> HIDE DEF R
  <2>1. QED  BY <1>2, WFMin
<1>4. ASSUME NEW y \in S PROVE x <= y
  <2>1. x \in Nat /\ y \in Nat
    OBVIOUS
  <2>2. y < x => <<y, x>> \in R
    BY <2>1
  <2>3. QED  BY <1>3, <2>1, <2>2
<1>5. \E m \in S : \A y \in S : m <= y
  BY <1>4
<1>6. QED  BY <1>5 DEF Min

\* The part of AuditAgreesWithGate about an audit of the row as it is.
Agrees(r, ungrounded, flags, added) ==
    LET cited == {i \in DOMAIN drafts : Cites(i)}
    IN  /\ r.bearing = Cardinality(cited)
        /\ critic = "none" =>
              r.checked = 0 /\ r.failures = 0 /\ r.unverified = Cardinality(cited)
        /\ critic # "none" =>
              /\ r.checked = Cardinality(cited)
              /\ r.failures = Cardinality(cited \ Whole)
              /\ r.unverified = 0
              /\ \A line \in r.sheet : line[3] = "supported"
        /\ \A line \in r.sheet : line[2] \in Known(drafts[line[1]])
        /\ \A n \in Body :
              /\ ungrounded[n] \cap Tags = {}
              /\ gate => ungrounded[n] \cap drafts[worksheet[n].of].tags = {}
        /\ generator = "model" =>
              (flags.low <=> flags.unsupported \/ (worksheet = <<>> /\ added = {}))
        /\ flags.rejected + flags.accepted = Len(drafts) + Cardinality(added)

\* Without a critic nothing was checked, and all that cited is released so.
LEMMA CountsUnchecked ==
    ASSUME GateInv, phase = "emitted", critic = "none"
    PROVE  /\ Cardinality(Checked) + Cardinality(Refused) = 0
           /\ Cardinality(Failing) + Cardinality(Refused) = 0
           /\ Cardinality(Unverified) = Cardinality(Bearing) + Cardinality(Refused)
<1>1. Refused = {}
  <2>1. \A n \in Refused : n \in 1..Len(audit)
    BY EmittedRow DEF Refused
  <2>2. QED  BY <2>1, RecordTells
<1>2. ASSUME NEW n \in Body
      PROVE  /\ DOMAIN worksheet[n].checks = {}
             /\ n \in Candidates <=> n \in Bearing
  BY BodyTells DEF Candidates, Bearing, OriginallyCited
<1>3. Checked = {} /\ Failing = {}
  BY <1>2 DEF Checked, Failing, HasFailedCheck
<1>4. Unverified = Bearing
  <2>1. \A n \in Body : \A e : ShownVerdict(worksheet[n], e) = "unchecked"
    BY <1>2 DEF ShownVerdict
  <2>2. Unverified = Candidates
    BY <2>1 DEF Unverified, Candidates
  <2>3. QED  BY <1>2, <2>2 DEF Candidates, Bearing
<1>5. Cardinality(Bearing) \in Nat
  <2>1. /\ Len(worksheet) \in Nat /\ Bearing \in SUBSET (1..Len(worksheet))
        /\ \A m, n \in Bearing : worksheet[m].of = worksheet[n].of => m = n
    BY EmittedRow DEF Bearing, Body
  <2>2. IsFiniteSet(Bearing)
    BY <2>1, PlacesFinite
  <2>3. QED  BY <2>1, <2>2, CountByDraft
<1>6. QED  BY <1>1, <1>3, <1>4, <1>5, FS_EmptySet

\* With one, all that cited was checked, and a failure is a citation that fell.
LEMMA CountsChecked ==
    ASSUME GateInv, phase = "emitted", critic # "none"
    PROVE  /\ Checked = Bearing
           /\ Cardinality(Failing) + Cardinality(Refused)
                 = Cardinality({i \in DOMAIN drafts : Cites(i)} \ Whole)
           /\ Cardinality(Unverified) = 0
<1>1. ASSUME NEW n \in Body
      PROVE  /\ DOMAIN worksheet[n].checks # {} <=> OriginallyCited(worksheet[n])
             /\ worksheet[n].kept \subseteq DOMAIN worksheet[n].checks
             /\ \A e \in worksheet[n].kept : worksheet[n].checks[e] = "supported"
  BY BodyTells DEF OriginallyCited
<1>2. Checked = Bearing
  BY <1>1 DEF Checked, Bearing
<1>3. Unverified = {}
  BY <1>1 DEF Unverified, Candidates, ShownVerdict
<1>4. Failing \in SUBSET Body
  BY DEF Failing
<1>5. QED  BY <1>2, <1>3, <1>4, CountDrafts, FailingAreNotWhole, FS_EmptySet

\* A line of the sheet is a citation the finding made, with its verdict.
LEMMA SheetTells ==
    ASSUME GateInv, phase = "emitted", NEW sample \in SUBSET Candidates,
           NEW line \in Sheet(sample)
    PROVE  /\ line[2] \in Known(drafts[line[1]])
           /\ critic # "none" => line[3] = "supported"
<1>1. PICK n \in sample : \E e \in worksheet[n].kept :
         line = <<worksheet[n].of, e, ShownVerdict(worksheet[n], e)>>
  BY DEF Sheet
<1>2. PICK e \in worksheet[n].kept :
         line = <<worksheet[n].of, e, ShownVerdict(worksheet[n], e)>>
  BY <1>1
<1>3. line[1] = worksheet[n].of /\ line[2] = e
      /\ line[3] = ShownVerdict(worksheet[n], e)
  BY <1>2
<1>4. n \in Body
  BY DEF Candidates
<1>5. /\ e \in Known(drafts[worksheet[n].of])
      /\ critic # "none" => ShownVerdict(worksheet[n], e) = "supported"
  BY <1>4, BodyTells DEF ShownVerdict
<1>6. QED  BY <1>3, <1>5

\* A row is low on confidence exactly when something in it has no support, or
\* it has nothing.
LEMMA LowTells ==
    ASSUME GateInv, phase = "emitted", generator = "model",
           NEW added \in SUBSET {60, 99}
    PROVE  MinConfidence(added) < 40
              <=> \/ \E n \in Body : worksheet[n].kept = {}
                  \/ worksheet = <<>> /\ added = {}
<1> DEFINE all == {worksheet[n].conf : n \in Body} \cup added
<1>1. worksheet \in Seq(Findings) /\ Len(worksheet) \in Nat
  BY EmittedRow
<1>2. ASSUME NEW n \in Body
      PROVE  /\ worksheet[n].conf \in Nat
             /\ worksheet[n].conf < 40 <=> worksheet[n].kept = {}
  <2>1. worksheet[n] \in Findings
    BY <1>1 DEF Body
  <2>2. Earned(worksheet[n])
    BY EmittedRow
  <2>3. worksheet[n].conf \in Nat
    BY <2>1 DEF Findings
  <2>4. worksheet[n].conf < 40 <=> worksheet[n].kept = {}
    <3> HIDE DEF all
    <3>1. \A f : Earned(f) => (f.conf < 40 <=> f.kept = {})
      BY DEF Earned
    <3>2. QED  BY <2>2, <3>1
  <2>5. QED  BY <2>3, <2>4
<1>3. all \in SUBSET Nat
  <2>1. \A c \in all : c \in added \/ \E n \in Body : c = worksheet[n].conf
    OBVIOUS
  <2>2. \A c \in added : c \in Nat
    OBVIOUS
  <2>3. \A n \in Body : worksheet[n].conf \in Nat
    BY <1>2
  <2>4. SUFFICES ASSUME NEW c \in all PROVE c \in Nat
    OBVIOUS
  <2>5. CASE c \in added
    BY <2>2, <2>5
  <2>6. CASE \E n \in Body : c = worksheet[n].conf
    BY <2>3, <2>6
  <2> HIDE DEF all
  <2>7. QED  BY <2>1, <2>5, <2>6
<1>4. Body = {} <=> worksheet = <<>>
  <2>1. Body = {} <=> Len(worksheet) = 0
    <3>1. Len(worksheet) = 0 => Body = {}
      BY DEF Body
    <3>2. Len(worksheet) # 0 => 1 \in Body
      BY <1>1 DEF Body
    <3>3. QED  BY <3>1, <3>2
  <2>2. worksheet = <<>> <=> Len(worksheet) = 0
    BY <1>1
  <2>3. QED  BY <2>1, <2>2
<1>5. CASE all = {}
  <2>1. MinConfidence(added) = 0 /\ Body = {} /\ added = {}
    BY <1>5 DEF MinConfidence
  <2>2. QED  BY <1>4, <2>1
<1>6. CASE all # {}
  <2>1. MinConfidence(added) = Min(all)
    BY <1>6 DEF MinConfidence
  <2>2. Min(all) \in all /\ \A y \in all : Min(all) <= y
    <3> HIDE DEF all
    <3>1. QED  BY <1>3, <1>6, MinLeast
  <2>3. Min(all) \in Nat
    BY <1>3, <2>2
  <2>4. ASSUME Min(all) < 40 PROVE \E n \in Body : worksheet[n].kept = {}
    <3>1. Min(all) \notin added
      <4>1. \A c \in added : c = 60 \/ c = 99
        OBVIOUS
      <4> DEFINE m == Min(all)
      <4>2. m < 40
        BY <2>4
      <4> HIDE DEF m
      <4>3. m \in Nat
        BY <2>3 DEF m
      <4>4. m # 60 /\ m # 99
        BY <4>2, <4>3
      <4>5. QED  BY <4>1, <4>4 DEF m
    <3>2. PICK n \in Body : Min(all) = worksheet[n].conf
      BY <2>2, <3>1
    <3>3. worksheet[n].conf < 40
      BY <2>4, <3>2
    <3>4. QED  BY <1>2, <3>3
  <2>5. ASSUME NEW n \in Body, worksheet[n].kept = {} PROVE Min(all) < 40
    <3>1. worksheet[n].conf \in all /\ worksheet[n].conf < 40 /\ worksheet[n].conf \in Nat
      BY <1>2, <2>5
    <3> DEFINE c == worksheet[n].conf
               m == Min(all)
    <3>2. m <= c /\ c < 40 /\ c \in Nat /\ m \in Nat
      BY <2>2, <2>3, <3>1
    <3> HIDE DEF c, m
    <3>3. m < 40
      BY <3>2
    <3>4. QED  BY <3>3 DEF m
  <2>6. ~(worksheet = <<>> /\ added = {})
    BY <1>4, <1>6
  <2>7. QED  BY <2>1, <2>4, <2>5, <2>6
<1>7. QED  BY <1>5, <1>6

\* An audit of an emitted row agrees with what the gate did.
LEMMA AuditAgrees ==
    ASSUME GateInv, phase = "emitted", NEW sample \in SUBSET Candidates,
           NEW added \in SUBSET {60, 99}, NEW named \in [Body -> SUBSET Words]
    PROVE  Agrees(Fabrication(sample), Ungrounded(named), Flags(added), added)
<1> DEFINE cited == {i \in DOMAIN drafts : Cites(i)}
           r == Fabrication(sample)
           odd == Ungrounded(named)
           flags == Flags(added)
<1>1. /\ r.bearing = Cardinality(Bearing) + Cardinality(Refused)
      /\ r.checked = Cardinality(Checked) + Cardinality(Refused)
      /\ r.failures = Cardinality(Failing) + Cardinality(Refused)
      /\ r.unverified = Cardinality(Unverified)
      /\ r.sheet = Sheet(sample)
  BY DEF Fabrication
<1>2. Cardinality(Bearing) + Cardinality(Refused) = Cardinality(cited)
  <2>1. Bearing \in SUBSET Body
    BY DEF Bearing
  <2>2. QED  BY <2>1, CountDrafts, BearingAreCited
<1>3. ASSUME critic = "none"
      PROVE  r.checked = 0 /\ r.failures = 0 /\ r.unverified = Cardinality(cited)
  <2> HIDE DEF r, cited
  <2>1. QED  BY <1>1, <1>2, <1>3, CountsUnchecked
<1>4. ASSUME critic # "none"
      PROVE  /\ r.checked = Cardinality(cited)
             /\ r.failures = Cardinality(cited \ Whole)
             /\ r.unverified = 0
             /\ \A line \in r.sheet : line[3] = "supported"
  <2>1. \A line \in Sheet(sample) : line[3] = "supported"
    BY <1>4, SheetTells
  <2>2. Cardinality(Failing) + Cardinality(Refused) = Cardinality(cited \ Whole)
    BY <1>4, CountsChecked
  <2> HIDE DEF r, cited
  <2>3. QED  BY <1>1, <1>2, <1>4, <2>1, <2>2, CountsChecked
<1>5. \A line \in r.sheet : line[2] \in Known(drafts[line[1]])
  BY <1>1, SheetTells
<1>6. ASSUME NEW n \in Body
      PROVE  /\ odd[n] \cap Tags = {}
             /\ gate => odd[n] \cap drafts[worksheet[n].of].tags = {}
  <2>1. gate => drafts[worksheet[n].of].tags \subseteq Tags
    BY EmittedRow DEF Earned
  <2>2. QED  BY <2>1 DEF Ungrounded
<1>7. /\ flags.low = (MinConfidence(added) < 40)
      /\ flags.unsupported = (\E n \in Body : worksheet[n].kept = {})
      /\ flags.rejected = Len(audit)
      /\ flags.accepted = Len(worksheet) + Cardinality(added)
  BY DEF Flags
<1>8. generator = "model" =>
         (flags.low <=> flags.unsupported \/ (worksheet = <<>> /\ added = {}))
  BY <1>7, LowTells
<1>9. flags.rejected + flags.accepted = Len(drafts) + Cardinality(added)
  <2>1. Cardinality(added) \in Nat
    <3>1. IsFiniteSet({60} \cup {99})
      <4>1. IsFiniteSet({60}) /\ IsFiniteSet({99})
        BY FS_Singleton
      <4>2. QED  BY <4>1, FS_Union
    <3>2. IsFiniteSet(added)
      <4> DEFINE U == {60} \cup {99}
      <4>1. added \in SUBSET U /\ IsFiniteSet(U)
        BY <3>1
      <4> HIDE DEF U
      <4>2. QED  BY <4>1, FS_Subset
    <3>3. QED  BY <3>2, FS_CardinalityType
  <2>2. /\ Len(worksheet) \in Nat /\ Len(audit) \in Nat
        /\ Len(worksheet) + Len(audit) = Len(drafts)
    BY EmittedRow
  <2>3. QED  BY <1>7, <2>1, <2>2
<1> HIDE DEF r, odd, flags, cited
<1>10. QED
  BY <1>1, <1>2, <1>3, <1>4, <1>5, <1>6, <1>8, <1>9 DEF Agrees, r, odd, flags, cited

\* The row is audited once, when the gate is done with it.
AuditInv ==
    /\ GateInv
    /\ report # None => phase = "emitted" /\ AuditAgreesWithGate

\* Nothing the gate does or the audit says makes the two disagree.
LEMMA AuditStep == AuditInv /\ [AuditNext]_<<vars, auditVars>> => AuditInv'
<1> SUFFICES ASSUME AuditInv, [AuditNext]_<<vars, auditVars>> PROVE AuditInv'
  OBVIOUS
<1>1. GateInv'
  BY GateStep DEF AuditInv, AuditNext, Audit
<1>2. ASSUME UNCHANGED auditVars, Next PROVE report = None /\ report' = None
  <2>1. phase # "emitted"
    BY <1>2 DEF Next, Draft, Generated, NotJson, Stub, Ground, Grounded, PassThrough,
       LexicalCheck, ModelCheck, Judging, Emit, Raise
  <2>2. QED  BY <1>2, <2>1 DEF AuditInv, auditVars
<1>3. ASSUME UNCHANGED <<vars, auditVars>>
      PROVE  report' # None => phase' = "emitted" /\ AuditAgreesWithGate'
  BY <1>3 DEF AuditInv, AuditAgreesWithGate, vars, auditVars, Body, Known, Groundless
<1>4. ASSUME NEW added \in SUBSET {60, 99}, NEW named \in [Body -> SUBSET Words],
             Audit(added, named)
      PROVE  report' # None => phase' = "emitted" /\ AuditAgreesWithGate'
  <2>1. PICK sample \in SUBSET Candidates :
           report' = [fabrication |-> Fabrication(sample),
                      ungrounded |-> Ungrounded(named), flags |-> Flags(added)]
    BY <1>4 DEF Audit
  <2>2. GateInv /\ phase = "emitted" /\ facts' = added /\ UNCHANGED vars
    BY <1>4 DEF AuditInv, Audit
  <2>3. Agrees(report'.fabrication, report'.ungrounded, report'.flags, facts')
    BY <2>1, <2>2, AuditAgrees
  <2>4. QED
    BY <2>2, <2>3 DEF Agrees, AuditAgreesWithGate, vars, Body, Whole, Cites, Known, Groundless
<1>5. QED  BY <1>1, <1>2, <1>3, <1>4 DEF AuditInv, AuditNext

\* The fabrication audit, the tag audit, the critique and the hallucination
\* rate, which see the finished row alone, tell of every row what the gate did
\* with what was generated.
THEOREM AuditTellsTheTruth == AuditSpec => []AuditAgreesWithGate
<1>1. Init /\ AuditInit => AuditInv
  BY GateInit DEF AuditInit, AuditInv
<1>2. AuditInv => AuditAgreesWithGate
  BY DEF AuditInv, AuditAgreesWithGate
<1>3. QED  BY <1>1, <1>2, AuditStep, PTL DEF AuditSpec

----------------------------------------------------------------------------
(* Percentiles. Of finitely many observations there is an ascending order:   *)
(* each has its place, after those that are less and, of equals, those that  *)
(* came before.                                                              *)

\* The observations at or before the i-th.
UpTo(s, i) == {j \in DOMAIN s : s[j] < s[i] \/ (s[j] = s[i] /\ j <= i)}

LEMMA PlacesAreOrdered ==
    ASSUME NEW s \in Seq(Nat), NEW i \in DOMAIN s, NEW j \in DOMAIN s,
           s[i] < s[j] \/ (s[i] = s[j] /\ i < j)
    PROVE  Cardinality(UpTo(s, i)) < Cardinality(UpTo(s, j))
<1>1. DOMAIN s = 1 .. Len(s) /\ Len(s) \in Nat /\ \A k \in DOMAIN s : s[k] \in Nat
  OBVIOUS
<1>2. IsFiniteSet(DOMAIN s)
  BY <1>1, FS_Interval
<1>3. UpTo(s, i) \in SUBSET UpTo(s, j) /\ UpTo(s, j) \in SUBSET DOMAIN s
  BY <1>1 DEF UpTo
<1>4. j \in UpTo(s, j) /\ j \notin UpTo(s, i)
  BY <1>1 DEF UpTo
<1>5. IsFiniteSet(UpTo(s, j))
  BY <1>2, <1>3, FS_Subset
<1>6. /\ Cardinality(UpTo(s, i)) <= Cardinality(UpTo(s, j))
      /\ Cardinality(UpTo(s, j)) # Cardinality(UpTo(s, i))
      /\ IsFiniteSet(UpTo(s, i))
  BY <1>3, <1>4, <1>5, FS_Subset
<1>7. Cardinality(UpTo(s, i)) \in Nat /\ Cardinality(UpTo(s, j)) \in Nat
  BY <1>5, <1>6, FS_CardinalityType
<1>8. QED  BY <1>6, <1>7

\* p tells, place by place, which observation comes there.
IsOrder(p, s) ==
    /\ p \in [1 .. Len(s) -> 1 .. Len(s)]
    /\ IsInjective(p)
    /\ \A i, j \in 1 .. Len(s) : i < j => s[p[i]] <= s[p[j]]

LEMMA AnOrderExists ==
    ASSUME NEW s \in Seq(Nat)
    PROVE  \E p : IsOrder(p, s)
<1> DEFINE D == 1 .. Len(s)
           place == [i \in D |-> Cardinality(UpTo(s, i))]
<1>1. DOMAIN s = D /\ Len(s) \in Nat /\ \A k \in D : s[k] \in Nat
  OBVIOUS
<1>2. IsFiniteSet(D) /\ Cardinality(D) = Len(s)
  BY <1>1, FS_Interval
<1>3. ASSUME NEW i \in D PROVE place[i] \in D
  <2>1. UpTo(s, i) \in SUBSET D /\ i \in UpTo(s, i)
    BY <1>1 DEF UpTo
  <2>2. IsFiniteSet(UpTo(s, i)) /\ Cardinality(UpTo(s, i)) <= Len(s)
    BY <1>2, <2>1, FS_Subset
  <2>3. Cardinality(UpTo(s, i)) \in Nat /\ Cardinality(UpTo(s, i)) # 0
    BY <2>1, <2>2, FS_CardinalityType, FS_EmptySet
  <2>4. QED  BY <1>1, <2>2, <2>3
<1>4. ASSUME NEW i \in D, NEW j \in D, i # j
      PROVE  /\ place[i] # place[j]
             /\ place[i] < place[j] => s[i] <= s[j]
  <2>1. (s[i] < s[j] \/ (s[i] = s[j] /\ i < j)) \/ (s[j] < s[i] \/ (s[j] = s[i] /\ j < i))
    <3>1. s[i] \in Nat /\ s[j] \in Nat /\ i \in Nat /\ j \in Nat
      BY <1>1
    <3>2. QED  BY <3>1, <1>4
  <2>2. (s[i] < s[j] \/ (s[i] = s[j] /\ i < j)) => place[i] < place[j]
    BY <1>1, PlacesAreOrdered
  <2>3. (s[j] < s[i] \/ (s[j] = s[i] /\ j < i)) => place[j] < place[i]
    BY <1>1, PlacesAreOrdered
  <2>4. place[i] \in Nat /\ place[j] \in Nat
    <3>1. D \subseteq Nat
      BY <1>1
    <3> HIDE DEF place, D
    <3>2. QED  BY <3>1, <1>3
  <2>5. s[i] \in Nat /\ s[j] \in Nat
    BY <1>1
  <2> HIDE DEF place
  <2>6. QED  BY <2>1, <2>2, <2>3, <2>4, <2>5
<1>5. place \in Injection(D, D)
  <2>1. place \in [D -> D]
    BY <1>3
  <2> HIDE DEF place, D
  <2>2. QED  BY <1>4, <2>1 DEF Injection, IsInjective
<1>6. place \in Surjection(D, D)
  <2> HIDE DEF place, D
  <2>1. QED  BY <1>2, <1>5, FS_Injection
<1> DEFINE p == [k \in D |-> CHOOSE i \in D : place[i] = k]
<1>7. \A k \in D : p[k] \in D /\ place[p[k]] = k
  <2> HIDE DEF place, D
  <2>1. \A k \in D : \E i \in D : place[i] = k
    BY <1>6 DEF Surjection
  <2>2. QED  BY <2>1
<1>8. IsOrder(p, s)
  <2>1. p \in [D -> D]
    BY <1>7
  <2>2. IsInjective(p)
    <3> HIDE DEF place
    <3>1. \A k, l \in D : p[k] = p[l] => k = l
      BY <1>7
    <3> HIDE DEF p
    <3>2. QED  BY <2>1, <3>1 DEF IsInjective
  <2>3. ASSUME NEW i \in D, NEW j \in D, i < j PROVE s[p[i]] <= s[p[j]]
    <3>1. p[i] \in D /\ p[j] \in D /\ place[p[i]] = i /\ place[p[j]] = j
      BY <1>7
    <3>2. p[i] # p[j]
      BY <3>1, <2>3
    <3> HIDE DEF p, place, D
    <3>3. QED  BY <1>4, <2>3, <3>1, <3>2
  <2> HIDE DEF p
  <2>4. QED  BY <2>1, <2>2, <2>3 DEF IsOrder
<1>9. QED  BY <1>8

\* Ascending holds the observations in some ascending order.
LEMMA OrderedBy ==
    ASSUME timings \in Seq(Nat)
    PROVE  \E p : /\ IsOrder(p, timings)
                  /\ Ascending = [i \in 1 .. Len(timings) |-> timings[p[i]]]
<1> DEFINE n == Len(timings)
           Orders == {p \in [1 .. n -> 1 .. n] :
                         /\ IsInjective(p)
                         /\ \A i, j \in 1 .. n : i < j => timings[p[i]] <= timings[p[j]]}
           by == CHOOSE p \in [1 .. n -> 1 .. n] :
                    /\ IsInjective(p)
                    /\ \A i, j \in 1 .. n : i < j => timings[p[i]] <= timings[p[j]]
<1>1. \E p \in [1 .. n -> 1 .. n] :
         /\ IsInjective(p)
         /\ \A i, j \in 1 .. n : i < j => timings[p[i]] <= timings[p[j]]
  BY AnOrderExists DEF IsOrder
<1>2. /\ by \in [1 .. n -> 1 .. n]
      /\ IsInjective(by)
      /\ \A i, j \in 1 .. n : i < j => timings[by[i]] <= timings[by[j]]
  BY <1>1
<1>3. IsOrder(by, timings)
  BY <1>2 DEF IsOrder
<1>4. Ascending = [i \in 1 .. n |-> timings[by[i]]]
  BY DEF Ascending
<1> HIDE DEF by
<1>5. QED  BY <1>3, <1>4

\* The k-th observation is within t exactly when k observations are.
LEMMA RankCounts ==
    ASSUME timings \in Seq(Nat), NEW k \in 1 .. Len(timings), NEW t \in Nat
    PROVE  /\ Ascending[k] \in ToSet(timings)
           /\ Within(t) \in Nat
           /\ Ascending[k] <= t <=> k <= Within(t)
<1> DEFINE n == Len(timings)
           D == 1 .. n
<1>1. PICK p : IsOrder(p, timings) /\ Ascending = [i \in D |-> timings[p[i]]]
  BY OrderedBy
<1> DEFINE M == {m \in D : timings[m] <= t}
           J == {j \in D : timings[p[j]] <= t}
           q == [j \in J |-> p[j]]
<1>2. DOMAIN timings = D /\ n \in Nat /\ \A m \in D : timings[m] \in Nat
  OBVIOUS
<1>3. p \in [D -> D] /\ IsInjective(p)
      /\ \A i, j \in D : i < j => timings[p[i]] <= timings[p[j]]
  BY <1>1 DEF IsOrder
<1>4. IsFiniteSet(D)
  BY <1>2, FS_Interval
<1>5. p \in Surjection(D, D)
  <2>1. p \in Injection(D, D)
    BY <1>3 DEF Injection
  <2> HIDE DEF D
  <2>2. QED  BY <1>4, <2>1, FS_Injection
<1>6. Within(t) = Cardinality(M)
  BY <1>2 DEF Within
<1>7. IsFiniteSet(J) /\ J \subseteq D /\ IsFiniteSet(M) /\ M \subseteq D
  <2>1. J \in SUBSET D /\ M \in SUBSET D
    OBVIOUS
  <2> HIDE DEF D, J, M
  <2>2. QED  BY <1>4, <2>1, FS_Subset
<1>8. Cardinality(M) = Cardinality(J)
  <2>1. q \in [J -> M]
    BY <1>3
  <2>2. \A i, j \in J : q[i] = q[j] => i = j
    BY <1>3 DEF IsInjective
  <2>3. \A m \in M : \E j \in J : q[j] = m
    <3>1. SUFFICES ASSUME NEW m \in M PROVE \E j \in J : q[j] = m
      OBVIOUS
    <3>2. PICK j \in D : p[j] = m
      BY <1>5 DEF Surjection
    <3>3. j \in J
      BY <3>2
    <3>4. QED  BY <3>2, <3>3
  <2> HIDE DEF q, J, M, D
  <2>4. q \in Bijection(J, M)
    BY <2>1, <2>2, <2>3 DEF Bijection, Injection, Surjection, IsInjective
  <2>5. QED  BY <1>7, <2>4, FS_Bijection DEF ExistsBijection
<1>9. Cardinality(J) \in Nat
  BY <1>7, FS_CardinalityType
<1>10. Ascending[k] = timings[p[k]] /\ k \in D /\ p[k] \in D
  BY <1>1, <1>3
<1>11. k \in Nat /\ 1 <= k /\ k <= n
  BY <1>2
<1>12. CASE Ascending[k] <= t
  <2>1. \A j \in 1 .. k : j \in J
    <3>1. SUFFICES ASSUME NEW j \in 1 .. k PROVE timings[p[j]] <= t /\ j \in D
      OBVIOUS
    <3>2. j \in D /\ p[j] \in D /\ (j = k \/ j < k)
      <4>1. j \in Nat /\ 1 <= j /\ j <= k
        BY <1>11
      <4>2. j \in D
        BY <1>2, <1>11, <4>1
      <4>3. p[j] \in D
        <5> HIDE DEF J, M, q
        <5>1. QED  BY <1>3, <4>2
      <4>4. j = k \/ j < k
        <5> HIDE DEF J, M, D, q
        <5>1. QED  BY <1>11, <4>1
      <4>5. QED  BY <4>2, <4>3, <4>4
    <3>3. timings[p[j]] <= timings[p[k]]
      BY <1>2, <1>3, <1>10, <3>2
    <3>4. timings[p[j]] \in Nat /\ timings[p[k]] \in Nat
      BY <1>2, <1>10, <3>2
    <3>5. timings[p[k]] <= t
      BY <1>10, <1>12
    <3>6. timings[p[j]] <= t
      <4> HIDE DEF J, M, D, q, n
      <4>1. QED  BY <3>3, <3>4, <3>5
    <3>7. QED  BY <3>2, <3>6
  <2>2. 1 .. k \in SUBSET J
    BY <2>1
  <2>3. Cardinality(1 .. k) = k
    BY <1>10, <1>2, FS_Interval
  <2>4. Cardinality(1 .. k) <= Cardinality(J)
    <3> HIDE DEF J
    <3>1. QED  BY <1>7, <2>2, FS_Subset
  <2>5. QED  BY <1>6, <1>8, <1>9, <1>10, <1>12, <2>3, <2>4, <1>2 DEF ToSet
<1>13. CASE ~(Ascending[k] <= t)
  <2>1. \A j \in J : j \in 1 .. (k - 1)
    <3>1. SUFFICES ASSUME NEW j \in J, ~(j <= k - 1) PROVE FALSE
      BY <1>2, <1>10
    <3>2. j \in D /\ p[j] \in D /\ (j = k \/ k < j)
      <4>1. j \in D
        OBVIOUS
      <4>2. j \in Nat
        BY <1>2, <4>1
      <4>3. j = k \/ k < j
        <5> HIDE DEF J, D
        <5>1. QED  BY <1>11, <3>1, <4>2
      <4>4. p[j] \in D
        BY <1>3, <4>1
      <4>5. QED  BY <4>1, <4>3, <4>4
    <3>3. timings[p[k]] <= timings[p[j]] /\ timings[p[j]] <= t
      BY <1>2, <1>3, <1>10, <3>2
    <3>4. timings[p[j]] \in Nat /\ timings[p[k]] \in Nat
      BY <1>2, <1>10, <3>2
    <3>5. QED  BY <1>10, <1>13, <3>3, <3>4
  <2>2. J \in SUBSET (1 .. (k - 1))
    BY <2>1
  <2>3. k - 1 \in Nat /\ Cardinality(1 .. (k - 1)) = k - 1 /\ IsFiniteSet(1 .. (k - 1))
    <3>1. k - 1 \in Nat /\ k - 1 \in Int /\ 1 \in Int
      BY <1>11
    <3>2. Cardinality(1 .. (k - 1)) = IF 1 > k - 1 THEN 0 ELSE (k - 1) - 1 + 1
      BY <3>1, FS_Interval
    <3>3. QED  BY <1>11, <3>1, <3>2, FS_Interval
  <2>4. Cardinality(J) <= k - 1
    <3> HIDE DEF J
    <3>1. QED  BY <2>2, <2>3, FS_Subset
  <2>5. QED  BY <1>6, <1>8, <1>9, <1>10, <1>13, <2>3, <2>4, <1>2 DEF ToSet
<1>14. QED  BY <1>12, <1>13

LEMMA Ceiling ==
    ASSUME NEW x \in Nat, x # 0
    PROVE  /\ (x + 99) \div 100 \in Nat
           /\ (x + 99) \div 100 >= 1
           /\ 100 * ((x + 99) \div 100) < x + 100
           /\ x <= 100 * ((x + 99) \div 100)
OBVIOUS

\* The rank of a percentile is a place, and the least that enough observations
\* have.
LEMMA RankIn ==
    ASSUME NEW n \in Nat, n # 0, NEW q \in {50, 95}
    PROVE  \E rank \in 1 .. n :
              /\ rank = (q * n + 99) \div 100
              /\ \A w \in Nat : rank <= w <=> q * n <= 100 * w
<1>1. q * n \in Nat /\ q * n # 0 /\ q * n <= 100 * n
  <2>1. CASE q = 50
    BY <2>1
  <2>2. CASE q = 95
    BY <2>2
  <2>3. QED  BY <2>1, <2>2
<1> DEFINE x == q * n
           rank == (x + 99) \div 100
<1>2. rank \in Nat /\ rank >= 1 /\ 100 * rank < x + 100 /\ x <= 100 * rank
  <2> HIDE DEF x
  <2>1. QED  BY <1>1, Ceiling DEF x
<1> HIDE DEF x, rank
<1>3. rank <= n
  BY <1>1, <1>2 DEF x
<1>4. \A w \in Nat : rank <= w <=> x <= 100 * w
  BY <1>1, <1>2 DEF x
<1>5. rank \in 1 .. n
  BY <1>2, <1>3
<1>6. QED  BY <1>4, <1>5 DEF x, rank

LEMMA PercentileIsNearestRank ==
    ASSUME timings \in Seq(Nat), timings # <<>>, NEW q \in {50, 95}
    PROVE  IsNearestRank(Percentile(q), q)
<1> DEFINE n == Len(timings)
<1>1. n \in Nat /\ n # 0 /\ \A u \in ToSet(timings) : u \in Nat
  BY DEF ToSet
<1>2. PICK rank \in 1 .. n : /\ rank = (q * n + 99) \div 100
                            /\ \A w \in Nat : rank <= w <=> q * n <= 100 * w
  <2> HIDE DEF n
  <2>1. QED  BY <1>1, RankIn
<1>3. Percentile(q) = Ascending[rank]
  BY <1>2 DEF Percentile
<1>4. Ascending[rank] \in ToSet(timings) /\ Ascending[rank] \in Nat
  <2>1. Ascending[rank] \in ToSet(timings)
    BY RankCounts
  <2>2. QED  BY <1>1, <2>1
<1>5. ASSUME NEW t \in Nat
      PROVE  Within(t) \in Nat /\ (Ascending[rank] <= t <=> q * n <= 100 * Within(t))
  <2>1. Within(t) \in Nat /\ (Ascending[rank] <= t <=> rank <= Within(t))
    BY RankCounts
  <2>2. QED  BY <1>2, <2>1
<1>6. q * n <= 100 * Within(Ascending[rank])
  <2>1. Ascending[rank] <= Ascending[rank]
    BY <1>4
  <2> HIDE DEF n
  <2>2. QED  BY <1>4, <1>5, <2>1
<1>7. ASSUME NEW u \in ToSet(timings), u < Ascending[rank]
      PROVE  100 * Within(u) < q * n
  <2>1. u \in Nat /\ ~(Ascending[rank] <= u)
    BY <1>1, <1>4, <1>7
  <2>2. Within(u) \in Nat /\ ~(q * n <= 100 * Within(u))
    BY <1>5, <2>1
  <2>3. q * n \in Nat
    BY <1>1
  <2> HIDE DEF n
  <2>4. QED  BY <2>2, <2>3
<1>8. 100 * Within(Ascending[rank]) >= q * n
  BY <1>6
<1>9. QED  BY <1>3, <1>4, <1>7, <1>8 DEF IsNearestRank

\* At most one in twenty over the target.
LEMMA LatencyGate ==
    ASSUME timings \in Seq(Nat), timings # <<>>
    PROVE  Percentile(95) <= Target <=> 20 * (Len(timings) - Within(Target)) <= Len(timings)
<1> DEFINE n == Len(timings)
<1>1. n \in Nat /\ n # 0 /\ Target \in Nat
  BY ScorecardAssumption
<1>2. PICK rank \in 1 .. n : /\ rank = (95 * n + 99) \div 100
                            /\ \A w \in Nat : rank <= w <=> 95 * n <= 100 * w
  <2> HIDE DEF n
  <2>1. QED  BY <1>1, RankIn
<1>3. Percentile(95) = Ascending[rank]
  BY <1>2 DEF Percentile
<1>4. Within(Target) \in Nat /\ (Ascending[rank] <= Target <=> 95 * n <= 100 * Within(Target))
  BY <1>1, <1>2, RankCounts
<1> HIDE DEF n
<1>5. 95 * n <= 100 * Within(Target) <=> 20 * (n - Within(Target)) <= n
  BY <1>1, <1>4
<1>6. QED  BY <1>3, <1>4, <1>5 DEF n

----------------------------------------------------------------------------
(* What the steps of a scored worksheet keep.                                *)

CardSpec == CardInit /\ [][CardNext]_cardVars

Row   == [label : ToSet(Deviations), consequences : BOOLEAN, matching : BOOLEAN]
Trial == [seeded : SUBSET (Kinds \X ToSet(Deviations)),
          detected : SUBSET (Kinds \X ToSet(Deviations)),
          others : SUBSET ToSet(Deviations)]

\* The rows are those of the deviations, in their order, each of them timed
\* unless they are read from a file.
RowsOfDeviations ==
    /\ rows \in Seq(Row) /\ Len(rows) <= Len(Deviations)
    /\ \A i \in DOMAIN rows : rows[i].label = Deviations[i]
    /\ timings \in Seq(Nat)
    /\ Len(timings) = IF caller = "eval" THEN 0 ELSE Len(rows)

\* Each picked row has one omission in the ground truth, of its own label.
OneOmissionEach ==
    /\ picked \subseteq DOMAIN rows /\ (picked # {} => Measured)
    /\ IsFiniteSet(seeded) /\ IsFiniteSet(picked)
    /\ Cardinality(seeded) = Cardinality(picked)
    /\ \A o \in seeded : /\ o \in Kinds \X ToSet(Deviations)
                        /\ \E i \in picked : o[2] = rows[i].label
    /\ \A i \in picked : \E o \in seeded : o[2] = rows[i].label

\* The copy is the worksheet with these omissions and no other.
CopyIsSeeded ==
    /\ \A i \in DOMAIN rows \ picked : rows[i] \in copy
    /\ \A r \in copy : \E i \in DOMAIN rows :
          /\ r.label = rows[i].label
          /\ i \notin picked => r = rows[i]
    /\ \A o \in seeded :
          /\ o[1] = "dropped_row" => \A r \in copy : r.label # o[2]
          /\ o[1] # "dropped_row" => \E r \in copy : r.label = o[2] /\ ~r.consequences

TrialsFound ==
    /\ trials \in Seq(Trial)
    /\ \A n \in DOMAIN trials :
          /\ Cardinality(trials[n].seeded) = PerTrial
          /\ trials[n].detected = trials[n].seeded
          /\ trials[n].others \subseteq Labels({r \in ToSet(rows) : ~r.consequences})
    /\ trials # <<>> => Measured

CardStands ==
    card # NoCard =>
       /\ Measured
       /\ timings # <<>> => IsNearestRank(card.p50, 50) /\ IsNearestRank(card.p95, 95)
       /\ DOMAIN card.gates # {} =>
             card.gates.latency <=> 20 * (Len(timings) - Within(Target)) <= Len(timings)
       /\ card.passed => GoldPassed

CardInv == RowsOfDeviations /\ OneOmissionEach /\ CopyIsSeeded /\ TrialsFound /\ CardStands

LEMMA CardInvImplies == CardInv => ScorecardIsHonest
BY DEF CardInv, TrialsFound, CardStands, ScorecardIsHonest

LEMMA DeviationsType ==
    /\ Deviations \in Seq(ToSet(Deviations)) /\ Len(Deviations) \in Nat /\ Len(Deviations) # 0
    /\ DOMAIN Deviations = 1 .. Len(Deviations)
    /\ \A i, j \in DOMAIN Deviations : Deviations[i] = Deviations[j] => i = j
    /\ \A l \in ToSet(Deviations) : \E i \in DOMAIN Deviations : l = Deviations[i]
    /\ \A i \in DOMAIN Deviations : Deviations[i] \in ToSet(Deviations)
<1>1. /\ Deviations \in Seq(ToSet(Deviations)) /\ Deviations # <<>>
      /\ IsInjective(Deviations)
  BY ScorecardAssumption
<1>2. ToSet(Deviations) = {Deviations[i] : i \in DOMAIN Deviations}
  BY DEF ToSet
<1>3. QED  BY <1>1, <1>2 DEF IsInjective

LEMMA CardInvInit == CardInit => CardInv
<1> SUFFICES ASSUME CardInit PROVE CardInv
  OBVIOUS
<1>1. rows = <<>> /\ timings = <<>> /\ copy = {} /\ picked = {} /\ seeded = {}
      /\ trials = <<>> /\ card = NoCard
  BY DEF CardInit
<1>2. RowsOfDeviations
  BY <1>1, DeviationsType DEF RowsOfDeviations
<1>3. OneOmissionEach
  BY <1>1, FS_EmptySet DEF OneOmissionEach
<1>4. CopyIsSeeded
  BY <1>1 DEF CopyIsSeeded
<1>5. TrialsFound /\ CardStands
  BY <1>1 DEF TrialsFound, CardStands
<1>6. QED  BY <1>2, <1>3, <1>4, <1>5 DEF CardInv

\* Rows of different labels are different.
LEMMA OneRowEach ==
    ASSUME RowsOfDeviations
    PROVE  /\ \A i, j \in DOMAIN rows : rows[i].label = rows[j].label => i = j
           /\ DOMAIN rows = 1 .. Len(rows) /\ Len(rows) \in Nat
           /\ DOMAIN rows \subseteq DOMAIN Deviations
           /\ Measured => DOMAIN rows = DOMAIN Deviations
           /\ \A i \in DOMAIN rows : rows[i] \in Row /\ rows[i] \in ToSet(rows)
<1>1. /\ rows \in Seq(Row) /\ Len(rows) <= Len(Deviations)
      /\ \A i \in DOMAIN rows : rows[i].label = Deviations[i]
  BY DEF RowsOfDeviations
<1>2. DOMAIN rows = 1 .. Len(rows) /\ Len(rows) \in Nat
  BY <1>1
<1>3. DOMAIN rows \subseteq DOMAIN Deviations
  BY <1>1, <1>2, DeviationsType
<1>4. \A i, j \in DOMAIN rows : rows[i].label = rows[j].label => i = j
  BY <1>1, <1>3, DeviationsType
<1>5. Measured => DOMAIN rows = DOMAIN Deviations
  BY <1>2, DeviationsType DEF Measured
<1>6. \A i \in DOMAIN rows : rows[i] \in Row /\ rows[i] \in ToSet(rows)
  BY <1>1 DEF ToSet
<1>7. QED  BY <1>2, <1>3, <1>4, <1>5, <1>6

\* Nothing a card tells depends on the trials.
LEMMA CardStandsStill ==
    ASSUME CardStands, rows' = rows, timings' = timings, card' = card
    PROVE  CardStands'
<1>1. (Measured' <=> Measured) /\ (GoldPassed' <=> GoldPassed)
  BY DEF Measured, GoldPassed, CoverageStands, RecallStands, Uncovered, Missed, Labels, ToSet
<1>2. IsNearestRank(card.p50, 50)' <=> IsNearestRank(card.p50, 50)
  BY DEF IsNearestRank, Within, ToSet
<1>3. IsNearestRank(card.p95, 95)' <=> IsNearestRank(card.p95, 95)
  BY DEF IsNearestRank, Within, ToSet
<1>4. Within(Target)' = Within(Target)
  BY DEF Within
<1>5. QED  BY <1>1, <1>2, <1>3, <1>4 DEF CardStands

LEMMA RowsStandStill ==
    ASSUME RowsOfDeviations, rows' = rows, timings' = timings, caller' = caller
    PROVE  RowsOfDeviations'
BY DEF RowsOfDeviations

LEMMA MeasureKeeps ==
    ASSUME CardInv, NEW c \in BOOLEAN, NEW m \in BOOLEAN, NEW t \in Times, Measure(c, m, t)
    PROVE  CardInv'
<1> DEFINE n == Len(rows)
           row == [label |-> Deviations[n + 1], consequences |-> c, matching |-> m]
<1>1. /\ n < Len(Deviations)
      /\ rows' = Append(rows, row) /\ copy' = copy \cup {row}
      /\ timings' = IF caller = "eval" THEN <<>> ELSE Append(timings, t)
      /\ caller' = caller /\ picked' = picked /\ seeded' = seeded
      /\ trials' = trials /\ card' = card
  BY DEF Measure
<1>2. RowsOfDeviations /\ OneOmissionEach /\ CopyIsSeeded /\ TrialsFound /\ CardStands
  BY DEF CardInv
<1>3. /\ rows \in Seq(Row) /\ \A i \in DOMAIN rows : rows[i].label = Deviations[i]
      /\ timings \in Seq(Nat) /\ Len(timings) = (IF caller = "eval" THEN 0 ELSE n)
  BY <1>2 DEF RowsOfDeviations
<1>4. n \in Nat /\ DOMAIN rows = 1 .. n
  BY <1>3
<1>5. n + 1 \in DOMAIN Deviations /\ Deviations[n + 1] \in ToSet(Deviations)
  BY <1>1, <1>4, DeviationsType
<1>6. row \in Row
  BY <1>5 DEF Row
<1>7. /\ rows' \in Seq(Row) /\ Len(rows') = n + 1 /\ DOMAIN rows' = 1 .. (n + 1)
      /\ rows'[n + 1] = row /\ \A i \in 1 .. n : rows'[i] = rows[i]
  <2> HIDE DEF row
  <2>1. QED  BY <1>1, <1>3, <1>4, <1>6
<1>8. ~Measured /\ picked = {} /\ seeded = {} /\ trials = <<>> /\ card = NoCard
  <2>1. ~Measured
    <3>1. n # Len(Deviations)
      <4> HIDE DEF n, row
      <4>1. Len(Deviations) \in Nat
        BY DeviationsType
      <4>2. n < Len(Deviations) /\ n \in Nat
        BY <1>1, <1>4
      <4>3. QED  BY <4>1, <4>2
    <3>2. QED  BY <3>1 DEF Measured
  <2>2. picked = {} /\ trials = <<>> /\ card = NoCard
    BY <1>2, <2>1 DEF OneOmissionEach, TrialsFound, CardStands
  <2>3. seeded = {}
    BY <1>2, <2>2 DEF OneOmissionEach
  <2>4. QED  BY <2>1, <2>2, <2>3
<1>9. RowsOfDeviations'
  <2>1. timings' \in Seq(Nat) /\ Len(timings') = (IF caller = "eval" THEN 0 ELSE n + 1)
    BY <1>1, <1>3, <1>4, ScorecardAssumption
  <2>2. \A i \in DOMAIN rows' : rows'[i].label = Deviations[i]
    <3>1. SUFFICES ASSUME NEW i \in 1 .. (n + 1) PROVE rows'[i].label = Deviations[i]
      BY <1>7
    <3>2. CASE i = n + 1
      BY <1>7, <3>2
    <3>3. CASE i # n + 1
      <4>1. i \in 1 .. n
        BY <1>4, <3>3
      <4>2. QED  BY <1>3, <1>4, <1>7, <4>1
    <3>4. QED  BY <3>2, <3>3
  <2>3. n + 1 <= Len(Deviations)
    BY <1>1, <1>4, DeviationsType
  <2> HIDE DEF n, row
  <2>4. QED  BY <1>1, <1>7, <2>1, <2>2, <2>3 DEF RowsOfDeviations
<1>10. OneOmissionEach'
  BY <1>1, <1>8, FS_EmptySet DEF OneOmissionEach
<1>11. CopyIsSeeded'
  <2>1. \A i \in DOMAIN rows : rows[i] \in copy
    BY <1>2, <1>8 DEF CopyIsSeeded
  <2>2. \A r \in copy : \E i \in DOMAIN rows : r = rows[i]
    BY <1>2, <1>8 DEF CopyIsSeeded
  <2>3. \A i \in 1 .. (n + 1) : rows'[i] \in copy'
    <3>1. SUFFICES ASSUME NEW i \in 1 .. (n + 1) PROVE rows'[i] \in copy'
      OBVIOUS
    <3>2. i = n + 1 \/ i \in 1 .. n
      BY <1>4
    <3> HIDE DEF row
    <3>3. QED  BY <1>1, <1>4, <1>7, <2>1, <3>2
  <2>4. \A r \in copy' : \E i \in 1 .. (n + 1) : r = rows'[i]
    <3>1. SUFFICES ASSUME NEW r \in copy' PROVE \E i \in 1 .. (n + 1) : r = rows'[i]
      OBVIOUS
    <3>2. n + 1 \in 1 .. (n + 1) /\ 1 .. n \subseteq 1 .. (n + 1)
      BY <1>4
    <3> HIDE DEF row
    <3>3. QED  BY <1>1, <1>4, <1>7, <2>2, <3>2
  <2> HIDE DEF row, n
  <2>5. QED  BY <1>1, <1>7, <1>8, <2>3, <2>4 DEF CopyIsSeeded
<1>12. TrialsFound' /\ CardStands'
  BY <1>1, <1>8 DEF TrialsFound, CardStands
<1>13. QED  BY <1>9, <1>10, <1>11, <1>12 DEF CardInv

LEMMA SeedKeeps ==
    ASSUME CardInv, NEW i \in DOMAIN rows, NEW kind \in Kinds, Seed(i, kind)
    PROVE  CardInv'
<1> DEFINE l == rows[i].label
           o == <<kind, l>>
           left == IF kind = "dropped_row" THEN {}
                   ELSE {[rows[i] EXCEPT !.consequences = FALSE]}
<1>1. /\ Measured /\ i \notin picked
      /\ picked' = picked \cup {i} /\ seeded' = seeded \cup {o}
      /\ copy' = (copy \ {rows[i]}) \cup left
      /\ caller' = caller /\ rows' = rows /\ timings' = timings
      /\ trials' = trials /\ card' = card
  BY DEF Seed, Seeding
<1>2. RowsOfDeviations /\ OneOmissionEach /\ CopyIsSeeded /\ TrialsFound /\ CardStands
  BY DEF CardInv
<1>3. /\ \A j, k \in DOMAIN rows : rows[j].label = rows[k].label => j = k
      /\ \A j \in DOMAIN rows : rows[j] \in Row
  BY <1>2, OneRowEach
<1>4. /\ picked \subseteq DOMAIN rows /\ IsFiniteSet(seeded) /\ IsFiniteSet(picked)
      /\ Cardinality(seeded) = Cardinality(picked)
      /\ \A p \in seeded : /\ p \in Kinds \X ToSet(Deviations)
                          /\ \E j \in picked : p[2] = rows[j].label
      /\ \A j \in picked : \E p \in seeded : p[2] = rows[j].label
  BY <1>2 DEF OneOmissionEach
<1>5. l \in ToSet(Deviations) /\ o \in Kinds \X ToSet(Deviations) /\ o[1] = kind /\ o[2] = l
  BY <1>3 DEF Row
<1>6. o \notin seeded
  BY <1>1, <1>3, <1>4, <1>5
<1>7. \A r \in left : r.label = l /\ ~r.consequences /\ kind # "dropped_row"
  BY <1>3 DEF Row
<1>8. kind # "dropped_row" => \E r \in left : r.label = l /\ ~r.consequences
  BY <1>3 DEF Row
<1> HIDE DEF left, o, l
<1>9. RowsOfDeviations'
  BY <1>1, <1>2, RowsStandStill
<1>10. OneOmissionEach'
  <2>1. /\ IsFiniteSet(seeded \cup {o}) /\ Cardinality(seeded \cup {o}) = Cardinality(seeded) + 1
        /\ IsFiniteSet(picked \cup {i}) /\ Cardinality(picked \cup {i}) = Cardinality(picked) + 1
    BY <1>1, <1>4, <1>6, FS_AddElement
  <2>2. \A p \in seeded \cup {o} : /\ p \in Kinds \X ToSet(Deviations)
                                  /\ \E j \in picked \cup {i} : p[2] = rows[j].label
    BY <1>4, <1>5 DEF l
  <2>3. \A j \in picked \cup {i} : \E p \in seeded \cup {o} : p[2] = rows[j].label
    BY <1>4, <1>5 DEF l
  <2>4. Measured'
    BY <1>1 DEF Measured
  <2>5. QED  BY <1>1, <1>4, <2>1, <2>2, <2>3, <2>4 DEF OneOmissionEach
<1>11. CopyIsSeeded'
  <2>1. ASSUME NEW j \in DOMAIN rows \ (picked \cup {i}) PROVE rows[j] \in copy'
    <3>1. rows[j] \in copy /\ rows[j] # rows[i]
      BY <1>2, <1>3, <2>1 DEF CopyIsSeeded
    <3>2. QED  BY <1>1, <3>1
  <2>2. ASSUME NEW r \in copy'
        PROVE  \E j \in DOMAIN rows : r.label = rows[j].label /\ (j \notin picked \cup {i} => r = rows[j])
    <3>1. CASE r \in copy
      BY <1>2, <3>1 DEF CopyIsSeeded
    <3>2. CASE r \in left
      BY <1>7, <3>2 DEF l
    <3>3. QED  BY <1>1, <3>1, <3>2
  <2>3. ASSUME NEW r \in copy \ {rows[i]} PROVE r.label # l
    BY <1>1, <1>2, <1>3, <2>3 DEF CopyIsSeeded, l
  <2>4. ASSUME NEW p \in seeded PROVE p[2] # l
    BY <1>1, <1>3, <1>4 DEF l
  <2>5. ASSUME NEW p \in seeded \cup {o}, p[1] = "dropped_row", NEW r \in copy'
        PROVE  r.label # p[2]
    <3>1. CASE p = o
      BY <1>1, <1>5, <1>7, <2>3, <2>5, <3>1
    <3>2. CASE p \in seeded
      BY <1>1, <1>2, <1>7, <2>4, <2>5, <3>2 DEF CopyIsSeeded
    <3>3. QED  BY <2>5, <3>1, <3>2
  <2>6. ASSUME NEW p \in seeded \cup {o}, p[1] # "dropped_row"
        PROVE  \E r \in copy' : r.label = p[2] /\ ~r.consequences
    <3>1. CASE p = o
      BY <1>1, <1>5, <1>8, <2>6, <3>1
    <3>2. CASE p \in seeded
      <4>1. PICK r \in copy : r.label = p[2] /\ ~r.consequences
        BY <1>2, <2>6, <3>2 DEF CopyIsSeeded
      <4>2. r # rows[i]
        BY <2>4, <3>2, <4>1 DEF l
      <4>3. QED  BY <1>1, <4>1, <4>2
    <3>3. QED  BY <2>6, <3>1, <3>2
  <2>7. QED  BY <1>1, <2>1, <2>2, <2>5, <2>6 DEF CopyIsSeeded
<1>12. TrialsFound'
  BY <1>1, <1>2 DEF TrialsFound, Labels, ToSet, Measured
<1>13. CardStands'
  BY <1>1, <1>2, CardStandsStill
<1>14. QED  BY <1>9, <1>10, <1>11, <1>12, <1>13 DEF CardInv

LEMMA EndTrialKeeps ==
    ASSUME CardInv, EndTrial
    PROVE  CardInv'
<1> DEFINE others == (Missing \cup Empty) \ {o[2] : o \in seeded}
           trial == [seeded |-> seeded, detected |-> Detected, others |-> others]
<1>1. /\ Measured /\ Cardinality(picked) = PerTrial
      /\ trials' = Append(trials, trial)
      /\ copy' = ToSet(rows) /\ picked' = {} /\ seeded' = {}
      /\ caller' = caller /\ rows' = rows /\ timings' = timings /\ card' = card
  BY DEF EndTrial, Seeding
<1>2. RowsOfDeviations /\ OneOmissionEach /\ CopyIsSeeded /\ TrialsFound /\ CardStands
  BY DEF CardInv
<1>3. /\ DOMAIN rows = DOMAIN Deviations
      /\ \A i \in DOMAIN rows : rows[i] \in Row /\ rows[i] \in ToSet(rows)
                              /\ rows[i].label = Deviations[i]
      /\ \A r \in ToSet(rows) : \E i \in DOMAIN rows : r = rows[i]
  BY <1>1, <1>2, OneRowEach DEF RowsOfDeviations, ToSet
<1>4. \A o \in seeded : o \in Kinds \X ToSet(Deviations)
  BY <1>2 DEF OneOmissionEach
<1>5. \A l \in Labels(copy) : \E r \in copy : l = r.label
  BY DEF Labels
<1>6. \A r \in copy : ~r.consequences => r.label \in Empty
  BY DEF Empty, Labels
<1>7. Detected = seeded
  <2>1. ASSUME NEW o \in seeded
        PROVE  o[2] \in IF o[1] = "dropped_row" THEN Missing ELSE Empty
    <3>1. CASE o[1] = "dropped_row"
      <4>1. o[2] \in ToSet(Deviations)
        BY <1>4
      <4>2. o[2] \notin Labels(copy)
        BY <1>2, <1>5, <3>1 DEF CopyIsSeeded
      <4>3. QED  BY <3>1, <4>1, <4>2 DEF Missing
    <3>2. CASE o[1] # "dropped_row"
      BY <1>2, <1>6, <3>2 DEF CopyIsSeeded
    <3>3. QED  BY <3>1, <3>2
  <2>2. QED  BY <2>1 DEF Detected
<1>8. others \subseteq Labels({r \in ToSet(rows) : ~r.consequences})
  <2>1. SUFFICES ASSUME NEW l \in others PROVE l \in Labels({r \in ToSet(rows) : ~r.consequences})
    OBVIOUS
  <2>2. \A i \in picked : l # rows[i].label
    BY <1>2 DEF OneOmissionEach
  <2>3. CASE l \in Missing
    <3>1. PICK i \in DOMAIN Deviations : l = Deviations[i]
      BY <2>3, DeviationsType DEF Missing
    <3>2. i \in DOMAIN rows \ picked /\ l = rows[i].label
      BY <1>3, <2>2, <3>1
    <3>3. rows[i] \in copy
      BY <1>2, <3>2 DEF CopyIsSeeded
    <3>4. l \in Labels(copy)
      BY <3>2, <3>3 DEF Labels
    <3>5. QED  BY <2>3, <3>4 DEF Missing
  <2>4. CASE l \in Empty
    <3>1. PICK r \in copy : ~r.consequences /\ l = r.label
      BY <2>4 DEF Empty, Labels
    <3>2. PICK i \in DOMAIN rows : r.label = rows[i].label /\ (i \notin picked => r = rows[i])
      BY <1>2 DEF CopyIsSeeded
    <3>3. r \in ToSet(rows)
      BY <1>3, <2>2, <3>1, <3>2
    <3>4. QED  BY <3>1, <3>3 DEF Labels
  <2>5. QED  BY <2>3, <2>4
<1>9. Cardinality(seeded) = PerTrial
  BY <1>1, <1>2 DEF OneOmissionEach
<1>10. others \subseteq ToSet(Deviations)
  <2>1. Missing \subseteq ToSet(Deviations)
    BY DEF Missing
  <2>2. Empty \subseteq ToSet(Deviations)
    <3>1. SUFFICES ASSUME NEW l \in Empty PROVE l \in ToSet(Deviations)
      OBVIOUS
    <3>2. PICK r \in copy : l = r.label
      BY DEF Empty, Labels
    <3>3. PICK i \in DOMAIN rows : r.label = rows[i].label
      BY <1>2 DEF CopyIsSeeded
    <3>4. QED  BY <1>3, <3>2, <3>3 DEF Row
  <2>3. QED  BY <2>1, <2>2
<1>11. trial \in Trial
  <2> HIDE DEF others
  <2>1. QED  BY <1>4, <1>7, <1>10 DEF Trial
<1>12. TrialsFound'
  <2>1. trials \in Seq(Trial)
    BY <1>2 DEF TrialsFound
  <2>2. /\ trial.seeded = seeded /\ trial.detected = seeded /\ trial.others = others
    BY <1>7
  <2> HIDE DEF trial, others
  <2>3. /\ trials' \in Seq(Trial) /\ DOMAIN trials = 1 .. Len(trials)
        /\ DOMAIN trials' = 1 .. (Len(trials) + 1) /\ Len(trials) \in Nat
        /\ \A n \in DOMAIN trials : trials'[n] = trials[n]
        /\ trials'[Len(trials) + 1] = trial
    BY <1>1, <1>11, <2>1
  <2>4. ASSUME NEW n \in DOMAIN trials'
        PROVE  /\ Cardinality(trials'[n].seeded) = PerTrial
               /\ trials'[n].detected = trials'[n].seeded
               /\ trials'[n].others \subseteq Labels({r \in ToSet(rows) : ~r.consequences})
    <3>1. CASE n \in DOMAIN trials
      BY <1>2, <2>3, <3>1 DEF TrialsFound
    <3>2. CASE n = Len(trials) + 1
      BY <1>8, <1>9, <2>2, <2>3, <3>2
    <3>3. n \in DOMAIN trials \/ n = Len(trials) + 1
      BY <2>3
    <3>4. QED  BY <3>1, <3>2, <3>3
  <2>5. Measured'
    BY <1>1 DEF Measured
  <2>6. QED  BY <1>1, <2>3, <2>4, <2>5 DEF TrialsFound, Labels, ToSet
<1>13. OneOmissionEach'
  BY <1>1, FS_EmptySet DEF OneOmissionEach
<1>14. CopyIsSeeded'
  BY <1>1, <1>3 DEF CopyIsSeeded, ToSet
<1>15. RowsOfDeviations' /\ CardStands'
  BY <1>1, <1>2, RowsStandStill, CardStandsStill
<1>16. QED  BY <1>12, <1>13, <1>14, <1>15 DEF CardInv

\* Whoever closes the scorecard, with these gates and this verdict.
LEMMA ClosedKeeps ==
    ASSUME CardInv, NEW by, NEW gates, NEW times, NEW passed, Closed(by, gates, times, passed),
           timings # <<>> => IsNearestRank(times.p50, 50) /\ IsNearestRank(times.p95, 95),
           DOMAIN gates # {} =>
              timings # <<>> /\ gates.latency = (Percentile(95) <= Target),
           passed => GoldPassed
    PROVE  CardInv'
<1>1. /\ Measured
      /\ card' = [gates |-> gates, p50 |-> times.p50, p95 |-> times.p95, passed |-> passed]
      /\ caller' = caller /\ rows' = rows /\ timings' = timings /\ copy' = copy
      /\ picked' = picked /\ seeded' = seeded /\ trials' = trials
  BY DEF Closed
<1>2. RowsOfDeviations /\ OneOmissionEach /\ CopyIsSeeded /\ TrialsFound
  BY DEF CardInv
<1>3. RowsOfDeviations' /\ OneOmissionEach' /\ CopyIsSeeded' /\ TrialsFound'
  <2>1. RowsOfDeviations'
    BY <1>1, <1>2, RowsStandStill
  <2>2. OneOmissionEach' /\ CopyIsSeeded'
    BY <1>1, <1>2 DEF OneOmissionEach, CopyIsSeeded, Measured
  <2>3. TrialsFound'
    BY <1>1, <1>2 DEF TrialsFound, Labels, ToSet, Measured
  <2>4. QED  BY <2>1, <2>2, <2>3
<1>4. DOMAIN gates # {} =>
         gates.latency <=> 20 * (Len(timings) - Within(Target)) <= Len(timings)
  <2>1. timings \in Seq(Nat)
    BY <1>2 DEF RowsOfDeviations
  <2>2. QED  BY <2>1, LatencyGate
<1>5. CardStands'
  <2>1. /\ card'.p50 = times.p50 /\ card'.p95 = times.p95
        /\ card'.gates = gates /\ card'.passed = passed
    BY <1>1
  <2>2. (Measured' <=> Measured) /\ (GoldPassed' <=> GoldPassed)
    BY <1>1 DEF Measured, GoldPassed, CoverageStands, RecallStands, Uncovered, Missed, Labels,
                ToSet
  <2>3. IsNearestRank(card.p50, 50)' <=> IsNearestRank(times.p50, 50)
    BY <1>1, <2>1 DEF IsNearestRank, Within, ToSet
  <2>4. IsNearestRank(card.p95, 95)' <=> IsNearestRank(times.p95, 95)
    BY <1>1, <2>1 DEF IsNearestRank, Within, ToSet
  <2>5. Within(Target)' = Within(Target)
    BY <1>1 DEF Within
  <2>6. QED  BY <1>1, <1>4, <2>1, <2>2, <2>3, <2>4, <2>5 DEF CardStands
<1>6. QED  BY <1>3, <1>5 DEF CardInv

LEMMA ScoresKeep ==
    ASSUME CardInv,
           \/ \E g \in BOOLEAN : ScoreByScript(g) \/ ScoreOnPage(g)
           \/ CompareWithGold \/ ScoreInLab
    PROVE  CardInv'
<1>1. RowsOfDeviations
  BY DEF CardInv
<1>2. timings \in Seq(Nat)
  BY <1>1 DEF RowsOfDeviations
<1>3. timings # <<>> => IsNearestRank(Timed.p50, 50) /\ IsNearestRank(Timed.p95, 95)
  <2>1. Timed.p50 = Percentile(50) /\ Timed.p95 = Percentile(95)
    BY DEF Timed
  <2>2. QED  BY <1>2, <2>1, PercentileIsNearestRank
<1>4. ASSUME Measured, caller # "eval" PROVE timings # <<>>
  <2>1. Len(timings) = Len(Deviations) /\ Len(Deviations) # 0
    BY <1>1, <1>4, DeviationsType DEF RowsOfDeviations, Measured
  <2>2. QED  BY <1>2, <2>1
<1>5. ASSUME NEW g \in BOOLEAN
      PROVE  /\ Gates(g).latency = (Percentile(95) <= Target)
             /\ (\A k \in DOMAIN Gates(g) : Gates(g)[k]) => GoldPassed
  <2>1. Gates(g).latency = (Percentile(95) <= Target)
    BY DEF Gates
  <2>2. {"coverage", "recall"} \subseteq DOMAIN Gates(g)
    BY DEF Gates
  <2>3. Gates(g)["coverage"] = CoverageStands /\ Gates(g)["recall"] = RecallStands
    BY DEF Gates
  <2>4. QED  BY <2>1, <2>2, <2>3 DEF GoldPassed
<1>6. ASSUME NEW g \in BOOLEAN, ScoreByScript(g) PROVE CardInv'
  <2>1. Closed("script", Gates(g), Timed, \A k \in DOMAIN Gates(g) : Gates(g)[k])
    BY <1>6 DEF ScoreByScript
  <2>2. Measured /\ caller = "script"
    BY <2>1 DEF Closed
  <2>3. timings # <<>>
    BY <1>4, <2>2
  <2>4. QED  BY <1>3, <1>5, <2>1, <2>3, ClosedKeeps
<1>7. ASSUME NEW g \in BOOLEAN, ScoreOnPage(g) PROVE CardInv'
  <2>1. Closed("page", Gates(g), Timed, FALSE)
    BY <1>7 DEF ScoreOnPage
  <2>2. Measured /\ caller = "page"
    BY <2>1 DEF Closed
  <2>3. timings # <<>>
    BY <1>4, <2>2
  <2>4. QED  BY <1>3, <1>5, <2>1, <2>3, ClosedKeeps
<1>8. DOMAIN Ungated = {}
  BY DEF Ungated
<1>9. ASSUME CompareWithGold PROVE CardInv'
  <2>1. Closed("eval", Ungated, Untimed, GoldPassed)
    BY <1>9 DEF CompareWithGold
  <2>2. caller = "eval"
    BY <2>1 DEF Closed
  <2>3. timings = <<>>
    BY <1>1, <1>2, <2>2 DEF RowsOfDeviations
  <2>4. QED  BY <1>8, <2>1, <2>3, ClosedKeeps
<1>10. ASSUME ScoreInLab PROVE CardInv'
  <2>1. Closed("lab", Ungated, Timed, GoldPassed)
    BY <1>10 DEF ScoreInLab
  <2>2. QED  BY <1>3, <1>8, <2>1, ClosedKeeps
<1>11. QED  BY <1>6, <1>7, <1>9, <1>10

\* What the scorecard tells of a worksheet is true of it, whoever has it made:
\* every seeded omission is found (seeded_omissions.py), the percentiles are those
\* of nearest rank and the latency gate follows them (latency.py), and none passes
\* that the gold set fails (metrics.py, mdl_scorecard.py, app.py, llm_lab.py).
THEOREM ScoreIsTold == CardSpec => []ScorecardIsHonest
<1>1. CardInv /\ [CardNext]_cardVars => CardInv'
  <2>1. SUFFICES ASSUME CardInv, [CardNext]_cardVars PROVE CardInv'
    OBVIOUS
  <2>2. ASSUME NEW c \in BOOLEAN, NEW m \in BOOLEAN, NEW t \in Times, Measure(c, m, t)
        PROVE  CardInv'
    BY <2>1, <2>2, MeasureKeeps
  <2>3. ASSUME NEW i \in DOMAIN rows, NEW k \in Kinds, Seed(i, k)
        PROVE  CardInv'
    BY <2>1, <2>3, SeedKeeps
  <2>4. CASE EndTrial
    BY <2>1, <2>4, EndTrialKeeps
  <2>5. CASE \/ \E g \in BOOLEAN : ScoreByScript(g) \/ ScoreOnPage(g)
             \/ CompareWithGold \/ ScoreInLab
    BY <2>1, <2>5, ScoresKeep
  <2>6. CASE UNCHANGED cardVars
    <3>1. /\ caller' = caller /\ rows' = rows /\ timings' = timings /\ copy' = copy
          /\ picked' = picked /\ seeded' = seeded /\ trials' = trials /\ card' = card
      BY <2>6 DEF cardVars
    <3>2. RowsOfDeviations' /\ CardStands'
      BY <2>1, <3>1, RowsStandStill, CardStandsStill DEF CardInv
    <3>3. OneOmissionEach' /\ CopyIsSeeded'
      BY <2>1, <3>1 DEF CardInv, OneOmissionEach, CopyIsSeeded, Measured
    <3>4. TrialsFound'
      BY <2>1, <3>1 DEF CardInv, TrialsFound, Labels, ToSet, Measured
    <3>5. QED  BY <3>2, <3>3, <3>4 DEF CardInv
  <2>7. QED  BY <2>1, <2>2, <2>3, <2>4, <2>5, <2>6 DEF CardNext
<1>2. QED  BY <1>1, CardInvInit, CardInvImplies, PTL DEF CardSpec

----------------------------------------------------------------------------
(* Listing a finite set in an order.                                         *)

IsOrderOf(R, S) ==
    /\ \A i \in S : <<i, i>> \notin R
    /\ \A i, j, k \in S : <<i, j>> \in R /\ <<j, k>> \in R => <<i, k>> \in R
    /\ \A i, j \in S : i # j => <<i, j>> \in R \/ <<j, i>> \in R

\* Those that come before i.
Earlier(S, R, i) == {j \in S : <<j, i>> \in R}

\* Those before an earlier member are fewer.
LEMMA EarlierCounts ==
    ASSUME NEW S, IsFiniteSet(S), NEW R, IsOrderOf(R, S)
    PROVE  /\ \A i \in S : /\ IsFiniteSet(Earlier(S, R, i))
                           /\ Cardinality(Earlier(S, R, i)) \in 0 .. Cardinality(S) - 1
           /\ \A i, j \in S : <<i, j>> \in R =>
                 Cardinality(Earlier(S, R, i)) < Cardinality(Earlier(S, R, j))
<1>1. ASSUME NEW i \in S
      PROVE  /\ IsFiniteSet(Earlier(S, R, i))
             /\ Cardinality(Earlier(S, R, i)) \in 0 .. Cardinality(S) - 1
  <2>1. Earlier(S, R, i) \in SUBSET S /\ i \notin Earlier(S, R, i)
    BY DEF Earlier, IsOrderOf
  <2>2. /\ IsFiniteSet(Earlier(S, R, i))
        /\ Cardinality(Earlier(S, R, i)) <= Cardinality(S)
        /\ Cardinality(Earlier(S, R, i)) # Cardinality(S)
    BY <2>1, FS_Subset
  <2>3. Cardinality(Earlier(S, R, i)) \in Nat /\ Cardinality(S) \in Nat
    BY <2>2, FS_CardinalityType
  <2>4. QED  BY <2>2, <2>3
<1>2. ASSUME NEW i \in S, NEW j \in S, <<i, j>> \in R
      PROVE  Cardinality(Earlier(S, R, i)) < Cardinality(Earlier(S, R, j))
  <2>1. Earlier(S, R, i) \in SUBSET Earlier(S, R, j)
    BY <1>2 DEF Earlier, IsOrderOf
  <2>2. i \in Earlier(S, R, j) /\ i \notin Earlier(S, R, i)
    BY <1>2 DEF Earlier, IsOrderOf
  <2>3. /\ Cardinality(Earlier(S, R, i)) <= Cardinality(Earlier(S, R, j))
        /\ Cardinality(Earlier(S, R, i)) # Cardinality(Earlier(S, R, j))
    BY <1>1, <2>1, <2>2, FS_Subset
  <2>4. Cardinality(Earlier(S, R, i)) \in Nat /\ Cardinality(Earlier(S, R, j)) \in Nat
    BY <1>1, FS_CardinalityType
  <2>5. QED  BY <2>3, <2>4
<1>3. QED  BY <1>1, <1>2

\* Every member has its place, and the order of the places is the order.
LEMMA ListedInOrder ==
    ASSUME NEW S, IsFiniteSet(S), NEW R, IsOrderOf(R, S)
    PROVE  /\ Cardinality(S) \in Nat
           /\ Listed(S, R) \in [1 .. Cardinality(S) -> S]
           /\ \A n \in 1 .. Cardinality(S) :
                 Cardinality(Earlier(S, R, Listed(S, R)[n])) = n - 1
           /\ \A i \in S : \E n \in 1 .. Cardinality(S) : Listed(S, R)[n] = i
           /\ \A m, n \in 1 .. Cardinality(S) : Listed(S, R)[m] = Listed(S, R)[n] => m = n
           /\ \A m, n \in 1 .. Cardinality(S) :
                 <<Listed(S, R)[m], Listed(S, R)[n]>> \in R => m < n
<1> DEFINE c == Cardinality(S)
           D == 1 .. c
           place == [i \in S |-> Cardinality(Earlier(S, R, i)) + 1]
<1>1. c \in Nat /\ IsFiniteSet(D) /\ Cardinality(D) = c
  BY FS_CardinalityType, FS_Interval
<1>2. \A i \in S : place[i] \in D /\ Cardinality(Earlier(S, R, i)) \in Nat
                 /\ place[i] = Cardinality(Earlier(S, R, i)) + 1
  BY <1>1, EarlierCounts
<1>3. \A i, j \in S : <<i, j>> \in R => place[i] < place[j]
  <2>1. SUFFICES ASSUME NEW i \in S, NEW j \in S, <<i, j>> \in R PROVE place[i] < place[j]
    OBVIOUS
  <2>2. Cardinality(Earlier(S, R, i)) < Cardinality(Earlier(S, R, j))
    BY <2>1, EarlierCounts
  <2> HIDE DEF place, D
  <2>3. QED  BY <1>2, <2>2
<1>4. place \in Injection(S, D)
  <2>1. place \in [S -> D]
    <3> HIDE DEF D
    <3>1. QED  BY <1>2
  <2>2. \A i \in S : place[i] \in Nat
    BY <1>1, <1>2
  <2> HIDE DEF place, D
  <2>3. \A i, j \in S : place[i] = place[j] => i = j
    <3>1. SUFFICES ASSUME NEW i \in S, NEW j \in S, i # j PROVE place[i] # place[j]
      OBVIOUS
    <3>2. place[i] < place[j] \/ place[j] < place[i]
      BY <1>3, <3>1 DEF IsOrderOf
    <3>3. place[i] \in Nat /\ place[j] \in Nat
      BY <2>2
    <3>4. QED  BY <3>2, <3>3
  <2>4. QED  BY <2>1, <2>3 DEF Injection, IsInjective
<1>5. place \in Surjection(S, D)
  <2> HIDE DEF place, D
  <2>1. QED  BY <1>1, <1>4, FS_Injection
<1>6. ASSUME NEW n \in D
      PROVE  /\ Listed(S, R)[n] \in S /\ place[Listed(S, R)[n]] = n
             /\ Cardinality(Earlier(S, R, Listed(S, R)[n])) = n - 1
  <2>1. Listed(S, R)[n] = CHOOSE i \in S : Cardinality(Earlier(S, R, i)) = n - 1
    BY DEF Listed, Earlier
  <2>2. \E i \in S : place[i] = n
    <3> HIDE DEF place, D
    <3>1. QED  BY <1>5 DEF Surjection
  <2>3. n \in Nat
    BY <1>1
  <2>4. \E i \in S : Cardinality(Earlier(S, R, i)) = n - 1
    BY <1>2, <2>2, <2>3
  <2>5. /\ Listed(S, R)[n] \in S
        /\ Cardinality(Earlier(S, R, Listed(S, R)[n])) = n - 1
    BY <2>1, <2>4
  <2>6. QED  BY <1>2, <2>3, <2>5
<1>7. Listed(S, R) \in [D -> S]
  <2> DEFINE nth(n) == CHOOSE i \in S : Cardinality({j \in S : <<j, i>> \in R}) = n - 1
  <2>1. Listed(S, R) = [n \in D |-> nth(n)]
    BY DEF Listed
  <2> HIDE DEF nth, D, place
  <2>2. \A n \in D : nth(n) \in S
    BY <1>6, <2>1
  <2>3. QED  BY <2>1, <2>2
<1>8. \A i \in S : \E n \in D : Listed(S, R)[n] = i
  <2>1. SUFFICES ASSUME NEW i \in S PROVE Listed(S, R)[place[i]] = i
    BY <1>2
  <2> HIDE DEF place, D
  <2>2. Listed(S, R)[place[i]] \in S /\ place[Listed(S, R)[place[i]]] = place[i]
    BY <1>2, <1>6
  <2>3. QED  BY <1>4, <2>2 DEF Injection, IsInjective
<1>9. \A m, n \in D : Listed(S, R)[m] = Listed(S, R)[n] => m = n
  <2> HIDE DEF place, D
  <2>1. QED  BY <1>6
<1>10. \A m, n \in D : <<Listed(S, R)[m], Listed(S, R)[n]>> \in R => m < n
  <2> HIDE DEF place, D
  <2>1. QED  BY <1>3, <1>6
<1>11. QED  BY <1>1, <1>6, <1>7, <1>8, <1>9, <1>10

----------------------------------------------------------------------------
(* Fractions.                                                                *)

\* What the comparisons need of a product.
LEMMA Products ==
    ASSUME NEW a \in Nat, NEW b \in Nat, NEW c \in Nat
    PROVE  /\ a * c \in Nat
           /\ a * c = c * a
           /\ a * b * c = a * (b * c)
           /\ a < b /\ c # 0 => a * c < b * c
           /\ a <= b => a * c <= b * c
           /\ a # 0 /\ c # 0 => a * c # 0
OBVIOUS

IsFraction(x) == x \in Nat \X (Nat \ {0})

\* More is a strict order of fractions, by which any two that differ compare.
LEMMA FractionsCompare ==
    ASSUME NEW x, NEW y, NEW z, IsFraction(x), IsFraction(y), IsFraction(z)
    PROVE  /\ ~More(x, x)
           /\ ~(More(x, y) /\ More(y, x))
           /\ ~More(y, x) /\ ~More(z, y) => ~More(z, x)
           /\ ~More(y, x) /\ More(y, z) => More(x, z)
           /\ More(x, y) /\ ~More(z, y) => More(x, z)
<1> DEFINE a == x[1]  b == x[2]  c == y[1]  d == y[2]  e == z[1]  f == z[2]
<1>1. /\ a \in Nat /\ c \in Nat /\ e \in Nat
      /\ b \in Nat /\ d \in Nat /\ f \in Nat /\ b # 0 /\ d # 0 /\ f # 0
  BY DEF IsFraction
<1>2. /\ More(x, y) <=> a * d > c * b
      /\ More(y, x) <=> c * b > a * d
      /\ More(y, z) <=> c * f > e * d
      /\ More(z, y) <=> e * d > c * f
      /\ More(x, z) <=> a * f > e * b
      /\ More(z, x) <=> e * b > a * f
      /\ More(x, x) <=> a * b > a * b
  BY DEF More
<1> HIDE DEF a, b, c, d, e, f
<1>3. /\ a * d \in Nat /\ c * b \in Nat /\ c * f \in Nat /\ e * d \in Nat
      /\ a * f \in Nat /\ e * b \in Nat /\ a * b \in Nat
  BY <1>1, Products
<1>4. c * b <= a * d /\ e * d <= c * f => e * b <= a * f
  <2>1. SUFFICES ASSUME c * b <= a * d, e * d <= c * f, a * f < e * b PROVE FALSE
    BY <1>3
  <2>2. (c * b) * f <= (a * d) * f
    BY <1>1, <1>3, <2>1, Products
  <2>3. (e * d) * b <= (c * f) * b
    BY <1>1, <1>3, <2>1, Products
  <2>4. (a * f) * d < (e * b) * d
    BY <1>1, <1>3, <2>1, Products
  <2>5. QED  BY <1>1, <2>2, <2>3, <2>4
<1>5. c * b < a * d /\ e * d <= c * f => e * b < a * f
  <2>1. SUFFICES ASSUME c * b < a * d, e * d <= c * f, a * f <= e * b PROVE FALSE
    BY <1>3
  <2>2. (c * b) * f < (a * d) * f
    BY <1>1, <1>3, <2>1, Products
  <2>3. (e * d) * b <= (c * f) * b
    BY <1>1, <1>3, <2>1, Products
  <2>4. (a * f) * d <= (e * b) * d
    BY <1>1, <1>3, <2>1, Products
  <2>5. QED  BY <1>1, <2>2, <2>3, <2>4
<1>6. c * b <= a * d /\ e * d < c * f => e * b < a * f
  <2>1. SUFFICES ASSUME c * b <= a * d, e * d < c * f, a * f <= e * b PROVE FALSE
    BY <1>3
  <2>2. (c * b) * f <= (a * d) * f
    BY <1>1, <1>3, <2>1, Products
  <2>3. (e * d) * b < (c * f) * b
    BY <1>1, <1>3, <2>1, Products
  <2>4. (a * f) * d <= (e * b) * d
    BY <1>1, <1>3, <2>1, Products
  <2>5. QED  BY <1>1, <2>2, <2>3, <2>4
<1>7. QED  BY <1>2, <1>3, <1>4, <1>5, <1>6

\* A fraction is above zero where its numerator is not zero.
LEMMA PositiveFraction ==
    ASSUME NEW x, IsFraction(x)
    PROVE  IsFraction(<<0, 1>>) /\ (More(x, <<0, 1>>) <=> x[1] # 0)
BY DEF IsFraction, More

\* A sum is above zero where a part is.
LEMMA SumIsFraction ==
    ASSUME NEW x, NEW y, IsFraction(x), IsFraction(y)
    PROVE  IsFraction(Sum(x, y)) /\ (Sum(x, y)[1] # 0 <=> x[1] # 0 \/ y[1] # 0)
<1>1. x[1] \in Nat /\ x[2] \in Nat /\ x[2] # 0 /\ y[1] \in Nat /\ y[2] \in Nat /\ y[2] # 0
  BY DEF IsFraction
<1>2. x[1] * y[2] \in Nat /\ y[1] * x[2] \in Nat /\ x[2] * y[2] \in Nat /\ x[2] * y[2] # 0
  BY <1>1, Products
<1>3. (x[1] * y[2] # 0 <=> x[1] # 0) /\ (y[1] * x[2] # 0 <=> y[1] # 0)
  BY <1>1, Products
<1>4. Sum(x, y)[1] = x[1] * y[2] + y[1] * x[2] /\ Sum(x, y)[2] = x[2] * y[2]
      /\ Sum(x, y) = <<x[1] * y[2] + y[1] * x[2], x[2] * y[2]>>
  BY DEF Sum
<1>5. x[1] * y[2] + y[1] * x[2] \in Nat
  BY <1>2
<1>6. Sum(x, y)[1] # 0 <=> x[1] # 0 \/ y[1] # 0
  BY <1>2, <1>3, <1>4
<1>7. QED  BY <1>2, <1>4, <1>5, <1>6 DEF IsFraction

\* A sum of two greater parts is greater.
LEMMA SumsCompare ==
    ASSUME NEW x, NEW y, NEW u, NEW v, IsFraction(x), IsFraction(y), IsFraction(u), IsFraction(v),
           More(x, u), More(y, v)
    PROVE  More(Sum(x, y), Sum(u, v))
<1> DEFINE a == x[1]  b == x[2]  c == u[1]  d == u[2]  e == y[1]  f == y[2]  g == v[1]  h == v[2]
<1>1. /\ a \in Nat /\ c \in Nat /\ e \in Nat /\ g \in Nat
      /\ b \in Nat /\ d \in Nat /\ f \in Nat /\ h \in Nat
      /\ b # 0 /\ d # 0 /\ f # 0 /\ h # 0
  BY DEF IsFraction
<1>2. c * b < a * d /\ g * f < e * h
  BY DEF More
<1>3. More(Sum(x, y), Sum(u, v)) <=> (a * f + e * b) * (d * h) > (c * h + g * d) * (b * f)
  BY DEF More, Sum
<1> HIDE DEF a, b, c, d, e, f, g, h
<1>4. /\ a * d \in Nat /\ c * b \in Nat /\ e * h \in Nat /\ g * f \in Nat
      /\ f * h \in Nat /\ b * d \in Nat /\ f * h # 0 /\ b * d # 0
  BY <1>1, Products
<1>5. (c * b) * (f * h) < (a * d) * (f * h)
  BY <1>2, <1>4, Products
<1>6. (g * f) * (b * d) < (e * h) * (b * d)
  BY <1>2, <1>4, Products
<1>7. /\ (a * f + e * b) * (d * h) = (a * d) * (f * h) + (e * h) * (b * d)
      /\ (c * h + g * d) * (b * f) = (c * b) * (f * h) + (g * f) * (b * d)
  BY <1>1
<1>8. /\ (a * d) * (f * h) \in Nat /\ (e * h) * (b * d) \in Nat
      /\ (c * b) * (f * h) \in Nat /\ (g * f) * (b * d) \in Nat
  BY <1>4, Products
<1>9. QED  BY <1>3, <1>5, <1>6, <1>7, <1>8

\* What a boost makes of a fraction.
Times2(x, m) == <<x[1] * (2 + m), x[2] * 2>>

\* A boost keeps a fraction above zero, and keeps it before a smaller one that is
\* boosted no more.
LEMMA BoostsCompare ==
    ASSUME NEW x, NEW y, IsFraction(x), IsFraction(y), NEW m \in Nat, NEW n \in Nat
    PROVE  /\ IsFraction(Times2(x, m)) /\ (Times2(x, m)[1] # 0 <=> x[1] # 0)
           /\ More(x, y) /\ n <= m => More(Times2(x, m), Times2(y, n))
<1> DEFINE a == x[1]  b == x[2]  c == y[1]  d == y[2]
<1>1. a \in Nat /\ c \in Nat /\ b \in Nat /\ d \in Nat /\ b # 0 /\ d # 0
  BY DEF IsFraction
<1>2. /\ Times2(x, m) = <<a * (2 + m), b * 2>> /\ Times2(x, m)[1] = a * (2 + m)
      /\ More(x, y) <=> c * b < a * d
      /\ More(Times2(x, m), Times2(y, n)) <=> (c * (2 + n)) * (b * 2) < (a * (2 + m)) * (d * 2)
  BY DEF More, Times2
<1> HIDE DEF a, b, c, d
<1>3. a * (2 + m) \in Nat /\ (a * (2 + m) # 0 <=> a # 0) /\ b * 2 \in Nat /\ b * 2 # 0
  <2>1. 2 + m \in Nat /\ 2 + m # 0
    OBVIOUS
  <2>2. a * (2 + m) \in Nat /\ (a # 0 => a * (2 + m) # 0)
    BY <1>1, <2>1, Products
  <2>3. a = 0 => a * (2 + m) = 0
    BY <2>1
  <2>4. QED  BY <1>1, <2>2, <2>3
<1>4. ASSUME c * b < a * d, n <= m
      PROVE  (c * (2 + n)) * (b * 2) < (a * (2 + m)) * (d * 2)
  <2> DEFINE k == (2 + n) * 2  l == (2 + m) * 2
  <2>1. k \in Nat /\ l \in Nat /\ k # 0 /\ k <= l
    BY <1>4
  <2>2. (c * (2 + n)) * (b * 2) = (c * b) * k /\ (a * (2 + m)) * (d * 2) = (a * d) * l
    BY <1>1
  <2>3. c * b \in Nat /\ a * d \in Nat
    BY <1>1, Products
  <2> HIDE DEF k, l
  <2>4. (c * b) * k < (a * d) * k
    BY <1>4, <2>1, <2>3, Products
  <2>5. k * (a * d) <= l * (a * d)
    BY <2>1, <2>3, Products
  <2>6. /\ k * (a * d) = (a * d) * k /\ l * (a * d) = (a * d) * l
        /\ (c * b) * k \in Nat /\ (a * d) * k \in Nat /\ (a * d) * l \in Nat
    BY <2>1, <2>3, Products
  <2>7. QED  BY <2>2, <2>4, <2>5, <2>6
<1>5. IsFraction(Times2(x, m))
  BY <1>2, <1>3 DEF IsFraction
<1>6. More(x, y) /\ n <= m => More(Times2(x, m), Times2(y, n))
  BY <1>2, <1>4
<1>7. Times2(x, m)[1] # 0 <=> x[1] # 0
  BY <1>2, <1>3 DEF a
<1>8. QED  BY <1>5, <1>6, <1>7

----------------------------------------------------------------------------
(* Ranks.                                                                    *)

AheadIn(score, S) == {p \in S \X S : Ahead(score, p[1], p[2])}

\* To stand ahead is a strict total order, and a rank counts who does.
LEMMA AheadIsOrder ==
    ASSUME NEW S, S \subseteq Nat, NEW score, \A i \in S : IsFraction(score[i])
    PROVE  /\ IsOrderOf(AheadIn(score, S), S)
           /\ \A i, j \in S : <<i, j>> \in AheadIn(score, S) <=> Ahead(score, i, j)
           /\ \A i \in S : Rank(score, i, S) = Cardinality(Earlier(S, AheadIn(score, S), i))
<1>1. \A i, j \in S : <<i, j>> \in AheadIn(score, S) <=> Ahead(score, i, j)
  BY DEF AheadIn
<1>2. ASSUME NEW i \in S PROVE ~Ahead(score, i, i)
  <2>1. i \in Nat
    OBVIOUS
  <2>2. QED  BY <2>1, FractionsCompare DEF Ahead
<1>3. ASSUME NEW i \in S, NEW j \in S, NEW k \in S, Ahead(score, i, j), Ahead(score, j, k)
      PROVE  Ahead(score, i, k)
  <2>1. i \in Nat /\ j \in Nat /\ k \in Nat
    OBVIOUS
  <2>2. \/ More(score[i], score[j])
        \/ ~More(score[j], score[i]) /\ i < j
    BY <1>3 DEF Ahead
  <2>3. \/ More(score[j], score[k])
        \/ ~More(score[k], score[j]) /\ j < k
    BY <1>3 DEF Ahead
  <2> DEFINE x == score[i]  y == score[j]  z == score[k]
  <2>4. IsFraction(x) /\ IsFraction(y) /\ IsFraction(z)
    OBVIOUS
  <2>5. Ahead(score, i, k) <=> More(x, z) \/ (~More(z, x) /\ i < k)
    BY DEF Ahead
  <2> HIDE DEF x, y, z
  <2>6. CASE More(x, y)
    <3>1. ~More(z, y)
      BY <2>3, <2>4, FractionsCompare DEF x, y, z
    <3>2. QED  BY <2>4, <2>5, <2>6, <3>1, FractionsCompare
  <2>7. CASE ~More(y, x) /\ i < j
    <3>1. CASE More(y, z)
      BY <2>4, <2>5, <2>7, <3>1, FractionsCompare
    <3>2. CASE ~More(z, y) /\ j < k
      <4>1. ~More(z, x)
        BY <2>4, <2>7, <3>2, FractionsCompare
      <4>2. i < k
        BY <2>1, <2>7, <3>2
      <4>3. QED  BY <2>5, <4>1, <4>2
    <3>3. QED  BY <2>3, <3>1, <3>2 DEF x, y, z
  <2>8. QED  BY <2>2, <2>6, <2>7 DEF x, y, z
<1>4. ASSUME NEW i \in S, NEW j \in S, i # j
      PROVE  Ahead(score, i, j) \/ Ahead(score, j, i)
  <2>1. i < j \/ j < i
    <3>1. i \in Nat /\ j \in Nat
      OBVIOUS
    <3>2. QED  BY <1>4, <3>1
  <2>2. QED  BY <2>1 DEF Ahead
<1>5. IsOrderOf(AheadIn(score, S), S)
  BY <1>1, <1>2, <1>3, <1>4 DEF IsOrderOf
<1>6. \A i \in S : Rank(score, i, S) = Cardinality(Earlier(S, AheadIn(score, S), i))
  <2>1. SUFFICES ASSUME NEW i \in S
                 PROVE  {j \in S : Ahead(score, j, i)} = Earlier(S, AheadIn(score, S), i)
    BY DEF Rank
  <2>2. QED  BY <1>1 DEF Earlier
<1>7. QED  BY <1>1, <1>5, <1>6

\* Each chunk has a rank of its own, in the order of who stands ahead.
LEMMA RanksCompare ==
    ASSUME NEW S, IsFiniteSet(S), S \subseteq Nat, NEW score, \A i \in S : IsFraction(score[i])
    PROVE  /\ \A i \in S : Rank(score, i, S) \in Nat
           /\ \A i, j \in S : Ahead(score, i, j) => Rank(score, i, S) < Rank(score, j, S)
           /\ \A i, j \in S : Rank(score, i, S) = Rank(score, j, S) => i = j
<1>1. /\ IsOrderOf(AheadIn(score, S), S)
      /\ \A i, j \in S : <<i, j>> \in AheadIn(score, S) <=> Ahead(score, i, j)
      /\ \A i \in S : Rank(score, i, S) = Cardinality(Earlier(S, AheadIn(score, S), i))
  BY AheadIsOrder
<1>2. \A i \in S : Rank(score, i, S) \in Nat
  BY <1>1, EarlierCounts, FS_CardinalityType
<1>3. \A i, j \in S : Ahead(score, i, j) => Rank(score, i, S) < Rank(score, j, S)
  BY <1>1, EarlierCounts
<1>4. ASSUME NEW i \in S, NEW j \in S, i # j
      PROVE  Rank(score, i, S) # Rank(score, j, S)
  <2>1. Ahead(score, i, j) \/ Ahead(score, j, i)
    BY <1>1, <1>4 DEF IsOrderOf
  <2>2. QED  BY <1>2, <1>3, <2>1
<1>5. QED  BY <1>2, <1>3, <1>4

----------------------------------------------------------------------------
(* A search.                                                                 *)

\* What the index and the scores of a search are like.
Searchable(q) ==
    /\ DOMAIN index \subseteq Nat /\ IsFiniteSet(DOMAIN index)
    /\ \A i \in DOMAIN index : IsFraction(q.lex[i]) /\ IsFraction(q.den[i])

LEMMA EligibleIs ==
    ASSUME NEW q, Searchable(q)
    PROVE  /\ Eligible(q.unit) \subseteq DOMAIN index /\ Eligible(q.unit) \subseteq Nat
           /\ IsFiniteSet(Eligible(q.unit))
           /\ \A i \in Eligible(q.unit) : IsFraction(q.lex[i]) /\ IsFraction(q.den[i])
<1>1. Eligible(q.unit) \in SUBSET DOMAIN index
  BY DEF Eligible
<1>2. IsFiniteSet(Eligible(q.unit))
  BY <1>1, FS_Subset DEF Searchable
<1>3. QED  BY <1>1, <1>2 DEF Searchable

\* A half gives points where it matches, and more of them to the better chunk.
LEMMA PointsAre ==
    ASSUME NEW S, IsFiniteSet(S), S \subseteq Nat, NEW score, \A i \in S : IsFraction(score[i])
    PROVE  /\ \A i \in S : /\ IsFraction(Points(score, i, S))
                           /\ Points(score, i, S)[1] # 0 <=> More(score[i], <<0, 1>>)
           /\ \A i, j \in S : More(score[i], score[j]) =>
                                More(Points(score, i, S), Points(score, j, S))
<1>1. ASSUME NEW i \in S
      PROVE  /\ IsFraction(Points(score, i, S))
             /\ Points(score, i, S)[1] # 0 <=> More(score[i], <<0, 1>>)
  <2>1. Rank(score, i, S) \in Nat
    BY RanksCompare
  <2>2. IsFraction(<<1, 61 + Rank(score, i, S)>>) /\ IsFraction(<<0, 1>>)
    BY <2>1 DEF IsFraction
  <2>3. QED  BY <2>2 DEF Points
<1>2. ASSUME NEW i \in S, NEW j \in S, More(score[i], score[j])
      PROVE  More(Points(score, i, S), Points(score, j, S))
  <2>1. More(score[i], <<0, 1>>)
    <3>1. IsFraction(<<0, 1>>) /\ ~More(<<0, 1>>, score[j])
      BY DEF IsFraction, More
    <3>2. QED  BY <1>2, <3>1, FractionsCompare
  <2>2. Rank(score, i, S) \in Nat /\ Rank(score, j, S) \in Nat
        /\ Rank(score, i, S) < Rank(score, j, S)
    BY <1>2, RanksCompare DEF Ahead
  <2>3. Points(score, i, S) = <<1, 61 + Rank(score, i, S)>>
    BY <2>1 DEF Points
  <2>4. CASE More(score[j], <<0, 1>>)
    <3>1. Points(score, j, S) = <<1, 61 + Rank(score, j, S)>>
      BY <2>4 DEF Points
    <3>2. QED  BY <2>2, <2>3, <3>1 DEF More
  <2>5. CASE ~More(score[j], <<0, 1>>)
    <3>1. Points(score, j, S) = <<0, 1>>
      BY <2>5 DEF Points
    <3>2. QED  BY <2>2, <2>3, <3>1 DEF More
  <2>6. QED  BY <2>4, <2>5
<1>3. QED  BY <1>1, <1>2

\* A chunk that has another's matches has no fewer.
LEMMA MatchesAre ==
    ASSUME NEW q, NEW i, NEW j
    PROVE  /\ Cardinality(Matches(q, i)) \in Nat
           /\ Matches(q, j) \subseteq Matches(q, i) =>
                 Cardinality(Matches(q, j)) <= Cardinality(Matches(q, i))
<1>1. Matches(q, i) \in SUBSET ({q.guideword} \cup {q.parameter})
  BY DEF Matches
<1>2. IsFiniteSet({q.guideword} \cup {q.parameter})
  BY FS_Singleton, FS_Union
<1>3. IsFiniteSet(Matches(q, i))
  BY <1>1, <1>2, FS_Subset
<1>4. QED  BY <1>3, FS_CardinalityType, FS_Subset

\* A chunk's value is positive where some half matches, and greater than that of
\* one it is better than in both halves and has the tags of.
LEMMA BoostedIs ==
    ASSUME NEW q, Searchable(q)
    PROVE  /\ \A i \in Eligible(q.unit) :
                 /\ IsFraction(Boosted(q, i))
                 /\ More(Boosted(q, i), <<0, 1>>)
                       <=> More(q.lex[i], <<0, 1>>) \/ More(q.den[i], <<0, 1>>)
           /\ \A i, j \in Eligible(q.unit) :
                 /\ More(q.lex[i], q.lex[j]) /\ More(q.den[i], q.den[j])
                 /\ Matches(q, j) \subseteq Matches(q, i)
                 => More(Boosted(q, i), Boosted(q, j))
<1> DEFINE S == Eligible(q.unit)
           x(i) == Points(q.lex, i, S)
           y(i) == Points(q.den, i, S)
           m(i) == Cardinality(Matches(q, i))
<1>1. /\ IsFiniteSet(S) /\ S \subseteq Nat
      /\ \A i \in S : IsFraction(q.lex[i]) /\ IsFraction(q.den[i])
  BY EligibleIs
<1>2. \A i : Boosted(q, i) = Times2(Sum(x(i), y(i)), m(i))
  BY DEF Boosted, Fused, Times2
<1> HIDE DEF S
<1>3. \A i \in S : /\ IsFraction(x(i)) /\ IsFraction(y(i))
                   /\ x(i)[1] # 0 <=> More(q.lex[i], <<0, 1>>)
                   /\ y(i)[1] # 0 <=> More(q.den[i], <<0, 1>>)
  BY <1>1, PointsAre
<1>4. \A i, j \in S : /\ More(q.lex[i], q.lex[j]) => More(x(i), x(j))
                      /\ More(q.den[i], q.den[j]) => More(y(i), y(j))
  BY <1>1, PointsAre
<1>5. \A i : m(i) \in Nat
  BY MatchesAre
<1>6. \A i, j : Matches(q, j) \subseteq Matches(q, i) => m(j) <= m(i)
  BY MatchesAre
<1> HIDE DEF x, y, m
<1>7. ASSUME NEW i \in S
      PROVE  /\ IsFraction(Boosted(q, i))
             /\ More(Boosted(q, i), <<0, 1>>)
                       <=> More(q.lex[i], <<0, 1>>) \/ More(q.den[i], <<0, 1>>)
  <2>1. IsFraction(Sum(x(i), y(i))) /\ (Sum(x(i), y(i))[1] # 0 <=> x(i)[1] # 0 \/ y(i)[1] # 0)
    BY <1>3, SumIsFraction
  <2>2. IsFraction(Boosted(q, i)) /\ (Boosted(q, i)[1] # 0 <=> Sum(x(i), y(i))[1] # 0)
    BY <1>2, <1>5, <2>1, BoostsCompare
  <2>3. More(Boosted(q, i), <<0, 1>>) <=> Boosted(q, i)[1] # 0
    BY <2>2, PositiveFraction
  <2>4. QED  BY <1>3, <2>1, <2>2, <2>3
<1>8. ASSUME NEW i \in S, NEW j \in S,
             More(q.lex[i], q.lex[j]), More(q.den[i], q.den[j]),
             Matches(q, j) \subseteq Matches(q, i)
      PROVE  More(Boosted(q, i), Boosted(q, j))
  <2>1. More(Sum(x(i), y(i)), Sum(x(j), y(j)))
    BY <1>3, <1>4, <1>8, SumsCompare
  <2>2. IsFraction(Sum(x(i), y(i))) /\ IsFraction(Sum(x(j), y(j)))
    BY <1>3, SumIsFraction
  <2>3. m(i) \in Nat /\ m(j) \in Nat /\ m(j) <= m(i)
    BY <1>5, <1>6, <1>8
  <2>4. QED  BY <1>2, <2>1, <2>2, <2>3, BoostsCompare
<1>9. QED  BY <1>7, <1>8 DEF S

\* A finite set that fits into another one by one is no larger.
LEMMA CannotOutnumber ==
    ASSUME NEW S, NEW T, IsFiniteSet(S), IsFiniteSet(T), NEW f \in [S -> T],
           \A x, y \in S : f[x] = f[y] => x = y
    PROVE  Cardinality(S) <= Cardinality(T)
<1>1. Cardinality(S) \in Nat /\ Cardinality(T) \in Nat
  BY FS_CardinalityType
<1>2. ~(Cardinality(T) < Cardinality(S))
  BY FS_PigeonHole
<1>3. QED  BY <1>1, <1>2

\* Some half of q matches.
FoundBy(q, i) == More(q.lex[i], <<0, 1>>) \/ More(q.den[i], <<0, 1>>)

\* Better in both halves, and tagged with all the other is.
Better(q, i, j) ==
    /\ More(q.lex[i], q.lex[j]) /\ More(q.den[i], q.den[j])
    /\ Matches(q, j) \subseteq Matches(q, i)

\* What a ranking holds, and in which order.
IsRanked(q, a, S) ==
    /\ a \in Seq(S) /\ Len(a) <= K /\ IsInjective(a)
    /\ \A i \in ToSet(a) : FoundBy(q, i)
    /\ \A i \in S \ ToSet(a) : Len(a) = K \/ ~FoundBy(q, i)
    /\ \A j \in ToSet(a), i \in S : Better(q, i, j) =>
          \E m, n \in DOMAIN a : m < n /\ a[m] = i /\ a[n] = j

\* The ranking of index.py's search is such: at most K, each once, each found, none
\* left out while there is room, the better one first.
LEMMA RankingIs ==
    ASSUME NEW q, Searchable(q)
    PROVE  IsRanked(q, Ranking(q), Eligible(q.unit))
<1> DEFINE S == Eligible(q.unit)
           value == [i \in S |-> Boosted(q, i)]
           best == {i \in S : Rank(value, i, S) < K /\ More(value[i], <<0, 1>>)}
           a == Listed(best, AheadIn(value, best))
<1>1. IsFiniteSet(S) /\ S \subseteq Nat
  BY EligibleIs
<1>2. Ranking(q) = a
  BY DEF Ranking, AheadIn
<1>3. /\ \A i \in S : IsFraction(value[i]) /\ (More(value[i], <<0, 1>>) <=> FoundBy(q, i))
      /\ \A i, j \in S : Better(q, i, j) => More(value[i], value[j])
  BY BoostedIs DEF FoundBy, Better
<1>4. \A i : i \in best <=> i \in S /\ Rank(value, i, S) < K /\ FoundBy(q, i)
  BY <1>3
<1>5. K \in Nat
  BY KBAssumption
<1> HIDE DEF S, value, best, a
<1>6. /\ \A i \in S : Rank(value, i, S) \in Nat
      /\ \A i, j \in S : Ahead(value, i, j) => Rank(value, i, S) < Rank(value, j, S)
      /\ \A i, j \in S : Rank(value, i, S) = Rank(value, j, S) => i = j
  BY <1>1, <1>3, RanksCompare
<1>7. IsFiniteSet(best) /\ best \subseteq S /\ best \subseteq Nat
  <2>1. best \in SUBSET S
    BY <1>4
  <2>2. QED  BY <1>1, <2>1, FS_Subset
<1>8. /\ IsOrderOf(AheadIn(value, best), best)
      /\ \A i, j \in best : <<i, j>> \in AheadIn(value, best) <=> Ahead(value, i, j)
  BY <1>3, <1>7, AheadIsOrder
<1> DEFINE c == Cardinality(best)
<1>9. /\ c \in Nat
      /\ a \in [1 .. c -> best]
      /\ \A i \in best : \E n \in 1 .. c : a[n] = i
      /\ \A m, n \in 1 .. c : a[m] = a[n] => m = n
      /\ \A m, n \in 1 .. c : <<a[m], a[n]>> \in AheadIn(value, best) => m < n
  BY <1>7, <1>8, ListedInOrder DEF a
<1> HIDE DEF c
<1>10. /\ a \in Seq(S) /\ Len(a) = c /\ DOMAIN a = 1 .. c /\ ToSet(a) = best
  <2>1. a \in [1 .. c -> S]
    BY <1>7, <1>9
  <2>2. a \in Seq(S) /\ Len(a) = c /\ DOMAIN a = 1 .. c
    BY <1>9, <2>1
  <2>3. QED  BY <1>9, <2>2 DEF ToSet
<1>11. c <= K
  <2> DEFINE f == [i \in best |-> Rank(value, i, S)]
             T == 0 .. (K - 1)
  <2>1. f \in [best -> T]
    <3>1. \A i \in best : Rank(value, i, S) \in T
      BY <1>4, <1>5, <1>6, <1>7
    <3>2. QED  BY <3>1
  <2>2. \A i, j \in best : f[i] = f[j] => i = j
    BY <1>6, <1>7
  <2>3. IsFiniteSet(T) /\ Cardinality(T) = K
    <3>1. 0 \in Int /\ K - 1 \in Int
      BY <1>5
    <3>2. IsFiniteSet(T) /\ Cardinality(T) = IF 0 > K - 1 THEN 0 ELSE (K - 1) - 0 + 1
      BY <3>1, FS_Interval
    <3>3. QED  BY <1>5, <3>2
  <2> HIDE DEF f, T
  <2>4. QED  BY <1>7, <2>1, <2>2, <2>3, CannotOutnumber DEF c
<1>12. ASSUME NEW i \in S \ best, FoundBy(q, i)
       PROVE  K <= c
  <2>1. Rank(value, i, S) >= K /\ Rank(value, i, S) \in Nat
    BY <1>4, <1>5, <1>6, <1>12
  <2> DEFINE L == Listed(S, AheadIn(value, S))
             s == Cardinality(S)
  <2>2. /\ IsOrderOf(AheadIn(value, S), S)
        /\ \A j, k \in S : <<j, k>> \in AheadIn(value, S) <=> Ahead(value, j, k)
        /\ \A j \in S : Rank(value, j, S) = Cardinality(Earlier(S, AheadIn(value, S), j))
    BY <1>1, <1>3, AheadIsOrder
  <2>3. /\ s \in Nat /\ L \in [1 .. s -> S]
        /\ \A n \in 1 .. s : Cardinality(Earlier(S, AheadIn(value, S), L[n])) = n - 1
        /\ \A m, n \in 1 .. s : L[m] = L[n] => m = n
    BY <1>1, <2>2, ListedInOrder
  <2>4. Rank(value, i, S) \in 0 .. s - 1
    BY <1>1, <2>2, EarlierCounts
  <2> HIDE DEF L, s
  <2>5. K < s
    BY <1>5, <2>1, <2>3, <2>4
  <2>6. ASSUME NEW n \in 1 .. K PROVE L[n] \in best
    <3>1. n \in 1 .. s /\ n \in Nat /\ n <= K
      BY <1>5, <2>3, <2>5
    <3>2. L[n] \in S /\ Rank(value, L[n], S) = n - 1
      BY <2>2, <2>3, <3>1
    <3>3. Rank(value, L[n], S) < K /\ Rank(value, L[n], S) < Rank(value, i, S)
      BY <1>5, <2>1, <3>1, <3>2
    <3>4. Ahead(value, L[n], i)
      <4>1. L[n] # i /\ ~Ahead(value, i, L[n])
        BY <1>6, <2>1, <3>2, <3>3
      <4>2. QED  BY <2>2, <3>2, <4>1 DEF IsOrderOf
    <3>5. More(value[i], <<0, 1>>)
      BY <1>3, <1>12
    <3>6. More(value[L[n]], <<0, 1>>)
      <4>1. IsFraction(value[i]) /\ IsFraction(value[L[n]]) /\ IsFraction(<<0, 1>>)
        BY <1>3, <3>2, PositiveFraction
      <4>2. ~More(value[i], value[L[n]])
        BY <3>4, <4>1, FractionsCompare DEF Ahead
      <4>3. QED  BY <3>5, <4>1, <4>2, FractionsCompare
    <3>7. QED  BY <1>3, <1>4, <3>2, <3>3, <3>6
  <2> DEFINE T == 1 .. K
             g == [n \in T |-> L[n]]
  <2>7. g \in [T -> best]
    BY <2>6
  <2>8. \A m, n \in T : g[m] = g[n] => m = n
    <3>1. T \subseteq 1 .. s
      BY <1>5, <2>3, <2>5
    <3>2. QED  BY <2>3, <3>1
  <2>9. IsFiniteSet(T) /\ Cardinality(T) = K
    BY <1>5, FS_Interval
  <2> HIDE DEF g, T
  <2>10. Cardinality(T) <= Cardinality(best)
    BY <1>7, <2>7, <2>8, <2>9, CannotOutnumber
  <2>11. QED  BY <2>9, <2>10 DEF c
<1>13. ASSUME NEW j \in best, NEW i \in S, Better(q, i, j)
       PROVE  \E m, n \in 1 .. c : m < n /\ a[m] = i /\ a[n] = j
  <2>1. j \in S /\ More(value[i], value[j])
    BY <1>3, <1>7, <1>13
  <2>2. Ahead(value, i, j) /\ Rank(value, i, S) < Rank(value, j, S)
    BY <1>6, <2>1 DEF Ahead
  <2>3. Rank(value, i, S) < K
    BY <1>4, <1>5, <1>6, <2>1, <2>2
  <2>4. FoundBy(q, i)
    <3>1. IsFraction(q.lex[j]) /\ IsFraction(q.lex[i])
      BY <2>1, EligibleIs DEF S
    <3>2. ~More(<<0, 1>>, q.lex[j]) /\ IsFraction(<<0, 1>>)
      BY <3>1 DEF IsFraction, More
    <3>3. More(q.lex[i], <<0, 1>>)
      BY <1>13, <3>1, <3>2, FractionsCompare DEF Better
    <3>4. QED  BY <3>3 DEF FoundBy
  <2>5. i \in best
    BY <1>4, <2>3, <2>4
  <2>6. PICK m \in 1 .. c, n \in 1 .. c : a[m] = i /\ a[n] = j
    BY <1>9, <2>5
  <2>7. QED  BY <1>8, <1>9, <2>2, <2>5, <2>6
<1>14. IsInjective(a)
  BY <1>9, <1>10 DEF IsInjective
<1>15. c = K \/ c < K
  BY <1>5, <1>9, <1>11
<1>16. \A i \in S \ ToSet(a) : Len(a) = K \/ ~FoundBy(q, i)
  BY <1>5, <1>9, <1>10, <1>11, <1>12
<1>17. \A j \in ToSet(a), i \in S : Better(q, i, j) =>
          \E m, n \in DOMAIN a : m < n /\ a[m] = i /\ a[n] = j
  BY <1>10, <1>13
<1>18. QED  BY <1>2, <1>4, <1>10, <1>11, <1>14, <1>16, <1>17 DEF IsRanked, S
----------------------------------------------------------------------------
(* What the invariant says of each step.                                     *)

LEMMA SequenceOf ==
    ASSUME NEW n \in Nat, NEW S, NEW s \in [1 .. n -> S]
    PROVE  /\ IsSeq(s) /\ Len(s) = n /\ DOMAIN s = 1 .. n
           /\ ToSet(s) = {s[i] : i \in 1 .. n} /\ ToSet(s) \subseteq S
<1>1. DOMAIN s = 1 .. n /\ ToSet(s) = {s[i] : i \in 1 .. n} /\ \A i \in 1 .. n : s[i] \in S
  BY DEF ToSet
<1>2. s \in [1 .. n -> ToSet(s)]
  BY <1>1
<1>3. s \in Seq(ToSet(s)) /\ Len(s) = n
  BY <1>2
<1>4. QED  BY <1>1, <1>3 DEF IsSeq

LEMMA SequenceIs ==
    ASSUME NEW s, IsSeq(s)
    PROVE  Len(s) \in Nat /\ DOMAIN s = 1 .. Len(s) /\ s \in [1 .. Len(s) -> ToSet(s)]
BY DEF IsSeq

\* Of a sheet that has a header, the first is found.
LEMMA HeaderIsFirst ==
    ASSUME NEW sheet, IsSeq(sheet), \E i \in DOMAIN sheet : IsHeader(sheet[i])
    PROVE  HeaderAt(sheet) \in DOMAIN sheet
<1> DEFINE H == {i \in DOMAIN sheet : IsHeader(sheet[i])}
<1>1. DOMAIN sheet = 1 .. Len(sheet) /\ Len(sheet) \in Nat
  BY SequenceIs
<1>2. PICK h \in H : \A j \in H : ~(<<j, h>> \in OpToRel(<, Nat))
  <2>1. H \subseteq Nat /\ H # {}
    BY <1>1
  <2>2. IsWellFoundedOn(OpToRel(<, Nat), Nat)
    BY NatLessThanWellFounded
  <2> HIDE DEF H
  <2>3. QED  BY <2>1, <2>2, WFMin
<1>3. h \in DOMAIN sheet /\ IsHeader(sheet[h]) /\ h \in Nat
  BY <1>1
<1>4. \A j \in 1 .. (h - 1) : ~IsHeader(sheet[j])
  <2>1. SUFFICES ASSUME NEW j \in 1 .. (h - 1), IsHeader(sheet[j]) PROVE FALSE
    OBVIOUS
  <2>2. j \in DOMAIN sheet /\ j \in Nat /\ j < h
    BY <1>1, <1>3
  <2>3. j \in H /\ <<j, h>> \in OpToRel(<, Nat)
    BY <1>3, <2>1, <2>2 DEF OpToRel
  <2>4. QED  BY <1>2, <2>3
<1>5. QED  BY <1>3, <1>4 DEF HeaderAt

\* A row has a guideword and a parameter, or says that it has not.
LEMMA TagsArePair ==
    ASSUME NEW row, NEW columns
    PROVE  LET tags == TagsOf(row, columns)
           IN  tags = <<tags[1], tags[2]>> /\ ToSet(tags) = {tags[1], tags[2]}
<1> DEFINE tags == TagsOf(row, columns)
<1>1. tags = <<tags[1], tags[2]>>
  BY DEF TagsOf, Split
<1>2. ASSUME NEW a, NEW b PROVE ToSet(<<a, b>>) = {a, b}
  BY DEF ToSet
<1> HIDE DEF tags
<1>3. ToSet(tags) = {tags[1], tags[2]}
  BY <1>1, <1>2
<1>4. QED  BY <1>1, <1>3 DEF tags

\* A chunk lacks a tag where its row says so.
LEMMA ChunksSayUntagged ==
    ASSUME NEW row, NEW i, NEW columns
    PROVE  LET c == ChunkOf(row, i, columns)
           IN  /\ c.id = i
               /\ c.guidewords = {} \/ c.parameters = {} <=> NoTag \in ToSet(TagsOf(row, columns))
<1> DEFINE tags == TagsOf(row, columns)
<1>1. ToSet(tags) = {tags[1], tags[2]}
  BY TagsArePair
<1> HIDE DEF tags
<1>2. {tags[1]} \ {NoTag} = {} <=> tags[1] = NoTag
  OBVIOUS
<1>3. {tags[2]} \ {NoTag} = {} <=> tags[2] = NoTag
  OBVIOUS
<1>4. NoTag \in ToSet(tags) <=> tags[1] = NoTag \/ tags[2] = NoTag
  BY <1>1
<1>5. /\ ChunkOf(row, i, columns).id = i
      /\ ChunkOf(row, i, columns).guidewords = {tags[1]} \ {NoTag}
      /\ ChunkOf(row, i, columns).parameters = {tags[2]} \ {NoTag}
  BY DEF ChunkOf, tags
<1>6. QED  BY <1>2, <1>3, <1>4, <1>5 DEF tags

\* The rows of a sheet and what a document made of them holds.
IsAccounted(chunks, told) ==
    LET ids == {c.id : c \in ToSet(chunks)}
    IN  /\ ids \cap told.skipped = {}
        /\ ids \cup told.skipped = told.data
        /\ \A c \in ToSet(chunks) :
              c.id \in told.untagged <=> c.guidewords = {} \/ c.parameters = {}

\* The document of an import, and its report.
LEMMA ImportIs ==
    ASSUME NEW sheet \in Sheets, Import(sheet)
    PROVE  \E doc, told :
              /\ corpus' = Append(corpus, doc) /\ imported' = told
              /\ IsDocument(doc) /\ doc.curation = "pending"
              /\ told.doc = Len(corpus) + 1
              /\ IsAccounted(doc.chunks, told)
<1> DEFINE h       == HeaderAt(sheet)
           columns == sheet[h].heads
           data    == (h + 1) .. Len(sheet)
           keep    == {i \in data : Kept(sheet[i], columns)}
           before  == {p \in keep \X keep : p[1] < p[2]}
           listed  == Listed(keep, before)
           chunk(i) == ChunkOf(sheet[i], i, columns)
           chunks  == [n \in DOMAIN listed |-> ChunkOf(sheet[listed[n]], listed[n], columns)]
           doc     == [curation |-> "pending", holdout |-> FALSE, units |-> {}, chunks |-> chunks]
           untagged == {i \in keep : NoTag \in ToSet(TagsOf(sheet[i], columns))}
           told    == [doc |-> Len(corpus) + 1, sheet |-> sheet, data |-> data,
                       skipped |-> data \ keep, untagged |-> untagged]
           c == Cardinality(keep)
<1>1. corpus' = Append(corpus, doc) /\ imported' = told
  BY DEF Import
<1>2. IsSeq(sheet) /\ h \in DOMAIN sheet
  BY KBAssumption, HeaderIsFirst DEF Import
<1>3. Len(sheet) \in Nat /\ h \in Nat
  BY <1>2, SequenceIs
<1>4. IsFiniteSet(data) /\ data \subseteq Nat
  <2> HIDE DEF h
  <2>1. h + 1 \in Int /\ Len(sheet) \in Int
    BY <1>3
  <2>2. QED  BY <1>3, <2>1, FS_Interval
<1>5. IsFiniteSet(keep) /\ keep \subseteq Nat /\ keep \subseteq data
  <2> HIDE DEF data, columns
  <2>1. keep \in SUBSET data
    OBVIOUS
  <2> HIDE DEF keep
  <2>2. QED  BY <1>4, <2>1, FS_Subset
<1> HIDE DEF h, columns, data, keep
<1>6. IsOrderOf(before, keep)
  <2>1. \A i \in keep : i \in Nat
    BY <1>5
  <2>2. QED  BY <2>1 DEF IsOrderOf
<1> HIDE DEF before
<1>7. /\ c \in Nat /\ listed \in [1 .. c -> keep]
      /\ \A i \in keep : \E n \in 1 .. c : listed[n] = i
  BY <1>5, <1>6, ListedInOrder
<1> HIDE DEF listed, c
<1>8. chunks \in [1 .. c -> {chunk(i) : i \in keep}]
  BY <1>7
<1>9. /\ IsSeq(chunks)
      /\ ToSet(chunks) = {chunk(i) : i \in keep}
  <2>1. \A n \in 1 .. c : chunks[n] = chunk(listed[n])
    BY <1>7
  <2> HIDE DEF chunks, chunk
  <2>2. IsSeq(chunks) /\ ToSet(chunks) = {chunks[n] : n \in 1 .. c}
    BY <1>7, <1>8, SequenceOf
  <2>3. QED  BY <1>7, <2>1, <2>2
<1>10. IsDocument(doc) /\ doc.curation = "pending" /\ doc.chunks = chunks
  <2> HIDE DEF chunks
  <2>1. QED  BY <1>9 DEF IsDocument
<1>11. \A i \in keep : /\ chunk(i).id = i
                       /\ chunk(i).guidewords = {} \/ chunk(i).parameters = {}
                             <=> i \in untagged
  BY ChunksSayUntagged
<1>12. /\ told.skipped = data \ keep /\ told.data = data /\ told.untagged = untagged
       /\ told.doc = Len(corpus) + 1
  OBVIOUS
<1> HIDE DEF chunks, chunk, untagged, told, doc
<1>13. {d.id : d \in ToSet(chunks)} = keep
  BY <1>9, <1>11
<1>14. \A d \in ToSet(chunks) : d.id \in untagged <=> d.guidewords = {} \/ d.parameters = {}
  BY <1>9, <1>11
<1>15. IsAccounted(chunks, told)
  BY <1>5, <1>12, <1>13, <1>14 DEF IsAccounted
<1>16. QED  BY <1>1, <1>10, <1>12, <1>15
----------------------------------------------------------------------------
(* Reading the corpus.                                                       *)

\* The pieces of a corpus are finitely many, and each has its place.
LEMMA ReadingIs ==
    ASSUME IsSeq(corpus), \A d \in DOMAIN corpus : IsDocument(corpus[d])
    PROVE  /\ Cardinality(Pieces) \in Nat
           /\ Reading \in [1 .. Cardinality(Pieces) -> Pieces]
           /\ \A p \in Pieces : p[1] \in DOMAIN corpus /\ Indexable(corpus[p[1]])
<1> DEFINE piece(d) == {d} \X DOMAIN corpus[d].chunks
           f == [d \in Indexed |-> piece(d)]
           All == {piece(d) : d \in Indexed}
           before == {p \in Pieces \X Pieces : \/ p[1][1] < p[2][1]
                                               \/ p[1][1] = p[2][1] /\ p[1][2] < p[2][2]}
<1>1. Len(corpus) \in Nat /\ DOMAIN corpus = 1 .. Len(corpus)
  BY SequenceIs
<1>2. IsFiniteSet(Indexed) /\ Indexed \subseteq DOMAIN corpus
  <2>1. IsFiniteSet(DOMAIN corpus)
    BY <1>1, FS_Interval
  <2>2. Indexed \in SUBSET DOMAIN corpus
    BY DEF Indexed
  <2>3. QED  BY <2>1, <2>2, FS_Subset
<1>3. ASSUME NEW d \in Indexed
      PROVE  IsFiniteSet(piece(d)) /\ DOMAIN corpus[d].chunks \subseteq Nat
  <2> DEFINE C == corpus[d].chunks
             T == DOMAIN C
  <2>1. IsSeq(C)
    BY <1>2 DEF IsDocument
  <2>2. Len(C) \in Nat /\ T = 1 .. Len(C)
    BY <2>1, SequenceIs
  <2> HIDE DEF C, T
  <2>3. IsFiniteSet(T) /\ T \subseteq Nat
    BY <2>2, FS_Interval
  <2>4. IsFiniteSet({d})
    BY FS_Singleton
  <2>5. IsFiniteSet({d} \X T)
    BY <2>3, <2>4, FS_Product
  <2>6. QED  BY <2>3, <2>5 DEF C, T
<1>4. IsFiniteSet(All)
  <2> HIDE DEF piece
  <2>1. f \in Surjection(Indexed, All)
    BY DEF Surjection
  <2> HIDE DEF f, All
  <2>2. QED  BY <1>2, <2>1, FS_Surjection
<1>5. IsFiniteSet(Pieces)
  <2>1. Pieces = UNION All
    BY DEF Pieces
  <2>2. \A T \in All : IsFiniteSet(T)
    BY <1>3
  <2> HIDE DEF All
  <2>3. QED  BY <1>4, <2>1, <2>2, FS_UNION
<1>6. \A p \in Pieces : /\ p[1] \in Indexed /\ p[1] \in Nat /\ p[2] \in Nat
                        /\ p = <<p[1], p[2]>>
  <2>1. SUFFICES ASSUME NEW p \in Pieces
                 PROVE  p[1] \in Indexed /\ p[1] \in Nat /\ p[2] \in Nat /\ p = <<p[1], p[2]>>
    OBVIOUS
  <2>2. PICK d \in Indexed : p \in {d} \X DOMAIN corpus[d].chunks
    BY DEF Pieces
  <2>3. d \in Nat
    BY <1>1, <1>2
  <2>4. DOMAIN corpus[d].chunks \subseteq Nat
    BY <1>3
  <2>5. p[1] = d /\ p[2] \in DOMAIN corpus[d].chunks /\ p = <<p[1], p[2]>>
    BY <2>2
  <2>6. QED  BY <2>3, <2>4, <2>5
<1>7. \A p, q \in Pieces :
         <<p, q>> \in before <=> p[1] < q[1] \/ (p[1] = q[1] /\ p[2] < q[2])
  OBVIOUS
<1> HIDE DEF before
<1>8. IsOrderOf(before, Pieces)
  <2>1. ASSUME NEW p \in Pieces PROVE <<p, p>> \notin before
    <3>1. p[1] \in Nat /\ p[2] \in Nat
      BY <1>6
    <3>2. QED  BY <1>7, <3>1
  <2>2. ASSUME NEW p \in Pieces, NEW q \in Pieces, NEW r \in Pieces,
               <<p, q>> \in before, <<q, r>> \in before
        PROVE  <<p, r>> \in before
    <3>1. /\ p[1] \in Nat /\ p[2] \in Nat /\ q[1] \in Nat /\ q[2] \in Nat
          /\ r[1] \in Nat /\ r[2] \in Nat
      BY <1>6
    <3>2. /\ p[1] < q[1] \/ (p[1] = q[1] /\ p[2] < q[2])
          /\ q[1] < r[1] \/ (q[1] = r[1] /\ q[2] < r[2])
      BY <1>7, <2>2
    <3>3. p[1] < r[1] \/ (p[1] = r[1] /\ p[2] < r[2])
      BY <3>1, <3>2
    <3>4. QED  BY <1>7, <3>3
  <2>3. ASSUME NEW p \in Pieces, NEW q \in Pieces, p # q
        PROVE  <<p, q>> \in before \/ <<q, p>> \in before
    <3>1. /\ p[1] \in Nat /\ p[2] \in Nat /\ q[1] \in Nat /\ q[2] \in Nat
          /\ p = <<p[1], p[2]>> /\ q = <<q[1], q[2]>>
      BY <1>6
    <3>2. p[1] # q[1] \/ p[2] # q[2]
      BY <2>3, <3>1
    <3>3. \/ p[1] < q[1] \/ (p[1] = q[1] /\ p[2] < q[2])
          \/ q[1] < p[1] \/ (q[1] = p[1] /\ q[2] < p[2])
      BY <3>1, <3>2
    <3>4. QED  BY <1>7, <3>3
  <2>4. QED  BY <2>1, <2>2, <2>3 DEF IsOrderOf
<1>9. Cardinality(Pieces) \in Nat /\ Reading \in [1 .. Cardinality(Pieces) -> Pieces]
  <2>1. Reading = Listed(Pieces, before)
    BY DEF Reading, before
  <2>2. QED  BY <1>5, <1>8, <2>1, ListedInOrder
<1>10. \A p \in Pieces : p[1] \in DOMAIN corpus /\ Indexable(corpus[p[1]])
  BY <1>6 DEF Indexed
<1>11. QED  BY <1>9, <1>10

----------------------------------------------------------------------------
(* The knowledge base.                                                       *)

KBSpec == KBInit /\ [][KBNext]_kbVars

Approved(d) == \E v \in ToSet(verdicts) : v = <<d, "approved", FALSE>>

CorpusIsWhole == IsSeq(corpus) /\ \A d \in DOMAIN corpus : IsDocument(corpus[d])

LoadedIsOlder == IsSeq(loaded) /\ Len(loaded) <= Len(corpus)

VerdictsAreListed == verdicts \in Seq(Nat \X {"pending", "approved", "rejected"} \X BOOLEAN)

IndexIsLoaded ==
    /\ DOMAIN index \subseteq Nat /\ IsFiniteSet(DOMAIN index)
    /\ \A i \in DOMAIN index :
          index[i].doc \in DOMAIN loaded /\ Indexable(loaded[index[i].doc])

\* An imported document passes the gate, on disk or as it was loaded, only after
\* the curator's word.
ImportIsJudged ==
    imported # Nothing =>
        /\ imported.doc \in DOMAIN corpus
        /\ IsAccounted(corpus[imported.doc].chunks, imported)
        /\ Indexable(corpus[imported.doc]) => Approved(imported.doc)
        /\ imported.doc \in DOMAIN loaded /\ Indexable(loaded[imported.doc]) =>
              Approved(imported.doc)

AnswerIsRanked ==
    question # Nothing =>
        Searchable(question) /\ IsRanked(question, answer, Eligible(question.unit))

KBInv ==
    /\ CorpusIsWhole
    /\ LoadedIsOlder
    /\ VerdictsAreListed
    /\ IndexIsLoaded
    /\ ImportIsJudged
    /\ AnswerIsRanked

LEMMA KBInvInit == KBInit => KBInv
<1> SUFFICES ASSUME KBInit PROVE KBInv
  OBVIOUS
<1>1. CorpusIsWhole
  <2>1. IsSeq(corpus) /\ \A d \in ToSet(corpus) : IsDocument(d)
    BY KBAssumption DEF KBInit
  <2>2. QED  BY <2>1 DEF CorpusIsWhole, ToSet
<1>2. LoadedIsOlder
  <2>1. Len(corpus) \in Nat
    BY <1>1, SequenceIs DEF CorpusIsWhole
  <2>2. loaded = <<>> /\ Len(loaded) = 0 /\ IsSeq(loaded)
    BY DEF KBInit, IsSeq
  <2>3. QED  BY <2>1, <2>2 DEF LoadedIsOlder
<1>3. VerdictsAreListed
  BY DEF KBInit, VerdictsAreListed
<1>4. IndexIsLoaded
  <2>1. DOMAIN index = {}
    BY DEF KBInit
  <2>2. QED  BY <2>1, FS_EmptySet DEF IndexIsLoaded
<1>5. ImportIsJudged /\ AnswerIsRanked
  BY DEF KBInit, ImportIsJudged, AnswerIsRanked
<1>6. QED  BY <1>1, <1>2, <1>3, <1>4, <1>5 DEF KBInv

\* A document more, and those before it as they were.
LEMMA CorpusAppended ==
    ASSUME NEW doc, CorpusIsWhole, IsDocument(doc), corpus' = Append(corpus, doc)
    PROVE  /\ Len(corpus) \in Nat
           /\ CorpusIsWhole' /\ Len(corpus') = Len(corpus) + 1
           /\ DOMAIN corpus = 1 .. Len(corpus) /\ DOMAIN corpus' = 1 .. Len(corpus) + 1
           /\ corpus'[Len(corpus) + 1] = doc
           /\ \A d \in DOMAIN corpus : corpus'[d] = corpus[d]
<1> DEFINE n == Len(corpus)
           S == ToSet(corpus) \cup {doc}
<1>1. n \in Nat /\ DOMAIN corpus = 1 .. n /\ corpus \in [1 .. n -> ToSet(corpus)]
  BY SequenceIs DEF CorpusIsWhole
<1>2. corpus \in Seq(S) /\ doc \in S
  <2>1. corpus \in [1 .. n -> S]
    BY <1>1
  <2>2. QED  BY <1>1, <2>1
<1> HIDE DEF S
<1>3. corpus' \in [1 .. n + 1 -> S] /\ Len(corpus') = n + 1 /\ n + 1 \in Nat
  <2>1. corpus' \in Seq(S) /\ Len(corpus') = n + 1
    BY <1>1, <1>2
  <2>2. ASSUME NEW s \in Seq(S) PROVE s \in [1 .. Len(s) -> S]
    OBVIOUS
  <2>3. corpus' \in [1 .. Len(corpus') -> S]
    BY <2>1, <2>2
  <2> HIDE DEF n
  <2>4. QED  BY <1>1, <2>1, <2>3
<1>4. corpus'[n + 1] = doc /\ \A d \in DOMAIN corpus : corpus'[d] = corpus[d]
  BY <1>1, <1>2
<1>5. IsSeq(corpus')
  <2> HIDE DEF n
  <2>1. QED  BY <1>3, SequenceOf
<1>6. ASSUME NEW d \in DOMAIN corpus' PROVE IsDocument(corpus'[d])
  <2>1. d = n + 1 \/ d \in DOMAIN corpus
    BY <1>1, <1>3
  <2>2. QED  BY <1>4, <2>1 DEF CorpusIsWhole
<1>7. CorpusIsWhole'
  BY <1>5, <1>6 DEF CorpusIsWhole, IsSeq, IsDocument, ToSet
<1>8. QED  BY <1>1, <1>3, <1>4, <1>7

\* The imported document waits for the curator, behind all that was loaded.
LEMMA ImportKeeps ==
    ASSUME KBInv, NEW sheet \in Sheets, Import(sheet)
    PROVE  KBInv'
<1>1. PICK doc, told :
         /\ corpus' = Append(corpus, doc) /\ imported' = told
         /\ IsDocument(doc) /\ doc.curation = "pending"
         /\ told.doc = Len(corpus) + 1
         /\ IsAccounted(doc.chunks, told)
  BY ImportIs
<1>2. /\ verdicts' = verdicts /\ index' = index /\ loaded' = loaded
      /\ question' = question /\ answer' = answer
  BY DEF Import
<1>3. /\ Len(corpus) \in Nat
      /\ CorpusIsWhole' /\ Len(corpus') = Len(corpus) + 1
      /\ DOMAIN corpus' = 1 .. Len(corpus) + 1
      /\ corpus'[Len(corpus) + 1] = doc
  BY <1>1, CorpusAppended DEF KBInv
<1>4. Len(loaded) \in Nat /\ DOMAIN loaded = 1 .. Len(loaded) /\ Len(loaded) <= Len(corpus)
  BY SequenceIs DEF KBInv, LoadedIsOlder
<1>5. LoadedIsOlder'
  BY <1>2, <1>3, <1>4 DEF KBInv, LoadedIsOlder, IsSeq, ToSet
<1>6. VerdictsAreListed' /\ IndexIsLoaded'
  BY <1>2 DEF KBInv, VerdictsAreListed, IndexIsLoaded
<1>7. ImportIsJudged'
  <2>1. imported'.doc = Len(corpus) + 1 /\ imported'.doc \in DOMAIN corpus'
    BY <1>1, <1>3
  <2>2. imported'.doc \notin DOMAIN loaded
    BY <1>3, <1>4, <2>1
  <2>3. corpus'[imported'.doc] = doc /\ ~Indexable(doc)
    BY <1>1, <1>3, <2>1 DEF Indexable
  <2>4. IsAccounted(corpus'[imported'.doc].chunks, imported')
    BY <1>1, <2>3
  <2>5. ~Indexable(corpus'[imported'.doc])
    BY <2>3
  <2>6. QED  BY <1>2, <2>1, <2>2, <2>4, <2>5
            DEF ImportIsJudged, IsAccounted, Indexable, Approved, ToSet
<1>8. AnswerIsRanked'
  BY <1>2 DEF KBInv, AnswerIsRanked, Searchable, IsRanked, Eligible, Applicable, FoundBy, Better,
              Matches
<1>9. QED  BY <1>3, <1>5, <1>6, <1>7, <1>8 DEF KBInv

\* A decision is added to those made.
LEMMA VerdictAdded ==
    ASSUME VerdictsAreListed, NEW v \in Nat \X {"pending", "approved", "rejected"} \X BOOLEAN,
           verdicts' = Append(verdicts, v)
    PROVE  VerdictsAreListed' /\ ToSet(verdicts') = ToSet(verdicts) \cup {v}
<1> DEFINE S == Nat \X {"pending", "approved", "rejected"} \X BOOLEAN
           n == Len(verdicts)
<1>1. verdicts \in Seq(S) /\ v \in S
  BY DEF VerdictsAreListed
<1> HIDE DEF S
<1>2. /\ n \in Nat /\ DOMAIN verdicts = 1 .. n
      /\ verdicts' \in Seq(S) /\ DOMAIN verdicts' = 1 .. n + 1
      /\ verdicts'[n + 1] = v /\ \A i \in 1 .. n : verdicts'[i] = verdicts[i]
  BY <1>1
<1>3. ToSet(verdicts') = ToSet(verdicts) \cup {v}
  <2>1. ASSUME NEW x \in ToSet(verdicts') PROVE x \in ToSet(verdicts) \cup {v}
    <3>1. PICK i \in 1 .. n + 1 : x = verdicts'[i]
      BY <1>2, <2>1 DEF ToSet
    <3>2. i = n + 1 \/ i \in 1 .. n
      BY <1>2
    <3>3. QED  BY <1>2, <3>1, <3>2 DEF ToSet
  <2>2. ASSUME NEW x \in ToSet(verdicts) \cup {v} PROVE x \in ToSet(verdicts')
    <3>1. CASE x = v
      <4>1. n + 1 \in 1 .. n + 1
        BY <1>2
      <4>2. QED  BY <1>2, <3>1, <4>1 DEF ToSet
    <3>2. CASE x \in ToSet(verdicts)
      <4>1. PICK i \in 1 .. n : x = verdicts[i]
        BY <1>2, <3>2 DEF ToSet
      <4>2. i \in 1 .. n + 1
        BY <1>2
      <4>3. QED  BY <1>2, <4>1, <4>2 DEF ToSet
    <3>3. QED  BY <2>2, <3>1, <3>2
  <2>3. QED  BY <2>1, <2>2
<1>4. QED  BY <1>2, <1>3 DEF VerdictsAreListed, S

\* A document passes the gate by a decision that is now among those made.
LEMMA CurateKeeps ==
    ASSUME KBInv, NEW d \in DOMAIN corpus, NEW c \in {"pending", "approved", "rejected"},
           NEW h \in BOOLEAN, Curate(d, c, h)
    PROVE  KBInv'
<1> DEFINE n == Len(corpus)
           edited == [corpus[d] EXCEPT !.curation = c, !.holdout = h]
<1>1. /\ corpus' = [corpus EXCEPT ![d].curation = c, ![d].holdout = h]
      /\ verdicts' = Append(verdicts, <<d, c, h>>)
      /\ question' = Nothing /\ answer' = Nothing
      /\ imported' = imported /\ index' = index /\ loaded' = loaded
  BY DEF Curate
<1>2. n \in Nat /\ DOMAIN corpus = 1 .. n /\ IsSeq(corpus) /\ corpus \in [1 .. n -> ToSet(corpus)]
  BY SequenceIs DEF KBInv, CorpusIsWhole
<1>3. IsDocument(corpus[d])
  BY DEF KBInv, CorpusIsWhole
<1>4. /\ DOMAIN corpus' = DOMAIN corpus
      /\ \A e \in DOMAIN corpus : e # d => corpus'[e] = corpus[e]
      /\ corpus'[d] = edited
  BY <1>1, <1>2
<1>5. /\ DOMAIN edited = {"curation", "holdout", "units", "chunks"}
      /\ edited.curation = c /\ edited.holdout = h /\ edited.chunks = corpus[d].chunks
  BY <1>3 DEF IsDocument
<1>6. IsDocument(edited)
  BY <1>3, <1>5 DEF IsDocument
<1> HIDE DEF edited
<1>7. IsSeq(corpus') /\ Len(corpus') = n
  <2> DEFINE S == ToSet(corpus) \cup {edited}
  <2>1. corpus' = [e \in 1 .. n |-> corpus'[e]]
    BY <1>1, <1>2
  <2>2. \A e \in 1 .. n : corpus'[e] \in S
    BY <1>2, <1>4
  <2> HIDE DEF S
  <2>3. corpus' \in [1 .. n -> S]
    BY <2>1, <2>2
  <2>4. QED  BY <1>2, <2>3, SequenceOf
<1>8. CorpusIsWhole'
  <2>1. \A e \in DOMAIN corpus' : IsDocument(corpus'[e])
    BY <1>4, <1>6 DEF KBInv, CorpusIsWhole
  <2>2. QED  BY <1>7, <2>1 DEF CorpusIsWhole, IsDocument, IsSeq, ToSet
<1>9. LoadedIsOlder'
  BY <1>1, <1>7 DEF KBInv, LoadedIsOlder, IsSeq, ToSet
<1>10. VerdictsAreListed' /\ ToSet(verdicts') = ToSet(verdicts) \cup {<<d, c, h>>}
  <2>1. <<d, c, h>> \in Nat \X {"pending", "approved", "rejected"} \X BOOLEAN
    BY <1>2
  <2>2. QED  BY <1>1, <2>1, VerdictAdded DEF KBInv
<1>11. IndexIsLoaded'
  BY <1>1 DEF KBInv, IndexIsLoaded
<1>12. ImportIsJudged'
  <2>1. SUFFICES ASSUME imported # Nothing
        PROVE  /\ imported.doc \in DOMAIN corpus'
               /\ IsAccounted(corpus'[imported.doc].chunks, imported)
               /\ Indexable(corpus'[imported.doc]) => Approved(imported.doc)'
               /\ imported.doc \in DOMAIN loaded /\ Indexable(loaded[imported.doc]) =>
                     Approved(imported.doc)'
    BY <1>1 DEF ImportIsJudged
  <2>2. /\ imported.doc \in DOMAIN corpus
        /\ IsAccounted(corpus[imported.doc].chunks, imported)
        /\ Indexable(corpus[imported.doc]) => Approved(imported.doc)
        /\ imported.doc \in DOMAIN loaded /\ Indexable(loaded[imported.doc]) =>
              Approved(imported.doc)
    BY <2>1 DEF KBInv, ImportIsJudged
  <2>3. Approved(imported.doc) => Approved(imported.doc)'
    BY <1>1, <1>10 DEF Approved
  <2>4. corpus'[imported.doc].chunks = corpus[imported.doc].chunks
    BY <1>4, <1>5, <2>2
  <2>5. Indexable(corpus'[imported.doc]) => Approved(imported.doc)'
    <3>1. CASE imported.doc = d
      <4>1. Indexable(corpus'[imported.doc]) => c = "approved" /\ h = FALSE
        BY <1>4, <1>5, <3>1 DEF Indexable
      <4>2. <<d, c, h>> \in ToSet(verdicts')
        BY <1>10
      <4>3. QED  BY <1>1, <3>1, <4>1, <4>2 DEF Approved
    <3>2. CASE imported.doc # d
      BY <1>4, <2>2, <2>3, <3>2
    <3>3. QED  BY <3>1, <3>2
  <2>6. QED  BY <1>4, <2>2, <2>3, <2>4, <2>5
<1>13. AnswerIsRanked'
  BY <1>1 DEF AnswerIsRanked
<1>14. QED  BY <1>8, <1>9, <1>10, <1>11, <1>12, <1>13 DEF KBInv

\* A process indexes what passes the gate as it loads it.
LEMMA LoadKeeps ==
    ASSUME KBInv, Load
    PROVE  KBInv'
<1> DEFINE c == Cardinality(Pieces)
<1>1. /\ loaded' = corpus
      /\ index' = [n \in DOMAIN Reading |->
              [doc |-> Reading[n][1],
               chunk |-> corpus[Reading[n][1]].chunks[Reading[n][2]]]]
      /\ question' = Nothing /\ answer' = Nothing
      /\ corpus' = corpus /\ imported' = imported /\ verdicts' = verdicts
  BY DEF Load
<1>2. /\ c \in Nat
      /\ Reading \in [1 .. c -> Pieces]
      /\ \A p \in Pieces : p[1] \in DOMAIN corpus /\ Indexable(corpus[p[1]])
  BY ReadingIs DEF KBInv, CorpusIsWhole
<1>3. CorpusIsWhole' /\ LoadedIsOlder' /\ VerdictsAreListed'
  <2>1. Len(corpus) \in Nat
    BY SequenceIs DEF KBInv, CorpusIsWhole
  <2>2. CorpusIsWhole' /\ VerdictsAreListed'
    BY <1>1 DEF KBInv, CorpusIsWhole, VerdictsAreListed
  <2>3. IsSeq(loaded') /\ Len(loaded') <= Len(corpus')
    BY <1>1, <2>1 DEF KBInv, CorpusIsWhole
  <2>4. QED  BY <2>2, <2>3 DEF LoadedIsOlder
<1>4. IndexIsLoaded'
  <2> HIDE DEF c
  <2>1. DOMAIN index' = 1 .. c
    BY <1>1, <1>2
  <2>2. \A n \in 1 .. c : index'[n].doc = Reading[n][1] /\ Reading[n] \in Pieces
    BY <1>1, <1>2
  <2>3. \A i \in DOMAIN index' :
           index'[i].doc \in DOMAIN corpus /\ Indexable(corpus[index'[i].doc])
    BY <1>2, <2>1, <2>2
  <2>4. DOMAIN index' \subseteq Nat /\ IsFiniteSet(DOMAIN index')
    BY <1>2, <2>1, FS_Interval
  <2>5. QED  BY <1>1, <2>3, <2>4 DEF IndexIsLoaded, Indexable
<1>5. ImportIsJudged'
  BY <1>1 DEF KBInv, ImportIsJudged, IsAccounted, Indexable, Approved, ToSet
<1>6. AnswerIsRanked'
  BY <1>1 DEF AnswerIsRanked
<1>7. QED  BY <1>3, <1>4, <1>5, <1>6 DEF KBInv

\* A search ranks the index as it is.
LEMMA SearchKeeps ==
    ASSUME KBInv, NEW ask \in Questions, NEW lex \in Scores, NEW den \in Scores,
           Search([guideword |-> ask[1], parameter |-> ask[2], unit |-> ask[3],
                   lex |-> lex, den |-> den])
    PROVE  KBInv'
<1> DEFINE q == [guideword |-> ask[1], parameter |-> ask[2], unit |-> ask[3],
                 lex |-> lex, den |-> den]
<1>1. /\ question' = q /\ answer' = Ranking(q)
      /\ corpus' = corpus /\ imported' = imported /\ verdicts' = verdicts
      /\ index' = index /\ loaded' = loaded
  BY DEF Search
<1>2. \A i \in DOMAIN index : IsFraction(lex[i]) /\ IsFraction(den[i])
  <2>1. \A x \in {<<n, 1>> : n \in 0 .. MaxScore} : IsFraction(x)
    BY KBAssumption DEF IsFraction
  <2>2. QED  BY <2>1 DEF Scores
<1>3. Searchable(q)
  BY <1>2 DEF Searchable, KBInv, IndexIsLoaded
<1> HIDE DEF q
<1>4. IsRanked(q, Ranking(q), Eligible(q.unit))
  BY <1>3, RankingIs
<1>5. AnswerIsRanked'
  <2>1. Searchable(question)'
    BY <1>1, <1>3 DEF Searchable
  <2>2. Eligible(question.unit)' = Eligible(q.unit)
    BY <1>1 DEF Eligible
  <2>3. \A i, j : /\ FoundBy(question, i)' <=> FoundBy(q, i)
                  /\ Better(question, i, j)' <=> Better(q, i, j)
    BY <1>1 DEF FoundBy, Better, Matches
  <2>4. IsRanked(question, answer, Eligible(question.unit))'
    BY <1>1, <1>4, <2>2, <2>3 DEF IsRanked
  <2>5. QED  BY <2>1, <2>4 DEF AnswerIsRanked
<1>6. CorpusIsWhole' /\ LoadedIsOlder' /\ VerdictsAreListed' /\ IndexIsLoaded'
  BY <1>1 DEF KBInv, CorpusIsWhole, LoadedIsOlder, VerdictsAreListed, IndexIsLoaded
<1>7. ImportIsJudged'
  BY <1>1 DEF KBInv, ImportIsJudged, Approved
<1>8. QED  BY <1>5, <1>6, <1>7 DEF KBInv

LEMMA KBInvStep == KBInv /\ [KBNext]_kbVars => KBInv'
<1> SUFFICES ASSUME KBInv, [KBNext]_kbVars PROVE KBInv'
  OBVIOUS
<1>1. ASSUME NEW sheet \in Sheets, Import(sheet) PROVE KBInv'
  BY <1>1, ImportKeeps
<1>2. ASSUME NEW d \in DOMAIN corpus, NEW c \in {"pending", "approved", "rejected"},
             NEW h \in BOOLEAN, Curate(d, c, h)
      PROVE  KBInv'
  BY <1>2, CurateKeeps
<1>3. CASE Load
  BY <1>3, LoadKeeps
<1>4. ASSUME NEW ask \in Questions, NEW lex \in Scores, NEW den \in Scores,
             Search([guideword |-> ask[1], parameter |-> ask[2], unit |-> ask[3],
                     lex |-> lex, den |-> den])
      PROVE  KBInv'
  BY <1>4, SearchKeeps
<1>5. CASE UNCHANGED kbVars
  <2>1. /\ corpus' = corpus /\ imported' = imported /\ verdicts' = verdicts
        /\ index' = index /\ loaded' = loaded /\ question' = question /\ answer' = answer
    BY <1>5 DEF kbVars
  <2>2. CorpusIsWhole' /\ LoadedIsOlder' /\ VerdictsAreListed' /\ IndexIsLoaded'
    BY <2>1 DEF KBInv, CorpusIsWhole, LoadedIsOlder, VerdictsAreListed, IndexIsLoaded
  <2>3. ImportIsJudged'
    BY <2>1 DEF KBInv, ImportIsJudged, Approved
  <2>4. AnswerIsRanked'
    BY <2>1 DEF KBInv, AnswerIsRanked, Searchable, IsRanked, Eligible, FoundBy, Better, Matches
  <2>5. QED  BY <2>2, <2>3, <2>4 DEF KBInv
<1>6. QED  BY <1>1, <1>2, <1>3, <1>4, <1>5 DEF KBNext

LEMMA KBInvImplies == KBInv => KnowledgeIsCurated
<1> SUFFICES ASSUME KBInv PROVE KnowledgeIsCurated
  OBVIOUS
<1>1. ASSUME question # Nothing
      PROVE  /\ Len(answer) <= K /\ IsInjective(answer)
             /\ \A i \in ToSet(answer) : Curated(i) /\ Found(i)
             /\ \A i \in Eligible(question.unit) \ ToSet(answer) : Len(answer) = K \/ ~Found(i)
             /\ \A j \in ToSet(answer), i \in Eligible(question.unit) :
                   Dominates(i, j) => Before(i, j)
  <2>1. IsRanked(question, answer, Eligible(question.unit))
    BY <1>1 DEF KBInv, AnswerIsRanked
  <2>2. \A i, j : /\ Found(i) <=> FoundBy(question, i)
                  /\ Dominates(i, j) <=> Better(question, i, j)
                  /\ Before(i, j)
                        <=> \E m, n \in DOMAIN answer : m < n /\ answer[m] = i /\ answer[n] = j
    BY DEF Found, FoundBy, Dominates, Better, Before
  <2>3. ASSUME NEW i \in ToSet(answer) PROVE Curated(i)
    <3>1. i \in Eligible(question.unit)
      BY <2>1, <2>3 DEF IsRanked, ToSet
    <3>2. i \in DOMAIN index /\ Applicable(loaded[index[i].doc], question.unit)
      BY <3>1 DEF Eligible
    <3>3. index[i].doc \in DOMAIN loaded /\ Indexable(loaded[index[i].doc])
      BY <3>2 DEF KBInv, IndexIsLoaded
    <3>4. imported # Nothing /\ index[i].doc = imported.doc => Approved(index[i].doc)
      BY <3>3 DEF KBInv, ImportIsJudged
    <3>5. QED  BY <3>2, <3>3, <3>4 DEF Curated, Applicable, Indexable, Approved
  <2>4. QED  BY <2>1, <2>2, <2>3 DEF IsRanked
<1>2. ASSUME imported # Nothing
      PROVE  LET chunks == {c.id : c \in ToSet(corpus[imported.doc].chunks)}
             IN  /\ chunks \cap imported.skipped = {}
                 /\ chunks \cup imported.skipped = imported.data
                 /\ \A c \in ToSet(corpus[imported.doc].chunks) :
                       c.id \in imported.untagged
                           <=> c.guidewords = {} \/ c.parameters = {}
  BY <1>2 DEF KBInv, ImportIsJudged, IsAccounted
<1>3. QED  BY <1>1, <1>2 DEF KnowledgeIsCurated

\* What a search shows was approved and not held out when it was loaded, and is
\* for the unit asked for; it is ranked so that no boost puts a chunk before one
\* better in both halves (index.py); and no row of an imported sheet is lost
\* (ingest_xlsx.py).
THEOREM SearchIsCurated == KBSpec => []KnowledgeIsCurated
<1>1. KBSpec => []KBInv
  BY KBInvInit, KBInvStep, PTL DEF KBSpec
<1>2. QED  BY <1>1, KBInvImplies, PTL
=============================================================================
