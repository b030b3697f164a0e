-------------------------- MODULE FlowReachProofs --------------------------
(* Theorems about the flow graph and the tracing worklist, for every set of *)
(* tags, every number of edges and every order of visits.                   *)
EXTENDS FlowReach, FiniteSetTheorems, TLAPS

\* The empty graph, with no trace asked for, is well typed.
LEMMA TypeInit == TraceInit => TraceTypeOK
<1>1. <<>> \in Seq(Edges)
  OBVIOUS
<1>2. QED  BY <1>1 DEF TraceInit, TraceTypeOK, GraphInit, GraphTypeOK, Confidence

\* Adding an edge keeps the graph well typed.
LEMMA AddEdgeType ==
    ASSUME GraphTypeOK, NEW e \in Edges, AddEdge(e)
    PROVE  GraphTypeOK'
<1>1. /\ e.src \in Tags /\ e.dst \in Tags
      /\ <<e.src, e.dst>> \in Tags \X Tags
      /\ <<e.dst, e.src>> \in Tags \X Tags
  BY DEF Edges
<1>2. drawn' \in Seq(Edges)
  BY DEF AddEdge, GraphTypeOK
<1>3. conn' \subseteq Tags \X Tags /\ verified' \subseteq conn'
  BY <1>1 DEF AddEdge, GraphTypeOK
<1>4. QED  BY <1>2, <1>3 DEF GraphTypeOK

\* Building, asking and visiting keep the types.
LEMMA TypeStep == TraceTypeOK /\ [TraceNext]_reachVars => TraceTypeOK'
<1> SUFFICES ASSUME TraceTypeOK, [TraceNext]_reachVars PROVE TraceTypeOK'
  OBVIOUS
<1> USE DEF TraceTypeOK
<1>1. CASE Build
  BY <1>1, AddEdgeType DEF Build, traceVars
<1>2. CASE Ask
  BY <1>2 DEF Ask, graphVars, GraphTypeOK, Confidence
<1>3. ASSUME NEW a \in Tags, Visit(a) PROVE TraceTypeOK'
  BY <1>3 DEF Visit, Improved, graphVars, GraphTypeOK, Confidence
<1>4. CASE UNCHANGED reachVars
  BY <1>4 DEF reachVars, graphVars, traceVars, GraphTypeOK
<1>5. QED  BY <1>1, <1>2, <1>3, <1>4 DEF TraceNext

\* Every variable of the flow graph and of the trace keeps its type.
THEOREM TypeCorrect == TraceSpec => []TraceTypeOK
BY TypeInit, TypeStep, PTL DEF TraceSpec

----------------------------------------------------------------------------
(* The graph. Both facts are inductive once the drawn edges are typed.      *)

GraphInv == TraceTypeOK /\ VerifiedIsLastWord /\ GuessesGoBothWays

\* Only the last edge of a list can change the verdict on its pair.
LEMMA LastIsKnownAppend ==
    ASSUME NEW s \in Seq(Edges), NEW e \in Edges, NEW a \in Tags, NEW b \in Tags
    PROVE  LastIsKnown(Append(s, e), a, b) <=>
               IF e.src = a /\ e.dst = b THEN e.known = TRUE
                                        ELSE LastIsKnown(s, a, b)
<1> DEFINE n == Len(s)
           t == Append(s, e)
<1>1. /\ n \in Nat
      /\ Len(t) = n + 1
      /\ \A i \in 1..n : t[i] = s[i]
      /\ t[n+1] = e
  OBVIOUS
<1> HIDE DEF t, n
<1>2. \A i \in 1..n : Draws(t, i, a, b) <=> Draws(s, i, a, b)
  BY <1>1 DEF Draws
<1>3. Draws(t, n+1, a, b) <=> e.src = a /\ e.dst = b
  BY <1>1 DEF Draws
<1>4. CASE e.src = a /\ e.dst = b
  <2>1. ASSUME LastIsKnown(t, a, b) PROVE e.known = TRUE
    <3>1. PICK i \in 1..(n+1) : /\ Draws(t, i, a, b) /\ t[i].known
                               /\ \A j \in (i+1)..(n+1) : ~Draws(t, j, a, b)
      BY <1>1, <2>1 DEF LastIsKnown
    <3>2. i = n + 1
      BY <1>1, <1>3, <1>4, <3>1
    <3>3. e.known \in BOOLEAN
      BY DEF Edges
    <3>4. QED  BY <1>1, <3>1, <3>2, <3>3
  <2>2. ASSUME e.known = TRUE PROVE LastIsKnown(t, a, b)
    <3>1. (n+1+1)..(n+1) = {} /\ n+1 \in 1..(n+1)
      BY <1>1
    <3>2. Draws(t, n+1, a, b) /\ t[n+1].known
      BY <1>1, <1>3, <1>4, <2>2
    <3>3. QED  BY <1>1, <3>1, <3>2 DEF LastIsKnown
  <2>3. QED  BY <1>4, <2>1, <2>2 DEF t
<1>5. CASE ~(e.src = a /\ e.dst = b)
  <2>1. ASSUME LastIsKnown(t, a, b) PROVE LastIsKnown(s, a, b)
    <3>1. PICK i \in 1..(n+1) : /\ Draws(t, i, a, b) /\ t[i].known
                               /\ \A j \in (i+1)..(n+1) : ~Draws(t, j, a, b)
      BY <1>1, <2>1 DEF LastIsKnown
    <3>2. i \in 1..n
      BY <1>1, <1>3, <1>5, <3>1
    <3>3. /\ Draws(s, i, a, b) /\ s[i].known
          /\ \A j \in (i+1)..n : ~Draws(s, j, a, b)
      BY <1>1, <1>2, <3>1, <3>2
    <3>4. QED  BY <3>2, <3>3 DEF LastIsKnown, n
  <2>2. ASSUME LastIsKnown(s, a, b) PROVE LastIsKnown(t, a, b)
    <3>1. PICK i \in 1..n : /\ Draws(s, i, a, b) /\ s[i].known
                           /\ \A j \in (i+1)..n : ~Draws(s, j, a, b)
      BY <2>2 DEF LastIsKnown, n
    <3>2. /\ i \in 1..(n+1) /\ Draws(t, i, a, b) /\ t[i].known
          /\ \A j \in (i+1)..(n+1) : ~Draws(t, j, a, b)
      BY <1>1, <1>2, <1>3, <1>5, <3>1
    <3>3. QED  BY <1>1, <3>2 DEF LastIsKnown
  <2>3. QED  BY <1>5, <2>1, <2>2 DEF t
<1>6. QED  BY <1>4, <1>5

\* An added edge has the last word on whether its pair is verified.
LEMMA AddEdgeLastWord ==
    ASSUME GraphTypeOK, VerifiedIsLastWord, NEW e \in Edges, AddEdge(e)
    PROVE  VerifiedIsLastWord'
<1> SUFFICES ASSUME NEW a \in Tags, NEW b \in Tags
             PROVE  <<a, b>> \in verified' <=> LastIsKnown(drawn', a, b)
  BY DEF VerifiedIsLastWord
<1>1. drawn' = Append(drawn, e) /\ drawn \in Seq(Edges)
  BY DEF AddEdge, GraphTypeOK
<1>2. <<a, b>> \in verified <=> LastIsKnown(drawn, a, b)
  BY DEF VerifiedIsLastWord
<1>3. LastIsKnown(drawn', a, b) <=>
          IF e.src = a /\ e.dst = b THEN e.known = TRUE
                                   ELSE LastIsKnown(drawn, a, b)
  BY <1>1, LastIsKnownAppend
<1>4. e.known \in BOOLEAN
  BY DEF Edges
<1>5. CASE e.known = TRUE
  BY <1>2, <1>3, <1>5 DEF AddEdge
<1>6. CASE e.known = FALSE
  BY <1>2, <1>3, <1>6 DEF AddEdge
<1>7. QED  BY <1>4, <1>5, <1>6

\* An added edge opens its pair, and the opposite one when it is a guess.
LEMMA AddEdgeBothWays ==
    ASSUME GraphTypeOK, GuessesGoBothWays, NEW e \in Edges, AddEdge(e)
    PROVE  GuessesGoBothWays'
<1> SUFFICES ASSUME NEW a \in Tags, NEW b \in Tags
             PROVE  <<a, b>> \in conn' <=>
                      \E i \in 1..Len(drawn') :
                         \/ Draws(drawn', i, a, b)
                         \/ ~drawn'[i].known /\ Draws(drawn', i, b, a)
  BY DEF GuessesGoBothWays
<1>1. /\ Len(drawn) \in Nat
      /\ Len(drawn') = Len(drawn) + 1
      /\ \A i \in 1..Len(drawn) : drawn'[i] = drawn[i]
      /\ drawn'[Len(drawn) + 1] = e
  BY DEF AddEdge, GraphTypeOK
<1>2. <<a, b>> \in conn <=>
          \E i \in 1..Len(drawn) : \/ Draws(drawn, i, a, b)
                                   \/ ~drawn[i].known /\ Draws(drawn, i, b, a)
  BY DEF GuessesGoBothWays
<1> DEFINE Adds == \/ e.src = a /\ e.dst = b
                   \/ ~e.known /\ e.src = b /\ e.dst = a
<1>3. <<a, b>> \in conn' <=> <<a, b>> \in conn \/ Adds
  BY DEF AddEdge
<1> DEFINE Crosses(d, i) == \/ Draws(d, i, a, b)
                            \/ ~d[i].known /\ Draws(d, i, b, a)
<1>4. (\E i \in 1..Len(drawn') : Crosses(drawn', i))
        <=> (\E i \in 1..Len(drawn) : Crosses(drawn, i)) \/ Adds
  <2>1. \A i : i \in 1..Len(drawn') <=> i \in 1..Len(drawn) \/ i = Len(drawn) + 1
    BY <1>1
  <2>2. QED  BY <1>1, <2>1 DEF Draws
<1>5. QED  BY <1>2, <1>3, <1>4

\* Every step keeps the graph as it was drawn.
LEMMA GraphStep == GraphInv /\ [TraceNext]_reachVars => GraphInv'
<1> SUFFICES ASSUME GraphInv, [TraceNext]_reachVars PROVE GraphInv'
  OBVIOUS
<1>1. TraceTypeOK'
  BY TypeStep DEF GraphInv
<1>2. CASE Build
  <2>1. VerifiedIsLastWord' /\ GuessesGoBothWays'
    BY <1>2, AddEdgeLastWord, AddEdgeBothWays DEF GraphInv, TraceTypeOK, Build
  <2>2. QED  BY <1>1, <2>1 DEF GraphInv
<1>3. CASE UNCHANGED graphVars
  BY <1>1, <1>3 DEF GraphInv, graphVars, VerifiedIsLastWord, GuessesGoBothWays
<1>4. QED  BY <1>2, <1>3 DEF TraceNext, Ask, Visit, reachVars

\* However the edges of a topology are ordered and repeated, a direction is
\* verified exactly when the last edge on the pair says so, and may be crossed
\* against the drawing exactly where the drawing is a guess.
THEOREM GraphFaithful == TraceSpec => []GraphIsAsDrawn
<1>1. TraceInit => GraphInv
  BY TypeInit DEF TraceInit, GraphInit, GraphInv, VerifiedIsLastWord,
                  GuessesGoBothWays, LastIsKnown
<1>2. GraphInv => GraphIsAsDrawn
  BY DEF GraphInv, GraphIsAsDrawn
<1>3. QED  BY <1>1, <1>2, GraphStep, PTL DEF TraceSpec

----------------------------------------------------------------------------
(* The trace. What has left the frontier has had its neighbours looked at   *)
(* with its present status; nothing enters but by a hop from inside.        *)

Settled(T, R) == \A a \in T \ frontier, b \in Tags : Hop(a, b) \in R => b \in T

Least(T, R) == \A S \in SUBSET Tags : root \in S /\ Closed(S, R) => T \subseteq S

TraceInv ==
    /\ TraceTypeOK
    /\ phase = "build" => status = [t \in Tags |-> "absent"]
    /\ phase = "trace" =>
        /\ root \in Trustworthy /\ frontier \subseteq Reached
        /\ Settled(Trustworthy, verified) /\ Least(Trustworthy, verified)
        /\ Settled(Reached, conn) /\ Least(Reached, conn)

\* Visiting a tag keeps the worklist sound: what is reached is reachable, and
\* what a visited tag leads to is on the trace or still to be looked at.
LEMMA VisitStep ==
    ASSUME TraceInv, NEW a \in Tags, Visit(a)
    PROVE  TraceInv'
<1>t. /\ status \in [Tags -> Confidence]
      /\ phase = "trace" /\ phase' = "trace"
      /\ root \in Tags /\ root' = root
      /\ verified \subseteq conn
      /\ UNCHANGED <<conn, verified, forward>>
      /\ TraceTypeOK'
  BY TypeStep DEF TraceInv, TraceTypeOK, GraphTypeOK, Visit, graphVars, TraceNext
<1>h. \A x, y : Hop(x, y)' = Hop(x, y)
  BY <1>t DEF Hop
<1>i. /\ root \in Trustworthy /\ frontier \subseteq Reached
      /\ Settled(Trustworthy, verified) /\ Least(Trustworthy, verified)
      /\ Settled(Reached, conn) /\ Least(Reached, conn)
  BY <1>t DEF TraceInv
<1> DEFINE Gained == {b \in Improved(a) : Carries(a, b)}
<1>1. Trustworthy' = Trustworthy \cup Gained
  BY <1>t DEF Trustworthy, Visit, Improved, Confidence
<1>2. Reached' = Reached \cup Improved(a)
  BY <1>t DEF Reached, Visit, Improved, Confidence
<1>3. frontier' = (frontier \ {a}) \cup Improved(a)
  BY DEF Visit
<1>4. a \in Trustworthy =>
        \A b \in Tags : Hop(a, b) \in verified => b \in Trustworthy'
  BY <1>1, <1>i, <1>t DEF Trustworthy, Improved, Carries
<1>5. \A b \in Tags : Hop(a, b) \in conn => b \in Reached'
  BY <1>2, <1>i, <1>t DEF Reached, Trustworthy, Improved, Confidence
<1>6. Settled(Trustworthy, verified)'
  <2> SUFFICES ASSUME NEW x \in Trustworthy', x \notin frontier', NEW y \in Tags,
                      Hop(x, y) \in verified
               PROVE  y \in Trustworthy'
    BY <1>t, <1>h DEF Settled
  <2>1. x \in Trustworthy
    BY <1>1, <1>3
  <2>2. CASE x = a  BY <1>4, <2>1, <2>2
  <2>3. CASE x # a
    <3>1. x \notin frontier
      BY <1>3, <2>3
    <3>2. QED  BY <1>1, <1>i, <2>1, <3>1 DEF Settled
  <2>4. QED  BY <2>2, <2>3
<1>7. Settled(Reached, conn)'
  <2> SUFFICES ASSUME NEW x \in Reached', x \notin frontier', NEW y \in Tags,
                      Hop(x, y) \in conn
               PROVE  y \in Reached'
    BY <1>t, <1>h DEF Settled
  <2>1. x \in Reached
    BY <1>2, <1>3
  <2>2. CASE x = a  BY <1>5, <2>2
  <2>3. CASE x # a
    <3>1. x \notin frontier
      BY <1>3, <2>3
    <3>2. QED  BY <1>2, <1>i, <2>1, <3>1 DEF Settled
  <2>4. QED  BY <2>2, <2>3
<1>8. Least(Trustworthy, verified)'
  <2> SUFFICES ASSUME NEW S \in SUBSET Tags, root \in S, Closed(S, verified)
               PROVE  Trustworthy' \subseteq S
    BY <1>t, <1>h DEF Least, Closed
  <2>1. Trustworthy \subseteq S
    BY <1>i DEF Least
  <2>2. Gained \subseteq S
    BY <2>1 DEF Improved, Carries, Closed, Trustworthy
  <2>3. QED  BY <1>1, <2>1, <2>2
<1>9. Least(Reached, conn)'
  <2> SUFFICES ASSUME NEW S \in SUBSET Tags, root \in S, Closed(S, conn)
               PROVE  Reached' \subseteq S
    BY <1>t, <1>h DEF Least, Closed
  <2>1. Reached \subseteq S
    BY <1>i DEF Least
  <2>2. a \in S
    BY <1>i, <2>1 DEF Visit
  <2>3. QED  BY <1>2, <2>1, <2>2 DEF Improved, Closed
<1>10. root \in Trustworthy'
  BY <1>1, <1>i
<1>11. frontier' \subseteq Reached'
  BY <1>2, <1>3, <1>i
<1>12. QED  BY <1>t, <1>6, <1>7, <1>8, <1>9, <1>10, <1>11 DEF TraceInv

\* Every step keeps the invariant of the worklist.
LEMMA TraceStep == TraceInv /\ [TraceNext]_reachVars => TraceInv'
<1> SUFFICES ASSUME TraceInv, [TraceNext]_reachVars PROVE TraceInv'
  OBVIOUS
<1>t. TraceTypeOK /\ TraceTypeOK'
  BY TypeStep DEF TraceInv
<1>1. CASE Build
  BY <1>1, <1>t DEF Build, traceVars, TraceInv
<1>2. CASE Ask
  <2>1. /\ phase' = "trace" /\ frontier' = {root} /\ root' = root
        /\ UNCHANGED <<conn, verified, forward>>
    BY <1>2 DEF Ask, graphVars
  <2>2. status' = [t \in Tags |-> IF t = root THEN "verified" ELSE "absent"]
    BY <1>2 DEF Ask, TraceInv
  <2>3. Trustworthy' = {root} /\ Reached' = {root}
    BY <2>2, <1>t DEF Trustworthy, Reached, TraceTypeOK
  <2>4. QED
    BY <1>t, <2>1, <2>3 DEF TraceInv, Settled, Least
<1>3. ASSUME NEW a \in Tags, Visit(a) PROVE TraceInv'
  BY <1>3, VisitStep
<1>4. CASE UNCHANGED reachVars
  <2>1. \A x, y : Hop(x, y)' = Hop(x, y)
    BY <1>4 DEF reachVars, traceVars, Hop
  <2>2. QED
    BY <1>4, <1>t, <2>1 DEF reachVars, graphVars, traceVars, TraceInv, Settled, Least,
                            Closed, Trustworthy, Reached
<1>5. QED  BY <1>1, <1>2, <1>3, <1>4 DEF TraceNext

\* When the worklist is empty the tags reported True are those some fully
\* verified path reaches, and the tags reported at all those any path reaches.
THEOREM TraceExact == TraceSpec => []ReachIsExact
<1>1. TraceInit => TraceInv
  BY TypeInit DEF TraceInit, TraceInv
<1>2. TraceInv => ReachIsExact
  <2> SUFFICES ASSUME TraceInv, Answered
               PROVE  IsReachOf(Trustworthy, verified) /\ IsReachOf(Reached, conn)
    BY DEF ReachIsExact, VerifiedIsExact, ReachedIsExact
  <2>1. root \in Reached
    BY DEF TraceInv, Answered, Trustworthy, Reached
  <2>2. Closed(Trustworthy, verified) /\ Closed(Reached, conn)
    BY DEF TraceInv, Answered, Settled, Closed
  <2>3. QED  BY <2>1, <2>2 DEF TraceInv, Answered, IsReachOf, Least
<1>3. QED  BY <1>1, <1>2, TraceStep, PTL DEF TraceSpec
----------------------------------------------------------------------------
(* The end of the trace. A visit takes its tag off the worklist, and what it *)
(* puts there it has taken from the absent, or from the guessed for good.    *)

\* Sizes of what a set loses, gains and becomes.
LEMMA Sizes ==
    ASSUME NEW S, IsFiniteSet(S), NEW L \in SUBSET S, NEW G, IsFiniteSet(G)
    PROVE  /\ IsFiniteSet((S \ L) \cup G)
           /\ Cardinality(L) \in Nat /\ Cardinality(G) \in Nat
           /\ Cardinality(S) \in Nat /\ Cardinality((S \ L) \cup G) \in Nat
           /\ Cardinality(S \ L) = Cardinality(S) - Cardinality(L)
           /\ Cardinality((S \ L) \cup G)
                 <= Cardinality(S) - Cardinality(L) + Cardinality(G)
<1> DEFINE D == S \ L
<1>1. /\ IsFiniteSet(L) /\ IsFiniteSet(D)
      /\ S \cap L = L
  BY FS_Subset
<1>2. /\ Cardinality(S) \in Nat /\ Cardinality(L) \in Nat
      /\ Cardinality(D) \in Nat /\ Cardinality(G) \in Nat
      /\ Cardinality(D \cap G) \in Nat
  BY <1>1, FS_CardinalityType, FS_Intersection
<1>3. Cardinality(D) = Cardinality(S) - Cardinality(L)
  BY <1>1, FS_Difference
<1>4. /\ IsFiniteSet(D \cup G)
      /\ Cardinality(D \cup G)
            = Cardinality(D) + Cardinality(G) - Cardinality(D \cap G)
  BY <1>1, FS_Union
<1>5. Cardinality(D \cup G) \in Nat
  BY <1>4, FS_CardinalityType
<1> HIDE DEF D
<1>6. /\ Cardinality(D) = Cardinality(S) - Cardinality(L)
      /\ Cardinality(D \cup G) <= Cardinality(S) - Cardinality(L) + Cardinality(G)
  BY <1>2, <1>3, <1>4
<1>7. QED  BY <1>2, <1>4, <1>5, <1>6 DEF D

\* A visit lowers the bound on the visits still to be made.
LEMMA VisitLowers ==
    ASSUME TraceTypeOK, IsFiniteSet(Tags), NEW a \in Tags, Visit(a)
    PROVE  Effort' < Effort
<1> DEFINE A == {t \in Tags : status[t] = "absent"}
           G == {t \in Tags : status[t] = "guessed"}
           I == Improved(a)
           IA == I \cap A
           IG == I \cap G
           New == {b \in IA : ~Carries(a, b)}
<1>1. /\ status \in [Tags -> Confidence] /\ a \in frontier /\ frontier \subseteq Tags
      /\ \A b \in Tags : status'[b] = IF b \in I
                                      THEN IF Carries(a, b) THEN "verified" ELSE "guessed"
                                      ELSE status[b]
      /\ frontier' = (frontier \ {a}) \cup I
  BY DEF TraceTypeOK, Visit
<1>2. /\ I \subseteq Tags /\ I = IA \cup IG /\ IA \cap IG = {}
      /\ \A b \in IG : Carries(a, b)
  BY <1>1 DEF Improved, Confidence
<1>3. {t \in Tags : status'[t] = "absent"} = (A \ IA) \cup {}
  BY <1>1, <1>2
<1>4. {t \in Tags : status'[t] = "guessed"} = (G \ IG) \cup New
  BY <1>1, <1>2
<1>5. /\ IsFiniteSet(A) /\ IsFiniteSet(G) /\ IsFiniteSet(frontier)
      /\ IsFiniteSet(IA) /\ IsFiniteSet(IG) /\ IsFiniteSet(New) /\ IsFiniteSet({})
      /\ IA \in SUBSET A /\ IG \in SUBSET G /\ {a} \in SUBSET frontier
      /\ New \in SUBSET IA
  BY <1>1, <1>2, FS_Subset, FS_EmptySet
<1>c. /\ Cardinality({}) = 0 /\ Cardinality({a}) = 1
      /\ Cardinality(New) <= Cardinality(IA)
      /\ IsFiniteSet(I)
      /\ Cardinality(I) = Cardinality(IA) + Cardinality(IG)
  <2>1. Cardinality({}) = 0 /\ Cardinality({a}) = 1
    BY FS_EmptySet, FS_Singleton
  <2>2. Cardinality(New) <= Cardinality(IA)
    BY <1>5, FS_Subset
  <2> HIDE DEF I, IA, IG
  <2>3. IsFiniteSet(IA \cup IG) /\ Cardinality(IA \cup IG) =
            Cardinality(IA) + Cardinality(IG) - Cardinality(IA \cap IG)
    BY <1>5, FS_Union
  <2>4. Cardinality(IA) \in Nat /\ Cardinality(IG) \in Nat
    BY <1>5, FS_CardinalityType
  <2>5. Cardinality(IA \cap IG) = 0
    BY <1>2, <2>1
  <2>6. IsFiniteSet(I) /\ Cardinality(I) = Cardinality(IA \cup IG)
    BY <1>2, <2>3
  <2>7. Cardinality(I) = Cardinality(IA) + Cardinality(IG)
    BY <2>3, <2>4, <2>5, <2>6
  <2>8. QED  BY <2>1, <2>2, <2>6, <2>7
<1> DEFINE ca == Cardinality(A)
           cg == Cardinality(G)
           cf == Cardinality(frontier)
           cia == Cardinality(IA)
           cig == Cardinality(IG)
           cn == Cardinality(New)
           ca2 == Cardinality((A \ IA) \cup {})
           cg2 == Cardinality((G \ IG) \cup New)
           cf2 == Cardinality((frontier \ {a}) \cup I)
<1>6. /\ ca \in Nat /\ cia \in Nat /\ ca2 \in Nat
      /\ ca2 <= ca - cia
  <2> HIDE DEF A, IA
  <2>1. /\ ca \in Nat /\ cia \in Nat /\ ca2 \in Nat
        /\ ca2 <= ca - cia + Cardinality({})
    BY <1>5, Sizes
  <2> HIDE DEF ca, cia, ca2
  <2>2. QED  BY <1>c, <2>1
<1>7. /\ cg \in Nat /\ cig \in Nat /\ cn \in Nat /\ cg2 \in Nat
      /\ cg2 <= cg - cig + cn
  <2> HIDE DEF G, IG, New
  <2>1. QED  BY <1>5, Sizes
<1>8. /\ cf \in Nat /\ cf2 \in Nat
      /\ cf2 <= cf - 1 + cia + cig
  <2> HIDE DEF I, IA, IG
  <2>1. /\ cf \in Nat /\ cf2 \in Nat
        /\ cf2 <= cf - Cardinality({a}) + Cardinality(I)
    BY <1>5, <1>c, Sizes
  <2>2. cia \in Nat /\ cig \in Nat /\ Cardinality(I) = cia + cig
    BY <1>5, <1>c, FS_CardinalityType
  <2> HIDE DEF cf, cf2, cia, cig
  <2>3. QED  BY <1>c, <2>1, <2>2
<1>9. cn <= cia
  BY <1>c
<1>10. Effort = 4 * ca + 2 * cg + cf
  BY DEF Effort
<1>11. Effort' = 4 * ca2 + 2 * cg2 + cf2
  BY <1>1, <1>3, <1>4 DEF Effort
<1> HIDE DEF ca, cg, cf, cia, cig, cn, ca2, cg2, cf2
<1>12. 4 * ca2 + 2 * cg2 + cf2 < 4 * ca + 2 * cg + cf
  BY <1>6, <1>7, <1>8, <1>9
<1>13. QED  BY <1>10, <1>11, <1>12

\* On any drawing with finitely many tags, cyclic or not, every step of a trace
\* leaves less to do than there was, so that the worklist runs dry.
THEOREM TraceRunsDry ==
    ASSUME IsFiniteSet(Tags)
    PROVE  TraceSpec => TraceEnds
<1>1. TraceTypeOK /\ [TraceNext]_reachVars => [phase = "trace" => Effort' < Effort]_reachVars
  <2> SUFFICES ASSUME TraceTypeOK, TraceNext, phase = "trace"
               PROVE  Effort' < Effort
    OBVIOUS
  <2>1. PICK a \in Tags : Visit(a)
    BY DEF TraceNext, Build, Ask
  <2>2. QED  BY <2>1, VisitLowers
<1>2. QED  BY <1>1, TypeCorrect, PTL DEF TraceSpec, TraceEnds
=============================================================================
