-------------------------- MODULE TopologyProofs ---------------------------
(* Theorems about the questions the reasoner puts to a topology: the relief *)
(* search and the isolation walk, for every topology, every assignment of   *)
(* equipment types and every order of the walk.                             *)
EXTENDS ReliefPath, IsolationBoundary, TopologySafeguards, FiniteSetTheorems, WellFoundedInduction, TLAPS

\* The empty graph, with no relief asked for, is well typed.
LEMMA TypeInit == Init => TypeOK
<1>1. <<>> \in Seq(Edges)
  OBVIOUS
<1>2. ASSUME Init PROVE /\ verifiedOnly \in BOOLEAN
                        /\ credited \in BOOLEAN
  BY <1>2, Zenon DEF Init
<1>3. QED  BY <1>1, <1>2 DEF Init, TypeOK, GraphInit, GraphTypeOK

\* Adding an edge keeps the graph well typed.
LEMMA AddEdgeType ==
    ASSUME GraphTypeOK, NEW e \in Edges, AddEdge(e)
    PROVE  GraphTypeOK'
<1>1. /\ <<e.src, e.dst>> \in Tags \X Tags
      /\ <<e.dst, e.src>> \in Tags \X Tags
  BY DEF Edges
<1>2. drawn' \in Seq(Edges)
  BY DEF AddEdge, GraphTypeOK
<1>3. conn' \subseteq Tags \X Tags /\ verified' \subseteq conn'
  BY <1>1 DEF AddEdge, GraphTypeOK
<1>4. QED  BY <1>2, <1>3 DEF GraphTypeOK

\* Building, asking and searching keep the types.
LEMMA TypeStep == TypeOK /\ [Next]_vars => TypeOK'
<1> SUFFICES ASSUME TypeOK, [Next]_vars PROVE TypeOK'
  OBVIOUS
<1> USE DEF TypeOK
<1>1. CASE Build
  BY <1>1, AddEdgeType DEF Build, searchVars
<1>2. CASE Ask
  BY <1>2 DEF Ask, Onward, graphVars, GraphTypeOK
<1>3. ASSUME NEW t \in Tags, Skip(t) PROVE TypeOK'
  BY <1>3 DEF Skip, graphVars, GraphTypeOK
<1>4. ASSUME NEW t \in Tags, Look(t) PROVE TypeOK'
  <2>1. CASE kind[t] = "relief"
    BY <1>4, <2>1 DEF Look, graphVars, GraphTypeOK
  <2>2. CASE kind[t] # "relief"
    BY <1>4, <2>2 DEF Look, Onward, graphVars, GraphTypeOK
  <2>3. QED  BY <2>1, <2>2
<1>5. CASE Exhausted
  BY <1>5 DEF Exhausted, graphVars, GraphTypeOK
<1>6. CASE UNCHANGED vars
  BY <1>6 DEF vars, graphVars, searchVars, GraphTypeOK
<1>7. QED  BY <1>1, <1>2, <1>3, <1>4, <1>5, <1>6 DEF Next

----------------------------------------------------------------------------
(* What has been seen is no relief valve, has handed its onward tags to the *)
(* frontier, and lies in every sealed set.                                  *)

Unrelieved == \A v \in seen \ {root} : kind[v] # "relief"

HandedOn == \A a \in seen : Passes(a) => Onward(a) \subseteq seen \cup frontier

Least ==
    \A S \in SUBSET Tags :
        root \in S /\ Sealed(S, Open) => seen \cup frontier \subseteq S

SearchInv ==
    /\ TypeOK
    /\ phase \in {"build", "search"} => credited = FALSE
    /\ phase = "search" => root \in seen /\ Unrelieved /\ HandedOn /\ Least
    /\ CreditIsExact

\* The steps of a search leave the question alone.
LEMMA QuestionFixed ==
    ASSUME UNCHANGED <<graphVars, kind, root, verifiedOnly>>
    PROVE  /\ Open' = Open
           /\ \A t : Passes(t)' = Passes(t)
           /\ \A t : Onward(t)' = Onward(t)
           /\ \A S, R : Sealed(S, R)' <=> Sealed(S, R)
           /\ \A R : Relieved(R)' <=> Relieved(R)
BY DEF graphVars, Open, Passes, Onward, Sealed, Relieved

\* Looking at an item keeps what was seen inside every sealed set.
LEMMA LookStep ==
    ASSUME SearchInv, NEW t \in Tags, Look(t)
    PROVE  SearchInv'
<1>t. TypeOK /\ TypeOK'
  BY TypeStep DEF SearchInv, Next
<1>q. /\ UNCHANGED <<graphVars, kind, root, verifiedOnly>>
      /\ Open' = Open
      /\ \A x : Passes(x)' = Passes(x)
      /\ \A x : Onward(x)' = Onward(x)
      /\ \A S, R : Sealed(S, R)' <=> Sealed(S, R)
      /\ \A R : Relieved(R)' <=> Relieved(R)
  BY QuestionFixed DEF Look
<1>i. /\ phase = "search" /\ credited = FALSE
      /\ root \in seen /\ Unrelieved /\ HandedOn /\ Least
      /\ t \in frontier /\ t \notin seen /\ seen' = seen \cup {t}
  BY DEF SearchInv, Look
<1>1. CASE kind[t] = "relief"
  <2>1. phase' = "answered" /\ credited' = TRUE
    BY <1>1 DEF Look
  <2>2. Relieved(Open)
    <3> SUFFICES ASSUME NEW S \in SUBSET Tags, root \in S, Sealed(S, Open)
                 PROVE  \E v \in S \ {root} : kind[v] = "relief"
      BY DEF Relieved
    <3>1. t \in S /\ t # root
      BY <1>i DEF Least
    <3>2. QED  BY <1>1, <3>1
  <2>3. CreditIsExact'
    <3>1. Relieved(Open)'
      BY <1>q, <2>2 DEF Relieved, Sealed
    <3>2. QED  BY <2>1, <3>1 DEF CreditIsExact
  <2>4. QED  BY <1>t, <2>1, <2>3 DEF SearchInv
<1>2. CASE kind[t] # "relief"
  <2>1. /\ phase' = "search" /\ credited' = FALSE
        /\ frontier' = (frontier \ {t})
                       \cup (IF kind[t] = "passing" THEN Onward(t) ELSE {})
    BY <1>2, <1>i DEF Look
  <2>2. Unrelieved'
    BY <1>2, <1>i, <1>q DEF Unrelieved
  <2>3. HandedOn'
    <3> SUFFICES ASSUME NEW a \in seen', Passes(a)
                 PROVE  Onward(a) \subseteq seen' \cup frontier'
      BY <1>q DEF HandedOn
    <3>1. CASE a = t
      BY <1>i, <2>1, <3>1 DEF Passes
    <3>2. CASE a # t
      BY <1>i, <2>1, <3>2 DEF HandedOn
    <3>3. QED  BY <3>1, <3>2
  <2>4. Least'
    <3> SUFFICES ASSUME NEW S \in SUBSET Tags, root \in S, Sealed(S, Open)
                 PROVE  seen' \cup frontier' \subseteq S
      BY <1>q DEF Least, Sealed
    <3>1. seen \cup frontier \subseteq S
      BY <1>i DEF Least
    <3>2. kind[t] = "passing" => Onward(t) \subseteq S
      BY <1>i, <3>1 DEF Sealed, Passes, Onward
    <3>3. QED  BY <1>i, <2>1, <3>1, <3>2
  <2>5. QED
    BY <1>t, <1>i, <1>q, <2>1, <2>2, <2>3, <2>4 DEF SearchInv, CreditIsExact
<1>3. QED  BY <1>1, <1>2

\* Every step keeps the invariant of the search.
LEMMA SearchStep == SearchInv /\ [Next]_vars => SearchInv'
<1> SUFFICES ASSUME SearchInv, [Next]_vars PROVE SearchInv'
  OBVIOUS
<1>t. TypeOK /\ TypeOK'
  BY TypeStep DEF SearchInv
<1>1. CASE Build
  BY <1>1, <1>t DEF Build, searchVars, SearchInv, CreditIsExact
<1>2. CASE Ask
  <2>1. /\ phase' = "search" /\ seen' = {root} /\ frontier' = Onward(root)
        /\ UNCHANGED <<graphVars, kind, root, verifiedOnly>>
        /\ credited' = FALSE
    BY <1>2 DEF Ask, SearchInv
  <2>2. /\ Open' = Open
        /\ \A x : Onward(x)' = Onward(x)
        /\ \A S, R : Sealed(S, R)' <=> Sealed(S, R)
    BY <2>1, QuestionFixed
  <2>3. Unrelieved' /\ HandedOn'
    BY <2>1, <2>2 DEF Unrelieved, HandedOn
  <2>4. Least'
    <3> SUFFICES ASSUME NEW S \in SUBSET Tags, root \in S, Sealed(S, Open)
                 PROVE  seen' \cup frontier' \subseteq S
      BY <2>1, <2>2 DEF Least, Sealed
    <3>1. Onward(root) \subseteq S
      BY DEF Sealed, Passes, Onward
    <3>2. QED  BY <2>1, <3>1
  <2>5. QED  BY <1>t, <2>1, <2>3, <2>4 DEF SearchInv, CreditIsExact
<1>3. ASSUME NEW t \in Tags, Skip(t) PROVE SearchInv'
  <2>1. /\ phase = "search" /\ phase' = "search"
        /\ t \in seen /\ seen' = seen /\ frontier' = frontier \ {t}
        /\ credited' = credited
        /\ UNCHANGED <<graphVars, kind, root, verifiedOnly>>
    BY <1>3 DEF Skip
  <2>2. /\ Open' = Open
        /\ \A x : Passes(x)' = Passes(x)
        /\ \A x : Onward(x)' = Onward(x)
        /\ \A S, R : Sealed(S, R)' <=> Sealed(S, R)
    BY <2>1, QuestionFixed
  <2>3. seen' \cup frontier' = seen \cup frontier
    BY <2>1
  <2>4. Unrelieved' /\ HandedOn' /\ Least'
    BY <2>1, <2>2, <2>3 DEF SearchInv, Unrelieved, HandedOn, Least, Sealed
  <2>5. QED  BY <1>t, <2>1, <2>4 DEF SearchInv, CreditIsExact
<1>4. ASSUME NEW t \in Tags, Look(t) PROVE SearchInv'
  BY <1>4, LookStep
<1>5. CASE Exhausted
  <2>1. /\ phase = "search" /\ phase' = "answered" /\ frontier = {}
        /\ UNCHANGED <<graphVars, kind, root, verifiedOnly, seen, credited>>
        /\ credited = FALSE
    BY <1>5 DEF Exhausted, SearchInv
  <2>2. root \in seen /\ Unrelieved /\ seen \in SUBSET Tags
    BY <1>t, <2>1 DEF SearchInv, TypeOK
  <2>3. Sealed(seen, Open)
    BY <2>1 DEF SearchInv, HandedOn, Sealed, Onward
  <2>4. ~ Relieved(Open)
    BY <2>2, <2>3 DEF Relieved, Unrelieved
  <2>5. ~ Relieved(Open)'
    BY <2>1, <2>4 DEF graphVars, Relieved, Sealed, Passes, Open
  <2>6. QED  BY <1>t, <2>1, <2>5 DEF SearchInv, CreditIsExact
<1>6. CASE UNCHANGED vars
  <2>1. /\ UNCHANGED <<graphVars, kind, root, verifiedOnly>>
        /\ UNCHANGED <<phase, seen, frontier, credited>>
    BY <1>6 DEF vars, searchVars
  <2>2. Unrelieved' = Unrelieved /\ HandedOn' = HandedOn /\ Least' = Least
    BY <2>1 DEF graphVars, Unrelieved, HandedOn, Least, Onward, Passes, Open, Sealed
  <2>3. CreditIsExact' = CreditIsExact
    BY <2>1 DEF graphVars, CreditIsExact, Relieved, Passes, Open, Sealed
  <2>4. QED  BY <1>t, <2>1, <2>2, <2>3 DEF SearchInv
<1>7. QED  BY <1>1, <1>2, <1>3, <1>4, <1>5, <1>6 DEF Next

\* The relief search credits a tag exactly when an unblockable path over the
\* directions it may use leads to a relief valve.
THEOREM ReliefExact == Spec => []CreditIsExact
<1>1. Init => SearchInv
  BY TypeInit DEF Init, SearchInv, CreditIsExact
<1>2. SearchInv => CreditIsExact
  BY DEF SearchInv
<1>3. QED  BY <1>1, <1>2, SearchStep, PTL DEF Spec

\* What stands behind each tag, as a row tells types apart.
RowTypes ==
    [t \in Tags |-> CASE kind[t] = "relief" -> "relief_valve"
                      [] kind[t] = "passing" -> "other"
                      [] OTHER -> "blocking"]

\* The search decides the relief path a row speaks of.
LEMMA RowRelief == \A R : Relieved(R) <=> HasReliefPath(root, RowTypes, R)
<1>1. \A t \in Tags : /\ RowTypes[t] = "other" <=> kind[t] = "passing"
                      /\ RowTypes[t] = "relief_valve" <=> kind[t] = "relief"
  BY DEF RowTypes
<1>2. QED  BY <1>1 DEF Relieved, Sealed, Passes, HasReliefPath

\* A row may take the search's answer for the relief path itself: the verdict
\* has_relief_path returns to _topology_safeguards is HasReliefPath.
THEOREM SearchServesRows ==
    Spec => [](phase = "answered" => (credited <=> HasReliefPath(root, RowTypes, Open)))
<1>1. CreditIsExact => (phase = "answered" => (credited <=> HasReliefPath(root, RowTypes, Open)))
  BY RowRelief, Zenon DEF CreditIsExact
<1>2. QED  BY <1>1, ReliefExact, PTL

----------------------------------------------------------------------------
(* What was walked has handed its neighbours on unless it closes, nothing   *)
(* was walked that some way from the item does not lead to with every valve  *)
(* shut behind it, and the boundary is what of it closes.                    *)

WalkTypeOK ==
    /\ closable \subseteq Tags /\ item \in Tags
    /\ walked \subseteq Tags /\ ahead \subseteq Tags

WalkHandedOn ==
    /\ Neighbours(item) \subseteq walked \cup ahead
    /\ \A t \in walked \ closable : Neighbours(t) \subseteq walked \cup ahead

NoFurther ==
    \A S \in SUBSET Tags : Encloses(S, closable) => walked \cup ahead \subseteq S

WalkInv ==
    /\ WalkTypeOK
    /\ boundary = walked \cap closable
    /\ walk \in {"build", "search", "answered"}
    /\ walk = "build" => walked = {} /\ ahead = {}
    /\ walk \in {"search", "answered"} => WalkHandedOn /\ NoFurther
    /\ walk = "answered" => ahead = {}

\* The steps of a walk leave the question alone.
LEMMA WalkFixed ==
    ASSUME UNCHANGED <<graphVars, closable, item, upward>>
    PROVE  /\ \A t : Neighbours(t)' = Neighbours(t)
           /\ Neighbours(item)' = Neighbours(item)
           /\ \A S, closed : Encloses(S, closed)' <=> Encloses(S, closed)
BY DEF graphVars, Neighbours, Encloses

\* The walk begins with the neighbours of the item, which every section holds.
LEMMA WalkAskStep ==
    ASSUME WalkInv, WalkAsk
    PROVE  WalkInv'
<1>1. /\ walk' = "search" /\ ahead' = Neighbours(item) /\ walked = {} /\ boundary = {}
      /\ UNCHANGED <<graphVars, closable, item, upward, walked, boundary>>
  BY DEF WalkAsk, WalkInv
<1>2. /\ \A t : Neighbours(t)' = Neighbours(t)
      /\ Neighbours(item)' = Neighbours(item)
      /\ \A S, closed : Encloses(S, closed)' <=> Encloses(S, closed)
  BY <1>1, WalkFixed
<1>3. WalkTypeOK'
  BY <1>1 DEF WalkInv, WalkTypeOK, Neighbours
<1>4. WalkHandedOn'
  BY <1>1, <1>2 DEF WalkHandedOn
<1>5. NoFurther'
  <2> SUFFICES ASSUME NEW S \in SUBSET Tags, Encloses(S, closable)
               PROVE  walked' \cup ahead' \subseteq S
    BY <1>1, <1>2 DEF NoFurther, Encloses, Neighbours, graphVars
  <2>1. QED  BY <1>1 DEF Encloses
<1>6. QED  BY <1>1, <1>3, <1>4, <1>5 DEF WalkInv

\* A tag is taken from the frontier once: a valve ends its way, anything else
\* hands its neighbours on.
LEMMA WalkLookStep ==
    ASSUME WalkInv, NEW t \in Tags, WalkLook(t)
    PROVE  WalkInv'
<1>1. /\ walk = "search" /\ walk' = "search"
      /\ t \in ahead /\ t \notin walked /\ walked' = walked \cup {t}
      /\ UNCHANGED <<graphVars, closable, item, upward>>
      /\ WalkHandedOn /\ NoFurther /\ WalkTypeOK /\ boundary = walked \cap closable
  BY DEF WalkLook, WalkInv
<1>2. /\ \A x : Neighbours(x)' = Neighbours(x)
      /\ Neighbours(item)' = Neighbours(item)
  BY <1>1, WalkFixed
<1>3. /\ ahead' = (ahead \ {t}) \cup (IF t \in closable THEN {} ELSE Neighbours(t))
      /\ boundary' = IF t \in closable THEN boundary \cup {t} ELSE boundary
  BY DEF WalkLook, Stop, WalkOn
<1>4. WalkTypeOK'
  BY <1>1, <1>3 DEF WalkTypeOK, Neighbours
<1>5. boundary' = walked' \cap closable'
  BY <1>1, <1>3
<1>6. WalkHandedOn'
  BY <1>1, <1>2, <1>3 DEF WalkHandedOn
<1>7. NoFurther'
  <2> SUFFICES ASSUME NEW S \in SUBSET Tags, Encloses(S, closable)
               PROVE  walked' \cup ahead' \subseteq S
    BY <1>1 DEF NoFurther, Encloses, Neighbours, graphVars
  <2>1. walked \cup ahead \subseteq S
    BY <1>1 DEF NoFurther
  <2>2. t \notin closable => Neighbours(t) \subseteq S
    BY <1>1, <2>1 DEF Encloses
  <2>3. QED  BY <1>1, <1>3, <2>1, <2>2
<1>8. QED  BY <1>1, <1>4, <1>5, <1>6, <1>7 DEF WalkInv

\* No step breaks the invariant.
LEMMA WalkInvStep == WalkInv /\ [WalkNext]_isolationVars => WalkInv'
<1> SUFFICES ASSUME WalkInv, [WalkNext]_isolationVars PROVE WalkInv'
  OBVIOUS
<1>1. CASE WalkBuild
  BY <1>1 DEF WalkBuild, walkVars, WalkInv, WalkTypeOK
<1>2. CASE WalkAsk
  BY <1>2, WalkAskStep
<1>3. ASSUME NEW t \in Tags, WalkSkip(t) PROVE WalkInv'
  <2>1. /\ walk = "search" /\ ahead' = ahead \ {t}
        /\ walked' \cup ahead' = walked \cup ahead
        /\ UNCHANGED <<graphVars, walk, closable, item, upward, walked, boundary>>
    BY <1>3 DEF WalkSkip
  <2>2. WalkHandedOn' /\ NoFurther'
    BY <2>1 DEF WalkInv, WalkHandedOn, NoFurther, Encloses, Neighbours, graphVars
  <2>3. QED  BY <2>1, <2>2 DEF WalkInv, WalkTypeOK
<1>4. ASSUME NEW t \in Tags, WalkLook(t) PROVE WalkInv'
  BY <1>4, WalkLookStep
<1>5. CASE WalkExhausted
  <2>1. /\ walk = "search" /\ walk' = "answered" /\ ahead = {}
        /\ UNCHANGED <<graphVars, closable, item, upward, walked, ahead, boundary>>
    BY <1>5 DEF WalkExhausted
  <2>2. WalkHandedOn' /\ NoFurther'
    BY <2>1 DEF WalkInv, WalkHandedOn, NoFurther, Encloses, Neighbours, graphVars
  <2>3. QED  BY <2>1, <2>2 DEF WalkInv, WalkTypeOK
<1>6. CASE UNCHANGED isolationVars
  BY <1>6 DEF isolationVars, walkVars, graphVars, WalkInv, WalkTypeOK, WalkHandedOn, NoFurther,
              Encloses, Neighbours
<1>7. QED  BY <1>1, <1>2, <1>3, <1>4, <1>5, <1>6 DEF WalkNext

\* On every topology, cyclic ones included: with the valves of the boundary shut
\* what the item lets flow past ends at them, no other closable valve is in that
\* section, and each valve of the boundary bounds it.
THEOREM BoundaryIsolates == WalkSpec => []BoundaryIsExact
<1>1. WalkInit => WalkInv
  BY DEF WalkInit, WalkInv, WalkTypeOK
<1>2. WalkInv => BoundaryIsExact
  <2> SUFFICES ASSUME WalkInv, walk = "answered"
               PROVE  boundary \subseteq closable /\ Section(boundary) \cap closable = boundary
    BY DEF BoundaryIsExact
  <2>1. /\ WalkHandedOn /\ NoFurther /\ ahead = {} /\ boundary = walked \cap closable
        /\ walked \in SUBSET Tags
    BY DEF WalkInv, WalkTypeOK
  <2>2. Encloses(walked, boundary)
    BY <2>1 DEF WalkHandedOn, Encloses
  <2>3. Section(boundary) \subseteq walked
    BY <2>1, <2>2 DEF Section
  <2>4. walked \subseteq Section(boundary)
    <3> SUFFICES ASSUME NEW S \in SUBSET Tags, Encloses(S, boundary)
                 PROVE  walked \subseteq S
      BY <2>1 DEF Section
    <3>1. Encloses(S, closable)
      BY <2>1 DEF Encloses
    <3>2. QED  BY <2>1, <3>1 DEF NoFurther
  <2>5. QED  BY <2>1, <2>3, <2>4
<1>3. QED  BY <1>1, <1>2, WalkInvStep, PTL DEF WalkSpec

----------------------------------------------------------------------------
(* The graph of a row: a pair that is connected and not verified goes back  *)
(* to an edge drawn without a direction, and such an edge connects both its *)
(* ways.                                                                    *)

Guessed(s, a, b) ==
    \E i \in DOMAIN s : ~s[i].known /\ (Draws(s, i, a, b) \/ Draws(s, i, b, a))

GuessesAreDrawn ==
    \A a, b \in Tags : <<a, b>> \in conn \ verified => Guessed(drawn, a, b)

DrawnBothWays ==
    \A i \in DOMAIN drawn : ~drawn[i].known =>
        {<<drawn[i].src, drawn[i].dst>>, <<drawn[i].dst, drawn[i].src>>} \subseteq conn

RowGraph == GraphTypeOK /\ GuessesAreDrawn /\ DrawnBothWays

\* The findings are what a row derives from the graph as it is.
RowInv ==
    /\ RowGraph
    /\ row \in {"build", "pressure", "reverse flow"}
    /\ row # "build" => node \in Nodes
    /\ row = "pressure" => findings = ReliefFinding(node, type)
    /\ row = "reverse flow" => findings = CheckValveFindings(node, type)

\* One more edge keeps the guesses of the graph tied to the drawing.
LEMMA AddEdgeRow ==
    ASSUME RowGraph, NEW e \in Edges, AddEdge(e)
    PROVE  RowGraph'
<1>t. GraphTypeOK /\ GraphTypeOK'
  BY AddEdgeType DEF RowGraph
<1>1. /\ drawn \in Seq(Edges) /\ drawn' = Append(drawn, e)
      /\ Len(drawn) \in Nat /\ DOMAIN drawn = 1..Len(drawn)
      /\ DOMAIN drawn' = 1..(Len(drawn) + 1)
      /\ drawn'[Len(drawn) + 1] = e
      /\ \A i \in DOMAIN drawn : i \in DOMAIN drawn' /\ drawn'[i] = drawn[i]
  BY <1>t DEF AddEdge, GraphTypeOK
<1>2. conn \subseteq conn'
  BY DEF AddEdge
<1>3. GuessesAreDrawn'
  <2> SUFFICES ASSUME NEW a \in Tags, NEW b \in Tags, <<a, b>> \in conn' \ verified'
               PROVE  Guessed(drawn', a, b)
    BY DEF GuessesAreDrawn
  <2>1. CASE <<a, b>> \in conn \ verified
    <3>1. PICK i \in DOMAIN drawn :
              ~drawn[i].known /\ (Draws(drawn, i, a, b) \/ Draws(drawn, i, b, a))
      BY <2>1 DEF RowGraph, GuessesAreDrawn, Guessed
    <3>2. QED  BY <1>1, <3>1 DEF Guessed, Draws
  <2>2. CASE <<a, b>> \notin conn \ verified
    <3>1. ~e.known /\ ((e.src = a /\ e.dst = b) \/ (e.src = b /\ e.dst = a))
      BY <2>2 DEF AddEdge
    <3>2. Len(drawn) + 1 \in DOMAIN drawn'
      BY <1>1
    <3>3. QED  BY <1>1, <3>1, <3>2 DEF Guessed, Draws
  <2>3. QED  BY <2>1, <2>2
<1>4. DrawnBothWays'
  <2> SUFFICES ASSUME NEW i \in DOMAIN drawn', ~drawn'[i].known
               PROVE  {<<drawn'[i].src, drawn'[i].dst>>, <<drawn'[i].dst, drawn'[i].src>>}
                          \subseteq conn'
    BY DEF DrawnBothWays
  <2>1. CASE i \in DOMAIN drawn
    BY <1>1, <1>2, <2>1 DEF RowGraph, DrawnBothWays
  <2>2. CASE i \notin DOMAIN drawn
    <3>1. i = Len(drawn) + 1
      BY <1>1, <2>2
    <3>2. drawn'[i] = e
      BY <1>1, <3>1
    <3>3. QED  BY <3>2 DEF AddEdge
  <2>3. QED  BY <2>1, <2>2
<1>5. QED  BY <1>t, <1>3, <1>4 DEF RowGraph

\* The finding of a row with these places over verified pairs, and over all.
FirstOf(n, sure, drawnOnly) ==
    CASE sure # {} -> <<<<n[Min(sure)], 99>>>>
      [] sure = {} /\ drawnOnly # {} -> <<<<n[Min(drawnOnly)], 60>>>>
      [] OTHER -> <<>>

\* Every step of a row keeps its invariant.
LEMMA RowStep == RowInv /\ [RowNext]_<<graphVars, rowVars>> => RowInv'
<1> SUFFICES ASSUME RowInv, [RowNext]_<<graphVars, rowVars>> PROVE RowInv'
  OBVIOUS
<1>1. CASE RowBuild
  <2>1. row = "build" /\ row' = row
    BY <1>1 DEF RowBuild, rowVars
  <2>2. PICK e \in Edges : AddEdge(e)
    BY <1>1 DEF RowBuild
  <2>3. RowGraph'
    BY <2>2, AddEdgeRow DEF RowInv
  <2>4. QED  BY <2>1, <2>3 DEF RowInv
<1>2. ASSUME UNCHANGED graphVars
      PROVE  /\ RowGraph'
             /\ \A n, ty : ReliefFinding(n, ty)' = ReliefFinding(n, ty)
             /\ \A n, ty : CheckValveFindings(n, ty)' = CheckValveFindings(n, ty)
  <2>u. drawn' = drawn /\ conn' = conn /\ verified' = verified
    BY <1>2 DEF graphVars
  <2>1. RowGraph'
    <3>1. GraphTypeOK'
      BY <2>u DEF RowInv, RowGraph, GraphTypeOK
    <3>2. GuessesAreDrawn'
      BY <2>u DEF RowInv, RowGraph, GuessesAreDrawn
    <3>3. DrawnBothWays'
      BY <2>u DEF RowInv, RowGraph, DrawnBothWays
    <3>4. QED  BY <3>1, <3>2, <3>3 DEF RowGraph
  <2>2. \A v : Crossable(v)' = Crossable(v)
    BY <2>u DEF Crossable
  <2>3. \A n, ty : ReliefFinding(n, ty)' = ReliefFinding(n, ty)
    <3> SUFFICES ASSUME NEW n, NEW ty
                 PROVE  ReliefFinding(n, ty)' = ReliefFinding(n, ty)
      OBVIOUS
    <3> DEFINE P == {i \in DOMAIN n : HasReliefPath(n[i], ty, Crossable(TRUE))}
               Q == {i \in DOMAIN n : HasReliefPath(n[i], ty, Crossable(FALSE))}
    <3>1. P' = P /\ Q' = Q
      BY <2>2
    <3>2. ReliefFinding(n, ty) = FirstOf(n, P, Q)
      BY DEF ReliefFinding, FirstOf
    <3>3. ReliefFinding(n, ty)' = FirstOf(n, P', Q')
      BY DEF ReliefFinding, FirstOf
    <3> HIDE DEF P, Q
    <3>4. QED  BY <3>1, <3>2, <3>3
  <2>4. \A n, ty, v : CheckValves(n, ty, v)' = CheckValves(n, ty, v)
    <3>1. \A a, b, ty, v : CheckValvesBetween(a, b, ty, v)' = CheckValvesBetween(a, b, ty, v)
      BY <2>2 DEF CheckValvesBetween
    <3>2. QED  BY <3>1 DEF CheckValves
  <2>6. \A n, ty : CheckValveFindings(n, ty)' = CheckValveFindings(n, ty)
    BY <2>4 DEF CheckValveFindings
  <2>5. QED  BY <2>1, <2>3, <2>6
<1>3. ASSUME NEW n \in Nodes, NEW ty, MorePressure(n, ty) PROVE RowInv'
  BY <1>2, <1>3 DEF MorePressure, RowInv
<1>4. ASSUME NEW n \in Nodes, NEW ty, ReverseFlow(n, ty) PROVE RowInv'
  BY <1>2, <1>4 DEF ReverseFlow, RowInv
<1>5. CASE UNCHANGED <<graphVars, rowVars>>
  BY <1>2, <1>5 DEF rowVars, RowInv
<1>6. QED  BY <1>1, <1>3, <1>4, <1>5 DEF RowNext

----------------------------------------------------------------------------
(* What the plants a drawing leaves open have in common with its graph.     *)

Loose == {i \in DOMAIN drawn : ~drawn[i].known}

\* The pair along which flow runs through the i-th edge.
Pair(d, i) == IF d[i] THEN <<drawn[i].src, drawn[i].dst>>
                      ELSE <<drawn[i].dst, drawn[i].src>>

PlantOf(d) == verified \cup {Pair(d, i) : i \in Loose}

\* A plant gives every loose edge its way.
LEMMA PlantsAre == Plants = {PlantOf(d) : d \in [Loose -> BOOLEAN]}
BY DEF Plants, PlantOf, Pair, Loose

\* A plant keeps what is verified and flows only where the graph connects.
LEMMA PlantsBetween ==
    ASSUME RowGraph, NEW R \in Plants
    PROVE  verified \subseteq R /\ R \subseteq conn
<1>1. PICK d \in [Loose -> BOOLEAN] : R = PlantOf(d)
  BY PlantsAre
<1>2. ASSUME NEW i \in Loose PROVE Pair(d, i) \in conn
  BY <1>2 DEF RowGraph, DrawnBothWays, Loose, Pair
<1>3. verified \subseteq conn
  BY DEF RowGraph, GraphTypeOK
<1>4. QED  BY <1>1, <1>2, <1>3 DEF PlantOf

\* A guess of the graph is a loose edge, and whichever way it is wanted, the
\* plants that send it that way flow over it.
LEMMA GuessIsLoose ==
    ASSUME RowGraph, NEW a \in Tags, NEW b \in Tags, <<a, b>> \in conn, <<a, b>> \notin verified
    PROVE  \E i \in Loose : Draws(drawn, i, a, b) \/ Draws(drawn, i, b, a)
BY DEF RowGraph, GuessesAreDrawn, Guessed, Loose

----------------------------------------------------------------------------
(* Relief flow over a larger set of pairs gets no less far, and some plant  *)
(* lets it get as far as the graph does: of a plant in which it gets as far *)
(* as in any, turning one more loose edge around would gain a tag.          *)

\* S holds t and all that relief flow from t gets to from S over R.
Closed(S, t, ty, R) ==
    /\ t \in S
    /\ \A a \in S, b \in Tags : (a = t \/ ty[a] = "other") /\ <<a, b>> \in R => b \in S

Reached(t, ty, R) == {x \in Tags : \A S \in SUBSET Tags : Closed(S, t, ty, R) => x \in S}

\* More pairs to flow over lose no relief path.
LEMMA ReliefCarries ==
    ASSUME NEW t, NEW ty, NEW R, NEW Q, R \subseteq Q, HasReliefPath(t, ty, R)
    PROVE  HasReliefPath(t, ty, Q)
BY DEF HasReliefPath

\* What is reached is closed itself.
LEMMA ReachedClosed ==
    ASSUME NEW t \in Tags, NEW ty, NEW R
    PROVE  Closed(Reached(t, ty, R), t, ty, R)
<1>1. t \in Reached(t, ty, R)
  BY DEF Reached, Closed
<1>2. ASSUME NEW a \in Reached(t, ty, R), NEW b \in Tags,
             a = t \/ ty[a] = "other", <<a, b>> \in R
      PROVE  b \in Reached(t, ty, R)
  <2>1. ASSUME NEW S \in SUBSET Tags, Closed(S, t, ty, R) PROVE b \in S
    BY <1>2, <2>1 DEF Reached, Closed
  <2>2. QED  BY <2>1 DEF Reached
<1>3. QED  BY <1>1, <1>2 DEF Closed

\* Where relief flow over the plant of d stops short of what the graph connects,
\* another plant takes it further.
LEMMA FurtherPlant ==
    ASSUME RowGraph, NEW t \in Tags, NEW ty, NEW R \in Plants,
           ~Closed(Reached(t, ty, R), t, ty, conn)
    PROVE  \E Q \in Plants : /\ Reached(t, ty, R) \subseteq Reached(t, ty, Q)
                             /\ Reached(t, ty, R) # Reached(t, ty, Q)
<1> DEFINE S == Reached(t, ty, R)
<1>r. S \subseteq Tags /\ Closed(S, t, ty, R)
  BY ReachedClosed DEF Reached
<1>1. PICK d \in [Loose -> BOOLEAN] : R = PlantOf(d)
  BY PlantsAre
<1>2. PICK a \in S, b \in Tags : /\ a = t \/ ty[a] = "other"
                                 /\ <<a, b>> \in conn
                                 /\ b \notin S
  BY <1>r DEF Closed
<1>3. <<a, b>> \notin R /\ <<a, b>> \notin verified
  BY <1>r, <1>2, PlantsBetween DEF Closed
<1>4. PICK i \in Loose : Draws(drawn, i, a, b) \/ Draws(drawn, i, b, a)
  BY <1>r, <1>2, <1>3, GuessIsLoose
<1> DEFINE e == [d EXCEPT ![i] = ~d[i]]
           Q == PlantOf(e)
<1>5. e \in [Loose -> BOOLEAN] /\ e[i] = ~d[i] /\ \A j \in Loose : j # i => e[j] = d[j]
  OBVIOUS
<1>6. Q \in Plants
  BY <1>5, PlantsAre
<1>7. Pair(d, i) = <<b, a>> /\ Pair(e, i) = <<a, b>>
  <2>1. Pair(d, i) # <<a, b>>
    BY <1>1, <1>3 DEF PlantOf
  <2>2. d[i] \in BOOLEAN
    OBVIOUS
  <2>3. QED  BY <1>4, <1>5, <2>1, <2>2 DEF Pair, Draws
<1>8. \A x \in S : \A y : <<x, y>> \in R => <<x, y>> \in Q
  <2> SUFFICES ASSUME NEW x \in S, NEW y, <<x, y>> \in R, <<x, y>> \notin verified
               PROVE  <<x, y>> \in Q
    BY DEF PlantOf
  <2>1. PICK j \in Loose : <<x, y>> = Pair(d, j)
    BY <1>1 DEF PlantOf
  <2>2. j # i
    BY <1>2, <1>7, <2>1
  <2>3. Pair(e, j) = Pair(d, j)
    BY <1>5, <2>2 DEF Pair
  <2>4. QED  BY <2>1, <2>3 DEF PlantOf
<1>9. <<a, b>> \in Q
  BY <1>7 DEF PlantOf
<1> HIDE DEF S, e, Q
<1>10. ASSUME NEW U \in SUBSET Tags, Closed(U, t, ty, Q) PROVE S \subseteq U /\ b \in U
  <2>1. Closed(S \cap U, t, ty, R)
    BY <1>r, <1>8, <1>10 DEF Closed
  <2>2. S \cap U \in SUBSET Tags
    OBVIOUS
  <2>3. S \subseteq S \cap U
    BY <2>1, <2>2 DEF S, Reached
  <2>4. b \in U
    BY <1>2, <1>9, <1>10, <2>3 DEF Closed
  <2>5. QED  BY <2>3, <2>4
<1>11. S \subseteq Reached(t, ty, Q) /\ b \in Reached(t, ty, Q)
  BY <1>r, <1>10 DEF Reached
<1>12. QED  BY <1>2, <1>6, <1>11 DEF S

\* In some plant relief flow gets as far as it does over all the graph connects.
LEMMA WidestPlant ==
    ASSUME IsFiniteSet(Tags), RowGraph, NEW t \in Tags, NEW ty
    PROVE  \E R \in Plants : Closed(Reached(t, ty, R), t, ty, conn)
<1> DEFINE Short == {Tags \ Reached(t, ty, R) : R \in Plants}
<1>1. Plants # {}
  <2> DEFINE d == [i \in Loose |-> TRUE]
  <2>1. d \in [Loose -> BOOLEAN]
    OBVIOUS
  <2> HIDE DEF d
  <2>2. PlantOf(d) \in Plants
    BY <2>1, PlantsAre
  <2>3. QED  BY <2>2
<1>2. IsWellFoundedOn(StrictSubsetOrdering(Tags), SUBSET Tags)
  BY FS_StrictSubsetOrderingWellFounded, FS_FiniteSubsetsOfFinite
<1>3. Short \subseteq SUBSET Tags /\ Short # {}
  BY <1>1
<1>4. PICK m \in Short : \A k \in Short : ~(<<k, m>> \in StrictSubsetOrdering(Tags))
  <2> HIDE DEF Short
  <2>1. QED  BY <1>2, <1>3, WFMin
<1>5. PICK R \in Plants : m = Tags \ Reached(t, ty, R)
  OBVIOUS
<1>6. SUFFICES ASSUME ~Closed(Reached(t, ty, R), t, ty, conn) PROVE FALSE
  OBVIOUS
<1>7. PICK Q \in Plants : /\ Reached(t, ty, R) \subseteq Reached(t, ty, Q)
                          /\ Reached(t, ty, R) # Reached(t, ty, Q)
  BY <1>6, FurtherPlant
<1> DEFINE k == Tags \ Reached(t, ty, Q)
<1>8. /\ k \in Short /\ k \in SUBSET Tags /\ m \in SUBSET Tags
      /\ k \subseteq m /\ k # m
  <2>1. Reached(t, ty, R) \subseteq Tags /\ Reached(t, ty, Q) \subseteq Tags
    BY DEF Reached
  <2>2. QED  BY <1>5, <1>7, <2>1
<1>9. <<k, m>> \in StrictSubsetOrdering(Tags)
  <2> HIDE DEF k
  <2>1. QED  BY <1>8 DEF StrictSubsetOrdering
<1>10. QED  BY <1>4, <1>8, <1>9

\* A relief path that is drawn is there in some plant.
LEMMA SomePlantRelieves ==
    ASSUME IsFiniteSet(Tags), RowGraph, NEW t \in Tags, NEW ty, HasReliefPath(t, ty, conn)
    PROVE  \E R \in Plants : HasReliefPath(t, ty, R)
<1>1. PICK R \in Plants : Closed(Reached(t, ty, R), t, ty, conn)
  BY WidestPlant
<1>2. PICK v \in Reached(t, ty, R) \ {t} : ty[v] = "relief_valve"
  <2>1. Reached(t, ty, R) \in SUBSET Tags
    BY DEF Reached
  <2>2. QED  BY <1>1, <2>1 DEF HasReliefPath, Closed
<1>3. \A S \in SUBSET Tags : Closed(S, t, ty, R) => v \in S \ {t}
  BY <1>2 DEF Reached
<1>4. HasReliefPath(t, ty, R)
  BY <1>2, <1>3 DEF HasReliefPath, Closed
<1>5. QED  BY <1>4

----------------------------------------------------------------------------
(* A flow path visits no tag twice, so the loose edges along it can all be  *)
(* sent its way.                                                            *)

\* More pairs to flow over lose no flow path.
LEMMA PathCarries ==
    ASSUME NEW a, NEW b, NEW R, NEW Q, R \subseteq Q
    PROVE  FlowPaths(a, b, R) \subseteq FlowPaths(a, b, Q)
BY DEF FlowPaths

\* A path that is drawn is there in some plant.
LEMMA SomePlantFlows ==
    ASSUME RowGraph, NEW a, NEW b, NEW p \in FlowPaths(a, b, conn)
    PROVE  \E R \in Plants : p \in FlowPaths(a, b, R)
<1>1. PICK n \in 2..(Cutoff + 1) : p \in [1..n -> Tags]
  BY DEF FlowPaths
<1>2. n \in Nat /\ Len(p) = n /\ DOMAIN p = 1..n
  BY <1>1, RowAssumption
<1>3. /\ IsInjective(p)
      /\ \A k \in 1..(n - 1) : <<p[k], p[k + 1]>> \in conn
  BY <1>2 DEF FlowPaths
<1> DEFINE d == [i \in Loose |-> \E k \in 1..(n - 1) : Draws(drawn, i, p[k], p[k + 1])]
           R == PlantOf(d)
<1>4. d \in [Loose -> BOOLEAN] /\ R \in Plants
  BY PlantsAre
<1>5. ASSUME NEW k \in 1..(n - 1) PROVE <<p[k], p[k + 1]>> \in R
  <2>1. k \in 1..n /\ k + 1 \in 1..n /\ p[k] \in Tags /\ p[k + 1] \in Tags
    BY <1>1, <1>2
  <2>2. CASE <<p[k], p[k + 1]>> \in verified
    BY <2>2 DEF PlantOf
  <2>3. CASE <<p[k], p[k + 1]>> \notin verified
    <3>1. PICK i \in Loose : Draws(drawn, i, p[k], p[k + 1]) \/ Draws(drawn, i, p[k + 1], p[k])
      BY <1>3, <2>1, <2>3, GuessIsLoose
    <3>2. CASE Draws(drawn, i, p[k], p[k + 1])
      <4>1. d[i] = TRUE
        BY <3>2
      <4>2. Pair(d, i) = <<p[k], p[k + 1]>>
        BY <3>2, <4>1 DEF Pair, Draws
      <4>3. QED  BY <4>2 DEF PlantOf
    <3>3. CASE Draws(drawn, i, p[k + 1], p[k])
      <4>1. ASSUME NEW j \in 1..(n - 1), Draws(drawn, i, p[j], p[j + 1]) PROVE FALSE
        <5>1. j \in 1..n /\ j + 1 \in 1..n
          BY <1>2
        <5>2. p[j] = p[k + 1] /\ p[j + 1] = p[k]
          BY <3>3, <4>1 DEF Draws
        <5>3. j = k + 1 /\ j + 1 = k
          BY <1>2, <1>3, <2>1, <5>1, <5>2 DEF IsInjective
        <5>4. QED  BY <5>3
      <4>2. d[i] = FALSE
        BY <4>1
      <4>3. Pair(d, i) = <<p[k], p[k + 1]>>
        BY <3>3, <4>2 DEF Pair, Draws
      <4>4. QED  BY <4>3 DEF PlantOf
    <3>4. QED  BY <3>1, <3>2, <3>3
  <2>4. QED  BY <2>2, <2>3
<1> HIDE DEF R
<1>6. p \in FlowPaths(a, b, R)
  BY <1>2, <1>5 DEF FlowPaths
<1>7. QED  BY <1>4, <1>6

----------------------------------------------------------------------------
(* The findings of a row: what is credited, what is only named, and that    *)
(* nothing is dropped or named twice.                                       *)

\* The three parts of SafeguardsAreEarned.
Earned(fs) ==
    \A f \in Range(fs) : IF f[2] = 99 THEN \A R \in Plants : Present(f, R)
                                      ELSE \E R \in Plants : Present(f, R)
NamedOnce(fs) == \A i, j \in DOMAIN fs : i # j => fs[i][1] # fs[j][1]
NothingDropped(fs) ==
    \A t \in Range(node) \cup Tags : \A R \in Plants :
        LET named == IF row = "pressure" THEN t \in Range(node)
                                         ELSE type[t] = "check_valve"
        IN  named /\ Present(<<t, 0>>, R) =>
              IF row = "pressure" THEN fs # <<>>
              ELSE \E f \in Range(fs) : f[1] = t

\* A set of numbers has a least one, and Min is it.
LEMMA MinLeast ==
    ASSUME NEW S \in SUBSET Nat, S # {}
    PROVE  Min(S) \in S
<1> DEFINE R == {ss \in Nat \X Nat : ss[1] < ss[2]}
<1>1. OpToRel(<, Nat) = R
  BY DEF OpToRel
<1>2. IsWellFoundedOn(R, Nat)
  BY <1>1, NatLessThanWellFounded, Zenon
<1>3. PICK x \in S : \A y \in S : <<y, x>> \notin R
  <2> HIDE DEF R
  <2>1. QED  BY <1>2, WFMin
<1>4. ASSUME NEW y \in S PROVE x <= y
  <2>1. x \in Nat /\ y \in Nat
    OBVIOUS
  <2>2. y < x => <<y, x>> \in R
    BY <2>1
  <2>3. QED  BY <1>3, <2>1, <2>2
<1>5. \E m \in S : \A y \in S : m <= y
  BY <1>4
<1>6. QED  BY <1>5 DEF Min

\* The order SetToSeq puts a finite set in names each member once.
LEMMA Listed ==
    ASSUME NEW S, IsFiniteSet(S)
    PROVE  /\ SetToSeq(S) \in Seq(S)
           /\ Range(SetToSeq(S)) = S
           /\ IsInjective(SetToSeq(S))
<1> DEFINE n == Cardinality(S)
<1>1. n \in Nat /\ ExistsBijection(1..n, S)
  BY FS_CardinalityType
<1>2. PICK g \in Bijection(1..n, S) : TRUE
  BY <1>1 DEF ExistsBijection
<1>3. g \in [1..n -> S] /\ IsInjective(g)
  BY <1>2 DEF Bijection, Injection, Surjection, IsInjective
<1> HIDE DEF n
<1>4. SetToSeq(S) \in [1..n -> S] /\ IsInjective(SetToSeq(S))
  BY <1>3 DEF SetToSeq, n
<1> DEFINE f == SetToSeq(S)
<1> HIDE DEF f
<1>5. f \in [1..n -> S] /\ IsInjective(f)
  BY <1>4 DEF f
<1>6. f \in Injection(1..n, S)
  BY <1>5 DEF Injection, IsInjective
<1>7. IsFiniteSet(1..n) /\ Cardinality(1..n) = n
  BY <1>1, FS_Interval
<1>8. f \in Surjection(1..n, S)
  BY <1>6, <1>7, FS_Injection DEF n
<1>9. Range(f) = S
  BY <1>5, <1>8 DEF Range, Surjection
<1>10. f \in Seq(S)
  BY <1>1, <1>5
<1>11. QED  BY <1>5, <1>9, <1>10 DEF f

\* One finding stands alone.
LEMMA Single ==
    ASSUME NEW t, NEW c
    PROVE  Range(<<<<t, c>>>>) = {<<t, c>>} /\ NamedOnce(<<<<t, c>>>>)
BY DEF Range, NamedOnce

\* What a row for more pressure finds is earned.
LEMMA PressureEarned ==
    ASSUME IsFiniteSet(Tags), RowGraph, row = "pressure", node \in Nodes,
           findings = ReliefFinding(node, type)
    PROVE  Earned(findings) /\ NamedOnce(findings) /\ NothingDropped(findings)
<1> DEFINE W(v) == {i \in DOMAIN node : HasReliefPath(node[i], type, Crossable(v))}
<1>1. node \in Seq(Tags) /\ DOMAIN node \subseteq Nat /\ \A i \in DOMAIN node : node[i] \in Tags
  BY RowAssumption
<1>2. /\ W(TRUE) = {i \in DOMAIN node : HasReliefPath(node[i], type, verified)}
      /\ W(FALSE) = {i \in DOMAIN node : HasReliefPath(node[i], type, conn)}
  BY DEF Crossable
<1>3. findings = CASE W(TRUE) # {} -> <<<<node[Min(W(TRUE))], 99>>>>
                   [] W(TRUE) = {} /\ W(FALSE) # {} -> <<<<node[Min(W(FALSE))], 60>>>>
                   [] OTHER -> <<>>
  BY DEF ReliefFinding
<1>4. \A f, R : Present(f, R) <=> HasReliefPath(f[1], type, R)
  BY DEF Present
<1> HIDE DEF W
<1>5. CASE W(TRUE) # {}
  <2> DEFINE i == Min(W(TRUE))
             t == node[i]
  <2>1. i \in W(TRUE)
    BY <1>1, <1>2, <1>5, MinLeast
  <2> HIDE DEF i
  <2>2. HasReliefPath(t, type, verified) /\ t \in Tags
    BY <1>1, <1>2, <2>1
  <2>3. findings = <<<<t, 99>>>>
    BY <1>3, <1>5 DEF i
  <2> HIDE DEF t
  <2>4. Range(findings) = {<<t, 99>>} /\ NamedOnce(findings) /\ findings # <<>>
    BY <2>3, Single
  <2>5. \A R \in Plants : HasReliefPath(t, type, R)
    BY <2>2, PlantsBetween, ReliefCarries
  <2>6. Earned(findings)
    BY <1>4, <2>4, <2>5 DEF Earned
  <2>7. NothingDropped(findings)
    BY <2>4 DEF NothingDropped
  <2>8. QED  BY <2>4, <2>6, <2>7
<1>6. CASE W(TRUE) = {} /\ W(FALSE) # {}
  <2> DEFINE i == Min(W(FALSE))
             t == node[i]
  <2>1. i \in W(FALSE)
    BY <1>1, <1>2, <1>6, MinLeast
  <2> HIDE DEF i
  <2>2. HasReliefPath(t, type, conn) /\ t \in Tags
    BY <1>1, <1>2, <2>1
  <2>3. findings = <<<<t, 60>>>>
    BY <1>3, <1>6 DEF i
  <2> HIDE DEF t
  <2>4. Range(findings) = {<<t, 60>>} /\ NamedOnce(findings) /\ findings # <<>>
    BY <2>3, Single
  <2>5. \E R \in Plants : HasReliefPath(t, type, R)
    BY <2>2, SomePlantRelieves
  <2>6. Earned(findings)
    BY <1>4, <2>4, <2>5 DEF Earned
  <2>7. NothingDropped(findings)
    BY <2>4 DEF NothingDropped
  <2>8. QED  BY <2>4, <2>6, <2>7
<1>7. CASE W(TRUE) = {} /\ W(FALSE) = {}
  <2>f. findings = <<>>
    BY <1>3, <1>7
  <2>1. Range(findings) = {} /\ DOMAIN findings = {}
    BY <2>f DEF Range
  <2>2. ASSUME NEW t \in Range(node), NEW R \in Plants, HasReliefPath(t, type, R)
        PROVE  FALSE
    <3>1. PICK i \in DOMAIN node : t = node[i]
      BY DEF Range
    <3>2. HasReliefPath(t, type, conn)
      BY <2>2, PlantsBetween, ReliefCarries
    <3>3. QED  BY <1>2, <1>7, <3>1, <3>2
  <2>3. NothingDropped(findings)
    BY <1>4, <2>2 DEF NothingDropped
  <2>4. Earned(findings) /\ NamedOnce(findings)
    BY <2>1, Zenon DEF Earned, NamedOnce
  <2>5. QED  BY <2>3, <2>4
<1>8. QED  BY <1>5, <1>6, <1>7

\* The valves on a path, and on the paths between the tags of a node.
LEMMA ValvesAre ==
    ASSUME NEW n, NEW ty, NEW v
    PROVE  CheckValves(n, ty, v) =
             {t \in Tags : /\ ty[t] = "check_valve"
                           /\ \E a, b \in Range(n) : \E p \in FlowPaths(a, b, Crossable(v)) :
                                  a # b /\ t \in Range(p)}
<1>1. ASSUME NEW t \in CheckValves(n, ty, v)
      PROVE  /\ t \in Tags /\ ty[t] = "check_valve"
             /\ \E a, b \in Range(n) : \E p \in FlowPaths(a, b, Crossable(v)) :
                    a # b /\ t \in Range(p)
  <2>1. PICK q \in {ab \in Range(n) \X Range(n) : ab[1] # ab[2]} :
            t \in CheckValvesBetween(q[1], q[2], ty, v)
    BY DEF CheckValves
  <2>2. q[1] \in Range(n) /\ q[2] \in Range(n) /\ q[1] # q[2]
    OBVIOUS
  <2>3. QED  BY <2>1, <2>2 DEF CheckValvesBetween
<1>2. ASSUME NEW t \in Tags, ty[t] = "check_valve", NEW a \in Range(n), NEW b \in Range(n),
             NEW p \in FlowPaths(a, b, Crossable(v)), a # b, t \in Range(p)
      PROVE  t \in CheckValves(n, ty, v)
  <2>1. t \in CheckValvesBetween(a, b, ty, v)
    BY <1>2 DEF CheckValvesBetween
  <2> DEFINE q == <<a, b>>
  <2>2. q \in {ab \in Range(n) \X Range(n) : ab[1] # ab[2]}
    BY <1>2
  <2>3. t \in CheckValvesBetween(q[1], q[2], ty, v)
    BY <2>1
  <2> HIDE DEF q
  <2>4. QED  BY <2>2, <2>3 DEF CheckValves
<1>3. QED  BY <1>1, <1>2

\* A finding, and the findings at one confidence about the valves of a set.
Claim(v, c) == <<v, c>>
Claims(V, c) == {Claim(v, c) : v \in V}

\* A finding names its valve and carries its confidence.
LEMMA ClaimParts ==
    ASSUME NEW v, NEW c
    PROVE  Claim(v, c)[1] = v /\ Claim(v, c)[2] = c
BY DEF Claim

\* The findings about a set of valves name its valves alone, and all of them.
LEMMA ClaimsName ==
    ASSUME NEW V, NEW c
    PROVE  /\ \A x \in Claims(V, c) : x[1] \in V /\ x[2] = c
           /\ \A v \in V : \E x \in Claims(V, c) : x[1] = v
BY ClaimParts DEF Claims

\* Listing the findings about a finite set of valves names each of them once.
LEMMA ClaimsListed ==
    ASSUME NEW V, IsFiniteSet(V), NEW c
    PROVE  LET fs == SetToSeq(Claims(V, c))
           IN  /\ fs \in Seq(Claims(V, c))
               /\ Range(fs) = Claims(V, c)
               /\ NamedOnce(fs)
<1> DEFINE T == Claims(V, c)
           f == [v \in V |-> Claim(v, c)]
           fs == SetToSeq(T)
<1>1. f \in Surjection(V, T)
  BY DEF Surjection, Claims
<1>2. IsFiniteSet(T)
  BY <1>1, FS_Surjection
<1>3. fs \in Seq(T) /\ Range(fs) = T /\ IsInjective(fs)
  <2> HIDE DEF T
  <2>1. QED  BY <1>2, Listed
<1> HIDE DEF fs
<1>4. NamedOnce(fs)
  <2> SUFFICES ASSUME NEW i \in DOMAIN fs, NEW j \in DOMAIN fs, fs[i][1] = fs[j][1]
               PROVE  fs[i] = fs[j]
    BY <1>3 DEF NamedOnce, IsInjective
  <2>1. PICK v \in V : fs[i] = Claim(v, c)
    BY <1>3 DEF Range, Claims
  <2>2. PICK w \in V : fs[j] = Claim(w, c)
    BY <1>3 DEF Range, Claims
  <2>3. QED  BY <2>1, <2>2, ClaimParts
<1>5. QED  BY <1>3, <1>4 DEF fs

\* Of two lists that name apart, the one after the other names each thing once.
LEMMA Joined ==
    ASSUME NEW A, NEW B, NEW f \in Seq(A), NEW g \in Seq(B),
           NamedOnce(f), NamedOnce(g),
           \A x \in Range(f), y \in Range(g) : x[1] # y[1]
    PROVE  Range(f \o g) = Range(f) \cup Range(g) /\ NamedOnce(f \o g)
<1> DEFINE m == Len(f)
           n == Len(g)
           h == f \o g
<1>1. /\ m \in Nat /\ n \in Nat /\ DOMAIN f = 1..m /\ DOMAIN g = 1..n
      /\ DOMAIN h = 1..(m + n)
      /\ \A i \in 1..m : h[i] = f[i]
      /\ \A i \in (m + 1)..(m + n) : h[i] = g[i - m]
  OBVIOUS
<1> HIDE DEF m, n, h
<1>2. ASSUME NEW i \in 1..m PROVE i \in DOMAIN h /\ h[i] = f[i] /\ f[i] \in Range(f)
  BY <1>1 DEF Range
<1>3. ASSUME NEW i \in (m + 1)..(m + n)
      PROVE  i - m \in 1..n /\ h[i] = g[i - m] /\ g[i - m] \in Range(g)
  BY <1>1 DEF Range
<1>4. ASSUME NEW i \in 1..n PROVE i + m \in DOMAIN h /\ h[i + m] = g[i]
  <2>1. i + m \in (m + 1)..(m + n) /\ (i + m) - m = i
    BY <1>1
  <2>2. QED  BY <1>1, <2>1
<1>5. Range(h) = Range(f) \cup Range(g)
  <2>1. ASSUME NEW x \in Range(h) PROVE x \in Range(f) \cup Range(g)
    <3>1. PICK i \in 1..(m + n) : x = h[i]
      BY <1>1 DEF Range
    <3>2. i \in 1..m \/ i \in (m + 1)..(m + n)
      BY <1>1
    <3>3. QED  BY <1>2, <1>3, <3>1, <3>2
  <2>2. ASSUME NEW i \in DOMAIN f PROVE f[i] \in Range(h)
    BY <1>1, <1>2 DEF Range
  <2>3. ASSUME NEW i \in DOMAIN g PROVE g[i] \in Range(h)
    BY <1>1, <1>4 DEF Range
  <2>4. QED  BY <2>1, <2>2, <2>3 DEF Range
<1>6. NamedOnce(h)
  <2> SUFFICES ASSUME NEW i \in 1..(m + n), NEW j \in 1..(m + n), i # j
               PROVE  h[i][1] # h[j][1]
    BY <1>1 DEF NamedOnce
  <2>1. /\ i \in 1..m \/ i \in (m + 1)..(m + n)
        /\ j \in 1..m \/ j \in (m + 1)..(m + n)
    BY <1>1
  <2>2. CASE i \in 1..m /\ j \in 1..m
    BY <1>1, <1>2, <2>2 DEF NamedOnce
  <2>3. CASE i \in 1..m /\ j \in (m + 1)..(m + n)
    BY <1>2, <1>3, <2>3
  <2>4. CASE i \in (m + 1)..(m + n) /\ j \in 1..m
    BY <1>2, <1>3, <2>4
  <2>5. CASE i \in (m + 1)..(m + n) /\ j \in (m + 1)..(m + n)
    <3>1. i - m # j - m
      BY <1>1
    <3>2. i - m \in DOMAIN g /\ j - m \in DOMAIN g /\ h[i] = g[i - m] /\ h[j] = g[j - m]
      BY <1>1, <1>3, <2>5
    <3>3. QED  BY <3>1, <3>2 DEF NamedOnce
  <2>6. QED  BY <2>1, <2>2, <2>3, <2>4, <2>5
<1>7. QED  BY <1>5, <1>6 DEF h

\* The tags of a node are tags.
LEMMA TagsOfNode ==
    ASSUME NEW n \in Nodes
    PROVE  Range(n) \subseteq Tags
<1>1. n \in Seq(Tags)
  BY RowAssumption
<1>2. DOMAIN n = 1..Len(n) /\ \A i \in 1..Len(n) : n[i] \in Tags
  BY <1>1
<1>3. QED  BY <1>2 DEF Range

\* What a row for reverse flow finds is earned.
LEMMA ReverseEarned ==
    ASSUME IsFiniteSet(Tags), RowGraph, row # "pressure", node \in Nodes,
           findings = CheckValveFindings(node, type)
    PROVE  Earned(findings) /\ NamedOnce(findings) /\ NothingDropped(findings)
<1> DEFINE sure == CheckValves(node, type, TRUE)
           all == CheckValves(node, type, FALSE)
           drawnOnly == all \ sure
           A == Claims(sure, 99)
           B == Claims(drawnOnly, 60)
           f == SetToSeq(A)
           g == SetToSeq(B)
           Flows(t, R) == \E a, b \in Range(node) : \E p \in FlowPaths(a, b, R) :
                              a # b /\ t \in Range(p)
<1>1. /\ sure = {t \in Tags : type[t] = "check_valve" /\ Flows(t, verified)}
      /\ all = {t \in Tags : type[t] = "check_valve" /\ Flows(t, conn)}
  <2>1. Crossable(TRUE) = verified /\ Crossable(FALSE) = conn
    BY DEF Crossable
  <2>2. sure = {t \in Tags : type[t] = "check_valve" /\ Flows(t, Crossable(TRUE))}
    BY ValvesAre
  <2>3. all = {t \in Tags : type[t] = "check_valve" /\ Flows(t, Crossable(FALSE))}
    BY ValvesAre
  <2> HIDE DEF sure, all, Flows
  <2>4. QED  BY <2>1, <2>2, <2>3
<1>2. findings = f \o g
  BY DEF CheckValveFindings, Claims, Claim
<1>3. \A x, R : Present(x, R) <=> Flows(x[1], R)
  BY DEF Present
<1>4. \A t, R, Q : R \subseteq Q /\ Flows(t, R) => Flows(t, Q)
  BY PathCarries
<1>5. \A t : Flows(t, conn) => \E R \in Plants : Flows(t, R)
  <2> SUFFICES ASSUME NEW t, NEW a \in Range(node), NEW b \in Range(node),
                      NEW p \in FlowPaths(a, b, conn), a # b, t \in Range(p)
               PROVE  \E R \in Plants : Flows(t, R)
    OBVIOUS
  <2>1. PICK R \in Plants : p \in FlowPaths(a, b, R)
    BY SomePlantFlows
  <2>2. QED  BY <2>1
<1> HIDE DEF sure, all, Flows
<1>6. /\ sure \subseteq Tags /\ drawnOnly \subseteq Tags
      /\ \A v \in sure : Flows(v, verified)
      /\ \A v \in drawnOnly : Flows(v, conn)
      /\ \A v \in Tags : type[v] = "check_valve" /\ Flows(v, conn) => v \in sure \cup drawnOnly
      /\ \A v \in sure, w \in drawnOnly : v # w
  BY <1>1
<1> HIDE DEF drawnOnly
<1>7. IsFiniteSet(sure) /\ IsFiniteSet(drawnOnly)
  BY <1>6, FS_Subset
<1>8. f \in Seq(A) /\ Range(f) = A /\ NamedOnce(f)
  BY <1>7, ClaimsListed
<1>9. g \in Seq(B) /\ Range(g) = B /\ NamedOnce(g)
  BY <1>7, ClaimsListed
<1> HIDE DEF f, g
<1>a. /\ \A x \in A : x[1] \in sure /\ x[2] = 99
      /\ \A v \in sure : \E x \in A : x[1] = v
  BY ClaimsName
<1>b. /\ \A y \in B : y[1] \in drawnOnly /\ y[2] = 60
      /\ \A v \in drawnOnly : \E y \in B : y[1] = v
  BY ClaimsName
<1> HIDE DEF A, B
<1>10. \A x \in A, y \in B : x[1] # y[1]
  BY <1>6, <1>a, <1>b
<1>11. Range(findings) = A \cup B /\ NamedOnce(findings)
  <2>1. Range(f \o g) = Range(f) \cup Range(g) /\ NamedOnce(f \o g)
    BY <1>8, <1>9, <1>10, Joined
  <2>2. QED  BY <1>2, <1>8, <1>9, <2>1
<1>p. \A R \in Plants : verified \subseteq R /\ R \subseteq conn
  BY PlantsBetween
<1>12. Earned(findings)
  <2>1. ASSUME NEW x \in A PROVE x[2] = 99 /\ \A R \in Plants : Flows(x[1], R)
    BY <1>4, <1>6, <1>a, <1>p
  <2>2. ASSUME NEW x \in B PROVE x[2] # 99 /\ \E R \in Plants : Flows(x[1], R)
    <3>1. 60 # 99
      OBVIOUS
    <3>2. QED  BY <1>5, <1>6, <1>b, <3>1
  <2>3. QED  BY <1>3, <1>11, <2>1, <2>2 DEF Earned
<1>13. ASSUME NEW t \in Tags, NEW R \in Plants, type[t] = "check_valve", Flows(t, R)
       PROVE  \E x \in Range(findings) : x[1] = t
  <2>1. Flows(t, conn)
    BY <1>4, <1>13, <1>p
  <2>2. t \in sure \/ t \in drawnOnly
    BY <1>6, <1>13, <2>1
  <2>3. \E x \in A \cup B : x[1] = t
    BY <1>a, <1>b, <2>2
  <2>4. QED  BY <1>11, <2>3
<1>14. NothingDropped(findings)
  <2>1. \A t, R : Present(<<t, 0>>, R) <=> Flows(t, R)
    <3>1. \A t : Claim(t, 0)[1] = t
      BY ClaimParts
    <3>2. QED  BY <1>3, <3>1 DEF Claim
  <2>2. QED  BY TagsOfNode, <1>13, <2>1 DEF NothingDropped
<1>15. QED  BY <1>11, <1>12, <1>14

\* Whatever is drawn, whatever its items are and whichever of them the row is
\* about: a safeguard credited from the topology stands in every plant the
\* drawing allows, one named for confirmation in some, and none is dropped or
\* named twice.
THEOREM SafeguardsStand ==
    ASSUME IsFiniteSet(Tags)
    PROVE  RowSpec => []SafeguardsAreEarned
<1>1. RowInit => RowInv
  <2> SUFFICES ASSUME RowInit PROVE RowInv
    OBVIOUS
  <2>1. drawn = <<>> /\ conn = {} /\ verified = {} /\ row = "build"
    BY DEF RowInit, GraphInit
  <2>2. RowGraph
    BY <2>1 DEF RowGraph, GraphTypeOK, GuessesAreDrawn, DrawnBothWays
  <2>3. QED  BY <2>1, <2>2 DEF RowInv
<1>2. RowInv => SafeguardsAreEarned
  <2> SUFFICES ASSUME RowInv, row \in {"pressure", "reverse flow"}
               PROVE  Earned(findings) /\ NamedOnce(findings) /\ NothingDropped(findings)
    BY Zenon DEF SafeguardsAreEarned, Earned, NamedOnce, NothingDropped
  <2>1. QED  BY PressureEarned, ReverseEarned DEF RowInv
<1>3. QED  BY <1>1, <1>2, RowStep, PTL DEF RowSpec
=============================================================================
