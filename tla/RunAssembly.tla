---------------------------- MODULE RunAssembly ----------------------------
(* From the strokes traced on a sheet to its pipe runs: the stubs of pipes   *)
(* are bridged to the symbols they stop at and the points classified        *)
(* (s1_dim/trace_lines.py, build_graph), equipment claims the strokes of its *)
(* shell, chains of corners collapse into runs, and drawing references take *)
(* loose ends for connectors (assemble_graph.py, assemble).                 *)
(*                                                                           *)
(* Geometry is input: which points lie within reach of a symbol, in the box *)
(* of an equipment item, beside a reference text.                           *)
EXTENDS Naturals, Sequences, SequencesExt, FiniteSetsExt

CONSTANT Sheets

\* What build_graph has after snapping: points and symbols, and strokes, none of
\* which joins a point to itself.
Traced(s) ==
    LET nodes == DOMAIN s.kind
    IN  /\ s.kind \in Seq({"point", "valve", "instrument"})
        /\ s.strokes \in Seq(ToSet(s.strokes))
        /\ \A e \in ToSet(s.strokes) : /\ {e.a, e.b} \subseteq nodes /\ e.a # e.b
                                       /\ e.style \in {"solid", "dashed"}
        /\ s.near \in SUBSET (nodes \X nodes)  \* <<symbol, point within its reach>>
        /\ DOMAIN s.owner \subseteq nodes      \* nodes in an equipment item's box
        /\ s.owner \in [DOMAIN s.owner -> DOMAIN s.shape]
        /\ s.shape \in Seq({"capsule", "circle"})
        /\ s.texts \in Seq(Nat)                \* the node closest to each reference

ASSUME SheetsAreTraced == \A s \in Sheets : Traced(s)

VARIABLES sheet,
          building,  \* "bridge", "claim", "chains", "loops", "back", "connect" or "built"
          kind,      \* of each node; equipment nodes come after the traced ones
          edges,
          bridged,   \* symbols whose stubs have been looked for
          visited,   \* edges on a run, or on the walk
          walk,      \* the chain being followed
          runs,
          read       \* reference texts attached so far

assemblyVars == <<sheet, building, kind, edges, bridged, visited, walk, runs, read>>

NoWalk == [start |-> 0, chain |-> <<>>, at |-> 0]

AssemblyInit ==
    /\ sheet \in Sheets
    /\ building = "bridge"
    /\ kind = sheet.kind /\ edges = sheet.strokes
    /\ bridged = {} /\ visited = {} /\ walk = NoWalk /\ runs = <<>> /\ read = 0

At(n) == {i \in DOMAIN edges : n \in {edges[i].a, edges[i].b}}
Other(e, n) == IF e.a = n THEN e.b ELSE e.a

----------------------------------------------------------------------------
(* build_graph: symbols and points.                                          *)

Symbols == {n \in DOMAIN kind : kind[n] \in {"valve", "instrument"}}

\* The loose ends within reach of n, one bridge each.
Bridge(n) ==
    /\ building = "bridge"
    /\ n \notin bridged /\ \A m \in Symbols \ bridged : n <= m
    /\ LET stubs == {m \in DOMAIN kind : /\ <<n, m>> \in sheet.near
                                         /\ kind[m] = "point" /\ Cardinality(At(m)) = 1}
       IN  edges' = edges \o [k \in DOMAIN SetToSeq(stubs) |->
               [a |-> n, b |-> SetToSeq(stubs)[k], style |-> "bridge", length |-> 10]]
    /\ bridged' = bridged \cup {n}
    /\ UNCHANGED <<sheet, building, kind, visited, walk, runs, read>>

Classify ==
    /\ building = "bridge" /\ bridged = Symbols
    /\ kind' = [n \in DOMAIN kind |->
                  LET d == Cardinality(At(n))
                  IN  IF kind[n] # "point" THEN kind[n]
                      ELSE IF d <= 1 THEN "dead-end"
                      ELSE IF d = 2 THEN "corner" ELSE "junction"]
    /\ building' = "claim"
    /\ UNCHANGED <<sheet, edges, bridged, visited, walk, runs, read>>

----------------------------------------------------------------------------
(* assemble, step 2: a stroke with both ends in boxes is dropped; one that   *)
(* crosses makes its inner end a nozzle, whatever that was.                  *)

Owned == DOMAIN sheet.owner
Inside(e) == {e.a, e.b} \subseteq Owned

\* The k-th of some strokes, in the order of all.
Nth(is, k) == CHOOSE i \in is : Cardinality({j \in is : j <= i}) = k

Claim ==
    /\ building = "claim"
    /\ LET outside == {i \in DOMAIN edges : ~Inside(edges[i])}
           kept    == [k \in 1..Cardinality(outside) |-> edges[Nth(outside, k)]]
           nozzles == Owned \cap UNION {{e.a, e.b} : e \in ToSet(kept)}
           item(n) == Len(kind) + sheet.owner[n]
           order   == SetToSeq(nozzles)
       IN  /\ kind' = [n \in DOMAIN kind |-> IF n \in nozzles THEN "nozzle" ELSE kind[n]]
                      \o [k \in DOMAIN sheet.shape |-> "equipment"]
           /\ edges' = kept \o [k \in DOMAIN order |->
                  [a |-> order[k], b |-> item(order[k]), style |-> "internal", length |-> 10]]
    /\ building' = "chains"
    /\ UNCHANGED <<sheet, bridged, visited, walk, runs, read>>

----------------------------------------------------------------------------
(* Step 3: chains of corners collapse.                                       *)

Styles(is) == {edges[i].style : i \in is} \ {"bridge"}

Collapsible ==
    {n \in DOMAIN kind : /\ kind[n] = "corner" /\ Cardinality(At(n)) = 2
                         /\ Cardinality(Styles(At(n))) <= 1}

Left == DOMAIN edges \ visited
Anchors(i) == {edges[i].a, edges[i].b} \ Collapsible
Anchored == {i \in Left : Anchors(i) # {}}

\* walk: from start over edge i, and on through corners while a way is left.
SetOut(i, start) == walk' = [start |-> start, chain |-> <<i>>, at |-> Other(edges[i], start)]

Ways == IF walk.at \in Collapsible THEN At(walk.at) \ visited ELSE {}

Further ==
    /\ walk # NoWalk /\ Ways # {}
    /\ LET j == Min(Ways)
       IN  /\ walk' = [walk EXCEPT !.chain = Append(@, j), !.at = Other(edges[j], @)]
           /\ visited' = visited \cup {j}
    /\ UNCHANGED <<sheet, building, kind, edges, bridged, runs, read>>

Arrived == walk # NoWalk /\ Ways = {}

\* First pass: strokes in their order, from an end that is an anchor.
SetOutFromAnchor ==
    /\ building = "chains" /\ walk = NoWalk /\ Anchored # {}
    /\ LET i == Min(Anchored)
       IN  /\ SetOut(i, IF edges[i].a \in Anchors(i) THEN edges[i].a ELSE edges[i].b)
           /\ visited' = visited \cup {i}
    /\ UNCHANGED <<sheet, building, kind, edges, bridged, runs, read>>

EndChains ==
    /\ building = "chains" /\ walk = NoWalk /\ Anchored = {}
    /\ building' = "loops"
    /\ UNCHANGED <<sheet, kind, edges, bridged, visited, walk, runs, read>>

\* Second pass: one way to the far end,
SetOutOnLoop ==
    /\ building = "loops" /\ walk = NoWalk /\ Left # {}
    /\ SetOut(Min(Left), edges[Min(Left)].b)
    /\ visited' = visited \cup {Min(Left)}
    /\ UNCHANGED <<sheet, building, kind, edges, bridged, runs, read>>

\* Mutant of TurnBack: what was walked stays visited.
TurnBackRemembering ==
    /\ building = "loops" /\ Arrived
    /\ building' = "back"
    /\ SetOut(walk.chain[1], walk.at)
    /\ UNCHANGED <<sheet, kind, edges, bridged, visited, runs, read>>

\* and, what was walked forgotten, over the same stroke from there.
TurnBack ==
    /\ building = "loops" /\ Arrived
    /\ building' = "back"
    /\ SetOut(walk.chain[1], walk.at)
    /\ visited' = (visited \ ToSet(walk.chain)) \cup {walk.chain[1]}
    /\ UNCHANGED <<sheet, kind, edges, bridged, runs, read>>

\* emit: the first stroke of the chain that is no bridge gives the style.
Emit ==
    /\ building \in {"chains", "back"} /\ Arrived
    /\ LET drawn == {k \in DOMAIN walk.chain : edges[walk.chain[k]].style # "bridge"}
       IN  runs' = Append(runs,
             [a |-> walk.start, b |-> walk.at, chain |-> walk.chain,
              style |-> IF drawn = {} THEN "solid" ELSE edges[walk.chain[Min(drawn)]].style])
    /\ walk' = NoWalk
    /\ building' = IF building = "back" THEN "loops" ELSE building
    /\ UNCHANGED <<sheet, kind, edges, bridged, visited, read>>

EndLoops ==
    /\ building = "loops" /\ walk = NoWalk /\ Left = {}
    /\ building' = "connect"
    /\ UNCHANGED <<sheet, kind, edges, bridged, visited, walk, runs, read>>

----------------------------------------------------------------------------
(* Step 5: a reference text makes the node beside it a connector, when that  *)
(* is a circle in the equipment or the loose end of one run.                 *)

Degree(n) == Cardinality({k \in DOMAIN runs : runs[k].a = n})
                 + Cardinality({k \in DOMAIN runs : runs[k].b = n})

IsCircle(n) == n > Len(sheet.kind) /\ sheet.shape[n - Len(sheet.kind)] = "circle"

Connect ==
    /\ building = "connect" /\ read < Len(sheet.texts)
    /\ LET n    == sheet.texts[read + 1]
           free == \/ kind[n] = "equipment" /\ IsCircle(n)
                   \/ kind[n] = "dead-end" /\ Degree(n) = 1
       IN  kind' = IF free THEN [kind EXCEPT ![n] = "off-page"] ELSE kind
    /\ read' = read + 1
    /\ UNCHANGED <<sheet, building, edges, bridged, visited, walk, runs>>

EndAssembly ==
    /\ building = "connect" /\ read = Len(sheet.texts)
    /\ building' = "built"
    /\ UNCHANGED <<sheet, kind, edges, bridged, visited, walk, runs, read>>

AssemblyNext ==
    \/ \E n \in Symbols : Bridge(n)
    \/ Classify \/ Claim
    \/ Further \/ Emit
    \/ SetOutFromAnchor \/ EndChains \/ SetOutOnLoop \/ TurnBack \/ EndLoops
    \/ Connect \/ EndAssembly

----------------------------------------------------------------------------
(* Property.                                                                 *)

\* The nodes a run passes, in order.
Stops(r) ==
    LET stop[k \in 1..Len(r.chain) + 1] ==
            IF k = 1 THEN r.a ELSE LET before == stop[k - 1]
                                   IN  Other(edges[r.chain[k - 1]], before)
    IN  stop

\* Every stroke that no equipment item claims is on one run and once on it, bridges
\* included; a run is a walk over touching strokes of one style; it stops at
\* corners only inside, and ends at none, unless it is a loop of corners alone;
\* every nozzle leads to its item; and a loose end has been bridged to one symbol
\* at most, though it may be in reach of several.
RunsCoverTheDrawing ==
    building = "built" =>
        /\ \A i \in DOMAIN edges :
              \E k \in DOMAIN runs :
                 /\ Cardinality({n \in DOMAIN runs[k].chain : runs[k].chain[n] = i}) = 1
                 /\ \A l \in DOMAIN runs \ {k} : i \notin ToSet(runs[l].chain)
        /\ \A e \in ToSet(sheet.strokes) : e \in ToSet(edges) <=> ~Inside(e)
        /\ \A r \in ToSet(runs) :
              LET stops == Stops(r)
                  inner == {stops[k] : k \in 2..Len(stops) - 1}
                  ends  == {r.a, r.b}
              IN  /\ \A k \in DOMAIN r.chain :
                        {stops[k], stops[k + 1]} = {edges[r.chain[k]].a, edges[r.chain[k]].b}
                  /\ Last(stops) = r.b
                  /\ Styles(ToSet(r.chain)) \subseteq {r.style}
                  /\ inner \subseteq Collapsible
                  /\ ends \cap Collapsible = {} \/ (r.a = r.b /\ inner # {})
        /\ \A n \in DOMAIN kind : kind[n] = "nozzle" =>
              \E r \in ToSet(runs) : /\ r.style = "internal" /\ n \in {r.a, r.b}
                                     /\ Len(sheet.kind) + sheet.owner[n] \in {r.a, r.b}
        /\ \A n \in DOMAIN sheet.kind : sheet.kind[n] = "point" =>
              Cardinality({i \in At(n) : edges[i].style = "bridge"}) <= 1
=============================================================================
