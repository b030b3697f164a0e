---------------------------- MODULE DiagexGraph -----------------------------
(* The other engine: what a vision model read off a document the detectors   *)
(* refuse, a graph of entities and connections over all its pages, becomes   *)
(* nodes and runs of each page (s1_dim/diagex_fallback.py, convert_graph).   *)
EXTENDS Naturals, Sequences, SequencesExt, FiniteSetsExt

CONSTANTS Pages,    \* the pages asked for
          Readings  \* graphs the model may return

\* An edge may name what is no entity. An off-page connector heads "in" or "out",
\* or the model did not say; its label may hold the words for to or from.
EntityKinds == {"text", "equipment", "valve", "safety-valve", "instrument", "opc", "other"}

Readable(g) ==
    /\ g.entities \in Seq(ToSet(g.entities)) /\ g.edges \in Seq(ToSet(g.edges))
    /\ \A n \in ToSet(g.entities) : /\ n.kind \in EntityKinds
                                    /\ n.heading \in {"in", "out", "none"}
                                    /\ n.wording \in {"to", "from", "none"}
    /\ \A e \in ToSet(g.edges) : {e.process, e.cross} \subseteq BOOLEAN

ASSUME ReadingsAssumption == \A g \in Readings : Readable(g)

VARIABLES reading,
          converting,  \* "nodes", "edges", "nozzles", "converted" or "emitted"
          turn,        \* how far the loop has come
          papers,      \* of each page: nodes, runs, connectors, the safety valves
                       \* and those marked as such
          report

diagexVars == <<reading, converting, turn, papers, report>>

DiagexInit ==
    /\ reading \in Readings
    /\ converting = "nodes" /\ turn = 1
    /\ papers = [p \in Pages |-> [nodes |-> <<>>, runs |-> <<>>, connectors |-> {},
                                  safety |-> {}, marked |-> {}]]
    /\ report = [dropped |-> 0, dangling |-> 0, cross |-> {}, nozzles |-> 0]

----------------------------------------------------------------------------
(* Entities become nodes of their page.                                      *)

Becomes(kind) == CASE kind = "opc" -> "off-page"
                   [] kind = "safety-valve" -> "valve"
                   [] kind = "other" -> "junction"
                   [] OTHER -> kind

Entity == reading.entities[turn]
AtEntity == converting = "nodes" /\ turn <= Len(reading.entities)

\* On a page nobody asked for: passed over, and not counted.
PassOver ==
    /\ AtEntity /\ Entity.page \notin Pages
    /\ turn' = turn + 1
    /\ UNCHANGED <<reading, converting, papers, report>>

Drop ==
    /\ AtEntity /\ Entity.page \in Pages /\ Entity.kind = "text"
    /\ turn' = turn + 1
    /\ report' = [report EXCEPT !.dropped = @ + 1]
    /\ UNCHANGED <<reading, converting, papers>>

Drawn(paper) == Len(paper.nodes) + 1

Place ==
    /\ AtEntity /\ Entity.page \in Pages /\ Entity.kind # "text"
    /\ turn' = turn + 1
    /\ LET paper == papers[Entity.page]
       IN  papers' = [papers EXCEPT ![Entity.page] = [paper EXCEPT
               !.nodes = Append(@, [kind |-> Becomes(Entity.kind), of |-> turn]),
               !.connectors = @ \cup (IF Entity.kind = "opc" /\ Entity.heading # "none"
                                      THEN {Drawn(paper)} ELSE {}),
               !.safety = @ \cup (IF Entity.kind = "safety-valve" THEN {Drawn(paper)} ELSE {})]]
    /\ UNCHANGED <<reading, converting, report>>

EndNodes ==
    /\ converting = "nodes" /\ turn > Len(reading.entities)
    /\ converting' = "edges" /\ turn' = 1
    /\ UNCHANGED <<reading, papers, report>>

----------------------------------------------------------------------------
(* Connections become runs.                                                  *)

\* idmap and node_page: entities that are nodes, and which.
Kept == {i \in DOMAIN reading.entities : /\ reading.entities[i].page \in Pages
                                         /\ reading.entities[i].kind # "text"}
PagesOf(e) == {reading.entities[i].page : i \in {e.from, e.to} \cap Kept}
NodeFor(paper, i) == CHOOSE n \in DOMAIN paper.nodes : paper.nodes[n].of = i

Connection == reading.edges[turn]
AtEdge == converting = "edges" /\ turn <= Len(reading.edges)
Crosses(e) == e.cross \/ Cardinality(PagesOf(e)) = 2

Dangle ==
    /\ AtEdge /\ PagesOf(Connection) = {}
    /\ turn' = turn + 1
    /\ report' = [report EXCEPT !.dangling = @ + 1]
    /\ UNCHANGED <<reading, converting, papers>>

LeaveToStitching ==
    /\ AtEdge /\ PagesOf(Connection) # {} /\ Crosses(Connection)
    /\ turn' = turn + 1
    /\ report' = [report EXCEPT !.cross = @ \cup {turn}]
    /\ UNCHANGED <<reading, converting, papers>>

\* A run; an end whose entity is no node gets a dead end.
Lay ==
    /\ AtEdge /\ PagesOf(Connection) # {} /\ ~Crosses(Connection)
    /\ turn' = turn + 1
    /\ \E p \in PagesOf(Connection) :
          LET gone   == {Connection.from, Connection.to} \ Kept
              end(i) == IF i \in Kept THEN NodeFor(papers[p], i) ELSE Drawn(papers[p])
          IN  /\ papers' = [papers EXCEPT ![p].nodes = @ \o
                               [k \in 1..Cardinality(gone) |-> [kind |-> "dead-end", of |-> 0]],
                               ![p].runs = Append(@,
                               [a |-> end(Connection.from), b |-> end(Connection.to),
                                style |-> IF Connection.process THEN "solid" ELSE "dashed",
                                of |-> turn])]
              /\ report' = [report EXCEPT !.dangling = @ + Cardinality(gone)]
    /\ UNCHANGED <<reading, converting>>

EndEdges ==
    /\ converting = "edges" /\ turn > Len(reading.edges)
    /\ converting' = "nozzles" /\ turn' = 0
    /\ UNCHANGED <<reading, papers, report>>

----------------------------------------------------------------------------
(* A pipe meets equipment at a nozzle of its own.                            *)

Bare(paper) == {k \in DOMAIN paper.runs :
                  /\ paper.runs[k].style = "solid"
                  /\ \E n \in {paper.runs[k].a, paper.runs[k].b} :
                        paper.nodes[n].kind = "equipment"}

\* Mutant of WithNozzle: an item has one nozzle for all its pipes.
WithOneNozzle(paper, k) ==
    LET r    == paper.runs[k]
        atA  == paper.nodes[r.a].kind = "equipment"
        item == IF atA THEN r.a ELSE r.b
        had  == {n \in DOMAIN paper.nodes : /\ paper.nodes[n].kind = "nozzle"
                                            /\ [a |-> n, b |-> item, style |-> "internal", of |-> 0]
                                                 \in ToSet(paper.runs)}
        nz   == IF had = {} THEN Drawn(paper) ELSE Min(had)
        runs == [paper.runs EXCEPT ![k] = IF atA THEN [r EXCEPT !.a = nz] ELSE [r EXCEPT !.b = nz]]
    IN  IF had # {} THEN [paper EXCEPT !.runs = runs] ELSE
        [paper EXCEPT !.nodes = Append(@, [kind |-> "nozzle", of |-> 0]),
                      !.runs = Append(runs,
                          [a |-> nz, b |-> item, style |-> "internal", of |-> 0])]

WithNozzle(paper, k) ==
    LET r    == paper.runs[k]
        atA  == paper.nodes[r.a].kind = "equipment"
        item == IF atA THEN r.a ELSE r.b
        nz   == Drawn(paper)
    IN  [paper EXCEPT !.nodes = Append(@, [kind |-> "nozzle", of |-> 0]),
                      !.runs = Append(
                          [@ EXCEPT ![k] = IF atA THEN [r EXCEPT !.a = nz]
                                                  ELSE [r EXCEPT !.b = nz]],
                          [a |-> nz, b |-> item, style |-> "internal", of |-> 0])]

AddNozzle ==
    /\ converting = "nozzles"
    /\ \E p \in Pages :
          /\ Bare(papers[p]) # {} /\ \A q \in Pages : q < p => Bare(papers[q]) = {}
          /\ papers' = [papers EXCEPT ![p] = WithNozzle(@, Min(Bare(@)))]
    /\ report' = [report EXCEPT !.nozzles = @ + 1]
    /\ UNCHANGED <<reading, converting, turn>>

EndNozzles ==
    /\ converting = "nozzles" /\ \A p \in Pages : Bare(papers[p]) = {}
    /\ converting' = "converted"
    /\ UNCHANGED <<reading, turn, papers, report>>

\* Only once the runs of a page have been oriented are its safety valves marked.
MarkSafety(p) ==
    /\ converting = "converted" /\ converting' = "emitted"
    /\ papers' = [papers EXCEPT ![p].marked = papers[p].safety]
    /\ UNCHANGED <<reading, turn, report>>

ConvertNext ==
    \/ PassOver \/ Drop \/ Place \/ EndNodes
    \/ Dangle \/ LeaveToStitching \/ Lay \/ EndEdges
    \/ AddNozzle \/ EndNozzles

----------------------------------------------------------------------------
(* Property.                                                                 *)

\* The node an end of a run stands for: of a nozzle, its item.
StandsFor(paper, n) ==
    IF paper.nodes[n].kind = "nozzle"
    THEN CHOOSE m \in DOMAIN paper.nodes :
            [a |-> n, b |-> m, style |-> "internal", of |-> 0] \in ToSet(paper.runs)
    ELSE n

\* The runs of a connection, each with its page.
Lying(k) == UNION {{<<p, m>> : m \in {l \in DOMAIN papers[p].runs : papers[p].runs[l].of = k}}
                      : p \in Pages}

DeadEnds(paper) == {n \in DOMAIN paper.nodes : paper.nodes[n].kind = "dead-end"}

\* Nothing disappears silently (docstring of convert_graph): an entity of a page
\* asked for is one node, or a text and counted; a connection is one run between
\* the nodes of its entities, with dead ends, counted, for those that are none,
\* or is listed as crossing sheets, or joins nothing and is counted. Each pipe
\* has a nozzle to itself at each item it meets, and none ends at the item.
GraphIsConverted ==
    converting \in {"converted", "emitted"} =>
        /\ \A i \in Kept :
              LET p == reading.entities[i].page
              IN  Cardinality({n \in DOMAIN papers[p].nodes : papers[p].nodes[n].of = i}) = 1
        /\ report.dropped = Cardinality({i \in DOMAIN reading.entities :
              reading.entities[i].page \in Pages /\ i \notin Kept})
        /\ \A k \in DOMAIN reading.edges :
              LET e == reading.edges[k]
              IN  /\ k \in report.cross <=> PagesOf(e) # {} /\ Crosses(e)
                  /\ Cardinality(Lying(k)) =
                        IF PagesOf(e) = {} \/ k \in report.cross THEN 0 ELSE 1
                  /\ \A l \in Lying(k) :
                        LET p == l[1]
                            r == papers[p].runs[l[2]]
                            of(n) == papers[p].nodes[StandsFor(papers[p], n)].of
                            as(i) == IF i \in Kept THEN i ELSE 0
                        IN  of(r.a) = as(e.from) /\ of(r.b) = as(e.to)
        /\ report.dangling =
              Cardinality({k \in DOMAIN reading.edges : PagesOf(reading.edges[k]) = {}})
              + Cardinality(UNION {{<<p, n>> : n \in DeadEnds(papers[p])} : p \in Pages})
        /\ \A p \in Pages : \A n \in DOMAIN papers[p].nodes :
              LET touching(style) ==
                      {m \in DOMAIN papers[p].runs :
                          /\ papers[p].runs[m].style = style
                          /\ n \in {papers[p].runs[m].a, papers[p].runs[m].b}}
              IN  /\ papers[p].nodes[n].kind = "equipment" => touching("solid") = {}
                  /\ papers[p].nodes[n].kind = "nozzle" =>
                        /\ Cardinality(touching("solid")) = 1
                        /\ Cardinality(touching("internal")) = 1
=============================================================================
