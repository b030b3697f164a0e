----------------------------- MODULE FlowGraph -----------------------------
(* The directed graph TopologyReasoner builds from a topology               *)
(* (hazop/s3_are/reasoner/topology.py, _build_graph): one entry per ordered *)
(* pair of tags, each either verified or a guess. Edges are added in the    *)
(* order of topology.edges; a later edge on the same pair replaces the      *)
(* verdict of an earlier one.                                               *)
EXTENDS Naturals, Sequences

CONSTANTS Tags,      \* equipment tags, dangling ones included
          MaxEdges   \* bound: edges of a topology

ASSUME MaxEdgesAssumption == MaxEdges \in Nat

VARIABLES drawn,     \* topology.edges added so far
          conn,      \* ordered pairs the graph connects
          verified   \* those of them whose direction is verified

graphVars == <<drawn, conn, verified>>

\* An edge of the topology; known is attributes["direction"] = "known".
Edges == [src : Tags, dst : Tags, known : BOOLEAN]

GraphTypeOK ==
    /\ drawn \in Seq(Edges)
    /\ conn \subseteq Tags \X Tags
    /\ verified \subseteq conn

GraphInit == drawn = <<>> /\ conn = {} /\ verified = {}

\* Mutant of AddEdge: a guess unverifies its reverse too.
AddEdgeUnverifies(e) ==
    LET pair == <<e.src, e.dst>>
        back == <<e.dst, e.src>>
    IN  /\ Len(drawn) < MaxEdges
        /\ drawn' = Append(drawn, e)
        /\ conn' = conn \cup {pair} \cup (IF e.known THEN {} ELSE {back})
        /\ verified' = IF e.known THEN verified \cup {pair}
                                  ELSE verified \ {pair, back}

\* One turn of the loop over topology.edges. A guessed edge may be crossed
\* both ways: its reverse is added as a guess unless the pair is there already.
AddEdge(e) ==
    LET pair == <<e.src, e.dst>>
        back == <<e.dst, e.src>>
    IN  /\ Len(drawn) < MaxEdges
        /\ drawn' = Append(drawn, e)
        /\ conn' = conn \cup {pair} \cup (IF e.known THEN {} ELSE {back})
        /\ verified' = IF e.known THEN verified \cup {pair}
                                  ELSE verified \ {pair}

----------------------------------------------------------------------------
\* The i-th edge of s is drawn from a to b.
Draws(s, i, a, b) == s[i].src = a /\ s[i].dst = b

\* Of the edges of s drawn from a to b, the last one is known.
LastIsKnown(s, a, b) ==
    \E i \in 1..Len(s) : /\ Draws(s, i, a, b) /\ s[i].known
                         /\ \A j \in (i+1)..Len(s) : ~Draws(s, j, a, b)

\* A pair is verified exactly when the last edge drawn from its source to its
\* target is known: no guess drawn the other way costs a pair its evidence,
\* and none lends it any (the verified flag of add_edge).
VerifiedIsLastWord ==
    \A a, b \in Tags : <<a, b>> \in verified <=> LastIsKnown(drawn, a, b)

\* Flow may cross a pair only as an edge was drawn or, against it, where the
\* drawing gives no direction; and there it may cross both ways (module
\* docstring: "An unverified edge is traversable in BOTH directions").
GuessesGoBothWays ==
    \A a, b \in Tags :
        <<a, b>> \in conn <=>
            \E i \in 1..Len(drawn) :
                \/ Draws(drawn, i, a, b)
                \/ ~drawn[i].known /\ Draws(drawn, i, b, a)

\* The graph says of every pair what the drawing says, however often and in
\* whatever order the drawing's edges join it (_build_graph).
GraphIsAsDrawn == VerifiedIsLastWord /\ GuessesGoBothWays
=============================================================================
