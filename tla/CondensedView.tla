---------------------------- MODULE CondensedView ---------------------------
(* The view of one study node that a prompt is made of: its members, what   *)
(* is within some hops of them, and the connections between, in-line        *)
(* components folded into them (hazop/s2_pml/condense.py,                   *)
(* condensed_node_view). The folding is also what the node proposal starts  *)
(* from (nodes.py, _folded_neighbors). Texts, line numbers and instruments  *)
(* are left out.                                                            *)
EXTENDS Integers, Sequences, FiniteSets, SequencesExt

(* Folding the in-line components of a graph away (_walk_to_equipment,       *)
(* _chain_direction). A graph is [type : tag -> type, edges : set of edges]. *)

Inline == {"valve", "check_valve", "relief_valve"}

Opposite(e, tag) == IF e.src = tag THEN e.dst ELSE e.src

\* The order of edge_list: by sorted pair, the one along the order first.
EdgeRank(e) == LET a == IF e.src < e.dst THEN e.src ELSE e.dst
                   b == IF e.src < e.dst THEN e.dst ELSE e.src
               IN  <<a, b, IF a = e.src THEN 0 ELSE 1>>
Precedes(e, f) ==
    LET r == EdgeRank(e)  s == EdgeRank(f)
    IN  \E i \in 1..3 : r[i] < s[i] /\ \A j \in 1..(i-1) : r[j] = s[j]

\* _adjacency
Adjacent(g, tag) ==
    SetToSortSeq({e \in g.edges : tag \in {e.src, e.dst}}, Precedes)

\* The walk with its stack of [edge, from, chain]: every branch through in-line
\* components up to the item behind them, or to where it ends; an edge is
\* walked once.
RECURSIVE WalkOn(_, _, _)
WalkOn(g, stack, crossed) ==
    IF stack = <<>> THEN {} ELSE
    LET top    == Last(stack)
        here   == Opposite(top.edge, top.from)
        onward == IF g.type[here] \notin Inline THEN <<>> ELSE
                  SelectSeq(Adjacent(g, here), LAMBDA e :
                      e \notin crossed /\ g.type[Opposite(e, here)] # "instrument")
    IN  IF onward = <<>>
        THEN {[chain |-> top.chain, end |-> here]} \cup WalkOn(g, Front(stack), crossed)
        ELSE WalkOn(g,
                 Front(stack) \o [i \in DOMAIN onward |->
                     [edge |-> onward[i], from |-> here,
                      chain |-> Append(top.chain, onward[i])]],
                 crossed \cup ToSet(onward))

\* _walk_to_equipment
WalkToEquipment(g, tag, first) ==
    WalkOn(g, <<[edge |-> first, from |-> tag, chain |-> <<first>>]>>, {first})

\* Every chain out of an item, but for instrument taps and for those that come
\* back to it.
ChainsFrom(g, tag) ==
    {w \in UNION {WalkToEquipment(g, tag, e) :
            e \in {f \in g.edges : /\ tag \in {f.src, f.dst}
                                   /\ g.type[Opposite(f, tag)] # "instrument"}} :
        w.end # tag}

\* The tags a chain passes, from its start on.
Stops(chain, start) ==
    FoldLeft(LAMBDA at, e : Append(at, Opposite(e, Last(at))), <<start>>, chain)

\* _chain_direction: forward or backward only if every hop is known and all of
\* them agree.
ChainDirection(chain, start) ==
    LET at == Stops(chain, start)
        runs(known) == \A i \in DOMAIN chain :
                           chain[i].known /\ (chain[i].src = at[i]) = known
    IN  CASE runs(TRUE) -> "forward" [] runs(FALSE) -> "backward"
          [] OTHER -> "unknown"

Majors(g) == {t \in DOMAIN g.type : g.type[t] \notin Inline \cup {"instrument"}}

\* _folded_neighbors: how flow runs between two items seen from the first;
\* "none" where no chain joins them.
FoldedFlow(g) ==
    [t \in Majors(g) |->
        LET chains == ChainsFrom(g, t)
            ways(o) == {ChainDirection(w.chain, t) : w \in {x \in chains : x.end = o}}
        IN  [o \in Majors(g) |->
                IF ways(o) = {} THEN "none"
                ELSE IF {"forward", "backward"} \subseteq ways(o) THEN "both"
                ELSE IF "forward" \in ways(o) THEN "out"
                ELSE IF "backward" \in ways(o) THEN "in"
                ELSE "unknown"]]

----------------------------------------------------------------------------
(* The view.                                                                 *)

VARIABLES graph,     \* the equipment graph asked about
          frontier,  \* items to expand on this hop
          upcoming,  \* the frontier of the next hop
          hopsLeft,  \* hops still to make; 0 and an empty frontier: done
          role,      \* the equipment of the view, and how it got there
          links      \* the connections of the view

viewVars == <<graph, frontier, upcoming, hopsLeft, role, links>>

ViewInit ==
    /\ graph = [type |-> <<>>, edges |-> {}]
    /\ frontier = {} /\ upcoming = {}
    /\ hopsLeft = 0
    /\ role = <<>>
    /\ links = {}

Ask(g, members, hops) ==
    /\ graph' = g
    /\ frontier' = members
    /\ upcoming' = {}
    /\ hopsLeft' = hops
    /\ role' = [t \in members |-> "member"]
    /\ links' = {}

\* The connection a chain out of tag becomes: in flow order if its direction is
\* verified, via the in-line components on it.
LinkOf(tag, w) ==
    LET d == ChainDirection(w.chain, tag)
    IN  [from |-> IF d = "backward" THEN w.end ELSE tag,
         to   |-> IF d = "backward" THEN tag ELSE w.end,
         via  |-> {t \in ToSet(Stops(w.chain, tag)) :
                      t \notin {tag, w.end} /\ graph.type[t] \in Inline},
         known |-> d # "unknown"]

\* seen_conn: what makes two connections one.
Key(l) == <<IF l.known \/ l.from < l.to THEN <<l.from, l.to>> ELSE <<l.to, l.from>>,
            l.via>>

RoleOf(tag) == IF graph.type[tag] \in Inline \cup {"line"} THEN "boundary"
                                                          ELSE "neighbor"

\* Mutant of NewLinks: connections are told apart by their ends alone.
NewLinksByEnds(tag) ==
    {l \in {LinkOf(tag, w) : w \in ChainsFrom(graph, tag)} :
        ~ \E k \in links : {k.from, k.to} = {l.from, l.to}}

\* The connections out of tag that the view does not have yet.
NewLinks(tag) ==
    {l \in {LinkOf(tag, w) : w \in ChainsFrom(graph, tag)} :
        ~ \E k \in links : Key(k) = Key(l)}

\* One item of the frontier. Of two new connections with one key the first
\* chain walked stays.
ExpandItem(tag) ==
    /\ tag \in frontier /\ hopsLeft > 0
    /\ frontier' = frontier \ {tag}
    /\ \E kept \in SUBSET NewLinks(tag) :
        /\ \A l \in NewLinks(tag) : \E k \in kept : Key(k) = Key(l)
        /\ \A k, l \in kept : Key(k) = Key(l) => k = l
        /\ links' = links \cup kept
        /\ LET ends == UNION {{l.from, l.to} \ {tag} : l \in kept}
           IN  /\ role' = [t \in DOMAIN role \cup ends |->
                              IF t \in DOMAIN role THEN role[t] ELSE RoleOf(t)]
               /\ upcoming' = upcoming \cup {t \in ends : RoleOf(t) = "neighbor"}
    /\ UNCHANGED <<graph, hopsLeft>>

\* Members are not expanded again.
NextHop ==
    /\ frontier = {} /\ hopsLeft > 0
    /\ hopsLeft' = hopsLeft - 1
    /\ frontier' = IF hopsLeft = 1 THEN {}
                   ELSE {t \in upcoming : role[t] = "neighbor"}
    /\ upcoming' = {}
    /\ UNCHANGED <<graph, role, links>>

ViewNext == (\E tag \in frontier : ExpandItem(tag)) \/ NextHop

Shown == frontier = {} /\ hopsLeft = 0 /\ role # <<>>

----------------------------------------------------------------------------
\* The tags a flow over verified edges gets to from tag a, through the in-line
\* components in via only.
VerifiedWay(a, b, via) ==
    LET step(S) == {e.dst : e \in {f \in graph.edges : f.known /\ f.src \in S}}
        along[n \in Nat] ==
            IF n = 0 THEN {a} ELSE
            LET so == along[n-1]
            IN  so \cup (step(so \cap (via \cup {a})) \cap (via \cup {b}))
    IN  b \in along[Cardinality(via) + 1]

\* Items are joined when edges lead from one to the other through in-line
\* components only.
Joined(a, b) ==
    LET inl == {t \in DOMAIN graph.type : graph.type[t] \in Inline}
        around(S) == UNION {{e.src, e.dst} : e \in
                        {f \in graph.edges : {f.src, f.dst} \cap S # {}}}
        along[n \in Nat] ==
            IF n = 0 THEN {a} ELSE
            LET so == along[n-1]
            IN  so \cup (around(so \cap (inl \cup {a})) \cap (inl \cup {b}))
    IN  b \in along[Cardinality(inl) + 1]

\* A direction the view states is one the graph verifies, hop by hop through
\* the components it names; every item the piping joins to a member is in the
\* view, with a connection to that member; and a verified flow at a member is
\* not lost to the flow against it or to one through other components, only
\* ever to an unverified connection through the same ones (the docstring's
\* "direction honesty" and the comment on anti-parallel pairs).
ViewIsHonest ==
    Shown =>
        /\ \A l \in links : l.known => VerifiedWay(l.from, l.to, l.via)
        /\ \A m \in {t \in DOMAIN role : role[t] = "member"}, o \in Majors(graph) :
              m # o /\ m \in Majors(graph) /\ Joined(m, o) =>
                  /\ o \in DOMAIN role
                  /\ \E l \in links : {l.from, l.to} = {m, o}
                  /\ \A w \in {x \in ChainsFrom(graph, m) : x.end = o} :
                        ChainDirection(w.chain, m) # "unknown" =>
                            \/ LinkOf(m, w) \in links
                            \/ [LinkOf(m, w) EXCEPT !.from = m, !.to = o,
                                                    !.known = FALSE] \in links
                            \/ [LinkOf(m, w) EXCEPT !.from = o, !.to = m,
                                                    !.known = FALSE] \in links
=============================================================================
