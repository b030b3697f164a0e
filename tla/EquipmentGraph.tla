--------------------------- MODULE EquipmentGraph ---------------------------
(* The adapter of stage 2 (hazop/s2_pml/adapter.py): it contracts the piping *)
(* of a drawing to edges between terminals (equipment, valves, instruments,  *)
(* off-page connectors), gives an edge a direction where every vote on its   *)
(* path agrees, and then forces directions through pass-through items until  *)
(* nothing changes.                                                          *)
(*                                                                           *)
(* Element ids are numbered in the order of terminal_of. Line numbers,       *)
(* names, sheets and statistics are left out.                                *)
EXTENDS Integers, Sequences, FiniteSets, SequencesExt

CONSTANT Drawings  \* [elems : id -> element, segs : Seq([from, to, flow])]

VARIABLES drawing,
          phase,   \* "contract", "force", "built" or, once used, "handed over"
          todo,    \* terminals whose search has not begun
          start,   \* the terminal searched from
          seen,
          stack,   \* the search frontier: geometry to expand, with its votes
          found,   \* the buckets: per pair of tags the direction classes met
          edges    \* the equipment-level edges

graphVars == <<drawing, phase, todo, start, seen, stack, found, edges>>

None == 0

\* Elements are numbered, labels and parents are numbers, and segments join
\* elements.
ASSUME DrawingsAssumption ==
    \A d \in Drawings :
        /\ IsFiniteSet(DOMAIN d.elems) /\ DOMAIN d.elems \subseteq Nat \ {None}
        /\ \A i \in DOMAIN d.elems :
              d.elems[i].label \in Nat /\ d.elems[i].parent \in DOMAIN d.elems \cup {None}
        /\ d.segs \in Seq([from : DOMAIN d.elems, to : DOMAIN d.elems, flow : {-1, 0, 1}])

\* TYPE_BY_LETTER; a tag of another form or no tag means vessel.
TypeByLetter(letter) ==
    CASE letter \in {"K", "C", "PK"} -> "compressor"
      [] letter = "T" -> "tank"
      [] letter = "P" -> "pump"
      [] letter = "E" -> "heat_exchanger"
      [] OTHER -> "vessel"

\* An element of the drawing with a tag of its own; without a tag name it is
\* called after its id.
OwnTag(i) == IF drawing.elems[i].label = None THEN 100 + i
                                              ELSE drawing.elems[i].label

\* terminal_of: the tag an element stands for. A nozzle stands for its
\* equipment; a piping node, or a nozzle of no equipment, is geometry.
TagOf(i) ==
    LET e == drawing.elems[i] IN
    CASE e.class = "PipingNode" -> None
      [] e.class = "Nozzle" -> IF e.parent = None THEN None ELSE OwnTag(e.parent)
      [] OTHER -> OwnTag(i)

Terminals == {i \in DOMAIN drawing.elems : TagOf(i) # None}
Tags == {TagOf(i) : i \in Terminals}

\* add_node: the first element of a tag gives it its type; equipment comes
\* first.
TypeOf(tag) ==
    LET elems    == {drawing.elems[i] : i \in {j \in Terminals :
                        TagOf(j) = tag /\ drawing.elems[j].class # "Nozzle"}}
        ofClass(c) == \E e \in elems : e.class = c
    IN  IF ofClass("Equipment")
             THEN TypeByLetter((CHOOSE e \in elems : e.class = "Equipment").letter)
        ELSE IF ofClass("CheckValve") THEN "check_valve"
        ELSE IF ofClass("SafetyValve") THEN "relief_valve"
        ELSE IF ofClass("Valve") THEN "valve"
        ELSE IF ofClass("Instrument") THEN "instrument"
        ELSE "line"

\* adj: the hops out of an element, in the order of the segments; vote 1 goes
\* with the segment's flow direction, -1 against it, 0 is no vote.
HopsFrom(i) ==
    LET hops(seg) ==
            (IF seg.from = i THEN <<[to |-> seg.to, vote |-> seg.flow]>> ELSE <<>>)
            \o (IF seg.to = i THEN <<[to |-> seg.from, vote |-> -seg.flow]>> ELSE <<>>)
    IN  FlattenSeq([k \in DOMAIN drawing.segs |-> hops(drawing.segs[k])])

Sorted(a, b) == IF a < b THEN <<a, b>> ELSE <<b, a>>

\* Mutant of Bucket: the last vote of the path decides.
BucketLastVote(a, b, votes) ==
    CASE 1 \in votes -> [src |-> a, dst |-> b, class |-> "directed"]
      [] votes = {-1} -> [src |-> b, dst |-> a, class |-> "directed"]
      [] OTHER -> [src |-> Sorted(a, b)[1], dst |-> Sorted(a, b)[2],
                   class |-> "none"]

\* The class of a path from tag a to tag b with these votes.
Bucket(a, b, votes) ==
    CASE votes = {1} -> [src |-> a, dst |-> b, class |-> "directed"]
      [] votes = {-1} -> [src |-> b, dst |-> a, class |-> "directed"]
      [] OTHER -> [src |-> Sorted(a, b)[1], dst |-> Sorted(a, b)[2],
                   class |-> IF votes = {} THEN "none" ELSE "branch"]

Init ==
    /\ drawing \in Drawings
    /\ phase = "contract"
    /\ todo = Terminals
    /\ start = None
    /\ seen = {}
    /\ stack = <<>>
    /\ found = {}
    /\ edges = {}

Start ==
    /\ phase = "contract" /\ stack = <<>> /\ todo # {}
    /\ start' = Min(todo)
    /\ todo' = todo \ {start'}
    /\ seen' = {start'}
    /\ stack' = <<[at |-> start', votes |-> {}]>>
    /\ UNCHANGED <<drawing, phase, found, edges>>

\* One hop out of the popped entry cur, unless its end was touched before:
\* geometry is searched on, another tag closes a path.
Touch(cur, search, hop) ==
    LET other == TagOf(hop.to)
        votes == cur.votes \cup ({hop.vote} \ {0})
    IN  IF hop.to \in search.seen THEN search ELSE
        [seen  |-> search.seen \cup {hop.to},
         stack |-> IF other = None
                   THEN Append(search.stack, [at |-> hop.to, votes |-> votes])
                   ELSE search.stack,
         found |-> IF other \in {None, TagOf(start)} THEN search.found
                   ELSE search.found \cup {Bucket(TagOf(start), other, votes)}]

Expand ==
    /\ phase = "contract" /\ stack # <<>>
    /\ LET cur == Last(stack)
           end == FoldLeft(LAMBDA search, hop : Touch(cur, search, hop),
                           [seen |-> seen, stack |-> Front(stack), found |-> found],
                           HopsFrom(cur.at))
       IN  seen' = end.seen /\ stack' = end.stack /\ found' = end.found
    /\ UNCHANGED <<drawing, phase, todo, start, edges>>

\* edge_list: the directed classes of a pair each become a known edge; a pair
\* without one becomes an edge in sorted order of unknown direction, noted when
\* a path crosses a divergence.
EdgeOf(a, b, known, noThrough) ==
    [src |-> a, dst |-> b, known |-> known, noThrough |-> noThrough,
     forced |-> FALSE]

EmittedEdges ==
    LET directed == {f \in found : f.class = "directed"}
        settled  == {{f.src, f.dst} : f \in directed}
        loose    == {f \in found : {f.src, f.dst} \notin settled}
        noted(f) == \E g \in loose : /\ g.src = f.src /\ g.dst = f.dst
                                     /\ g.class = "branch"
    IN  {EdgeOf(f.src, f.dst, TRUE, FALSE) : f \in directed}
        \cup {EdgeOf(f.src, f.dst, FALSE, noted(f)) : f \in loose}

Emit ==
    /\ phase = "contract" /\ stack = <<>> /\ todo = {}
    /\ edges' = EmittedEdges
    /\ phase' = "force"
    /\ UNCHANGED <<drawing, todo, start, seen, stack, found>>

----------------------------------------------------------------------------
OtherEnd(e, tag) == IF e.src = tag THEN e.dst ELSE e.src

\* _PASSTHROUGH_TYPES
PassesThrough(tag) ==
    TypeOf(tag) \in {"valve", "check_valve", "relief_valve", "line"}

\* The connections of a tag that carry flow: instrument taps do not count.
Process(tag, es) == {e \in es : /\ tag \in {e.src, e.dst}
                                /\ TypeOf(OtherEnd(e, tag)) # "instrument"}

\* Mutant of Forceable: a pair without through-flow is forced as well.
ForceableNoted(tag, k, u) ==
    /\ PassesThrough(tag)
    /\ Process(tag, edges) = {k, u}
    /\ k.known
    /\ ~u.known

Forceable(tag, k, u) ==
    /\ PassesThrough(tag)
    /\ Process(tag, edges) = {k, u}
    /\ k.known
    /\ ~u.known /\ ~u.noThrough

\* What enters a pass-through item on its known side leaves on the other.
ForceThrough(tag) ==
    /\ phase = "force"
    /\ \E k, u \in edges :
        /\ Forceable(tag, k, u)
        /\ LET other == OtherEnd(u, tag)
               enters == k.dst = tag
           IN  edges' = (edges \ {u}) \cup
                   {[u EXCEPT !.src = IF enters THEN tag ELSE other,
                              !.dst = IF enters THEN other ELSE tag,
                              !.known = TRUE, !.forced = TRUE]}
    /\ UNCHANGED <<drawing, phase, todo, start, seen, stack, found>>

\* A pass of the loop that changes nothing ends it.
Settled ==
    /\ phase = "force"
    /\ ~ \E tag \in Tags, k, u \in edges : Forceable(tag, k, u)
    /\ phase' = "built"
    /\ UNCHANGED <<drawing, todo, start, seen, stack, found, edges>>

Next == Start \/ Expand \/ Emit \/ (\E tag \in Tags : ForceThrough(tag)) \/ Settled

Spec == Init /\ [][Next]_graphVars

----------------------------------------------------------------------------
\* Where a search from id i gets to through geometry, taking only hops whose
\* vote is allowed: pairs of an id and whether a vote was cast on the way.
Walk(i, allowed) ==
    LET limit == 2 * Cardinality(DOMAIN drawing.elems)
        along[n \in 0..limit] ==
            IF n = 0 THEN {<<i, FALSE>>} ELSE
            LET so == along[n-1]
            IN  so \cup
                UNION {{<<h.to, s[2] \/ h.vote # 0>> :
                           h \in {g \in ToSet(HopsFrom(s[1])) : g.vote \in allowed}} :
                       s \in {t \in so : t[1] = i \/ TagOf(t[1]) = None}}
    IN  along[limit]

\* Some path of the drawing joins tag a to tag b over hops with allowed votes,
\* with a vote on it or not.
Joins(a, b, allowed, voted) ==
    \E i, j \in Terminals : /\ TagOf(i) = a /\ TagOf(j) = b
                            /\ \E v \in voted : <<j, v>> \in Walk(i, allowed)

\* Every pair of items the piping joins is an edge and nothing else is; an edge
\* read from the drawing has a direction only where a path between its items
\* carries votes that way and none the other (build_equipment_graph).
EdgesAreDrawn ==
    phase = "built" =>
        /\ \A a, b \in Tags : a # b =>
              (Joins(a, b, {-1, 0, 1}, BOOLEAN) <=>
                 \E e \in edges : {e.src, e.dst} = {a, b})
        /\ \A e \in edges : e.known /\ ~e.forced =>
              Joins(e.src, e.dst, {0, 1}, {TRUE})
        /\ \A e \in edges : ~e.known /\ ~e.noThrough =>
              Joins(e.src, e.dst, {0}, {FALSE})

\* Every way to direct the edges the drawing leaves open.
Completions ==
    LET open == {e \in EmittedEdges : ~e.known /\ ~e.noThrough}
    IN  {(EmittedEdges \ open)
           \cup {IF e \in turned THEN [e EXCEPT !.src = e.dst, !.dst = e.src,
                                                !.known = TRUE]
                                 ELSE [e EXCEPT !.known = TRUE] : e \in open} :
         turned \in SUBSET open}

\* What enters each pass-through item with two sides leaves it.
Conserves(es) ==
    \A tag \in Tags :
        LET p == Process(tag, es) IN
        PassesThrough(tag) /\ Cardinality(p) = 2 /\ (\A e \in p : e.known) =>
            \E e, f \in p : e.dst = tag /\ f.src = tag

\* A direction is forced exactly where the drawing and the conservation of flow
\* leave no other, whatever order the items were looked at in: of the edges
\* the drawing leaves open, those are known in the end that every conserving
\* completion directs the same way (_passthrough_pass).
ForcedIsImplied ==
    LET sound == {c \in Completions : Conserves(c)}
        runs(c, a, b) == \E f \in c : f.known /\ f.src = a /\ f.dst = b
    IN  phase = "built" /\ sound # {} =>
            \A e \in edges :
                e.forced \/ ~(e.known \/ e.noThrough) =>
                    (e.forced <=> \/ \A c \in sound : runs(c, e.src, e.dst)
                                 \/ \A c \in sound : runs(c, e.dst, e.src))
                    /\ (e.forced => \A c \in sound : runs(c, e.src, e.dst))
=============================================================================
