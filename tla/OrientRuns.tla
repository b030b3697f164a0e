----------------------------- MODULE OrientRuns -----------------------------
(***************************************************************************)
(* orient_runs of s1_dim/assemble_graph.py: the flow directions of the     *)
(* pipe runs of one drawing page.  Seeds come first, in four stages        *)
(* (arrows, check valves, connector texts, safety valves); a seed is only  *)
(* taken by a run that has no direction yet.  Then two inferences          *)
(* alternate until neither adds anything: a direction passes straight      *)
(* through a node with one other branch, and a branching junction whose    *)
(* directed branches all point one way turns its one undirected branch the *)
(* other way.                                                              *)
(*                                                                         *)
(* What the geometry says (which run an arrow lies on, from which side a   *)
(* run meets a valve) is an input: a seed asks for any direction its stage *)
(* can ask for.  Every end of a run is a node of the page.  The frontier   *)
(* (a list used as a stack) and the order in which a pass visits the nodes *)
(* (that of a dict) are left open, so what holds here holds for every      *)
(* order.                                                                  *)
(***************************************************************************)
EXTENDS Naturals, FiniteSets

VARIABLES
  page,        \* ends: the two nodes of each solid pipe run; kind, of each node;
               \* short: the runs of length < 8; seeds: bound on the seeding steps
  stage,       \* where orient_runs is
  seeded,      \* seeding steps taken
  asked,       \* for each run, the directions seeds asked for
  direction,   \* r["direction"]
  source,      \* r["direction_source"]
  conflict,    \* the runs with direction_conflict
  frontier,    \* runs whose direction is still to be passed on
  unvisited,   \* nodes the current conservation pass has not looked at
  newly        \* runs the current conservation pass has directed

seedVars == <<seeded, asked>>
orientVars == <<page, seedVars, stage, direction, source, conflict, frontier,
                unvisited, newly>>

Dirs   == {"ab", "ba"}
Stages == <<"arrow", "check-valve", "connector", "psv">>
Sources == {"arrow", "check-valve", "connector", "psv", "propagated", "conservation"}

-----------------------------------------------------------------------------
(* The page as orient_runs reads it.                                       *)

Runs  == DOMAIN page.ends
Nodes == DOMAIN page.kind

Ends(r)     == {page.ends[r].a, page.ends[r].b}
Incident(n) == {r \in Runs : n \in Ends(r)}
Far(r, n)   == IF page.ends[r].a = n THEN page.ends[r].b ELSE page.ends[r].a

Downstream(d, r) == IF d = "ab" THEN page.ends[r].b ELSE page.ends[r].a
Upstream(d, r)   == IF d = "ab" THEN page.ends[r].a ELSE page.ends[r].b

\* The direction in which r carries flow to n, and from n.
Toward(r, n) == IF page.ends[r].a = n THEN "ba" ELSE "ab"
Away(r, n)   == IF page.ends[r].a = n THEN "ab" ELSE "ba"

OfKind(kinds) == {n \in Nodes : page.kind[n] \in kinds}

Ignorable(r, n) ==
  \/ page.kind[Far(r, n)] = "instrument"
  \/ page.kind[Far(r, n)] = "dead-end" /\ r \in page.short

\* The branches some runs make at n, one per far node.
Branches(n, among) ==
  LET real == {r \in among : ~Ignorable(r, n)}
  IN  {{r \in real : Far(r, n) = m} : m \in {Far(r, n) : r \in real}}

\* flow_into: how the directed runs of a branch flow at n, TRUE being inwards.
FlowInto(branch, n) ==
  {Downstream(direction[r], r) = n : r \in {q \in branch : direction[q] # "none"}}

-----------------------------------------------------------------------------
(* Seeds.  A seeding step asks a direction of some runs at once.           *)

\* No page yet.
OrientInit ==
  /\ page = [ends |-> <<>>, kind |-> <<>>, short |-> {}, seeds |-> 0]
  /\ stage = "waiting" /\ seeded = 0
  /\ asked = <<>> /\ direction = <<>> /\ source = <<>>
  /\ conflict = {} /\ frontier = {} /\ newly = {}
  /\ unvisited = {}

\* orient_runs is called for the page p.
Orient(p) ==
  /\ stage = "waiting" /\ stage' = "arrow"
  /\ page' = p
  /\ asked' = [r \in DOMAIN p.ends |-> {}]
  /\ direction' = [r \in DOMAIN p.ends |-> "none"]
  /\ source' = direction'
  /\ unvisited' = DOMAIN p.kind
  /\ UNCHANGED <<seeded, conflict, frontier, newly>>

\* set_dir, for every run of ask.
SetDir(ask, by) ==
  LET fresh == {r \in DOMAIN ask : direction[r] = "none"}
  IN  /\ direction' = [r \in Runs |-> IF r \in fresh THEN ask[r] ELSE direction[r]]
      /\ source' = [r \in Runs |-> IF r \in fresh THEN by ELSE source[r]]
      /\ conflict' = conflict
           \cup {r \in DOMAIN ask \ fresh : direction[r] # ask[r]}

Seed(by, ask) ==
  /\ stage = by /\ seeded < page.seeds
  /\ SetDir(ask, by)
  /\ seeded' = seeded + 1
  /\ asked' = [r \in Runs |->
                 IF r \in DOMAIN ask THEN asked[r] \cup {ask[r]} ELSE asked[r]]
  /\ UNCHANGED <<page, stage, frontier, newly>>

\* A stage looks at a node once.
SeedAt(n, by, ask) ==
  /\ unvisited' = unvisited \ {n}
  /\ Seed(by, ask)

\* An arrow lies on one run.
SeedArrow ==
  /\ \E r \in Runs, d \in Dirs : Seed("arrow", [q \in {r} |-> d])
  /\ UNCHANGED unvisited

\* The marker of a check valve is parallel to some of the valve's runs.
SeedCheckValve ==
  \E n \in OfKind({"valve"}) \cap unvisited : \E S \in SUBSET Incident(n) :
    \E ask \in [S -> Dirs] : SeedAt(n, "check-valve", ask)

\* The text of an off-page connector speaks of every run at its node.
SeedConnector ==
  \E n \in OfKind({"off-page"}) \cap unvisited, to \in BOOLEAN :
    SeedAt(n, "connector", [r \in Incident(n) |->
              IF to THEN Toward(r, n) ELSE Away(r, n)])

\* A safety valve: self loops and instrument leaders are passed over, as are
\* runs that leave upwards.
SeedPsv ==
  \E n \in OfKind({"valve"}) \cap unvisited :
    \E S \in SUBSET {r \in Incident(n) : /\ Far(r, n) # n
                                         /\ page.kind[Far(r, n)] # "instrument"} :
      \E ask \in [S -> Dirs] : SeedAt(n, "psv", ask)

NextStage ==
  \E k \in 1..3 :
    /\ stage = Stages[k] /\ stage' = Stages[k + 1]
    /\ unvisited' = Nodes
    /\ UNCHANGED <<page, seedVars, direction, source, conflict, frontier, newly>>

StartPropagation ==
  /\ stage = "psv" /\ stage' = "propagate"
  /\ frontier' = {r \in Runs : direction[r] # "none"}
  /\ unvisited' = {}
  /\ UNCHANGED <<page, seedVars, direction, source, conflict, newly>>

-----------------------------------------------------------------------------
(* Propagation through nodes with one other branch.                        *)

\* Mutant: carries on over runs that have a direction already.
ContinuesAgain(d, r, n) ==
  LET others == Branches(n, Incident(n) \ {r})
  IN  IF page.kind[n] \in {"valve", "junction", "dead-end"} /\ Cardinality(others) = 1
      THEN UNION others ELSE {}

\* The undirected runs that carry on at n what r brings or takes, with d the
\* directions known so far.
Continues(d, r, n) ==
  LET others == Branches(n, Incident(n) \ {r})
  IN  IF page.kind[n] \in {"valve", "junction", "dead-end"} /\ Cardinality(others) = 1
      THEN {q \in UNION others : d[q] = "none"} ELSE {}

\* One turn of propagate's loop: the downstream end, then the upstream end.
Propagate ==
  /\ stage = "propagate"
  /\ \E r \in frontier :
       LET down   == Downstream(direction[r], r)
           up     == Upstream(direction[r], r)
           after  == Continues(direction, r, down)
           dir1   == [q \in Runs |-> IF q \in after THEN Away(q, down) ELSE direction[q]]
           before == Continues(dir1, r, up)
       IN  /\ direction' = [q \in Runs |-> IF q \in before THEN Toward(q, up) ELSE dir1[q]]
           /\ source' = [q \in Runs |-> IF q \in after \cup before
                                        THEN "propagated" ELSE source[q]]
           /\ frontier' = (frontier \ {r}) \cup after \cup before
  /\ UNCHANGED <<page, seedVars, stage, conflict, unvisited, newly>>

StartPass ==
  /\ stage = "propagate" /\ frontier = {}
  /\ stage' = "conserve" /\ newly' = {}
  /\ unvisited' = OfKind({"junction", "valve"})
  /\ UNCHANGED <<page, seedVars, direction, source, conflict, frontier>>

-----------------------------------------------------------------------------
(* Conservation at branching junctions.                                    *)

\* Mutant: concludes although the known branches differ.
OwedDespiteMixed(n) ==
  LET branches == Branches(n, Incident(n))
      unknown  == {b \in branches : FlowInto(b, n) = {}}
  IN  IF Cardinality(branches) >= 3 /\ Cardinality(unknown) = 1
      THEN [q \in UNION unknown |-> Away(q, n)]
      ELSE [q \in {} |-> "none"]

\* What n owes: the runs of its one undirected branch with the direction that
\* balances the others; empty when nothing can be concluded.
Owed(n) ==
  LET branches == Branches(n, Incident(n))
      unknown  == {b \in branches : FlowInto(b, n) = {}}
      statuses == UNION {FlowInto(b, n) : b \in branches}
  IN  IF /\ Cardinality(branches) >= 3
         /\ Cardinality(unknown) = 1
         /\ Cardinality(statuses) = 1
      THEN [q \in UNION unknown |->
              IF statuses = {TRUE} THEN Away(q, n)
              ELSE IF page.ends[q].b = n THEN "ab" ELSE "ba"]
      ELSE [q \in {} |-> "none"]

Conserve ==
  /\ stage = "conserve"
  /\ \E n \in unvisited :
       /\ SetDir(Owed(n), "conservation")
       /\ newly' = newly \cup DOMAIN Owed(n)
       /\ unvisited' = unvisited \ {n}
  /\ UNCHANGED <<page, seedVars, stage, frontier>>

EndPass ==
  /\ stage = "conserve" /\ unvisited = {}
  /\ stage' = IF newly = {} THEN "done" ELSE "propagate"
  /\ frontier' = newly
  /\ UNCHANGED <<page, seedVars, direction, source, conflict, unvisited, newly>>

SeedStep == SeedArrow \/ SeedCheckValve \/ SeedConnector \/ SeedPsv
Step == NextStage \/ StartPropagation \/ Propagate \/ StartPass \/ Conserve \/ EndPass

-----------------------------------------------------------------------------
(* Properties                                                              *)

(* Every variable has its type.                                            *)
TypeOK ==
  /\ stage \in {Stages[k] : k \in 1..4} \cup {"waiting", "propagate", "conserve", "done"}
  /\ seeded \in 0..page.seeds
  /\ asked \in [Runs -> SUBSET Dirs]
  /\ direction \in [Runs -> Dirs \cup {"none"}]
  /\ source \in [Runs -> Sources \cup {"none"}]
  /\ {conflict, frontier, newly} \subseteq SUBSET Runs
  /\ unvisited \subseteq Nodes

(* No inference overrides a seed: a run some seed asked about has a        *)
(* direction a seed asked for, and the runs flagged direction_conflict are *)
(* exactly those two seeds disagree about.  They keep the direction of the *)
(* first, though the docstring leaves them without one: see                *)
(* ConflictsAreUndirected.                                                 *)
SeedsStand ==
  /\ \A r \in Runs : asked[r] # {} => direction[r] \in asked[r]
  /\ conflict = {r \in Runs : asked[r] = Dirs}

(* The docstring of orient_runs: a run that two seeds disagree about gets  *)
(* no direction and is flagged.                                            *)
ConflictsAreUndirected ==
  stage = "done" =>
    \A r \in Runs : asked[r] = Dirs => direction[r] = "none" /\ r \in conflict

(* The comments in propagate and on conservation: twin runs, between the   *)
(* same two nodes, are one physical branch, so that no inference gives one *)
(* twin the direction against the other; where they disagree a flag says   *)
(* so.  Twins that two seeds direct are left out.                          *)
TwinsFlowTogether ==
  stage = "done" =>
    \A q, r \in Runs :
      /\ Cardinality(Ends(q)) = 2 /\ Ends(q) = Ends(r)
      /\ "none" \notin {direction[q], direction[r]}
      /\ {q, r} \cap conflict = {} /\ {} \in {asked[q], asked[r]}
      => Downstream(direction[q], q) = Downstream(direction[r], r)

\* r carries on through n what q brings to n or takes from it.
CarriesOn(r, q, n) ==
  /\ page.kind[n] \in {"valve", "junction", "dead-end"}
  /\ direction[q] # "none"
  /\ \E b \in Branches(n, Incident(n) \ {q}) :
       r \in b /\ Branches(n, Incident(n) \ {q}) = {b}
  /\ \/ Downstream(direction[q], q) = n /\ Upstream(direction[r], r) = n
     \/ Upstream(direction[q], q) = n /\ Downstream(direction[r], r) = n

\* r is the only branch at n that flows against all the others.
Balances(r, n) ==
  /\ page.kind[n] \in {"junction", "valve"}
  /\ Cardinality(Branches(n, Incident(n))) >= 3
  /\ \A b \in Branches(n, Incident(n)) :
       r \notin b => FlowInto({r}, n) # FlowInto(b, n) /\ FlowInto(b, n) # {}

\* A direction nobody drew carries a directed run through a node with no other
\* branch, or balances a junction whose other branches are all known.  The
\* spring tick of a valve, a run from the valve to itself, is left out: it
\* counts as a branch and is given a direction that balances nothing.
NothingIsGuessed ==
  \A r \in {q \in Runs : Cardinality(Ends(q)) = 2} :
    /\ source[r] = "propagated" =>
         \E n \in Ends(r) : \E q \in Incident(n) \ {r} : CarriesOn(r, q, n)
    /\ source[r] = "conservation" => \E n \in Ends(r) : Balances(r, n)

\* Neither inference has anything left to say.
NothingLeftToInfer ==
  /\ \A r \in Runs : direction[r] # "none" =>
       \A n \in Ends(r) : Continues(direction, r, n) = {}
  /\ \A n \in OfKind({"junction", "valve"}) : DOMAIN Owed(n) = {}

(* What was drawn stands; a direction nobody drew is one the neighbourhood *)
(* forces, so the order in which runs and nodes are looked at never leaves *)
(* a guess behind; and when orient_runs returns both inferences are        *)
(* exhausted, though each run is put on the frontier once only.  What the  *)
(* docstring and the comments say beyond that, of runs two seeds disagree  *)
(* about and of twins, is ConflictsAreUndirected and TwinsFlowTogether.    *)
OrientationIsJustified ==
  SeedsStand /\ NothingIsGuessed /\ (stage = "done" => NothingLeftToInfer)

(* The two inferences feed each other new work, yet orient_runs returns.   *)
OrientationEnds == <>(stage = "done")
=============================================================================
