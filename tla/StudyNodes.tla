----------------------------- MODULE StudyNodes -----------------------------
(* The proposal of HAZOP study nodes over the folded equipment graph, and   *)
(* its redefinition by the facilitator (hazop/s2_pml/nodes.py,              *)
(* propose_nodes, merge_nodes, move_member).                                *)
(*                                                                          *)
(* A node is called after the least member it was proposed with; its        *)
(* description, its rationale texts and the statistics are left out. The    *)
(* code visits tags in sorted order; here in any order.                     *)
EXTENDS Integers, Sequences, FiniteSets

CONSTANT MaxRedefinitions  \* bound: redefinitions of one proposal

VARIABLES type,      \* equipment type of each folded item
          flow,      \* flow[a][b]: the relation of b seen from a
          stage,     \* "idle", "group", "train", "attach" or "proposed"
          clusters,  \* the partition the union-find structure stands for
          nodes,     \* node id -> [members, boundaries, status]
          original,  \* members of each node as proposed
          log        \* redefinitions: the ids each one names

studyVars == <<type, flow, stage, clusters, nodes, original, log>>

\* _BREAK_KIND and _UNIT_BOUNDARY_TYPES
Breaking == {"compressor", "pump", "heat_exchanger"}
UnitBoundary == {"line"}

Neighbors(t) == {o \in DOMAIN flow[t] : flow[t][o] # "none"}

\* Candidates with a neighbor; the others are reported as unassigned.
ActiveIn(types, flows) ==
    {t \in DOMAIN flows : /\ types[t] \notin UnitBoundary
                          /\ \E o \in DOMAIN flows : flows[t][o] # "none"}
Active == ActiveIn(type, flow)
Sections == {t \in Active : type[t] \notin Breaking}
Breaks == Active \ Sections

Cluster(t) == CHOOSE c \in clusters : t \in c
HasSection(t) == Cluster(t) \cap Sections # {}

Union(a, b) ==
    (clusters \ {Cluster(a), Cluster(b)}) \cup {Cluster(a) \cup Cluster(b)}

StudyInit ==
    /\ type = <<>> /\ flow = <<>>
    /\ stage = "idle"
    /\ clusters = {}
    /\ nodes = <<>> /\ original = <<>> /\ log = <<>>

\* propose_nodes is called on a graph.
Study(types, flows) ==
    /\ stage = "idle"
    /\ type' = types
    /\ flow' = flows
    /\ clusters' = {{t} : t \in ActiveIn(types, flows)}
    /\ stage' = "group"
    /\ UNCHANGED <<nodes, original, log>>

\* Rule G: sections that are neighbors share their design intent.
Group(a, b) ==
    /\ stage = "group"
    /\ {a, b} \subseteq Sections /\ b \in Neighbors(a)
    /\ Cluster(a) # Cluster(b)
    /\ clusters' = Union(a, b)
    /\ UNCHANGED <<type, flow, stage, nodes, original, log>>

\* Rule M: breaks with verified flow both ways are one machine train.
Train(a, b) ==
    /\ stage = "train"
    /\ {a, b} \subseteq Breaks /\ flow[a][b] = "both"
    /\ Cluster(a) # Cluster(b)
    /\ clusters' = Union(a, b)
    /\ UNCHANGED <<type, flow, stage, nodes, original, log>>

\* The verified feeds of a break that belong to a section by now.
Suction(m) ==
    {o \in Active : /\ flow[m][o] = "in"
                    /\ Cluster(o) # Cluster(m) /\ HasSection(o)}

\* Mutant of Attach: a break whose cluster has a section is attached again.
AttachAgain(m, o) ==
    /\ stage = "attach"
    /\ m \in Breaks
    /\ o \in Suction(m)
    /\ clusters' = Union(o, m)
    /\ UNCHANGED <<type, flow, stage, nodes, original, log>>

\* Rules P and X: a break joins the section that feeds it, once.
Attach(m, o) ==
    /\ stage = "attach"
    /\ m \in Breaks /\ ~HasSection(m)
    /\ o \in Suction(m)
    /\ clusters' = Union(o, m)
    /\ UNCHANGED <<type, flow, stage, nodes, original, log>>

\* No two members of a cluster pair are left for the rule of this stage.
NoneLeft ==
    CASE stage = "group" -> \A a, b \in Sections :
             b \in Neighbors(a) => Cluster(a) = Cluster(b)
      [] stage = "train" -> \A a, b \in Breaks :
             flow[a][b] = "both" => Cluster(a) = Cluster(b)
      [] stage = "attach" -> \A m \in Breaks : HasSection(m) \/ Suction(m) = {}
      [] OTHER -> FALSE

NextRule ==
    /\ stage \in {"group", "train"} /\ NoneLeft
    /\ stage' = IF stage = "group" THEN "train" ELSE "attach"
    /\ UNCHANGED <<type, flow, clusters, nodes, original, log>>

Least(S) == CHOOSE x \in S : \A y \in S : x <= y

\* _boundaries_for
BoundariesFor(members) ==
    {[tag |-> o, at |-> m, flow |-> flow[m][o]] :
        m \in members, o \in (DOMAIN flow) \ members}
    \ {[tag |-> o, at |-> m, flow |-> "none"] : m \in members, o \in DOMAIN flow}

Publish ==
    /\ stage = "attach" /\ NoneLeft
    /\ stage' = "proposed"
    /\ LET ids == {Least(c) : c \in clusters} IN
       /\ nodes' = [i \in ids |-> [members |-> Cluster(i),
                                   boundaries |-> BoundariesFor(Cluster(i)),
                                   status |-> "proposed"]]
       /\ original' = [i \in ids |-> Cluster(i)]
    /\ UNCHANGED <<type, flow, clusters, log>>

\* _rebuild_node
Rebuilt(members) == [members |-> members, boundaries |-> BoundariesFor(members),
                     status |-> "redefined"]

\* Mutant of Merge: the first node's own members are not taken along.
MergeForgets(keep, gone) ==
    /\ stage = "proposed" /\ Len(log) < MaxRedefinitions
    /\ keep \in DOMAIN nodes
    /\ gone \subseteq DOMAIN nodes /\ gone # {}
    /\ nodes' = [i \in DOMAIN nodes \ gone |->
            IF i # keep THEN nodes[i] ELSE
            Rebuilt(UNION {nodes[j].members : j \in gone})]
    /\ log' = Append(log, [into |-> keep, from |-> gone])
    /\ UNCHANGED <<type, flow, stage, clusters, original>>

\* merge_nodes: the first id given absorbs the others. Given again among them it
\* is taken out with them, and what is rebuilt is no node of the new proposal.
\* Another id given twice raises, and the new proposal is never returned.
Merge(keep, gone) ==
    /\ stage = "proposed" /\ Len(log) < MaxRedefinitions
    /\ keep \in DOMAIN nodes
    /\ gone \subseteq DOMAIN nodes /\ gone # {}
    /\ nodes' = [i \in DOMAIN nodes \ gone |->
            IF i # keep THEN nodes[i] ELSE
            Rebuilt(UNION {nodes[j].members : j \in gone \cup {keep}})]
    /\ log' = Append(log, [into |-> keep, from |-> gone])
    /\ UNCHANGED <<type, flow, stage, clusters, original>>

\* Mutant of Move: the node the item leaves is not rebuilt, only dropped when
\* it is empty.
MoveCopies(tag, to) ==
    /\ stage = "proposed" /\ Len(log) < MaxRedefinitions
    /\ to \in DOMAIN nodes
    /\ \E from \in DOMAIN nodes \ {to} :
        /\ tag \in nodes[from].members
        /\ LET rest == nodes[from].members \ {tag} IN
           nodes' = [i \in DOMAIN nodes \ (IF rest = {} THEN {from} ELSE {}) |->
                IF i = to THEN Rebuilt(nodes[to].members \cup {tag}) ELSE nodes[i]]
        /\ log' = Append(log, [into |-> to, from |-> {from}])
    /\ UNCHANGED <<type, flow, stage, clusters, original>>

\* move_member: both nodes are rebuilt, the one left empty is dropped.
Move(tag, to) ==
    /\ stage = "proposed" /\ Len(log) < MaxRedefinitions
    /\ to \in DOMAIN nodes
    /\ \E from \in DOMAIN nodes \ {to} :
        /\ tag \in nodes[from].members
        /\ LET rest == nodes[from].members \ {tag} IN
           nodes' = [i \in DOMAIN nodes \ (IF rest = {} THEN {from} ELSE {}) |->
                CASE i = to -> Rebuilt(nodes[to].members \cup {tag})
                  [] i = from -> Rebuilt(rest)
                  [] OTHER -> nodes[i]]
        /\ log' = Append(log, [into |-> to, from |-> {from}])
    /\ UNCHANGED <<type, flow, stage, clusters, original>>

Propose ==
    \/ \E a, b \in Active : Group(a, b) \/ Train(a, b) \/ Attach(a, b)
    \/ NextRule
    \/ Publish

Redefine ==
    \/ \E keep \in DOMAIN nodes, gone \in SUBSET DOMAIN nodes : Merge(keep, gone)
    \/ \E tag \in Active, to \in DOMAIN nodes : Move(tag, to)

----------------------------------------------------------------------------
Held == UNION {nodes[i].members : i \in DOMAIN nodes}

\* The latest redefinition is a merge that named its kept node again.
MergedIntoItself == \E k \in {Len(log)} \cap DOMAIN log : log[k].into \in log[k].from

\* Through every redefinition no item is in two nodes; each that can be studied is
\* in one, as long as no merge named its kept node again; no node is empty, and a
\* node's boundaries are those of its present members (propose_nodes,
\* merge_nodes, move_member).
EquipmentIsStudiedOnce ==
    stage = "proposed" =>
        /\ \A i, j \in DOMAIN nodes :
              nodes[i].members \cap nodes[j].members # {} => i = j
        /\ (\A k \in DOMAIN log : log[k].into \notin log[k].from) => Active \subseteq Held
        /\ \A i \in DOMAIN nodes :
              /\ nodes[i].members # {} /\ nodes[i].members \subseteq Active
              /\ nodes[i].boundaries = BoundariesFor(nodes[i].members)

\* What this step takes out of study was in a node that a merge, naming its kept
\* node again, has named.
LossIsNamed ==
    \A t \in Held \ Held' :
        /\ MergedIntoItself'
        /\ \E i \in log'[Len(log')].from : t \in nodes[i].members

\* No redefinition takes an item out of study, but for a merge that names its
\* kept node again, and that one takes out no more than the nodes it names held
\* (merge_nodes, move_member).
OnlySuchMergesLose == [][LossIsNamed]_studyVars

\* Members are held together by neighborhood of sections alone: no part of the
\* sections among them is cut off from the rest.
OneSection(members) ==
    \A part \in SUBSET (members \cap Sections) :
        part # {} /\ part # members \cap Sections =>
            \E a \in part, b \in (members \cap Sections) \ part :
                b \in Neighbors(a) \/ a \in Neighbors(b)

\* A break that stands in a node with sections was fed, itself or its train,
\* over a verified connection from within the node.
FedFromWithin(members) ==
    members \cap Sections # {} =>
        \A m \in members \cap Breaks :
            \E c \in members \cap Breaks, o \in members :
                /\ flow[c][o] = "in"
                /\ c = m \/ \E S \in SUBSET (members \cap Breaks) :
                        /\ {c, m} \subseteq S
                        /\ \A part \in SUBSET S : part \notin {{}, S} =>
                              \E x \in part, y \in S \ part :
                                  "both" \in {flow[x][y], flow[y][x]}

\* What the facilitator did not touch is as it was proposed, and there no pump,
\* compressor or exchanger joins two sections, nor stands in one that does not
\* feed it (Rules P, X and M; AR-1: proposed and redefined stay apart).
ProposalsFollowTheRules ==
    stage = "proposed" =>
        \A i \in DOMAIN nodes :
            /\ nodes[i].status = "proposed" =>
                  /\ nodes[i].members = original[i]
                  /\ OneSection(nodes[i].members)
                  /\ FedFromWithin(nodes[i].members)
            /\ nodes[i].status = "redefined" =>
                  \E k \in DOMAIN log : i = log[k].into \/ i \in log[k].from
=============================================================================
