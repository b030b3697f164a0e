----------------------------- MODULE PlantProofs ----------------------------
(* Proofs about the plant in the hub: the equipment graph, for every finite *)
(* drawing and any order of the forcing; study nodes, for every equipment    *)
(* graph (any two functions, whose tags are numbers), every order in which   *)
(* the rules are applied to it and every redefinition; the database, for all *)
(* versions of the graph and every way loads break off; questions, for every *)
(* text and whatever a model fills in; and their answers, in memory and in   *)
(* the database, for every graph, every limit and every way loads break off. *)
EXTENDS StudyNodes, GraphQuery, EquipmentGraph, WellFoundedInduction, FiniteSetTheorems, TLAPS

Studied == \E types, flows : DOMAIN flows \subseteq Nat /\ Study(types, flows)

StudyNext == Studied \/ Propose \/ Redefine

StudySpec == StudyInit /\ [][StudyNext]_studyVars

----------------------------------------------------------------------------
(* The partition. Nodes are named by their least tag, so that two clusters   *)
(* never give one name.                                                      *)

Partition(C, S) ==
    /\ UNION C = S
    /\ {} \notin C
    /\ \A c, d \in C : c \cap d # {} => c = d

\* A set of tags has a least one.
LEMMA LeastIn ==
    ASSUME NEW S \in SUBSET Nat, S # {}
    PROVE  Least(S) \in S /\ \A y \in S : Least(S) <= y
<1> DEFINE R == {ss \in Nat \X Nat : ss[1] < ss[2]}
<1>1. OpToRel(<, Nat) = R
  BY DEF OpToRel
<1>2. IsWellFoundedOn(R, Nat)
  BY <1>1, NatLessThanWellFounded, Zenon
<1>3. PICK x \in S : \A y \in S : <<y, x>> \notin R
  <2> HIDE DEF R
  <2>1. QED  BY <1>2, WFMin
<1>4. ASSUME NEW y \in S PROVE x <= y
  <2>1. x \in Nat /\ y \in Nat
    OBVIOUS
  <2>2. y < x => <<y, x>> \in R
    BY <2>1
  <2>3. QED  BY <1>3, <2>1, <2>2
<1>5. \E m \in S : \A y \in S : m <= y
  BY <1>4
<1>6. QED  BY <1>5 DEF Least

\* A tag that can be studied is in one cluster.
LEMMA ClusterOf ==
    ASSUME Partition(clusters, Active), NEW t \in Active
    PROVE  /\ Cluster(t) \in clusters
           /\ t \in Cluster(t)
           /\ Cluster(t) \subseteq Active
           /\ \A c \in clusters : t \in c => c = Cluster(t)
<1>1. \E c \in clusters : t \in c
  BY DEF Partition
<1>2. Cluster(t) \in clusters /\ t \in Cluster(t)
  BY <1>1 DEF Cluster
<1>3. QED  BY <1>2 DEF Partition

\* Joining two clusters leaves a partition.
LEMMA UnionPartition ==
    ASSUME Partition(clusters, Active), NEW a \in Active, NEW b \in Active
    PROVE  Partition(Union(a, b), Active)
<1> DEFINE A == Cluster(a)
           B == Cluster(b)
           C == clusters
           U == (C \ {A, B}) \cup {A \cup B}
<1>1. A \in C /\ B \in C /\ a \in A
  BY ClusterOf
<1>2. U = Union(a, b)
  BY DEF Union
<1>3. /\ UNION C = Active /\ {} \notin C
      /\ \A c, d \in C : c \cap d # {} => c = d
  BY DEF Partition
<1> HIDE DEF A, B, C
<1>4. UNION U = Active
  <2>1. ASSUME NEW t \in Active PROVE \E u \in U : t \in u
    <3>1. PICK c \in C : t \in c
      BY <1>3
    <3>2. c \in U \/ (c \subseteq A \cup B /\ A \cup B \in U)
      OBVIOUS
    <3>3. QED  BY <3>1, <3>2
  <2>2. \A u \in U : u \subseteq Active
    BY <1>1, <1>3
  <2>3. QED  BY <2>1, <2>2
<1>5. {} \notin U
  BY <1>1, <1>3
<1>6. ASSUME NEW c \in U, NEW d \in U, c \cap d # {} PROVE c = d
  <2>1. CASE c = A \cup B /\ d # A \cup B
    <3>1. d \in C /\ d # A /\ d # B
      BY <2>1
    <3>2. d \cap A = {} /\ d \cap B = {}
      BY <1>1, <1>3, <3>1
    <3>3. QED  BY <1>6, <2>1, <3>2
  <2>2. CASE d = A \cup B /\ c # A \cup B
    <3>1. c \in C /\ c # A /\ c # B
      BY <2>2
    <3>2. c \cap A = {} /\ c \cap B = {}
      BY <1>1, <1>3, <3>1
    <3>3. QED  BY <1>6, <2>2, <3>2
  <2>3. CASE c # A \cup B /\ d # A \cup B
    BY <1>3, <1>6, <2>3
  <2>4. QED  BY <2>1, <2>2, <2>3
<1>7. Partition(U, Active)
  BY <1>4, <1>5, <1>6 DEF Partition
<1>8. QED  BY <1>2, <1>7

----------------------------------------------------------------------------
(* The rules. A cluster is always sections held together by neighborhood,    *)
(* machines held together by verified flow both ways, or sections with       *)
(* trains that were fed when they joined.                                    *)

Train2(x, y) == "both" \in {flow[x][y], flow[y][x]}

\* No part of the breaks is cut off from the rest.
OneTrain(S) ==
    \A part \in SUBSET S : part \notin {{}, S} =>
        \E x \in part, y \in S \ part : Train2(x, y)

Sound(c) ==
    /\ c \subseteq Active
    /\ OneSection(c) /\ FedFromWithin(c)
    /\ c \cap Sections = {} => OneTrain(c)

Unmixed(c) == c \subseteq Sections \/ c \cap Sections = {}

\* The node under i is as it was proposed, or the log tells who changed it.
Traced(i) ==
    /\ nodes[i].status = "proposed" =>
          nodes[i].members = original[i] /\ Sound(nodes[i].members)
    /\ nodes[i].status = "redefined" =>
          \E k \in DOMAIN log : i = log[k].into \/ i \in log[k].from

Entries == [into : Nat, from : SUBSET Nat]

Apart ==
    \A i, j \in DOMAIN nodes : nodes[i].members \cap nodes[j].members # {} => i = j

WellMade ==
    \A i \in DOMAIN nodes :
        /\ nodes[i].members # {} /\ nodes[i].members \subseteq Active
        /\ nodes[i].boundaries = BoundariesFor(nodes[i].members)

\* No merge of the log named its kept node again.
Careful == \A k \in DOMAIN log : log[k].into \notin log[k].from

Placed == Apart /\ WellMade /\ (Careful => Active \subseteq Held)

StudyInv ==
    /\ stage \in {"idle", "group", "train", "attach", "proposed"}
    /\ log \in Seq(Entries)
    /\ stage \in {"group", "train", "attach"} =>
          /\ Partition(clusters, Active)
          /\ \A c \in clusters : Sound(c)
    /\ stage \in {"group", "train"} => \A c \in clusters : Unmixed(c)
    /\ stage # "idle" => DOMAIN flow \subseteq Nat
    /\ stage = "proposed" =>
          /\ Placed /\ DOMAIN nodes \subseteq Active
          /\ \A i \in DOMAIN nodes : Traced(i)

\* What is true of the clusters of one graph is true of them after a step that
\* leaves the graph alone.
LEMMA SameGraph ==
    ASSUME UNCHANGED <<type, flow>>
    PROVE  /\ Active' = Active /\ Sections' = Sections /\ Breaks' = Breaks
           /\ \A c : Sound(c)' <=> Sound(c)
           /\ \A c : Unmixed(c)' <=> Unmixed(c)
           /\ \A c : BoundariesFor(c)' = BoundariesFor(c)
BY DEF Active, Sections, Breaks, Sound, Unmixed, OneSection, FedFromWithin, OneTrain,
   Train2, Neighbors, BoundariesFor

\* Two groups of sections with neighbors between them are one.
LEMMA JoinSections ==
    ASSUME NEW A, NEW B, A \subseteq Sections, B \subseteq Sections,
           OneSection(A), OneSection(B),
           NEW a \in A, NEW b \in B, b \in Neighbors(a)
    PROVE  OneSection(A \cup B)
<1> SUFFICES ASSUME NEW part \in SUBSET (A \cup B), part # {}, part # A \cup B
             PROVE  \E x \in part, y \in (A \cup B) \ part :
                       y \in Neighbors(x) \/ x \in Neighbors(y)
  BY DEF OneSection
<1>1. CASE part \cap A \notin {{}, A}
  <2>1. A \cap Sections = A
    OBVIOUS
  <2> DEFINE p == part \cap A
  <2>2. \A q \in SUBSET (A \cap Sections) : q # {} /\ q # A \cap Sections =>
           \E x \in q, y \in (A \cap Sections) \ q :
               y \in Neighbors(x) \/ x \in Neighbors(y)
    BY DEF OneSection
  <2>3. p \in SUBSET A /\ p # {} /\ p # A
    BY <1>1
  <2>4. PICK x \in p, y \in A \ p : y \in Neighbors(x) \/ x \in Neighbors(y)
    <3> DEFINE M == A \cap Sections
    <3> HIDE DEF p, M
    <3>1. M = A /\ p \in SUBSET M
      BY <2>1, <2>3 DEF M
    <3>2. \E x \in p, y \in M \ p : y \in Neighbors(x) \/ x \in Neighbors(y)
      BY <2>2, <2>3, <3>1 DEF M
    <3>3. QED  BY <3>1, <3>2
  <2>5. QED  BY <2>4
<1>2. CASE part \cap B \notin {{}, B}
  <2>1. B \cap Sections = B
    OBVIOUS
  <2> DEFINE p == part \cap B
  <2>2. \A q \in SUBSET (B \cap Sections) : q # {} /\ q # B \cap Sections =>
           \E x \in q, y \in (B \cap Sections) \ q :
               y \in Neighbors(x) \/ x \in Neighbors(y)
    BY DEF OneSection
  <2>3. p \in SUBSET B /\ p # {} /\ p # B
    BY <1>2
  <2>4. PICK x \in p, y \in B \ p : y \in Neighbors(x) \/ x \in Neighbors(y)
    <3> DEFINE M == B \cap Sections
    <3> HIDE DEF p, M
    <3>1. M = B /\ p \in SUBSET M
      BY <2>1, <2>3 DEF M
    <3>2. \E x \in p, y \in M \ p : y \in Neighbors(x) \/ x \in Neighbors(y)
      BY <2>2, <2>3, <3>1 DEF M
    <3>3. QED  BY <3>1, <3>2
  <2>5. QED  BY <2>4
<1>3. CASE part \cap A \in {{}, A} /\ part \cap B \in {{}, B}
  BY <1>3
<1>4. QED  BY <1>1, <1>2, <1>3

\* Two trains with a connection between them are one.
LEMMA JoinTrains ==
    ASSUME NEW A, NEW B, OneTrain(A), OneTrain(B),
           NEW a \in A, NEW b \in B, flow[a][b] = "both"
    PROVE  OneTrain(A \cup B)
<1> SUFFICES ASSUME NEW part \in SUBSET (A \cup B), part # {}, part # A \cup B
             PROVE  \E x \in part, y \in (A \cup B) \ part : Train2(x, y)
  BY DEF OneTrain
<1>1. CASE part \cap A \notin {{}, A}
  BY <1>1 DEF OneTrain
<1>2. CASE part \cap B \notin {{}, B}
  BY <1>2 DEF OneTrain
<1>3. CASE part \cap A \in {{}, A} /\ part \cap B \in {{}, B}
  BY <1>3 DEF Train2
<1>4. QED  BY <1>1, <1>2, <1>3

\* A train that is fed from a cluster with sections may join it.
LEMMA JoinFed ==
    ASSUME NEW A, NEW B, Sound(A), Sound(B), A \cap Sections # {},
           B \cap Sections = {}, NEW o \in A, NEW m \in B, m \in Breaks, flow[m][o] = "in"
    PROVE  Sound(A \cup B)
<1>1. (A \cup B) \cap Sections = A \cap Sections
  OBVIOUS
<1>2. OneSection(A \cup B)
  BY <1>1 DEF Sound, OneSection
<1>3. B \subseteq Breaks
  BY DEF Sound, Breaks
<1>4. ASSUME NEW x \in A \cap Breaks
      PROVE  \E c \in (A \cup B) \cap Breaks, s \in A \cup B :
                /\ flow[c][s] = "in"
                /\ c = x \/ \E S \in SUBSET ((A \cup B) \cap Breaks) :
                               {c, x} \subseteq S /\ OneTrain(S)
  <2>1. PICK c \in A \cap Breaks, s \in A :
           /\ flow[c][s] = "in"
           /\ c = x \/ \E S \in SUBSET (A \cap Breaks) : {c, x} \subseteq S /\ OneTrain(S)
    BY DEF Sound, FedFromWithin, OneTrain, Train2
  <2>2. QED  BY <2>1
<1>5. ASSUME NEW x \in B
      PROVE  \E c \in (A \cup B) \cap Breaks, s \in A \cup B :
                /\ flow[c][s] = "in"
                /\ c = x \/ \E S \in SUBSET ((A \cup B) \cap Breaks) :
                               {c, x} \subseteq S /\ OneTrain(S)
  <2>1. OneTrain(B) /\ {m, x} \subseteq B /\ B \in SUBSET ((A \cup B) \cap Breaks)
    BY <1>3 DEF Sound
  <2>2. QED  BY <2>1
<1>6. FedFromWithin(A \cup B)
  BY <1>4, <1>5 DEF FedFromWithin, OneTrain, Train2
<1>7. QED  BY <1>1, <1>2, <1>6 DEF Sound

----------------------------------------------------------------------------
(* The steps.                                                                *)

\* No tag, no cluster, no node yet.
LEMMA StudyInvInit == StudyInit => StudyInv
BY DEF StudyInit, StudyInv

\* A graph comes in: every tag is on its own.
LEMMA StudiedStep ==
    ASSUME StudyInv, Studied
    PROVE  StudyInv'
<1>1. PICK types, flows : DOMAIN flows \subseteq Nat /\ Study(types, flows)
  BY DEF Studied
<1>2. /\ stage' = "group" /\ flow' = flows /\ type' = types /\ log' = log
      /\ clusters' = {{t} : t \in ActiveIn(types, flows)}
  BY <1>1 DEF Study
<1>3. clusters' = {{t} : t \in Active'}
  BY <1>2 DEF Active
<1>4. Partition(clusters', Active')
  <2>1. UNION clusters' = Active' /\ {} \notin clusters'
    BY <1>3
  <2>2. ASSUME NEW c \in clusters', NEW d \in clusters', c \cap d # {}
        PROVE  c = d
    <3>1. (\E t : c = {t}) /\ (\E t : d = {t})
      BY <1>3
    <3>2. QED  BY <2>2, <3>1
  <2>3. QED  BY <2>1, <2>2 DEF Partition
<1>5. ASSUME NEW t \in Active' PROVE Sound({t})' /\ Unmixed({t})'
  <2>1. CASE t \in Sections'
    BY <2>1, <1>5 DEF Sound, Unmixed, OneSection, FedFromWithin, Breaks
  <2>2. CASE t \notin Sections'
    BY <2>2, <1>5 DEF Sound, Unmixed, OneSection, FedFromWithin, OneTrain
  <2>3. QED  BY <2>1, <2>2
<1>6. \A c \in clusters' : Sound(c)' /\ Unmixed(c)'
  BY <1>3, <1>5
<1>7. QED  BY <1>1, <1>2, <1>4, <1>6 DEF StudyInv

\* A rule joins two clusters into a sound one.
LEMMA JoinStep ==
    ASSUME StudyInv, stage \in {"group", "train", "attach"},
           NEW a \in Active, NEW b \in Active,
           clusters' = Union(a, b),
           UNCHANGED <<type, flow, stage, nodes, original, log>>,
           Sound(Cluster(a) \cup Cluster(b)),
           stage \in {"group", "train"} => Unmixed(Cluster(a) \cup Cluster(b))
    PROVE  StudyInv'
<1>1. /\ Partition(clusters, Active)
      /\ \A c \in clusters : Sound(c)
      /\ stage \in {"group", "train"} => \A c \in clusters : Unmixed(c)
      /\ DOMAIN flow \subseteq Nat /\ log \in Seq(Entries)
  BY DEF StudyInv
<1>2. Partition(clusters', Active')
  BY <1>1, UnionPartition, SameGraph
<1>3. \A c \in clusters' : c \in clusters \/ c = Cluster(a) \cup Cluster(b)
  BY DEF Union
<1>4. \A c \in clusters' : Sound(c)'
  BY <1>1, <1>3, SameGraph
<1>5. stage \in {"group", "train"} => \A c \in clusters' : Unmixed(c)'
  BY <1>1, <1>3, SameGraph
<1>6. QED  BY <1>1, <1>2, <1>4, <1>5 DEF StudyInv

\* Rules G, M, P and X.
LEMMA RuleStep ==
    ASSUME StudyInv, NEW a \in Active, NEW b \in Active,
           Group(a, b) \/ Train(a, b) \/ Attach(a, b)
    PROVE  StudyInv'
<1>1. CASE Group(a, b)
  <2>1. /\ stage = "group" /\ a \in Sections /\ b \in Sections /\ b \in Neighbors(a)
        /\ clusters' = Union(a, b)
        /\ UNCHANGED <<type, flow, stage, nodes, original, log>>
    BY <1>1 DEF Group
  <2> DEFINE A == Cluster(a)
             B == Cluster(b)
  <2>2. a \in A /\ b \in B /\ A \in clusters /\ B \in clusters
    BY <2>1, ClusterOf DEF StudyInv
  <2>3. Sound(A) /\ Sound(B) /\ Unmixed(A) /\ Unmixed(B)
    BY <2>1, <2>2 DEF StudyInv
  <2> HIDE DEF A, B
  <2>4. A \subseteq Sections /\ B \subseteq Sections
    BY <2>1, <2>2, <2>3 DEF Unmixed
  <2>5. OneSection(A \cup B)
    BY <2>1, <2>2, <2>3, <2>4, JoinSections DEF Sound
  <2>6. FedFromWithin(A \cup B)
    BY <2>4 DEF FedFromWithin, Breaks
  <2>7. (A \cup B) \cap Sections # {} /\ A \cup B \subseteq Active
    BY <2>1, <2>2, <2>3 DEF Sound
  <2>8. Sound(A \cup B) /\ Unmixed(A \cup B)
    BY <2>4, <2>5, <2>6, <2>7 DEF Sound, Unmixed
  <2>9. QED  BY <2>1, <2>8, JoinStep DEF A, B
<1>2. CASE Train(a, b)
  <2>1. /\ stage = "train" /\ a \in Breaks /\ b \in Breaks /\ flow[a][b] = "both"
        /\ clusters' = Union(a, b)
        /\ UNCHANGED <<type, flow, stage, nodes, original, log>>
    BY <1>2 DEF Train
  <2> DEFINE A == Cluster(a)
             B == Cluster(b)
  <2>2. a \in A /\ b \in B /\ A \in clusters /\ B \in clusters
    BY <2>1, ClusterOf DEF StudyInv
  <2>3. Sound(A) /\ Sound(B) /\ Unmixed(A) /\ Unmixed(B)
    BY <2>1, <2>2 DEF StudyInv
  <2> HIDE DEF A, B
  <2>4. A \cap Sections = {} /\ B \cap Sections = {}
    BY <2>1, <2>2, <2>3 DEF Unmixed, Breaks
  <2>5. OneTrain(A \cup B)
    BY <2>1, <2>2, <2>3, <2>4, JoinTrains DEF Sound
  <2>6. (A \cup B) \cap Sections = {} /\ A \cup B \subseteq Active
    BY <2>3, <2>4 DEF Sound
  <2>7. Sound(A \cup B) /\ Unmixed(A \cup B)
    BY <2>5, <2>6 DEF Sound, Unmixed, OneSection, FedFromWithin
  <2>8. QED  BY <2>1, <2>7, JoinStep DEF A, B
<1>3. CASE Attach(a, b)
  <2>1. /\ stage = "attach" /\ a \in Breaks /\ ~HasSection(a)
        /\ flow[a][b] = "in" /\ HasSection(b)
        /\ clusters' = Union(b, a)
        /\ UNCHANGED <<type, flow, stage, nodes, original, log>>
    BY <1>3 DEF Attach, Suction
  <2> DEFINE A == Cluster(b)
             B == Cluster(a)
  <2>2. b \in A /\ a \in B /\ A \in clusters /\ B \in clusters
    BY <2>1, ClusterOf DEF StudyInv
  <2>3. Sound(A) /\ Sound(B)
    BY <2>1, <2>2 DEF StudyInv
  <2>4. A \cap Sections # {} /\ B \cap Sections = {}
    BY <2>1 DEF HasSection
  <2> HIDE DEF A, B
  <2>5. Sound(A \cup B)
    BY <2>1, <2>2, <2>3, <2>4, JoinFed
  <2>6. QED  BY <2>1, <2>5, JoinStep DEF A, B
<1>4. QED  BY <1>1, <1>2, <1>3

\* The next rule finds what the last one left.
LEMMA NextRuleStep ==
    ASSUME StudyInv, NextRule
    PROVE  StudyInv'
<1>1. /\ stage \in {"group", "train"} /\ stage' \in {"train", "attach"}
      /\ UNCHANGED <<type, flow, clusters, nodes, original, log>>
  BY DEF NextRule
<1>2. /\ Partition(clusters', Active')
      /\ \A c \in clusters' : Sound(c)' /\ Unmixed(c)'
  BY <1>1, SameGraph DEF StudyInv
<1>3. QED  BY <1>1, <1>2 DEF StudyInv

\* Every cluster is published, under a name no other has.
LEMMA PublishStep ==
    ASSUME StudyInv, Publish
    PROVE  StudyInv'
<1> DEFINE ids == {Least(c) : c \in clusters}
<1>1. /\ stage = "attach" /\ stage' = "proposed"
      /\ nodes' = [i \in ids |-> [members |-> Cluster(i),
                                  boundaries |-> BoundariesFor(Cluster(i)),
                                  status |-> "proposed"]]
      /\ original' = [i \in ids |-> Cluster(i)]
      /\ UNCHANGED <<type, flow, clusters, log>>
  BY DEF Publish
<1>2. /\ Partition(clusters, Active) /\ \A c \in clusters : Sound(c)
      /\ DOMAIN flow \subseteq Nat /\ log \in Seq(Entries)
  BY <1>1 DEF StudyInv
<1>3. Active \subseteq DOMAIN flow
  BY DEF Active, ActiveIn
<1>4. ASSUME NEW c \in clusters
      PROVE  Least(c) \in c /\ Least(c) \in Active /\ Cluster(Least(c)) = c
  <2>1. c \in SUBSET Nat /\ c # {} /\ c \subseteq Active
    BY <1>2, <1>3 DEF Partition
  <2>2. Least(c) \in c /\ Least(c) \in Active
    BY <2>1, LeastIn
  <2>3. QED  BY <1>2, <2>2, ClusterOf
<1>5. \A i \in ids : i \in Active /\ Cluster(i) \in clusters /\ i \in Cluster(i)
  BY <1>4
<1>6. \A t \in Active : Least(Cluster(t)) \in ids /\ Cluster(Least(Cluster(t))) = Cluster(t)
  BY <1>2, <1>4, ClusterOf
<1>7. \A i, j \in ids : Cluster(i) = Cluster(j) => i = j
  BY <1>4
<1>8. \A t \in Active, j \in ids : t \in Cluster(j) => j = Least(Cluster(t))
  BY <1>2, <1>4, <1>5, ClusterOf
<1> HIDE DEF ids
<1>9. /\ DOMAIN nodes' = ids
      /\ \A i \in ids : /\ nodes'[i].members = Cluster(i)
                        /\ nodes'[i].boundaries = BoundariesFor(Cluster(i))
                        /\ nodes'[i].status = "proposed"
                        /\ original'[i] = Cluster(i)
  BY <1>1
<1>10. Placed'
  <2>1. Active \subseteq Held'
    <3>1. SUFFICES ASSUME NEW t \in Active PROVE t \in Held'
      OBVIOUS
    <3>2. t \in Cluster(t)
      BY <1>2, ClusterOf
    <3>3. Least(Cluster(t)) \in DOMAIN nodes' /\ t \in nodes'[Least(Cluster(t))].members
      BY <1>6, <1>9, <3>2
    <3>4. QED  BY <3>3 DEF Held
  <2>2. ASSUME NEW i \in DOMAIN nodes'
        PROVE  /\ nodes'[i].members # {} /\ nodes'[i].members \subseteq Active
               /\ nodes'[i].boundaries = BoundariesFor(nodes'[i].members)
    BY <1>2, <1>5, <1>9, ClusterOf
  <2>3. Apart'
    <3>1. SUFFICES ASSUME NEW i \in DOMAIN nodes', NEW j \in DOMAIN nodes',
                          NEW t \in nodes'[i].members \cap nodes'[j].members
                   PROVE  i = j
      BY DEF Apart
    <3>2. t \in Active /\ t \in Cluster(i) /\ t \in Cluster(j)
      BY <1>9, <2>2, <3>1
    <3>3. QED  BY <1>8, <1>9, <3>2
  <2>4. WellMade'
    BY <1>1, <2>2, SameGraph DEF WellMade
  <2>5. QED  BY <1>1, <2>1, <2>3, <2>4, SameGraph DEF Placed
<1>11. \A i \in DOMAIN nodes' : Traced(i)'
  BY <1>1, <1>2, <1>5, <1>9, SameGraph DEF Traced
<1>12. DOMAIN nodes' \subseteq Active'
  BY <1>1, <1>5, <1>9, SameGraph
<1>13. QED  BY <1>1, <1>2, <1>10, <1>11, <1>12 DEF StudyInv

----------------------------------------------------------------------------
(* Redefinitions.                                                            *)

\* What a redefinition writes at the end of the log stays there.
LEMMA LogGrows ==
    ASSUME log \in Seq(Entries), NEW e \in Entries, log' = Append(log, e)
    PROVE  /\ log' \in Seq(Entries)
           /\ \A k \in DOMAIN log : k \in DOMAIN log' /\ log'[k] = log[k]
           /\ \E k \in DOMAIN log' : log'[k] = e
<1>1. Len(log) \in Nat /\ DOMAIN log = 1..Len(log)
  OBVIOUS
<1>2. /\ log' \in Seq(Entries) /\ DOMAIN log' = 1..(Len(log) + 1)
      /\ \A k \in 1..Len(log) : log'[k] = log[k]
      /\ log'[Len(log) + 1] = e
  OBVIOUS
<1>3. QED  BY <1>1, <1>2

\* The new entry is the latest, and a careful log is made of careful entries.
LEMMA LogTells ==
    ASSUME log \in Seq(Entries), NEW e \in Entries, log' = Append(log, e)
    PROVE  /\ log'[Len(log')] = e /\ Len(log') \in DOMAIN log'
           /\ Careful' => Careful /\ e.into \notin e.from
<1>1. Len(log) \in Nat /\ DOMAIN log = 1..Len(log)
  OBVIOUS
<1>2. /\ Len(log') = Len(log) + 1 /\ DOMAIN log' = 1..(Len(log) + 1)
      /\ \A k \in 1..Len(log) : log'[k] = log[k]
      /\ log'[Len(log) + 1] = e
  OBVIOUS
<1>3. QED  BY <1>1, <1>2 DEF Careful

\* A merge that does not name its kept node again holds what was held, and any
\* other gives up no more than the nodes it takes out held.
LEMMA MergeHolds ==
    ASSUME NEW keep \in DOMAIN nodes, NEW gone \in SUBSET DOMAIN nodes,
           Merge(keep, gone), NEW t \in Held \ Held'
    PROVE  keep \in gone /\ \E i \in gone : t \in nodes[i].members
<1> DEFINE all == UNION {nodes[j].members : j \in gone \cup {keep}}
<1>1. nodes' = [i \in DOMAIN nodes \ gone |-> IF i # keep THEN nodes[i] ELSE Rebuilt(all)]
  BY DEF Merge
<1>2. Rebuilt(all).members = all
  BY DEF Rebuilt
<1>3. PICK i \in DOMAIN nodes : t \in nodes[i].members
  BY DEF Held
<1>4. i \in gone \cup {keep} => t \in all
  BY <1>3
<1> HIDE DEF all
<1>5. CASE keep \notin gone
  <2>1. keep \in DOMAIN nodes' /\ nodes'[keep].members = all
    BY <1>1, <1>2, <1>5
  <2>2. i \notin gone \cup {keep} => i \in DOMAIN nodes' /\ nodes'[i] = nodes[i]
    BY <1>1, <1>3
  <2>3. t \in Held'
    BY <1>3, <1>4, <2>1, <2>2 DEF Held
  <2>4. QED  BY <2>3
<1>6. CASE keep \in gone
  <2>1. i \notin gone => i \in DOMAIN nodes' /\ nodes'[i] = nodes[i]
    BY <1>1, <1>3, <1>6
  <2>2. i \in gone
    BY <1>3, <2>1 DEF Held
  <2>3. QED  BY <1>3, <1>6, <2>2
<1>7. QED  BY <1>5, <1>6

\* A move holds what was held.
LEMMA MoveHolds ==
    ASSUME NEW tag \in Active, NEW to \in DOMAIN nodes, Move(tag, to)
    PROVE  Held \subseteq Held'
<1>1. PICK from \in DOMAIN nodes \ {to} :
         /\ tag \in nodes[from].members
         /\ LET rest == nodes[from].members \ {tag} IN
            nodes' = [i \in DOMAIN nodes \ (IF rest = {} THEN {from} ELSE {}) |->
                CASE i = to -> Rebuilt(nodes[to].members \cup {tag})
                  [] i = from -> Rebuilt(rest)
                  [] OTHER -> nodes[i]]
  BY DEF Move
<1> DEFINE rest == nodes[from].members \ {tag}
           more == nodes[to].members \cup {tag}
<1>2. /\ DOMAIN nodes' = DOMAIN nodes \ (IF rest = {} THEN {from} ELSE {})
      /\ nodes'[to] = Rebuilt(more)
      /\ rest # {} => nodes'[from] = Rebuilt(rest)
      /\ \A i \in DOMAIN nodes' : i \notin {to, from} => nodes'[i] = nodes[i]
  BY <1>1
<1>3. Rebuilt(more).members = more /\ Rebuilt(rest).members = rest
  BY DEF Rebuilt
<1>4. SUFFICES ASSUME NEW t \in Held PROVE \E i \in DOMAIN nodes' : t \in nodes'[i].members
  BY DEF Held
<1>5. PICK i \in DOMAIN nodes : t \in nodes[i].members
  BY DEF Held
<1>6. to \in DOMAIN nodes'
  BY <1>1, <1>2
<1>7. CASE t = tag \/ i = to
  <2>1. t \in more
    BY <1>5, <1>7
  <2> HIDE DEF more
  <2>2. QED  BY <1>2, <1>3, <1>6, <2>1
<1>8. CASE t # tag /\ i = from
  <2>1. t \in rest
    BY <1>5, <1>8
  <2> HIDE DEF rest
  <2>2. from \in DOMAIN nodes' /\ t \in nodes'[from].members
    BY <1>1, <1>2, <1>3, <2>1
  <2>3. QED  BY <2>2
<1>9. CASE i \notin {to, from}
  BY <1>2, <1>5, <1>9
<1>10. QED  BY <1>7, <1>8, <1>9

\* A node nobody touched is traced as before, and one that was rebuilt by the
\* new entry.
LEMMA TracedStep ==
    ASSUME StudyInv, stage = "proposed",
           UNCHANGED <<type, flow, stage, clusters, original>>,
           NEW e \in Entries, log' = Append(log, e),
           DOMAIN nodes' \subseteq DOMAIN nodes,
           \A i \in DOMAIN nodes' :
              \/ nodes'[i] = nodes[i]
              \/ nodes'[i].status = "redefined" /\ (i = e.into \/ i \in e.from),
           Placed'
    PROVE  StudyInv'
<1>1. /\ log \in Seq(Entries) /\ DOMAIN flow \subseteq Nat
      /\ DOMAIN nodes \subseteq Active
      /\ \A i \in DOMAIN nodes : Traced(i)
  BY DEF StudyInv
<1>2. /\ log' \in Seq(Entries)
      /\ \A k \in DOMAIN log : k \in DOMAIN log' /\ log'[k] = log[k]
      /\ \E k \in DOMAIN log' : log'[k] = e
  BY <1>1, LogGrows
<1>3. ASSUME NEW i \in DOMAIN nodes' PROVE Traced(i)'
  <2>1. CASE nodes'[i] = nodes[i]
    BY <1>1, <1>2, <1>3, <2>1, SameGraph DEF Traced
  <2>2. CASE nodes'[i].status = "redefined" /\ (i = e.into \/ i \in e.from)
    BY <1>2, <2>2 DEF Traced
  <2>3. QED  BY <2>1, <2>2, <1>3
<1>4. QED  BY <1>1, <1>2, <1>3, SameGraph DEF StudyInv

\* A node that absorbs others holds what they held.
LEMMA MergeStep ==
    ASSUME StudyInv, NEW keep \in DOMAIN nodes, NEW gone \in SUBSET DOMAIN nodes,
           Merge(keep, gone)
    PROVE  StudyInv'
<1> DEFINE e == [into |-> keep, from |-> gone]
           all == UNION {nodes[j].members : j \in gone \cup {keep}}
<1>1. /\ stage = "proposed"
      /\ nodes' = [i \in DOMAIN nodes \ gone |->
                      IF i # keep THEN nodes[i] ELSE Rebuilt(all)]
      /\ log' = Append(log, e)
      /\ UNCHANGED <<type, flow, stage, clusters, original>>
  BY DEF Merge
<1>2. Placed /\ DOMAIN nodes \subseteq Active /\ DOMAIN flow \subseteq Nat
  BY <1>1 DEF StudyInv
<1>3. DOMAIN nodes \subseteq Nat
  BY <1>2 DEF Active, ActiveIn
<1>4. e \in Entries
  BY <1>3 DEF Entries
<1>5. /\ DOMAIN nodes' = DOMAIN nodes \ gone
      /\ keep \in DOMAIN nodes' => nodes'[keep] = Rebuilt(all)
      /\ \A i \in DOMAIN nodes' : i # keep => nodes'[i] = nodes[i]
  BY <1>1
<1>6. /\ Rebuilt(all).members = all /\ Rebuilt(all).status = "redefined"
      /\ Rebuilt(all).boundaries = BoundariesFor(all)
  BY DEF Rebuilt
<1>7. Placed'
  <2>1. Apart'
    <3>1. SUFFICES ASSUME NEW i \in DOMAIN nodes', NEW j \in DOMAIN nodes',
                          NEW t \in nodes'[i].members \cap nodes'[j].members
                   PROVE  i = j
      BY DEF Apart
    <3>2. ASSUME NEW h \in DOMAIN nodes', t \in nodes'[h].members
          PROVE  \E k \in DOMAIN nodes :
                    /\ t \in nodes[k].members
                    /\ IF h = keep THEN k \in gone \cup {keep} ELSE k = h
      <4>1. CASE h = keep
        <5>1. t \in all
          BY <1>5, <1>6, <3>2, <4>1
        <5>2. QED  BY <4>1, <5>1
      <4>2. CASE h # keep
        BY <1>5, <3>2, <4>2
      <4>3. QED  BY <4>1, <4>2
    <3>3. \A k, l \in DOMAIN nodes :
             t \in nodes[k].members /\ t \in nodes[l].members => k = l
      BY <1>2 DEF Placed, Apart
    <3>4. i \notin gone /\ j \notin gone
      BY <1>5
    <3> HIDE DEF all
    <3>5. QED  BY <3>1, <3>2, <3>3, <3>4
  <2>2. ASSUME NEW i \in DOMAIN nodes'
        PROVE  /\ nodes'[i].members # {} /\ nodes'[i].members \subseteq Active
               /\ nodes'[i].boundaries = BoundariesFor(nodes'[i].members)
    <3>1. /\ \A j \in DOMAIN nodes : /\ nodes[j].members # {}
                                     /\ nodes[j].members \subseteq Active
          /\ nodes[i].boundaries = BoundariesFor(nodes[i].members)
      BY <1>2, <1>5 DEF Placed, WellMade
    <3>2. all # {} /\ all \subseteq Active
      BY <3>1
    <3> HIDE DEF all
    <3>3. QED  BY <1>5, <1>6, <3>1, <3>2
  <2>3. Active' = Active /\ \A c : BoundariesFor(c)' = BoundariesFor(c)
    BY <1>1, SameGraph
  <2> HIDE DEF all
  <2>4. WellMade'
    BY <2>2, <2>3 DEF WellMade
  <2>5. Careful' => Active' \subseteq Held'
    <3>1. log \in Seq(Entries) /\ log' = Append(log, e)
      BY <1>1 DEF StudyInv
    <3>2. e.into = keep /\ e.from = gone
      OBVIOUS
    <3> HIDE DEF e
    <3>3. Careful' => Careful /\ keep \notin gone
      BY <1>4, <3>1, <3>2, LogTells
    <3>4. Careful => Active \subseteq Held
      BY <1>2 DEF Placed
    <3>5. keep \notin gone => Held \subseteq Held'
      BY MergeHolds
    <3>6. QED  BY <2>3, <3>3, <3>4, <3>5
  <2>6. QED  BY <2>1, <2>4, <2>5 DEF Placed
<1>8. \A i \in DOMAIN nodes' :
         \/ nodes'[i] = nodes[i]
         \/ nodes'[i].status = "redefined" /\ (i = e.into \/ i \in e.from)
  BY <1>5, <1>6
<1> HIDE DEF e
<1>9. QED  BY <1>1, <1>4, <1>5, <1>7, <1>8, TracedStep

\* An item that is moved leaves one node and joins another.
LEMMA MoveStep ==
    ASSUME StudyInv, NEW tag \in Active, NEW to \in DOMAIN nodes, Move(tag, to)
    PROVE  StudyInv'
<1>1. PICK from \in DOMAIN nodes \ {to} :
         /\ stage = "proposed" /\ tag \in nodes[from].members
         /\ LET rest == nodes[from].members \ {tag} IN
            nodes' = [i \in DOMAIN nodes \ (IF rest = {} THEN {from} ELSE {}) |->
                CASE i = to -> Rebuilt(nodes[to].members \cup {tag})
                  [] i = from -> Rebuilt(rest)
                  [] OTHER -> nodes[i]]
         /\ log' = Append(log, [into |-> to, from |-> {from}])
         /\ UNCHANGED <<type, flow, stage, clusters, original>>
  BY DEF Move
<1> DEFINE e == [into |-> to, from |-> {from}]
           rest == nodes[from].members \ {tag}
           more == nodes[to].members \cup {tag}
<1>2. Placed /\ DOMAIN nodes \subseteq Active /\ DOMAIN flow \subseteq Nat
  BY <1>1 DEF StudyInv
<1>3. DOMAIN nodes \subseteq Nat
  BY <1>2 DEF Active, ActiveIn
<1>4. e \in Entries
  BY <1>3 DEF Entries
<1>5. /\ DOMAIN nodes' = DOMAIN nodes \ (IF rest = {} THEN {from} ELSE {})
      /\ nodes'[to] = Rebuilt(more)
      /\ rest # {} => nodes'[from] = Rebuilt(rest)
      /\ \A i \in DOMAIN nodes' : i \notin {to, from} => nodes'[i] = nodes[i]
  BY <1>1
<1>6. \A S : /\ Rebuilt(S).members = S /\ Rebuilt(S).status = "redefined"
             /\ Rebuilt(S).boundaries = BoundariesFor(S)
  BY DEF Rebuilt
<1>7. Placed'
  <2>1. Apart'
    <3>1. SUFFICES ASSUME NEW i \in DOMAIN nodes', NEW j \in DOMAIN nodes',
                          NEW t \in nodes'[i].members \cap nodes'[j].members
                   PROVE  i = j
      BY DEF Apart
    <3>2. \A k, l \in DOMAIN nodes :
             t \in nodes[k].members /\ t \in nodes[l].members => k = l
      BY <1>2 DEF Placed, Apart
    <3>3. ASSUME NEW h \in DOMAIN nodes', t \in nodes'[h].members
          PROVE  IF t = tag THEN h = to ELSE t \in nodes[h].members
      <4>1. CASE h = to
        BY <1>5, <1>6, <3>3, <4>1
      <4>2. CASE h = from
        <5>1. nodes'[h].members = rest
          BY <1>1, <1>5, <1>6, <3>3, <4>2
        <5>2. QED  BY <3>3, <4>2, <5>1
      <4>3. CASE h \notin {to, from}
        <5>1. t \in nodes[h].members /\ h \in DOMAIN nodes
          BY <1>5, <3>3, <4>3
        <5>2. t # tag
          BY <1>1, <3>2, <4>3, <5>1
        <5>3. QED  BY <5>1, <5>2
      <4>4. QED  BY <4>1, <4>2, <4>3
    <3>4. i \in DOMAIN nodes /\ j \in DOMAIN nodes
      BY <1>5
    <3> HIDE DEF rest, more
    <3>5. QED  BY <3>1, <3>2, <3>3, <3>4
  <2>2. ASSUME NEW i \in DOMAIN nodes'
        PROVE  /\ nodes'[i].members # {} /\ nodes'[i].members \subseteq Active
               /\ nodes'[i].boundaries = BoundariesFor(nodes'[i].members)
    <3>1. \A j \in DOMAIN nodes : /\ nodes[j].members # {}
                                  /\ nodes[j].members \subseteq Active
                                  /\ nodes[j].boundaries = BoundariesFor(nodes[j].members)
      BY <1>2 DEF Placed, WellMade
    <3>2. more # {} /\ more \subseteq Active /\ rest \subseteq Active
      BY <3>1
    <3>3. i = from => rest # {}
      BY <1>5, <2>2
    <3> HIDE DEF more, rest
    <3>4. QED  BY <1>5, <1>6, <3>1, <3>2, <3>3
  <2>3. UNCHANGED <<type, flow>>
    BY <1>1
  <2> HIDE DEF rest, more
  <2>4. WellMade'
    BY <2>2, <2>3, SameGraph DEF WellMade
  <2>5. Careful' => Active' \subseteq Held'
    <3>1. log \in Seq(Entries) /\ log' = Append(log, e)
      BY <1>1 DEF StudyInv
    <3> HIDE DEF e
    <3>2. Careful' => Careful
      BY <1>4, <3>1, LogTells
    <3>3. Careful => Active \subseteq Held
      BY <1>2 DEF Placed
    <3>4. Active' = Active
      BY <2>3, SameGraph
    <3>5. QED  BY <3>2, <3>3, <3>4, MoveHolds
  <2>6. QED  BY <2>1, <2>4, <2>5 DEF Placed
<1>8. \A i \in DOMAIN nodes' :
         \/ nodes'[i] = nodes[i]
         \/ nodes'[i].status = "redefined" /\ (i = e.into \/ i \in e.from)
  <2> SUFFICES ASSUME NEW i \in DOMAIN nodes'
               PROVE  \/ nodes'[i] = nodes[i]
                      \/ nodes'[i].status = "redefined" /\ (i = e.into \/ i \in e.from)
    OBVIOUS
  <2>1. i = from => rest # {}
    BY <1>5
  <2>2. i \in {to, from} => nodes'[i].status = "redefined"
    BY <1>5, <1>6, <2>1
  <2>3. QED  BY <1>5, <2>2
<1> HIDE DEF e
<1>9. QED  BY <1>1, <1>4, <1>5, <1>7, <1>8, TracedStep DEF e

----------------------------------------------------------------------------

\* Every step of the proposal and of its redefinition keeps the invariant.
LEMMA StudyStep == StudyInv /\ [StudyNext]_studyVars => StudyInv'
<1> SUFFICES ASSUME StudyInv, [StudyNext]_studyVars PROVE StudyInv'
  OBVIOUS
<1>1. CASE Studied
  BY <1>1, StudiedStep
<1>2. ASSUME NEW a \in Active, NEW b \in Active, Group(a, b) \/ Train(a, b) \/ Attach(a, b)
      PROVE  StudyInv'
  BY <1>2, RuleStep
<1>3. CASE NextRule
  BY <1>3, NextRuleStep
<1>4. CASE Publish
  BY <1>4, PublishStep
<1>5. ASSUME NEW keep \in DOMAIN nodes, NEW gone \in SUBSET DOMAIN nodes,
             Merge(keep, gone)
      PROVE  StudyInv'
  BY <1>5, MergeStep
<1>6. ASSUME NEW tag \in Active, NEW to \in DOMAIN nodes, Move(tag, to)
      PROVE  StudyInv'
  BY <1>6, MoveStep
<1>7. CASE UNCHANGED studyVars
  <2>1. UNCHANGED <<type, flow, stage, clusters, nodes, original, log>>
    BY <1>7 DEF studyVars
  <2>2. Placed' = Placed /\ \A i : Traced(i)' = Traced(i)
    BY <2>1, SameGraph DEF Placed, Apart, WellMade, Careful, Held, Traced
  <2>3. QED  BY <2>1, <2>2, SameGraph DEF StudyInv
<1>8. QED  BY <1>1, <1>2, <1>3, <1>4, <1>5, <1>6, <1>7 DEF StudyNext, Propose, Redefine

\* Through every redefinition of every proposal no item is in two study nodes; each
\* that can be studied is in one, unless a merge named its kept node again; and a
\* node's boundaries are those of its members.
THEOREM EverythingIsStudiedOnce == StudySpec => []EquipmentIsStudiedOnce
<1>1. StudyInv => EquipmentIsStudiedOnce
  BY DEF StudyInv, Placed, Apart, WellMade, Careful, EquipmentIsStudiedOnce
<1>2. QED  BY <1>1, StudyInvInit, StudyStep, PTL DEF StudySpec

NoneYet == stage # "proposed" => DOMAIN nodes = {}

\* There is no node before the proposal.
LEMMA NoneYetKept == NoneYet /\ [StudyNext]_studyVars => NoneYet'
BY DEF NoneYet, StudyNext, Studied, Study, Propose, Group, Train, Attach, NextRule,
       Publish, Redefine, Merge, Move, studyVars

\* In every graph and through every redefinition of every proposal, what goes out
\* of study does so in a merge that names its kept node again, and was in a node
\* that merge names.
THEOREM LossesAreNamed == StudySpec => OnlySuchMergesLose
<1>1. StudyInit => NoneYet
  BY DEF StudyInit, NoneYet
<1>2. ASSUME StudyInv, NoneYet, [StudyNext]_studyVars
      PROVE  [LossIsNamed]_studyVars
  <2>1. ASSUME NEW keep \in DOMAIN nodes, NEW gone \in SUBSET DOMAIN nodes,
               Merge(keep, gone)
        PROVE  LossIsNamed
    <3>1. SUFFICES ASSUME NEW t \in Held \ Held'
                   PROVE  /\ MergedIntoItself'
                          /\ \E i \in log'[Len(log')].from : t \in nodes[i].members
      BY DEF LossIsNamed
    <3>2. keep \in gone /\ \E i \in gone : t \in nodes[i].members
      BY <2>1, <3>1, MergeHolds
    <3> DEFINE e == [into |-> keep, from |-> gone]
    <3>3. /\ log \in Seq(Entries) /\ log' = Append(log, e)
          /\ DOMAIN nodes \subseteq Active /\ DOMAIN flow \subseteq Nat
      BY <1>2, <2>1 DEF Merge, StudyInv
    <3>4. e \in Entries /\ e.into = keep /\ e.from = gone
      BY <3>3 DEF Entries, Active, ActiveIn
    <3> HIDE DEF e
    <3>5. log'[Len(log')] = e /\ Len(log') \in DOMAIN log'
      BY <3>3, <3>4, LogTells
    <3>6. QED  BY <3>2, <3>4, <3>5 DEF MergedIntoItself
  <2>2. ASSUME NEW tag \in Active, NEW to \in DOMAIN nodes, Move(tag, to)
        PROVE  LossIsNamed
    BY <2>2, MoveHolds DEF LossIsNamed
  <2>3. CASE Studied \/ NextRule \/ \E a, b \in Active : Group(a, b) \/ Train(a, b) \/ Attach(a, b)
    <3>1. nodes' = nodes
      BY <2>3 DEF Studied, Study, NextRule, Group, Train, Attach
    <3>2. QED  BY <3>1 DEF LossIsNamed, Held
  <2>4. CASE Publish
    <3>1. Held = {}
      BY <1>2, <2>4 DEF NoneYet, Publish, Held
    <3>2. QED  BY <3>1 DEF LossIsNamed
  <2>5. QED  BY <1>2, <2>1, <2>2, <2>3, <2>4 DEF StudyNext, Propose, Redefine
<1>3. QED
  BY <1>1, <1>2, StudyInvInit, StudyStep, NoneYetKept, PTL DEF StudySpec, OnlySuchMergesLose

\* In every graph and whatever the order of its tags, a node as it was proposed
\* follows the rules: its sections hang together, and each machine in it was
\* fed from within, itself or its train; and what differs is in the log.
THEOREM RulesAreFollowed == StudySpec => []ProposalsFollowTheRules
<1>1. StudyInv => ProposalsFollowTheRules
  BY DEF StudyInv, Traced, Sound, ProposalsFollowTheRules
<1>2. QED  BY <1>1, StudyInvInit, StudyStep, PTL DEF StudySpec

----------------------------------------------------------------------------
(* The database. What a load has sent so far is there, group by group, and   *)
(* no later statement takes it away.                                         *)

StoreSpec == StoreInit /\ [][StoreNext]_storeVars

\* The row is in the database as the k-th group of statements leaves it.
Stored(row, k) ==
    IF k \in Labels THEN row \in Items /\ LabelOrder[k] \in labels[row]
                    ELSE row \in rels

LoadTyped ==
    /\ begun \in Seq(Graphs)
    /\ returned \subseteq Graphs
    /\ DOMAIN itemType = Items
    /\ loading # NoGraph =>
          /\ loading \in ToSet(begun)
          /\ group \in 0 .. GroupCount
          /\ IF group = 0 THEN unsent = {} ELSE unsent \subseteq RowsOf(loading, group)

\* Every row of the groups up to this one is stored, or still to be sent.
LoadedSoFar ==
    loading # NoGraph =>
        \A k \in 1 .. group : \A row \in RowsOf(loading, k) :
            Stored(row, k) \/ (k = group /\ row \in unsent)

LoadedForGood ==
    \A g \in returned : \A k \in 1 .. GroupCount : \A row \in RowsOf(g, k) : Stored(row, k)

\* Every label comes of a graph a load was begun for, and so does every
\* relationship.
NothingElse ==
    /\ \A t \in Items :
          /\ labels[t] \subseteq {g.type[t] : g \in {h \in ToSet(begun) : t \in DOMAIN h.type}}
          /\ itemType[t] \in labels[t]
    /\ \A r \in rels : \E g \in ToSet(begun) : \E e \in g.edges : r = RelOf(e)

StoreInv == LoadTyped /\ LoadedSoFar /\ LoadedForGood /\ NothingElse

\* The groups are the labels and the two relationship types.
LEMMA GroupsAre ==
    /\ Len(LabelOrder) \in Nat
    /\ Labels = 1 .. Len(LabelOrder)
    /\ \A label \in ToSet(LabelOrder) : \E k \in Labels : LabelOrder[k] = label
<1>1. LabelOrder \in Seq(ToSet(LabelOrder))
  BY StoreAssumption
<1>2. Len(LabelOrder) \in Nat /\ DOMAIN LabelOrder = 1 .. Len(LabelOrder)
  BY <1>1
<1>3. QED  BY <1>2 DEF Labels, ToSet

\* What was begun comes of Graphs, and stays so.
LEMMA BegunGrows ==
    ASSUME begun \in Seq(Graphs), NEW g \in Graphs, begun' = Append(begun, g)
    PROVE  /\ begun' \in Seq(Graphs)
           /\ ToSet(begun) \subseteq ToSet(begun')
           /\ g \in ToSet(begun')
<1>1. begun' \in Seq(Graphs) /\ Len(begun') = Len(begun) + 1
  OBVIOUS
<1>2. \A i \in 1 .. Len(begun) : begun'[i] = begun[i]
  OBVIOUS
<1>3. begun'[Len(begun) + 1] = g
  OBVIOUS
<1>4. DOMAIN begun = 1 .. Len(begun) /\ DOMAIN begun' = 1 .. Len(begun) + 1 /\ Len(begun) \in Nat
  BY <1>1
<1>5. QED  BY <1>1, <1>2, <1>3, <1>4 DEF ToSet

\* The items of a graph are the rows of its label groups, its edges those of the
\* two groups after them.
LEMMA EveryRowHasAGroup ==
    ASSUME NEW g \in Graphs
    PROVE  /\ \A t \in DOMAIN g.type : \E k \in Labels :
                  /\ LabelOrder[k] = g.type[t]
                  /\ t \in RowsOf(g, k)
           /\ \A e \in g.edges : \E k \in 1 .. GroupCount :
                  /\ k \notin Labels
                  /\ RelOf(e) \in RowsOf(g, k)
<1>1. ASSUME NEW t \in DOMAIN g.type
      PROVE  \E k \in Labels : LabelOrder[k] = g.type[t] /\ t \in RowsOf(g, k)
  <2>1. g.type[t] \in ToSet(LabelOrder)
    BY StoreAssumption DEF Loadable
  <2>2. PICK k \in Labels : LabelOrder[k] = g.type[t]
    BY <2>1, GroupsAre
  <2>3. QED  BY <2>2 DEF RowsOf, Labelled
<1>2. ASSUME NEW e \in g.edges
      PROVE  \E k \in 1 .. GroupCount : k \notin Labels /\ RelOf(e) \in RowsOf(g, k)
  <2> DEFINE n == Len(LabelOrder)
  <2>1. RelOf(e).rtype = "CONNECTED_TO" \/ RelOf(e).rtype = "FLOWS_TO"
    BY DEF RelOf
  <2>2. n + 1 \in 1 .. GroupCount /\ n + 2 \in 1 .. GroupCount
    BY GroupsAre DEF GroupCount
  <2>3. n + 1 \notin Labels /\ n + 2 \notin Labels
    BY GroupsAre
  <2>4. (n + 1) - n = 1 /\ (n + 2) - n = 2
    BY GroupsAre
  <2>5. RowsOf(g, n + 1) = Related(g, "CONNECTED_TO") /\ RowsOf(g, n + 2) = Related(g, "FLOWS_TO")
    BY <2>3, <2>4 DEF RowsOf, RelTypes
  <2>6. RelOf(e) \in RowsOf(g, n + 1) \/ RelOf(e) \in RowsOf(g, n + 2)
    BY <2>1, <2>5 DEF Related
  <2>7. QED  BY <2>2, <2>3, <2>6
<1>3. QED  BY <1>1, <1>2

\* The database only grows: items keep their labels.
DatabaseGrows ==
    /\ Items \subseteq Items'
    /\ \A t \in Items : labels[t] \subseteq labels'[t]
    /\ rels \subseteq rels'

LEMMA DatabaseKept ==
    ASSUME UNCHANGED <<labels, rels>>
    PROVE  DatabaseGrows
BY DEF DatabaseGrows, Items

LEMMA MergeNodesStores ==
    ASSUME NEW rows, NEW label, MergeNodes(rows, label)
    PROVE  /\ DatabaseGrows
           /\ \A t \in rows : t \in Items' /\ label \in labels'[t]
           /\ Items' = Items \cup rows
           /\ DOMAIN itemType' = Items'
           /\ \A t \in Items' :
                 /\ labels'[t] = (IF t \in Items THEN labels[t] ELSE {})
                                 \cup (IF t \in rows THEN {label} ELSE {})
                 /\ itemType'[t] = IF t \in rows THEN label ELSE itemType[t]
           /\ rels' = rels
BY DEF MergeNodes, Items, DatabaseGrows

LEMMA MergeRelsStores ==
    ASSUME NEW rows, MergeRels(rows)
    PROVE  /\ DatabaseGrows
           /\ \A r \in rows : {r.src, r.dst} \subseteq Items => r \in rels'
           /\ rels' \subseteq rels \cup rows
           /\ UNCHANGED <<labels, itemType>>
           /\ Items' = Items
BY DEF MergeRels, Items, DatabaseGrows

LEMMA StoredStays ==
    ASSUME DatabaseGrows, NEW row, NEW k, Stored(row, k)
    PROVE  Stored(row, k)'
BY DEF DatabaseGrows, Stored, Items

\* What was stored for good stays stored.
LEMMA ForGoodStays ==
    ASSUME DatabaseGrows, LoadedForGood, UNCHANGED returned
    PROVE  LoadedForGood'
<1>1. ASSUME NEW g \in returned, NEW k \in 1 .. GroupCount, NEW row \in RowsOf(g, k)
      PROVE  Stored(row, k)'
  <2>1. Stored(row, k)
    BY DEF LoadedForGood
  <2>2. QED  BY <2>1, StoredStays
<1>2. QED  BY <1>1 DEF LoadedForGood

LEMMA StoreInitInv == StoreInit => StoreInv
<1> SUFFICES ASSUME StoreInit PROVE StoreInv
  OBVIOUS
<1>1. LoadTyped
  BY DEF StoreInit, LoadTyped, Items
<1>2. LoadedSoFar /\ LoadedForGood
  BY DEF StoreInit, LoadedSoFar, LoadedForGood
<1>3. Items = {} /\ rels = {}
  BY DEF StoreInit, Items
<1>4. QED  BY <1>1, <1>2, <1>3 DEF StoreInv, NothingElse

\* The claim about where things come from holds on as the loads begun grow and the
\* database stays.
LEMMA NothingElseStays ==
    ASSUME NothingElse, UNCHANGED <<labels, itemType, rels>>,
           ToSet(begun) \subseteq ToSet(begun')
    PROVE  NothingElse'
<1>1. Items' = Items
  BY DEF Items
<1>2. \A t : {g.type[t] : g \in {h \in ToSet(begun) : t \in DOMAIN h.type}}
              \subseteq {g.type[t] : g \in {h \in ToSet(begun') : t \in DOMAIN h.type}}
  OBVIOUS
<1>3. \A t \in Items' : /\ labels'[t] \subseteq {g.type[t] : g \in {h \in ToSet(begun') : t \in DOMAIN h.type}}
                        /\ itemType'[t] \in labels'[t]
  BY <1>1, <1>2 DEF NothingElse
<1>4. \A r \in rels' : \E g \in ToSet(begun') : \E e \in g.edges : r = RelOf(e)
  BY DEF NothingElse
<1>5. ToSet(begun') = ToSet(begun)'
  BY DEF ToSet
<1>6. QED  BY <1>3, <1>4, <1>5 DEF NothingElse

LEMMA BeginLoadKeepsInv ==
    ASSUME StoreInv, NEW g \in Graphs, BeginLoad(g)
    PROVE  StoreInv'
<1>1. /\ loading' = g /\ group' = 0 /\ unsent' = {}
      /\ begun' = Append(begun, g)
      /\ UNCHANGED <<labels, itemType, rels, returned>>
  BY DEF BeginLoad
<1>2. /\ begun' \in Seq(Graphs)
      /\ ToSet(begun) \subseteq ToSet(begun')
      /\ g \in ToSet(begun')
  BY <1>1, BegunGrows DEF StoreInv, LoadTyped
<1>3. LoadTyped'
  <2>1. 0 \in 0 .. GroupCount
    BY GroupsAre DEF GroupCount
  <2>2. ToSet(begun)' = ToSet(begun')
    BY DEF ToSet
  <2>3. DOMAIN itemType' = Items'
    BY <1>1 DEF StoreInv, LoadTyped, Items
  <2>4. loading' \in ToSet(begun)' /\ group' \in 0 .. GroupCount /\ group' = 0 /\ unsent' = {}
    BY <1>1, <1>2, <2>1, <2>2
  <2>5. returned' \subseteq Graphs
    BY <1>1 DEF StoreInv, LoadTyped
  <2>6. QED  BY <1>2, <2>3, <2>4, <2>5 DEF LoadTyped
<1>4. LoadedSoFar'
  <2>1. 1 .. group' = {}
    BY <1>1
  <2>2. QED  BY <2>1 DEF LoadedSoFar
<1>5. LoadedForGood'
  BY <1>1, DatabaseKept, ForGoodStays DEF StoreInv
<1>6. NothingElse'
  BY <1>1, <1>2, NothingElseStays DEF StoreInv
<1>7. QED  BY <1>3, <1>4, <1>5, <1>6 DEF StoreInv

\* A step that touches neither the database nor what loads were begun and returned.
LEMMA IdleStep ==
    ASSUME StoreInv, UNCHANGED <<labels, itemType, rels, begun, returned>>
    PROVE  /\ LoadedForGood' /\ NothingElse'
           /\ begun' \in Seq(Graphs) /\ returned' \subseteq Graphs
           /\ DOMAIN itemType' = Items'
           /\ ToSet(begun)' = ToSet(begun)
<1>1. LoadedForGood'
  BY DatabaseKept, ForGoodStays DEF StoreInv
<1>2. NothingElse'
  BY NothingElseStays DEF StoreInv
<1>3. begun' \in Seq(Graphs) /\ returned' \subseteq Graphs /\ DOMAIN itemType' = Items'
  BY DEF StoreInv, LoadTyped, Items
<1>4. ToSet(begun)' = ToSet(begun)
  BY DEF ToSet
<1>5. QED  BY <1>1, <1>2, <1>3, <1>4

LEMMA NextGroupKeepsInv ==
    ASSUME StoreInv, NextGroup
    PROVE  StoreInv'
<1>1. /\ loading # NoGraph /\ unsent = {} /\ group < GroupCount
      /\ group' = group + 1
      /\ unsent' = RowsOf(loading, group + 1)
      /\ UNCHANGED <<labels, itemType, rels, loading, begun, returned>>
  BY DEF NextGroup
<1>2. LoadedForGood' /\ NothingElse' /\ begun' \in Seq(Graphs) /\ returned' \subseteq Graphs
      /\ DOMAIN itemType' = Items' /\ ToSet(begun)' = ToSet(begun)
  BY <1>1, IdleStep
<1>3. group \in Nat /\ GroupCount \in Nat /\ loading \in ToSet(begun)
  BY <1>1, GroupsAre DEF StoreInv, LoadTyped, GroupCount
<1>4. group' \in 0 .. GroupCount /\ group' # 0
  BY <1>1, <1>3
<1>5. unsent' = RowsOf(loading', group')
  BY <1>1
<1>6. LoadTyped'
  BY <1>1, <1>2, <1>3, <1>4, <1>5 DEF LoadTyped
<1>7. LoadedSoFar'
  <2>1. SUFFICES ASSUME NEW k \in 1 .. group + 1, NEW row \in RowsOf(loading, k)
                 PROVE  Stored(row, k)' \/ (k = group + 1 /\ row \in unsent')
    BY <1>1 DEF LoadedSoFar
  <2>2. CASE k = group + 1
    BY <2>2, <1>1
  <2>3. CASE k # group + 1
    <3>1. k \in 1 .. group
      BY <2>3, <1>3
    <3>2. Stored(row, k)
      BY <3>1, <1>1 DEF StoreInv, LoadedSoFar
    <3>3. QED  BY <3>2, <1>1, DatabaseKept, StoredStays
  <2>4. QED  BY <2>2, <2>3
<1>8. QED  BY <1>2, <1>6, <1>7 DEF StoreInv

LEMMA FailureKeepsInv ==
    ASSUME StoreInv, StatementFails
    PROVE  StoreInv'
<1>1. loading' = NoGraph /\ UNCHANGED <<labels, itemType, rels, begun, returned>>
  BY DEF StatementFails
<1>2. LoadedForGood' /\ NothingElse' /\ begun' \in Seq(Graphs) /\ returned' \subseteq Graphs
      /\ DOMAIN itemType' = Items'
  BY <1>1, IdleStep
<1>3. NoGraph' = NoGraph
  BY DEF NoGraph
<1>4. LoadTyped' /\ LoadedSoFar'
  BY <1>1, <1>2, <1>3 DEF LoadTyped, LoadedSoFar
<1>5. QED  BY <1>2, <1>4 DEF StoreInv

\* When the last group is through, every row is stored.
LEMMA ReturnKeepsInv ==
    ASSUME StoreInv, LoadReturns
    PROVE  StoreInv'
<1>1. /\ loading # NoGraph /\ group = GroupCount /\ unsent = {}
      /\ returned' = returned \cup {loading}
      /\ loading' = NoGraph
      /\ UNCHANGED <<labels, itemType, rels, group, unsent, begun>>
  BY DEF LoadReturns
<1>2. loading \in Graphs
  <2>1. loading \in ToSet(begun) /\ begun \in Seq(Graphs)
    BY <1>1 DEF StoreInv, LoadTyped
  <2>2. QED  BY <2>1 DEF ToSet
<1>3. LoadTyped' /\ LoadedSoFar'
  <2>1. begun' \in Seq(Graphs) /\ returned' \subseteq Graphs /\ DOMAIN itemType' = Items'
    BY <1>1, <1>2 DEF StoreInv, LoadTyped, Items
  <2>2. QED  BY <1>1, <2>1 DEF LoadTyped, LoadedSoFar
<1>4. NothingElse'
  BY <1>1, NothingElseStays DEF StoreInv
<1>5. ASSUME NEW g \in returned', NEW k \in 1 .. GroupCount, NEW row \in RowsOf(g, k)
      PROVE  Stored(row, k)
  <2>1. CASE g \in returned
    BY <2>1 DEF StoreInv, LoadedForGood
  <2>2. CASE g = loading
    BY <2>2, <1>1 DEF StoreInv, LoadedSoFar
  <2>3. QED  BY <2>1, <2>2, <1>1
<1>6. ASSUME NEW row, NEW k, Stored(row, k) PROVE Stored(row, k)'
  BY <1>1, <1>6, DatabaseKept, StoredStays
<1>7. LoadedForGood'
  BY <1>5, <1>6 DEF LoadedForGood
<1>8. QED  BY <1>3, <1>4, <1>7 DEF StoreInv

\* A batch of items comes with the label of its group, which is the items' type.
LEMMA ItemsAreNamedByTheLoad ==
    ASSUME StoreInv, NEW rows \in SUBSET unsent, loading # NoGraph, group \in Labels,
           UNCHANGED begun, MergeNodes(rows, LabelOrder[group])
    PROVE  NothingElse'
<1> DEFINE label == LabelOrder[group]
           from(t) == {g.type[t] : g \in {h \in ToSet(begun) : t \in DOMAIN h.type}}
<1>1. group # 0
  BY GroupsAre
<1>2. loading \in ToSet(begun) /\ rows \subseteq RowsOf(loading, group)
  BY <1>1 DEF StoreInv, LoadTyped
<1>3. \A t \in rows : t \in DOMAIN loading.type /\ loading.type[t] = label
  BY <1>2 DEF RowsOf, Labelled
<1>4. \A t \in rows : label \in from(t)
  BY <1>2, <1>3
<1>5. /\ \A t \in Items' :
            /\ labels'[t] = (IF t \in Items THEN labels[t] ELSE {})
                            \cup (IF t \in rows THEN {label} ELSE {})
            /\ itemType'[t] = IF t \in rows THEN label ELSE itemType[t]
      /\ Items' = Items \cup rows
      /\ rels' = rels
  BY MergeNodesStores
<1>6. ASSUME NEW t \in Items'
      PROVE  labels'[t] \subseteq from(t) /\ itemType'[t] \in labels'[t]
  <2>1. t \in Items => labels[t] \subseteq from(t) /\ itemType[t] \in labels[t]
    BY DEF StoreInv, NothingElse
  <2> HIDE DEF from, label
  <2>2. t \in Items \/ t \in rows
    BY <1>5
  <2>3. QED  BY <1>4, <1>5, <2>1, <2>2
<1>7. \A r \in rels' : \E g \in ToSet(begun) : \E e \in g.edges : r = RelOf(e)
  BY <1>5 DEF StoreInv, NothingElse
<1>8. ToSet(begun)' = ToSet(begun)
  BY DEF ToSet
<1>9. QED  BY <1>6, <1>7, <1>8 DEF NothingElse

LEMMA RelsAreOfTheLoad ==
    ASSUME StoreInv, NEW rows \in SUBSET unsent, loading # NoGraph, group \notin Labels,
           group # 0, UNCHANGED begun, MergeRels(rows)
    PROVE  NothingElse'
<1>1. loading \in ToSet(begun) /\ rows \subseteq RowsOf(loading, group)
  BY DEF StoreInv, LoadTyped
<1>2. \A r \in rows : \E e \in loading.edges : r = RelOf(e)
  BY <1>1 DEF RowsOf, Related
<1>3. rels' \subseteq rels \cup rows /\ UNCHANGED <<labels, itemType>> /\ Items' = Items
  BY MergeRelsStores
<1>4. \A r \in rels' : \E g \in ToSet(begun) : \E e \in g.edges : r = RelOf(e)
  BY <1>1, <1>2, <1>3 DEF StoreInv, NothingElse
<1>5. ToSet(begun)' = ToSet(begun)
  BY DEF ToSet
<1>6. \A t \in Items' :
         /\ labels'[t] \subseteq {g.type[t] : g \in {h \in ToSet(begun) : t \in DOMAIN h.type}}
         /\ itemType'[t] \in labels'[t]
  BY <1>3 DEF StoreInv, NothingElse
<1>7. QED  BY <1>4, <1>5, <1>6 DEF NothingElse

\* Both ends of a connection are stored before it is sent: the items are all in
\* groups that came before.
LEMMA EndsAreThere ==
    ASSUME StoreInv, loading # NoGraph, group \notin Labels, group # 0,
           NEW row \in RowsOf(loading, group)
    PROVE  {row.src, row.dst} \subseteq Items
<1> DEFINE n == Len(LabelOrder)
<1>1. loading \in Graphs
  BY DEF StoreInv, LoadTyped, ToSet
<1>2. PICK e \in loading.edges : row = RelOf(e)
  BY DEF RowsOf, Related
<1>3. row.src = e.src /\ row.dst = e.dst
  BY <1>2 DEF RelOf
<1>4. {e.src, e.dst} \subseteq DOMAIN loading.type
  BY <1>1, StoreAssumption DEF Loadable
<1>5. group \in Nat /\ group > n
  BY GroupsAre DEF StoreInv, LoadTyped, GroupCount
<1>6. ASSUME NEW t \in DOMAIN loading.type PROVE t \in Items
  <2>1. PICK k \in Labels : t \in RowsOf(loading, k)
    BY <1>1, EveryRowHasAGroup
  <2>2. k \in 1 .. group /\ k # group
    BY <1>5, GroupsAre
  <2>3. Stored(t, k)
    BY <2>1, <2>2 DEF StoreInv, LoadedSoFar
  <2>4. QED  BY <2>3 DEF Stored
<1>7. QED  BY <1>3, <1>4, <1>6

LEMMA RunStatementKeepsInv ==
    ASSUME StoreInv, RunStatement
    PROVE  StoreInv'
<1>1. PICK batch \in Batches :
          /\ unsent' = unsent \ batch
          /\ \/ group \in Labels /\ MergeNodes(batch, LabelOrder[group])
             \/ group \notin Labels /\ MergeRels(batch)
  BY DEF RunStatement
<1>2. /\ loading # NoGraph /\ unsent # {}
      /\ UNCHANGED <<loading, group, begun, returned>>
  BY DEF RunStatement
<1>3. batch \in SUBSET unsent
  BY DEF Batches
<1>4. group # 0 /\ group \in 0 .. GroupCount /\ unsent \subseteq RowsOf(loading, group)
  BY <1>2 DEF StoreInv, LoadTyped
<1>5. DatabaseGrows /\ DOMAIN itemType' = Items'
  <2>1. CASE group \in Labels /\ MergeNodes(batch, LabelOrder[group])
    BY <2>1, MergeNodesStores
  <2>2. CASE group \notin Labels /\ MergeRels(batch)
    BY <2>2, MergeRelsStores DEF StoreInv, LoadTyped
  <2>3. QED  BY <1>1, <2>1, <2>2
<1>6. NothingElse'
  BY <1>1, <1>2, <1>3, <1>4, ItemsAreNamedByTheLoad, RelsAreOfTheLoad
<1>7. LoadedForGood'
  BY <1>2, <1>5, ForGoodStays DEF StoreInv
<1>8. LoadTyped'
  <2>1. ToSet(begun)' = ToSet(begun)
    BY <1>2 DEF ToSet
  <2>2. loading' \in ToSet(begun)'
    BY <1>2, <2>1 DEF StoreInv, LoadTyped
  <2>3. unsent' \subseteq RowsOf(loading', group')
    BY <1>1, <1>2, <1>4
  <2>4. begun' \in Seq(Graphs) /\ returned' \subseteq Graphs
    BY <1>2 DEF StoreInv, LoadTyped
  <2>5. group' \in 0 .. GroupCount /\ group' # 0
    BY <1>2, <1>4
  <2>6. QED  BY <1>5, <2>2, <2>3, <2>4, <2>5 DEF LoadTyped
<1>9. ASSUME NEW row \in batch
      PROVE  Stored(row, group)'
  <2>1. row \in RowsOf(loading, group)
    BY <1>3, <1>4
  <2>2. CASE group \in Labels
    <3>1. row \in Items' /\ LabelOrder[group] \in labels'[row]
      BY <1>1, <2>2, MergeNodesStores
    <3>2. QED  BY <3>1, <2>2, <1>2 DEF Stored
  <2>3. CASE group \notin Labels
    <3>1. row \in rels'
      BY <1>1, <2>1, <2>3, <1>2, <1>4, EndsAreThere, MergeRelsStores
    <3>2. QED  BY <3>1, <2>3, <1>2 DEF Stored
  <2>4. QED  BY <2>2, <2>3
<1>10. LoadedSoFar'
  <2>1. SUFFICES ASSUME NEW k \in 1 .. group, NEW row \in RowsOf(loading, k)
                 PROVE  Stored(row, k)' \/ (k = group /\ row \in unsent')
    BY <1>2 DEF LoadedSoFar
  <2>2. Stored(row, k) \/ (k = group /\ row \in unsent)
    BY <1>2 DEF StoreInv, LoadedSoFar
  <2>3. CASE Stored(row, k)
    BY <2>3, <1>5, StoredStays
  <2>4. CASE k = group /\ row \in unsent
    <3>1. CASE row \in batch
      <4>1. Stored(row, group)'
        BY <3>1, <1>9
      <4>2. Stored(row, k)'
        BY <4>1, <2>4, <1>2 DEF Stored
      <4>3. QED  BY <4>2
    <3>2. CASE row \notin batch
      BY <3>2, <2>4, <1>1
    <3>3. QED  BY <3>1, <3>2
  <2>5. QED  BY <2>2, <2>3, <2>4
<1>11. QED  BY <1>6, <1>7, <1>8, <1>10 DEF StoreInv

LEMMA StoreStutter ==
    ASSUME StoreInv, UNCHANGED storeVars
    PROVE  StoreInv'
<1>1. UNCHANGED <<labels, itemType, rels, loading, group, unsent, begun, returned>>
  BY DEF storeVars
<1>2. LoadedForGood' /\ NothingElse' /\ begun' \in Seq(Graphs) /\ returned' \subseteq Graphs
      /\ DOMAIN itemType' = Items' /\ ToSet(begun)' = ToSet(begun)
  BY <1>1, IdleStep
<1>3. LoadTyped'
  BY <1>1, <1>2 DEF StoreInv, LoadTyped
<1>4. LoadedSoFar'
  <2>1. \A k \in 1 .. group : \A row \in RowsOf(loading, k) :
            Stored(row, k) => Stored(row, k)'
    BY <1>1 DEF Stored, Items
  <2>2. QED  BY <1>1, <2>1 DEF StoreInv, LoadedSoFar
<1>5. QED  BY <1>2, <1>3, <1>4 DEF StoreInv

\* The invariant of a load says what the property says.
LEMMA StoreInvImplies == StoreInv => StoreHoldsWhatWasLoaded
<1> SUFFICES ASSUME StoreInv PROVE StoreHoldsWhatWasLoaded
  OBVIOUS
<1>1. ASSUME NEW g \in returned
      PROVE  /\ \A t \in DOMAIN g.type : t \in Items /\ g.type[t] \in labels[t]
             /\ \A e \in g.edges : RelOf(e) \in rels
  <2>1. g \in Graphs
    BY DEF StoreInv, LoadTyped
  <2>2. ASSUME NEW t \in DOMAIN g.type PROVE t \in Items /\ g.type[t] \in labels[t]
    <3>1. PICK k \in Labels : LabelOrder[k] = g.type[t] /\ t \in RowsOf(g, k)
      BY <2>1, EveryRowHasAGroup
    <3>2. k \in 1 .. GroupCount
      BY GroupsAre DEF GroupCount
    <3>3. Stored(t, k)
      BY <3>1, <3>2 DEF StoreInv, LoadedForGood
    <3>4. QED  BY <3>1, <3>3 DEF Stored
  <2>3. ASSUME NEW e \in g.edges PROVE RelOf(e) \in rels
    <3>1. PICK k \in 1 .. GroupCount : k \notin Labels /\ RelOf(e) \in RowsOf(g, k)
      BY <2>1, EveryRowHasAGroup
    <3>2. Stored(RelOf(e), k)
      BY <3>1 DEF StoreInv, LoadedForGood
    <3>3. QED  BY <3>1, <3>2 DEF Stored
  <2>4. QED  BY <2>2, <2>3
<1>2. ASSUME NEW r \in rels
      PROVE  \E g \in ToSet(begun) : \E e \in g.edges :
                 e.src = r.src /\ e.dst = r.dst /\ (r.rtype = "FLOWS_TO" <=> e.known)
  <2>1. PICK g \in ToSet(begun) : \E e \in g.edges : r = RelOf(e)
    BY DEF StoreInv, NothingElse
  <2>2. PICK e \in g.edges : r = RelOf(e)
    BY <2>1
  <2>3. g \in Graphs
    BY DEF StoreInv, LoadTyped, ToSet
  <2>4. e.known \in BOOLEAN
    BY <2>3, StoreAssumption DEF Loadable
  <2>5. r.src = e.src /\ r.dst = e.dst /\ (r.rtype = "FLOWS_TO" <=> e.known)
    BY <2>2, <2>4 DEF RelOf
  <2>6. QED  BY <2>5
<1>3. \A t \in Items :
          /\ labels[t] \subseteq {g.type[t] : g \in {h \in ToSet(begun) : t \in DOMAIN h.type}}
          /\ itemType[t] \in labels[t]
  BY DEF StoreInv, NothingElse
<1>4. QED  BY <1>1, <1>2, <1>3 DEF StoreHoldsWhatWasLoaded

\* However loads begin, break off between two statements and are begun again, a
\* load that returned is whole in the database, and the database holds nothing no
\* load was begun for (load and to_cypher, neo4j_store.py).
THEOREM LoadsAreWhole == StoreSpec => []StoreHoldsWhatWasLoaded
<1>1. StoreInv /\ [StoreNext]_storeVars => StoreInv'
  <2>1. SUFFICES ASSUME StoreInv, [StoreNext]_storeVars PROVE StoreInv'
    OBVIOUS
  <2>2. CASE \E g \in Graphs : BeginLoad(g)
    BY <2>1, <2>2, BeginLoadKeepsInv
  <2>3. CASE NextGroup
    BY <2>1, <2>3, NextGroupKeepsInv
  <2>4. CASE RunStatement
    BY <2>1, <2>4, RunStatementKeepsInv
  <2>5. CASE StatementFails
    BY <2>1, <2>5, FailureKeepsInv
  <2>6. CASE LoadReturns
    BY <2>1, <2>6, ReturnKeepsInv
  <2>7. CASE UNCHANGED storeVars
    BY <2>1, <2>7, StoreStutter
  <2>8. QED  BY <2>1, <2>2, <2>3, <2>4, <2>5, <2>6, <2>7 DEF StoreNext
<1>2. QED  BY <1>1, StoreInitInv, StoreInvImplies, PTL DEF StoreSpec

----------------------------------------------------------------------------
(* Questions. A text is read mention by mention, from the first.             *)

QuerySpec == QueryInit /\ [][QueryNext]_queryVars

\* The greatest of some first numbers is one of them, and what is below it is
\* the rest.
LEMMA GreatestIn ==
    ASSUME NEW n \in Nat, NEW S \in SUBSET (1 .. n), S # {}
    PROVE  Max(S) \in S
<1> DEFINE T == {n - x : x \in S}
<1>1. \A x \in S : x \in Nat /\ n - x \in Nat
  OBVIOUS
<1>2. T \in SUBSET Nat /\ T # {}
  BY <1>1
<1>3. Least(T) \in T /\ \A y \in T : Least(T) <= y
  <2> HIDE DEF T
  <2>1. QED  BY <1>2, LeastIn
<1>4. PICK x \in S : Least(T) = n - x
  BY <1>3
<1>5. ASSUME NEW y \in S PROVE x >= y
  <2>1. n - y \in T
    OBVIOUS
  <2>2. n - x <= n - y
    BY <1>3, <1>4, <2>1
  <2>3. QED  BY <1>1, <2>2
<1>6. QED  BY <1>5 DEF Max

NothingRead == [ambiguous |-> FALSE, tags |-> <<>>]

\* g says of every part of S what reading it in order leaves.
IsReading(g, text, S) ==
    g = [s \in SUBSET S |-> IF s = {} THEN NothingRead
                            ELSE Resolve(g[s \ {Max(s)}], text[Max(s)])]
ReadingOf(text, S) == CHOOSE g : IsReading(g, text, S)

\* Of any parts of a finite set, one has no other part below it.
LEMMA LeastPart ==
    ASSUME NEW S, IsFiniteSet(S), NEW T \in SUBSET (SUBSET S), T # {}
    PROVE  \E m \in T : \A k \in T : k \subseteq m => k = m
<1>1. IsWellFoundedOn(StrictSubsetOrdering(S), SUBSET S)
  BY FS_StrictSubsetOrderingWellFounded, FS_FiniteSubsetsOfFinite
<1>2. PICK m \in T : \A k \in T : ~(<<k, m>> \in StrictSubsetOrdering(S))
  BY <1>1, WFMin
<1>3. QED  BY <1>2 DEF StrictSubsetOrdering

LEMMA ReadingsAgree ==
    ASSUME NEW n \in Nat, NEW S \in SUBSET (1 .. n), NEW T \in SUBSET S,
           NEW text, NEW g, NEW h, IsReading(g, text, S), IsReading(h, text, T)
    PROVE  \A s \in SUBSET T : g[s] = h[s]
<1> DEFINE Bad == {s \in SUBSET T : g[s] # h[s]}
<1>1. SUFFICES ASSUME Bad # {} PROVE FALSE
  OBVIOUS
<1>2. PICK m \in Bad : \A k \in Bad : k \subseteq m => k = m
  <2> DEFINE D == 1 .. n
  <2>1. Bad \in SUBSET (SUBSET D)
    OBVIOUS
  <2>2. IsFiniteSet(D)
    BY FS_Interval
  <2> HIDE DEF Bad, D
  <2>3. QED  BY <1>1, <2>1, <2>2, LeastPart
<1>3. \A s \in SUBSET T :
         /\ g[s] = IF s = {} THEN NothingRead ELSE Resolve(g[s \ {Max(s)}], text[Max(s)])
         /\ h[s] = IF s = {} THEN NothingRead ELSE Resolve(h[s \ {Max(s)}], text[Max(s)])
  BY DEF IsReading
<1>4. m \in SUBSET T /\ m # {}
  BY <1>2, <1>3
<1>5. Max(m) \in m
  BY <1>4, GreatestIn
<1>6. m \ {Max(m)} \in SUBSET T /\ m \ {Max(m)} # m
  BY <1>4, <1>5
<1>7. g[m \ {Max(m)}] = h[m \ {Max(m)}]
  BY <1>2, <1>6
<1>8. QED  BY <1>2, <1>3, <1>4, <1>7

LEMMA ReadingsExist ==
    ASSUME NEW n \in Nat, NEW text
    PROVE  \A S \in SUBSET (1 .. n) : IsReading(ReadingOf(text, S), text, S)
<1> DEFINE Bad == {s \in SUBSET (1 .. n) : ~ \E g : IsReading(g, text, s)}
<1>1. SUFFICES ASSUME Bad # {} PROVE FALSE
  BY DEF ReadingOf
<1>2. PICK m \in Bad : \A k \in Bad : k \subseteq m => k = m
  <2> DEFINE D == 1 .. n
  <2>1. Bad \in SUBSET (SUBSET D)
    OBVIOUS
  <2>2. IsFiniteSet(D)
    BY FS_Interval
  <2> HIDE DEF Bad, D
  <2>3. QED  BY <1>1, <2>1, <2>2, LeastPart
<1>3. m \in SUBSET (1 .. n) /\ ~ \E g : IsReading(g, text, m)
  BY <1>2
<1>4. ASSUME NEW t \in SUBSET m, t # m
      PROVE  IsReading(ReadingOf(text, t), text, t)
  <2>1. t \in SUBSET (1 .. n) /\ t \notin Bad
    BY <1>2, <1>3, <1>4
  <2>2. QED  BY <2>1 DEF ReadingOf
<1> DEFINE Rest(t) == t \ {Max(t)}
           g == [t \in SUBSET m |->
                   IF t = {} THEN NothingRead
                   ELSE Resolve(ReadingOf(text, Rest(t))[Rest(t)], text[Max(t)])]
<1>5. ASSUME NEW t \in SUBSET m, t # {}
      PROVE  g[Rest(t)] = ReadingOf(text, Rest(t))[Rest(t)]
  <2> DEFINE r == Rest(t)
  <2>1. r \in SUBSET m /\ r # m
    BY <1>3, <1>5, GreatestIn
  <2>2. IsReading(ReadingOf(text, r), text, r)
    BY <1>4, <2>1
  <2>3. CASE r = {}
    <3>1. g[r] = NothingRead
      BY <2>1, <2>3
    <3>2. ReadingOf(text, r)[r] = NothingRead
      BY <2>2, <2>3 DEF IsReading
    <3>3. QED  BY <3>1, <3>2
  <2>4. CASE r # {}
    <3>1. Rest(r) \in SUBSET r /\ Rest(r) # m /\ r \in SUBSET (1 .. n)
      BY <1>3, <2>1, <2>4, GreatestIn
    <3>2. IsReading(ReadingOf(text, Rest(r)), text, Rest(r))
      BY <1>4, <2>1, <3>1
    <3>3. ReadingOf(text, r)[Rest(r)] = ReadingOf(text, Rest(r))[Rest(r)]
      <4> HIDE DEF r, Rest
      <4>1. QED  BY <2>2, <3>1, <3>2, ReadingsAgree
    <3>4. ReadingOf(text, r)[r] = Resolve(ReadingOf(text, r)[Rest(r)], text[Max(r)])
      <4>1. r \in SUBSET r
        OBVIOUS
      <4> HIDE DEF r
      <4>2. QED  BY <2>2, <2>4, <4>1 DEF IsReading
    <3>5. g[r] = Resolve(ReadingOf(text, Rest(r))[Rest(r)], text[Max(r)])
      BY <2>1, <2>4
    <3>6. QED  BY <3>3, <3>4, <3>5
  <2>5. QED  BY <2>3, <2>4
<1>6. IsReading(g, text, m)
  <2>1. g = [t \in SUBSET m |-> IF t = {} THEN NothingRead
                                ELSE Resolve(g[Rest(t)], text[Max(t)])]
    BY <1>5
  <2> HIDE DEF g
  <2>2. QED  BY <2>1 DEF IsReading
<1>7. QED  BY <1>3, <1>6

LEMMA FindTagsReads ==
    ASSUME NEW text
    PROVE  FindTags(text) = ReadingOf(text, DOMAIN text)[DOMAIN text]
BY DEF FindTags, FoldLeft, MapThenFoldSet, ReadingOf, IsReading, NothingRead

\* The tags some mention of a text can mean and no other tag.
NamedIn(text) == {t \in Known : \E i \in DOMAIN text : Means(text[i]) = {t}}

\* A mention adds at most the one tag it means.
LEMMA ResolveNames ==
    ASSUME IsFiniteSet(Known), NEW N, NEW mention,
           NEW acc \in [ambiguous : BOOLEAN, tags : Seq(N)],
           \A t \in Known : Means(mention) = {t} => t \in N
    PROVE  Resolve(acc, mention) \in [ambiguous : BOOLEAN, tags : Seq(N)]
<1> DEFINE hits == IF mention.exact \in Known THEN {mention.exact} ELSE mention.ends \cap Known
           t == CHOOSE x \in hits : TRUE
<1>1. Resolve(acc, mention) =
        IF acc.ambiguous \/ hits = {} THEN acc
        ELSE IF Cardinality(hits) > 1 THEN [acc EXCEPT !.ambiguous = TRUE]
        ELSE IF t \in ToSet(acc.tags) THEN acc
        ELSE [acc EXCEPT !.tags = Append(@, t)]
  BY DEF Resolve
<1>2. hits = Means(mention)
  BY DEF Means
<1>3. IsFiniteSet(hits) /\ hits \subseteq Known
  <2>1. hits \subseteq Known
    OBVIOUS
  <2>2. QED  BY <2>1, FS_Subset
<1>4. acc.tags \in Seq(N) /\ acc.ambiguous \in BOOLEAN
  OBVIOUS
<1>5. [acc EXCEPT !.ambiguous = TRUE] \in [ambiguous : BOOLEAN, tags : Seq(N)]
  OBVIOUS
<1>6. ASSUME hits # {}, ~(Cardinality(hits) > 1)
      PROVE  [acc EXCEPT !.tags = Append(@, t)] \in [ambiguous : BOOLEAN, tags : Seq(N)]
  <2>1. t \in hits
    BY <1>6
  <2> HIDE DEF t
  <2>2. Cardinality(hits) \in Nat
    BY <1>3, FS_CardinalityType
  <2>3. /\ IsFiniteSet(hits \ {t})
        /\ Cardinality(hits \ {t}) = Cardinality(hits) - 1
        /\ Cardinality(hits \ {t}) \in Nat
    <3> HIDE DEF hits
    <3>1. QED  BY <1>3, <2>1, FS_RemoveElement, FS_CardinalityType
  <2>4. hits \ {t} = {}
    <3>1. Cardinality(hits \ {t}) = 0
      BY <1>6, <2>2, <2>3
    <3> HIDE DEF hits
    <3>2. QED  BY <2>3, <3>1, FS_EmptySet
  <2>5. Means(mention) = {t}
    BY <1>2, <2>1, <2>4
  <2>6. Append(acc.tags, t) \in Seq(N)
    BY <1>3, <1>4, <2>1, <2>5
  <2>7. QED  BY <2>6
<1> HIDE DEF hits, t
<1>7. QED  BY <1>1, <1>5, <1>6

LEMMA FindTagsNames ==
    ASSUME bound \in Graphs, NEW text, text \in Seq(ToSet(text))
    PROVE  FindTags(text) \in [ambiguous : BOOLEAN, tags : Seq(NamedIn(text))]
<1> DEFINE n == Len(text)
           D == 1 .. n
           g == ReadingOf(text, D)
           Fine == [ambiguous : BOOLEAN, tags : Seq(NamedIn(text))]
           Bad == {s \in SUBSET D : g[s] \notin Fine}
<1>1. n \in Nat /\ D = DOMAIN text
  OBVIOUS
<1>2. IsReading(g, text, D)
  <2>1. D \in SUBSET (1 .. n)
    OBVIOUS
  <2>2. QED  BY <1>1, <2>1, ReadingsExist
<1>3. FindTags(text) = g[D]
  BY <1>1, FindTagsReads
<1>4. SUFFICES ASSUME Bad # {} PROVE FALSE
  BY <1>3
<1>5. PICK m \in Bad : \A k \in Bad : k \subseteq m => k = m
  <2>1. Bad \in SUBSET (SUBSET D)
    OBVIOUS
  <2>2. IsFiniteSet(D)
    BY <1>1, FS_Interval
  <2> HIDE DEF Bad, D
  <2>3. QED  BY <1>4, <2>1, <2>2, LeastPart
<1>6. m \in SUBSET D /\ g[m] \notin Fine
  BY <1>5
<1>7. g[m] = IF m = {} THEN NothingRead ELSE Resolve(g[m \ {Max(m)}], text[Max(m)])
  <2> HIDE DEF g, D
  <2>1. QED  BY <1>2, <1>6 DEF IsReading
<1>8. NothingRead \in Fine
  <2>1. <<>> \in Seq(NamedIn(text))
    OBVIOUS
  <2>2. QED  BY <2>1 DEF NothingRead
<1>9. m # {}
  BY <1>6, <1>7, <1>8
<1>10. Max(m) \in m
  BY <1>1, <1>6, <1>9, GreatestIn
<1>11. g[m \ {Max(m)}] \in Fine
  <2> HIDE DEF Fine, g, D
  <2>1. QED  BY <1>5, <1>6, <1>10
<1>12. \A t \in Known : Means(text[Max(m)]) = {t} => t \in NamedIn(text)
  BY <1>1, <1>6, <1>10 DEF NamedIn
<1>13. IsFiniteSet(Known)
  BY QueryAssumption DEF Known
<1>14. Resolve(g[m \ {Max(m)}], text[Max(m)]) \in Fine
  <2> HIDE DEF g, D
  <2>1. QED  BY <1>11, <1>12, <1>13, ResolveNames
<1>15. QED  BY <1>6, <1>7, <1>9, <1>14

\* A reading speaks of the tags it was given.
LEMMA ReadingNames ==
    ASSUME NEW q, NEW N, NEW tags \in Seq(N)
    PROVE  /\ Reading(q, tags).tag \in N \cup {NoTag}
           /\ Reading(q, tags).source \in N \cup {NoTag}
           /\ Reading(q, tags).target \in N \cup {NoTag}
<1>1. tags # <<>> => tags[1] \in N
  OBVIOUS
<1>2. Len(tags) >= 2 => tags[1] \in N /\ tags[2] \in N
  OBVIOUS
<1> DEFINE FromN(i) == i.tag \in N \cup {NoTag} /\ i.source \in N \cup {NoTag} /\ i.target \in N \cup {NoTag}
           needing(kind, itype) ==
               IF tags # <<>> THEN Intent(kind, tags[1], NoTag, NoTag, itype)
                              ELSE Intent("need tag", NoTag, NoTag, NoTag, NoType)
<1>3. \A kind, itype : FromN(needing(kind, itype))
  BY <1>1 DEF Intent
<1>4. \A kind, itype : FromN(Intent(kind, NoTag, NoTag, NoTag, itype))
  BY DEF Intent
<1>5. Len(tags) >= 2 => FromN(Intent("path", NoTag, tags[1], tags[2], NoType))
  BY <1>2 DEF Intent
<1>6. tags # <<>> => FromN(Intent("info", tags[1], NoTag, NoTag, NoType))
  BY <1>1 DEF Intent
<1>7. \/ \E kind, itype : Reading(q, tags) = needing(kind, itype)
      \/ \E kind, itype : Reading(q, tags) = Intent(kind, NoTag, NoTag, NoTag, itype)
      \/ Len(tags) >= 2 /\ Reading(q, tags) = Intent("path", NoTag, tags[1], tags[2], NoType)
      \/ tags # <<>> /\ Reading(q, tags) = Intent("info", tags[1], NoTag, NoTag, NoType)
  BY Zenon DEF Reading, NoIntent
<1> HIDE DEF FromN, needing
<1>8. FromN(Reading(q, tags))
  BY <1>3, <1>4, <1>5, <1>6, <1>7
<1>9. QED  BY <1>8 DEF FromN

----------------------------------------------------------------------------
(* What a state of a question knows.                                         *)

QuestionInv ==
    /\ bound \in Graphs
    /\ asking \in {"idle", "parse", "translate"} => fields = NoFields
    /\ asking = "parse" => question \in Questions
    /\ asking = "ground" => fields \in Payloads /\ fields.kind \in Kinds
    /\ TagsAreNamed

\* Where an intent that runs has its tags from.
Spoken(text) == IF fields = NoFields THEN question.mentions ELSE text
SpeaksOfNamed(i) ==
    /\ i.tag \in NamedIn(Spoken(fields.tag)) \cup {NoTag}
    /\ i.source \in NamedIn(Spoken(fields.source)) \cup {NoTag}
    /\ i.target \in NamedIn(Spoken(fields.target)) \cup {NoTag}

LEMMA NamedMeans ==
    TagsAreNamed <=>
        (asking \in {"run", "answered", "explored"} =>
            /\ SpeaksOfNamed(intent)
            /\ asking # "run" => NoTag \notin Required(intent))
BY DEF TagsAreNamed, SpeaksOfNamed, Spoken, NamedIn

LEMMA SpokenStays ==
    ASSUME UNCHANGED <<bound, question, fields>>, NEW i, SpeaksOfNamed(i)
    PROVE  SpeaksOfNamed(i)'
BY DEF SpeaksOfNamed, Spoken, NamedIn, Means, Known

LEMMA NamedMeansNext ==
    (asking' \in {"run", "answered", "explored"} =>
        SpeaksOfNamed(intent)' /\ (asking' # "run" => NoTag \notin Required(intent')))
    => TagsAreNamed'
BY DEF TagsAreNamed, SpeaksOfNamed, Spoken, NamedIn, Required

LEMMA QuestionInitInv == QueryInit => QuestionInv
BY DEF QueryInit, QuestionInv, TagsAreNamed

LEMMA ParseKeepsInv ==
    ASSUME QuestionInv, Parse
    PROVE  QuestionInv'
<1> DEFINE matched == FindTags(question.mentions)
           read == Reading(question, matched.tags)
<1>1. /\ asking = "parse"
      /\ \/ asking' \in {"refused", "translate"} /\ UNCHANGED intent
         \/ asking' = "run" /\ intent' = read
      /\ UNCHANGED <<bound, question, fields, answer, explored>>
  BY DEF Parse
<1>2. bound \in Graphs /\ question \in Questions /\ fields = NoFields
  BY <1>1 DEF QuestionInv
<1>3. matched.tags \in Seq(NamedIn(question.mentions))
  <2>1. question.mentions \in Seq(ToSet(question.mentions))
    BY <1>2, QueryAssumption
  <2>2. QED  BY <1>2, <2>1, FindTagsNames
<1>4. SpeaksOfNamed(read)
  <2>1. /\ read.tag \in NamedIn(question.mentions) \cup {NoTag}
        /\ read.source \in NamedIn(question.mentions) \cup {NoTag}
        /\ read.target \in NamedIn(question.mentions) \cup {NoTag}
    BY <1>3, ReadingNames
  <2> HIDE DEF read
  <2>2. QED  BY <1>2, <2>1 DEF SpeaksOfNamed, Spoken
<1>5. asking' = "run" => SpeaksOfNamed(intent)'
  <2>1. PICK i : i = read
    OBVIOUS
  <2>2. SpeaksOfNamed(i)'
    BY <1>1, <1>4, <2>1, SpokenStays
  <2>3. asking' = "run" => intent' = i
    BY <1>1, <2>1
  <2>4. QED  BY <2>2, <2>3 DEF SpeaksOfNamed
<1>6. asking' \in {"refused", "translate", "run"}
  BY <1>1
<1>7. TagsAreNamed'
  BY <1>5, <1>6, NamedMeansNext
<1>8. QED  BY <1>1, <1>2, <1>6, <1>7 DEF QuestionInv

LEMMA GroundKeepsInv ==
    ASSUME QuestionInv, Ground
    PROVE  QuestionInv'
<1>1. /\ asking = "ground"
      /\ \/ asking' = "refused" /\ UNCHANGED intent
         \/ Groundable(fields) /\ asking' = "run" /\ intent' = Grounded(fields)
      /\ UNCHANGED <<bound, question, fields, answer, explored>>
  BY DEF Ground
<1>2. bound \in Graphs /\ fields \in Payloads /\ fields.kind \in Kinds
  BY <1>1 DEF QuestionInv
<1>3. fields # NoFields
  BY <1>2 DEF NoFields, NoType, Kinds
<1> DEFINE tag(text) == IF text = <<>> THEN NoTag ELSE FindTags(text).tags[1]
<1>4. ASSUME Groundable(fields), NEW text \in {fields.tag, fields.source, fields.target}
      PROVE  tag(text) \in NamedIn(text) \cup {NoTag}
  <2>1. CASE text = <<>>
    BY <2>1
  <2>2. CASE text # <<>>
    <3>1. FindTags(text).tags # <<>>
      BY <1>4, <2>2 DEF Groundable
    <3>2. text \in Seq(ToSet(text))
      BY <1>2, QueryAssumption
    <3>3. FindTags(text).tags \in Seq(NamedIn(text))
      BY <1>2, <3>2, FindTagsNames
    <3>4. FindTags(text).tags[1] \in NamedIn(text)
      BY <3>1, <3>3
    <3>5. QED  BY <2>2, <3>4
  <2>3. QED  BY <2>1, <2>2
<1>5. /\ Grounded(fields).tag = tag(fields.tag)
      /\ Grounded(fields).source = tag(fields.source)
      /\ Grounded(fields).target = tag(fields.target)
  BY DEF Grounded, Intent
<1>6. Groundable(fields) => SpeaksOfNamed(Grounded(fields))
  <2> HIDE DEF tag
  <2>1. QED  BY <1>3, <1>4, <1>5 DEF SpeaksOfNamed, Spoken
<1>7. asking' = "run" => SpeaksOfNamed(intent)'
  <2>1. PICK i : i = Grounded(fields)
    OBVIOUS
  <2>2. Groundable(fields) => SpeaksOfNamed(i)'
    BY <1>1, <1>6, <2>1, SpokenStays
  <2>3. asking' = "run" => Groundable(fields) /\ intent' = i
    BY <1>1, <2>1
  <2>4. QED  BY <2>2, <2>3 DEF SpeaksOfNamed
<1>8. asking' \in {"refused", "run"}
  BY <1>1
<1>9. TagsAreNamed'
  BY <1>7, <1>8, NamedMeansNext
<1>10. QED  BY <1>1, <1>2, <1>8, <1>9 DEF QuestionInv

\* The steps that leave the intent and what it was read from alone.
LEMMA OtherStepsKeepInv ==
    ASSUME QuestionInv,
           (\E q \in Questions : Question(q)) \/ Translate \/ Run \/ Explore \/ UNCHANGED queryVars
    PROVE  QuestionInv'
<1>1. CASE \E q \in Questions : Question(q)
  BY <1>1 DEF Question, QuestionInv, TagsAreNamed
<1>2. CASE Translate
  <2>1. PICK p \in Payloads \cup {fields} :
           /\ asking = "translate"
           /\ fields' = p
           /\ asking' \in {"refused", "broken", "ground"}
           /\ asking' = "ground" => p \in Payloads /\ p.kind \in Kinds
           /\ UNCHANGED <<bound, question, intent, answer, explored>>
    BY <1>2, Zenon DEF Translate
  <2>2. TagsAreNamed'
    BY <2>1 DEF TagsAreNamed
  <2>3. QED  BY <2>1, <2>2 DEF QuestionInv
<1>3. CASE Run
  <2>1. /\ asking = "run"
        /\ \/ asking' = "refused"
           \/ Runnable(intent) /\ asking' = "answered"
        /\ UNCHANGED <<bound, question, fields, intent, explored>>
    BY <1>3 DEF Run
  <2>2. PICK i : i = intent
    OBVIOUS
  <2>3. SpeaksOfNamed(i)
    BY <2>1, <2>2, NamedMeans DEF QuestionInv
  <2>4. SpeaksOfNamed(i)' /\ intent' = i
    BY <2>1, <2>2, <2>3, SpokenStays
  <2>5. SpeaksOfNamed(intent)'
    BY <2>4 DEF SpeaksOfNamed
  <2>6. asking' = "answered" => NoTag \notin Required(intent')
    BY <2>1 DEF Runnable
  <2>7. TagsAreNamed'
    BY <2>1, <2>5, <2>6, NamedMeansNext
  <2>8. QED  BY <2>1, <2>7 DEF QuestionInv
<1>4. CASE Explore \/ UNCHANGED queryVars
  <2>1. /\ UNCHANGED <<bound, question, fields, intent>>
        /\ asking' = asking \/ (asking = "answered" /\ asking' = "explored")
    BY <1>4 DEF Explore, queryVars
  <2>2. PICK i : i = intent
    OBVIOUS
  <2>3. asking \in {"run", "answered", "explored"} =>
            SpeaksOfNamed(i) /\ (asking # "run" => NoTag \notin Required(i))
    BY <2>2, NamedMeans DEF QuestionInv
  <2>4. SpeaksOfNamed(i) => SpeaksOfNamed(i)'
    BY <2>1, SpokenStays
  <2>5. intent' = i
    BY <2>1, <2>2
  <2>6. asking' \in {"run", "answered", "explored"} => SpeaksOfNamed(intent)'
    BY <2>1, <2>3, <2>4, <2>5 DEF SpeaksOfNamed
  <2>7. asking' \in {"answered", "explored"} => NoTag \notin Required(intent')
    BY <2>1, <2>3, <2>5
  <2>8. TagsAreNamed'
    BY <2>6, <2>7, NamedMeansNext
  <2>9. QED  BY <2>1, <2>8 DEF QuestionInv
<1>5. QED  BY <1>1, <1>2, <1>3, <1>4

\* Whatever is asked and whatever a model fills in, an intent that runs speaks of
\* tags of the graph that one mention alone can mean (find_tags, parse_question,
\* reground and run, query.py).
THEOREM EveryTagIsNamed == QuerySpec => []TagsAreNamed
<1>1. QuestionInv /\ [QueryNext]_queryVars => QuestionInv'
  <2>1. SUFFICES ASSUME QuestionInv, [QueryNext]_queryVars PROVE QuestionInv'
    OBVIOUS
  <2>2. CASE Parse
    BY <2>1, <2>2, ParseKeepsInv
  <2>3. CASE Ground
    BY <2>1, <2>3, GroundKeepsInv
  <2>4. CASE (\E q \in Questions : Question(q)) \/ Translate \/ Run \/ Explore \/ UNCHANGED queryVars
    BY <2>1, <2>4, OtherStepsKeepInv
  <2>5. QED  BY <2>1, <2>2, <2>3, <2>4 DEF QueryNext
<1>2. QuestionInv => TagsAreNamed
  BY DEF QuestionInv
<1>3. QED  BY <1>1, <1>2, QuestionInitInv, PTL DEF QuerySpec

----------------------------------------------------------------------------
(* Recursion. What is said of first numbers by what is said of those below   *)
(* the greatest is said of all of them.                                      *)

IsRecursion(g, base, F, S) ==
    g = [s \in SUBSET S |-> IF s = {} THEN base ELSE F[<<Max(s), g[s \ {Max(s)}]>>]]
RecursionOn(base, F, S) == CHOOSE g : IsRecursion(g, base, F, S)

LEMMA RecursionsAgree ==
    ASSUME NEW n \in Nat, NEW S \in SUBSET (1 .. n), NEW T \in SUBSET S,
           NEW base, NEW F, NEW g, NEW h, IsRecursion(g, base, F, S), IsRecursion(h, base, F, T)
    PROVE  \A s \in SUBSET T : g[s] = h[s]
<1> DEFINE Bad == {s \in SUBSET T : g[s] # h[s]}
<1>1. SUFFICES ASSUME Bad # {} PROVE FALSE
  OBVIOUS
<1>2. PICK m \in Bad : \A k \in Bad : k \subseteq m => k = m
  <2> DEFINE D == 1 .. n
  <2>1. Bad \in SUBSET (SUBSET D)
    OBVIOUS
  <2>2. IsFiniteSet(D)
    BY FS_Interval
  <2> HIDE DEF Bad, D
  <2>3. QED  BY <1>1, <2>1, <2>2, LeastPart
<1>3. \A s \in SUBSET T :
         /\ g[s] = IF s = {} THEN base ELSE F[<<Max(s), g[s \ {Max(s)}]>>]
         /\ h[s] = IF s = {} THEN base ELSE F[<<Max(s), h[s \ {Max(s)}]>>]
  BY DEF IsRecursion
<1>4. m \in SUBSET T /\ m # {}
  BY <1>2, <1>3
<1>5. Max(m) \in m
  BY <1>4, GreatestIn
<1>6. m \ {Max(m)} \in SUBSET T /\ m \ {Max(m)} # m
  BY <1>4, <1>5
<1>7. g[m \ {Max(m)}] = h[m \ {Max(m)}]
  BY <1>2, <1>6
<1>8. QED  BY <1>2, <1>3, <1>4, <1>7

LEMMA RecursionsExist ==
    ASSUME NEW n \in Nat, NEW base, NEW F
    PROVE  \A S \in SUBSET (1 .. n) : IsRecursion(RecursionOn(base, F, S), base, F, S)
<1> DEFINE Bad == {s \in SUBSET (1 .. n) : ~ \E g : IsRecursion(g, base, F, s)}
           At(s) == RecursionOn(base, F, s)
<1>1. SUFFICES ASSUME Bad # {} PROVE FALSE
  BY DEF RecursionOn
<1>2. PICK m \in Bad : \A k \in Bad : k \subseteq m => k = m
  <2> DEFINE D == 1 .. n
  <2>1. Bad \in SUBSET (SUBSET D)
    OBVIOUS
  <2>2. IsFiniteSet(D)
    BY FS_Interval
  <2> HIDE DEF Bad, D
  <2>3. QED  BY <1>1, <2>1, <2>2, LeastPart
<1>3. m \in SUBSET (1 .. n) /\ ~ \E g : IsRecursion(g, base, F, m)
  BY <1>2
<1>4. ASSUME NEW t \in SUBSET m, t # m
      PROVE  IsRecursion(At(t), base, F, t)
  <2>1. t \in SUBSET (1 .. n) /\ t \notin Bad
    BY <1>2, <1>3, <1>4
  <2>2. QED  BY <2>1 DEF RecursionOn
<1> HIDE DEF At
<1> DEFINE Rest(t) == t \ {Max(t)}
           g == [t \in SUBSET m |-> IF t = {} THEN base ELSE F[<<Max(t), At(Rest(t))[Rest(t)]>>]]
<1>5. ASSUME NEW t \in SUBSET m, t # {}
      PROVE  g[Rest(t)] = At(Rest(t))[Rest(t)]
  <2> DEFINE r == Rest(t)
  <2>1. r \in SUBSET m /\ r # m
    BY <1>3, <1>5, GreatestIn
  <2>2. IsRecursion(At(r), base, F, r)
    BY <1>4, <2>1
  <2>3. CASE r = {}
    <3>1. g[r] = base
      BY <2>1, <2>3
    <3>2. At(r)[r] = base
      BY <2>2, <2>3 DEF IsRecursion
    <3>3. QED  BY <3>1, <3>2
  <2>4. CASE r # {}
    <3>1. Rest(r) \in SUBSET r /\ Rest(r) # m /\ r \in SUBSET (1 .. n)
      BY <1>3, <2>1, <2>4, GreatestIn
    <3>2. IsRecursion(At(Rest(r)), base, F, Rest(r))
      BY <1>4, <2>1, <3>1
    <3>3. At(r)[Rest(r)] = At(Rest(r))[Rest(r)]
      <4> HIDE DEF r, Rest
      <4>1. QED  BY <2>2, <3>1, <3>2, RecursionsAgree
    <3>4. At(r)[r] = F[<<Max(r), At(r)[Rest(r)]>>]
      <4>1. r \in SUBSET r
        OBVIOUS
      <4> HIDE DEF r
      <4>2. QED  BY <2>2, <2>4, <4>1 DEF IsRecursion
    <3>5. g[r] = F[<<Max(r), At(Rest(r))[Rest(r)]>>]
      BY <2>1, <2>4
    <3>6. QED  BY <3>3, <3>4, <3>5
  <2>5. QED  BY <2>3, <2>4
<1>6. IsRecursion(g, base, F, m)
  <2>1. g = [t \in SUBSET m |-> IF t = {} THEN base ELSE F[<<Max(t), g[Rest(t)]>>]]
    BY <1>5
  <2> HIDE DEF g
  <2>2. QED  BY <2>1 DEF IsRecursion
<1>7. QED  BY <1>3, <1>6

\* From a base step by step.
AreSteps(h, base, F, n) ==
    /\ h = [k \in 0 .. n |-> h[k]]
    /\ h[0] = base
    /\ \A k \in 1 .. n : h[k] = F[<<k, h[k - 1]>>]

LEMMA StepsExist ==
    ASSUME NEW n \in Nat, NEW base, NEW F
    PROVE  \E h : AreSteps(h, base, F, n)
<1> DEFINE g == RecursionOn(base, F, 1 .. n)
           h == [k \in 0 .. n |-> g[1 .. k]]
<1>1. IsRecursion(g, base, F, 1 .. n)
  BY RecursionsExist
<1> HIDE DEF g
<1>2. \A s \in SUBSET (1 .. n) :
         g[s] = IF s = {} THEN base ELSE F[<<Max(s), g[s \ {Max(s)}]>>]
  BY <1>1 DEF IsRecursion
<1>3. h[0] = base
  <2>1. 1 .. 0 = {} /\ {} \in SUBSET (1 .. n)
    OBVIOUS
  <2>2. h[0] = g[{}]
    BY <2>1
  <2> HIDE DEF h
  <2>3. QED  BY <1>2, <2>1, <2>2
<1>4. ASSUME NEW k \in 1 .. n PROVE h[k] = F[<<k, h[k - 1]>>]
  <2> DEFINE s == 1 .. k
  <2>1. s \in SUBSET (1 .. n) /\ s # {} /\ k \in s /\ \A x \in s : k >= x
    OBVIOUS
  <2>2. Max(s) = k
    <3>1. Max(s) \in s /\ \A x \in s : Max(s) >= x
      <4>1. \E x \in s : \A y \in s : x >= y
        BY <2>1
      <4> HIDE DEF s
      <4>2. QED  BY <4>1 DEF Max
    <3>2. k \in Nat /\ s \subseteq Nat
      OBVIOUS
    <3> HIDE DEF s
    <3>3. Max(s) \in Nat /\ Max(s) >= k /\ k >= Max(s)
      BY <2>1, <3>1, <3>2
    <3>4. QED  BY <3>2, <3>3
  <2>3. s \ {k} = 1 .. k - 1
    OBVIOUS
  <2>4. h[k] = g[s] /\ h[k - 1] = g[s \ {k}]
    <3>1. k \in 0 .. n /\ k - 1 \in 0 .. n
      OBVIOUS
    <3>2. QED  BY <2>3, <3>1
  <2> HIDE DEF s, h
  <2>5. QED  BY <1>2, <2>1, <2>2, <2>4
<1>5. AreSteps(h, base, F, n)
  BY <1>3, <1>4 DEF AreSteps
<1>6. QED  BY <1>5

\* What holds of a base and passes from each step to the next holds to the end.
LEMMA StepByStep ==
    ASSUME NEW n \in Nat, NEW S \in SUBSET (0 .. n), 0 \in S,
           \A k \in 1 .. n : k - 1 \in S => k \in S
    PROVE  S = 0 .. n
<1> DEFINE Bad == (0 .. n) \ S
<1>1. SUFFICES ASSUME Bad # {} PROVE FALSE
  OBVIOUS
<1>2. Bad \in SUBSET Nat
  OBVIOUS
<1>3. Least(Bad) \in Bad /\ \A y \in Bad : Least(Bad) <= y
  <2> HIDE DEF Bad
  <2>1. QED  BY <1>1, <1>2, LeastIn
<1>4. PICK k \in Bad : \A y \in Bad : k <= y
  BY <1>3
<1>5. k \in 1 .. n /\ k - 1 \in 0 .. n /\ k - 1 \notin Bad
  BY <1>2, <1>4
<1>6. QED  BY <1>4, <1>5

----------------------------------------------------------------------------
(* Sequences put together, and the hops of an element.                       *)

LEMMA ConcatenatedIs ==
    ASSUME NEW H, NEW a \in Seq(H), NEW b \in Seq(H)
    PROVE  a \o b \in Seq(H) /\ \A x : x \in ToSet(a \o b) <=> x \in ToSet(a) \/ x \in ToSet(b)
<1>2. /\ a \o b \in Seq(H) /\ Len(a \o b) = Len(a) + Len(b)
      /\ Len(a) \in Nat /\ Len(b) \in Nat
      /\ DOMAIN a = 1 .. Len(a) /\ DOMAIN b = 1 .. Len(b)
      /\ DOMAIN (a \o b) = 1 .. Len(a) + Len(b)
      /\ \A i \in 1 .. Len(a) : (a \o b)[i] = a[i]
      /\ \A i \in 1 .. Len(b) : (a \o b)[Len(a) + i] = b[i]
  OBVIOUS
<1>3. ASSUME NEW i \in 1 .. Len(a) + Len(b)
      PROVE  i \in 1 .. Len(a) \/ \E j \in 1 .. Len(b) : i = Len(a) + j
  <2>1. i \notin 1 .. Len(a) => i - Len(a) \in 1 .. Len(b) /\ i = Len(a) + (i - Len(a))
    BY <1>2
  <2>2. QED  BY <2>1
<1>4. \A i \in 1 .. Len(a) : i \in 1 .. Len(a) + Len(b)
  BY <1>2
<1>5. \A i \in 1 .. Len(b) : Len(a) + i \in 1 .. Len(a) + Len(b)
  BY <1>2
<1>6. ASSUME NEW x \in ToSet(a \o b) PROVE x \in ToSet(a) \/ x \in ToSet(b)
  <2>1. PICK i \in 1 .. Len(a) + Len(b) : x = (a \o b)[i]
    BY <1>2, <1>6 DEF ToSet
  <2>2. CASE i \in 1 .. Len(a)
    BY <1>2, <2>1, <2>2 DEF ToSet
  <2>3. CASE \E j \in 1 .. Len(b) : i = Len(a) + j
    BY <1>2, <2>1, <2>3 DEF ToSet
  <2>4. QED  BY <1>3, <2>2, <2>3
<1>7. ASSUME NEW x, x \in ToSet(a) \/ x \in ToSet(b) PROVE x \in ToSet(a \o b)
  <2>1. CASE x \in ToSet(a)
    <3>1. PICK i \in 1 .. Len(a) : x = a[i]
      BY <1>2, <2>1 DEF ToSet
    <3>2. x = (a \o b)[i] /\ i \in DOMAIN (a \o b)
      BY <1>2, <1>4, <3>1
    <3>3. QED  BY <3>2 DEF ToSet
  <2>2. CASE x \in ToSet(b)
    <3>1. PICK i \in 1 .. Len(b) : x = b[i]
      BY <1>2, <2>2 DEF ToSet
    <3>2. x = (a \o b)[Len(a) + i] /\ Len(a) + i \in DOMAIN (a \o b)
      BY <1>2, <1>5, <3>1
    <3>3. QED  BY <3>2 DEF ToSet
  <2>3. QED  BY <1>7, <2>1, <2>2
<1>8. QED  BY <1>2, <1>6, <1>7

LEMMA FlattenedIs ==
    ASSUME NEW H, NEW seqs \in Seq(Seq(H))
    PROVE  /\ FlattenSeq(seqs) \in Seq(H)
           /\ \A x : x \in ToSet(FlattenSeq(seqs))
                        <=> \E i \in DOMAIN seqs : x \in ToSet(seqs[i])
<1> DEFINE n == Len(seqs)
           X == Seq(H)
           F == [p \in (1 .. n) \X X |-> IF p[1] = 1 THEN seqs[1] ELSE p[2] \o seqs[p[1]]]
<1>1. n \in Nat /\ DOMAIN seqs = 1 .. n /\ \A i \in 1 .. n : seqs[i] \in X
  OBVIOUS
<1>2. CASE n = 0
  <2>1. FlattenSeq(seqs) = <<>> /\ DOMAIN seqs = {}
    BY <1>1, <1>2 DEF FlattenSeq
  <2>2. QED  BY <2>1 DEF ToSet
<1>3. CASE n # 0
  <2> DEFINE IsFlat(f) == f = [i \in 1 .. n |-> IF i = 1 THEN seqs[i] ELSE f[i - 1] \o seqs[i]]
             f == CHOOSE g : IsFlat(g)
  <2>1. FlattenSeq(seqs) = f[n]
    BY <1>3 DEF FlattenSeq
  <2>2. <<>> \in X
    OBVIOUS
  <2>3. PICK h : AreSteps(h, <<>>, F, n)
    <3> HIDE DEF n, F
    <3>1. QED  BY <1>1, StepsExist
  <2>4. \A k \in 1 .. n : h[k - 1] \in X =>
           /\ h[k] \in X
           /\ h[k] = IF k = 1 THEN seqs[k] ELSE h[k - 1] \o seqs[k]
    <3>1. SUFFICES ASSUME NEW k \in 1 .. n, h[k - 1] \in X
                   PROVE  /\ h[k] \in X
                          /\ h[k] = IF k = 1 THEN seqs[k] ELSE h[k - 1] \o seqs[k]
      OBVIOUS
    <3>2. seqs[k] \in X /\ (k = 1 => seqs[k] = seqs[1])
      BY <1>1
    <3> HIDE DEF X
    <3>3. h[k] = IF k = 1 THEN seqs[1] ELSE h[k - 1] \o seqs[k]
      BY <2>3, <3>1 DEF AreSteps
    <3>4. h[k - 1] \o seqs[k] \in X
      BY <3>1, <3>2 DEF X
    <3>5. QED  BY <3>2, <3>3, <3>4
  <2> HIDE DEF F, X
  <2>5. \A k \in 0 .. n : h[k] \in X
    <3> DEFINE S == {k \in 0 .. n : h[k] \in X}
    <3>1. 0 \in S /\ \A k \in 1 .. n : k - 1 \in S => k \in S
      <4>1. 0 \in 0 .. n /\ \A k \in 1 .. n : k \in 0 .. n
        BY <1>1
      <4> HIDE DEF n
      <4>2. QED  BY <2>2, <2>3, <2>4, <4>1 DEF AreSteps
    <3>2. S \in SUBSET (0 .. n)
      OBVIOUS
    <3> HIDE DEF S
    <3>3. S = 0 .. n
      BY <1>1, <3>1, <3>2, StepByStep
    <3>4. QED  BY <3>3 DEF S
  <2> DEFINE g == [k \in 1 .. n |-> h[k]]
  <2>6. IsFlat(g)
    <3>1. \A k \in 1 .. n : k # 1 => k - 1 \in 1 .. n
      BY <1>1
    <3>2. \A k \in 1 .. n : k - 1 \in 0 .. n
      BY <1>1
    <3>3. \A k \in 1 .. n : g[k] = IF k = 1 THEN seqs[k] ELSE g[k - 1] \o seqs[k]
      BY <2>4, <2>5, <3>1, <3>2
    <3>4. QED  BY <3>3
  <2>7. IsFlat(f)
    <3> HIDE DEF g, IsFlat
    <3>1. QED  BY <2>6
  <2>8. \A k \in 1 .. n : f[k] = IF k = 1 THEN seqs[k] ELSE f[k - 1] \o seqs[k]
    <3> HIDE DEF f
    <3>1. QED  BY <2>7
  <2> HIDE DEF f, g
  <2> DEFINE Holds(k) == /\ f[k] \in X
                         /\ \A x : x \in ToSet(f[k]) <=> \E i \in 1 .. k : x \in ToSet(seqs[i])
             S == {0} \cup {k \in 1 .. n : Holds(k)}
  <2>9. ASSUME NEW k \in 1 .. n, k - 1 \in S
        PROVE  Holds(k)
    <3>1. CASE k = 1
      <4>1. f[k] = seqs[k] /\ 1 .. k = {k}
        BY <2>8, <3>1
      <4>2. QED  BY <1>1, <4>1
    <3>2. CASE k # 1
      <4>1. Holds(k - 1) /\ k - 1 \in 1 .. n
        BY <1>1, <2>9, <3>2
      <4>2. f[k] = f[k - 1] \o seqs[k] /\ seqs[k] \in X
        BY <1>1, <2>8, <3>2
      <4>3. ASSUME NEW a \in X, NEW b \in X
            PROVE  a \o b \in X /\ \A x : x \in ToSet(a \o b) <=> x \in ToSet(a) \/ x \in ToSet(b)
        BY ConcatenatedIs DEF X
      <4>4. \A i : i \in 1 .. k <=> i \in 1 .. k - 1 \/ i = k
        BY <3>2
      <4>5. f[k] \in X /\ \A x : x \in ToSet(f[k]) <=> x \in ToSet(f[k - 1]) \/ x \in ToSet(seqs[k])
        BY <4>1, <4>2, <4>3
      <4>6. QED  BY <4>1, <4>4, <4>5
    <3>3. QED  BY <3>1, <3>2
  <2>10. S = 0 .. n
    <3>1. S \in SUBSET (0 .. n)
      BY <1>1
    <3>2. 0 \in S /\ \A k \in 1 .. n : k - 1 \in S => k \in S
      BY <2>9
    <3> HIDE DEF S
    <3>3. QED  BY <1>1, <3>1, <3>2, StepByStep
  <2>11. Holds(n)
    <3>1. n \in S /\ n # 0
      <4>1. n \in 0 .. n
        BY <1>1
      <4> HIDE DEF S
      <4>2. QED  BY <1>3, <2>10, <4>1
    <3>2. QED  BY <3>1
  <2>12. QED  BY <1>1, <2>1, <2>11 DEF X
<1>4. QED  BY <1>2, <1>3

Hops == [to : DOMAIN drawing.elems, vote : {-1, 0, 1}]

\* h is a hop out of element i along segment seg.
HopsAlong(seg, i, h) ==
    \/ seg.from = i /\ h = [to |-> seg.to, vote |-> seg.flow]
    \/ seg.to = i /\ h = [to |-> seg.from, vote |-> -seg.flow]

LEMMA HopsAre ==
    ASSUME drawing \in Drawings, NEW i
    PROVE  /\ HopsFrom(i) \in Seq(Hops)
           /\ \A h : h \in ToSet(HopsFrom(i))
                        <=> \E k \in DOMAIN drawing.segs : HopsAlong(drawing.segs[k], i, h)
<1> DEFINE out(seg) == IF seg.from = i THEN <<[to |-> seg.to, vote |-> seg.flow]>> ELSE <<>>
           in(seg)  == IF seg.to = i THEN <<[to |-> seg.from, vote |-> -seg.flow]>> ELSE <<>>
           hops(seg) == out(seg) \o in(seg)
           segs == drawing.segs
           Segs == [from : DOMAIN drawing.elems, to : DOMAIN drawing.elems, flow : {-1, 0, 1}]
           seqs == [k \in DOMAIN segs |-> hops(segs[k])]
<1>1. segs \in Seq(Segs)
  BY DrawingsAssumption
<1>2. ASSUME NEW seg \in Segs
      PROVE  hops(seg) \in Seq(Hops) /\ \A h : h \in ToSet(hops(seg)) <=> HopsAlong(seg, i, h)
  <2> DEFINE a == [to |-> seg.to, vote |-> seg.flow]
             b == [to |-> seg.from, vote |-> -seg.flow]
  <2>1. a \in Hops /\ b \in Hops
    BY DEF Hops
  <2>2. \A h : HopsAlong(seg, i, h) <=> (seg.from = i /\ h = a) \/ (seg.to = i /\ h = b)
    BY DEF HopsAlong
  <2> HIDE DEF a, b
  <2>3. out(seg) = (IF seg.from = i THEN <<a>> ELSE <<>>)
        /\ in(seg) = (IF seg.to = i THEN <<b>> ELSE <<>>)
    BY DEF a, b
  <2> HIDE DEF out, in
  <2>4. out(seg) \in Seq(Hops) /\ \A h : h \in ToSet(out(seg)) <=> seg.from = i /\ h = a
    BY <2>1, <2>3 DEF ToSet
  <2>5. in(seg) \in Seq(Hops) /\ \A h : h \in ToSet(in(seg)) <=> seg.to = i /\ h = b
    BY <2>1, <2>3 DEF ToSet
  <2>6. QED  BY <2>2, <2>4, <2>5, ConcatenatedIs
<1>3. HopsFrom(i) = FlattenSeq(seqs)
  BY DEF HopsFrom
<1> DEFINE n == Len(segs)
<1>4. n \in Nat /\ DOMAIN segs = 1 .. n /\ \A k \in 1 .. n : segs[k] \in Segs
  <2> HIDE DEF segs, Segs
  <2>1. QED  BY <1>1
<1> HIDE DEF hops, Segs, segs
<1>5. seqs \in Seq(Seq(Hops)) /\ DOMAIN seqs = 1 .. n
  <2>1. \A k \in 1 .. n : hops(segs[k]) \in Seq(Hops)
    BY <1>2, <1>4
  <2> DEFINE S == Seq(Hops)
  <2> HIDE DEF S, n
  <2>2. seqs = [k \in 1 .. n |-> hops(segs[k])] /\ DOMAIN seqs = 1 .. n
    BY <1>4
  <2>3. \A k \in 1 .. n : seqs[k] \in S
    BY <2>1, <2>2 DEF S
  <2> HIDE DEF seqs
  <2>4. seqs \in [1 .. n -> S]
    BY <2>2, <2>3
  <2>5. seqs \in Seq(S)
    BY <1>4, <2>4
  <2>6. QED  BY <2>2, <2>5 DEF S
<1>6. \A k \in 1 .. n : seqs[k] = hops(segs[k])
  BY <1>4
<1> HIDE DEF seqs, n
<1>7. /\ FlattenSeq(seqs) \in Seq(Hops)
      /\ \A h : h \in ToSet(FlattenSeq(seqs)) <=> \E k \in DOMAIN seqs : h \in ToSet(seqs[k])
  BY <1>5, FlattenedIs
<1>8. \A h : h \in ToSet(HopsFrom(i)) <=> \E k \in 1 .. n : HopsAlong(segs[k], i, h)
  BY <1>2, <1>3, <1>4, <1>5, <1>6, <1>7
<1>9. QED  BY <1>3, <1>4, <1>7, <1>8 DEF segs

\* Every hop can be taken back, its vote turned.
LEMMA HopsReturn ==
    ASSUME drawing \in Drawings, NEW i \in DOMAIN drawing.elems, NEW h \in ToSet(HopsFrom(i))
    PROVE  /\ h.to \in DOMAIN drawing.elems /\ h.vote \in {-1, 0, 1}
           /\ [to |-> i, vote |-> -h.vote] \in ToSet(HopsFrom(h.to))
<1>1. PICK k \in DOMAIN drawing.segs : HopsAlong(drawing.segs[k], i, h)
  BY HopsAre
<1> DEFINE seg == drawing.segs[k]
           b == [to |-> i, vote |-> -h.vote]
<1>2. seg \in [from : DOMAIN drawing.elems, to : DOMAIN drawing.elems, flow : {-1, 0, 1}]
  <2> DEFINE segs == drawing.segs
             Segs == [from : DOMAIN drawing.elems, to : DOMAIN drawing.elems, flow : {-1, 0, 1}]
  <2>1. segs \in Seq(Segs)
    BY DrawingsAssumption
  <2> HIDE DEF Segs
  <2>2. seg \in Segs
    BY <2>1
  <2>3. QED  BY <2>2 DEF Segs
<1> HIDE DEF seg
<1>3. /\ h.to \in DOMAIN drawing.elems /\ h.vote \in {-1, 0, 1}
      /\ HopsAlong(seg, h.to, b)
  <2>1. CASE seg.from = i /\ h = [to |-> seg.to, vote |-> seg.flow]
    <3>1. h.to = seg.to /\ h.vote = seg.flow /\ b = [to |-> seg.from, vote |-> -seg.flow]
      BY <2>1
    <3>2. QED  BY <1>2, <3>1 DEF HopsAlong
  <2>2. CASE seg.to = i /\ h = [to |-> seg.from, vote |-> -seg.flow]
    <3>1. h.to = seg.from /\ h.vote = -seg.flow /\ -(-seg.flow) = seg.flow
      BY <1>2, <2>2
    <3>2. b = [to |-> seg.to, vote |-> seg.flow]
      BY <2>2, <3>1
    <3>3. QED  BY <1>2, <3>1, <3>2 DEF HopsAlong
  <2>3. QED  BY <1>1, <2>1, <2>2 DEF HopsAlong, seg
<1>4. b \in ToSet(HopsFrom(h.to))
  <2> HIDE DEF b
  <2>1. QED  BY <1>3, HopsAre DEF seg
<1>5. QED  BY <1>3, <1>4

----------------------------------------------------------------------------
(* A walk. Sets that grow while they can come to rest as soon as there is    *)
(* nothing left to add.                                                      *)

LEMMA GrowsUntilClosed ==
    ASSUME NEW P, IsFiniteSet(P), NEW N \in Nat, Cardinality(P) = N,
           NEW a, a[0] \in SUBSET P, a[0] # {},
           NEW M, \A A \in SUBSET P : M[A] \in SUBSET P /\ A \subseteq M[A],
           \A k \in 1 .. N : a[k] = M[a[k - 1]]
    PROVE  a[N] \in SUBSET P /\ a[0] \subseteq a[N] /\ M[a[N]] = a[N]
<1>1. \A k \in 1 .. N : k \in 0 .. N /\ k - 1 \in 0 .. N
  OBVIOUS
<1>2. \A k \in 0 .. N : a[k] \in SUBSET P /\ a[0] \subseteq a[k]
  <2> DEFINE S == {k \in 0 .. N : a[k] \in SUBSET P /\ a[0] \subseteq a[k]}
  <2>1. 0 \in S
    OBVIOUS
  <2>2. ASSUME NEW k \in 1 .. N, k - 1 \in S PROVE k \in S
    <3>1. a[k - 1] \in SUBSET P /\ a[0] \subseteq a[k - 1] /\ a[k] = M[a[k - 1]]
      BY <2>2
    <3>2. a[k] \in SUBSET P /\ a[k - 1] \subseteq a[k]
      BY <3>1
    <3>3. QED  BY <1>1, <3>1, <3>2
  <2>3. S \in SUBSET (0 .. N)
    OBVIOUS
  <2> HIDE DEF S
  <2>4. S = 0 .. N
    BY <2>1, <2>2, <2>3, StepByStep
  <2>5. QED  BY <2>4 DEF S
<1>3. ASSUME NEW k \in 0 .. N, M[a[k]] = a[k]
      PROVE  a[N] = a[k]
  <2> DEFINE S == {m \in 0 .. N : k <= m => a[m] = a[k]}
  <2>1. 0 \in S
    <3>1. k <= 0 => k = 0
      OBVIOUS
    <3>2. QED  BY <3>1
  <2>2. ASSUME NEW m \in 1 .. N, m - 1 \in S PROVE m \in S
    <3>1. SUFFICES ASSUME k <= m PROVE a[m] = a[k]
      BY <1>1
    <3>2. k = m \/ k <= m - 1
      BY <3>1
    <3>3. CASE k <= m - 1
      <4>1. a[m - 1] = a[k]
        BY <2>2, <3>3
      <4>2. QED  BY <1>3, <4>1
    <3>4. QED  BY <3>2, <3>3
  <2>3. S \in SUBSET (0 .. N)
    OBVIOUS
  <2> HIDE DEF S
  <2>4. S = 0 .. N
    BY <2>1, <2>2, <2>3, StepByStep
  <2>5. N \in S /\ k <= N
    BY <2>4
  <2>6. QED  BY <2>5 DEF S
<1>4. SUFFICES ASSUME \A k \in 0 .. N : M[a[k]] # a[k] PROVE FALSE
  <2>1. N \in 0 .. N
    OBVIOUS
  <2>2. QED  BY <1>2, <1>3, <2>1
<1>5. \A k \in 0 .. N : k < Cardinality(a[k])
  <2> DEFINE S == {k \in 0 .. N : k < Cardinality(a[k])}
  <2>1. \A k \in 0 .. N : IsFiniteSet(a[k]) /\ Cardinality(a[k]) \in Nat
    BY <1>2, FS_Subset, FS_CardinalityType
  <2>2. 0 \in S
    <3>1. 0 \in 0 .. N
      OBVIOUS
    <3>2. Cardinality(a[0]) # 0
      BY <2>1, <3>1, FS_EmptySet
    <3>3. QED  BY <2>1, <3>1, <3>2
  <2>3. ASSUME NEW k \in 1 .. N, k - 1 \in S PROVE k \in S
    <3>1. /\ a[k] = M[a[k - 1]] /\ a[k] # a[k - 1]
          /\ a[k - 1] \in SUBSET a[k]
      BY <1>1, <1>2, <1>4
    <3>2. Cardinality(a[k - 1]) <= Cardinality(a[k]) /\ Cardinality(a[k - 1]) # Cardinality(a[k])
      BY <1>1, <2>1, <3>1, FS_Subset
    <3>3. /\ Cardinality(a[k]) \in Nat /\ Cardinality(a[k - 1]) \in Nat
          /\ k - 1 < Cardinality(a[k - 1]) /\ k \in 0 .. N
      BY <1>1, <2>1, <2>3
    <3>4. k < Cardinality(a[k])
      BY <3>2, <3>3
    <3>5. QED  BY <3>3, <3>4
  <2>4. S \in SUBSET (0 .. N)
    OBVIOUS
  <2> HIDE DEF S
  <2>5. S = 0 .. N
    BY <2>2, <2>3, <2>4, StepByStep
  <2>6. QED  BY <2>5 DEF S
<1>6. Cardinality(a[N]) <= N /\ Cardinality(a[N]) \in Nat
  <2>1. a[N] \in SUBSET P
    BY <1>2
  <2>2. QED  BY <2>1, FS_Subset, FS_CardinalityType
<1>7. N \in 0 .. N
  OBVIOUS
<1>8. QED  BY <1>5, <1>6, <1>7

\* T holds what the walk from i reaches from what it holds.
Walked(T, i, allowed) ==
    /\ <<i, FALSE>> \in T
    /\ \A s \in T : \A h \in ToSet(HopsFrom(s[1])) :
          (s[1] = i \/ TagOf(s[1]) = None) /\ h.vote \in allowed =>
              <<h.to, s[2] \/ h.vote # 0>> \in T

\* A walk holds no more than that.
LEMMA WalkIs ==
    ASSUME drawing \in Drawings, NEW i \in DOMAIN drawing.elems, NEW allowed
    PROVE  /\ Walk(i, allowed) \subseteq (DOMAIN drawing.elems) \X BOOLEAN
           /\ Walked(Walk(i, allowed), i, allowed)
           /\ \A T : Walked(T, i, allowed) => Walk(i, allowed) \subseteq T
<1> DEFINE E == DOMAIN drawing.elems
           P == E \X BOOLEAN
           N == 2 * Cardinality(E)
           On(A) == {t \in A : t[1] = i \/ TagOf(t[1]) = None}
           Out(s) == {<<h.to, s[2] \/ h.vote # 0>> :
                         h \in {g \in ToSet(HopsFrom(s[1])) : g.vote \in allowed}}
           Grown(A) == A \cup UNION {Out(s) : s \in On(A)}
           IsAlong(f) == f = [n \in 0 .. N |-> IF n = 0 THEN {<<i, FALSE>>} ELSE Grown(f[n - 1])]
           along == CHOOSE f : IsAlong(f)
           X == SUBSET P
           F == [p \in (1 .. N) \X X |-> Grown(p[2])]
           M == [A \in X |-> Grown(A)]
<1>1. Walk(i, allowed) = along[N]
  BY DEF Walk
<1>2. IsFiniteSet(P) /\ Cardinality(P) = N /\ N \in Nat
  <2>1. IsFiniteSet(E)
    BY DrawingsAssumption
  <2>2. IsFiniteSet(BOOLEAN) /\ Cardinality(BOOLEAN) = 2
    <3> DEFINE D == {TRUE} \cup {FALSE}
    <3>1. IsFiniteSet({TRUE}) /\ Cardinality({TRUE}) = 1
      BY FS_Singleton
    <3>2. IsFiniteSet(D) /\ Cardinality(D) = 1 + 1
      BY <3>1, FS_AddElement
    <3>3. D = BOOLEAN
      OBVIOUS
    <3> HIDE DEF D
    <3>4. IsFiniteSet(D) /\ Cardinality(D) = 2
      BY <3>2
    <3>5. QED  BY <3>3, <3>4, Zenon
  <2> DEFINE B == BOOLEAN
  <2> HIDE DEF E, B
  <2>3. IsFiniteSet(E \X B) /\ Cardinality(E \X B) = Cardinality(E) * Cardinality(B)
    BY <2>1, <2>2, FS_Product DEF B
  <2>4. Cardinality(E) \in Nat
    BY <2>1, FS_CardinalityType
  <2>5. QED  BY <2>2, <2>3, <2>4 DEF B
<1>3. \A s \in P : \A h \in ToSet(HopsFrom(s[1])) : <<h.to, s[2] \/ h.vote # 0>> \in P
  <2>1. SUFFICES ASSUME NEW s \in P, NEW h \in ToSet(HopsFrom(s[1]))
                 PROVE  <<h.to, s[2] \/ h.vote # 0>> \in P
    OBVIOUS
  <2>2. h.to \in E
    BY HopsReturn
  <2>3. (s[2] \/ h.vote # 0) \in BOOLEAN
    OBVIOUS
  <2>4. QED  BY <2>2, <2>3
<1>4. <<i, FALSE>> \in P
  OBVIOUS
<1>5. \A A \in X : Grown(A) \in X /\ A \subseteq Grown(A)
  BY <1>3
<1>6. \A A : /\ A \subseteq Grown(A)
             /\ \A s \in A : \A h \in ToSet(HopsFrom(s[1])) :
                   (s[1] = i \/ TagOf(s[1]) = None) /\ h.vote \in allowed =>
                      <<h.to, s[2] \/ h.vote # 0>> \in Grown(A)
  OBVIOUS
<1>7. \A A, T : A \subseteq T /\ Walked(T, i, allowed) => Grown(A) \subseteq T
  BY DEF Walked
<1> HIDE DEF E, P, N, Grown, X
<1>8. PICK h : AreSteps(h, {<<i, FALSE>>}, F, N)
  <2> DEFINE base == {<<i, FALSE>>}
  <2> HIDE DEF base, F
  <2>1. \E h : AreSteps(h, base, F, N)
    BY <1>2, StepsExist
  <2>2. QED  BY <2>1 DEF base
<1>9. {<<i, FALSE>>} \in X
  BY <1>4 DEF X
<1>10. \A k \in 1 .. N : k \in 0 .. N /\ k - 1 \in 0 .. N /\ k # 0
  BY <1>2
<1>11. \A k \in 0 .. N : h[k] \in X
  <2> DEFINE S == {k \in 0 .. N : h[k] \in X}
  <2>1. 0 \in S
    <3>1. 0 \in 0 .. N
      BY <1>2
    <3>2. h[0] = {<<i, FALSE>>}
      BY <1>8, Zenon DEF AreSteps
    <3>3. QED  BY <1>9, <3>1, <3>2, Zenon
  <2>2. \A k \in 1 .. N : k - 1 \in S => k \in S
    BY <1>5, <1>8, <1>10 DEF AreSteps
  <2>3. S \in SUBSET (0 .. N)
    OBVIOUS
  <2> HIDE DEF S
  <2>4. S = 0 .. N
    BY <1>2, <2>1, <2>2, <2>3, StepByStep
  <2>5. QED  BY <2>4 DEF S
<1>12. IsAlong(h)
  <2>1. \A k \in 1 .. N : h[k] = Grown(h[k - 1])
    BY <1>8, <1>10, <1>11 DEF AreSteps
  <2>2. \A k \in 0 .. N : h[k] = IF k = 0 THEN {<<i, FALSE>>} ELSE Grown(h[k - 1])
    <3>1. \A k \in 0 .. N : k # 0 => k \in 1 .. N
      BY <1>2
    <3>2. h[0] = {<<i, FALSE>>}
      BY <1>8 DEF AreSteps
    <3>3. QED  BY <2>1, <3>1, <3>2
  <2>3. h = [k \in 0 .. N |-> h[k]]
    BY <1>8 DEF AreSteps
  <2>4. QED  BY <2>2, <2>3
<1>13. IsAlong(along)
  <2> HIDE DEF IsAlong
  <2>1. QED  BY <1>12
<1> HIDE DEF along
<1>14. /\ along[0] = {<<i, FALSE>>}
       /\ \A k \in 1 .. N : along[k] = Grown(along[k - 1])
  <2>1. 0 \in 0 .. N
    BY <1>2
  <2>2. QED  BY <1>10, <1>13, <2>1
<1>15. \A k \in 0 .. N : along[k] \in X
  <2> DEFINE S == {k \in 0 .. N : along[k] \in X}
  <2>1. 0 \in S
    <3>1. 0 \in 0 .. N
      BY <1>2
    <3>2. QED  BY <1>9, <1>14, <3>1, Zenon
  <2>2. \A k \in 1 .. N : k - 1 \in S => k \in S
    BY <1>5, <1>10, <1>14
  <2>3. S \in SUBSET (0 .. N)
    OBVIOUS
  <2> HIDE DEF S
  <2>4. S = 0 .. N
    BY <1>2, <2>1, <2>2, <2>3, StepByStep
  <2>5. QED  BY <2>4 DEF S
<1>16. along[N] \in SUBSET P /\ along[0] \subseteq along[N] /\ Grown(along[N]) = along[N]
  <2>1. \A A \in SUBSET P : M[A] = Grown(A) /\ M[A] \in SUBSET P /\ A \subseteq M[A]
    BY <1>5 DEF X
  <2>2. \A k \in 1 .. N : along[k] = M[along[k - 1]]
    BY <1>10, <1>14, <1>15
  <2>3. along[0] \in SUBSET P /\ along[0] # {}
    BY <1>9, <1>14 DEF X
  <2> HIDE DEF M
  <2>4. along[N] \in SUBSET P /\ along[0] \subseteq along[N] /\ M[along[N]] = along[N]
    BY <1>2, <2>1, <2>2, <2>3, GrowsUntilClosed
  <2>5. QED  BY <2>1, <2>4
<1>17. Walked(along[N], i, allowed)
  <2>1. <<i, FALSE>> \in along[N]
    BY <1>14, <1>16
  <2>2. QED  BY <1>6, <1>16, <2>1 DEF Walked
<1>18. ASSUME NEW T, Walked(T, i, allowed) PROVE along[N] \subseteq T
  <2> DEFINE S == {k \in 0 .. N : along[k] \subseteq T}
  <2>1. 0 \in S
    <3>1. <<i, FALSE>> \in T
      BY <1>18 DEF Walked
    <3>2. 0 \in 0 .. N
      BY <1>2
    <3>3. along[0] \subseteq T
      BY <1>14, <3>1, Zenon
    <3>4. QED  BY <3>2, <3>3
  <2>2. \A k \in 1 .. N : k - 1 \in S => k \in S
    BY <1>7, <1>10, <1>14, <1>18
  <2>3. S \in SUBSET (0 .. N)
    OBVIOUS
  <2> HIDE DEF S
  <2>4. S = 0 .. N
    BY <1>2, <2>1, <2>2, <2>3, StepByStep
  <2>5. N \in S
    BY <1>2, <2>4
  <2>6. QED  BY <2>5 DEF S
<1>19. QED  BY <1>1, <1>16, <1>17, <1>18 DEF P, E

----------------------------------------------------------------------------
(* A search. Its frontier, what it has touched and the buckets it filled     *)
(* after each hop out of an entry.                                           *)

Visits == [at : DOMAIN drawing.elems, votes : SUBSET {-1, 1}]
Buckets == [src : Tags, dst : Tags, class : {"directed", "branch", "none"}]
Searches == [seen : SUBSET (DOMAIN drawing.elems), stack : Seq(Visits), found : SUBSET Buckets]

LEMMA AppendedIs ==
    ASSUME NEW H, NEW s \in Seq(H), NEW e \in H
    PROVE  /\ Append(s, e) \in Seq(H) /\ Append(s, e) # <<>>
           /\ \A x : x \in ToSet(Append(s, e)) <=> x \in ToSet(s) \/ x = e
<1> DEFINE t == Append(s, e)
<1>1. /\ Len(s) \in Nat /\ DOMAIN s = 1 .. Len(s) /\ DOMAIN t = 1 .. Len(s) + 1
      /\ \A i \in 1 .. Len(s) : t[i] = s[i]
      /\ t[Len(s) + 1] = e /\ t \in Seq(H) /\ t # <<>>
  OBVIOUS
<1> HIDE DEF t
<1>2. \A i : i \in 1 .. Len(s) + 1 <=> i \in 1 .. Len(s) \/ i = Len(s) + 1
  BY <1>1
<1>3. \A x : x \in ToSet(t) <=> x \in ToSet(s) \/ x = e
  BY <1>1, <1>2 DEF ToSet
<1>4. QED  BY <1>1, <1>3 DEF t

LEMMA PoppedIs ==
    ASSUME NEW H, NEW s \in Seq(H), s # <<>>
    PROVE  /\ Front(s) \in Seq(H) /\ Last(s) \in H
           /\ \A x : x \in ToSet(s) <=> x \in ToSet(Front(s)) \/ x = Last(s)
<1> DEFINE t == SubSeq(s, 1, Len(s) - 1)
           n == Len(s)
<1>1. /\ n \in Nat /\ n # 0 /\ DOMAIN s = 1 .. n /\ DOMAIN t = 1 .. n - 1
      /\ \A i \in 1 .. n - 1 : t[i] = s[i]
      /\ s[n] \in H /\ t \in Seq(H)
  OBVIOUS
<1>2. t = Front(s) /\ s[n] = Last(s)
  BY DEF Front, Last
<1> HIDE DEF t, n
<1>3. \A i : i \in 1 .. n <=> i \in 1 .. n - 1 \/ i = n
  BY <1>1
<1>4. \A x : x \in ToSet(s) <=> x \in ToSet(t) \/ x = s[n]
  BY <1>1, <1>3 DEF ToSet
<1>5. QED  BY <1>1, <1>2, <1>4

LEMMA TouchStays ==
    ASSUME start \in Terminals, NEW cur \in Visits, NEW search \in Searches,
           NEW hop \in Hops
    PROVE  Touch(cur, search, hop) \in Searches
<1> DEFINE other == TagOf(hop.to)
           votes == cur.votes \cup ({hop.vote} \ {0})
           visit == [at |-> hop.to, votes |-> votes]
           bucket == Bucket(TagOf(start), other, votes)
<1>1. hop.to \in DOMAIN drawing.elems /\ hop.vote \in {-1, 0, 1}
  BY DEF Hops
<1>2. votes \in SUBSET {-1, 1}
  BY <1>1 DEF Visits
<1>3. visit \in Visits
  BY <1>1, <1>2 DEF Visits
<1>4. TagOf(start) \in Tags /\ (other # None => other \in Tags)
  BY <1>1 DEF Tags, Terminals
<1>5. other # None => bucket \in Buckets
  <2> HIDE DEF other, votes
  <2>1. SUFFICES ASSUME NEW a \in Tags, NEW b \in Tags
                 PROVE  Bucket(a, b, votes) \in Buckets
    BY <1>4 DEF bucket
  <2>2. Sorted(a, b)[1] \in Tags /\ Sorted(a, b)[2] \in Tags
    BY DEF Sorted
  <2>3. QED  BY <2>2 DEF Bucket, Buckets
<1>6. Append(search.stack, visit) \in Seq(Visits)
  <2>1. search.stack \in Seq(Visits)
    BY DEF Searches
  <2> HIDE DEF visit
  <2>2. QED  BY <1>3, <2>1, AppendedIs
<1> DEFINE on == IF other = None THEN Append(search.stack, visit) ELSE search.stack
           add == IF other \in {None, TagOf(start)} THEN search.found
                  ELSE search.found \cup {bucket}
<1>7. Touch(cur, search, hop) = IF hop.to \in search.seen THEN search ELSE
         [seen |-> search.seen \cup {hop.to}, stack |-> on, found |-> add]
  BY DEF Touch
<1>8. on \in Seq(Visits)
  <2>1. search.stack \in Seq(Visits)
    BY DEF Searches
  <2>2. QED  BY <1>6, <2>1
<1> HIDE DEF on, bucket, other
<1>9. add \in SUBSET Buckets
  BY <1>5 DEF Searches
<1>10. search.seen \cup {hop.to} \in SUBSET (DOMAIN drawing.elems)
  BY <1>1 DEF Searches
<1> HIDE DEF add
<1>11. QED  BY <1>7, <1>8, <1>9, <1>10 DEF Searches

\* h is a search hop by hop.
AreTouched(h, cur, base, hops) ==
    /\ h[0] = base
    /\ \A k \in 1 .. Len(hops) : h[k] = Touch(cur, h[k - 1], hops[k])
    /\ \A k \in 0 .. Len(hops) : h[k] \in Searches

LEMMA ExpandedIs ==
    ASSUME drawing \in Drawings, start \in Terminals,
           NEW cur \in Visits, NEW base \in Searches
    PROVE  \E h : /\ AreTouched(h, cur, base, HopsFrom(cur.at))
                  /\ FoldLeft(LAMBDA search, hop : Touch(cur, search, hop), base,
                              HopsFrom(cur.at)) = h[Len(HopsFrom(cur.at))]
<1> DEFINE hops == HopsFrom(cur.at)
           n == Len(hops)
           D == 1 .. n
           F == [p \in D \X Searches |-> Touch(cur, p[2], hops[p[1]])]
           IsFold(g) == g = [s \in SUBSET D |-> IF s = {} THEN base
                                ELSE Touch(cur, g[s \ {Max(s)}], hops[Max(s)])]
           fold == CHOOSE g : IsFold(g)
           g0 == RecursionOn(base, F, D)
<1>1. n \in Nat /\ DOMAIN hops = D /\ \A k \in D : hops[k] \in Hops
  <2>1. hops \in Seq(Hops)
    BY HopsAre
  <2> DEFINE H == Hops
  <2> HIDE DEF hops, H
  <2>2. hops \in Seq(H)
    BY <2>1 DEF H
  <2>3. QED  BY <2>2 DEF H
<1>2. FoldLeft(LAMBDA search, hop : Touch(cur, search, hop), base, hops) = fold[D]
  <2> HIDE DEF hops, D
  <2>1. DOMAIN hops = D
    BY <1>1
  <2>2. FoldLeft(LAMBDA search, hop : Touch(cur, search, hop), base, hops)
           = (CHOOSE g : g = [s \in SUBSET (DOMAIN hops) |-> IF s = {} THEN base
                                ELSE Touch(cur, g[s \ {Max(s)}], hops[Max(s)])])[DOMAIN hops]
    BY DEF FoldLeft, MapThenFoldSet
  <2>3. QED  BY <2>1, <2>2
<1>3. \A s \in SUBSET D : g0[s] = IF s = {} THEN base ELSE F[<<Max(s), g0[s \ {Max(s)}]>>]
  <2>1. IsRecursion(g0, base, F, D)
    <3>1. D \in SUBSET D
      OBVIOUS
    <3> HIDE DEF F, hops
    <3>2. QED  BY <1>1, <3>1, RecursionsExist
  <2> HIDE DEF g0, F, D
  <2>2. QED  BY <2>1 DEF IsRecursion
<1>4. DOMAIN g0 = SUBSET D /\ g0 = [s \in SUBSET D |-> g0[s]]
  <2>1. IsRecursion(g0, base, F, D)
    <3>1. D \in SUBSET D
      OBVIOUS
    <3> HIDE DEF F, hops
    <3>2. QED  BY <1>1, <3>1, RecursionsExist
  <2> HIDE DEF g0, F, D
  <2>2. QED  BY <2>1 DEF IsRecursion
<1>5. \A s \in SUBSET D : s # {} => Max(s) \in s /\ s \ {Max(s)} \in SUBSET D
  <2>1. \A s \in SUBSET D : s # {} => Max(s) \in s
    <3> HIDE DEF hops
    <3>1. QED  BY <1>1, GreatestIn
  <2>2. QED  BY <2>1
<1> HIDE DEF g0, D, hops, n
<1>6. ASSUME NEW g, \A s \in SUBSET D : s # {} /\ g[s \ {Max(s)}] \in Searches =>
                       g[s] = Touch(cur, g[s \ {Max(s)}], hops[Max(s)]),
             g[{}] = base
      PROVE  \A s \in SUBSET D : g[s] \in Searches
  <2> DEFINE Bad == {s \in SUBSET D : g[s] \notin Searches}
  <2>1. SUFFICES ASSUME Bad # {} PROVE FALSE
    OBVIOUS
  <2>2. PICK m \in Bad : \A k \in Bad : k \subseteq m => k = m
    <3>1. Bad \in SUBSET (SUBSET D)
      OBVIOUS
    <3>2. IsFiniteSet(D)
      BY <1>1, FS_Interval DEF D
    <3> HIDE DEF Bad, D
    <3>3. QED  BY <2>1, <3>1, <3>2, LeastPart
  <2>3. m \in SUBSET D /\ m # {}
    BY <1>6, <2>2
  <2>4. m \ {Max(m)} \in SUBSET D /\ m \ {Max(m)} # m /\ Max(m) \in D
    BY <1>5, <2>3
  <2>5. g[m \ {Max(m)}] \in Searches
    BY <2>2, <2>4
  <2>6. g[m] = Touch(cur, g[m \ {Max(m)}], hops[Max(m)])
    BY <1>6, <2>3, <2>5
  <2>7. g[m] \in Searches
    BY <1>1, <2>4, <2>5, <2>6, TouchStays
  <2>8. QED  BY <2>2, <2>7
<1>7. \A s \in SUBSET D : s # {} /\ g0[s \ {Max(s)}] \in Searches =>
         g0[s] = Touch(cur, g0[s \ {Max(s)}], hops[Max(s)])
  BY <1>3, <1>5
<1>8. {} \in SUBSET D
  OBVIOUS
<1>9. g0[{}] = base
  BY <1>3, <1>8
<1>10. \A s \in SUBSET D : g0[s] \in Searches
  BY <1>6, <1>7, <1>9
<1>11. IsFold(g0)
  <2>1. \A s \in SUBSET D : g0[s] = IF s = {} THEN base
                                    ELSE Touch(cur, g0[s \ {Max(s)}], hops[Max(s)])
    BY <1>5, <1>7, <1>9, <1>10
  <2>2. QED  BY <1>4, <2>1
<1>12. IsFold(fold)
  <2> HIDE DEF IsFold
  <2>1. QED  BY <1>11
<1> HIDE DEF fold
<1>13. \A s \in SUBSET D : fold[s] = IF s = {} THEN base
                                     ELSE Touch(cur, fold[s \ {Max(s)}], hops[Max(s)])
  BY <1>12
<1>14. \A s \in SUBSET D : fold[s] \in Searches
  <2>1. fold[{}] = base
    BY <1>8, <1>13
  <2>2. \A s \in SUBSET D : s # {} => fold[s] = Touch(cur, fold[s \ {Max(s)}], hops[Max(s)])
    BY <1>13
  <2>3. QED  BY <1>6, <2>1, <2>2
<1> DEFINE h == [k \in 0 .. n |-> fold[1 .. k]]
<1>15. h[0] = base
  <2>1. 1 .. 0 = {} /\ 0 \in 0 .. n
    BY <1>1
  <2>2. h[0] = fold[1 .. 0]
    BY <2>1
  <2>3. QED  BY <1>8, <1>13, <2>1, <2>2
<1>16. ASSUME NEW k \in 0 .. n
       PROVE  h[k] \in Searches
  <2>1. 1 .. k \in SUBSET D
    BY <1>1 DEF D
  <2>2. QED  BY <1>14, <2>1
<1>17. ASSUME NEW k \in 1 .. n
       PROVE  h[k] = Touch(cur, h[k - 1], hops[k])
  <2> DEFINE s == 1 .. k
  <2>1. s \in SUBSET D /\ s # {} /\ k \in s /\ (\A x \in s : k >= x) /\ s \subseteq Nat /\ k \in Nat
    BY <1>1 DEF D
  <2>2. s \ {k} = 1 .. k - 1 /\ k \in 0 .. n /\ k - 1 \in 0 .. n
    BY <1>1
  <2>3. h[k] = fold[s] /\ h[k - 1] = fold[s \ {k}]
    BY <2>2
  <2> HIDE DEF s, h
  <2>4. Max(s) = k
    <3>1. Max(s) \in s /\ \A x \in s : Max(s) >= x
      <4>1. \E x \in s : \A y \in s : x >= y
        BY <2>1
      <4>2. QED  BY <4>1 DEF Max
    <3>2. Max(s) \in Nat /\ Max(s) >= k /\ k >= Max(s)
      BY <2>1, <3>1
    <3>3. QED  BY <2>1, <3>2
  <2>5. QED  BY <1>13, <2>1, <2>3, <2>4
<1>18. h[n] = fold[D]
  BY <1>1 DEF D
<1> HIDE DEF h
<1>19. AreTouched(h, cur, base, hops)
  BY <1>15, <1>16, <1>17 DEF AreTouched, n
<1>20. QED  BY <1>2, <1>18, <1>19 DEF hops, n

----------------------------------------------------------------------------
(* Paths. An entry of the frontier stands for a path from the start of the   *)
(* search, with the votes on it, that can be walked back with them turned.   *)

Allowed == SUBSET {-1, 0, 1}

Forward(x, votes) ==
    \A allowed \in Allowed :
        {0} \cup votes \subseteq allowed => <<x, votes # {}>> \in Walk(start, allowed)

BackFrom(j, x, votes) ==
    \A u \in BOOLEAN, allowed \in Allowed :
        {0} \cup {-v : v \in votes} \subseteq allowed /\ <<x, u>> \in Walk(j, allowed) =>
            <<start, u \/ votes # {}>> \in Walk(j, allowed)

Led(e) ==
    /\ (e.at = start /\ e.votes = {}) \/ TagOf(e.at) = None
    /\ Forward(e.at, e.votes)
    /\ \A j \in Terminals : BackFrom(j, e.at, e.votes)

\* A bucket says of its pair of tags what the drawing has.
Drawn(f) ==
    /\ f.src # f.dst
    /\ Joins(f.src, f.dst, {-1, 0, 1}, BOOLEAN)
    /\ Joins(f.dst, f.src, {-1, 0, 1}, BOOLEAN)
    /\ f.class = "directed" => Joins(f.src, f.dst, {0, 1}, {TRUE})
    /\ f.class = "none" => Joins(f.src, f.dst, {0}, {FALSE})
    /\ f.class # "directed" => f.src < f.dst

VotesOn(cur, hop) == cur.votes \cup ({hop.vote} \ {0})

\* One hop further, and back.
LEMMA HopLeads ==
    ASSUME drawing \in Drawings, start \in Terminals, NEW cur \in Visits, Led(cur),
           NEW hop \in ToSet(HopsFrom(cur.at))
    PROVE  /\ VotesOn(cur, hop) \in SUBSET {-1, 1}
           /\ Forward(hop.to, VotesOn(cur, hop))
           /\ \A j \in Terminals : hop.to = j \/ TagOf(hop.to) = None =>
                 BackFrom(j, hop.to, VotesOn(cur, hop))
<1> DEFINE V == VotesOn(cur, hop)
           W == cur.votes
           x == cur.at
           y == hop.to
<1>1. /\ x \in DOMAIN drawing.elems /\ W \in SUBSET {-1, 1}
      /\ start \in DOMAIN drawing.elems
  BY DEF Visits, Terminals
<1>2. /\ y \in DOMAIN drawing.elems /\ hop.vote \in {-1, 0, 1}
      /\ [to |-> x, vote |-> -hop.vote] \in ToSet(HopsFrom(y))
  BY <1>1, HopsReturn
<1>3. V \in SUBSET {-1, 1} /\ (V # {} <=> W # {} \/ hop.vote # 0)
  BY <1>1, <1>2 DEF VotesOn
<1>4. Forward(y, V)
  <2>1. SUFFICES ASSUME NEW allowed \in Allowed, {0} \cup V \subseteq allowed
                 PROVE  <<y, V # {}>> \in Walk(start, allowed)
    BY DEF Forward
  <2>2. W \subseteq allowed /\ hop.vote \in allowed
    BY <1>2, <2>1 DEF VotesOn
  <2>3. <<x, W # {}>> \in Walk(start, allowed)
    BY <2>1, <2>2 DEF Led, Forward
  <2>4. x = start \/ TagOf(x) = None
    BY DEF Led
  <2>5. Walked(Walk(start, allowed), start, allowed)
    BY <1>1, WalkIs
  <2>6. <<y, (W # {}) \/ hop.vote # 0>> \in Walk(start, allowed)
    <3> DEFINE s == <<x, W # {}>>
    <3>1. s[1] = x /\ s[2] = (W # {})
      OBVIOUS
    <3> HIDE DEF s
    <3>2. s \in Walk(start, allowed)
      BY <2>3 DEF s
    <3>3. <<hop.to, s[2] \/ hop.vote # 0>> \in Walk(start, allowed)
      BY <2>2, <2>4, <2>5, <3>1, <3>2 DEF Walked
    <3>4. QED  BY <3>1, <3>3
  <2>7. (V # {}) = ((W # {}) \/ hop.vote # 0)
    BY <1>3
  <2> HIDE DEF V
  <2>8. QED  BY <2>6, <2>7
<1>5. ASSUME NEW j \in Terminals, y = j \/ TagOf(y) = None PROVE BackFrom(j, y, V)
  <2>1. SUFFICES ASSUME NEW u \in BOOLEAN, NEW allowed \in Allowed,
                        {0} \cup {-v : v \in V} \subseteq allowed,
                        <<y, u>> \in Walk(j, allowed)
                 PROVE  <<start, u \/ V # {}>> \in Walk(j, allowed)
    BY DEF BackFrom
  <2>2. {-v : v \in W} \subseteq allowed /\ -hop.vote \in allowed
    <3>1. W \subseteq V /\ (hop.vote # 0 => hop.vote \in V)
      BY DEF VotesOn
    <3>2. \A v \in {-1, 0, 1} : v = 0 <=> -v = 0
      OBVIOUS
    <3>3. hop.vote = 0 => -hop.vote = 0
      BY <1>2, <3>2, Zenon
    <3> HIDE DEF V
    <3>4. QED  BY <2>1, <3>1, <3>3, Zenon
  <2>3. Walked(Walk(j, allowed), j, allowed)
    BY WalkIs DEF Terminals
  <2>4. -hop.vote # 0 <=> hop.vote # 0
    BY <1>2
  <2>5. <<x, u \/ hop.vote # 0>> \in Walk(j, allowed)
    <3> DEFINE s == <<y, u>>
               b == [to |-> x, vote |-> -hop.vote]
    <3>1. s[1] = y /\ s[2] = u /\ b.to = x /\ b.vote = -hop.vote
      OBVIOUS
    <3>2. s \in Walk(j, allowed) /\ b \in ToSet(HopsFrom(y))
      BY <1>2, <2>1
    <3> HIDE DEF s, b
    <3>3. <<b.to, s[2] \/ b.vote # 0>> \in Walk(j, allowed)
      BY <1>5, <2>2, <2>3, <3>1, <3>2 DEF Walked
    <3>4. (s[2] \/ b.vote # 0) = (u \/ hop.vote # 0)
      BY <2>4, <3>1
    <3>5. QED  BY <3>1, <3>3, <3>4
  <2>6. <<start, (u \/ hop.vote # 0) \/ W # {}>> \in Walk(j, allowed)
    <3>1. BackFrom(j, x, W)
      BY DEF Led
    <3>2. (u \/ hop.vote # 0) \in BOOLEAN /\ {0} \subseteq allowed
      BY <2>1
    <3>3. QED  BY <2>2, <2>5, <3>1, <3>2 DEF BackFrom
  <2>7. ((u \/ hop.vote # 0) \/ W # {}) = (u \/ V # {})
    BY <1>3
  <2> HIDE DEF V
  <2>8. QED  BY <2>6, <2>7
<1>6. QED  BY <1>3, <1>4, <1>5

LEMMA TagsAreNumbers ==
    ASSUME drawing \in Drawings
    PROVE  Tags \in SUBSET Nat
<1>1. \A i \in DOMAIN drawing.elems : OwnTag(i) \in Nat
  <2>1. SUFFICES ASSUME NEW i \in DOMAIN drawing.elems PROVE OwnTag(i) \in Nat
    OBVIOUS
  <2>2. i \in Nat /\ drawing.elems[i].label \in Nat
    BY DrawingsAssumption
  <2> DEFINE l == drawing.elems[i].label
  <2>3. OwnTag(i) = IF l = None THEN 100 + i ELSE l
    BY DEF OwnTag
  <2>4. l \in Nat
    BY <2>2
  <2> HIDE DEF l
  <2>5. QED  BY <2>2, <2>3, <2>4
<1>2. ASSUME NEW i \in DOMAIN drawing.elems PROVE TagOf(i) \in Nat
  <2>1. drawing.elems[i].parent \in DOMAIN drawing.elems \cup {None} /\ None \in Nat
    BY DrawingsAssumption DEF None
  <2>2. QED  BY <1>1, <2>1 DEF TagOf
<1>3. QED  BY <1>2 DEF Tags, Terminals

\* A path that ends at another tag fills a bucket.
LEMMA BucketIsDrawn ==
    ASSUME drawing \in Drawings, start \in Terminals, NEW cur \in Visits, Led(cur),
           NEW hop \in ToSet(HopsFrom(cur.at)), TagOf(hop.to) \notin {None, TagOf(start)}
    PROVE  /\ Drawn(Bucket(TagOf(start), TagOf(hop.to), VotesOn(cur, hop)))
           /\ LET f == Bucket(TagOf(start), TagOf(hop.to), VotesOn(cur, hop))
              IN  {f.src, f.dst} = {TagOf(start), TagOf(hop.to)}
<1> DEFINE V == VotesOn(cur, hop)
           y == hop.to
           a == TagOf(start)
           b == TagOf(y)
           f == Bucket(a, b, V)
<1>1. y \in Terminals /\ y \in DOMAIN drawing.elems
  <2>1. cur.at \in DOMAIN drawing.elems
    BY DEF Visits
  <2>2. y \in DOMAIN drawing.elems
    BY <2>1, HopsReturn
  <2>3. QED  BY <2>2 DEF Terminals
<1>2. V \in SUBSET {-1, 1} /\ Forward(y, V) /\ BackFrom(y, y, V)
  BY <1>1, HopLeads
<1>3. ASSUME NEW allowed \in Allowed, {0} \cup V \subseteq allowed
      PROVE  <<y, V # {}>> \in Walk(start, allowed)
  BY <1>2, <1>3 DEF Forward
<1>4. ASSUME NEW allowed \in Allowed, {0} \cup {-v : v \in V} \subseteq allowed
      PROVE  <<start, V # {}>> \in Walk(y, allowed)
  <2>1. Walked(Walk(y, allowed), y, allowed)
    BY <1>1, WalkIs
  <2>2. <<y, FALSE>> \in Walk(y, allowed)
    BY <2>1 DEF Walked
  <2>3. <<start, FALSE \/ V # {}>> \in Walk(y, allowed)
    BY <1>2, <1>4, <2>2 DEF BackFrom
  <2>4. (FALSE \/ V # {}) = (V # {})
    OBVIOUS
  <2> HIDE DEF V
  <2>5. QED  BY <2>3, <2>4
<1>5. ASSUME NEW allowed \in Allowed, {0} \cup V \subseteq allowed,
             NEW voted, (V # {}) \in voted
      PROVE  Joins(a, b, allowed, voted)
  BY <1>1, <1>3, <1>5 DEF Joins
<1>6. ASSUME NEW allowed \in Allowed, {0} \cup {-v : v \in V} \subseteq allowed,
             NEW voted, (V # {}) \in voted
      PROVE  Joins(b, a, allowed, voted)
  BY <1>1, <1>4, <1>6 DEF Joins
<1>7. /\ {-1, 0, 1} \in Allowed /\ {0, 1} \in Allowed /\ {0} \in Allowed
      /\ {0} \cup V \subseteq {-1, 0, 1} /\ {0} \cup {-v : v \in V} \subseteq {-1, 0, 1}
      /\ (V # {}) \in BOOLEAN
  BY <1>2 DEF Allowed
<1>8. Joins(a, b, {-1, 0, 1}, BOOLEAN) /\ Joins(b, a, {-1, 0, 1}, BOOLEAN)
  BY <1>5, <1>6, <1>7
<1>9. a # b
  OBVIOUS
<1>10. V = {1} => Joins(a, b, {0, 1}, {TRUE})
  <2>1. SUFFICES ASSUME V = {1} PROVE Joins(a, b, {0, 1}, {TRUE})
    OBVIOUS
  <2>2. {0} \cup V \subseteq {0, 1} /\ (V # {}) \in {TRUE}
    BY <2>1
  <2>3. QED  BY <1>5, <1>7, <2>2
<1>11. V = {-1} => Joins(b, a, {0, 1}, {TRUE})
  <2>1. SUFFICES ASSUME V = {-1} PROVE Joins(b, a, {0, 1}, {TRUE})
    OBVIOUS
  <2>2. \A v \in V : -v = 1
    <3>1. \A v \in {-1} : v + 1 = 0 /\ v \in Int
      OBVIOUS
    <3>2. \A v \in Int : v + 1 = 0 => -v = 1
      OBVIOUS
    <3>3. QED  BY <2>1, <3>1, <3>2, Zenon
  <2>3. (V # {}) \in {TRUE}
    BY <2>1
  <2> HIDE DEF V
  <2>4. {0} \cup {-v : v \in V} \subseteq {0, 1}
    BY <2>2
  <2>5. QED  BY <1>6, <1>7, <2>3, <2>4
<1>12. V = {} => Joins(a, b, {0}, {FALSE}) /\ Joins(b, a, {0}, {FALSE})
  <2>1. SUFFICES ASSUME V = {} PROVE Joins(a, b, {0}, {FALSE}) /\ Joins(b, a, {0}, {FALSE})
    OBVIOUS
  <2>2. {0} \cup V \subseteq {0} /\ {0} \cup {-v : v \in V} \subseteq {0} /\ (V # {}) \in {FALSE}
    BY <2>1
  <2>3. QED  BY <1>5, <1>6, <1>7, <2>2
<1>13. /\ (f.src = a /\ f.dst = b) \/ (f.src = b /\ f.dst = a)
       /\ f.class = "directed" => \/ V = {1} /\ f.src = a /\ f.dst = b
                                  \/ V = {-1} /\ f.src = b /\ f.dst = a
       /\ f.class = "none" => V = {}
       /\ f.class # "directed" => f.src < f.dst
  <2>0. a \in Nat /\ b \in Nat /\ a # b
    BY <1>1, TagsAreNumbers DEF Tags
  <2> HIDE DEF a, b, V
  <2>1. \/ Sorted(a, b)[1] = a /\ Sorted(a, b)[2] = b
        \/ Sorted(a, b)[1] = b /\ Sorted(a, b)[2] = a
    BY DEF Sorted
  <2>2. CASE V = {1}
    <3>1. f = [src |-> a, dst |-> b, class |-> "directed"]
      BY <2>2 DEF Bucket
    <3>2. QED  BY <2>2, <3>1
  <2>3. CASE V = {-1}
    <3>1. {-1} # {1}
      <4>1. -1 # 1
        OBVIOUS
      <4>2. QED  BY <4>1, Zenon
    <3>2. f = [src |-> b, dst |-> a, class |-> "directed"]
      BY <2>3, <3>1 DEF Bucket
    <3>3. QED  BY <2>3, <3>2
  <2>4. CASE V \notin {{1}, {-1}}
    <3>1. f = [src |-> Sorted(a, b)[1], dst |-> Sorted(a, b)[2],
               class |-> IF V = {} THEN "none" ELSE "branch"]
      BY <2>4 DEF Bucket
    <3>2. Sorted(a, b)[1] < Sorted(a, b)[2]
      BY <2>0 DEF Sorted
    <3>3. QED  BY <2>1, <3>1, <3>2
  <2>5. QED  BY <2>2, <2>3, <2>4
<1> HIDE DEF a, b, V, f
<1>14. Drawn(f) /\ {f.src, f.dst} = {a, b}
  BY <1>8, <1>9, <1>10, <1>11, <1>12, <1>13 DEF Drawn
<1>15. QED  BY <1>14 DEF f, a, b, V

----------------------------------------------------------------------------
(* The whole search. What it has touched is on the frontier, expanded or in  *)
(* a bucket.                                                                 *)

OnStack(x, visits) == \E e \in ToSet(visits) : e.at = x

Linked(a, b, pairs) == \E f \in pairs : {f.src, f.dst} = {a, b}

Foreign(x) == TagOf(x) \notin {None, TagOf(start)}

\* All entries and buckets of a search are right.
IsRight(s) ==
    /\ \A e \in ToSet(s.stack) : Led(e)
    /\ \A f \in s.found : Drawn(f)

\* Search r has come to s.
CameTo(r, s) ==
    /\ r.seen \subseteq s.seen
    /\ ToSet(r.stack) \subseteq ToSet(s.stack)
    /\ r.found \subseteq s.found
    /\ \A x \in s.seen \ r.seen :
          /\ TagOf(x) = None => OnStack(x, s.stack)
          /\ Foreign(x) => Linked(TagOf(start), TagOf(x), s.found)

LEMMA ComesOn ==
    ASSUME NEW r, NEW s, NEW t, CameTo(r, s), CameTo(s, t)
    PROVE  CameTo(r, t)
<1>1. ASSUME NEW x, OnStack(x, s.stack) PROVE OnStack(x, t.stack)
  BY <1>1 DEF CameTo, OnStack
<1>2. ASSUME NEW a, NEW b, Linked(a, b, s.found) PROVE Linked(a, b, t.found)
  BY <1>2 DEF CameTo, Linked
<1>3. QED  BY <1>1, <1>2 DEF CameTo

LEMMA TouchKeeps ==
    ASSUME drawing \in Drawings, start \in Terminals, NEW cur \in Visits, Led(cur),
           NEW search \in Searches, IsRight(search), NEW hop \in ToSet(HopsFrom(cur.at))
    PROVE  /\ IsRight(Touch(cur, search, hop))
           /\ CameTo(search, Touch(cur, search, hop))
           /\ hop.to \in Touch(cur, search, hop).seen
<1> DEFINE t == Touch(cur, search, hop)
           other == TagOf(hop.to)
           V == VotesOn(cur, hop)
           visit == [at |-> hop.to, votes |-> V]
           bucket == Bucket(TagOf(start), other, V)
           on == IF other = None THEN Append(search.stack, visit) ELSE search.stack
           add == IF Foreign(hop.to) THEN search.found \cup {bucket} ELSE search.found
<1>1. t = IF hop.to \in search.seen THEN search
          ELSE [seen |-> search.seen \cup {hop.to}, stack |-> on, found |-> add]
  BY DEF Touch, VotesOn, Foreign
<1>2. CASE hop.to \in search.seen
  <2>1. t = search
    BY <1>1, <1>2
  <2> HIDE DEF t
  <2>2. QED  BY <1>2, <2>1 DEF CameTo, t
<1>3. CASE hop.to \notin search.seen
  <2>1. t.seen = search.seen \cup {hop.to} /\ t.stack = on /\ t.found = add
    BY <1>1, <1>3
  <2>2. hop.to \in DOMAIN drawing.elems /\ search.stack \in Seq(Visits)
    BY HopsReturn DEF Visits, Searches
  <2>3. /\ V \in SUBSET {-1, 1} /\ Forward(hop.to, V)
        /\ \A j \in Terminals : hop.to = j \/ TagOf(hop.to) = None => BackFrom(j, hop.to, V)
    BY HopLeads
  <2>4. visit \in Visits /\ visit.at = hop.to /\ visit.votes = V
    BY <2>2, <2>3 DEF Visits
  <2> HIDE DEF t, V, visit
  <2>5. other = None => Led(visit)
    BY <2>3, <2>4 DEF Led
  <2>6. \A x : x \in ToSet(on) <=> x \in ToSet(search.stack) \/ (other = None /\ x = visit)
    <3>1. \A x : x \in ToSet(Append(search.stack, visit))
                    <=> x \in ToSet(search.stack) \/ x = visit
      BY <2>2, <2>4, AppendedIs
    <3>2. QED  BY <3>1
  <2>7. Foreign(hop.to) =>
           Drawn(bucket) /\ {bucket.src, bucket.dst} = {TagOf(start), TagOf(hop.to)}
    BY BucketIsDrawn DEF Foreign, V
  <2> HIDE DEF on, bucket
  <2>8. IsRight(t)
    BY <2>1, <2>5, <2>6, <2>7 DEF IsRight
  <2>9. ASSUME NEW x \in t.seen \ search.seen
        PROVE  /\ TagOf(x) = None => OnStack(x, t.stack)
               /\ Foreign(x) => Linked(TagOf(start), TagOf(x), t.found)
    <3>1. x = hop.to
      BY <2>1, <2>9
    <3>2. TagOf(x) = None => OnStack(x, on)
      BY <2>4, <2>6, <3>1 DEF OnStack
    <3>3. Foreign(x) => Linked(TagOf(start), TagOf(x), add)
      BY <2>7, <3>1 DEF Linked
    <3>4. QED  BY <2>1, <3>2, <3>3
  <2>10. CameTo(search, t)
    BY <2>1, <2>6, <2>9 DEF CameTo
  <2>11. QED  BY <2>1, <2>8, <2>10 DEF t
<1>4. QED  BY <1>2, <1>3

LEMMA SearchKeeps ==
    ASSUME drawing \in Drawings, start \in Terminals, NEW cur \in Visits, Led(cur),
           NEW base \in Searches, IsRight(base), NEW h,
           AreTouched(h, cur, base, HopsFrom(cur.at))
    PROVE  LET s == h[Len(HopsFrom(cur.at))]
           IN  /\ s \in Searches /\ IsRight(s) /\ CameTo(base, s)
               /\ \A hop \in ToSet(HopsFrom(cur.at)) : hop.to \in s.seen
<1> DEFINE hops == HopsFrom(cur.at)
           n == Len(hops)
           Kept(k) == /\ IsRight(h[k]) /\ CameTo(base, h[k])
                      /\ \A i \in 1 .. k : hops[i].to \in h[k].seen
           S == {k \in 0 .. n : Kept(k)}
<1>1. n \in Nat /\ DOMAIN hops = 1 .. n /\ \A k \in 1 .. n : hops[k] \in ToSet(hops)
  <2>1. hops \in Seq(Hops)
    BY HopsAre
  <2> DEFINE H == Hops
  <2> HIDE DEF hops, H
  <2>2. hops \in Seq(H)
    BY <2>1 DEF H
  <2>3. QED  BY <2>2 DEF ToSet
<1>2. /\ h[0] = base
      /\ \A k \in 1 .. n : h[k] = Touch(cur, h[k - 1], hops[k])
      /\ \A k \in 0 .. n : h[k] \in Searches
  BY DEF AreTouched
<1> HIDE DEF n
<1>3. 0 \in S
  <2>1. CameTo(base, base)
    BY DEF CameTo
  <2>2. 1 .. 0 = {} /\ 0 \in 0 .. n
    BY <1>1
  <2> HIDE DEF hops
  <2>3. QED  BY <1>2, <2>1, <2>2
<1>4. ASSUME NEW k \in 1 .. n, k - 1 \in S PROVE k \in S
  <2>1. k - 1 \in 0 .. n /\ k \in 0 .. n /\ Kept(k - 1)
    BY <1>1, <1>4
  <2>2. /\ IsRight(h[k]) /\ CameTo(h[k - 1], h[k]) /\ hops[k].to \in h[k].seen
    <3>1. hops[k] \in ToSet(HopsFrom(cur.at)) /\ h[k - 1] \in Searches
          /\ h[k] = Touch(cur, h[k - 1], hops[k]) /\ IsRight(h[k - 1])
      BY <1>1, <1>2, <2>1
    <3> HIDE DEF hops
    <3>2. QED  BY <3>1, TouchKeeps
  <2>3. CameTo(base, h[k])
    BY <2>1, <2>2, ComesOn
  <2>4. h[k - 1].seen \subseteq h[k].seen
    BY <2>2 DEF CameTo
  <2>5. \A i : i \in 1 .. k <=> i \in 1 .. k - 1 \/ i = k
    BY <1>1
  <2> HIDE DEF hops
  <2>6. \A i \in 1 .. k : hops[i].to \in h[k].seen
    BY <2>1, <2>2, <2>4, <2>5
  <2>7. QED  BY <2>1, <2>2, <2>3, <2>6
<1>5. S \in SUBSET (0 .. n)
  OBVIOUS
<1> HIDE DEF S
<1>6. S = 0 .. n
  BY <1>1, <1>3, <1>4, <1>5, StepByStep
<1>7. n \in S /\ n \in 0 .. n
  BY <1>1, <1>6
<1>8. Kept(n) /\ h[n] \in Searches
  BY <1>2, <1>7 DEF S
<1> HIDE DEF hops
<1>9. \A hop \in ToSet(hops) : hop.to \in h[n].seen
  BY <1>1, <1>8 DEF ToSet
<1>10. QED  BY <1>8, <1>9 DEF hops, n

----------------------------------------------------------------------------
(* The invariant.                                                            *)

Served(i) ==
    \A j \in Terminals, v \in BOOLEAN :
        <<j, v>> \in Walk(i, {-1, 0, 1}) /\ TagOf(j) # TagOf(i) =>
            Linked(TagOf(i), TagOf(j), found)

\* Nothing the search could reach is left out.
SearchIsClosed ==
    /\ start \in seen
    /\ \A x \in seen :
          /\ x = start \/ TagOf(x) = None =>
                OnStack(x, stack) \/ \A hop \in ToSet(HopsFrom(x)) : hop.to \in seen
          /\ Foreign(x) => Linked(TagOf(start), TagOf(x), found)

EdgeRecords == [src : Tags, dst : Tags, known : BOOLEAN, noThrough : BOOLEAN,
                forced : BOOLEAN]

Contracted ==
    /\ todo = {} /\ stack = <<>>
    /\ edges \subseteq EdgeRecords
    /\ \A a, b \in Tags : a # b =>
          (Joins(a, b, {-1, 0, 1}, BOOLEAN) <=> Linked(a, b, edges))
    /\ \A e \in edges : e.known /\ ~e.forced => Joins(e.src, e.dst, {0, 1}, {TRUE})
    /\ \A e \in edges : ~e.known /\ ~e.noThrough => Joins(e.src, e.dst, {0}, {FALSE})

GraphInv ==
    /\ drawing \in Drawings /\ phase \in {"contract", "force", "built"}
    /\ todo \in SUBSET Terminals
    /\ [seen |-> seen, stack |-> stack, found |-> found] \in Searches
    /\ \/ start \in Terminals \ todo /\ SearchIsClosed
       \/ start = None /\ todo = Terminals /\ stack = <<>> /\ found = {}
    /\ IsRight([seen |-> seen, stack |-> stack, found |-> found])
    /\ \A i \in Terminals \ todo : i = start \/ Served(i)
    /\ phase # "contract" => Contracted

\* A search that has come to rest served its terminal.
LEMMA SearchServes ==
    ASSUME GraphInv, stack = <<>>, start \in Terminals
    PROVE  Served(start)
<1>1. SUFFICES ASSUME NEW j \in Terminals, NEW v \in BOOLEAN,
                      <<j, v>> \in Walk(start, {-1, 0, 1}), TagOf(j) # TagOf(start)
               PROVE  Linked(TagOf(start), TagOf(j), found)
  BY DEF Served
<1>2. drawing \in Drawings /\ start \in DOMAIN drawing.elems /\ start # None
  BY DrawingsAssumption DEF GraphInv, Terminals
<1>3. SearchIsClosed
  BY <1>2 DEF GraphInv
<1>4. \A x : ~ OnStack(x, stack)
  BY DEF OnStack, ToSet
<1> DEFINE T == seen \X BOOLEAN
<1>5. Walked(T, start, {-1, 0, 1})
  <2>1. <<start, FALSE>> \in T
    BY <1>3 DEF SearchIsClosed
  <2>2. ASSUME NEW s \in T, NEW hop \in ToSet(HopsFrom(s[1])),
               s[1] = start \/ TagOf(s[1]) = None
        PROVE  <<hop.to, s[2] \/ hop.vote # 0>> \in T
    <3>1. hop.to \in seen
      BY <1>3, <1>4, <2>2 DEF SearchIsClosed
    <3>2. (s[2] \/ hop.vote # 0) \in BOOLEAN
      OBVIOUS
    <3>3. QED  BY <3>1, <3>2
  <2> HIDE DEF T
  <2>3. QED  BY <2>1, <2>2 DEF Walked
<1>6. Walk(start, {-1, 0, 1}) \subseteq T
  <2> HIDE DEF T
  <2>1. QED  BY <1>2, <1>5, WalkIs
<1>7. j \in seen
  BY <1>1, <1>6
<1>8. Foreign(j)
  BY <1>1 DEF Foreign, Terminals
<1>9. QED  BY <1>3, <1>7, <1>8 DEF SearchIsClosed

LEMMA SameDrawing ==
    ASSUME drawing' = drawing
    PROVE  /\ Terminals' = Terminals /\ Tags' = Tags /\ Searches' = Searches
           /\ \A i : TagOf(i)' = TagOf(i)
           /\ \A i : HopsFrom(i)' = HopsFrom(i)
           /\ \A i, allowed : Walk(i, allowed)' = Walk(i, allowed)
           /\ \A f : Drawn(f)' <=> Drawn(f)
           /\ \A a, b, allowed, voted : Joins(a, b, allowed, voted)' <=> Joins(a, b, allowed, voted)
<1>1. /\ Terminals' = Terminals /\ Tags' = Tags /\ Searches' = Searches
      /\ \A i : TagOf(i)' = TagOf(i)
  BY DEF Terminals, Tags, Searches, TagOf, OwnTag, Visits, Buckets
<1>2. \A i : HopsFrom(i)' = HopsFrom(i)
  BY DEF HopsFrom
<1>3. \A i, allowed : Walk(i, allowed)' = Walk(i, allowed)
  BY DEF Walk, HopsFrom, TagOf, OwnTag
<1>4. \A a, b, allowed, voted : Joins(a, b, allowed, voted)' <=> Joins(a, b, allowed, voted)
  BY <1>1, <1>3 DEF Joins
<1>5. \A f : Drawn(f)' <=> Drawn(f)
  BY <1>4 DEF Drawn
<1>6. QED  BY <1>1, <1>2, <1>3, <1>4, <1>5

LEMMA GraphInvInit == Init => GraphInv
<1> SUFFICES ASSUME Init PROVE GraphInv
  OBVIOUS
<1> DEFINE s == [seen |-> seen, stack |-> stack, found |-> found]
<1>1. s \in Searches
  <2>1. <<>> \in Seq(Visits)
    OBVIOUS
  <2>2. QED  BY <2>1 DEF Init, Searches
<1>2. IsRight(s)
  BY DEF Init, IsRight, ToSet
<1> HIDE DEF s
<1>3. drawing \in Drawings /\ phase = "contract" /\ todo = Terminals /\ start = None
      /\ stack = <<>> /\ found = {}
  BY DEF Init
<1>4. QED  BY <1>1, <1>2, <1>3 DEF GraphInv, s

LEMMA StartStep ==
    ASSUME GraphInv, Start
    PROVE  GraphInv'
<1> DEFINE s == [seen |-> seen, stack |-> stack, found |-> found]
<1>0. PICK x : x = Min(todo)
  OBVIOUS
<1> DEFINE visit == [at |-> x, votes |-> {}]
<1>1. /\ phase = "contract" /\ stack = <<>> /\ todo # {}
      /\ start' = x /\ todo' = todo \ {x}
      /\ seen' = {x} /\ stack' = <<visit>>
      /\ drawing' = drawing /\ phase' = phase /\ found' = found
  BY <1>0 DEF Start
<1>2. /\ drawing \in Drawings /\ todo \in SUBSET Terminals /\ s \in Searches /\ IsRight(s)
      /\ \A i \in Terminals \ todo : i = start \/ Served(i)
      /\ start \in Terminals \/ todo = Terminals
  BY DEF GraphInv
<1>3. x \in todo
  <2>1. todo \in SUBSET Nat
    BY <1>2, DrawingsAssumption DEF Terminals
  <2>2. \E k \in todo : \A y \in todo : k =< y
    BY <1>1, <2>1, LeastIn
  <2>3. QED  BY <1>0, <2>2 DEF Min
<1>4. /\ Terminals' = Terminals /\ Searches' = Searches
      /\ \A i : TagOf(i)' = TagOf(i)
      /\ \A i, allowed : Walk(i, allowed)' = Walk(i, allowed)
      /\ \A f : Drawn(f)' <=> Drawn(f)
  BY <1>1, SameDrawing
<1>5. x \in Terminals /\ x \in DOMAIN drawing.elems
  BY <1>2, <1>3 DEF Terminals
<1>6. \A e \in ToSet(stack') : e = visit
  <2> HIDE DEF visit
  <2>1. QED  BY <1>1 DEF ToSet
<1>7. visit.at = x /\ visit.votes = {}
  OBVIOUS
<1>8. Led(visit)'
  <2>1. \A allowed : <<x, FALSE>> \in Walk(x, allowed)
    BY <1>2, <1>5, WalkIs DEF Walked
  <2> DEFINE none == visit.votes # {}
  <2>2. none = FALSE
    BY <1>7
  <2>3. \A allowed : <<x, none>> \in Walk(x, allowed)'
    BY <1>4, <2>1, <2>2
  <2>4. \A j, allowed : \A u \in BOOLEAN : (u \/ none) = u
    BY <2>2
  <2>5. QED  
    <3>1. Forward(visit.at, visit.votes)'
      BY <1>1, <1>7, <2>3 DEF Forward
    <3>2. ASSUME NEW j PROVE BackFrom(j, visit.at, visit.votes)'
      <4>1. SUFFICES ASSUME NEW u \in BOOLEAN, NEW allowed,
                            <<visit.at, u>> \in Walk(j, allowed)'
                     PROVE  <<start', u \/ visit.votes # {}>> \in Walk(j, allowed)'
        BY DEF BackFrom
      <4>2. (u \/ visit.votes # {}) = u /\ start' = visit.at
        BY <1>1, <1>7
      <4> HIDE DEF visit
      <4>3. QED  BY <4>1, <4>2
    <3> HIDE DEF visit
    <3>3. QED  BY <1>1, <1>7, <3>1, <3>2 DEF Led
<1>9. [seen |-> seen', stack |-> stack', found |-> found'] \in Searches
  <2>1. visit \in Visits
    BY <1>5 DEF Visits
  <2>2. <<visit>> \in Seq(Visits)
    <3> HIDE DEF visit
    <3>1. QED  BY <2>1
  <2>3. found \in SUBSET Buckets
    BY <1>2 DEF Searches
  <2> HIDE DEF visit
  <2>4. QED  BY <1>1, <1>5, <2>2, <2>3 DEF Searches
<1>10. IsRight([seen |-> seen, stack |-> stack, found |-> found])'
  <2>1. \A f \in found : Drawn(f)
    BY <1>2 DEF IsRight
  <2> HIDE DEF visit
  <2>2. \A e \in ToSet(stack') : Led(e)'
    BY <1>6, <1>8
  <2>3. \A f \in found' : Drawn(f)'
    BY <1>1, <1>4, <2>1
  <2>4. QED  BY <2>2, <2>3 DEF IsRight
<1>11. SearchIsClosed'
  <2>1. OnStack(start, stack)'
    <3>1. visit \in ToSet(stack')
      <4> HIDE DEF visit
      <4>1. QED  BY <1>1 DEF ToSet
    <3>2. visit.at = start'
      BY <1>1, <1>7
    <3> HIDE DEF visit
    <3>3. QED  BY <3>1, <3>2 DEF OnStack
  <2>2. ~ Foreign(start)'
    BY DEF Foreign
  <2>3. QED  BY <1>1, <2>1, <2>2 DEF SearchIsClosed
<1>12. \A i \in Terminals \ todo' : i = start' \/ Served(i)'
  <2>1. SUFFICES ASSUME NEW i \in Terminals \ todo', i # x PROVE Served(i)'
    BY <1>1
  <2>2. i \in Terminals \ todo
    BY <1>1, <2>1
  <2>3. Served(i)
    BY <1>1, <1>2, <2>2, SearchServes
  <2>4. QED  BY <1>1, <1>4, <2>3 DEF Served
<1>13. todo' \in SUBSET Terminals /\ start' \in Terminals \ todo'
  BY <1>1, <1>2, <1>5
<1> HIDE DEF visit, s
<1>14. QED  BY <1>1, <1>2, <1>4, <1>9, <1>10, <1>11, <1>12, <1>13 DEF GraphInv

LEMMA ExpandStep ==
    ASSUME GraphInv, Expand
    PROVE  GraphInv'
<1> DEFINE s == [seen |-> seen, stack |-> stack, found |-> found]
           cur == Last(stack)
           base == [seen |-> seen, stack |-> Front(stack), found |-> found]
           hops == HopsFrom(cur.at)
           end == FoldLeft(LAMBDA search, hop : Touch(cur, search, hop), base, hops)
<1>1. /\ phase = "contract" /\ stack # <<>>
      /\ seen' = end.seen /\ stack' = end.stack /\ found' = end.found
      /\ drawing' = drawing /\ phase' = phase /\ todo' = todo /\ start' = start
  BY DEF Expand
<1>2. /\ drawing \in Drawings /\ todo \in SUBSET Terminals /\ s \in Searches /\ IsRight(s)
      /\ \A i \in Terminals \ todo : i = start \/ Served(i)
      /\ start \in Terminals \ todo /\ SearchIsClosed
  BY <1>1 DEF GraphInv
<1>3. /\ stack \in Seq(Visits) /\ seen \in SUBSET (DOMAIN drawing.elems)
      /\ found \in SUBSET Buckets
  BY <1>2 DEF Searches
<1>4. /\ Front(stack) \in Seq(Visits) /\ cur \in Visits
      /\ \A e : e \in ToSet(stack) <=> e \in ToSet(Front(stack)) \/ e = cur
  <2> DEFINE H == Visits
  <2> HIDE DEF H
  <2>1. stack \in Seq(H)
    BY <1>3 DEF H
  <2>2. Front(stack) \in Seq(H) /\ cur \in H
        /\ \A e : e \in ToSet(stack) <=> e \in ToSet(Front(stack)) \/ e = cur
    BY <1>1, <2>1, PoppedIs
  <2>3. QED  BY <2>2 DEF H
<1>5. base \in Searches
  BY <1>3, <1>4 DEF Searches
<1>6. Led(cur) /\ IsRight(base)
  BY <1>2, <1>4 DEF IsRight
<1> HIDE DEF base, end
<1>7. /\ end \in Searches /\ IsRight(end) /\ CameTo(base, end)
      /\ \A hop \in ToSet(hops) : hop.to \in end.seen
  <2>1. PICK h : /\ AreTouched(h, cur, base, HopsFrom(cur.at))
                 /\ FoldLeft(LAMBDA search, hop : Touch(cur, search, hop), base,
                             HopsFrom(cur.at)) = h[Len(HopsFrom(cur.at))]
    BY <1>2, <1>4, <1>5, ExpandedIs
  <2>2. end = h[Len(hops)]
    BY <2>1 DEF end
  <2> HIDE DEF cur
  <2>3. QED  BY <1>2, <1>4, <1>5, <1>6, <2>1, <2>2, SearchKeeps
<1>8. /\ Terminals' = Terminals /\ Searches' = Searches
      /\ \A i : TagOf(i)' = TagOf(i)
      /\ \A i : HopsFrom(i)' = HopsFrom(i)
      /\ \A i, allowed : Walk(i, allowed)' = Walk(i, allowed)
      /\ \A f : Drawn(f)' <=> Drawn(f)
  BY <1>1, SameDrawing
<1>9. [seen |-> seen', stack |-> stack', found |-> found'] \in Searches
  BY <1>1, <1>7 DEF Searches
<1>10. \A e : Led(e)' <=> Led(e)
  BY <1>1, <1>8 DEF Led, Forward, BackFrom
<1>11. IsRight([seen |-> seen, stack |-> stack, found |-> found])'
  BY <1>1, <1>7, <1>8, <1>10 DEF IsRight
<1>12. seen \subseteq seen' /\ found \subseteq found'
  BY <1>1, <1>7 DEF CameTo, base
<1>13. \A a, b : Linked(a, b, found) => Linked(a, b, found')
  BY <1>12 DEF Linked
<1>14. SearchIsClosed'
  <2>1. start' \in seen'
    BY <1>1, <1>2, <1>12 DEF SearchIsClosed
  <2>2. ASSUME NEW x \in seen', (x = start \/ TagOf(x) = None)'
        PROVE  (OnStack(x, stack) \/ \A hop \in ToSet(HopsFrom(x)) : hop.to \in seen)'
    <3>1. SUFFICES OnStack(x, stack') \/ \A hop \in ToSet(HopsFrom(x)) : hop.to \in seen'
      BY <1>8 DEF OnStack
    <3>2. CASE x \in seen
      <4>1. OnStack(x, stack) \/ \A hop \in ToSet(HopsFrom(x)) : hop.to \in seen
        BY <1>1, <1>2, <1>8, <2>2, <3>2 DEF SearchIsClosed
      <4>2. CASE OnStack(x, stack)
        <5>1. PICK e \in ToSet(stack) : e.at = x
          BY <4>2 DEF OnStack
        <5>2. CASE e = cur
          BY <1>1, <1>7, <5>1, <5>2
        <5>3. CASE e \in ToSet(Front(stack))
          <6>1. e \in ToSet(stack')
            BY <1>1, <1>7, <5>3 DEF CameTo, base
          <6>2. QED  BY <5>1, <6>1 DEF OnStack
        <5>4. QED  BY <1>4, <5>1, <5>2, <5>3
      <4>3. QED  BY <1>12, <4>1, <4>2
    <3>3. CASE x \notin seen
      <4>1. x # start
        BY <1>2, <3>3 DEF SearchIsClosed
      <4>2. TagOf(x) = None
        BY <1>1, <1>8, <2>2, <4>1
      <4>3. OnStack(x, stack')
        BY <1>1, <1>7, <2>2, <3>3, <4>2 DEF CameTo, base
      <4>4. QED  BY <4>3
    <3>4. QED  BY <3>2, <3>3
  <2>3. ASSUME NEW x \in seen', Foreign(x)'
        PROVE  Linked(TagOf(start), TagOf(x), found)'
    <3>1. Foreign(x) /\ TagOf(start)' = TagOf(start) /\ TagOf(x)' = TagOf(x)
      BY <1>1, <1>8, <2>3 DEF Foreign
    <3>2. Linked(TagOf(start), TagOf(x), found')
      <4>1. CASE x \in seen
        BY <1>2, <1>13, <3>1, <4>1 DEF SearchIsClosed
      <4>2. CASE x \notin seen
        BY <1>1, <1>7, <2>3, <3>1, <4>2 DEF CameTo, base
      <4>3. QED  BY <4>1, <4>2
    <3>3. QED  BY <3>1, <3>2 DEF Linked
  <2>4. QED  BY <2>1, <2>2, <2>3 DEF SearchIsClosed
<1>15. \A i \in Terminals \ todo' : i = start' \/ Served(i)'
  <2>1. SUFFICES ASSUME NEW i \in Terminals \ todo, Served(i),
                        NEW j \in Terminals, NEW v \in BOOLEAN,
                        <<j, v>> \in Walk(i, {-1, 0, 1}), TagOf(j) # TagOf(i)
                 PROVE  Linked(TagOf(i), TagOf(j), found')
    <3>1. \A i \in Terminals \ todo : Served(i)' <=>
             \A j \in Terminals, v \in BOOLEAN :
                <<j, v>> \in Walk(i, {-1, 0, 1}) /\ TagOf(j) # TagOf(i) =>
                   Linked(TagOf(i), TagOf(j), found')
      BY <1>8 DEF Served, Linked
    <3>2. QED  BY <1>1, <1>2, <3>1
  <2>2. Linked(TagOf(i), TagOf(j), found)
    BY <2>1 DEF Served
  <2>3. QED  BY <1>13, <2>2
<1> HIDE DEF s, cur
<1>16. QED  BY <1>1, <1>2, <1>8, <1>9, <1>11, <1>14, <1>15 DEF GraphInv

Paired(e, f) == e.src = f.src /\ e.dst = f.dst

\* What is emitted says of each pair what the buckets say.
LEMMA EmittedAre ==
    ASSUME found \in SUBSET Buckets
    PROVE  /\ EmittedEdges \subseteq EdgeRecords
           /\ \A e \in EmittedEdges : ~e.forced /\ \E f \in found :
                 /\ Paired(e, f)
                 /\ e.known => f.class = "directed"
                 /\ ~e.known /\ ~e.noThrough => f.class = "none"
           /\ \A f \in found : Linked(f.src, f.dst, EmittedEdges)
<1> DEFINE directed == {f \in found : f.class = "directed"}
           settled  == {{f.src, f.dst} : f \in directed}
           loose    == {f \in found : {f.src, f.dst} \notin settled}
           noted(f) == \E g \in loose : g.src = f.src /\ g.dst = f.dst /\ g.class = "branch"
           A == {EdgeOf(f.src, f.dst, TRUE, FALSE) : f \in directed}
           B == {EdgeOf(f.src, f.dst, FALSE, noted(f)) : f \in loose}
<1>1. EmittedEdges = A \cup B
  BY DEF EmittedEdges
<1>3. ASSUME NEW f \in found, NEW k \in BOOLEAN, NEW t \in BOOLEAN
      PROVE  EdgeOf(f.src, f.dst, k, t) \in EdgeRecords
  BY DEF EdgeOf, EdgeRecords, Buckets
<1>4. \A f : noted(f) \in BOOLEAN
  OBVIOUS
<1>5. \A f \in found : f.class \in {"directed", "branch", "none"}
  BY DEF Buckets
<1>6. \A f \in loose : f \in found /\ f \notin directed /\ (f.class = "branch" => noted(f))
  OBVIOUS
<1> HIDE DEF noted, loose
<1>7. EmittedEdges \subseteq EdgeRecords
  <2>1. A \subseteq EdgeRecords
    BY <1>3, Zenon
  <2>2. B \subseteq EdgeRecords
    <3>1. SUFFICES ASSUME NEW f \in loose
                   PROVE  EdgeOf(f.src, f.dst, FALSE, noted(f)) \in EdgeRecords
      BY Zenon
    <3>2. f \in found /\ noted(f) \in BOOLEAN
      BY <1>4, <1>6
    <3>3. QED  BY <1>3, <3>2, Zenon
  <2>3. QED  BY <1>1, <2>1, <2>2
<1>8. ASSUME NEW e \in EmittedEdges
      PROVE  ~e.forced /\ \E f \in found :
                 /\ Paired(e, f)
                 /\ e.known => f.class = "directed"
                 /\ ~e.known /\ ~e.noThrough => f.class = "none"
  <2>1. CASE e \in A
    <3>1. PICK f \in directed : e = EdgeOf(f.src, f.dst, TRUE, FALSE)
      BY <2>1
    <3>2. e.src = f.src /\ e.dst = f.dst /\ e.known = TRUE /\ e.forced = FALSE
      BY <3>1 DEF EdgeOf
    <3>3. f \in found /\ f.class = "directed"
      OBVIOUS
    <3>4. QED  BY <3>2, <3>3 DEF Paired
  <2>2. CASE e \in B
    <3>1. PICK f \in loose : e = EdgeOf(f.src, f.dst, FALSE, noted(f))
      BY <2>2
    <3>2. /\ e.src = f.src /\ e.dst = f.dst /\ e.known = FALSE /\ e.forced = FALSE
          /\ e.noThrough = noted(f)
      BY <3>1 DEF EdgeOf
    <3>3. f \in found /\ f.class \in {"branch", "none"} /\ (f.class = "branch" => noted(f))
      BY <1>5, <1>6
    <3>4. QED  BY <3>2, <3>3 DEF Paired
  <2>3. QED  BY <1>1, <2>1, <2>2
<1>9. ASSUME NEW f \in found PROVE Linked(f.src, f.dst, EmittedEdges)
  <2>1. CASE {f.src, f.dst} \in settled
    <3>1. PICK g \in directed : {g.src, g.dst} = {f.src, f.dst}
      BY <2>1
    <3>2. PICK e : e = EdgeOf(g.src, g.dst, TRUE, FALSE)
      OBVIOUS
    <3>3. e \in EmittedEdges
      BY <1>1, <3>2
    <3>4. e.src = g.src /\ e.dst = g.dst
      BY <3>2 DEF EdgeOf
    <3>5. QED  BY <3>1, <3>3, <3>4 DEF Linked
  <2>2. CASE {f.src, f.dst} \notin settled
    <3>1. f \in loose
      BY <2>2 DEF loose
    <3>2. PICK e : e = EdgeOf(f.src, f.dst, FALSE, noted(f))
      OBVIOUS
    <3>3. e \in EmittedEdges
      BY <1>1, <3>1, <3>2
    <3>4. e.src = f.src /\ e.dst = f.dst
      BY <3>2 DEF EdgeOf
    <3>5. QED  BY <3>3, <3>4 DEF Linked
  <2>3. QED  BY <2>1, <2>2
<1>10. QED  BY <1>7, <1>8, <1>9

\* A step that leaves the search alone keeps what is known of it.
LEMMA SameSearch ==
    ASSUME GraphInv, UNCHANGED <<drawing, todo, start, seen, stack, found>>,
           phase' \in {"contract", "force", "built"}, phase' # "contract" => Contracted'
    PROVE  GraphInv'
<1> DEFINE s == [seen |-> seen, stack |-> stack, found |-> found]
<1>1. /\ drawing' = drawing /\ todo' = todo /\ start' = start /\ seen' = seen
      /\ stack' = stack /\ found' = found
  OBVIOUS
<1>2. /\ Terminals' = Terminals /\ Searches' = Searches
      /\ \A i : TagOf(i)' = TagOf(i)
      /\ \A i : HopsFrom(i)' = HopsFrom(i)
      /\ \A i, allowed : Walk(i, allowed)' = Walk(i, allowed)
      /\ \A f : Drawn(f)' <=> Drawn(f)
  BY <1>1, SameDrawing
<1>3. \A e : Led(e)' <=> Led(e)
  BY <1>1, <1>2 DEF Led, Forward, BackFrom
<1>4. IsRight(s)' <=> IsRight(s)
  BY <1>1, <1>2, <1>3 DEF IsRight
<1>5. SearchIsClosed' <=> SearchIsClosed
  BY <1>1, <1>2 DEF SearchIsClosed, OnStack, Foreign, Linked
<1>6. \A i : Served(i)' <=> Served(i)
  BY <1>1, <1>2 DEF Served, Linked
<1> HIDE DEF s
<1>7. QED  BY <1>1, <1>2, <1>4, <1>5, <1>6 DEF GraphInv, s

LEMMA EmitStep ==
    ASSUME GraphInv, Emit
    PROVE  GraphInv'
<1>1. /\ phase = "contract" /\ stack = <<>> /\ todo = {}
      /\ edges' = EmittedEdges /\ phase' = "force"
      /\ drawing' = drawing /\ todo' = todo /\ start' = start /\ seen' = seen
      /\ stack' = stack /\ found' = found
  BY DEF Emit
<1>2. /\ Terminals' = Terminals /\ Searches' = Searches /\ Tags' = Tags
      /\ \A i : TagOf(i)' = TagOf(i)
      /\ \A i : HopsFrom(i)' = HopsFrom(i)
      /\ \A i, allowed : Walk(i, allowed)' = Walk(i, allowed)
      /\ \A f : Drawn(f)' <=> Drawn(f)
      /\ \A a, b, allowed, voted : Joins(a, b, allowed, voted)' <=> Joins(a, b, allowed, voted)
  BY <1>1, SameDrawing
<1>3. /\ drawing \in Drawings /\ todo \in SUBSET Terminals
      /\ [seen |-> seen, stack |-> stack, found |-> found] \in Searches
      /\ \/ start \in Terminals \ todo /\ SearchIsClosed
         \/ start = None /\ todo = Terminals /\ stack = <<>> /\ found = {}
      /\ IsRight([seen |-> seen, stack |-> stack, found |-> found])
      /\ \A i \in Terminals \ todo : i = start \/ Served(i)
  BY DEF GraphInv
<1>4. found \in SUBSET Buckets /\ \A f \in found : Drawn(f)
  BY <1>3 DEF Searches, IsRight
<1>5. \A i \in Terminals : Served(i)
  BY <1>1, <1>3, SearchServes
<1>6. /\ EmittedEdges \subseteq EdgeRecords
      /\ \A e \in EmittedEdges : ~e.forced /\ \E f \in found :
            /\ Paired(e, f)
            /\ e.known => f.class = "directed"
            /\ ~e.known /\ ~e.noThrough => f.class = "none"
      /\ \A f \in found : Linked(f.src, f.dst, EmittedEdges)
  BY <1>4, EmittedAre
<1>7. ASSUME NEW a \in Tags, NEW b \in Tags, a # b
      PROVE  Joins(a, b, {-1, 0, 1}, BOOLEAN) <=> Linked(a, b, EmittedEdges)
  <2>1. ASSUME Joins(a, b, {-1, 0, 1}, BOOLEAN) PROVE Linked(a, b, EmittedEdges)
    <3>1. PICK i \in Terminals, j \in Terminals :
             TagOf(i) = a /\ TagOf(j) = b /\ \E v \in BOOLEAN : <<j, v>> \in Walk(i, {-1, 0, 1})
      BY <2>1 DEF Joins
    <3>2. Linked(a, b, found)
      BY <1>5, <1>7, <3>1 DEF Served
    <3>3. PICK f \in found : {f.src, f.dst} = {a, b}
      BY <3>2 DEF Linked
    <3>4. QED  BY <1>6, <3>3 DEF Linked
  <2>2. ASSUME Linked(a, b, EmittedEdges) PROVE Joins(a, b, {-1, 0, 1}, BOOLEAN)
    <3>1. PICK e \in EmittedEdges : {e.src, e.dst} = {a, b}
      BY <2>2 DEF Linked
    <3>2. PICK f \in found : Paired(e, f)
      BY <1>6
    <3>3. \/ f.src = a /\ f.dst = b
          \/ f.src = b /\ f.dst = a
      BY <1>7, <3>1, <3>2 DEF Paired
    <3>4. QED  BY <1>4, <3>3 DEF Drawn
  <2>3. QED  BY <2>1, <2>2
<1>8. \A e \in EmittedEdges : e.known /\ ~e.forced => Joins(e.src, e.dst, {0, 1}, {TRUE})
  BY <1>4, <1>6 DEF Drawn, Paired
<1>9. \A e \in EmittedEdges : ~e.known /\ ~e.noThrough => Joins(e.src, e.dst, {0}, {FALSE})
  BY <1>4, <1>6 DEF Drawn, Paired
<1>10. Contracted'
  <2>1. EmittedEdges \subseteq EdgeRecords'
    BY <1>2, <1>6 DEF EdgeRecords
  <2>2. QED  BY <1>1, <1>2, <1>7, <1>8, <1>9, <2>1 DEF Contracted
<1>11. QED  BY <1>1, <1>2, <1>3, <1>10, SameSearch

LEMMA ForceStep ==
    ASSUME GraphInv, NEW tag \in Tags, ForceThrough(tag)
    PROVE  GraphInv'
<1>1. PICK k \in edges, u \in edges :
        /\ Forceable(tag, k, u)
        /\ edges' = (edges \ {u}) \cup
             {[u EXCEPT !.src = IF k.dst = tag THEN tag ELSE OtherEnd(u, tag),
                        !.dst = IF k.dst = tag THEN OtherEnd(u, tag) ELSE tag,
                        !.known = TRUE, !.forced = TRUE]}
  BY DEF ForceThrough
<1>2. /\ phase = "force" /\ phase' = phase /\ drawing' = drawing /\ todo' = todo
      /\ start' = start /\ seen' = seen /\ stack' = stack /\ found' = found
  BY DEF ForceThrough
<1>3. Contracted
  BY <1>2 DEF GraphInv
<1>4. u \in EdgeRecords /\ u \in Process(tag, edges)
  BY <1>1, <1>3 DEF Contracted, Forceable
<1>5. tag \in {u.src, u.dst}
  BY <1>4 DEF Process
<1>6. PICK w : w = [u EXCEPT !.src = IF k.dst = tag THEN tag ELSE OtherEnd(u, tag),
                             !.dst = IF k.dst = tag THEN OtherEnd(u, tag) ELSE tag,
                             !.known = TRUE, !.forced = TRUE]
  OBVIOUS
<1>7. /\ w \in EdgeRecords /\ {w.src, w.dst} = {u.src, u.dst} /\ w.known /\ w.forced
  <2>1. OtherEnd(u, tag) \in Tags /\ {tag, OtherEnd(u, tag)} = {u.src, u.dst}
    BY <1>4, <1>5 DEF OtherEnd, EdgeRecords
  <2> DEFINE o == OtherEnd(u, tag)
  <2> HIDE DEF o
  <2>2. /\ w.src = (IF k.dst = tag THEN tag ELSE o) /\ w.dst = (IF k.dst = tag THEN o ELSE tag)
        /\ w.known = TRUE /\ w.forced = TRUE /\ w \in EdgeRecords
    BY <1>4, <1>6, <2>1 DEF EdgeRecords, o
  <2>3. QED  BY <2>1, <2>2 DEF o
<1>8. edges' = (edges \ {u}) \cup {w}
  BY <1>1, <1>6
<1>9. \A a, b : Linked(a, b, edges') <=> Linked(a, b, edges)
  BY <1>7, <1>8 DEF Linked
<1>10. /\ Tags' = Tags
       /\ \A a, b, allowed, voted : Joins(a, b, allowed, voted)' <=> Joins(a, b, allowed, voted)
  BY <1>2, SameDrawing
<1>11. Contracted'
  <2>1. edges' \subseteq EdgeRecords'
    BY <1>3, <1>7, <1>8, <1>10 DEF Contracted, EdgeRecords
  <2>2. \A a, b \in Tags : a # b => (Joins(a, b, {-1, 0, 1}, BOOLEAN) <=> Linked(a, b, edges'))
    BY <1>3, <1>9 DEF Contracted
  <2>3. \A e \in edges' : e.known /\ ~e.forced => Joins(e.src, e.dst, {0, 1}, {TRUE})
    BY <1>3, <1>7, <1>8 DEF Contracted
  <2>4. \A e \in edges' : ~e.known /\ ~e.noThrough => Joins(e.src, e.dst, {0}, {FALSE})
    BY <1>3, <1>7, <1>8 DEF Contracted
  <2>5. todo' = {} /\ stack' = <<>>
    BY <1>2, <1>3 DEF Contracted
  <2>6. QED  BY <1>10, <2>1, <2>2, <2>3, <2>4, <2>5 DEF Contracted
<1>12. QED  BY <1>2, <1>11, SameSearch

LEMMA SettledStep ==
    ASSUME GraphInv, Settled
    PROVE  GraphInv'
<1>1. /\ phase = "force" /\ phase' = "built"
      /\ UNCHANGED <<drawing, todo, start, seen, stack, found, edges>>
  BY DEF Settled
<1>2. /\ Tags' = Tags
      /\ \A a, b, allowed, voted : Joins(a, b, allowed, voted)' <=> Joins(a, b, allowed, voted)
  BY <1>1, SameDrawing
<1>3. Contracted'
  <2>1. Contracted
    BY <1>1 DEF GraphInv
  <2>2. QED  BY <1>1, <1>2, <2>1 DEF Contracted, EdgeRecords, Linked
<1>4. QED  BY <1>1, <1>3, SameSearch

LEMMA GraphStep == GraphInv /\ [Next]_graphVars => GraphInv'
<1> SUFFICES ASSUME GraphInv, [Next]_graphVars PROVE GraphInv'
  OBVIOUS
<1>1. CASE \E tag \in Tags : ForceThrough(tag)
  BY <1>1, ForceStep
<1>2. CASE UNCHANGED graphVars
  <2>1. UNCHANGED <<drawing, phase, todo, start, seen, stack, found, edges>>
    BY <1>2 DEF graphVars
  <2>2. /\ Tags' = Tags
        /\ \A a, b, allowed, voted : Joins(a, b, allowed, voted)' <=> Joins(a, b, allowed, voted)
    BY <2>1, SameDrawing
  <2>3. Contracted' <=> Contracted
    BY <2>1, <2>2 DEF Contracted, EdgeRecords, Linked
  <2>4. QED  BY <2>1, <2>3, SameSearch DEF GraphInv
<1>3. QED  BY <1>1, <1>2, StartStep, ExpandStep, EmitStep, SettledStep DEF Next

\* Of every drawing, with any piping between its items and any flow read from
\* it: every pair of items the piping joins is an edge and nothing else is, and
\* an edge read from the drawing has its direction only from a path that votes
\* for it and never against (build_equipment_graph). The search visits an
\* element once, by whichever path it meets first; that a path was found is
\* kept with each entry of its frontier, forwards and back.
THEOREM EdgesComeFromTheDrawing == Spec => []EdgesAreDrawn
<1>1. GraphInv => EdgesAreDrawn
  BY DEF GraphInv, Contracted, EdgesAreDrawn, Linked
<1>2. QED  BY <1>1, GraphInvInit, GraphStep, PTL DEF Spec

----------------------------------------------------------------------------
(* Forcing. The edges the drawing leaves open are the only ones between      *)
(* their tags, so that a way to direct them and what has been forced of them *)
(* can be compared edge by edge.                                             *)

Open(E) == {e \in E : ~e.known /\ ~e.noThrough}

Way(T, e) == IF e \in T THEN [e EXCEPT !.src = e.dst, !.dst = e.src, !.known = TRUE]
                        ELSE [e EXCEPT !.known = TRUE]

\* The open edges directed, those in T turned; and those outside R forced,
\* those in D turned.
Completed(E, T) == {IF e \in Open(E) THEN Way(T, e) ELSE e : e \in E}
PartOf(E, R, D, e) == IF e \in Open(E) \ R THEN [Way(D, e) EXCEPT !.forced = TRUE] ELSE e
Partly(E, R, D) == {PartOf(E, R, D, e) : e \in E}

PairOf(e) == {e.src, e.dst}

FromTheDrawing(E) ==
    /\ E \subseteq EdgeRecords
    /\ \A e \in E : e.src # e.dst /\ ~e.forced
    /\ \A e \in Open(E), f \in E : PairOf(e) = PairOf(f) => e = f

LEMMA EmittedFromTheDrawing ==
    ASSUME found \in SUBSET Buckets, drawing \in Drawings, \A f \in found : Drawn(f)
    PROVE  FromTheDrawing(EmittedEdges)
<1> DEFINE directed == {f \in found : f.class = "directed"}
           settled  == {{f.src, f.dst} : f \in directed}
           loose    == {f \in found : {f.src, f.dst} \notin settled}
           noted(f) == \E g \in loose : g.src = f.src /\ g.dst = f.dst /\ g.class = "branch"
           A == {EdgeOf(f.src, f.dst, TRUE, FALSE) : f \in directed}
           B == {EdgeOf(f.src, f.dst, FALSE, noted(f)) : f \in loose}
<1>1. EmittedEdges = A \cup B
  BY DEF EmittedEdges
<1>2. /\ EmittedEdges \subseteq EdgeRecords
      /\ \A e \in EmittedEdges : ~e.forced /\ \E f \in found : Paired(e, f)
  BY EmittedAre
<1>3. \A e \in EmittedEdges : e.src # e.dst /\ ~e.forced
  BY <1>2 DEF Paired, Drawn
<1>4. ASSUME NEW e \in A PROVE e.known /\ PairOf(e) \in settled
  <2>1. PICK f \in directed : e = EdgeOf(f.src, f.dst, TRUE, FALSE)
    BY <1>4
  <2>2. e.src = f.src /\ e.dst = f.dst /\ e.known
    BY <2>1 DEF EdgeOf
  <2>3. QED  BY <2>2 DEF PairOf
<1>5. ASSUME NEW e \in Open(EmittedEdges), NEW f \in EmittedEdges, PairOf(e) = PairOf(f)
      PROVE  e = f
  <2>1. e \in B
    BY <1>1, <1>4 DEF Open
  <2>2. PICK x \in loose : e = EdgeOf(x.src, x.dst, FALSE, noted(x))
    BY <2>1
  <2>3. e.src = x.src /\ e.dst = x.dst
    BY <2>2 DEF EdgeOf
  <2>4. x \in found /\ PairOf(e) \notin settled
    BY <2>3 DEF PairOf
  <2>5. f \in B
    BY <1>1, <1>4, <1>5, <2>4
  <2>6. PICK y \in loose : f = EdgeOf(y.src, y.dst, FALSE, noted(y))
    BY <2>5
  <2>7. f.src = y.src /\ f.dst = y.dst /\ y \in found
    BY <2>6 DEF EdgeOf
  <2>8. x \notin directed /\ y \notin directed
    OBVIOUS
  <2>9. x.src < x.dst /\ y.src < y.dst
    BY <2>4, <2>7, <2>8 DEF Drawn
  <2>10. x.src \in Nat /\ x.dst \in Nat /\ y.src \in Nat /\ y.dst \in Nat
    BY <2>4, <2>7, TagsAreNumbers DEF Buckets
  <2>11. {x.src, x.dst} = {y.src, y.dst}
    BY <1>5, <2>3, <2>7 DEF PairOf
  <2>12. x.src = y.src /\ x.dst = y.dst
    BY <2>9, <2>10, <2>11
  <2>13. noted(x) = noted(y)
    BY <2>12
  <2> HIDE DEF noted
  <2>14. QED  BY <2>2, <2>6, <2>12, <2>13
<1>6. QED  BY <1>2, <1>3, <1>5 DEF FromTheDrawing

\* What the two ends and the marks of an edge are in a completion, and in what
\* has been forced so far.
LEMMA WayIs ==
    ASSUME NEW E, FromTheDrawing(E), NEW T, NEW e \in E
    PROVE  /\ Way(T, e) \in EdgeRecords /\ Way(T, e).known /\ ~Way(T, e).forced
           /\ PairOf(Way(T, e)) = PairOf(e)
           /\ e \in T => Way(T, e).src = e.dst /\ Way(T, e).dst = e.src
           /\ e \notin T => Way(T, e).src = e.src /\ Way(T, e).dst = e.dst
<1>1. e \in EdgeRecords /\ ~e.forced
  BY DEF FromTheDrawing
<1>2. CASE e \in T
  <2>1. Way(T, e) = [e EXCEPT !.src = e.dst, !.dst = e.src, !.known = TRUE]
    BY <1>2 DEF Way
  <2>2. /\ Way(T, e) \in EdgeRecords
        /\ Way(T, e).src = e.dst /\ Way(T, e).dst = e.src
        /\ Way(T, e).known = TRUE /\ Way(T, e).forced = e.forced
    BY <1>1, <2>1 DEF EdgeRecords
  <2>3. QED  BY <1>1, <1>2, <2>2 DEF PairOf
<1>3. CASE e \notin T
  <2>1. Way(T, e) = [e EXCEPT !.known = TRUE]
    BY <1>3 DEF Way
  <2>2. /\ Way(T, e) \in EdgeRecords
        /\ Way(T, e).src = e.src /\ Way(T, e).dst = e.dst
        /\ Way(T, e).known = TRUE /\ Way(T, e).forced = e.forced
    BY <1>1, <2>1 DEF EdgeRecords
  <2>3. QED  BY <1>1, <1>3, <2>2 DEF PairOf
<1>4. QED  BY <1>2, <1>3

LEMMA PartIs ==
    ASSUME NEW E, FromTheDrawing(E), NEW R, NEW D, NEW e \in E
    PROVE  /\ PartOf(E, R, D, e) \in EdgeRecords
           /\ PairOf(PartOf(E, R, D, e)) = PairOf(e)
           /\ e \in Open(E) \ R => /\ PartOf(E, R, D, e).known /\ PartOf(E, R, D, e).forced
                                   /\ PartOf(E, R, D, e).src = Way(D, e).src
                                   /\ PartOf(E, R, D, e).dst = Way(D, e).dst
           /\ e \notin Open(E) \ R => PartOf(E, R, D, e) = e
<1>1. CASE e \in Open(E) \ R
  <2>1. PartOf(E, R, D, e) = [Way(D, e) EXCEPT !.forced = TRUE]
    BY <1>1 DEF PartOf
  <2>2. Way(D, e) \in EdgeRecords /\ Way(D, e).known /\ PairOf(Way(D, e)) = PairOf(e)
    BY WayIs
  <2>3. /\ PartOf(E, R, D, e) \in EdgeRecords
        /\ PartOf(E, R, D, e).src = Way(D, e).src /\ PartOf(E, R, D, e).dst = Way(D, e).dst
        /\ PartOf(E, R, D, e).known = Way(D, e).known /\ PartOf(E, R, D, e).forced = TRUE
    BY <2>1, <2>2 DEF EdgeRecords
  <2>4. QED  BY <1>1, <2>2, <2>3 DEF PairOf
<1>2. CASE e \notin Open(E) \ R
  BY <1>2 DEF PartOf, FromTheDrawing
<1>3. QED  BY <1>1, <1>2

Under(m, S) == {m[e] : e \in S}

\* Edges that keep their ends stay with the tags they were at.
LEMMA ProcessOf ==
    ASSUME NEW E, \A e \in E : e.src # e.dst,
           NEW m, \A e \in E : PairOf(m[e]) = PairOf(e), NEW tag
    PROVE  Process(tag, Under(m, E)) = Under(m, Process(tag, E))
<1>1. ASSUME NEW e \in E
      PROVE  /\ tag \in {m[e].src, m[e].dst} <=> tag \in {e.src, e.dst}
             /\ tag \in {e.src, e.dst} => OtherEnd(m[e], tag) = OtherEnd(e, tag)
  <2>1. \/ m[e].src = e.src /\ m[e].dst = e.dst
        \/ m[e].src = e.dst /\ m[e].dst = e.src
    BY DEF PairOf
  <2>2. e.src # e.dst
    OBVIOUS
  <2>3. QED  BY <2>1, <2>2 DEF OtherEnd
<1>2. QED  BY <1>1 DEF Process, Under

\* Edges that keep their ends, and themselves but for the open ones, stay apart.
LEMMA StaysApart ==
    ASSUME NEW E, FromTheDrawing(E),
           NEW m, \A e \in E : PairOf(m[e]) = PairOf(e),
           \A e \in E \ Open(E) : m[e] = e
    PROVE  \A e, f \in E : m[e] = m[f] => e = f
<1>1. SUFFICES ASSUME NEW e \in E, NEW f \in E, m[e] = m[f] PROVE e = f
  OBVIOUS
<1>2. PairOf(e) = PairOf(f)
  BY <1>1
<1>3. CASE e \in Open(E) \/ f \in Open(E)
  BY <1>2, <1>3 DEF FromTheDrawing
<1>4. CASE e \notin Open(E) /\ f \notin Open(E)
  BY <1>1, <1>4
<1>5. QED  BY <1>3, <1>4

Dir(E, T) == [e \in E |-> IF e \in Open(E) THEN Way(T, e) ELSE e]
Part(E, R, D) == [e \in E |-> PartOf(E, R, D, e)]

LEMMA CompletedMatch ==
    ASSUME NEW E, FromTheDrawing(E), NEW T, NEW tag
    PROVE  /\ Completed(E, T) = Under(Dir(E, T), E)
           /\ Completed(E, T) \subseteq EdgeRecords
           /\ \A e \in E : Dir(E, T)[e].src # Dir(E, T)[e].dst
           /\ \A e \in E : PairOf(Dir(E, T)[e]) = PairOf(e)
           /\ Process(tag, Completed(E, T)) = Under(Dir(E, T), Process(tag, E))
           /\ \A e, f \in E : Dir(E, T)[e] = Dir(E, T)[f] => e = f
<1> DEFINE m == Dir(E, T)
<1>1. Completed(E, T) = Under(m, E)
  BY DEF Completed, Dir, Under
<1>2. \A e \in E : m[e] = IF e \in Open(E) THEN Way(T, e) ELSE e
  BY DEF Dir
<1> HIDE DEF m
<1>3. ASSUME NEW e \in E
      PROVE  m[e] \in EdgeRecords /\ PairOf(m[e]) = PairOf(e) /\ m[e].src # m[e].dst
  <2>1. m[e] \in EdgeRecords /\ PairOf(m[e]) = PairOf(e)
    BY <1>2, WayIs DEF FromTheDrawing
  <2>2. e.src # e.dst
    BY DEF FromTheDrawing
  <2>3. QED  BY <2>1, <2>2 DEF PairOf
<1>4. \A e \in E \ Open(E) : m[e] = e
  BY <1>2
<1>5. \A e, f \in E : m[e] = m[f] => e = f
  BY <1>3, <1>4, StaysApart
<1>6. Process(tag, Under(m, E)) = Under(m, Process(tag, E))
  <2>1. (\A e \in E : PairOf(m[e]) = PairOf(e)) /\ \A e \in E : e.src # e.dst
    BY <1>3 DEF FromTheDrawing
  <2>2. QED  BY <2>1, ProcessOf
<1>7. Completed(E, T) \subseteq EdgeRecords
  BY <1>1, <1>3 DEF Under
<1>8. QED  BY <1>1, <1>3, <1>5, <1>6, <1>7 DEF m

LEMMA PartlyMatch ==
    ASSUME NEW E, FromTheDrawing(E), NEW R, NEW D, NEW tag
    PROVE  /\ Partly(E, R, D) = Under(Part(E, R, D), E)
           /\ Process(tag, Partly(E, R, D)) = Under(Part(E, R, D), Process(tag, E))
           /\ \A e, f \in E : Part(E, R, D)[e] = Part(E, R, D)[f] => e = f
<1> DEFINE m == Part(E, R, D)
<1>1. Partly(E, R, D) = Under(m, E)
  BY DEF Partly, Part, Under
<1>2. \A e \in E : m[e] = PartOf(E, R, D, e)
  BY DEF Part
<1> HIDE DEF m
<1>3. \A e \in E : PairOf(m[e]) = PairOf(e)
  BY <1>2, PartIs
<1>4. \A e \in E \ Open(E) : m[e] = e
  BY <1>2, PartIs
<1>5. \A e, f \in E : m[e] = m[f] => e = f
  BY <1>3, <1>4, StaysApart
<1>6. Process(tag, Under(m, E)) = Under(m, Process(tag, E))
  <2>1. (\A e \in E : PairOf(m[e]) = PairOf(e)) /\ \A e \in E : e.src # e.dst
    BY <1>3 DEF FromTheDrawing
  <2>2. QED  BY <2>1, ProcessOf
<1>7. QED  BY <1>1, <1>5, <1>6 DEF m

LEMMA EdgesAreFinite ==
    ASSUME drawing \in Drawings
    PROVE  IsFiniteSet(EdgeRecords)
<1>1. IsFiniteSet(Tags)
  <2>1. IsFiniteSet(DOMAIN drawing.elems)
    BY DrawingsAssumption
  <2>2. IsFiniteSet(Terminals)
    BY <2>1, FS_Subset DEF Terminals
  <2> DEFINE f == [i \in Terminals |-> TagOf(i)]
  <2>3. f \in Surjection(Terminals, Tags)
    BY DEF Surjection, Tags
  <2> HIDE DEF f
  <2>4. QED  BY <2>2, <2>3, FS_Surjection
<1>2. IsFiniteSet(BOOLEAN)
  <2>1. IsFiniteSet({TRUE})
    BY FS_Singleton
  <2>2. IsFiniteSet({TRUE} \cup {FALSE})
    BY <2>1, FS_AddElement
  <2>3. {TRUE} \cup {FALSE} = BOOLEAN
    OBVIOUS
  <2>4. QED  BY <2>2, <2>3, Zenon
<1> DEFINE B == BOOLEAN
           X == Tags \X Tags
           Y == X \X B
           Z == Y \X B
           W == Z \X B
           f == [w \in W |-> [src |-> w[1][1][1][1], dst |-> w[1][1][1][2],
                              known |-> w[1][1][2], noThrough |-> w[1][2], forced |-> w[2]]]
<1>3. IsFiniteSet(W)
  <2> HIDE DEF B
  <2>1. IsFiniteSet(X) /\ IsFiniteSet(B)
    BY <1>1, <1>2, FS_Product DEF B
  <2> HIDE DEF X
  <2>2. IsFiniteSet(Y)
    BY <2>1, FS_Product
  <2> HIDE DEF Y
  <2>3. IsFiniteSet(Z)
    BY <2>1, <2>2, FS_Product
  <2> HIDE DEF Z
  <2>4. QED  BY <2>1, <2>3, FS_Product
<1>4. f \in Surjection(W, EdgeRecords)
  <2>1. f \in [W -> EdgeRecords]
    BY DEF EdgeRecords
  <2>2. ASSUME NEW e \in EdgeRecords PROVE \E w \in W : f[w] = e
    <3> DEFINE w == <<<<<<<<e.src, e.dst>>, e.known>>, e.noThrough>>, e.forced>>
    <3>1. w \in W
      BY DEF EdgeRecords
    <3>2. f[w] = e
      BY <3>1 DEF EdgeRecords
    <3>3. QED  BY <3>1, <3>2
  <2> HIDE DEF f, W
  <2>3. QED  BY <2>1, <2>2 DEF Surjection
<1> HIDE DEF f, W
<1>5. QED  BY <1>3, <1>4, FS_Surjection

LEMMA TwoIs ==
    ASSUME NEW S, IsFiniteSet(S)
    PROVE  Cardinality(S) = 2 <=> \E x, y \in S : x # y /\ S = {x, y}
<1>1. ASSUME NEW x \in S, NEW y \in S, x # y, S = {x, y} PROVE Cardinality(S) = 2
  <2>1. IsFiniteSet({x}) /\ Cardinality({x}) = 1
    BY FS_Singleton
  <2>2. Cardinality({x} \cup {y}) = 1 + 1
    BY <1>1, <2>1, FS_AddElement
  <2>3. {x} \cup {y} = S
    BY <1>1
  <2>4. Cardinality(S) = 1 + 1
    BY <2>2, <2>3, Zenon
  <2>5. QED  BY <2>4
<1>2. ASSUME Cardinality(S) = 2 PROVE \E x, y \in S : x # y /\ S = {x, y}
  <2>1. S # {}
    BY <1>2, FS_EmptySet
  <2>2. PICK x \in S : TRUE
    BY <2>1
  <2>3. IsFiniteSet(S \ {x}) /\ Cardinality(S \ {x}) = Cardinality(S) - 1
    BY <2>2, FS_RemoveElement
  <2>4. Cardinality(S \ {x}) = 1
    BY <1>2, <2>3
  <2>5. \E y : S \ {x} = {y}
    BY <2>3, <2>4, FS_Singleton
  <2>6. QED  BY <2>2, <2>5
<1>3. QED  BY <1>1, <1>2

\* What conservation says of two known connections of a pass-through item.
LEMMA OneInOneOut ==
    ASSUME NEW es, Conserves(es), NEW tag \in Tags, PassesThrough(tag),
           NEW a, NEW b, Process(tag, es) = {a, b}, a # b, a.known, b.known,
           a.src # a.dst, b.src # b.dst
    PROVE  (a.dst = tag /\ b.src = tag) \/ (b.dst = tag /\ a.src = tag)
<1> DEFINE p == Process(tag, es)
<1>1. IsFiniteSet(p)
  <2>1. IsFiniteSet({a})
    BY FS_Singleton
  <2>2. IsFiniteSet({a} \cup {b})
    BY <2>1, FS_AddElement
  <2>3. {a} \cup {b} = p
    OBVIOUS
  <2> HIDE DEF p
  <2>4. QED  BY <2>2, <2>3, Zenon
<1>2. Cardinality(p) = 2
  <2>1. a \in p /\ b \in p /\ a # b /\ p = {a, b}
    OBVIOUS
  <2> HIDE DEF p
  <2>2. QED  BY <1>1, <2>1, TwoIs
<1>3. \E e, f \in p : e.dst = tag /\ f.src = tag
  BY <1>2 DEF Conserves
<1>4. PICK e \in p, f \in p : e.dst = tag /\ f.src = tag
  BY <1>3
<1>5. e # f
  <2>1. e = f => e.dst = e.src
    BY <1>4
  <2>2. e.src # e.dst
    OBVIOUS
  <2>3. QED  BY <2>1, <2>2
<1>6. QED  BY <1>4, <1>5

----------------------------------------------------------------------------
(* What is forced is what every conserving completion has.                   *)

\* All the settled edges of E but those in R have been forced the way D says.
LEMMA ForcedFollows ==
    ASSUME NEW E, FromTheDrawing(E), NEW R \in SUBSET Open(E), NEW D \in SUBSET (Open(E) \ R),
           NEW tag \in Tags, PassesThrough(tag), NEW k \in Partly(E, R, D), NEW u \in R,
           Process(tag, Partly(E, R, D)) = {k, u}, k.known,
           NEW T \in SUBSET Open(E), Conserves(Completed(E, T)), T \ R = D
    PROVE  /\ k.dst = tag => Way(T, u).src = tag
           /\ k.dst # tag => Way(T, u).dst = tag
<1> DEFINE p == Part(E, R, D)
           m == Dir(E, T)
<1>1. /\ u \in E /\ u \in Open(E) /\ p[u] = u /\ m[u] = Way(T, u)
      /\ ~u.known
  BY PartIs DEF Open, Part, Dir
<1>2. PICK x \in E : k = p[x]
  BY PartlyMatch DEF Under
<1>3. x # u
  BY <1>1, <1>2
<1>4. Process(tag, E) = {x, u}
  <2>1. {p[e] : e \in Process(tag, E)} = {p[x], p[u]}
    BY <1>1, <1>2, PartlyMatch DEF Under
  <2>2. \A e, f \in E : p[e] = p[f] => e = f
    BY PartlyMatch
  <2>3. Process(tag, E) \subseteq E
    BY DEF Process
  <2> HIDE DEF p
  <2>4. QED  BY <1>1, <2>1, <2>2, <2>3
<1>5. Process(tag, Completed(E, T)) = {m[x], m[u]}
  <2>1. Process(tag, Completed(E, T)) = {m[e] : e \in Process(tag, E)}
    BY CompletedMatch DEF Under
  <2> HIDE DEF m
  <2>2. QED  BY <1>4, <2>1
<1>6. m[x] # m[u] /\ m[x].src # m[x].dst /\ m[u].src # m[u].dst
  BY <1>1, <1>3, CompletedMatch
<1>7. m[u].known
  BY <1>1, WayIs
<1>8. /\ m[x].known /\ m[x].src = k.src /\ m[x].dst = k.dst
  <2>1. CASE x \in Open(E) \ R
    <3>1. m[x] = Way(T, x)
      BY <2>1 DEF Dir
    <3>2. k.src = Way(D, x).src /\ k.dst = Way(D, x).dst
      BY <1>2, <2>1, PartIs DEF Part
    <3>3. x \in T <=> x \in D
      BY <2>1
    <3>4. QED  BY <3>1, <3>2, <3>3, WayIs
  <2>2. CASE x \notin Open(E) \ R
    <3>1. k = x
      BY <1>2, <2>2, PartIs DEF Part
    <3>2. x \notin Open(E)
      BY <3>1 DEF Open
    <3>3. m[x] = x
      BY <3>2 DEF Dir
    <3>4. QED  BY <3>1, <3>3
  <2>3. QED  BY <2>1, <2>2
<1> HIDE DEF m, p
<1>9. (m[x].dst = tag /\ m[u].src = tag) \/ (m[u].dst = tag /\ m[x].src = tag)
  BY <1>5, <1>6, <1>7, <1>8, OneInOneOut
<1>10. QED  BY <1>1, <1>6, <1>8, <1>9

\* Where no rule forces an edge any more, all that are left can be turned.
LEMMA TurnsAround ==
    ASSUME drawing \in Drawings, NEW E, FromTheDrawing(E),
           NEW R \in SUBSET Open(E), NEW D,
           \A tag \in Tags, k, u \in Partly(E, R, D) :
              ~ /\ PassesThrough(tag) /\ Process(tag, Partly(E, R, D)) = {k, u}
                /\ k.known /\ ~u.known /\ ~u.noThrough,
           NEW T \in SUBSET Open(E), Conserves(Completed(E, T))
    PROVE  Conserves(Completed(E, (T \ R) \cup (R \ T)))
<1> DEFINE S == (T \ R) \cup (R \ T)
           p == Part(E, R, D)
           m == Dir(E, T)
           n == Dir(E, S)
<1>1. SUFFICES ASSUME NEW tag \in Tags, PassesThrough(tag),
                      Cardinality(Process(tag, Completed(E, S))) = 2,
                      \A e \in Process(tag, Completed(E, S)) : e.known
               PROVE  \E e, f \in Process(tag, Completed(E, S)) : e.dst = tag /\ f.src = tag
  BY DEF Conserves
<1>2. Process(tag, Completed(E, S)) = {n[e] : e \in Process(tag, E)}
  <2>1. Process(tag, Completed(E, S)) = Under(n, Process(tag, E))
    BY CompletedMatch
  <2> HIDE DEF n, S
  <2>2. QED  BY <2>1 DEF Under
<1>3. IsFiniteSet(Process(tag, Completed(E, S)))
  <2>1. Process(tag, Completed(E, S)) \subseteq EdgeRecords
    BY CompletedMatch DEF Process
  <2>2. QED  BY <2>1, EdgesAreFinite, FS_Subset
<1>4. PICK a \in Process(tag, Completed(E, S)), b \in Process(tag, Completed(E, S)) :
         a # b /\ Process(tag, Completed(E, S)) = {a, b}
  <2> DEFINE q == Process(tag, Completed(E, S))
  <2> HIDE DEF q
  <2>1. \E a, b \in q : a # b /\ q = {a, b}
    BY <1>1, <1>3, TwoIs DEF q
  <2>2. QED  BY <2>1 DEF q
<1>5. PICK x \in Process(tag, E), y \in Process(tag, E) : a = n[x] /\ b = n[y]
  BY <1>2, <1>4
<1>6. x \in E /\ y \in E /\ Process(tag, E) \subseteq E /\ x # y
  BY <1>4, <1>5 DEF Process
<1>7. Process(tag, E) = {x, y}
  <2>1. \A e, f \in E : n[e] = n[f] => e = f
    BY CompletedMatch
  <2>2. a = n[x] /\ b = n[y] /\ \A e \in Process(tag, E) : n[e] \in {a, b} /\ e \in E
    BY <1>2, <1>4, <1>5, <1>6
  <2> HIDE DEF n
  <2>3. QED  BY <1>5, <1>6, <2>1, <2>2
<1>8. ASSUME NEW e \in {x, y}
      PROVE  /\ e \in E
             /\ e.known \/ e \in Open(E)
             /\ e \in R => p[e] = e /\ ~e.known /\ ~e.noThrough
             /\ e \notin R => p[e].known
  <2>1. e \in E
    BY <1>6
  <2>2. e.known \/ e \in Open(E)
    <3>1. n[e].known
      BY <1>1, <1>4, <1>5
    <3>2. e \notin Open(E) => n[e] = e
      BY <2>1 DEF Dir
    <3>3. QED  BY <3>1, <3>2
  <2>3. e \in R => p[e] = e /\ ~e.known /\ ~e.noThrough
    BY <2>1, PartIs DEF Part, Open
  <2>4. e \notin R => p[e].known
    BY <2>1, <2>2, PartIs DEF Part, Open
  <2>5. QED  BY <2>1, <2>2, <2>3, <2>4
<1>9. x \in R <=> y \in R
  <2>1. Process(tag, Partly(E, R, D)) = {p[x], p[y]}
    <3>1. Process(tag, Partly(E, R, D)) = {p[e] : e \in Process(tag, E)}
      BY PartlyMatch DEF Under
    <3> HIDE DEF p
    <3>2. QED  BY <1>7, <3>1
  <2>2. p[x] \in Partly(E, R, D) /\ p[y] \in Partly(E, R, D)
    <3>1. Partly(E, R, D) = Under(p, E)
      BY PartlyMatch
    <3> HIDE DEF p
    <3>2. QED  BY <1>6, <3>1 DEF Under
  <2>3. {p[y], p[x]} = {p[x], p[y]}
    OBVIOUS
  <2> HIDE DEF p
  <2>4. QED  BY <1>1, <1>8, <2>1, <2>2, <2>3
<1>10. /\ Process(tag, Completed(E, T)) = {m[x], m[y]}
       /\ m[x] # m[y]
       /\ m[x].src # m[x].dst /\ m[y].src # m[y].dst
  <2>1. Process(tag, Completed(E, T)) = {m[e] : e \in Process(tag, E)}
    BY CompletedMatch DEF Under
  <2>2. m[x] # m[y] /\ m[x].src # m[x].dst /\ m[y].src # m[y].dst
    BY <1>6, CompletedMatch
  <2> HIDE DEF m
  <2>3. QED  BY <1>7, <2>1, <2>2
<1>11. m[x].known /\ m[y].known
  <2>1. ASSUME NEW e \in {x, y} PROVE m[e].known
    BY <1>8, WayIs DEF Dir
  <2>2. QED  BY <2>1
<1>12. (m[x].dst = tag /\ m[y].src = tag) \/ (m[y].dst = tag /\ m[x].src = tag)
  <2> HIDE DEF m
  <2>1. QED  BY <1>1, <1>10, <1>11, OneInOneOut
<1>13. ASSUME NEW e \in {x, y}
       PROVE  /\ e \notin R => n[e].src = m[e].src /\ n[e].dst = m[e].dst
              /\ e \in R => n[e].src = m[e].dst /\ n[e].dst = m[e].src
  <2>1. e \in E
    BY <1>8
  <2>2. CASE e \in Open(E)
    <3>1. n[e] = Way(S, e) /\ m[e] = Way(T, e)
      BY <2>1, <2>2 DEF Dir
    <3>2. /\ e \notin R => (e \in S <=> e \in T)
          /\ e \in R => (e \in S <=> e \notin T)
      OBVIOUS
    <3> HIDE DEF n, m, S
    <3>3. QED  BY <2>1, <3>1, <3>2, WayIs
  <2>3. CASE e \notin Open(E)
    <3>1. n[e] = e /\ m[e] = e /\ e \notin R
      BY <2>1, <2>3 DEF Dir
    <3>2. QED  BY <3>1
  <2>4. QED  BY <2>2, <2>3
<1>14. n[x] \in Process(tag, Completed(E, S)) /\ n[y] \in Process(tag, Completed(E, S))
  BY <1>4, <1>5
<1> HIDE DEF n, m, S
<1>15. QED  BY <1>9, <1>12, <1>13, <1>14

\* Every conserving completion agrees with what has been forced.
Follows(E, R, D) ==
    \A T \in SUBSET Open(E) : Conserves(Completed(E, T)) => T \ R = D

NothingToForce ==
    \A tag \in Tags, k, u \in edges : ~ Forceable(tag, k, u)

FlowInv ==
    /\ phase # "contract" =>
          /\ FromTheDrawing(EmittedEdges)
          /\ \E R \in SUBSET Open(EmittedEdges) : \E D \in SUBSET (Open(EmittedEdges) \ R) :
                edges = Partly(EmittedEdges, R, D) /\ Follows(EmittedEdges, R, D)
    /\ phase = "built" => NothingToForce

LEMMA SameFlow ==
    ASSUME drawing' = drawing
    PROVE  /\ Tags' = Tags
           /\ \A tag : PassesThrough(tag)' <=> PassesThrough(tag)
           /\ \A tag, es : Process(tag, es)' = Process(tag, es)
           /\ \A es : Conserves(es)' <=> Conserves(es)
           /\ \A E : FromTheDrawing(E)' <=> FromTheDrawing(E)
           /\ \A E, R, D : Follows(E, R, D)' <=> Follows(E, R, D)
<1>1. Tags' = Tags
  BY SameDrawing
<1>2. \A tag : TypeOf(tag)' = TypeOf(tag)
  BY DEF TypeOf, Terminals, TagOf, OwnTag
<1>3. \A tag : PassesThrough(tag)' <=> PassesThrough(tag)
  BY <1>2 DEF PassesThrough
<1>4. \A tag, es : Process(tag, es)' = Process(tag, es)
  BY <1>2 DEF Process
<1>5. \A es : Conserves(es)' <=> Conserves(es)
  BY <1>1, <1>3, <1>4 DEF Conserves
<1>6. \A E : FromTheDrawing(E)' <=> FromTheDrawing(E)
  BY <1>1 DEF FromTheDrawing, EdgeRecords
<1>7. \A E, R, D : Follows(E, R, D)' <=> Follows(E, R, D)
  BY <1>5 DEF Follows
<1>8. QED  BY <1>1, <1>3, <1>4, <1>5, <1>6, <1>7

LEMMA FlowEmitStep ==
    ASSUME GraphInv, Emit
    PROVE  FlowInv'
<1>1. /\ drawing' = drawing /\ found' = found /\ edges' = EmittedEdges /\ phase' = "force"
  BY DEF Emit
<1>2. PICK E : E = EmittedEdges
  OBVIOUS
<1>3. FromTheDrawing(E)
  <2>1. found \in SUBSET Buckets /\ drawing \in Drawings /\ \A f \in found : Drawn(f)
    BY DEF GraphInv, Searches, IsRight
  <2>2. QED  BY <1>2, <2>1, EmittedFromTheDrawing
<1>4. EmittedEdges' = E
  BY <1>1, <1>2 DEF EmittedEdges
<1>5. E = Partly(E, Open(E), {})
  BY DEF Partly, PartOf
<1>6. Follows(E, Open(E), {})
  BY DEF Follows
<1>7. /\ edges' = Partly(E, Open(E), {}) /\ Follows(E, Open(E), {})' /\ FromTheDrawing(E)'
  BY <1>1, <1>2, <1>3, <1>5, <1>6, SameFlow
<1>8. Open(E) \in SUBSET Open(E) /\ {} \in SUBSET (Open(E) \ Open(E))
  OBVIOUS
<1>9. \E R \in SUBSET Open(E) : \E D \in SUBSET (Open(E) \ R) :
         edges' = Partly(E, R, D) /\ Follows(E, R, D)'
  BY <1>7, <1>8
<1>10. QED  BY <1>1, <1>4, <1>7, <1>9 DEF FlowInv

LEMMA FlowForceStep ==
    ASSUME GraphInv, FlowInv, NEW tag \in Tags, ForceThrough(tag)
    PROVE  FlowInv'
<1>1. /\ drawing' = drawing /\ found' = found /\ phase = "force" /\ phase' = phase
  BY DEF ForceThrough
<1>2. PICK E : E = EmittedEdges
  OBVIOUS
<1>0. PICK R \in SUBSET Open(E) : \E D \in SUBSET (Open(E) \ R) :
        edges = Partly(E, R, D) /\ Follows(E, R, D)
  BY <1>1, <1>2 DEF FlowInv
<1>3. PICK D \in SUBSET (Open(E) \ R) : edges = Partly(E, R, D) /\ Follows(E, R, D)
  BY <1>0
<1>4. FromTheDrawing(E)
  BY <1>1, <1>2 DEF FlowInv
<1>5. PICK k \in edges, u \in edges :
        /\ Forceable(tag, k, u)
        /\ edges' = (edges \ {u}) \cup
             {[u EXCEPT !.src = IF k.dst = tag THEN tag ELSE OtherEnd(u, tag),
                        !.dst = IF k.dst = tag THEN OtherEnd(u, tag) ELSE tag,
                        !.known = TRUE, !.forced = TRUE]}
  BY DEF ForceThrough
<1>6. PassesThrough(tag) /\ Process(tag, edges) = {k, u} /\ k.known /\ ~u.known /\ ~u.noThrough
  BY <1>5 DEF Forceable
<1>7. u \in R
  <2>1. PICK x \in E : u = PartOf(E, R, D, x)
    BY <1>3 DEF Partly
  <2>2. x \notin Open(E) \ R /\ u = x
    BY <1>4, <1>6, <2>1, PartIs
  <2>3. x \in Open(E)
    BY <1>6, <2>2 DEF Open
  <2>4. QED  BY <2>2, <2>3
<1>8. /\ u \in E /\ u \in EdgeRecords /\ tag \in {u.src, u.dst} /\ u.src # u.dst
  <2>1. u \in Process(tag, edges)
    BY <1>6
  <2>2. QED  BY <1>4, <1>7, <2>1 DEF Process, FromTheDrawing, Open
<1> DEFINE o == OtherEnd(u, tag)
           turn == IF k.dst = tag THEN tag = u.dst ELSE tag = u.src
           R2 == R \ {u}
           D2 == IF turn THEN D \cup {u} ELSE D
           w == PartOf(E, R2, D2, u)
<1>9. R2 \in SUBSET Open(E) /\ D2 \in SUBSET (Open(E) \ R2)
  BY <1>7
<1>10. u \in Open(E) \ R2 /\ (u \in D2 <=> turn)
  BY <1>7
<1>11. w = [u EXCEPT !.src = IF k.dst = tag THEN tag ELSE o,
                     !.dst = IF k.dst = tag THEN o ELSE tag,
                     !.known = TRUE, !.forced = TRUE]
  <2>1. w = [Way(D2, u) EXCEPT !.forced = TRUE]
    BY <1>10 DEF PartOf
  <2>2. Way(D2, u) = IF turn THEN [u EXCEPT !.src = u.dst, !.dst = u.src, !.known = TRUE]
                     ELSE [u EXCEPT !.known = TRUE]
    <3> HIDE DEF D2, turn
    <3>1. QED  BY <1>10 DEF Way
  <2>3. /\ turn => /\ u.dst = IF k.dst = tag THEN tag ELSE o
                   /\ u.src = IF k.dst = tag THEN o ELSE tag
        /\ ~turn => /\ u.src = IF k.dst = tag THEN tag ELSE o
                    /\ u.dst = IF k.dst = tag THEN o ELSE tag
    BY <1>8 DEF OtherEnd
  <2> DEFINE a == IF k.dst = tag THEN tag ELSE o
             b == IF k.dst = tag THEN o ELSE tag
  <2> HIDE DEF w, turn, a, b, o, D2
  <2>4. CASE turn
    <3>1. u.dst = a /\ u.src = b
      BY <2>3, <2>4 DEF a, b
    <3>2. w = [[u EXCEPT !.src = a, !.dst = b, !.known = TRUE] EXCEPT !.forced = TRUE]
      BY <2>1, <2>2, <2>4, <3>1
    <3>3. w = [u EXCEPT !.src = a, !.dst = b, !.known = TRUE, !.forced = TRUE]
      BY <1>8, <3>2 DEF EdgeRecords
    <3>4. QED  BY <3>3 DEF a, b
  <2>5. CASE ~turn
    <3>1. u.src = a /\ u.dst = b
      BY <2>3, <2>5 DEF a, b
    <3>2. w = [[u EXCEPT !.known = TRUE] EXCEPT !.forced = TRUE]
      BY <2>1, <2>2, <2>5
    <3>3. w = [u EXCEPT !.src = a, !.dst = b, !.known = TRUE, !.forced = TRUE]
      BY <1>8, <3>1, <3>2 DEF EdgeRecords
    <3>4. QED  BY <3>3 DEF a, b
  <2>6. QED  BY <2>4, <2>5
<1>12. edges' = Partly(E, R2, D2)
  <2>1. \A e \in E : e # u => PartOf(E, R2, D2, e) = PartOf(E, R, D, e)
    <3>1. SUFFICES ASSUME NEW e \in E, e # u
                   PROVE  PartOf(E, R2, D2, e) = PartOf(E, R, D, e)
      OBVIOUS
    <3>2. (e \in R2 <=> e \in R) /\ (e \in D2 <=> e \in D)
      BY <3>1
    <3> HIDE DEF R2, D2
    <3>3. QED  BY <3>2 DEF PartOf, Way
  <2>2. PartOf(E, R, D, u) = u
    BY <1>7 DEF PartOf
  <2>3. \A e \in E : PartOf(E, R, D, e) = u => e = u
    <3>1. \A e, f \in E : Part(E, R, D)[e] = Part(E, R, D)[f] => e = f
      BY <1>4, PartlyMatch
    <3>2. QED  BY <1>8, <2>2, <3>1 DEF Part
  <2>4. edges' = (edges \ {u}) \cup {w}
    <3> HIDE DEF w
    <3>1. QED  BY <1>5, <1>11
  <2> HIDE DEF R2, D2
  <2>5. QED  BY <1>3, <1>8, <2>1, <2>2, <2>3, <2>4 DEF Partly
<1>13. Follows(E, R2, D2)
  <2>1. SUFFICES ASSUME NEW T \in SUBSET Open(E), Conserves(Completed(E, T))
                 PROVE  T \ R2 = D2
    BY DEF Follows
  <2>2. T \ R = D
    BY <1>3, <2>1 DEF Follows
  <2>3. /\ k.dst = tag => Way(T, u).src = tag
        /\ k.dst # tag => Way(T, u).dst = tag
    BY <1>3, <1>4, <1>5, <1>6, <1>7, <2>1, <2>2, ForcedFollows
  <2>4. /\ u \in T => Way(T, u).src = u.dst /\ Way(T, u).dst = u.src
        /\ u \notin T => Way(T, u).src = u.src /\ Way(T, u).dst = u.dst
    BY <1>4, <1>8, WayIs
  <2>5. u \in T <=> turn
    BY <1>8, <2>3, <2>4
  <2> HIDE DEF turn
  <2>6. QED  BY <1>7, <2>2, <2>5
<1> HIDE DEF R2, D2, w, turn, o
<1>14. EmittedEdges' = E
  BY <1>1, <1>2 DEF EmittedEdges
<1>15. edges' = Partly(E, R2, D2) /\ Follows(E, R2, D2)' /\ FromTheDrawing(E)'
  BY <1>1, <1>4, <1>12, <1>13, SameFlow
<1>16. \E Q \in SUBSET Open(E) : \E C \in SUBSET (Open(E) \ Q) :
          edges' = Partly(E, Q, C) /\ Follows(E, Q, C)'
  BY <1>9, <1>15
<1>17. QED  BY <1>1, <1>14, <1>15, <1>16 DEF FlowInv

LEMMA FlowOtherStep ==
    ASSUME FlowInv,
           \/ Start \/ Expand \/ Settled
           \/ UNCHANGED graphVars
    PROVE  FlowInv'
<1>1. CASE Start \/ Expand
  <2>1. phase' = "contract"
    BY <1>1 DEF Start, Expand
  <2>2. QED  BY <2>1 DEF FlowInv
<1>2. CASE Settled \/ UNCHANGED graphVars
  <2>1. /\ drawing' = drawing /\ found' = found /\ edges' = edges
        /\ phase' # "contract" => phase # "contract"
        /\ phase' = "built" => NothingToForce
    BY <1>2 DEF Settled, graphVars, FlowInv, NothingToForce
  <2>2. PICK E : E = EmittedEdges
    OBVIOUS
  <2>3. EmittedEdges' = E
    BY <2>1, <2>2 DEF EmittedEdges
  <2>4. /\ Tags' = Tags
        /\ \A tag : PassesThrough(tag)' <=> PassesThrough(tag)
        /\ \A tag, es : Process(tag, es)' = Process(tag, es)
        /\ FromTheDrawing(E)' <=> FromTheDrawing(E)
        /\ \A R, D : Follows(E, R, D)' <=> Follows(E, R, D)
    BY <2>1, SameFlow
  <2>5. NothingToForce' <=> NothingToForce
    BY <2>1, <2>4 DEF NothingToForce, Forceable
  <2>6. QED  BY <2>1, <2>2, <2>3, <2>4, <2>5 DEF FlowInv
<1>3. QED  BY <1>1, <1>2

LEMMA FlowStep == GraphInv /\ FlowInv /\ [Next]_graphVars => FlowInv'
BY FlowEmitStep, FlowForceStep, FlowOtherStep DEF Next

\* Which way a completion runs along an edge left open.
LEMMA RunsAlong ==
    ASSUME NEW E, FromTheDrawing(E), NEW T, NEW e \in Open(E)
    PROVE  /\ (\E f \in Completed(E, T) : f.known /\ f.src = e.src /\ f.dst = e.dst) <=> e \notin T
           /\ (\E f \in Completed(E, T) : f.known /\ f.src = e.dst /\ f.dst = e.src) <=> e \in T
<1> DEFINE m == Dir(E, T)
<1>1. e \in E /\ e.src # e.dst
  BY DEF Open, FromTheDrawing
<1>2. m[e] = Way(T, e)
  BY <1>1 DEF Dir
<1>3. Completed(E, T) = Under(m, E) /\ \A g \in E : PairOf(m[g]) = PairOf(g)
  BY CompletedMatch
<1> HIDE DEF m
<1>4. ASSUME NEW f \in Completed(E, T), PairOf(f) = PairOf(e)
      PROVE  f = Way(T, e)
  <2>1. PICK g \in E : f = m[g]
    BY <1>3 DEF Under
  <2>2. PairOf(e) = PairOf(g)
    BY <1>3, <1>4, <2>1
  <2>3. g = e
    BY <2>2 DEF FromTheDrawing
  <2>4. QED  BY <1>2, <2>1, <2>3
<1>5. Way(T, e) \in Completed(E, T)
  BY <1>1, <1>2, <1>3 DEF Under
<1>6. /\ Way(T, e).known
      /\ e \in T => Way(T, e).src = e.dst /\ Way(T, e).dst = e.src
      /\ e \notin T => Way(T, e).src = e.src /\ Way(T, e).dst = e.dst
  BY <1>1, WayIs
<1>7. (\E f \in Completed(E, T) : f.known /\ f.src = e.src /\ f.dst = e.dst) <=> e \notin T
  <2>1. ASSUME NEW f \in Completed(E, T), f.src = e.src, f.dst = e.dst PROVE e \notin T
    <3>1. f = Way(T, e)
      BY <1>4, <2>1 DEF PairOf
    <3>2. QED  BY <1>1, <1>6, <2>1, <3>1
  <2>2. QED  BY <1>5, <1>6, <2>1
<1>8. (\E f \in Completed(E, T) : f.known /\ f.src = e.dst /\ f.dst = e.src) <=> e \in T
  <2>1. ASSUME NEW f \in Completed(E, T), f.src = e.dst, f.dst = e.src PROVE e \in T
    <3>1. PairOf(f) = PairOf(e)
      BY <2>1 DEF PairOf
    <3>2. f = Way(T, e)
      BY <1>4, <3>1
    <3>3. QED  BY <1>1, <1>6, <2>1, <3>2
  <2>2. QED  BY <1>5, <1>6, <2>1
<1>9. QED  BY <1>7, <1>8

LEMMA CompletionsAre ==
    Completions = {Completed(EmittedEdges, T) : T \in SUBSET Open(EmittedEdges)}
<1> DEFINE E == EmittedEdges
           open == {e \in E : ~e.known /\ ~e.noThrough}
           turn(T, e) == IF e \in T THEN [e EXCEPT !.src = e.dst, !.dst = e.src, !.known = TRUE]
                                     ELSE [e EXCEPT !.known = TRUE]
           whole(T) == (E \ open) \cup {turn(T, e) : e \in open}
<1>1. Completions = {whole(T) : T \in SUBSET open}
  BY DEF Completions
<1>2. open = Open(E) /\ \A T, e : turn(T, e) = Way(T, e)
  BY DEF Open, Way
<1> HIDE DEF E, turn, open
<1>3. \A T : whole(T) = Completed(E, T)
  BY <1>2 DEF Completed, Open
<1> HIDE DEF whole
<1>4. {whole(T) : T \in SUBSET open} = {Completed(E, T) : T \in SUBSET Open(E)}
  BY <1>2, <1>3
<1>5. Completions = {Completed(E, T) : T \in SUBSET Open(E)}
  BY <1>1, <1>4, Zenon
<1>6. QED  BY <1>5 DEF E

\* Whatever the drawing and the order its items are looked at in: the
\* directions the loop over the pass-through items adds are those that no
\* conserving way to direct the open edges has otherwise, and all of them
\* (_passthrough_pass). Each was forced by a known one, so every conserving
\* completion has it; and where the loop comes to rest, turning all edges that
\* are still open makes another such completion.
THEOREM ForcingIsExact == Spec => []ForcedIsImplied
<1>1. GraphInv /\ FlowInv => ForcedIsImplied
  <2> SUFFICES ASSUME GraphInv, FlowInv, phase = "built" PROVE ForcedIsImplied
    BY DEF ForcedIsImplied
  <2>1. PICK E : E = EmittedEdges
    OBVIOUS
  <2>2. PICK R \in SUBSET Open(E) : \E D \in SUBSET (Open(E) \ R) :
          edges = Partly(E, R, D) /\ Follows(E, R, D)
    BY <2>1 DEF FlowInv
  <2>3. PICK D \in SUBSET (Open(E) \ R) : edges = Partly(E, R, D) /\ Follows(E, R, D)
    BY <2>2
  <2>4. drawing \in Drawings /\ FromTheDrawing(E) /\ NothingToForce
    BY <2>1 DEF GraphInv, FlowInv
  <2> DEFINE sound == {c \in Completions : Conserves(c)}
             runs(c, a, b) == \E f \in c : f.known /\ f.src = a /\ f.dst = b
  <2>5. SUFFICES ASSUME sound # {}, NEW e \in edges, e.forced \/ ~(e.known \/ e.noThrough)
                 PROVE  /\ e.forced <=> \/ \A c \in sound : runs(c, e.src, e.dst)
                                        \/ \A c \in sound : runs(c, e.dst, e.src)
                        /\ e.forced => \A c \in sound : runs(c, e.src, e.dst)
    BY DEF ForcedIsImplied
  <2>6. sound = {Completed(E, T) : T \in {S \in SUBSET Open(E) : Conserves(Completed(E, S))}}
    BY <2>1, CompletionsAre
  <2>7. PICK x \in E : e = PartOf(E, R, D, x)
    BY <2>3 DEF Partly
  <2>8. x \in Open(E) /\ (e.forced <=> x \notin R)
    <3>1. CASE x \in Open(E) \ R
      BY <2>4, <2>7, <3>1, PartIs
    <3>2. CASE x \notin Open(E) \ R
      <4>1. e = x /\ ~e.forced
        BY <2>4, <2>7, <3>2, PartIs DEF FromTheDrawing
      <4>2. QED  BY <2>5, <3>2, <4>1 DEF Open
    <3>3. QED  BY <3>1, <3>2
  <2>9. ASSUME NEW T
        PROVE  /\ runs(Completed(E, T), x.src, x.dst) <=> x \notin T
               /\ runs(Completed(E, T), x.dst, x.src) <=> x \in T
    BY <2>4, <2>8, RunsAlong
  <2> HIDE DEF runs
  <2>10. CASE x \notin R
    <3>1. ASSUME NEW c \in sound PROVE runs(c, e.src, e.dst)
      <4>1. PICK T \in SUBSET Open(E) : Conserves(Completed(E, T)) /\ c = Completed(E, T)
        BY <2>6
      <4>2. x \in T <=> x \in D
        BY <2>3, <2>10, <4>1 DEF Follows
      <4>3. /\ e.src = Way(D, x).src /\ e.dst = Way(D, x).dst
        BY <2>4, <2>7, <2>8, <2>10, PartIs
      <4>4. /\ x \in D => e.src = x.dst /\ e.dst = x.src
            /\ x \notin D => e.src = x.src /\ e.dst = x.dst
        BY <2>4, <4>3, WayIs
      <4>5. QED  BY <2>9, <4>1, <4>2, <4>4
    <3>2. QED  BY <2>8, <2>10, <3>1
  <2>11. CASE x \in R
    <3>1. e = x /\ ~e.forced
      BY <2>4, <2>7, <2>8, <2>11, PartIs
    <3>2. PICK T \in SUBSET Open(E) : Conserves(Completed(E, T))
      BY <2>5, <2>6
    <3> DEFINE S == (T \ R) \cup (R \ T)
    <3>3. S \in SUBSET Open(E) /\ (x \in S <=> x \notin T)
      BY <2>11
    <3>4. Conserves(Completed(E, S))
      <4>1. \A tag \in Tags, k, u \in Partly(E, R, D) :
               ~ /\ PassesThrough(tag) /\ Process(tag, Partly(E, R, D)) = {k, u}
                 /\ k.known /\ ~u.known /\ ~u.noThrough
        BY <2>3, <2>4 DEF NothingToForce, Forceable
      <4>2. QED  BY <2>4, <3>2, <4>1, TurnsAround
    <3> HIDE DEF S
    <3>5. Completed(E, T) \in sound /\ Completed(E, S) \in sound
      <4> HIDE DEF sound
      <4>1. QED  BY <2>6, <3>2, <3>3, <3>4
    <3> HIDE DEF sound
    <3>6. QED  BY <2>9, <3>1, <3>3, <3>5
  <2>12. QED  BY <2>10, <2>11
<1>2. Init => FlowInv
  BY DEF Init, FlowInv
<1>3. QED  BY <1>1, <1>2, GraphInvInit, GraphStep, FlowStep, PTL DEF Spec

----------------------------------------------------------------------------
(* Hops over a relation, counted.                                            *)

\* A recursion that takes members of a set to members of it.
LEMMA SetsStepByStep ==
    ASSUME NEW n \in Nat, NEW X, NEW base \in X, NEW M \in [X -> X]
    PROVE  \E f \in [0 .. n -> X] :
              f = [k \in 0 .. n |-> IF k = 0 THEN base ELSE M[f[k - 1]]]
<1> DEFINE F == [p \in (1 .. n) \X X |-> M[p[2]]]
<1>1. PICK h : AreSteps(h, base, F, n)
  <2> HIDE DEF F
  <2>1. QED  BY StepsExist
<1>2. \A k \in 1 .. n : k \in 0 .. n /\ k - 1 \in 0 .. n /\ k # 0
  OBVIOUS
<1>3. \A k \in 1 .. n : h[k - 1] \in X => h[k] = M[h[k - 1]]
  BY <1>1 DEF AreSteps
<1>4. \A k \in 0 .. n : h[k] \in X
  <2> DEFINE S == {k \in 0 .. n : h[k] \in X}
  <2>1. 0 \in S
    <3>1. 0 \in 0 .. n
      OBVIOUS
    <3>2. h[0] = base
      BY <1>1 DEF AreSteps
    <3>3. QED  BY <3>1, <3>2
  <2>2. \A k \in 1 .. n : k - 1 \in S => k \in S
    BY <1>2, <1>3
  <2>3. S \in SUBSET (0 .. n)
    OBVIOUS
  <2> HIDE DEF S
  <2>4. S = 0 .. n
    BY <2>1, <2>2, <2>3, StepByStep
  <2>5. QED  BY <2>4 DEF S
<1>5. h = [k \in 0 .. n |-> h[k]]
  BY <1>1 DEF AreSteps
<1>6. h \in [0 .. n -> X]
  BY <1>4, <1>5
<1>7. \A k \in 0 .. n : h[k] = IF k = 0 THEN base ELSE M[h[k - 1]]
  <2>1. \A k \in 0 .. n : k # 0 => k \in 1 .. n
    OBVIOUS
  <2>2. h[0] = base
    BY <1>1 DEF AreSteps
  <2>3. \A k \in 1 .. n : k - 1 \in 0 .. n
    OBVIOUS
  <2>4. QED  BY <1>3, <1>4, <2>1, <2>2, <2>3
<1>8. h = [k \in 0 .. n |-> IF k = 0 THEN base ELSE M[h[k - 1]]]
  BY <1>5, <1>7
<1>9. QED  BY <1>6, <1>8

----------------------------------------------------------------------------
(* Reaching by hops.                                                         *)

LEMMA BeyondIs ==
    ASSUME NEW R, NEW S
    PROVE  /\ \A y : y \in Beyond(R, S) <=> \E r \in R : r[1] \in S /\ r[2] = y
BY DEF Beyond, Successors

\* What n hops come to is what a function of the hops made says.
IsReach(f, R, t, n) ==
    f = [i \in 0 .. n |-> IF i = 0 THEN {} ELSE Beyond(R, f[i - 1] \cup {t})]

LEMMA ReachExists ==
    ASSUME NEW R, NEW t, NEW n \in Nat
    PROVE  \E f : IsReach(f, R, t, n)
<1> DEFINE X == SUBSET {r[2] : r \in R}
           M == [A \in X |-> Beyond(R, A \cup {t})]
<1>1. M \in [X -> X]
  BY BeyondIs
<1>2. {} \in X
  OBVIOUS
<1>3. PICK f \in [0 .. n -> X] : f = [k \in 0 .. n |-> IF k = 0 THEN {} ELSE M[f[k - 1]]]
  <2> DEFINE none == {}
  <2>1. none \in X
    BY <1>2
  <2> HIDE DEF X, M, none
  <2>2. \E f \in [0 .. n -> X] : f = [k \in 0 .. n |-> IF k = 0 THEN none ELSE M[f[k - 1]]]
    BY <1>1, <2>1, SetsStepByStep
  <2>3. QED  BY <2>2 DEF none
<1>4. \A k \in 0 .. n : k # 0 => f[k - 1] \in X
  <2>1. \A k \in 0 .. n : k # 0 => k - 1 \in 0 .. n
    OBVIOUS
  <2> HIDE DEF X
  <2>2. QED  BY <2>1
<1>5. \A k \in 0 .. n : k # 0 => M[f[k - 1]] = Beyond(R, f[k - 1] \cup {t})
  <2>1. \A A \in X : M[A] = Beyond(R, A \cup {t})
    OBVIOUS
  <2> HIDE DEF X, M
  <2>2. QED  BY <1>4, <2>1
<1> HIDE DEF M, X
<1>6. \A k \in 0 .. n : f[k] = IF k = 0 THEN {} ELSE Beyond(R, f[k - 1] \cup {t})
  <2>1. \A k \in 0 .. n : f[k] = IF k = 0 THEN {} ELSE M[f[k - 1]]
    BY <1>3
  <2>2. QED  BY <1>5, <2>1
<1>7. f = [k \in 0 .. n |-> f[k]]
  OBVIOUS
<1>8. IsReach(f, R, t, n)
  BY <1>6, <1>7 DEF IsReach
<1>9. QED  BY <1>8

LEMMA WithinIsReach ==
    ASSUME NEW R, NEW t, NEW n \in Nat
    PROVE  \E f : IsReach(f, R, t, n) /\ Within(R, t, n) = f[n]
<1> DEFINE f == CHOOSE g : IsReach(g, R, t, n)
<1>1. IsReach(f, R, t, n)
  <2> HIDE DEF IsReach
  <2>1. QED  BY ReachExists
<1>2. Within(R, t, n) = f[n]
  BY DEF Within, IsReach
<1> HIDE DEF f
<1>3. QED  BY <1>1, <1>2

LEMMA ReachesAgree ==
    ASSUME NEW R, NEW t, NEW m \in Nat, NEW n \in Nat, m <= n,
           NEW f, NEW g, IsReach(f, R, t, m), IsReach(g, R, t, n)
    PROVE  f[m] = g[m]
<1> DEFINE S == {k \in 0 .. m : f[k] = g[k]}
<1>1. \A k \in 0 .. m : /\ f[k] = IF k = 0 THEN {} ELSE Beyond(R, f[k - 1] \cup {t})
                        /\ g[k] = IF k = 0 THEN {} ELSE Beyond(R, g[k - 1] \cup {t})
  <2>1. \A k \in 0 .. m : k \in 0 .. n
    OBVIOUS
  <2>2. QED  BY <2>1 DEF IsReach
<1>2. 0 \in S
  <2>1. 0 \in 0 .. m
    OBVIOUS
  <2>2. f[0] = {} /\ g[0] = {}
    BY <1>1, <2>1
  <2>3. QED  BY <2>1, <2>2
<1>3. \A k \in 1 .. m : k - 1 \in S => k \in S
  <2>1. \A k \in 1 .. m : k \in 0 .. m /\ k # 0
    OBVIOUS
  <2>2. QED  BY <1>1, <2>1
<1>4. S \in SUBSET (0 .. m)
  OBVIOUS
<1> HIDE DEF S
<1>5. S = 0 .. m
  BY <1>2, <1>3, <1>4, StepByStep
<1>6. m \in S
  BY <1>5
<1>7. QED  BY <1>6 DEF S

\* One hop more.
LEMMA WithinIs ==
    ASSUME NEW R, NEW t
    PROVE  /\ Within(R, t, 0) = {}
           /\ \A n \in Nat : Within(R, t, n + 1) = Beyond(R, Within(R, t, n) \cup {t})
<1>1. Within(R, t, 0) = {}
  <2>1. PICK f : IsReach(f, R, t, 0) /\ Within(R, t, 0) = f[0]
    BY WithinIsReach
  <2>2. f[0] = {}
    BY <2>1 DEF IsReach
  <2>3. QED  BY <2>1, <2>2
<1>2. ASSUME NEW n \in Nat
      PROVE  Within(R, t, n + 1) = Beyond(R, Within(R, t, n) \cup {t})
  <2>1. PICK f : IsReach(f, R, t, n) /\ Within(R, t, n) = f[n]
    BY WithinIsReach
  <2>2. n + 1 \in Nat /\ n <= n + 1
    OBVIOUS
  <2>3. PICK g : IsReach(g, R, t, n + 1) /\ Within(R, t, n + 1) = g[n + 1]
    BY <2>2, WithinIsReach
  <2>4. f[n] = g[n]
    BY <2>1, <2>2, <2>3, ReachesAgree
  <2>5. g[n + 1] = Beyond(R, g[n] \cup {t})
    <3>1. n + 1 \in 0 .. n + 1 /\ n + 1 # 0 /\ (n + 1) - 1 = n
      OBVIOUS
    <3>2. g[n + 1] = Beyond(R, g[(n + 1) - 1] \cup {t})
      BY <2>3, <3>1 DEF IsReach
    <3>3. QED  BY <3>1, <3>2
  <2>6. QED  BY <2>1, <2>3, <2>4, <2>5
<1>3. QED  BY <1>1, <1>2

\* More hops reach no less.
LEMMA WithinGrows ==
    ASSUME NEW R, NEW t, NEW m \in Nat, NEW n \in Nat, m <= n
    PROVE  Within(R, t, m) \subseteq Within(R, t, n)
<1> DEFINE S == {k \in 0 .. n : Within(R, t, k) \subseteq Within(R, t, k + 1)}
<1>1. 0 \in S
  BY WithinIs
<1>2. ASSUME NEW k \in 1 .. n, k - 1 \in S PROVE k \in S
  <2>1. k \in 0 .. n /\ k - 1 \in Nat /\ (k - 1) + 1 = k /\ k \in Nat
    OBVIOUS
  <2>2. Within(R, t, k - 1) \subseteq Within(R, t, k)
    BY <1>2, <2>1
  <2>3. /\ Within(R, t, k) = Beyond(R, Within(R, t, k - 1) \cup {t})
        /\ Within(R, t, k + 1) = Beyond(R, Within(R, t, k) \cup {t})
    <3>1. \A i \in Nat : Within(R, t, i + 1) = Beyond(R, Within(R, t, i) \cup {t})
      BY WithinIs
    <3>2. Within(R, t, (k - 1) + 1) = Beyond(R, Within(R, t, k - 1) \cup {t})
      BY <2>1, <3>1
    <3>3. QED  BY <2>1, <3>1, <3>2
  <2>4. Within(R, t, k) \subseteq Within(R, t, k + 1)
    BY <2>2, <2>3, BeyondIs
  <2>5. QED  BY <2>1, <2>4
<1>3. S \in SUBSET (0 .. n)
  OBVIOUS
<1> HIDE DEF S
<1>4. S = 0 .. n
  BY <1>1, <1>2, <1>3, StepByStep
<1>5. \A k \in 0 .. n : Within(R, t, k) \subseteq Within(R, t, k + 1)
  BY <1>4 DEF S
<1> DEFINE T == {k \in 0 .. n : m <= k => Within(R, t, m) \subseteq Within(R, t, k)}
<1>6. 0 \in T
  <2>1. 0 \in 0 .. n /\ (m <= 0 => m = 0)
    OBVIOUS
  <2>2. QED  BY <2>1
<1>7. ASSUME NEW k \in 1 .. n, k - 1 \in T PROVE k \in T
  <2>1. k \in 0 .. n /\ k - 1 \in 0 .. n /\ (k - 1) + 1 = k /\ (m <= k => m = k \/ m <= k - 1)
    OBVIOUS
  <2>2. Within(R, t, k - 1) \subseteq Within(R, t, (k - 1) + 1)
    BY <1>5, <2>1
  <2>3. m <= k - 1 => Within(R, t, m) \subseteq Within(R, t, k - 1)
    BY <1>7
  <2>4. m <= k => Within(R, t, m) \subseteq Within(R, t, k)
    BY <2>1, <2>2, <2>3
  <2>5. QED  BY <2>1, <2>4
<1>8. T \in SUBSET (0 .. n)
  OBVIOUS
<1> HIDE DEF T
<1>9. T = 0 .. n
  BY <1>6, <1>7, <1>8, StepByStep
<1>10. n \in T
  BY <1>9
<1>11. QED  BY <1>10 DEF T

\* What holds what is one hop from itself holds all that is within any.
LEMMA WithinClosed ==
    ASSUME NEW R, NEW t, NEW n \in Nat, NEW C, t \in C,
           \A r \in R : r[1] \in C => r[2] \in C
    PROVE  Within(R, t, n) \subseteq C
<1> DEFINE S == {k \in 0 .. n : Within(R, t, k) \subseteq C}
<1>1. 0 \in S
  BY WithinIs
<1>2. ASSUME NEW k \in 1 .. n, k - 1 \in S PROVE k \in S
  <2>1. k \in 0 .. n /\ k - 1 \in Nat /\ (k - 1) + 1 = k
    OBVIOUS
  <2>2. Within(R, t, k - 1) \subseteq C
    BY <1>2
  <2>3. Within(R, t, (k - 1) + 1) = Beyond(R, Within(R, t, k - 1) \cup {t})
    BY <2>1, WithinIs
  <2>4. Within(R, t, k) \subseteq C
    BY <2>1, <2>2, <2>3, BeyondIs
  <2>5. QED  BY <2>1, <2>4
<1>3. S \in SUBSET (0 .. n)
  OBVIOUS
<1> HIDE DEF S
<1>4. S = 0 .. n
  BY <1>1, <1>2, <1>3, StepByStep
<1>5. n \in S
  BY <1>4
<1>6. QED  BY <1>5 DEF S

\* More flow leads no less far.
LEMMA WithinMore ==
    ASSUME NEW R, NEW Q, R \subseteq Q, NEW t, NEW n \in Nat
    PROVE  Within(R, t, n) \subseteq Within(Q, t, n)
<1> DEFINE S == {k \in 0 .. n : Within(R, t, k) \subseteq Within(Q, t, k)}
<1>1. 0 \in S
  BY WithinIs
<1>2. ASSUME NEW k \in 1 .. n, k - 1 \in S PROVE k \in S
  <2>1. k \in 0 .. n /\ k - 1 \in Nat /\ (k - 1) + 1 = k
    OBVIOUS
  <2>2. Within(R, t, k - 1) \subseteq Within(Q, t, k - 1)
    BY <1>2
  <2>3. /\ Within(R, t, (k - 1) + 1) = Beyond(R, Within(R, t, k - 1) \cup {t})
        /\ Within(Q, t, (k - 1) + 1) = Beyond(Q, Within(Q, t, k - 1) \cup {t})
    BY <2>1, WithinIs
  <2>4. Within(R, t, k) \subseteq Within(Q, t, k)
    BY <2>1, <2>2, <2>3, BeyondIs
  <2>5. QED  BY <2>1, <2>4
<1>3. S \in SUBSET (0 .. n)
  OBVIOUS
<1> HIDE DEF S
<1>4. S = 0 .. n
  BY <1>1, <1>2, <1>3, StepByStep
<1>5. n \in S
  BY <1>4
<1>6. QED  BY <1>5 DEF S

\* No item is more hops away than there are items.
LEMMA WithinAll ==
    ASSUME NEW K, IsFiniteSet(K), NEW t \in K, NEW R, \A r \in R : r[2] \in K,
           NEW n \in Nat
    PROVE  Within(R, t, n) \subseteq Within(R, t, Cardinality(K)) \cup {t}
<1> DEFINE N == Cardinality(K)
           a == [k \in 0 .. N |-> Within(R, t, k) \cup {t}]
           M == [A \in SUBSET K |-> A \cup Beyond(R, A)]
<1>1. N \in Nat
  BY FS_CardinalityType
<1>2. \A A \in SUBSET K : M[A] \in SUBSET K /\ A \subseteq M[A]
  BY BeyondIs
<1>3. a[0] = {t}
  <2>1. 0 \in 0 .. N
    BY <1>1
  <2>2. QED  BY <2>1, WithinIs
<1>4. \A k \in 0 .. N : a[k] \in SUBSET K
  <2>1. \A k \in 0 .. N : Within(R, t, k) \subseteq K
    <3>1. \A k \in 0 .. N : k \in Nat
      BY <1>1
    <3>2. QED  BY <3>1, WithinClosed
  <2>2. QED  BY <2>1
<1>5. ASSUME NEW k \in 1 .. N PROVE a[k] = M[a[k - 1]]
  <2>1. k \in 0 .. N /\ k - 1 \in 0 .. N /\ k - 1 \in Nat /\ k \in Nat /\ (k - 1) + 1 = k /\ k - 1 <= k
    BY <1>1
  <2>2. Within(R, t, (k - 1) + 1) = Beyond(R, Within(R, t, k - 1) \cup {t})
    BY <2>1, WithinIs
  <2>3. Within(R, t, k - 1) \subseteq Within(R, t, k)
    BY <2>1, WithinGrows
  <2>4. a[k] = Within(R, t, k) \cup {t} /\ a[k - 1] = Within(R, t, k - 1) \cup {t}
    BY <2>1
  <2>5. M[a[k - 1]] = a[k - 1] \cup Beyond(R, a[k - 1])
    BY <1>4, <2>1
  <2> HIDE DEF a, M
  <2>6. Within(R, t, k) = Beyond(R, a[k - 1])
    BY <2>1, <2>2, <2>4
  <2>7. QED  BY <2>3, <2>4, <2>5, <2>6
<1> HIDE DEF N, a, M
<1>6. a[N] \in SUBSET K /\ a[0] \subseteq a[N] /\ M[a[N]] = a[N]
  <2>1. a[0] \in SUBSET K /\ a[0] # {} /\ Cardinality(K) = N
    BY <1>3 DEF N
  <2>2. QED  BY <1>1, <1>2, <1>5, <2>1, GrowsUntilClosed
<1>7. Beyond(R, a[N]) \subseteq a[N]
  BY <1>6 DEF M
<1>8. \A r \in R : r[1] \in a[N] => r[2] \in a[N]
  BY <1>7, BeyondIs
<1>9. t \in a[N]
  BY <1>3, <1>6
<1>10. Within(R, t, n) \subseteq a[N]
  BY <1>8, <1>9, WithinClosed
<1>11. a[N] = Within(R, t, N) \cup {t}
  <2>1. N \in 0 .. N
    BY <1>1
  <2>2. QED  BY <2>1 DEF a
<1>12. QED  BY <1>10, <1>11 DEF N

----------------------------------------------------------------------------
(* Paths.                                                                    *)

LEMMA LongerIs ==
    ASSUME NEW R, NEW b, NEW A
    PROVE  /\ \A p : p \in Longer(R, b, A) <=>
                \E q \in A : \E r \in R : /\ Last(q) # b /\ r[1] = Last(q)
                                          /\ r[2] \notin ToSet(q) /\ p = Append(q, r[2])
BY DEF Longer, Successors

IsLong(f, R, a, b, n) ==
    f = [k \in 0 .. n |-> IF k = 0 THEN {<<a>>} ELSE Longer(R, b, f[k - 1])]

LEMMA LongExists ==
    ASSUME NEW R, NEW a, NEW b, NEW n \in Nat
    PROVE  \E f \in [0 .. n -> SUBSET Seq({r[2] : r \in R} \cup {a})] : IsLong(f, R, a, b, n)
<1> DEFINE Z == {r[2] : r \in R} \cup {a}
           X == SUBSET Seq(Z)
           M == [A \in X |-> Longer(R, b, A)]
           base == {<<a>>}
<1>1. M \in [X -> X]
  <2>1. \A r \in R : r[2] \in Z
    OBVIOUS
  <2> HIDE DEF Z
  <2>2. \A q \in Seq(Z) : \A z \in Z : Append(q, z) \in Seq(Z)
    OBVIOUS
  <2>3. \A A \in X : Longer(R, b, A) \in X
    BY <2>1, <2>2, LongerIs
  <2>4. QED  BY <2>3
<1>2. base \in X
  <2>1. a \in Z
    OBVIOUS
  <2> HIDE DEF Z
  <2>2. <<a>> \in Seq(Z)
    BY <2>1
  <2>3. QED  BY <2>2
<1>3. PICK f \in [0 .. n -> X] : f = [k \in 0 .. n |-> IF k = 0 THEN base ELSE M[f[k - 1]]]
  <2> HIDE DEF X, M, base
  <2>1. QED  BY <1>1, <1>2, SetsStepByStep
<1>4. \A k \in 0 .. n : k # 0 => f[k - 1] \in X
  <2>1. \A k \in 0 .. n : k # 0 => k - 1 \in 0 .. n
    OBVIOUS
  <2> HIDE DEF X
  <2>2. QED  BY <2>1
<1>5. \A k \in 0 .. n : k # 0 => M[f[k - 1]] = Longer(R, b, f[k - 1])
  <2>1. \A A \in X : M[A] = Longer(R, b, A)
    OBVIOUS
  <2> HIDE DEF X, M
  <2>2. QED  BY <1>4, <2>1
<1> HIDE DEF M, X
<1>6. \A k \in 0 .. n : f[k] = IF k = 0 THEN base ELSE Longer(R, b, f[k - 1])
  <2>1. \A k \in 0 .. n : f[k] = IF k = 0 THEN base ELSE M[f[k - 1]]
    BY <1>3
  <2>2. QED  BY <1>5, <2>1
<1>7. f = [k \in 0 .. n |-> f[k]]
  OBVIOUS
<1>8. IsLong(f, R, a, b, n)
  BY <1>6, <1>7 DEF IsLong
<1>9. QED  BY <1>8 DEF X, Z

\* The simple paths of at most n hops are those of just as many hops as some
\* number says.
LEMMA PathsAre ==
    ASSUME NEW R, NEW a, NEW b, NEW n \in Nat
    PROVE  \E f : /\ f[0] = {<<a>>}
                  /\ \A k \in 1 .. n : f[k] = Longer(R, b, f[k - 1])
                  /\ SimplePaths(R, a, b, n) =
                        {p \in UNION {f[k] : k \in 1 .. n} : Last(p) = b}
<1> DEFINE f == CHOOSE g : IsLong(g, R, a, b, n)
<1>1. IsLong(f, R, a, b, n)
  <2>1. \E g : IsLong(g, R, a, b, n)
    BY LongExists
  <2> HIDE DEF IsLong
  <2>2. QED  BY <2>1
<1>2. SimplePaths(R, a, b, n) = {p \in UNION {f[k] : k \in 1 .. n} : Last(p) = b}
  BY DEF SimplePaths, IsLong
<1> HIDE DEF f
<1>3. f[0] = {<<a>>}
  <2>1. 0 \in 0 .. n
    OBVIOUS
  <2>2. QED  BY <1>1, <2>1 DEF IsLong
<1>4. \A k \in 1 .. n : f[k] = Longer(R, b, f[k - 1])
  <2>1. \A k \in 1 .. n : k \in 0 .. n /\ k # 0
    OBVIOUS
  <2>2. QED  BY <1>1, <2>1 DEF IsLong
<1>5. QED  BY <1>2, <1>3, <1>4

\* More flow has no fewer paths.
LEMMA PathsMore ==
    ASSUME NEW R, NEW Q, R \subseteq Q, NEW a, NEW b, NEW n \in Nat
    PROVE  SimplePaths(R, a, b, n) \subseteq SimplePaths(Q, a, b, n)
<1>1. PICK f : /\ f[0] = {<<a>>}
               /\ \A k \in 1 .. n : f[k] = Longer(R, b, f[k - 1])
               /\ SimplePaths(R, a, b, n) = {p \in UNION {f[k] : k \in 1 .. n} : Last(p) = b}
  BY PathsAre
<1>2. PICK g : /\ g[0] = {<<a>>}
               /\ \A k \in 1 .. n : g[k] = Longer(Q, b, g[k - 1])
               /\ SimplePaths(Q, a, b, n) = {p \in UNION {g[k] : k \in 1 .. n} : Last(p) = b}
  BY PathsAre
<1> DEFINE S == {k \in 0 .. n : f[k] \subseteq g[k]}
<1>3. 0 \in S
  BY <1>1, <1>2
<1>4. ASSUME NEW k \in 1 .. n, k - 1 \in S PROVE k \in S
  <2>1. f[k - 1] \subseteq g[k - 1] /\ k \in 0 .. n
    BY <1>4
  <2>2. f[k] = Longer(R, b, f[k - 1]) /\ g[k] = Longer(Q, b, g[k - 1])
    BY <1>1, <1>2
  <2>3. Longer(R, b, f[k - 1]) \subseteq Longer(Q, b, g[k - 1])
    BY <2>1, LongerIs
  <2>4. QED  BY <2>1, <2>2, <2>3
<1>5. S \in SUBSET (0 .. n)
  OBVIOUS
<1> HIDE DEF S
<1>6. S = 0 .. n
  BY <1>3, <1>4, <1>5, StepByStep
<1>7. \A k \in 1 .. n : f[k] \subseteq g[k]
  <2>1. \A k \in 1 .. n : k \in 0 .. n
    OBVIOUS
  <2>2. QED  BY <1>6, <2>1 DEF S
<1>8. QED  BY <1>1, <1>2, <1>7

\* What a function makes of finitely many things are finitely many.
LEMMA FiniteImage ==
    ASSUME NEW S, IsFiniteSet(S), NEW f, DOMAIN f = S
    PROVE  IsFiniteSet({f[x] : x \in S})
<1> DEFINE T == {f[x] : x \in S}
           g == [x \in S |-> f[x]]
<1>1. g \in Surjection(S, T)
  BY DEF Surjection
<1> HIDE DEF T, g
<1>2. IsFiniteSet(T)
  BY <1>1, FS_Surjection
<1>3. QED  BY <1>2 DEF T

LEMMA LongerFinite ==
    ASSUME NEW K, IsFiniteSet(K), NEW R, \A r \in R : r[2] \in K, NEW b,
           NEW A, IsFiniteSet(A)
    PROVE  IsFiniteSet(Longer(R, b, A))
<1> DEFINE P == A \X K
           f == [z \in P |-> Append(z[1], z[2])]
           T == {f[z] : z \in P}
<1>1. IsFiniteSet(P)
  BY FS_Product
<1>2. IsFiniteSet(T)
  <2>1. DOMAIN f = P
    OBVIOUS
  <2> HIDE DEF P, f
  <2>2. QED  BY <1>1, <2>1, FiniteImage
<1>3. Longer(R, b, A) \subseteq T
  <2>1. SUFFICES ASSUME NEW p \in Longer(R, b, A) PROVE p \in T
    OBVIOUS
  <2>2. PICK q \in A : \E r \in R : p = Append(q, r[2])
    BY LongerIs
  <2>3. PICK r \in R : p = Append(q, r[2])
    BY <2>2
  <2>4. <<q, r[2]>> \in P
    OBVIOUS
  <2>5. f[<<q, r[2]>>] = p
    BY <2>3, <2>4
  <2> HIDE DEF P, f
  <2>6. QED  BY <2>4, <2>5
<1> HIDE DEF T
<1>4. QED  BY <1>2, <1>3, FS_Subset

LEMMA PathsFinite ==
    ASSUME NEW K, IsFiniteSet(K), NEW R, \A r \in R : r[2] \in K, NEW a, NEW b, NEW n \in Nat
    PROVE  IsFiniteSet(SimplePaths(R, a, b, n))
<1>1. PICK f : /\ f[0] = {<<a>>}
               /\ \A k \in 1 .. n : f[k] = Longer(R, b, f[k - 1])
               /\ SimplePaths(R, a, b, n) = {p \in UNION {f[k] : k \in 1 .. n} : Last(p) = b}
  BY PathsAre
<1> DEFINE S == {k \in 0 .. n : IsFiniteSet(f[k])}
<1>2. 0 \in S
  <2>1. 0 \in 0 .. n
    OBVIOUS
  <2>2. IsFiniteSet({<<a>>})
    BY FS_Singleton
  <2>3. QED  BY <1>1, <2>1, <2>2
<1>3. ASSUME NEW k \in 1 .. n, k - 1 \in S PROVE k \in S
  <2>1. IsFiniteSet(f[k - 1]) /\ k \in 0 .. n
    BY <1>3
  <2>2. IsFiniteSet(Longer(R, b, f[k - 1]))
    BY <2>1, LongerFinite
  <2>3. QED  BY <1>1, <2>1, <2>2
<1>4. S \in SUBSET (0 .. n)
  OBVIOUS
<1> HIDE DEF S
<1>5. S = 0 .. n
  BY <1>2, <1>3, <1>4, StepByStep
<1>6. \A k \in 1 .. n : IsFiniteSet(f[k])
  <2>1. \A k \in 1 .. n : k \in 0 .. n
    OBVIOUS
  <2>2. QED  BY <1>5, <2>1 DEF S
<1> DEFINE D == 1 .. n
           g == [k \in D |-> f[k]]
           T == {g[k] : k \in D}
<1>7. IsFiniteSet(T)
  <2>1. IsFiniteSet(D) /\ DOMAIN g = D
    BY FS_Interval
  <2> HIDE DEF D, g
  <2>2. QED  BY <2>1, FiniteImage
<1>8. \A A \in T : IsFiniteSet(A)
  BY <1>6
<1>9. SimplePaths(R, a, b, n) \in SUBSET UNION T
  BY <1>1
<1> HIDE DEF T
<1>10. IsFiniteSet(UNION T)
  BY <1>7, <1>8, FS_UNION
<1>11. QED  BY <1>9, <1>10, FS_Subset

----------------------------------------------------------------------------
(* The database and the graph the hub answers from.                          *)

\* Nothing but the graph of the hub was ever begun to load.
OnlyBound == ToSet(begun) \subseteq {bound}

\* What is in the database then is of that graph, and all of it once a load has
\* returned.
LEMMA DatabaseIs ==
    ASSUME StoreInv, OnlyBound
    PROVE  /\ Items \subseteq Known
           /\ \A t \in Items : labels[t] \subseteq {bound.type[t]}
           /\ \A r \in rels : \E e \in bound.edges : r = RelOf(e)
           /\ bound \in returned => /\ Known \subseteq Items
                                    /\ \A t \in Known : bound.type[t] \in labels[t]
                                    /\ \A e \in bound.edges : RelOf(e) \in rels
<1>1. /\ \A t \in Items :
            /\ labels[t] \subseteq {g.type[t] : g \in {h \in ToSet(begun) : t \in DOMAIN h.type}}
            /\ itemType[t] \in labels[t]
      /\ \A r \in rels : \E g \in ToSet(begun) : \E e \in g.edges : r = RelOf(e)
  BY DEF StoreInv, NothingElse
<1>2. \A g \in ToSet(begun) : g = bound
  BY DEF OnlyBound
<1>3. \A t \in Items : t \in Known /\ labels[t] \subseteq {bound.type[t]}
  BY <1>1, <1>2 DEF Known
<1>4. \A r \in rels : \E e \in bound.edges : r = RelOf(e)
  BY <1>1, <1>2
<1>5. bound \in returned => /\ \A t \in Known : t \in Items /\ bound.type[t] \in labels[t]
                            /\ \A e \in bound.edges : RelOf(e) \in rels
  BY StoreInvImplies DEF StoreHoldsWhatWasLoaded, Known
<1>6. QED  BY <1>3, <1>4, <1>5

\* Flow in the database is verified flow of the graph.
LEMMA FlowRelsAre ==
    ASSUME StoreInv, OnlyBound, bound \in Graphs
    PROVE  /\ FlowRels \subseteq FlowsIn(bound)
           /\ bound \in returned => FlowsIn(bound) \subseteq FlowRels
           /\ FlowsIn(bound) \subseteq OpenIn(bound)
           /\ \A p \in OpenIn(bound) : p[1] \in Known /\ p[2] \in Known
           /\ FlowsIn(bound) \subseteq Known \X Known
<1>1. \A e \in bound.edges : e.src \in Known /\ e.dst \in Known /\ e.known \in BOOLEAN
  BY StoreAssumption DEF Loadable, Known
<1>2. ASSUME NEW p \in FlowRels PROVE p \in FlowsIn(bound)
  <2>1. PICK r \in rels : r.rtype = "FLOWS_TO" /\ p = <<r.src, r.dst>>
    BY DEF FlowRels
  <2>2. PICK e \in bound.edges : r = RelOf(e)
    BY DatabaseIs
  <2>3. e.known /\ r.src = e.src /\ r.dst = e.dst
    BY <1>1, <2>1, <2>2 DEF RelOf
  <2>4. QED  BY <2>1, <2>3 DEF FlowsIn
<1>3. ASSUME bound \in returned, NEW p \in FlowsIn(bound) PROVE p \in FlowRels
  <2>1. PICK e \in bound.edges : e.known /\ p = <<e.src, e.dst>>
    BY DEF FlowsIn
  <2>2. RelOf(e) \in rels
    BY <1>3, DatabaseIs
  <2>3. RelOf(e).rtype = "FLOWS_TO" /\ RelOf(e).src = e.src /\ RelOf(e).dst = e.dst
    BY <2>1 DEF RelOf
  <2>4. QED  BY <2>1, <2>2, <2>3 DEF FlowRels
<1>4. FlowsIn(bound) \subseteq OpenIn(bound)
  BY DEF OpenIn
<1>5. FlowsIn(bound) \subseteq Known \X Known
  BY <1>1 DEF FlowsIn
<1>6. ASSUME NEW p \in OpenIn(bound) PROVE p[1] \in Known /\ p[2] \in Known
  <2>1. CASE p \in FlowsIn(bound)
    BY <1>5, <2>1
  <2>2. CASE p \notin FlowsIn(bound)
    <3>1. PICK e \in bound.edges : p \in {<<e.src, e.dst>>, <<e.dst, e.src>>}
      BY <2>2 DEF OpenIn
    <3>2. QED  BY <1>1, <3>1
  <2>3. QED  BY <2>1, <2>2
<1>7. QED  BY <1>2, <1>3, <1>4, <1>5, <1>6

\* A graph has finitely many items.
LEMMA KnownFinite ==
    ASSUME bound \in Graphs
    PROVE  IsFiniteSet(Known)
BY QueryAssumption DEF Known

----------------------------------------------------------------------------
(* Trails.                                                                   *)

\* One item more at the end.
LEMMA AppendIs ==
    ASSUME NEW Z, NEW q \in Seq(Z), q # <<>>, NEW x \in Z, NEW p, p = Append(q, x)
    PROVE  /\ p \in Seq(Z) /\ p # <<>> /\ Len(p) = Len(q) + 1
           /\ Last(p) = x
           /\ ToSet(p) = ToSet(q) \cup {x}
           /\ Last(q) \in ToSet(q)
           /\ Links(p) = Links(q) \cup {<<Last(q), x>>}
           /\ IsInjective(p) <=> IsInjective(q) /\ x \notin ToSet(q)
           /\ \A j \in 1 .. Len(q) : p[j] = q[j]
<1> DEFINE n == Len(q)
<1>1. n \in Nat /\ n >= 1 /\ Len(p) = n + 1 /\ p \in Seq(Z) /\ p # <<>>
  OBVIOUS
<1>2. (\A j \in 1 .. n : p[j] = q[j]) /\ p[n + 1] = x
  OBVIOUS
<1>3. Last(p) = x /\ Last(q) = q[n] /\ n \in 1 .. n
  BY <1>1, <1>2 DEF Last
<1>4. DOMAIN q = 1 .. n /\ DOMAIN p = 1 .. n + 1
  BY <1>1
<1>5. 1 .. n + 1 = (1 .. n) \cup {n + 1}
  BY <1>1
<1> HIDE DEF n
<1>6. ToSet(p) = ToSet(q) \cup {x}
  BY <1>2, <1>4, <1>5 DEF ToSet
<1>7. Last(q) \in ToSet(q)
  BY <1>3, <1>4 DEF ToSet
<1>8. Links(p) = Links(q) \cup {<<Last(q), x>>}
  <2>1. Links(q) = {<<q[k], q[k + 1]>> : k \in 1 .. n - 1}
    BY DEF Links, n
  <2>2. Links(p) = {<<p[k], p[k + 1]>> : k \in 1 .. n}
    <3>1. Links(p) = {<<p[k], p[k + 1]>> : k \in 1 .. Len(p) - 1}
      BY DEF Links
    <3>2. Len(p) - 1 = n
      BY <1>1
    <3>3. QED  BY <3>1, <3>2
  <2>3. 1 .. n = (1 .. n - 1) \cup {n} /\ \A k \in 1 .. n - 1 : k \in 1 .. n /\ k + 1 \in 1 .. n
    BY <1>1
  <2>4. \A k \in 1 .. n - 1 : p[k] = q[k] /\ p[k + 1] = q[k + 1]
    BY <1>2, <2>3
  <2>5. p[n] = Last(q) /\ p[n + 1] = x
    BY <1>2, <1>3
  <2>6. ASSUME NEW l \in Links(p) PROVE l \in Links(q) \cup {<<Last(q), x>>}
    <3>1. PICK k \in 1 .. n : l = <<p[k], p[k + 1]>>
      BY <2>2
    <3>2. QED  BY <2>1, <2>3, <2>4, <2>5, <3>1
  <2>7. ASSUME NEW l \in Links(q) PROVE l \in Links(p)
    <3>1. PICK k \in 1 .. n - 1 : l = <<q[k], q[k + 1]>>
      BY <2>1
    <3>2. l = <<p[k], p[k + 1]>>
      BY <2>4, <3>1
    <3>3. QED  BY <2>2, <2>3, <3>2
  <2>8. <<Last(q), x>> \in Links(p)
    BY <1>3, <2>2, <2>5
  <2>9. QED  BY <2>6, <2>7, <2>8
<1>9. IsInjective(p) <=> IsInjective(q) /\ x \notin ToSet(q)
  <2>1. n + 1 \notin 1 .. n
    BY <1>1
  <2>2. x \in ToSet(q) <=> \E j \in 1 .. n : q[j] = x
    BY <1>4 DEF ToSet
  <2>3. IsInjective(q) <=> \A j, k \in 1 .. n : q[j] = q[k] => j = k
    BY <1>4 DEF IsInjective
  <2>4. IsInjective(p) <=> \A j, k \in (1 .. n) \cup {n + 1} : p[j] = p[k] => j = k
    BY <1>4, <1>5 DEF IsInjective
  <2>5. QED  BY <1>2, <2>1, <2>2, <2>3, <2>4
<1>10. QED  BY <1>1, <1>2, <1>3, <1>6, <1>7, <1>8, <1>9 DEF n

\* What a trail links are items it comes by.
LEMMA LinksAre ==
    ASSUME NEW Z, NEW p \in Seq(Z), NEW l \in Links(p)
    PROVE  l[2] \in ToSet(p)
<1>1. PICK k \in 1 .. Len(p) - 1 : l = <<p[k], p[k + 1]>>
  BY DEF Links
<1>2. k + 1 \in DOMAIN p
  OBVIOUS
<1>3. QED  BY <1>1, <1>2 DEF ToSet

LEMMA FurtherIs ==
    ASSUME NEW R, NEW A
    PROVE  \A p : p \in Further(R, A) <=>
              \E q \in A : \E r \in R : /\ r[1] = Last(q) /\ <<Last(q), r[2]>> \notin Links(q)
                                        /\ p = Append(q, r[2])
<1> DEFINE On(q) == {y \in Successors(R, Last(q)) : <<Last(q), y>> \notin Links(q)}
<1>1. \A q : \A y : y \in On(q) <=>
          \E r \in R : r[1] = Last(q) /\ r[2] = y /\ <<Last(q), r[2]>> \notin Links(q)
  BY DEF Successors
<1>2. Further(R, A) = UNION {{Append(q, x) : x \in On(q)} : q \in A}
  BY DEF Further
<1> HIDE DEF On
<1>3. \A p : p \in Further(R, A) <=> \E q \in A : \E x \in On(q) : p = Append(q, x)
  BY <1>2
<1>4. ASSUME NEW q \in A, NEW p
      PROVE  (\E x \in On(q) : p = Append(q, x)) <=>
             \E r \in R : /\ r[1] = Last(q) /\ <<Last(q), r[2]>> \notin Links(q)
                         /\ p = Append(q, r[2])
  <2>1. ASSUME NEW x \in On(q), p = Append(q, x)
        PROVE  \E r \in R : /\ r[1] = Last(q) /\ <<Last(q), r[2]>> \notin Links(q)
                            /\ p = Append(q, r[2])
    <3>1. PICK r \in R : r[1] = Last(q) /\ r[2] = x /\ <<Last(q), r[2]>> \notin Links(q)
      BY <1>1
    <3>2. QED  BY <2>1, <3>1
  <2>2. ASSUME NEW r \in R, r[1] = Last(q), <<Last(q), r[2]>> \notin Links(q), p = Append(q, r[2])
        PROVE  \E x \in On(q) : p = Append(q, x)
    <3>1. r[2] \in On(q)
      BY <1>1, <2>2
    <3>2. QED  BY <2>2, <3>1
  <2>3. QED  BY <2>1, <2>2
<1> DEFINE F(q, p) == \E x \in On(q) : p = Append(q, x)
           G(q, p) == \E r \in R : /\ r[1] = Last(q) /\ <<Last(q), r[2]>> \notin Links(q)
                                   /\ p = Append(q, r[2])
<1>5. \A p : p \in Further(R, A) <=> \E q \in A : F(q, p)
  BY <1>3
<1>6. \A q \in A : \A p : F(q, p) <=> G(q, p)
  BY <1>4
<1>7. \A p : p \in Further(R, A) <=> \E q \in A : G(q, p)
  <2> HIDE DEF F, G
  <2>1. QED  BY <1>5, <1>6
<1>8. QED  BY <1>7

IsTrail(f, R, a, n) ==
    f = [k \in 0 .. n |-> IF k = 0 THEN {<<a>>} ELSE Further(R, f[k - 1])]

LEMMA TrailExists ==
    ASSUME NEW R, NEW a, NEW n \in Nat
    PROVE  \E f : IsTrail(f, R, a, n)
<1> DEFINE Z == {r[2] : r \in R} \cup {a}
           X == SUBSET Seq(Z)
           M == [A \in X |-> Further(R, A)]
           base == {<<a>>}
<1>1. M \in [X -> X]
  <2>1. \A r \in R : r[2] \in Z
    OBVIOUS
  <2> HIDE DEF Z
  <2>2. \A q \in Seq(Z) : \A z \in Z : Append(q, z) \in Seq(Z)
    OBVIOUS
  <2>3. ASSUME NEW A \in X PROVE Further(R, A) \in X
    <3>1. ASSUME NEW p \in Further(R, A) PROVE p \in Seq(Z)
      <4>1. \E q \in A : \E r \in R : /\ r[1] = Last(q) /\ <<Last(q), r[2]>> \notin Links(q)
                                     /\ p = Append(q, r[2])
        <5> HIDE DEF X
        <5>1. QED  BY FurtherIs
      <4>2. PICK q \in A : \E r \in R : p = Append(q, r[2])
        BY <4>1
      <4>3. PICK r \in R : p = Append(q, r[2])
        BY <4>2
      <4>4. QED  BY <2>1, <2>2, <4>3
    <3>2. QED  BY <3>1
  <2>4. QED  BY <2>3
<1>2. base \in X
  <2>1. a \in Z
    OBVIOUS
  <2> HIDE DEF Z
  <2>2. <<a>> \in Seq(Z)
    BY <2>1
  <2>3. QED  BY <2>2
<1>3. PICK f \in [0 .. n -> X] : f = [k \in 0 .. n |-> IF k = 0 THEN base ELSE M[f[k - 1]]]
  <2> HIDE DEF X, M, base
  <2>1. QED  BY <1>1, <1>2, SetsStepByStep
<1>4. \A k \in 0 .. n : k # 0 => f[k - 1] \in X
  <2>1. \A k \in 0 .. n : k # 0 => k - 1 \in 0 .. n
    OBVIOUS
  <2> HIDE DEF X
  <2>2. QED  BY <2>1
<1>5. \A k \in 0 .. n : k # 0 => M[f[k - 1]] = Further(R, f[k - 1])
  <2>1. \A A \in X : M[A] = Further(R, A)
    OBVIOUS
  <2> HIDE DEF X, M
  <2>2. QED  BY <1>4, <2>1
<1> HIDE DEF M, X
<1>6. \A k \in 0 .. n : f[k] = IF k = 0 THEN base ELSE Further(R, f[k - 1])
  <2>1. \A k \in 0 .. n : f[k] = IF k = 0 THEN base ELSE M[f[k - 1]]
    BY <1>3
  <2>2. QED  BY <1>5, <2>1
<1>7. f = [k \in 0 .. n |-> f[k]]
  OBVIOUS
<1>8. IsTrail(f, R, a, n)
  BY <1>6, <1>7 DEF IsTrail
<1>9. QED  BY <1>8

\* The trails of at most n relationships are those of just as many as some number
\* says.
LEMMA TrailsAre ==
    ASSUME NEW R, NEW a, NEW n \in Nat
    PROVE  \E f : /\ f[0] = {<<a>>}
                  /\ \A k \in 1 .. n : f[k] = Further(R, f[k - 1])
                  /\ Trails(R, a, n) = UNION {f[k] : k \in 1 .. n}
<1> DEFINE f == CHOOSE g : IsTrail(g, R, a, n)
<1>1. IsTrail(f, R, a, n)
  <2>1. \E g : IsTrail(g, R, a, n)
    BY TrailExists
  <2> HIDE DEF IsTrail
  <2>2. QED  BY <2>1
<1>2. Trails(R, a, n) = UNION {f[k] : k \in 1 .. n}
  BY DEF Trails, IsTrail
<1> HIDE DEF f
<1>3. f[0] = {<<a>>}
  <2>1. 0 \in 0 .. n
    OBVIOUS
  <2>2. QED  BY <1>1, <2>1 DEF IsTrail
<1>4. \A k \in 1 .. n : f[k] = Further(R, f[k - 1])
  <2>1. \A k \in 1 .. n : k \in 0 .. n /\ k # 0
    OBVIOUS
  <2>2. QED  BY <1>1, <2>1 DEF IsTrail
<1>5. QED  BY <1>2, <1>3, <1>4

\* Sequences that grow by one item at a time are as long as they were grown.
GrowByOne(f, R, n) ==
    \A k \in 1 .. n : \A p \in f[k] : \E q \in f[k - 1] : \E r \in R : p = Append(q, r[2])
AsLong(f, Z, n) ==
    \A k \in 0 .. n : \A p \in f[k] : p \in Seq(Z) /\ p # <<>> /\ Len(p) = k + 1

LEMMA GrownAre ==
    ASSUME NEW R, NEW Z, NEW a \in Z, \A r \in R : r[2] \in Z,
           NEW n \in Nat, NEW f, f[0] = {<<a>>}, GrowByOne(f, R, n)
    PROVE  AsLong(f, Z, n)
<1> DEFINE S == {k \in 0 .. n : \A p \in f[k] : p \in Seq(Z) /\ p # <<>> /\ Len(p) = k + 1}
<1>1. 0 \in S
  <2>1. <<a>> \in Seq(Z) /\ <<a>> # <<>> /\ Len(<<a>>) = 0 + 1 /\ 0 \in 0 .. n
    OBVIOUS
  <2>2. QED  BY <2>1
<1>2. ASSUME NEW k \in 1 .. n, k - 1 \in S PROVE k \in S
  <2>1. SUFFICES ASSUME NEW p \in f[k] PROVE p \in Seq(Z) /\ p # <<>> /\ Len(p) = k + 1
    OBVIOUS
  <2>2. PICK q \in f[k - 1] : \E r \in R : p = Append(q, r[2])
    BY DEF GrowByOne
  <2>3. PICK r \in R : p = Append(q, r[2])
    BY <2>2
  <2>4. q \in Seq(Z) /\ q # <<>> /\ Len(q) = (k - 1) + 1
    BY <1>2
  <2>5. p \in Seq(Z) /\ p # <<>> /\ Len(p) = Len(q) + 1
    BY <2>3, <2>4
  <2>6. QED  BY <2>4, <2>5
<1>3. S \in SUBSET (0 .. n)
  OBVIOUS
<1> HIDE DEF S
<1>4. S = 0 .. n
  BY <1>1, <1>2, <1>3, StepByStep
<1>5. QED  BY <1>4 DEF S, AsLong

LEMMA LongerGrows ==
    ASSUME NEW R, NEW b, NEW A, NEW p \in Longer(R, b, A)
    PROVE  \E q \in A : \E r \in R : p = Append(q, r[2])
<1>1. PICK q \in A : \E r \in R : /\ Last(q) # b /\ r[1] = Last(q)
                                   /\ r[2] \notin ToSet(q) /\ p = Append(q, r[2])
  BY LongerIs
<1>2. QED  BY <1>1

LEMMA FurtherGrows ==
    ASSUME NEW R, NEW A, NEW p \in Further(R, A)
    PROVE  \E q \in A : \E r \in R : p = Append(q, r[2])
<1>1. PICK q \in A : \E r \in R : /\ r[1] = Last(q) /\ <<Last(q), r[2]>> \notin Links(q)
                                   /\ p = Append(q, r[2])
  BY FurtherIs
<1>2. QED  BY <1>1

\* The recursions of paths and of trails, with how long what they find is.
PathSteps(f, R, a, b, n) ==
    /\ f[0] = {<<a>>}
    /\ \A k \in 1 .. n : f[k] = Longer(R, b, f[k - 1])
    /\ SimplePaths(R, a, b, n) = {p \in UNION {f[k] : k \in 1 .. n} : Last(p) = b}

LEMMA PathsGrow ==
    ASSUME NEW R, NEW Z, NEW a \in Z, \A r \in R : r[2] \in Z, NEW b, NEW n \in Nat
    PROVE  \E f : PathSteps(f, R, a, b, n) /\ AsLong(f, Z, n)
<1>1. PICK f : PathSteps(f, R, a, b, n)
  BY PathsAre DEF PathSteps
<1>2. f[0] = {<<a>>}
  BY <1>1 DEF PathSteps
<1>3. ASSUME NEW k \in 1 .. n, NEW p \in f[k]
      PROVE  \E q \in f[k - 1] : \E r \in R : p = Append(q, r[2])
  <2> DEFINE A == f[k - 1]
  <2>1. p \in Longer(R, b, A)
    BY <1>1 DEF PathSteps
  <2> HIDE DEF A
  <2>2. \E q \in A : \E r \in R : p = Append(q, r[2])
    BY <2>1, LongerGrows
  <2>3. QED  BY <2>2 DEF A
<1>4. GrowByOne(f, R, n)
  BY <1>3 DEF GrowByOne
<1>5. AsLong(f, Z, n)
  BY <1>2, <1>4, GrownAre
<1>6. QED  BY <1>1, <1>5

TrailSteps(f, R, a, n) ==
    /\ f[0] = {<<a>>}
    /\ \A k \in 1 .. n : f[k] = Further(R, f[k - 1])
    /\ Trails(R, a, n) = UNION {f[k] : k \in 1 .. n}

LEMMA TrailsGrow ==
    ASSUME NEW R, NEW Z, NEW a \in Z, \A r \in R : r[2] \in Z, NEW n \in Nat
    PROVE  \E f : TrailSteps(f, R, a, n) /\ AsLong(f, Z, n)
<1>1. PICK f : TrailSteps(f, R, a, n)
  BY TrailsAre DEF TrailSteps
<1>2. f[0] = {<<a>>}
  BY <1>1 DEF TrailSteps
<1>3. ASSUME NEW k \in 1 .. n, NEW p \in f[k]
      PROVE  \E q \in f[k - 1] : \E r \in R : p = Append(q, r[2])
  <2> DEFINE A == f[k - 1]
  <2>1. p \in Further(R, A)
    BY <1>1 DEF TrailSteps
  <2> HIDE DEF A
  <2>2. \E q \in A : \E r \in R : p = Append(q, r[2])
    BY <2>1, FurtherGrows
  <2>3. QED  BY <2>2 DEF A
<1>4. GrowByOne(f, R, n)
  BY <1>3 DEF GrowByOne
<1>5. AsLong(f, Z, n)
  BY <1>2, <1>4, GrownAre
<1>6. QED  BY <1>1, <1>5

\* A path is a trail.
LEMMA PathsAreTrails ==
    ASSUME NEW R, NEW a, NEW b, NEW n \in Nat, NEW p \in SimplePaths(R, a, b, n)
    PROVE  p \in Trails(R, a, n) /\ Last(p) = b /\ Len(p) > 1
<1> DEFINE Z == {r[2] : r \in R} \cup {a}
<1>0. a \in Z /\ \A r \in R : r[2] \in Z
  OBVIOUS
<1> HIDE DEF Z
<1>1. PICK f : PathSteps(f, R, a, b, n) /\ AsLong(f, Z, n)
  BY <1>0, PathsGrow
<1>2. PICK g : TrailSteps(g, R, a, n)
  BY TrailsAre DEF TrailSteps
<1> DEFINE S == {k \in 0 .. n : f[k] \subseteq g[k]}
<1>3. 0 \in S
  BY <1>1, <1>2 DEF PathSteps, TrailSteps
<1>4. ASSUME NEW k \in 1 .. n, k - 1 \in S PROVE k \in S
  <2>1. f[k - 1] \subseteq g[k - 1] /\ k \in 0 .. n /\ k - 1 \in 0 .. n
    BY <1>4
  <2>2. f[k] = Longer(R, b, f[k - 1]) /\ g[k] = Further(R, g[k - 1])
    BY <1>1, <1>2 DEF PathSteps, TrailSteps
  <2>3. ASSUME NEW q \in Longer(R, b, f[k - 1]) PROVE q \in Further(R, g[k - 1])
    <3>1. PICK s \in f[k - 1] : \E r \in R : /\ Last(s) # b /\ r[1] = Last(s)
                                             /\ r[2] \notin ToSet(s) /\ q = Append(s, r[2])
      BY LongerIs
    <3>2. PICK r \in R : r[1] = Last(s) /\ r[2] \notin ToSet(s) /\ q = Append(s, r[2])
      BY <3>1
    <3>3. s \in Seq(Z)
      BY <1>1, <2>1 DEF AsLong
    <3>4. <<Last(s), r[2]>> \notin Links(s)
      <4>1. <<Last(s), r[2]>> \in Links(s) => <<Last(s), r[2]>>[2] \in ToSet(s)
        BY <3>3, LinksAre
      <4>2. QED  BY <3>2, <4>1
    <3>5. s \in g[k - 1]
      BY <2>1
    <3>6. QED  BY <3>2, <3>4, <3>5, FurtherIs
  <2>4. QED  BY <2>1, <2>2, <2>3
<1>5. S \in SUBSET (0 .. n)
  OBVIOUS
<1> HIDE DEF S
<1>6. S = 0 .. n
  BY <1>3, <1>4, <1>5, StepByStep
<1>7. PICK k \in 1 .. n : p \in f[k] /\ Last(p) = b
  BY <1>1 DEF PathSteps
<1>8. k \in 0 .. n /\ k + 1 > 1
  OBVIOUS
<1>9. p \in g[k] /\ Len(p) = k + 1
  BY <1>1, <1>6, <1>7, <1>8 DEF S, AsLong
<1>10. QED  BY <1>2, <1>7, <1>8, <1>9 DEF TrailSteps

\* A trail that comes by no item twice is a path to where it ends.
LEMMA OnceIsAPath ==
    ASSUME NEW R, NEW a, NEW n \in Nat, NEW p \in Trails(R, a, n), IsInjective(p),
           NEW b, b = Last(p)
    PROVE  p \in SimplePaths(R, a, b, n)
<1> DEFINE Z == {r[2] : r \in R} \cup {a}
<1>0. a \in Z /\ \A r \in R : r[2] \in Z
  OBVIOUS
<1> HIDE DEF Z
<1>1. PICK f : PathSteps(f, R, a, b, n)
  BY PathsAre DEF PathSteps
<1>2. PICK g : TrailSteps(g, R, a, n) /\ AsLong(g, Z, n)
  BY <1>0, TrailsGrow
<1> DEFINE Ends(q) == \A j \in 1 .. Len(q) - 1 : q[j] # b
           S == {k \in 0 .. n : \A q \in g[k] : IsInjective(q) /\ Ends(q) => q \in f[k]}
<1>3. 0 \in S
  BY <1>1, <1>2 DEF PathSteps, TrailSteps
<1>4. ASSUME NEW k \in 1 .. n, k - 1 \in S PROVE k \in S
  <2>1. k \in 0 .. n /\ k - 1 \in 0 .. n
    OBVIOUS
  <2>2. SUFFICES ASSUME NEW q \in g[k], IsInjective(q), Ends(q) PROVE q \in f[k]
    BY <2>1
  <2>3. q \in Further(R, g[k - 1]) /\ f[k] = Longer(R, b, f[k - 1])
    BY <1>1, <1>2 DEF PathSteps, TrailSteps
  <2>4. PICK s \in g[k - 1] : \E r \in R : /\ r[1] = Last(s) /\ <<Last(s), r[2]>> \notin Links(s)
                                           /\ q = Append(s, r[2])
    <3> DEFINE B == g[k - 1]
    <3>1. q \in Further(R, B)
      BY <2>3
    <3> HIDE DEF B
    <3>2. \E s \in B : \E r \in R : /\ r[1] = Last(s) /\ <<Last(s), r[2]>> \notin Links(s)
                                     /\ q = Append(s, r[2])
      BY <3>1, FurtherIs
    <3>3. QED  BY <3>2 DEF B
  <2>5. PICK r \in R : r[1] = Last(s) /\ q = Append(s, r[2])
    BY <2>4
  <2>6. s \in Seq(Z) /\ s # <<>> /\ r[2] \in Z
    BY <1>0, <1>2, <2>1 DEF AsLong
  <2>7. /\ Len(q) = Len(s) + 1 /\ Len(s) \in Nat /\ Len(s) >= 1
        /\ IsInjective(s) /\ r[2] \notin ToSet(s)
        /\ \A j \in 1 .. Len(s) : q[j] = s[j]
    <3>1. Len(s) \in Nat /\ Len(s) >= 1
      BY <2>6
    <3>2. PICK x \in Z : x = r[2] /\ q = Append(s, x)
      BY <2>5, <2>6
    <3>3. Len(q) = Len(s) + 1
      BY <2>6, <3>2, AppendIs
    <3>4. IsInjective(q) <=> (IsInjective(s) /\ x \notin ToSet(s))
      <4>1. s \in Seq(Z) /\ s # <<>>
        BY <2>6
      <4>2. q = Append(s, x)
        BY <3>2
      <4>3. QED  BY <4>1, <4>2, AppendIs
    <3>5. \A j \in 1 .. Len(s) : q[j] = s[j]
      BY <2>6, <3>2
    <3>6. QED  BY <2>2, <3>1, <3>2, <3>3, <3>4, <3>5
  <2>8. \A j \in 1 .. Len(s) : s[j] # b
    BY <2>2, <2>7
  <2>9. Last(s) # b
    <3>1. Last(s) = s[Len(s)] /\ Len(s) \in 1 .. Len(s)
      BY <2>7 DEF Last
    <3>2. QED  BY <2>8, <3>1
  <2>10. Ends(s)
    <3>1. \A j \in 1 .. Len(s) - 1 : j \in 1 .. Len(s)
      BY <2>7
    <3>2. QED  BY <2>8, <3>1
  <2>11. s \in f[k - 1]
    BY <1>4, <2>7, <2>10
  <2> DEFINE A == f[k - 1]
  <2>12. q \in Longer(R, b, A)
    <3>1. s \in A
      BY <2>11
    <3> HIDE DEF A
    <3>2. QED  BY <2>5, <2>7, <2>9, <3>1, LongerIs
  <2>13. QED  BY <2>3, <2>12
<1>5. S \in SUBSET (0 .. n)
  OBVIOUS
<1> HIDE DEF S
<1>6. S = 0 .. n
  BY <1>3, <1>4, <1>5, StepByStep
<1>7. PICK k \in 1 .. n : p \in g[k]
  BY <1>2 DEF TrailSteps
<1>8. k \in 0 .. n
  OBVIOUS
<1>9. Ends(p)
  <2>1. p \in Seq(Z) /\ p # <<>>
    BY <1>2, <1>7, <1>8 DEF AsLong
  <2>2. Last(p) = p[Len(p)] /\ DOMAIN p = 1 .. Len(p) /\ Len(p) \in Nat /\ Len(p) >= 1
    BY <2>1 DEF Last
  <2> DEFINE m == Len(p)
  <2> HIDE DEF m
  <2>3. ASSUME NEW j \in 1 .. m - 1 PROVE p[j] # b
    <3>0. m \in Nat /\ m >= 1 /\ DOMAIN p = 1 .. m
      BY <2>2 DEF m
    <3>1. j \in DOMAIN p /\ m \in DOMAIN p /\ j # m
      BY <3>0
    <3>2. p[j] = p[m] => j = m
      BY <3>1 DEF IsInjective
    <3>3. QED  BY <2>2, <3>1, <3>2 DEF m
  <2>4. QED  BY <2>3 DEF m
<1>10. p \in f[k]
  BY <1>6, <1>7, <1>8, <1>9 DEF S
<1>11. QED  BY <1>1, <1>7, <1>10 DEF PathSteps

LEMMA AppendSet ==
    ASSUME NEW Z, NEW q \in Seq(Z), q # <<>>, NEW x \in Z
    PROVE  ToSet(Append(q, x)) = ToSet(q) \cup {x}
<1> DEFINE p == Append(q, x)
           n == Len(q)
<1>1. n \in Nat /\ DOMAIN q = 1 .. n /\ DOMAIN p = 1 .. n + 1
  OBVIOUS
<1>2. (\A j \in 1 .. n : p[j] = q[j]) /\ p[n + 1] = x
  OBVIOUS
<1>3. 1 .. n + 1 = (1 .. n) \cup {n + 1}
  BY <1>1
<1> HIDE DEF n, p
<1>4. ToSet(p) = ToSet(q) \cup {x}
  BY <1>1, <1>2, <1>3 DEF ToSet
<1>5. QED  BY <1>4 DEF p

\* Where trails end is what their hops lead to.
LEMMA TrailsEndWithin ==
    ASSUME NEW R, NEW t, NEW n \in Nat, NEW p \in Trails(R, t, n)
    PROVE  Last(p) \in Within(R, t, n)
<1> DEFINE Z == {r[2] : r \in R} \cup {t}
<1>0. t \in Z /\ \A r \in R : r[2] \in Z
  OBVIOUS
<1> HIDE DEF Z
<1>1. PICK g : TrailSteps(g, R, t, n) /\ AsLong(g, Z, n)
  BY <1>0, TrailsGrow
<1> DEFINE S == {k \in 0 .. n : \A q \in g[k] : IF k = 0 THEN Last(q) = t ELSE Last(q) \in Within(R, t, k)}
<1>2. 0 \in S
  <2>1. Last(<<t>>) = t
    BY DEF Last
  <2>2. QED  BY <1>1, <2>1 DEF TrailSteps
<1>3. ASSUME NEW k \in 1 .. n, k - 1 \in S PROVE k \in S
  <2>1. k \in 0 .. n /\ k # 0 /\ k - 1 \in Nat /\ (k - 1) + 1 = k /\ k - 1 \in 0 .. n
    OBVIOUS
  <2> DEFINE A == g[k - 1]
  <2>2. g[k] = Further(R, A)
    BY <1>1 DEF TrailSteps
  <2>3. \A q \in A : Last(q) \in Within(R, t, k - 1) \cup {t}
    BY <1>3
  <2>4. \A q \in A : q \in Seq(Z) /\ q # <<>>
    BY <1>1, <2>1 DEF AsLong
  <2>5. Within(R, t, k) = Beyond(R, Within(R, t, k - 1) \cup {t})
    BY <2>1, WithinIs
  <2> HIDE DEF A
  <2>6. ASSUME NEW q \in Further(R, A) PROVE Last(q) \in Within(R, t, k)
    <3>1. PICK s \in A : \E r \in R : /\ r[1] = Last(s) /\ <<Last(s), r[2]>> \notin Links(s)
                                      /\ q = Append(s, r[2])
      BY FurtherIs
    <3>2. PICK r \in R : r[1] = Last(s) /\ q = Append(s, r[2])
      BY <3>1
    <3>3. s \in Seq(Z) /\ s # <<>> /\ r[2] \in Z
      BY <1>0, <2>4
    <3>4. Last(q) = r[2]
      <4>1. PICK x \in Z : x = r[2]
        BY <3>3
      <4>2. s \in Seq(Z) /\ s # <<>> /\ q = Append(s, x)
        BY <3>2, <3>3, <4>1
      <4>3. Last(q) = x
        BY <4>2, AppendIs
      <4>4. QED  BY <4>1, <4>3
    <3>5. r[1] \in Within(R, t, k - 1) \cup {t}
      BY <2>3, <3>2
    <3>6. QED  BY <2>5, <3>4, <3>5, BeyondIs
  <2>7. \A q \in g[k] : Last(q) \in Within(R, t, k)
    BY <2>2, <2>6
  <2>8. QED  BY <2>1, <2>7
<1>4. S \in SUBSET (0 .. n)
  OBVIOUS
<1> HIDE DEF S
<1>5. S = 0 .. n
  BY <1>2, <1>3, <1>4, StepByStep
<1>6. PICK k \in 1 .. n : p \in g[k]
  BY <1>1 DEF TrailSteps
<1>7. k \in 0 .. n /\ k # 0 /\ k \in Nat /\ k <= n
  OBVIOUS
<1>8. Last(p) \in Within(R, t, k)
  BY <1>5, <1>6, <1>7 DEF S
<1>9. Within(R, t, k) \subseteq Within(R, t, n)
  BY <1>7, WithinGrows
<1>10. QED  BY <1>8, <1>9

\* What hops lead to, some trail of no more relationships ends at.
LEMMA WithinEndsATrail ==
    ASSUME NEW R, NEW t, NEW n \in Nat, NEW x \in Within(R, t, n), x # t
    PROVE  \E p \in Trails(R, t, n) : Last(p) = x
<1> DEFINE Z == {r[2] : r \in R} \cup {t}
<1>0. t \in Z /\ \A r \in R : r[2] \in Z
  OBVIOUS
<1> HIDE DEF Z
<1>1. PICK g : TrailSteps(g, R, t, n) /\ AsLong(g, Z, n)
  BY <1>0, TrailsGrow
<1> DEFINE E(k) == {y \in Z : \E j \in 0 .. k : \E p \in g[j] : Last(p) = y}
\* All a trail comes by, trails of as many relationships end at.
           S == {k \in 0 .. n : \A p \in g[k] : ToSet(p) \subseteq E(k)}
<1>2. t \in E(0) /\ ToSet(<<t>>) = {t}
  <2>1. Last(<<t>>) = t /\ 0 \in 0 .. 0 /\ <<t>> \in g[0]
    BY <1>1 DEF TrailSteps, Last
  <2>2. ToSet(<<t>>) = {t}
    BY DEF ToSet
  <2>3. QED  BY <1>0, <2>1, <2>2
<1>3. \A k \in 0 .. n : \A j \in 0 .. k : E(j) \subseteq E(k)
  <2>1. ASSUME NEW k \in 0 .. n, NEW j \in 0 .. k, NEW y \in E(j) PROVE y \in E(k)
    <3>1. PICK i \in 0 .. j : \E p \in g[i] : Last(p) = y
      OBVIOUS
    <3>2. i \in 0 .. k
      OBVIOUS
    <3>3. QED  BY <3>1, <3>2
  <2>2. QED  BY <2>1
<1>4. 0 \in S
  <2>1. \A p \in g[0] : p = <<t>>
    BY <1>1 DEF TrailSteps
  <2> HIDE DEF E
  <2>2. QED  BY <1>2, <2>1
<1>5. ASSUME NEW k \in 1 .. n, k - 1 \in S PROVE k \in S
  <2>1. k \in 0 .. n /\ k - 1 \in 0 .. n /\ k - 1 \in 0 .. k /\ k \in 0 .. k
    OBVIOUS
  <2> DEFINE A == g[k - 1]
  <2>2. g[k] = Further(R, A)
    BY <1>1 DEF TrailSteps
  <2>3. \A q \in A : q \in Seq(Z) /\ q # <<>> /\ ToSet(q) \subseteq E(k - 1)
    BY <1>1, <1>5, <2>1 DEF AsLong
  <2>4. E(k - 1) \subseteq E(k)
    <3> HIDE DEF E
    <3>1. QED  BY <1>3, <2>1
  <2> HIDE DEF A
  <2>5. ASSUME NEW p \in Further(R, A) PROVE ToSet(p) \subseteq E(k)
    <3>1. PICK q \in A : \E r \in R : p = Append(q, r[2])
      BY FurtherGrows
    <3>2. PICK r \in R : p = Append(q, r[2])
      BY <3>1
    <3>3. q \in Seq(Z) /\ q # <<>> /\ r[2] \in Z
      BY <1>0, <2>3
    <3>4. ToSet(p) = ToSet(q) \cup {r[2]} /\ Last(p) = r[2]
      <4>1. PICK z \in Z : z = r[2]
        BY <3>3
      <4>2. q \in Seq(Z) /\ q # <<>> /\ p = Append(q, z)
        BY <3>2, <3>3, <4>1
      <4>3. Last(p) = z
        BY <4>2, AppendIs
      <4>4. ToSet(p) = ToSet(q) \cup {z}
        <5>1. ToSet(Append(q, z)) = ToSet(q) \cup {z}
          BY <4>2, AppendSet
        <5>2. QED  BY <4>2, <5>1
      <4>5. QED  BY <4>1, <4>3, <4>4
    <3>6. r[2] \in E(k)
      BY <2>1, <2>2, <3>3, <3>4
    <3> HIDE DEF E
    <3>7. QED  BY <2>3, <2>4, <3>4, <3>6
  <2>6. \A p \in g[k] : ToSet(p) \subseteq E(k)
    BY <2>2, <2>5
  <2> HIDE DEF E
  <2>7. QED  BY <2>1, <2>6
<1>6. S \in SUBSET (0 .. n)
  OBVIOUS
<1> HIDE DEF S
<1>7. S = 0 .. n
  BY <1>4, <1>5, <1>6, StepByStep
<1>8. \A k \in 0 .. n : \A p \in g[k] : ToSet(p) \subseteq E(k)
  <2> HIDE DEF E
  <2>1. QED  BY <1>7 DEF S
<1> DEFINE W == {k \in 0 .. n : Within(R, t, k) \subseteq E(k)}
<1>9. 0 \in W
  BY WithinIs
<1>10. ASSUME NEW k \in 1 .. n, k - 1 \in W PROVE k \in W
  <2>1. k \in 0 .. n /\ k - 1 \in 0 .. n /\ k - 1 \in Nat /\ (k - 1) + 1 = k /\ k - 1 \in 0 .. k
        /\ 0 \in 0 .. (k - 1)
    OBVIOUS
  <2>2. Within(R, t, k) = Beyond(R, Within(R, t, k - 1) \cup {t})
    BY <2>1, WithinIs
  <2>3. Within(R, t, k - 1) \cup {t} \subseteq E(k - 1)
    <3>1. E(0) \subseteq E(k - 1)
      <4> HIDE DEF E
      <4>1. QED  BY <1>3, <2>1
    <3>2. Within(R, t, k - 1) \subseteq E(k - 1)
      BY <1>10
    <3> HIDE DEF E
    <3>3. QED  BY <1>2, <3>1, <3>2
  <2>4. ASSUME NEW y \in Within(R, t, k) PROVE y \in E(k)
    <3>1. PICK r \in R : r[1] \in E(k - 1) /\ r[2] = y
      <4> HIDE DEF E
      <4>1. \E r \in R : r[1] \in Within(R, t, k - 1) \cup {t} /\ r[2] = y
        BY <2>2, BeyondIs
      <4>2. QED  BY <2>3, <4>1
    <3>2. PICK j \in 0 .. k - 1 : \E p \in g[j] : Last(p) = r[1]
      BY <3>1
    <3>3. PICK p \in g[j] : Last(p) = r[1]
      BY <3>2
    <3>4. j \in 0 .. n /\ j + 1 \in 1 .. n /\ (j + 1) - 1 = j /\ j + 1 \in 0 .. k /\ j \in 0 .. k
      OBVIOUS
    <3>5. p \in Seq(Z) /\ p # <<>> /\ y \in Z
      BY <1>0, <1>1, <3>1, <3>4 DEF AsLong
    <3>6. CASE y \in ToSet(p)
      <4> HIDE DEF E
      <4>1. y \in E(j)
        BY <1>8, <3>4, <3>6
      <4>2. QED  BY <1>3, <2>1, <3>4, <4>1
    <3>7. CASE y \notin ToSet(p)
      <4>1. <<Last(p), r[2]>> \notin Links(p)
        <5>1. <<Last(p), r[2]>> \in Links(p) => <<Last(p), r[2]>>[2] \in ToSet(p)
          BY <3>5, LinksAre
        <5>2. QED  BY <3>1, <3>7, <5>1
      <4> DEFINE q == Append(p, r[2])
                 A == g[j]
      <4>2. q \in Further(R, A)
        <5>1. p \in A /\ q = Append(p, r[2])
          OBVIOUS
        <5> HIDE DEF A, q
        <5>2. QED  BY <3>3, <4>1, <5>1, FurtherIs
      <4>3. g[j + 1] = Further(R, A)
        BY <1>1, <3>4 DEF TrailSteps
      <4>4. q = Append(p, y)
        BY <3>1
      <4> HIDE DEF q, A
      <4>5. p \in Seq(Z) /\ p # <<>> /\ y \in Z
        BY <3>5
      <4>6. Last(q) = y
        BY <4>4, <4>5, AppendIs
      <4>7. QED  BY <3>4, <3>5, <4>2, <4>3, <4>6
    <3>8. QED  BY <3>6, <3>7
  <2> HIDE DEF E
  <2>5. QED  BY <2>1, <2>4
<1>11. W \in SUBSET (0 .. n)
  OBVIOUS
<1> HIDE DEF W
<1>12. W = 0 .. n
  BY <1>9, <1>10, <1>11, StepByStep
<1>13. x \in E(n)
  <2>1. n \in 0 .. n
    OBVIOUS
  <2> HIDE DEF E
  <2>2. QED  BY <1>12, <2>1 DEF W
<1>14. PICK j \in 0 .. n : \E p \in g[j] : Last(p) = x
  BY <1>13
<1>15. j # 0
  <2>0. Last(<<t>>) = t
    BY DEF Last
  <2>1. \A p \in g[0] : Last(p) = t
    BY <1>1, <2>0 DEF TrailSteps
  <2>2. QED  BY <1>14, <2>1
<1>16. j \in 1 .. n
  BY <1>15
<1>17. QED  BY <1>1, <1>14, <1>16 DEF TrailSteps

LEMMA MinOfTwo ==
    ASSUME NEW a \in Nat, NEW b \in Nat
    PROVE  Min({a, b}) \in {a, b} /\ Min({a, b}) <= a /\ Min({a, b}) <= b
<1>1. \E x \in {a, b} : \A y \in {a, b} : x <= y
  <2>1. CASE a <= b
    BY <2>1
  <2>2. CASE b <= a
    BY <2>2
  <2>3. QED  BY <2>1, <2>2
<1>2. Min({a, b}) \in {a, b} /\ \A y \in {a, b} : Min({a, b}) <= y
  <2> DEFINE S == {a, b}
  <2>1. \E x \in S : \A y \in S : x <= y
    BY <1>1
  <2> HIDE DEF S
  <2>2. Min(S) \in S /\ \A y \in S : Min(S) <= y
    BY <2>1 DEF Min
  <2>3. QED  BY <2>2 DEF S
<1>3. QED  BY <1>2

\* Fewer rows than the limit are all there are.
LEMMA BelowLimit ==
    ASSUME NEW C, IsFiniteSet(C), NEW E \in SUBSET C, NEW limit \in Nat,
           Cardinality(E) = Min({limit, Cardinality(C)}), Cardinality(E) < limit
    PROVE  E = C
<1>1. Cardinality(C) \in Nat
  BY FS_CardinalityType
<1>2. Cardinality(E) = Cardinality(C)
  BY <1>1, MinOfTwo
<1>3. QED  BY <1>2, FS_Subset

----------------------------------------------------------------------------
(* Answers and rows, kind by kind.                                           *)

\* With the flow or against it.
Along(R, forward) == IF forward THEN R ELSE Reversed(R)

LEMMA AlongMore ==
    ASSUME NEW R, NEW Q, R \subseteq Q, NEW forward
    PROVE  Along(R, forward) \subseteq Along(Q, forward)
BY DEF Along, Reversed

\* All that verified flow gets to is within the hops the Cypher goes.
Narrow(g) ==
    \A forward \in BOOLEAN : \A t \in DOMAIN g.type : \A n \in Nat :
        Within(Along(FlowsIn(g), forward), t, n)
            \subseteq Within(Along(FlowsIn(g), forward), t, QueryHops) \cup {t}

\* The relationships of the database are between items of it.
RelsHaveEnds == \A r \in rels : {r.src, r.dst} \subseteq Items

\* A match with a label is an item of the type.
LEMMA LabelFits ==
    ASSUME StoreInv, OnlyBound, NEW x \in Items, NEW itype
    PROVE  /\ x \in Known
           /\ HasLabel(x, itype) => Fits(x, itype)
           /\ bound \in returned => (Fits(x, itype) => HasLabel(x, itype))
BY DatabaseIs DEF HasLabel, Fits

\* What flow in the database leads to are items of it.
LEMMA WithinItems ==
    ASSUME RelsHaveEnds, NEW forward \in BOOLEAN, NEW t, NEW n \in Nat
    PROVE  Within(Along(FlowRels, forward), t, n) \subseteq Items \cup {t}
<1>1. \A p \in Along(FlowRels, forward) : p[2] \in Items
  BY DEF Along, Reversed, FlowRels, RelsHaveEnds
<1>2. QED  BY <1>1, WithinClosed

\* What the graph and the database say of how far flow gets.
LEMMA ReachAgrees ==
    ASSUME StoreInv, OnlyBound, bound \in Graphs, NEW forward \in BOOLEAN, NEW t \in Known
    PROVE  /\ Within(Along(FlowRels, forward), t, QueryHops) \ {t}
                 \subseteq Within(Along(FlowsIn(bound), forward), t, Cardinality(Known)) \ {t}
           /\ bound \in returned /\ Narrow(bound) =>
                 Within(Along(FlowsIn(bound), forward), t, Cardinality(Known)) \ {t}
                     \subseteq Within(Along(FlowRels, forward), t, QueryHops) \ {t}
           /\ Within(Along(FlowsIn(bound), forward), t, Cardinality(Known))
                 \subseteq Within(Along(OpenIn(bound), forward), t, Cardinality(Known))
           /\ Within(Along(FlowsIn(bound), forward), t, Cardinality(Known)) \subseteq Known
<1> DEFINE c == Cardinality(Known)
           R == Along(FlowRels, forward)
           Q == Along(FlowsIn(bound), forward)
           O == Along(OpenIn(bound), forward)
<1>1. IsFiniteSet(Known) /\ c \in Nat /\ QueryHops \in Nat
  BY QueryAssumption, FS_CardinalityType DEF Known
<1>2. R \subseteq Q /\ Q \subseteq O /\ (bound \in returned => Q \subseteq R)
  BY FlowRelsAre, AlongMore
<1>3. \A p \in Q : p[1] \in Known /\ p[2] \in Known
  BY FlowRelsAre DEF Along, Reversed
<1>4. bound \in returned /\ Narrow(bound) => Within(Q, t, c) \subseteq Within(Q, t, QueryHops) \cup {t}
  BY <1>1 DEF Narrow, Known
<1> HIDE DEF R, Q, O, c
<1>5. Within(R, t, QueryHops) \subseteq Within(Q, t, QueryHops)
  BY <1>1, <1>2, WithinMore
<1>6. Within(Q, t, QueryHops) \subseteq Within(Q, t, c) \cup {t}
  BY <1>1, <1>3, WithinAll DEF c
<1>7. bound \in returned => Within(Q, t, QueryHops) \subseteq Within(R, t, QueryHops)
  BY <1>1, <1>2, WithinMore
<1>8. Within(Q, t, c) \subseteq Within(O, t, c)
  BY <1>1, <1>2, WithinMore
<1>9. Within(Q, t, c) \subseteq Known
  BY <1>1, <1>3, WithinClosed
<1>10. QED  BY <1>4, <1>5, <1>6, <1>7, <1>8, <1>9 DEF R, Q, O, c

VerifiedIn(rows) == {r.tag : r \in {x \in rows : x.verified}}

\* The verified rows of a trace are the reach of verified flow.
LEMMA TraceRowsAre ==
    ASSUME StoreInv, OnlyBound, bound \in Graphs, NEW forward \in BOOLEAN, NEW i, i.tag \in Known
    PROVE  VerifiedIn(TraceRows(i, forward)) =
              {x \in Within(Along(FlowsIn(bound), forward), i.tag, Cardinality(Known)) \ {i.tag} :
                  Fits(x, i.type)}
<1> DEFINE t == i.tag
           c == Cardinality(Known)
           V == Within(Along(FlowsIn(bound), forward), t, c) \ {t}
           O == Within(Along(OpenIn(bound), forward), t, c) \ {t}
           d == Detail(t, forward)
<1>1. d = [x \in O |-> x \in V]
  BY DEF Detail, Along
<1>2. V \subseteq O
  BY ReachAgrees
<1> HIDE DEF O, V
<1>3. TraceRows(i, forward) = {[tag |-> x, verified |-> x \in V] : x \in {y \in O : Fits(y, i.type)}}
  <2>1. TraceRows(i, forward) = {[tag |-> x, verified |-> d[x]] : x \in {y \in DOMAIN d : Fits(y, i.type)}}
    BY DEF TraceRows
  <2>2. DOMAIN d = O /\ \A x \in O : d[x] = (x \in V)
    BY <1>1
  <2> HIDE DEF d
  <2>3. QED  BY <2>1, <2>2
<1>4. ASSUME NEW x \in V, Fits(x, i.type) PROVE x \in VerifiedIn(TraceRows(i, forward))
  <2>1. [tag |-> x, verified |-> x \in V] \in TraceRows(i, forward)
    BY <1>2, <1>3, <1>4
  <2>2. PICK r \in TraceRows(i, forward) : r = [tag |-> x, verified |-> x \in V]
    BY <2>1
  <2>3. r.verified /\ r.tag = x
    BY <1>4, <2>2
  <2>4. QED  BY <2>3 DEF VerifiedIn
<1>5. ASSUME NEW x \in VerifiedIn(TraceRows(i, forward)) PROVE x \in V /\ Fits(x, i.type)
  <2>1. PICK r \in TraceRows(i, forward) : r.verified /\ r.tag = x
    BY DEF VerifiedIn
  <2>2. PICK y \in O : Fits(y, i.type) /\ r = [tag |-> y, verified |-> y \in V]
    BY <1>3
  <2>3. QED  BY <2>1, <2>2
<1>6. QED  BY <1>4, <1>5 DEF V

LEMMA TraceAgrees ==
    ASSUME StoreInv, RelsHaveEnds, OnlyBound, bound \in Graphs, NEW forward \in BOOLEAN,
           NEW i, i.tag \in Known,
           NEW rows, rows = Matched(Within(Along(FlowRels, forward), i.tag, QueryHops), i.type)
    PROVE  /\ rows \ {i.tag} \subseteq VerifiedIn(TraceRows(i, forward))
           /\ bound \in returned /\ Narrow(bound) =>
                 VerifiedIn(TraceRows(i, forward)) = rows \ {i.tag}
<1> DEFINE t == i.tag
           V == Within(Along(FlowsIn(bound), forward), t, Cardinality(Known)) \ {t}
           D == Within(Along(FlowRels, forward), t, QueryHops)
<1>1. VerifiedIn(TraceRows(i, forward)) = {x \in V : Fits(x, i.type)}
  BY TraceRowsAre
<1>2. D \ {t} \subseteq V /\ (bound \in returned /\ Narrow(bound) => V \subseteq D \ {t})
  BY ReachAgrees
<1>3. D \subseteq Items \cup {t}
  BY WithinItems, QueryAssumption
<1>4. rows = {x \in D : HasLabel(x, i.type)}
  BY DEF Matched
<1> HIDE DEF V, D
<1>5. ASSUME NEW x \in D, x # t
      PROVE  /\ HasLabel(x, i.type) => Fits(x, i.type)
             /\ bound \in returned => (Fits(x, i.type) => HasLabel(x, i.type))
  <2>1. x \in Items
    BY <1>3, <1>5
  <2>2. QED  BY <2>1, LabelFits
<1>6. QED  BY <1>1, <1>2, <1>4, <1>5

\* Relationships and the connections they are of.
LEMMA RelIs ==
    ASSUME NEW e
    PROVE  /\ RelOf(e).src = e.src /\ RelOf(e).dst = e.dst
           /\ RelOf(e).rtype \in {"FLOWS_TO", "CONNECTED_TO"}
BY DEF RelOf

NeighbourRel(i, s) ==
    i.tag \in {s.src, s.dst} /\ HasLabel(FarEnd(s, i.tag), i.type)

NeighbourRow(i, s) ==
    [tag |-> FarEnd(s, i.tag), rtype |-> s.rtype, out |-> s.src = i.tag]

LEMMA NeighboursAgree ==
    ASSUME StoreInv, RelsHaveEnds, OnlyBound, bound \in Graphs, NEW i,
           NEW rows, rows = {NeighbourRow(i, s) : s \in {r \in rels : NeighbourRel(i, r)}}
    PROVE  /\ rows \subseteq NeighbourRows(i)
           /\ bound \in returned => NeighbourRows(i) = rows
<1>1. NeighbourRows(i) = {NeighbourRow(i, RelOf(e)) :
              e \in {f \in EdgesAt(i.tag) : Fits(FarEnd(f, i.tag), i.type)}}
  BY RelIs DEF NeighbourRows, NeighbourRow, FarEnd
<1>2. ASSUME NEW e \in bound.edges, RelOf(e) \in rels
      PROVE  /\ NeighbourRel(i, RelOf(e)) => e \in EdgesAt(i.tag) /\ Fits(FarEnd(e, i.tag), i.type)
             /\ bound \in returned =>
                   (e \in EdgesAt(i.tag) /\ Fits(FarEnd(e, i.tag), i.type)
                       => NeighbourRel(i, RelOf(e)))
  <2>1. FarEnd(e, i.tag) \in Items
    BY <1>2, RelIs DEF RelsHaveEnds, FarEnd
  <2>2. /\ HasLabel(FarEnd(e, i.tag), i.type) => Fits(FarEnd(e, i.tag), i.type)
        /\ bound \in returned =>
              (Fits(FarEnd(e, i.tag), i.type) => HasLabel(FarEnd(e, i.tag), i.type))
    BY <2>1, LabelFits
  <2>3. NeighbourRel(i, RelOf(e)) <=> i.tag \in {e.src, e.dst} /\ HasLabel(FarEnd(e, i.tag), i.type)
    BY RelIs DEF NeighbourRel, FarEnd
  <2>4. e \in EdgesAt(i.tag) <=> i.tag \in {e.src, e.dst}
    BY DEF EdgesAt
  <2>5. QED  BY <2>2, <2>3, <2>4
<1>3. rows \subseteq NeighbourRows(i)
  <2>1. SUFFICES ASSUME NEW s \in rels, NeighbourRel(i, s)
                 PROVE  NeighbourRow(i, s) \in NeighbourRows(i)
    OBVIOUS
  <2>2. PICK e \in bound.edges : s = RelOf(e)
    BY DatabaseIs
  <2>3. QED  BY <1>1, <1>2, <2>1, <2>2
<1>4. bound \in returned => NeighbourRows(i) \subseteq rows
  <2>1. SUFFICES ASSUME bound \in returned, NEW e \in EdgesAt(i.tag), Fits(FarEnd(e, i.tag), i.type)
                 PROVE  NeighbourRow(i, RelOf(e)) \in rows
    BY <1>1
  <2>2. e \in bound.edges /\ RelOf(e) \in rels
    BY <2>1, DatabaseIs DEF EdgesAt
  <2>3. QED  BY <1>2, <2>1, <2>2
<1>5. QED  BY <1>3, <1>4

\* The other ends of what is drawn at an item.
LEMMA EndsAgree ==
    ASSUME StoreInv, OnlyBound, bound \in Graphs, NEW t,
           NEW rows, rows = {r \in rels : t \in {r.src, r.dst}}
    PROVE  /\ {FarEnd(r, t) : r \in rows} \subseteq {FarEnd(e, t) : e \in EdgesAt(t)}
           /\ bound \in returned =>
                 {FarEnd(e, t) : e \in EdgesAt(t)} \subseteq {FarEnd(r, t) : r \in rows}
<1>1. ASSUME NEW r \in rows
      PROVE  \E e \in EdgesAt(t) : FarEnd(e, t) = FarEnd(r, t)
  <2>1. PICK e \in bound.edges : r = RelOf(e)
    BY DatabaseIs
  <2>2. QED  BY <2>1, RelIs DEF EdgesAt, FarEnd
<1>2. ASSUME bound \in returned, NEW e \in EdgesAt(t)
      PROVE  \E r \in rows : FarEnd(r, t) = FarEnd(e, t)
  <2>1. RelOf(e) \in rels /\ t \in {e.src, e.dst}
    BY <1>2, DatabaseIs DEF EdgesAt
  <2>2. RelOf(e).src = e.src /\ RelOf(e).dst = e.dst
    BY RelIs
  <2>3. QED  BY <2>1, <2>2 DEF FarEnd
<1>3. QED  BY <1>1, <1>2

\* Items of a type, or all.
LEMMA ItemsAgree ==
    ASSUME StoreInv, OnlyBound, bound \in Graphs, NEW itype
    PROVE  /\ Matched(Items, itype) \subseteq {t \in Known : Fits(t, itype)}
           /\ bound \in returned => {t \in Known : Fits(t, itype)} = Matched(Items, itype)
<1>1. Matched(Items, itype) = {x \in Items : HasLabel(x, itype)}
  BY DEF Matched
<1>2. bound \in returned => Known \subseteq Items
  BY DatabaseIs
<1>3. QED  BY <1>1, <1>2, LabelFits

\* Whether an item is protected.
LEMMA ReliefAgrees ==
    ASSUME StoreInv, RelsHaveEnds, OnlyBound, bound \in Graphs, NEW i, i.tag \in Known,
           NEW rows, rows = Matched(Within(FlowRels, i.tag, QueryHops), "relief_valve")
    PROVE  /\ bound \in returned /\ Narrow(bound) /\ ReliefVerdict(i) = "protected" =>
                 rows \ {i.tag} # {}
           /\ rows \ {i.tag} # {} => ReliefVerdict(i) # "none downstream"
<1> DEFINE t == i.tag
           c == Cardinality(Known)
           V == Within(FlowsIn(bound), t, c)
           O == Within(OpenIn(bound), t, c)
           D == Within(FlowRels, t, QueryHops)
<1>1. /\ D \ {t} \subseteq V \ {t}
      /\ bound \in returned /\ Narrow(bound) => V \ {t} \subseteq D \ {t}
      /\ V \subseteq O
  <2> DEFINE forward == TRUE
  <2>1. forward \in BOOLEAN /\ t \in Known
    OBVIOUS
  <2>2. /\ Along(FlowRels, forward) = FlowRels
        /\ Along(FlowsIn(bound), forward) = FlowsIn(bound)
        /\ Along(OpenIn(bound), forward) = OpenIn(bound)
    BY DEF Along
  <2> HIDE DEF forward, t
  <2>3. /\ Within(Along(FlowRels, forward), t, QueryHops) \ {t}
              \subseteq Within(Along(FlowsIn(bound), forward), t, c) \ {t}
        /\ bound \in returned /\ Narrow(bound) =>
              Within(Along(FlowsIn(bound), forward), t, c) \ {t}
                  \subseteq Within(Along(FlowRels, forward), t, QueryHops) \ {t}
        /\ Within(Along(FlowsIn(bound), forward), t, c)
              \subseteq Within(Along(OpenIn(bound), forward), t, c)
    BY <2>1, ReachAgrees
  <2>4. QED  BY <2>2, <2>3
<1>2. D \subseteq Items \cup {t}
  <2>1. Along(FlowRels, TRUE) = FlowRels
    BY DEF Along
  <2>2. QED  BY <2>1, WithinItems, QueryAssumption
<1>3. rows = {x \in D : HasLabel(x, "relief_valve")}
  BY DEF Matched
<1>5. ASSUME NEW x \in D \ {t}
      PROVE  /\ HasLabel(x, "relief_valve") => bound.type[x] = "relief_valve"
             /\ bound \in returned => (bound.type[x] = "relief_valve" => HasLabel(x, "relief_valve"))
  <2>1. x \in Items
    BY <1>2
  <2>2. "relief_valve" # NoType
    BY DEF NoType
  <2>3. Fits(x, "relief_valve") <=> bound.type[x] = "relief_valve"
    BY <2>2 DEF Fits
  <2>4. QED  BY <2>1, <2>3, LabelFits
<1>6. \A R : Relieved(R, t) => \E x \in Within(R, t, c) \ {t} : bound.type[x] = "relief_valve"
  <2>1. ASSUME NEW R, Relieved(R, t)
        PROVE  \E x \in Within(R, t, c) \ {t} : bound.type[x] = "relief_valve"
    <3> DEFINE through == {p \in R : p[1] = t \/ bound.type[p[1]]
                                                    \notin BlocksRelief \cup {"relief_valve"}}
    <3>1. \E x \in Within(through, t, c) \ {t} : bound.type[x] = "relief_valve"
      BY <2>1 DEF Relieved
    <3>2. through \subseteq R
      OBVIOUS
    <3>3. c \in Nat
      BY KnownFinite, FS_CardinalityType
    <3> HIDE DEF through, c
    <3>4. Within(through, t, c) \subseteq Within(R, t, c)
      BY <3>2, <3>3, WithinMore
    <3>5. QED  BY <3>1, <3>4
  <2>2. QED  BY <2>1
<1>7. DOMAIN Detail(t, TRUE) = O \ {t}
  BY DEF Detail
<1> HIDE DEF V, O, D
<1>8. ASSUME bound \in returned, Narrow(bound), ReliefVerdict(i) = "protected"
      PROVE  rows \ {t} # {}
  <2>1. Relieved(FlowsIn(bound), t)
    BY <1>8 DEF ReliefVerdict
  <2>2. PICK x \in V \ {t} : bound.type[x] = "relief_valve"
    BY <1>6, <2>1 DEF V
  <2>3. x \in D \ {t}
    BY <1>1, <1>8
  <2>4. QED  BY <1>3, <1>5, <1>8, <2>2, <2>3
<1>9. ASSUME rows \ {t} # {} PROVE ReliefVerdict(i) # "none downstream"
  <2>1. PICK x \in D \ {t} : bound.type[x] = "relief_valve"
    BY <1>3, <1>5, <1>9
  <2>2. x \in DOMAIN Detail(t, TRUE)
    BY <1>1, <1>7, <2>1
  <2>3. QED  BY <2>1, <2>2 DEF ReliefVerdict
<1>10. QED  BY <1>8, <1>9

\* Whether some trail of the database leads to a valve that protects an item.
LEMMA ValvesAgree ==
    ASSUME StoreInv, RelsHaveEnds, OnlyBound, bound \in Graphs, NEW i, i.tag \in Known,
           NEW rows,
           rows = {p \in Trails(FlowRels, i.tag, QueryHops) : HasLabel(Last(p), "relief_valve")},
           NEW some \in SUBSET rows
    PROVE  /\ bound \in returned /\ Narrow(bound) /\ ReliefVerdict(i) = "protected" =>
                 {Last(p) : p \in rows} \ {i.tag} # {}
           /\ {Last(p) : p \in some} \ {i.tag} # {} => ReliefVerdict(i) # "none downstream"
<1> DEFINE t == i.tag
           D == Within(FlowRels, t, QueryHops)
           ends == Matched(D, "relief_valve")
<1>1. /\ bound \in returned /\ Narrow(bound) /\ ReliefVerdict(i) = "protected" => ends \ {t} # {}
      /\ ends \ {t} # {} => ReliefVerdict(i) # "none downstream"
  BY ReliefAgrees
<1>2. ends = {x \in D : HasLabel(x, "relief_valve")}
  BY DEF Matched
<1> HIDE DEF ends
<1>3. \A p \in rows : Last(p) \in ends
  <2>1. \A p \in Trails(FlowRels, t, QueryHops) : Last(p) \in D
    BY QueryAssumption, TrailsEndWithin
  <2>2. QED  BY <1>2, <2>1
<1>4. \A x \in ends \ {t} : \E p \in rows : Last(p) = x
  <2>1. \A x \in D \ {t} : \E p \in Trails(FlowRels, t, QueryHops) : Last(p) = x
    BY QueryAssumption, WithinEndsATrail
  <2>2. QED  BY <1>2, <2>1
<1>5. QED  BY <1>1, <1>3, <1>4

\* The paths shown, and the trails of the database.
PathsIn(rows) == {r.path : r \in {x \in rows : x.verified /\ Len(x.path) > 1}}

LEMMA PathRowsAgree ==
    ASSUME StoreInv, OnlyBound, bound \in Graphs, NEW i,
           NEW P, P = SimplePaths(OpenIn(bound), i.source, i.target, QueryHops + 2),
           NEW kept, Shortest(P, kept) \/ Shortest(P \cup Standing(i), kept),
           NEW rows,
           rows = {p \in Trails(FlowRels, i.source, QueryHops + 2) : Last(p) = i.target},
           NEW shown, shown = PathsIn(PathRows(i, kept))
    PROVE  /\ bound \in returned => shown \subseteq rows
           /\ Cardinality(PathRows(i, kept)) < MaxPaths => {p \in rows : IsInjective(p)} \subseteq shown
<1> DEFINE a == i.source
           b == i.target
           n == QueryHops + 2
           V == SimplePaths(FlowsIn(bound), a, b, n)
           D == SimplePaths(FlowRels, a, b, n)
           Q == P \cup Standing(i)
<1>1. n \in Nat /\ MaxPaths \in Nat
  BY QueryAssumption
<1>2. /\ FlowRels \subseteq FlowsIn(bound) /\ FlowsIn(bound) \subseteq OpenIn(bound)
      /\ bound \in returned => FlowsIn(bound) \subseteq FlowRels
  BY FlowRelsAre
<1>3. D \subseteq V /\ V \subseteq P /\ (bound \in returned => V \subseteq D)
  <2>1. P = SimplePaths(OpenIn(bound), a, b, n)
    OBVIOUS
  <2> HIDE DEF a, b, n
  <2>2. D \subseteq V /\ V \subseteq SimplePaths(OpenIn(bound), a, b, n)
    BY <1>1, <1>2, PathsMore
  <2>3. bound \in returned => V \subseteq D
    BY <1>1, <1>2, PathsMore
  <2>4. QED  BY <2>1, <2>2, <2>3
<1>4. IsFiniteSet(P) /\ IsFiniteSet(Q)
  <2>1. P = SimplePaths(OpenIn(bound), a, b, n)
    OBVIOUS
  <2>2. \A p \in OpenIn(bound) : p[2] \in Known
    BY FlowRelsAre
  <2>3. IsFiniteSet(Known)
    BY KnownFinite
  <2>4. IsFiniteSet(P)
    <3> HIDE DEF a, b, n
    <3>1. QED  BY <1>1, <2>1, <2>2, <2>3, PathsFinite
  <2>5. Q = P \/ Q = P \cup {<<a>>}
    BY DEF Standing
  <2>6. IsFiniteSet(P \cup {<<a>>})
    BY <2>4, FS_AddElement
  <2>7. QED  BY <2>4, <2>5, <2>6
<1>5. D \subseteq rows
  <2>1. \A p \in D : p \in Trails(FlowRels, a, n) /\ Last(p) = b
    <3> HIDE DEF a, b, n
    <3>1. QED  BY <1>1, PathsAreTrails
  <2>2. QED  BY <2>1
<1>6. ASSUME NEW p \in rows, IsInjective(p) PROVE p \in V /\ Len(p) > 1
  <2>1. p \in Trails(FlowRels, a, n) /\ b = Last(p)
    OBVIOUS
  <2> HIDE DEF a, b, n
  <2>2. p \in D
    BY <1>1, <1>6, <2>1, OnceIsAPath
  <2>3. Len(p) > 1
    BY <1>1, <2>2, PathsAreTrails
  <2>4. QED  BY <1>3, <2>2, <2>3
<1>7. PathRows(i, kept) = {[path |-> p, verified |-> p \in V \cup Standing(i)] : p \in kept}
  BY DEF PathRows
<1>8. /\ kept \subseteq Q
      /\ \/ kept \subseteq P /\ Cardinality(kept) = Min({MaxPaths, Cardinality(P)})
         \/ Cardinality(kept) = Min({MaxPaths, Cardinality(Q)})
  BY DEF Shortest
<1>9. \A p \in Standing(i) : Len(p) = 1
  BY DEF Standing
<1> HIDE DEF V, D
<1>10. shown = {p \in kept : p \in V /\ Len(p) > 1}
  <2>0. shown = {r.path : r \in {x \in PathRows(i, kept) : x.verified /\ Len(x.path) > 1}}
    BY DEF PathsIn
  <2>1. ASSUME NEW p \in kept, p \in V, Len(p) > 1 PROVE p \in shown
    <3>1. PICK r \in PathRows(i, kept) : r = [path |-> p, verified |-> p \in V \cup Standing(i)]
      BY <1>7
    <3>2. r.verified /\ r.path = p
      BY <2>1, <3>1
    <3>3. QED  BY <2>0, <2>1, <3>2
  <2>2. ASSUME NEW p \in shown PROVE p \in kept /\ p \in V /\ Len(p) > 1
    <3>1. PICK r \in PathRows(i, kept) : r.verified /\ r.path = p /\ Len(r.path) > 1
      BY <2>0
    <3>2. PICK q \in kept : r = [path |-> q, verified |-> q \in V \cup Standing(i)]
      BY <1>7
    <3>3. q = p /\ p \in V \cup Standing(i) /\ Len(p) > 1
      BY <3>1, <3>2
    <3>4. p \notin Standing(i) /\ p \in kept
      <4>1. p \in Standing(i) => Len(p) = 1
        BY <1>9
      <4>2. ~ (1 > 1)
        OBVIOUS
      <4>3. Len(p) # 1
        <5>1. SUFFICES ASSUME Len(p) = 1 PROVE FALSE
          OBVIOUS
        <5>2. Len(p) > 1
          BY <3>3
        <5>3. 1 > 1
          BY <5>1, <5>2, Zenon
        <5>4. QED  BY <4>2, <5>3
      <4>4. QED  BY <3>2, <3>3, <4>1, <4>3
    <3>5. QED  BY <3>3, <3>4
  <2>3. QED  BY <2>1, <2>2
<1>11. Cardinality(PathRows(i, kept)) = Cardinality(kept)
  <2> DEFINE T == PathRows(i, kept)
             f == [p \in kept |-> [path |-> p, verified |-> p \in V \cup Standing(i)]]
  <2>1. IsFiniteSet(kept)
    BY <1>4, <1>8, FS_Subset
  <2>2. f \in Surjection(kept, T)
    BY <1>7 DEF Surjection
  <2>3. f \in Injection(kept, T)
    <3>1. f \in [kept -> T]
      BY <1>7
    <3>2. \A p, q \in kept : f[p] = f[q] => p = q
      <4>1. \A p \in kept : f[p].path = p
        OBVIOUS
      <4> HIDE DEF f
      <4>2. QED  BY <4>1
    <3>3. QED  BY <3>1, <3>2 DEF Injection, IsInjective
  <2> HIDE DEF T, f
  <2>4. Cardinality(T) = Cardinality(kept)
    BY <2>1, <2>2, <2>3, FS_Surjection
  <2>5. QED  BY <2>4 DEF T
<1>12. Cardinality(PathRows(i, kept)) < MaxPaths => P \subseteq kept
  <2>1. SUFFICES ASSUME Cardinality(kept) < MaxPaths PROVE P \subseteq kept
    BY <1>11
  <2>2. CASE kept \subseteq P /\ Cardinality(kept) = Min({MaxPaths, Cardinality(P)})
    <3>1. kept = P
      BY <1>1, <1>4, <2>1, <2>2, BelowLimit
    <3>2. QED  BY <3>1
  <2>3. CASE Cardinality(kept) = Min({MaxPaths, Cardinality(Q)})
    <3> HIDE DEF Q
    <3>1. kept = Q
      BY <1>1, <1>4, <1>8, <2>1, <2>3, BelowLimit
    <3>2. QED  BY <3>1 DEF Q
  <2>4. QED  BY <1>8, <2>2, <2>3
<1>13. QED  BY <1>3, <1>5, <1>6, <1>10, <1>12

----------------------------------------------------------------------------
(* What an answer and the rows of its Cypher agree on.                       *)

\* The rows run_cypher left in its result.
RowsShown == explored \subseteq CypherRows(intent)

\* The kinds a reading can be of.
LEMMA ReadingKinds ==
    ASSUME NEW q, NEW tags
    PROVE  Reading(q, tags).kind \in Kinds \cup {"need tag", "none"}
<1> DEFINE OfKind(i) == i.kind \in Kinds \cup {"need tag", "none"}
<1>1. \A kind \in Kinds \cup {"need tag", "none"} : \A t : \A s : \A g : \A y :
          OfKind(Intent(kind, t, s, g, y))
  BY DEF Intent
<1>2. {"downstream", "upstream", "neighbours", "path", "list", "count", "relief", "info",
       "need tag", "none"} \subseteq Kinds \cup {"need tag", "none"}
  BY DEF Kinds
<1> HIDE DEF OfKind
<1>3. OfKind(Reading(q, tags))
  BY <1>1, <1>2 DEF Reading, NoIntent
<1>4. QED  BY <1>3 DEF OfKind

\* Every state after a question has run.
Asked ==
    /\ StoreInv /\ RelsHaveEnds /\ QuestionInv
    /\ asking \in {"run", "answered", "explored"} => intent.kind \in Kinds
    /\ asking \in {"answered", "explored"} => Runnable(intent) /\ answer \in Answers(intent)
    /\ asking = "explored" => RowsShown

\* A tag an intent needs is one of the graph.
LEMMA NeededIsKnown ==
    ASSUME Asked, asking = "explored"
    PROVE  intent.kind \in {"downstream", "upstream", "neighbours", "relief", "info"} =>
               intent.tag \in Known
<1>1. SpeaksOfNamed(intent) /\ NoTag \notin Required(intent)
  BY NamedMeans DEF Asked, QuestionInv
<1>2. intent.tag \in Known \cup {NoTag}
  BY <1>1 DEF SpeaksOfNamed, NamedIn
<1>3. intent.kind \in {"downstream", "upstream", "neighbours", "relief", "info"} =>
          Required(intent) = {intent.tag}
  BY DEF Required
<1>4. QED  BY <1>1, <1>2, <1>3

LEMMA TraceCase ==
    ASSUME Asked, asking = "explored", OnlyBound, Narrow(bound), NEW forward \in BOOLEAN,
           intent.kind = (IF forward THEN "downstream" ELSE "upstream")
    PROVE  LET whole == bound \in returned /\ explored = CypherRows(intent)
           IN  /\ explored \ {intent.tag} \subseteq VerifiedTags
               /\ whole => VerifiedTags = explored \ {intent.tag}
<1> DEFINE rows == CypherRows(intent)
<1>1. intent.tag \in Known
  BY NeededIsKnown
<1>2. rows = Matched(Within(Along(FlowRels, forward), intent.tag, QueryHops), intent.type)
  BY DEF CypherRows, Along
<1>3. answer = TraceRows(intent, forward)
  BY DEF Asked, Answers
<1>4. VerifiedTags = VerifiedIn(answer)
  BY DEF VerifiedTags, VerifiedIn
<1>5. StoreInv /\ RelsHaveEnds /\ bound \in Graphs /\ RowsShown
  BY DEF Asked, QuestionInv
<1> HIDE DEF rows
<1>6. /\ rows \ {intent.tag} \subseteq VerifiedIn(TraceRows(intent, forward))
      /\ bound \in returned => VerifiedIn(TraceRows(intent, forward)) = rows \ {intent.tag}
  BY <1>1, <1>2, <1>5, TraceAgrees
<1>7. explored \subseteq rows /\ (explored = CypherRows(intent) => explored = rows)
  BY <1>5, <1>6 DEF RowsShown, rows
<1>8. QED  BY <1>3, <1>4, <1>6, <1>7

LEMMA NeighbourCase ==
    ASSUME Asked, asking = "explored", OnlyBound, intent.kind = "neighbours"
    PROVE  LET whole == bound \in returned /\ explored = CypherRows(intent)
           IN  explored \subseteq answer /\ (whole => answer = explored)
<1> DEFINE rows == CypherRows(intent)
<1>1. rows = {NeighbourRow(intent, s) : s \in {r \in rels : NeighbourRel(intent, r)}}
  BY DEF CypherRows, NeighbourRow, NeighbourRel
<1>2. answer = NeighbourRows(intent)
  BY DEF Asked, Answers
<1>3. StoreInv /\ RelsHaveEnds /\ bound \in Graphs /\ RowsShown
  BY DEF Asked, QuestionInv
<1> HIDE DEF rows
<1>4. /\ rows \subseteq NeighbourRows(intent)
      /\ bound \in returned => NeighbourRows(intent) = rows
  BY <1>1, <1>3, NeighboursAgree
<1>5. explored \subseteq rows /\ (explored = CypherRows(intent) => explored = rows)
  BY <1>3, <1>4 DEF RowsShown, rows
<1>6. QED  BY <1>2, <1>4, <1>5

LEMMA InfoCase ==
    ASSUME Asked, asking = "explored", OnlyBound, intent.kind = "info"
    PROVE  LET whole == bound \in returned /\ explored = CypherRows(intent)
               theirs == {FarEnd(r, intent.tag) : r \in explored}
           IN  theirs \subseteq answer /\ (whole => answer = theirs)
<1> DEFINE rows == CypherRows(intent)
           t == intent.tag
           mine == {FarEnd(e, t) : e \in EdgesAt(t)}
           ends == {FarEnd(r, t) : r \in rows}
           theirs == {FarEnd(r, t) : r \in explored}
<1>1. rows = {r \in rels : t \in {r.src, r.dst}}
  BY DEF CypherRows
<1>2. answer = mine
  BY DEF Asked, Answers
<1>3. StoreInv /\ bound \in Graphs /\ RowsShown
  BY DEF Asked, QuestionInv
<1> HIDE DEF rows, t
<1>4. ends \subseteq mine /\ (bound \in returned => mine \subseteq ends)
  BY <1>1, <1>3, EndsAgree
<1>5. explored \subseteq rows /\ (explored = CypherRows(intent) => explored = rows)
  BY <1>3 DEF RowsShown, rows
<1>6. theirs \subseteq ends /\ (explored = rows => theirs = ends)
  BY <1>5
<1> HIDE DEF mine, ends, theirs
<1>7. /\ theirs \subseteq answer
      /\ bound \in returned /\ explored = CypherRows(intent) => answer = theirs
  BY <1>2, <1>4, <1>5, <1>6
<1>8. QED  BY <1>7 DEF theirs, t

LEMMA ItemCase ==
    ASSUME Asked, asking = "explored", OnlyBound, intent.kind \in {"list", "count"}
    PROVE  LET whole == bound \in returned /\ explored = CypherRows(intent)
           IN  explored \subseteq answer /\ (whole => answer = explored)
<1> DEFINE rows == CypherRows(intent)
           y == intent.type
           fitting == {t \in Known : Fits(t, y)}
<1>1. rows = Matched(Items, y)
  BY DEF CypherRows
<1>2. answer = fitting
  <2>1. intent.kind = "list" => y # NoType
    BY DEF Asked, Runnable
  <2>2. intent.kind = "list" => answer = {t \in Known : bound.type[t] = y}
    BY DEF Asked, Answers
  <2>3. intent.kind = "count" => answer = fitting
    BY DEF Asked, Answers
  <2>4. QED  BY <2>1, <2>2, <2>3 DEF Fits
<1>3. StoreInv /\ bound \in Graphs /\ RowsShown
  BY DEF Asked, QuestionInv
<1>4. /\ Matched(Items, y) \subseteq fitting
      /\ bound \in returned => fitting = Matched(Items, y)
  BY <1>3, ItemsAgree
<1> HIDE DEF rows, fitting
<1>5. explored \subseteq rows /\ (explored = CypherRows(intent) => explored = rows)
  BY <1>1, <1>3, <1>4 DEF RowsShown, rows
<1>6. QED  BY <1>1, <1>2, <1>4, <1>5

LEMMA ReliefCase ==
    ASSUME Asked, asking = "explored", OnlyBound, Narrow(bound), intent.kind = "relief"
    PROVE  LET whole == bound \in returned /\ explored = CypherRows(intent)
               valves == {Last(p) : p \in explored} \ {intent.tag}
           IN  /\ answer = {"protected"} /\ whole => valves # {}
               /\ valves # {} => answer # {"none downstream"}
<1> DEFINE rows == CypherRows(intent)
           valves == {Last(p) : p \in explored} \ {intent.tag}
<1>1. intent.tag \in Known
  BY NeededIsKnown
<1>2. rows = {p \in Trails(FlowRels, intent.tag, QueryHops) : HasLabel(Last(p), "relief_valve")}
  BY DEF CypherRows
<1>3. answer = {ReliefVerdict(intent)}
  BY DEF Asked, Answers
<1>4. StoreInv /\ RelsHaveEnds /\ bound \in Graphs /\ explored \in SUBSET CypherRows(intent)
  BY DEF Asked, QuestionInv, RowsShown
<1>5. rows = CypherRows(intent)
  OBVIOUS
<1> HIDE DEF rows
<1>6. /\ bound \in returned /\ ReliefVerdict(intent) = "protected" =>
             {Last(p) : p \in rows} \ {intent.tag} # {}
      /\ valves # {} => ReliefVerdict(intent) # "none downstream"
  BY <1>1, <1>2, <1>4, <1>5, ValvesAgree
<1>7. QED  BY <1>3, <1>5, <1>6

LEMMA PathCase ==
    ASSUME Asked, asking = "explored", OnlyBound, intent.kind = "path"
    PROVE  LET whole == bound \in returned /\ explored = CypherRows(intent)
               shown == {r.path : r \in {x \in answer : x.verified /\ Len(x.path) > 1}}
           IN  /\ whole => shown \subseteq explored
               /\ Cardinality(answer) < MaxPaths => {p \in explored : IsInjective(p)} \subseteq shown
<1> DEFINE rows == CypherRows(intent)
           shown == PathsIn(answer)
           paths == SimplePaths(OpenIn(bound), intent.source, intent.target, QueryHops + 2)
           both == paths \cup Standing(intent)
<1>1. rows = {p \in Trails(FlowRels, intent.source, QueryHops + 2) : Last(p) = intent.target}
  BY DEF CypherRows
<1>2. PICK kept : (Shortest(paths, kept) \/ Shortest(both, kept)) /\ answer = PathRows(intent, kept)
  <2>1. answer \in {PathRows(intent, kept) : kept \in {k \in SUBSET both :
                        Shortest(paths, k) \/ Shortest(both, k)}}
    BY DEF Asked, Answers
  <2> HIDE DEF paths, both
  <2>2. QED  BY <2>1
<1>3. StoreInv /\ bound \in Graphs /\ explored \subseteq CypherRows(intent)
  BY DEF Asked, QuestionInv, RowsShown
<1>4. rows = CypherRows(intent)
  OBVIOUS
<1> HIDE DEF rows
<1>5. /\ bound \in returned => shown \subseteq rows
      /\ Cardinality(answer) < MaxPaths => {p \in rows : IsInjective(p)} \subseteq shown
  <2>1. shown = PathsIn(PathRows(intent, kept))
    BY <1>2
  <2>2. paths = SimplePaths(OpenIn(bound), intent.source, intent.target, QueryHops + 2)
    OBVIOUS
  <2>3. Shortest(paths, kept) \/ Shortest(paths \cup Standing(intent), kept)
    BY <1>2
  <2>4. answer = PathRows(intent, kept)
    BY <1>2
  <2> HIDE DEF shown, paths, both
  <2>5. /\ bound \in returned => shown \subseteq rows
        /\ Cardinality(PathRows(intent, kept)) < MaxPaths => {p \in rows : IsInjective(p)} \subseteq shown
    BY <1>1, <1>3, <2>1, <2>2, <2>3, PathRowsAgree
  <2>6. QED  BY <2>4, <2>5
<1> HIDE DEF shown
<1>6. /\ bound \in returned /\ explored = CypherRows(intent) => shown \subseteq explored
      /\ Cardinality(answer) < MaxPaths => {p \in explored : IsInjective(p)} \subseteq shown
  BY <1>3, <1>4, <1>5
<1>7. QED  BY <1>6 DEF shown, PathsIn

LEMMA AskedAgree == Asked /\ Narrow(bound) => AnswerAgreesWithCypher
<1> SUFFICES ASSUME Asked, Narrow(bound), asking = "explored", OnlyBound
             PROVE  AnswerAgreesWithCypher
  BY DEF AnswerAgreesWithCypher, OnlyBound
<1> DEFINE whole == bound \in returned /\ explored = CypherRows(intent)
           shown == {r.path : r \in {x \in answer : x.verified /\ Len(x.path) > 1}}
           valves == {Last(p) : p \in explored} \ {intent.tag}
           theirs == {FarEnd(r, intent.tag) : r \in explored}
<1>1. intent.kind \in Kinds
  BY DEF Asked
<1>2. intent.kind \in {"downstream", "upstream"} =>
          /\ explored \ {intent.tag} \subseteq VerifiedTags
          /\ whole => VerifiedTags = explored \ {intent.tag}
  <2> DEFINE forward == intent.kind = "downstream"
  <2>1. forward \in BOOLEAN
    OBVIOUS
  <2>2. intent.kind \in {"downstream", "upstream"} =>
            intent.kind = IF forward THEN "downstream" ELSE "upstream"
    OBVIOUS
  <2> HIDE DEF forward
  <2>3. QED  BY <2>1, <2>2, TraceCase
<1>3. intent.kind \in {"neighbours", "list", "count"} =>
          explored \subseteq answer /\ (whole => answer = explored)
  BY NeighbourCase, ItemCase
<1>4. intent.kind = "info" => theirs \subseteq answer /\ (whole => answer = theirs)
  BY InfoCase
<1>5. intent.kind = "relief" =>
          /\ answer = {"protected"} /\ whole => valves # {}
          /\ valves # {} => answer # {"none downstream"}
  BY ReliefCase
<1>6. intent.kind = "path" =>
          /\ whole => shown \subseteq explored
          /\ Cardinality(answer) < MaxPaths => {p \in explored : IsInjective(p)} \subseteq shown
  BY PathCase
<1>7. CASE intent.kind \in {"downstream", "upstream"}
  BY <1>2, <1>7 DEF AnswerAgreesWithCypher
<1>8. CASE intent.kind \in {"neighbours", "list", "count"}
  BY <1>3, <1>8 DEF AnswerAgreesWithCypher
<1>9. CASE intent.kind = "info"
  BY <1>4, <1>9 DEF AnswerAgreesWithCypher
<1>10. CASE intent.kind = "relief"
  BY <1>5, <1>10 DEF AnswerAgreesWithCypher
<1>11. CASE intent.kind = "path"
  BY <1>6, <1>11 DEF AnswerAgreesWithCypher
<1>12. QED  BY <1>1, <1>7, <1>8, <1>9, <1>10, <1>11 DEF Kinds

----------------------------------------------------------------------------
(* The steps. Loads may begin, break off and return until the Cypher of an   *)
(* answer has run.                                                           *)

AskNext ==
    \/ asking # "explored" /\ StoreNext /\ UNCHANGED queryVars
    \/ QueryNext /\ UNCHANGED storeVars

AskSpec == StoreInit /\ QueryInit /\ [][AskNext]_<<storeVars, queryVars>>

LEMMA AnswersStay ==
    ASSUME UNCHANGED bound, NEW i
    PROVE  Answers(i)' = Answers(i)
BY DEF Answers, TraceRows, NeighbourRows, PathRows, Shortest, Standing, Detail, Within, SimplePaths,
       Longer, Beyond, Successors, Reversed, OpenIn, FlowsIn, ReliefVerdict, Relieved, Fits,
       EdgesAt, FarEnd, RelOf, Known, BlocksRelief, NoType, Last, ToSet, Min

LEMMA RowsStay ==
    ASSUME UNCHANGED <<labels, rels>>, NEW i
    PROVE  CypherRows(i)' = CypherRows(i)
BY DEF CypherRows, Matched, HasLabel, FlowRels, FarEnd, Within, Trails, Further, Links,
       Beyond, Successors, Reversed, NoType, Last, ToSet, Items

\* No statement leaves a relationship without its ends.
LEMMA EndsStay ==
    ASSUME StoreInv, RelsHaveEnds, [StoreNext]_storeVars
    PROVE  RelsHaveEnds'
<1>1. CASE RunStatement
  <2>1. PICK batch \in Batches :
            \/ group \in Labels /\ MergeNodes(batch, LabelOrder[group])
            \/ group \notin Labels /\ MergeRels(batch)
    BY <1>1 DEF RunStatement
  <2>2. CASE MergeNodes(batch, LabelOrder[group])
    <3>1. Items' = Items \cup batch /\ rels' = rels
      BY <2>2, MergeNodesStores
    <3>2. QED  BY <3>1 DEF RelsHaveEnds
  <2>3. CASE MergeRels(batch)
    <3>1. Items' = Items /\ rels' = rels \cup {r \in batch : {r.src, r.dst} \subseteq Items}
      BY <2>3 DEF MergeRels, Items
    <3>2. QED  BY <3>1 DEF RelsHaveEnds
  <2>4. QED  BY <2>1, <2>2, <2>3
<1>2. CASE UNCHANGED <<labels, rels>>
  BY <1>2 DEF RelsHaveEnds, Items
<1>3. RunStatement \/ UNCHANGED <<labels, rels>>
  BY DEF StoreNext, BeginLoad, NextGroup, StatementFails, LoadReturns, storeVars
<1>4. QED  BY <1>1, <1>2, <1>3

LEMMA LoadsKeepInv ==
    ASSUME StoreInv, [StoreNext]_storeVars
    PROVE  StoreInv'
<1>1. CASE \E g \in Graphs : BeginLoad(g)
  BY <1>1, BeginLoadKeepsInv
<1>2. CASE NextGroup
  BY <1>2, NextGroupKeepsInv
<1>3. CASE RunStatement
  BY <1>3, RunStatementKeepsInv
<1>4. CASE StatementFails
  BY <1>4, FailureKeepsInv
<1>5. CASE LoadReturns
  BY <1>5, ReturnKeepsInv
<1>6. CASE UNCHANGED storeVars
  BY <1>6, StoreStutter
<1>7. QED  BY <1>1, <1>2, <1>3, <1>4, <1>5, <1>6 DEF StoreNext

LEMMA QuestionsKeepInv ==
    ASSUME QuestionInv, [QueryNext]_queryVars
    PROVE  QuestionInv'
<1>1. CASE Parse
  BY <1>1, ParseKeepsInv
<1>2. CASE Ground
  BY <1>2, GroundKeepsInv
<1>3. CASE (\E q \in Questions : Question(q)) \/ Translate \/ Run \/ Explore \/ UNCHANGED queryVars
  BY <1>3, OtherStepsKeepInv
<1>4. QED  BY <1>1, <1>2, <1>3 DEF QueryNext

\* What an answer is stays what it is as long as the graph and the intent do.
LEMMA AnsweredStays ==
    ASSUME UNCHANGED <<bound, intent, answer>>, Runnable(intent), answer \in Answers(intent)
    PROVE  Runnable(intent)' /\ (answer \in Answers(intent))'
<1>1. PICK i : i = intent
  OBVIOUS
<1>2. Answers(i)' = Answers(i) /\ intent' = i
  BY <1>1, AnswersStay
<1>3. answer \in Answers(i)
  BY <1>1
<1>4. (answer \in Answers(intent))'
  BY <1>2, <1>3 DEF Answers
<1>5. Runnable(intent)'
  BY DEF Runnable, Required, NoTag, NoType
<1>6. QED  BY <1>4, <1>5

LEMMA AskedInit == StoreInit /\ QueryInit => Asked
<1> SUFFICES ASSUME StoreInit, QueryInit PROVE Asked
  OBVIOUS
<1>1. StoreInv /\ QuestionInv
  BY StoreInitInv, QuestionInitInv
<1>2. RelsHaveEnds
  BY DEF StoreInit, RelsHaveEnds
<1>3. asking = "idle"
  BY DEF QueryInit
<1>4. QED  BY <1>1, <1>2, <1>3 DEF Asked

\* Loading.
LEMMA LoadKeepsAsked ==
    ASSUME Asked, asking # "explored", [StoreNext]_storeVars, UNCHANGED queryVars
    PROVE  Asked'
<1>1. StoreInv' /\ RelsHaveEnds'
  BY LoadsKeepInv, EndsStay DEF Asked
<1>2. QuestionInv'
  BY QuestionsKeepInv DEF Asked
<1>3. UNCHANGED <<bound, asking, intent, answer>>
  BY DEF queryVars
<1>4. asking \in {"run", "answered"} => intent.kind \in Kinds
  BY DEF Asked
<1>5. asking = "answered" => Runnable(intent) /\ answer \in Answers(intent)
  BY DEF Asked
<1>6. asking' = "answered" => Runnable(intent)' /\ (answer \in Answers(intent))'
  BY <1>3, <1>5, AnsweredStays
<1>7. Kinds' = Kinds
  BY DEF Kinds
<1>8. QED  BY <1>1, <1>2, <1>3, <1>4, <1>6, <1>7 DEF Asked

\* Reading and grounding a question.
LEMMA IntentsHaveKinds ==
    ASSUME QuestionInv, Parse \/ Ground
    PROVE  /\ asking' \in {"refused", "translate", "run"}
           /\ asking' = "run" => intent'.kind \in Kinds
<1>1. CASE Parse
  <2> DEFINE read == Reading(question, FindTags(question.mentions).tags)
  <2>1. /\ asking' \in {"refused", "translate", "run"}
        /\ asking' = "run" => read.kind \notin {"need tag", "none"} /\ intent' = read
    BY <1>1 DEF Parse
  <2>2. read.kind \in Kinds \cup {"need tag", "none"}
    BY ReadingKinds
  <2> HIDE DEF read
  <2>3. QED  BY <2>1, <2>2
<1>2. CASE Ground
  <2>1. /\ asking = "ground"
        /\ asking' \in {"refused", "run"}
        /\ asking' = "run" => intent' = Grounded(fields)
    BY <1>2 DEF Ground
  <2>2. Grounded(fields).kind = fields.kind
    BY DEF Grounded, Intent
  <2>3. fields.kind \in Kinds
    BY <2>1 DEF QuestionInv
  <2>4. QED  BY <2>1, <2>2, <2>3
<1>3. QED  BY <1>1, <1>2

\* Asking.
LEMMA QuestionKeepsAsked ==
    ASSUME Asked, QueryNext, UNCHANGED storeVars
    PROVE  Asked'
<1>1. StoreInv' /\ RelsHaveEnds'
  BY LoadsKeepInv, EndsStay DEF Asked
<1>2. QuestionInv'
  BY QuestionsKeepInv DEF Asked
<1>3. Kinds' = Kinds
  BY DEF Kinds
<1>4. CASE (\E q \in Questions : Question(q)) \/ Translate
  <2>1. asking' \notin {"run", "answered", "explored"}
    BY <1>4 DEF Question, Translate
  <2>2. QED  BY <1>1, <1>2, <2>1 DEF Asked
<1>5. CASE Parse \/ Ground
  <2>1. /\ asking' \in {"refused", "translate", "run"}
        /\ asking' = "run" => intent'.kind \in Kinds
    BY <1>5, IntentsHaveKinds DEF Asked
  <2>2. QED  BY <1>1, <1>2, <1>3, <2>1 DEF Asked
<1>6. CASE Run
  <2>1. /\ asking = "run" /\ UNCHANGED <<bound, intent>>
        /\ \/ asking' = "refused"
           \/ asking' = "answered" /\ Runnable(intent) /\ answer' \in Answers(intent)
    BY <1>6 DEF Run
  <2>2. intent'.kind \in Kinds
    BY <2>1 DEF Asked
  <2>3. ASSUME asking' = "answered"
        PROVE  Runnable(intent)' /\ (answer \in Answers(intent))'
    <3>1. PICK i : i = intent
      OBVIOUS
    <3>2. Answers(i)' = Answers(i) /\ intent' = i
      BY <2>1, <3>1, AnswersStay
    <3>3. answer' \in Answers(i)
      BY <2>1, <2>3, <3>1
    <3>4. (answer \in Answers(intent))'
      BY <3>2, <3>3 DEF Answers
    <3>5. Runnable(intent)'
      BY <2>1, <2>3 DEF Runnable, Required, NoTag, NoType
    <3>6. QED  BY <3>4, <3>5
  <2>4. QED  BY <1>1, <1>2, <1>3, <2>1, <2>2, <2>3 DEF Asked
<1>7. CASE Explore
  <2>1. /\ asking = "answered" /\ asking' = "explored"
        /\ explored' \subseteq CypherRows(intent)
        /\ UNCHANGED <<bound, intent, answer>>
    BY <1>7 DEF Explore
  <2>2. intent'.kind \in Kinds
    BY <2>1 DEF Asked
  <2>3. Runnable(intent)' /\ (answer \in Answers(intent))'
    BY <2>1, AnsweredStays DEF Asked
  <2>4. RowsShown'
    <3>1. PICK i : i = intent
      OBVIOUS
    <3>2. UNCHANGED <<labels, rels>>
      BY DEF storeVars
    <3>3. CypherRows(i)' = CypherRows(i) /\ intent' = i
      BY <2>1, <3>1, <3>2, RowsStay
    <3>4. CypherRows(intent)' = CypherRows(intent)
      BY <3>1, <3>3 DEF CypherRows
    <3>5. QED  BY <2>1, <3>4 DEF RowsShown
  <2>5. QED  BY <1>1, <1>2, <1>3, <2>1, <2>2, <2>3, <2>4 DEF Asked
<1>8. QED  BY <1>4, <1>5, <1>6, <1>7 DEF QueryNext

\* Nothing happens.
LEMMA AskedStutter ==
    ASSUME Asked, UNCHANGED <<storeVars, queryVars>>
    PROVE  Asked'
<1>1. StoreInv' /\ RelsHaveEnds' /\ QuestionInv'
  BY LoadsKeepInv, EndsStay, QuestionsKeepInv DEF Asked
<1>2. /\ UNCHANGED <<bound, asking, intent, answer, explored>>
      /\ UNCHANGED <<labels, rels>>
  BY DEF queryVars, storeVars
<1>3. Kinds' = Kinds
  BY DEF Kinds
<1>4. asking' \in {"run", "answered", "explored"} => intent'.kind \in Kinds
  BY <1>2 DEF Asked
<1>5. asking' \in {"answered", "explored"} => Runnable(intent)' /\ (answer \in Answers(intent))'
  BY <1>2, AnsweredStays DEF Asked
<1>6. asking' = "explored" => RowsShown'
  <2>1. PICK i : i = intent
    OBVIOUS
  <2>2. CypherRows(i)' = CypherRows(i) /\ intent' = i
    BY <1>2, <2>1, RowsStay
  <2>3. CypherRows(intent)' = CypherRows(intent)
    BY <2>1, <2>2 DEF CypherRows
  <2>4. asking = "explored" => RowsShown
    BY DEF Asked
  <2>5. QED  BY <1>2, <2>3, <2>4 DEF RowsShown
<1>7. QED  BY <1>1, <1>3, <1>4, <1>5, <1>6 DEF Asked

\* The hops of the Cypher are enough in a graph of no more items than hops.
THEOREM SmallIsNarrow ==
    ASSUME NEW g \in Graphs, Cardinality(DOMAIN g.type) <= QueryHops
    PROVE  Narrow(g)
<1> DEFINE K == DOMAIN g.type
<1>1. IsFiniteSet(K) /\ Cardinality(K) \in Nat /\ QueryHops \in Nat
  BY QueryAssumption, FS_CardinalityType
<1>2. \A e \in g.edges : e.src \in K /\ e.dst \in K
  BY StoreAssumption DEF Loadable
<1>3. ASSUME NEW forward \in BOOLEAN, NEW t \in K, NEW n \in Nat
      PROVE  Within(Along(FlowsIn(g), forward), t, n)
                 \subseteq Within(Along(FlowsIn(g), forward), t, QueryHops) \cup {t}
  <2> DEFINE R == Along(FlowsIn(g), forward)
             c == Cardinality(K)
  <2>1. \A p \in R : p[2] \in K
    BY <1>2 DEF Along, Reversed, FlowsIn
  <2> HIDE DEF R, K
  <2>2. Within(R, t, n) \subseteq Within(R, t, c) \cup {t}
    BY <1>1, <1>3, <2>1, WithinAll
  <2>3. c \in Nat /\ c <= QueryHops
    BY <1>1 DEF K
  <2> HIDE DEF c
  <2>4. Within(R, t, c) \subseteq Within(R, t, QueryHops)
    BY <1>1, <2>3, WithinGrows
  <2>5. QED  BY <2>2, <2>4 DEF R
<1>4. QED  BY <1>3 DEF Narrow

\* Whatever is loaded and breaks off before, what the graph in memory answers and
\* what the Cypher shown with it finds never contradict each other, in a graph the
\* hops of the Cypher are enough for (the runners and to_cypher, query.py; load,
\* neo4j_store.py).
THEOREM CypherAgrees == AskSpec => [](Narrow(bound) => AnswerAgreesWithCypher)
<1>1. Asked /\ [AskNext]_<<storeVars, queryVars>> => Asked'
  <2>1. SUFFICES ASSUME Asked, [AskNext]_<<storeVars, queryVars>> PROVE Asked'
    OBVIOUS
  <2>2. CASE asking # "explored" /\ StoreNext /\ UNCHANGED queryVars
    BY <2>1, <2>2, LoadKeepsAsked
  <2>3. CASE QueryNext /\ UNCHANGED storeVars
    BY <2>1, <2>3, QuestionKeepsAsked
  <2>4. CASE UNCHANGED <<storeVars, queryVars>>
    BY <2>1, <2>4, AskedStutter
  <2>5. QED  BY <2>1, <2>2, <2>3, <2>4 DEF AskNext
<1>2. QED  BY <1>1, AskedInit, AskedAgree, PTL DEF AskSpec
=============================================================================
