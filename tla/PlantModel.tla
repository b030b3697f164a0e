----------------------------- MODULE PlantModel -----------------------------
(* Stage 2 from end to end: a drawing is contracted to an equipment graph,  *)
(* study nodes are proposed on it and redefined, and the view of one node   *)
(* is condensed for a prompt.                                               *)
EXTENDS EquipmentGraph, StudyNodes, CondensedView

CONSTANT MaxHops  \* bound: hops of a view

plantVars == <<graphVars, studyVars, viewVars>>

Built == [type |-> [t \in Tags |-> TypeOf(t)], edges |-> edges]

PlantInit == Init /\ StudyInit /\ ViewInit

Contract == Next /\ UNCHANGED <<studyVars, viewVars>>

ProposeNodes ==
    /\ phase = "built"
    /\ phase' = "handed over"
    /\ \E g \in {Built} : \E flows \in {FoldedFlow(g)} : Study(g.type, flows)
    /\ UNCHANGED <<drawing, todo, start, seen, stack, found, edges, viewVars>>

StudyStep == Propose /\ UNCHANGED <<graphVars, viewVars>>

Facilitate ==
    /\ role = <<>>
    /\ Redefine
    /\ UNCHANGED <<graphVars, viewVars>>

\* condensed_node_view(graph, members) of one node.
AskView ==
    /\ stage = "proposed" /\ role = <<>>
    /\ \E g \in {Built}, i \in DOMAIN nodes, hops \in 1..MaxHops :
           Ask(g, nodes[i].members, hops)
    /\ UNCHANGED <<graphVars, studyVars>>

ViewStep == ViewNext /\ UNCHANGED <<graphVars, studyVars>>

PlantNext == Contract \/ ProposeNodes \/ StudyStep \/ Facilitate \/ AskView \/ ViewStep

PlantSpec == PlantInit /\ [][PlantNext]_plantVars

\* Every part speaks of the tags of the drawing.
PlantTypeOK ==
    /\ phase \in {"contract", "force", "built", "handed over"}
    /\ todo \subseteq Terminals
    /\ \A e \in edges : {e.src, e.dst} \subseteq Tags /\ e.src # e.dst
    /\ stage \in {"idle", "group", "train", "attach", "proposed"}
    /\ UNION clusters \subseteq Tags
    /\ DOMAIN nodes \subseteq Tags
    /\ DOMAIN role \subseteq Tags
    /\ hopsLeft \in 0..MaxHops
=============================================================================
