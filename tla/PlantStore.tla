----------------------------- MODULE PlantStore -----------------------------
(* The plant graph in Neo4j (hazop/s2_pml/neo4j_store.py): load pushes it in *)
(* batches of idempotent MERGEs, one transaction per session.run, and the   *)
(* script of to_cypher holds the same statements one row at a time. The      *)
(* server may refuse any of them; what ran before stays.                     *)
(*                                                                           *)
(* A graph is [type : tag -> type, edges : set of edges]; an equipment type  *)
(* stands for its label. Properties but the type are left out, and so is the *)
(* order of the rows of one label or relationship type.                      *)
EXTENDS Integers, Sequences, FiniteSets, SequencesExt

CONSTANTS Graphs,      \* versions of the plant graph
          LabelOrder,  \* the equipment types, in the order of their labels
          BatchSize,   \* rows of one session.run
          MaxLoads     \* bound: loads begun

\* The labels are those of the items, and what is connected are items.
Loadable(g) ==
    /\ \A t \in DOMAIN g.type : g.type[t] \in ToSet(LabelOrder)
    /\ \A e \in g.edges : {e.src, e.dst} \subseteq DOMAIN g.type /\ e.known \in BOOLEAN

ASSUME StoreAssumption ==
    /\ LabelOrder \in Seq(ToSet(LabelOrder))
    /\ \A g \in Graphs : Loadable(g)

VARIABLES labels,    \* labels of each item in the database, by tag
          itemType,  \* its equipment_type property
          rels,      \* relationships: [src, dst, rtype]
          loading,   \* the graph being loaded, or NoGraph
          group,     \* how far the load is: 0, then label by label and rtype by rtype
          unsent,    \* rows of that group still to be sent
          begun,     \* the graphs loads were begun for, in order
          returned   \* the graphs whose load returned its counts

storeVars == <<labels, itemType, rels, loading, group, unsent, begun, returned>>

NoGraph == [type |-> <<>>, edges |-> {}]

Items == DOMAIN labels

RelTypes == <<"CONNECTED_TO", "FLOWS_TO">>

\* _rel
RelOf(e) == [src |-> e.src, dst |-> e.dst,
             rtype |-> IF e.known THEN "FLOWS_TO" ELSE "CONNECTED_TO"]

\* nodes_by_label and rels_by_type
Labelled(g, label) == {t \in DOMAIN g.type : g.type[t] = label}
Related(g, rtype)  == {r \in {RelOf(e) : e \in g.edges} : r.rtype = rtype}

Labels     == DOMAIN LabelOrder
GroupCount == Len(LabelOrder) + 2

\* What the k-th group of statements sends.
RowsOf(g, k) ==
    IF k \in Labels THEN Labelled(g, LabelOrder[k])
    ELSE Related(g, RelTypes[k - Len(LabelOrder)])

StoreInit ==
    /\ labels = <<>> /\ itemType = <<>> /\ rels = {}
    /\ loading = NoGraph /\ group = 0 /\ unsent = {}
    /\ begun = <<>> /\ returned = {}

BeginLoad(g) ==
    /\ loading = NoGraph
    /\ Len(begun) < MaxLoads
    /\ loading' = g /\ group' = 0 /\ unsent' = {}
    /\ begun' = Append(begun, g)
    /\ UNCHANGED <<labels, itemType, rels, returned>>

\* The constraint is the first statement; it and what comes after a group lead on
\* to the next group.
NextGroup ==
    /\ loading # NoGraph /\ unsent = {} /\ group < GroupCount
    /\ group' = group + 1
    /\ unsent' = RowsOf(loading, group + 1)
    /\ UNCHANGED <<labels, itemType, rels, loading, begun, returned>>

\* _chunks: all batches are full but the last.
Batches == {S \in SUBSET unsent : Cardinality(S) = Min({BatchSize, Cardinality(unsent)})}

\* MERGE (n {tag}) SET n:label, n += row: labels add up, properties are set.
MergeNodes(rows, label) ==
    /\ labels' = [t \in Items \cup rows |->
                    (IF t \in Items THEN labels[t] ELSE {})
                    \cup (IF t \in rows THEN {label} ELSE {})]
    /\ itemType' = [t \in Items \cup rows |-> IF t \in rows THEN label ELSE itemType[t]]
    /\ UNCHANGED rels

\* MATCH (a), (b) MERGE (a)-[r]->(b): a row without both ends does nothing.
MergeRels(rows) ==
    /\ rels' = rels \cup {r \in rows : {r.src, r.dst} \subseteq Items}
    /\ UNCHANGED <<labels, itemType>>

\* Mutant of RunStatement: the first batch of a group is its only one.
RunOnlyStatement ==
    /\ loading # NoGraph /\ unsent # {}
    /\ \E batch \in Batches :
          /\ unsent' = {}
          /\ \/ group \in Labels /\ MergeNodes(batch, LabelOrder[group])
             \/ group \notin Labels /\ MergeRels(batch)
    /\ UNCHANGED <<loading, group, begun, returned>>

RunStatement ==
    /\ loading # NoGraph /\ unsent # {}
    /\ \E batch \in Batches :
          /\ unsent' = unsent \ batch
          /\ \/ group \in Labels /\ MergeNodes(batch, LabelOrder[group])
             \/ group \notin Labels /\ MergeRels(batch)
    /\ UNCHANGED <<loading, group, begun, returned>>

\* session.run raises: load passes it on, and the driver is closed.
StatementFails ==
    /\ loading # NoGraph /\ (group = 0 \/ unsent # {})
    /\ loading' = NoGraph /\ unsent' = {}
    /\ UNCHANGED <<labels, itemType, rels, group, begun, returned>>

LoadReturns ==
    /\ loading # NoGraph /\ group = GroupCount /\ unsent = {}
    /\ returned' = returned \cup {loading}
    /\ loading' = NoGraph
    /\ UNCHANGED <<labels, itemType, rels, group, unsent, begun>>

StoreNext ==
    \/ \E g \in Graphs : BeginLoad(g)
    \/ NextGroup \/ RunStatement \/ StatementFails \/ LoadReturns

----------------------------------------------------------------------------
\* A load that returned has put every item and every connection of its graph
\* into the database, past any failed load before it or after it, and the
\* database holds nothing that no load was begun for: loaded once or many
\* times, broken off or not, one graph is one graph ("Safe to run
\* repeatedly", to_cypher).
StoreHoldsWhatWasLoaded ==
    LET tried == ToSet(begun) IN
    /\ \A g \in returned :
          /\ \A t \in DOMAIN g.type : t \in Items /\ g.type[t] \in labels[t]
          /\ \A e \in g.edges : RelOf(e) \in rels
    /\ \A t \in Items :
          /\ labels[t] \subseteq {g.type[t] : g \in {h \in tried : t \in DOMAIN h.type}}
          /\ itemType[t] \in labels[t]
    /\ \A r \in rels :
          \E g \in tried : \E e \in g.edges :
              /\ e.src = r.src /\ e.dst = r.dst
              /\ r.rtype = "FLOWS_TO" <=> e.known
=============================================================================
