------------------------------ MODULE LabelMap -----------------------------
(* The verdicts of the people who review a drawing: the script of the       *)
(* viewer (hazop/s1_dim/build_viewer.py) keeps a map of labels, loads it    *)
(* once with GET /labels/<slug>, and 400 ms after the last change POSTs the *)
(* whole map, which the server writes over labels.json (s1_dim/app.py).     *)
(* Saves are not waited for: two can be under way at once.                  *)
EXTENDS Naturals, FiniteSets

CONSTANTS Tabs,      \* viewers open on the run
          Items,     \* drawn nodes and edges a verdict can be given on
          Faults,    \* "get": a GET fails
          MaxPosts,  \* saves of a tab under way at once
          MaxEdits,  \* bound: changes made by people
          MaxLoads   \* bound: times a page is loaded

VARIABLES disk,    \* labels.json, a set of labels
          half,    \* is it being written?
          labels,  \* the map of each tab
          seq,     \* missSeq
          stage,   \* "closed" or "open"; whether a save is due
          posts,   \* maps under way to the server
          agreed,  \* labels the page has called saved and nobody has removed
          edits, loads

vars == <<disk, half, labels, seq, stage, posts, agreed, edits, loads>>

\* A label: its key in the map and what it says, here when it was put (ts). A
\* marker of something missing has a number for a key.
Keys   == Items \cup 1..(MaxEdits + MaxLoads)
Labels == [key : Keys, at : 1..MaxEdits]
IsMarker(l) == l.key \notin Items

Init ==
    /\ disk = {} /\ half = FALSE
    /\ labels = [t \in Tabs |-> {}]
    /\ seq = [t \in Tabs |-> 0]
    /\ stage = [t \in Tabs |-> "closed"]
    /\ posts = [t \in Tabs |-> {}]
    /\ agreed = {}
    /\ edits = 0 /\ loads = 0

\* loadLabels: what cannot be fetched or parsed is an empty map. The next
\* number is one past the count of the markers.
Load(t) ==
    /\ loads < MaxLoads
    /\ posts[t] = {} /\ stage[t] # "due"
    /\ \E got \in {IF half THEN {} ELSE disk} \cup (IF "get" \in Faults THEN {{}} ELSE {}) :
          /\ labels' = [labels EXCEPT ![t] = got]
          /\ seq' = [seq EXCEPT ![t] = Cardinality({l \in got : IsMarker(l)}) + 1]
    /\ stage' = [stage EXCEPT ![t] = "open"]
    /\ loads' = loads + 1
    /\ UNCHANGED <<disk, half, posts, agreed, edits>>

Change(t, m) ==
    /\ stage[t] \in {"open", "due"}
    /\ edits < MaxEdits
    /\ edits' = edits + 1
    /\ labels' = [labels EXCEPT ![t] = m]
    /\ stage' = [stage EXCEPT ![t] = "due"]
    /\ UNCHANGED <<disk, half, posts, loads>>

Put(t, key) ==
    /\ Change(t, {l \in labels[t] : l.key # key} \cup {[key |-> key, at |-> edits + 1]})
    /\ agreed' = IF key \in Items THEN {l \in agreed : l.key # key} ELSE agreed

\* A verdict replaces the one before; a click in missing mode puts a marker.
Verdict(t) == \E i \in Items : Put(t, i) /\ UNCHANGED seq
Mark(t) == Put(t, seq[t]) /\ seq' = [seq EXCEPT ![t] = @ + 1]

\* verdict(null), or a click on a marker.
Remove(t) ==
    /\ \E l \in labels[t] : Change(t, labels[t] \ {l}) /\ agreed' = agreed \ {l}
    /\ UNCHANGED seq

\* The timer of saveLabels: the whole map, as it is now.
Save(t) ==
    /\ stage[t] = "due"
    /\ Cardinality(posts[t]) < MaxPosts
    /\ stage' = [stage EXCEPT ![t] = "open"]
    /\ posts' = [posts EXCEPT ![t] = @ \cup {labels[t]}]
    /\ UNCHANGED <<disk, half, labels, seq, agreed, edits, loads>>

\* post_labels: open(..., "w") empties the file, the dump fills it; then the
\* page says "saved to server".
Truncate(t) ==
    /\ posts[t] # {} /\ ~half
    /\ half' = TRUE
    /\ UNCHANGED <<disk, labels, seq, stage, posts, agreed, edits, loads>>

Dump(t) ==
    /\ half /\ half' = FALSE
    /\ \E m \in posts[t] :
          /\ disk' = m
          /\ posts' = [posts EXCEPT ![t] = @ \ {m}]
          /\ agreed' = agreed \cup (m \cap labels[t])
    /\ UNCHANGED <<labels, seq, stage, edits, loads>>

Next ==
    \E t \in Tabs : Load(t) \/ Verdict(t) \/ Mark(t) \/ Remove(t)
                    \/ Save(t) \/ Truncate(t) \/ Dump(t)

Spec == Init /\ [][Next]_vars

----------------------------------------------------------------------------
\* At rest, labels.json holds every label a page has called saved and nobody
\* has removed or replaced with another verdict on the same item (module
\* docstring of build_viewer.py: "label persistence").
SavedLabelsStand ==
    (\A t \in Tabs : posts[t] = {} /\ stage[t] # "due") /\ ~half => agreed \subseteq disk
=============================================================================
