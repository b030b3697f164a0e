------------------------- MODULE IsolationBoundary -------------------------
(* The section that can be isolated around an item:                         *)
(* TopologyReasoner.isolation_boundary walks from a tag up- and downstream  *)
(* to the nearest closable valves (hazop/s3_are/reasoner/topology.py). Both *)
(* walks are the same search over opposite directions; one question asks    *)
(* for one of them. As in ReliefPath the frontier list is a set.            *)
EXTENDS FlowGraph

VARIABLES walk,      \* "off", "build", "search" or "answered"
          closable,  \* tags of type VALVE or CONTROL_VALVE
          item,      \* the tag asked about
          upward,    \* is the walk upstream?
          walked,    \* the set seen
          ahead,     \* the frontier
          boundary   \* the list returned

walkVars == <<walk, closable, item, upward, walked, ahead, boundary>>
isolationVars == <<graphVars, walkVars>>

WalkInit ==
    /\ GraphInit
    /\ walk = "build"
    /\ closable \in SUBSET Tags
    /\ item \in Tags
    /\ upward \in BOOLEAN
    /\ walked = {} /\ ahead = {} /\ boundary = {}

WalkBuild ==
    /\ walk = "build"
    /\ \E e \in Edges : AddEdge(e)
    /\ UNCHANGED walkVars

\* immediate_upstream and immediate_downstream: guesses count both ways.
Neighbours(t) == {n \in Tags : (IF upward THEN <<n, t>> ELSE <<t, n>>) \in conn}

\* The tag asked about is not put into the seen set.
WalkAsk ==
    /\ walk = "build"
    /\ walk' = "search"
    /\ ahead' = Neighbours(item)
    /\ UNCHANGED <<graphVars, closable, item, upward, walked, boundary>>

WalkSkip(t) ==
    /\ walk = "search"
    /\ t \in ahead \cap walked
    /\ ahead' = ahead \ {t}
    /\ UNCHANGED <<graphVars, walk, closable, item, upward, walked, boundary>>

\* Mutant of Stop: a valve is listed and walked through.
StopNot(t) ==
    /\ boundary' = boundary \cup {t}
    /\ ahead' = (ahead \ {t}) \cup Neighbours(t)

\* A closable valve ends the walk in its direction.
Stop(t) ==
    /\ boundary' = boundary \cup {t}
    /\ ahead' = ahead \ {t}

\* Anything else, check valves and tags without an item included, is part of
\* the section.
WalkOn(t) ==
    /\ ahead' = (ahead \ {t}) \cup Neighbours(t)
    /\ UNCHANGED boundary

WalkLook(t) ==
    /\ walk = "search"
    /\ t \in ahead \ walked
    /\ walked' = walked \cup {t}
    /\ IF t \in closable THEN Stop(t) ELSE WalkOn(t)
    /\ UNCHANGED <<graphVars, walk, closable, item, upward>>

WalkExhausted ==
    /\ walk = "search"
    /\ ahead = {}
    /\ walk' = "answered"
    /\ UNCHANGED <<graphVars, closable, item, upward, walked, ahead, boundary>>

WalkNext == WalkBuild \/ WalkAsk \/ (\E t \in Tags : WalkSkip(t) \/ WalkLook(t)) \/ WalkExhausted

WalkSpec == WalkInit /\ [][WalkNext]_isolationVars

----------------------------------------------------------------------------
\* S holds what the item lets flow past, with the valves in closed shut.
Encloses(S, closed) ==
    /\ Neighbours(item) \subseteq S
    /\ \A t \in S \ closed : Neighbours(t) \subseteq S

\* What the item is connected to in the direction asked with those shut.
Section(closed) == {t \in Tags : \A S \in SUBSET Tags : Encloses(S, closed) => t \in S}

\* The boundary isolates, and isolates tightly: with it shut nothing gets past
\* it (no other closable valve is in the section), and no valve of it could be
\* spared (each is reached with all the others shut, on loops through the item
\* and for an item that is a valve itself too).
BoundaryIsExact ==
    walk = "answered" =>
        /\ boundary \subseteq closable
        /\ Section(boundary) \cap closable = boundary
=============================================================================
