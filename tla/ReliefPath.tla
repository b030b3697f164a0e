---------------------------- MODULE ReliefPath -----------------------------
(* Overpressure protection: TopologyReasoner.has_relief_path searches for a *)
(* relief valve strictly downstream of a tag that no closable valve, pump   *)
(* or compressor can cut off (hazop/s3_are/reasoner/topology.py), and       *)
(* _topology_safeguards credits it at 0.99, or at 0.60 when the path is     *)
(* only drawn (core.py).                                                    *)
(*                                                                          *)
(* The frontier list is a set: a tag popped a second time is skipped by the *)
(* seen check, and the verdict does not depend on the order.                *)
EXTENDS FlowGraph

VARIABLES phase,         \* "build", "search" or "answered"
          kind,          \* what stands behind each tag
          root,          \* the tag asked about
          verifiedOnly,  \* does the search keep to verified directions?
          seen,
          frontier,
          credited       \* the value returned

searchVars == <<phase, kind, root, verifiedOnly, seen, frontier, credited>>
vars == <<graphVars, searchVars>>

\* "none": no equipment node has the tag (a dangling edge); "blocking": PUMP,
\* COMPRESSOR, VALVE or CONTROL_VALVE; "passing": every other type.
Kinds == {"none", "relief", "blocking", "passing"}

TypeOK ==
    /\ GraphTypeOK
    /\ phase \in {"build", "search", "answered"}
    /\ kind \in [Tags -> Kinds]
    /\ root \in Tags
    /\ verifiedOnly \in BOOLEAN
    /\ seen \subseteq Tags
    /\ frontier \subseteq Tags
    /\ credited \in BOOLEAN

Init ==
    /\ GraphInit
    /\ phase = "build"
    /\ kind \in [Tags -> Kinds]
    /\ root \in Tags
    /\ verifiedOnly \in BOOLEAN
    /\ seen = {}
    /\ frontier = {}
    /\ credited = FALSE

Build ==
    /\ phase = "build"
    /\ \E e \in Edges : AddEdge(e)
    /\ UNCHANGED searchVars

\* The pairs the search may cross.
Open == IF verifiedOnly THEN verified ELSE conn

Onward(t) == {n \in Tags : <<t, n>> \in Open}

Ask ==
    /\ phase = "build"
    /\ phase' = "search"
    /\ seen' = {root}
    /\ frontier' = Onward(root)
    /\ UNCHANGED <<graphVars, kind, root, verifiedOnly, credited>>

Skip(t) ==
    /\ phase = "search"
    /\ t \in frontier \cap seen
    /\ frontier' = frontier \ {t}
    /\ UNCHANGED <<graphVars, phase, kind, root, verifiedOnly, seen, credited>>

\* Mutant of Look: the search goes on through closable items.
LookThrough(t) ==
    /\ phase = "search"
    /\ t \in frontier \ seen
    /\ seen' = seen \cup {t}
    /\ IF kind[t] = "relief"
       THEN /\ phase' = "answered"
            /\ credited' = TRUE
            /\ frontier' = frontier \ {t}
       ELSE /\ frontier' = (frontier \ {t}) \cup Onward(t)
            /\ UNCHANGED <<phase, credited>>
    /\ UNCHANGED <<graphVars, kind, root, verifiedOnly>>

\* A tag not seen before: a relief valve ends the search, a blocking or
\* unknown item ends the path, anything else lets it go on.
Look(t) ==
    /\ phase = "search"
    /\ t \in frontier \ seen
    /\ seen' = seen \cup {t}
    /\ IF kind[t] = "relief"
       THEN /\ phase' = "answered"
            /\ credited' = TRUE
            /\ frontier' = frontier \ {t}
       ELSE /\ frontier' = (frontier \ {t})
                           \cup (IF kind[t] = "passing" THEN Onward(t) ELSE {})
            /\ UNCHANGED <<phase, credited>>
    /\ UNCHANGED <<graphVars, kind, root, verifiedOnly>>

Exhausted ==
    /\ phase = "search"
    /\ frontier = {}
    /\ phase' = "answered"
    /\ UNCHANGED <<graphVars, kind, root, verifiedOnly, seen, frontier, credited>>

Next == Build \/ Ask \/ (\E t \in Tags : Skip(t) \/ Look(t)) \/ Exhausted

Spec == Init /\ [][Next]_vars

----------------------------------------------------------------------------
\* Relief flow leaves the tag asked about, and passes through passing items.
Passes(t) == t = root \/ kind[t] = "passing"

\* S contains every tag relief flow gets to from a member of S over R.
Sealed(S, R) ==
    \A a \in S, b \in Tags : Passes(a) /\ <<a, b>> \in R => b \in S

\* Relief flow gets from the root to a relief valve other than the root: no
\* sealed set with the root in it is without one.
Relieved(R) ==
    \A S \in SUBSET Tags :
        root \in S /\ Sealed(S, R) => \E v \in S \ {root} : kind[v] = "relief"

\* The answer is True exactly when an unblockable path leads to a relief valve
\* (docstring of has_relief_path: not through closable valves, pumps or
\* compressors, and the node itself excluded), on cyclic graphs too.
CreditIsExact == phase = "answered" => (credited <=> Relieved(Open))
=============================================================================
