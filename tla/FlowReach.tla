----------------------------- MODULE FlowReach -----------------------------
(* Flow tracing with direction confidence: the worklist of                  *)
(* TopologyReasoner._reach, behind downstream, upstream and their _detail   *)
(* forms. A tag is verified when some fully verified path reaches it, and   *)
(* guessed when every path crosses an unverified edge.                      *)
(*                                                                          *)
(* The frontier list is a set here and is popped in any order: the answer   *)
(* does not depend on the order, and a tag pushed twice is looked at again  *)
(* with the same status, to no effect.                                      *)
EXTENDS FlowGraph, FiniteSets

VARIABLES phase,     \* "build", then "trace" once a question is asked
          root,      \* the tag asked about
          forward,   \* downstream or upstream?
          status,    \* tag -> "absent", "guessed" (False) or "verified" (True)
          frontier   \* tags whose neighbours are still to be looked at

traceVars == <<phase, root, forward, status, frontier>>
reachVars == <<graphVars, traceVars>>

Confidence == {"absent", "guessed", "verified"}

TraceTypeOK ==
    /\ GraphTypeOK
    /\ phase \in {"build", "trace"}
    /\ root \in Tags
    /\ forward \in {"downstream", "upstream"}
    /\ status \in [Tags -> Confidence]
    /\ frontier \subseteq Tags

TraceInit ==
    /\ GraphInit
    /\ phase = "build"
    /\ root \in Tags
    /\ forward \in {"downstream", "upstream"}
    /\ status = [t \in Tags |-> "absent"]
    /\ frontier = {}

\* A pair of the graph, read along or against the flow.
Hop(a, b) == IF forward = "downstream" THEN <<a, b>> ELSE <<b, a>>

Build ==
    /\ phase = "build"
    /\ \E e \in Edges : AddEdge(e)
    /\ UNCHANGED traceVars

Ask ==
    /\ phase = "build"
    /\ phase' = "trace"
    /\ status' = [status EXCEPT ![root] = "verified"]
    /\ frontier' = {root}
    /\ UNCHANGED <<graphVars, root, forward>>

\* A fully verified way to b leads over a.
Carries(a, b) == status[a] = "verified" /\ Hop(a, b) \in verified

\* Mutants of Improved: no upgrade; verified neighbours over and over.
ImprovedOnce(a) ==
    {b \in Tags : Hop(a, b) \in conn /\ b # root /\ status[b] = "absent"}
ImprovedAgain(a) ==
    {b \in Tags : /\ Hop(a, b) \in conn
                  /\ b # root
                  /\ status[b] = "absent" \/ Carries(a, b)}

\* The neighbours whose status a visit to a sets: seen for the first time, or
\* upgraded from guessed to verified.
Improved(a) ==
    {b \in Tags : /\ Hop(a, b) \in conn
                  /\ b # root
                  /\ status[b] # "verified"
                  /\ status[b] = "absent" \/ Carries(a, b)}

Visit(a) ==
    /\ phase = "trace"
    /\ a \in frontier
    /\ status' = [b \in Tags |->
                    IF b \in Improved(a)
                    THEN IF Carries(a, b) THEN "verified" ELSE "guessed"
                    ELSE status[b]]
    /\ frontier' = (frontier \ {a}) \cup Improved(a)
    /\ UNCHANGED <<graphVars, phase, root, forward>>

TraceNext == Build \/ Ask \/ \E a \in Tags : Visit(a)

TraceSpec == TraceInit /\ [][TraceNext]_reachVars

----------------------------------------------------------------------------
Answered == phase = "trace" /\ frontier = {}

Reached    == {t \in Tags : status[t] # "absent"}
Trustworthy == {t \in Tags : status[t] = "verified"}

\* S contains whatever flows in one hop of R from a member of S.
Closed(S, R) == \A a \in S, b \in Tags : Hop(a, b) \in R => b \in S

\* T is the set of tags that paths of R lead to from the root: the least
\* closed set with the root in it.
IsReachOf(T, R) ==
    /\ root \in T
    /\ Closed(T, R)
    /\ \A S \in SUBSET Tags : root \in S /\ Closed(S, R) => T \subseteq S

\* A tag comes back True exactly when a fully verified path reaches it
\* (docstring of _reach), in whatever order the worklist was worked.
VerifiedIsExact == Answered => IsReachOf(Trustworthy, verified)

\* A tag comes back at all exactly when some path reaches it, so False means
\* that every path to it crosses an unverified edge.
ReachedIsExact == Answered => IsReachOf(Reached, conn)

\* A finished trace is exact in both respects, on cyclic graphs and in every
\* order of the worklist (_reach).
ReachIsExact == VerifiedIsExact /\ ReachedIsExact

\* A bound on the visits still to be made: a tag is pushed again only when its
\* status has improved, which it does at most twice.
Effort == 4 * Cardinality({t \in Tags : status[t] = "absent"})
          + 2 * Cardinality({t \in Tags : status[t] = "guessed"})
          + Cardinality(frontier)

\* Every visit lowers the bound: the trace ends on cyclic graphs too, in
\* whatever order the worklist is worked.
TraceEnds == [][phase = "trace" => Effort' < Effort]_reachVars
=============================================================================
