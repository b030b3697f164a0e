------------------------- MODULE TopologySafeguards ------------------------
(* The safeguards AIReasoner._topology_safeguards derives from the drawing  *)
(* for one row (hazop/s3_are/reasoner/core.py): a relief path for more      *)
(* pressure, check valves for reverse flow. What rests on verified          *)
(* directions alone is claimed at 0.99, what is merely drawn at 0.60.       *)
(* Confidences are percentages.                                             *)
EXTENDS FlowGraph, SequencesExt

CONSTANTS Cutoff,   \* flow_paths: longest path in edges (12 in the code)
          Nodes     \* the equipment tag lists of the study nodes considered

\* A tag the topology does not have is one without an edge.
ASSUME RowAssumption == Cutoff \in Nat /\ Nodes \subseteq Seq(Tags)

VARIABLES row,      \* "off", "build", "pressure" or "reverse flow"
          node,     \* equipment_tags of the study node
          type,     \* equipment type of each tag
          findings  \* <<tag, confidence>> of each finding, in order

rowVars == <<row, node, type, findings>>

RowInit ==
    /\ GraphInit
    /\ row = "build" /\ node = <<>> /\ type = [t \in Tags |-> "other"] /\ findings = <<>>

RowBuild ==
    /\ row = "build"
    /\ \E e \in Edges : AddEdge(e)
    /\ UNCHANGED rowVars

----------------------------------------------------------------------------
\* has_relief_path, by what ReliefPath!CreditIsExact says of it: every set of
\* tags that relief flow from t over R cannot leave holds a relief valve.
HasReliefPath(t, ty, R) ==
    \A S \in SUBSET Tags :
        /\ t \in S
        /\ \A a \in S, b \in Tags :
               (a = t \/ ty[a] = "other") /\ <<a, b>> \in R => b \in S
        => \E v \in S \ {t} : ty[v] = "relief_valve"

\* nx.all_simple_paths(a, b, cutoff) for a # b: no tag twice, Cutoff edges at most.
FlowPaths(a, b, R) ==
    {p \in UNION {[1..n -> Tags] : n \in 2..(Cutoff + 1)} :
        /\ p[1] = a /\ p[Len(p)] = b /\ IsInjective(p)
        /\ \A i \in 1..(Len(p) - 1) : <<p[i], p[i + 1]>> \in R}

\* Mutant of Crossable: a merely drawn pair counts as verified.
CrossableAll(verifiedOnly) == conn

Crossable(verifiedOnly) == IF verifiedOnly THEN verified ELSE conn

CheckValvesBetween(a, b, ty, verifiedOnly) ==
    {t \in Tags : /\ ty[t] = "check_valve"
                  /\ \E p \in FlowPaths(a, b, Crossable(verifiedOnly)) : t \in Range(p)}

\* The first tag of the node with a verified relief path; failing all, the
\* first with a drawn one (for ... break ... else).
ReliefFinding(n, ty) ==
    LET WithRelief(verifiedOnly) ==
            {i \in DOMAIN n : HasReliefPath(n[i], ty, Crossable(verifiedOnly))}
    IN  CASE WithRelief(TRUE) # {} -> <<<<n[Min(WithRelief(TRUE))], 99>>>>
          [] WithRelief(TRUE) = {} /\ WithRelief(FALSE) # {} ->
                 <<<<n[Min(WithRelief(FALSE))], 60>>>>
          [] OTHER -> <<>>

\* Every pair of the node's tags both ways round, verified paths first; a valve
\* found once is not listed again.
CheckValves(n, ty, verifiedOnly) ==
    UNION {CheckValvesBetween(q[1], q[2], ty, verifiedOnly) :
              q \in {ab \in Range(n) \X Range(n) : ab[1] # ab[2]}}

CheckValveFindings(n, ty) ==
    LET sure  == CheckValves(n, ty, TRUE)
        drawnOnly == CheckValves(n, ty, FALSE) \ sure
    IN  SetToSeq({<<v, 99>> : v \in sure}) \o SetToSeq({<<v, 60>> : v \in drawnOnly})

MorePressure(n, ty) ==
    /\ row = "build" /\ row' = "pressure"
    /\ node' = n /\ type' = ty
    /\ findings' = ReliefFinding(n, ty)
    /\ UNCHANGED graphVars

ReverseFlow(n, ty) ==
    /\ row = "build" /\ row' = "reverse flow"
    /\ node' = n /\ type' = ty
    /\ findings' = CheckValveFindings(n, ty)
    /\ UNCHANGED graphVars

\* Only the types a row asks for are told apart: "blocking" is anything
\* closable, a pump or a compressor.
RowNext ==
    \/ RowBuild
    \/ \E n \in Nodes, ty \in [Tags -> {"relief_valve", "blocking", "other"}] : MorePressure(n, ty)
    \/ \E n \in Nodes, ty \in [Tags -> {"check_valve", "other"}] : ReverseFlow(n, ty)

RowSpec == RowInit /\ [][RowNext]_<<graphVars, rowVars>>

----------------------------------------------------------------------------
\* The plants a drawing leaves open: every edge drawn without a direction flows
\* one way or the other, and pairs drawn more than once keep what is verified.
Plants ==
    {verified \cup {IF d[i] THEN <<drawn[i].src, drawn[i].dst>>
                            ELSE <<drawn[i].dst, drawn[i].src>> : i \in DOMAIN d} :
        d \in [{i \in DOMAIN drawn : ~drawn[i].known} -> BOOLEAN]}

\* The safeguard named by f is there when R is how the plant flows.
Present(f, R) ==
    IF row = "pressure" THEN HasReliefPath(f[1], type, R)
    ELSE \E a, b \in Range(node) : \E p \in FlowPaths(a, b, R) : a # b /\ f[1] \in Range(p)

\* What is claimed at 0.99 is there in every plant the drawing allows, and a
\* relief valve or check valve there in one of them is at least named for
\* confirmation (core.py:207: neither credited nor dropped). Nothing is
\* named twice, whatever the order of the node's tags.
SafeguardsAreEarned ==
    row \in {"pressure", "reverse flow"} =>
        /\ \A f \in Range(findings) :
              IF f[2] = 99 THEN \A R \in Plants : Present(f, R)
                           ELSE \E R \in Plants : Present(f, R)
        /\ \A i, j \in DOMAIN findings : i # j => findings[i][1] # findings[j][1]
        /\ \A t \in Range(node) \cup Tags : \A R \in Plants :
              LET named == IF row = "pressure" THEN t \in Range(node)
                                               ELSE type[t] = "check_valve"
              IN  named /\ Present(<<t, 0>>, R) =>
                    IF row = "pressure" THEN findings # <<>>
                    ELSE \E f \in Range(findings) : f[1] = t
=============================================================================
