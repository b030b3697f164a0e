---------------------------- MODULE MCTopology -----------------------------
(* The questions the reasoner puts to one graph: each behaviour builds a    *)
(* topology and asks one of them of it.                                     *)
EXTENDS ReliefPath, IsolationBoundary, TopologySafeguards, TLC
CONSTANTS t1, t2, t3

MCTags == {t1, t2, t3}
MCNodes == {<<a>> : a \in MCTags} \cup {<<a, b>> : <<a, b>> \in {q \in MCTags \X MCTags : q[1] # q[2]}}
MCSymmetry == Permutations(MCTags)

NoRelief ==
    /\ phase = "off" /\ kind = [t \in Tags |-> "none"] /\ root = "off" /\ verifiedOnly = FALSE
    /\ seen = {} /\ frontier = {} /\ credited = FALSE
NoIsolation ==
    /\ walk = "off" /\ closable = {} /\ item = "off" /\ upward = FALSE
    /\ walked = {} /\ ahead = {} /\ boundary = {}
NoRow ==
    row = "off" /\ node = <<>> /\ type = [t \in Tags |-> "other"] /\ findings = <<>>

AskInit ==
    \/ Init /\ NoIsolation /\ NoRow
    \/ WalkInit /\ NoRelief /\ NoRow
    \/ RowInit /\ NoRelief /\ NoIsolation

AskNext ==
    \/ Next /\ UNCHANGED <<walkVars, rowVars>>
    \/ WalkNext /\ UNCHANGED <<searchVars, rowVars>>
    \/ RowNext /\ UNCHANGED <<searchVars, walkVars>>

AskSpec == AskInit /\ [][AskNext]_<<vars, walkVars, rowVars>>
=============================================================================
