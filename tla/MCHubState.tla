----------------------------- MODULE MCHubState ----------------------------
(* What requests are answered from, one thing per behaviour: the lab YAML   *)
(* and its cache, the requirements matrix, the suggestion log, the flow     *)
(* graph a trace is asked of, and the validator's working directory and run *)
(* directories, with its uploads served one by one.                         *)
EXTENDS ConfigCache, RtmStore, DimUpload, SuggestionLog, FlowReach, TLC

CONSTANTS t1, t2, g1, g2, w1, w2, w3, u1, u2, u3, f1, f2, f3, f4
VARIABLE serving

MCThreads  == {t1, t2}

\* Four tags: enough for a guess to be upgraded after it was handed on. A trace
\* is asked of f1, as well as of any of them.
MCTags     == {f1, f2, f3, f4}
MCSymmetry == Permutations(MCTags \ {f1})

\* GETs of the log do not meet: one is enough.
MCReaders == {g1}

\* Two requirements in the two ends of a file of three blocks; three updates,
\* two of them of the same requirement, and two readers.
MCOriginal == [fr |-> "todo", mdl |-> "todo"]
MCBlockOf  == [fr |-> 1, mdl |-> 3]
MCClients  == {g1, g2, w1, w2, w3}
MCWanted   == [c \in MCClients |->
                 CASE c = w1 -> <<"fr", "partial">>
                   [] c = w2 -> <<"mdl", "done">>
                   [] c = w3 -> <<"fr", "done">>
                   [] OTHER  -> None]

\* Three uploads, of drawings with different names.
MCUploads == {u1, u2, u3}
MCNames   == [u \in MCUploads |-> u]

HubInit ==
    /\ serving \in {"lab config", "matrix", "suggestions", "drawings", "trace"}
    /\ Init /\ (serving # "lab config" => sound = {0})
    /\ RtmInit /\ DimInit
    /\ LogInit /\ (serving # "suggestions" => log = <<>>)
    /\ TraceInit /\ root = f1 /\ (serving # "trace" => forward = "downstream")

HubNext ==
    /\ UNCHANGED serving
    /\ \/ serving = "lab config" /\ Next /\ UNCHANGED <<rtmVars, dimVars, logVars, reachVars>>
       \/ serving = "matrix" /\ RtmNext /\ UNCHANGED <<vars, dimVars, logVars, reachVars>>
       \/ serving = "suggestions" /\ LogNext /\ UNCHANGED <<vars, rtmVars, dimVars, reachVars>>
       \/ serving = "drawings" /\ DimNext /\ UNCHANGED <<vars, rtmVars, logVars, reachVars>>
       \/ serving = "trace" /\ TraceNext /\ UNCHANGED <<vars, rtmVars, dimVars, logVars>>

HubSpec == HubInit /\ [][HubNext]_<<serving, vars, rtmVars, dimVars, logVars, reachVars>>

=============================================================================
