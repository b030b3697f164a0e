-------------------------- MODULE TranslatorBench ---------------------------
(* The third benchmark of the LLM Lab (hazop/s5_sw/llm_lab.py): a translator *)
(* is asked every question of a suite built from tags of the graph, and what *)
(* it makes of it is grounded and compared with the expected intent, in kind,*)
(* field by field, and by the items both answers show.                      *)
EXTENDS GraphQuery

VARIABLES suite,   \* the expected intents
          marks    \* for each question so far, what was counted

benchVars == <<suite, marks>>

FirstTags(type) == SetToSortSeq({t \in Known : bound.type[t] = type}, <)

\* question_suite: what the grammar reads its half of the questions as, and the
\* intents written by hand for the paraphrases.
QuestionSuite ==
    LET k1 == Head(FirstTags("compressor"))
        v1 == Head(FirstTags("vessel"))
        v2 == Last(FirstTags("vessel"))
        about(kind, tag)      == Intent(kind, tag, NoTag, NoTag, NoType)
        only(kind, tag, type) == Intent(kind, tag, NoTag, NoTag, type)
        route == Intent("path", NoTag, k1, v1, NoType)
    IN  << about("downstream", k1), only("downstream", k1, "vessel"),
           about("upstream", v1), about("upstream", v1), about("neighbours", v1), route,
           only("list", NoTag, "relief_valve"), only("list", NoTag, "compressor"),
           only("list", NoTag, "check_valve"), about("count", NoTag),
           only("count", NoTag, "vessel"), about("relief", v1), about("relief", v2),
           about("info", k1), about("downstream", v2),
           about("downstream", k1), about("downstream", k1), about("upstream", v1),
           about("neighbours", v1), route, only("list", NoTag, "relief_valve"),
           only("list", NoTag, "relief_valve"), about("count", NoTag),
           about("relief", v1), about("relief", v2), about("info", k1),
           about("info", v2), only("downstream", k1, "vessel"),
           only("list", NoTag, "check_valve"), about("neighbours", v2) >>

\* A LabError without either type.
BenchInit ==
    /\ FirstTags("compressor") # <<>> /\ FirstTags("vessel") # <<>>
    /\ suite = QuestionSuite
    /\ marks = <<>>

----------------------------------------------------------------------------
\* The items a result shows (QueryResult.nodes), which is less than its rows say.
On(a, b, cutoff) == SimplePaths(OpenIn(bound), a, b, cutoff)

Shows(i) ==
    CASE i.kind \in {"downstream", "upstream"} ->
             {i.tag} \cup DOMAIN Detail(i.tag, i.kind = "downstream")
      [] i.kind = "neighbours" -> {i.tag} \cup {r.tag : r \in NeighbourRows(i)}
      [] i.kind = "path" ->
             LET paths == On(i.source, i.target, QueryHops + 2)
                 kept  == CHOOSE k \in SUBSET paths : Shortest(paths, k)
             IN  {i.source, i.target} \cup UNION {ToSet(p) : p \in kept}
      [] i.kind = "list" -> {t \in Known : bound.type[t] = i.type}
      [] i.kind = "count" -> {}
      [] i.kind = "relief" ->
             LET valves  == {x \in DOMAIN Detail(i.tag, TRUE) :
                                bound.type[x] = "relief_valve"}
                 near(x) == LET paths == On(i.tag, x, QueryHops)
                            IN  IF paths = {} THEN {}
                                ELSE ToSet(CHOOSE p \in paths :
                                        \A q \in paths : Len(p) <= Len(q))
             IN  {i.tag} \cup UNION {near(x) : x \in valves}
      [] i.kind = "info" -> {i.tag} \cup {FarEnd(e, i.tag) : e \in EdgesAt(i.tag)}

Expected == suite[Len(marks) + 1]

\* The model gives no intent, or a field of its intent holds no tag.
NoIntentGiven(closed) ==
    /\ Len(marks) < Len(suite)
    /\ marks' = Append(marks, [got |-> NoIntent, closed |-> closed, kind |-> FALSE,
                               intent |-> FALSE, result |-> FALSE])
    /\ UNCHANGED suite

Mark(got) ==
    /\ Len(marks) < Len(suite)
    /\ marks' = Append(marks,
          [got |-> got, closed |-> FALSE,
           kind   |-> got.kind = Expected.kind,
           intent |-> got = Expected,
           result |-> /\ Runnable(Expected) /\ Runnable(got)
                      /\ got.kind = Expected.kind
                      /\ Shows(got) = Shows(Expected)])
    /\ UNCHANGED suite

\* run_graph_accuracy
BenchNext ==
    \/ NoIntentGiven(FALSE)
    \/ \E p \in Payloads :
          /\ p.kind \in Kinds
          /\ \/ ~Groundable(p) /\ NoIntentGiven(TRUE)
             \/ Groundable(p) /\ Mark(Grounded(p))

----------------------------------------------------------------------------
\* Two intents counted as a result match have the same answer (docstring of
\* run_graph_accuracy: "same node set = same answer").
SameNodesSameAnswer ==
    \A n \in DOMAIN marks :
        marks[n].result => Answers(marks[n].got) = Answers(suite[n])
=============================================================================
