----------------------------- MODULE GraphQuery -----------------------------
(* Questions to the plant graph (hazop/s2_pml/query.py): a rule grammar, or a *)
(* model behind the translator seam, turns a question into a typed intent    *)
(* whose tags are grounded in the graph; the intent is answered from the     *)
(* graph in memory, and comes with the Cypher that asks a loaded database    *)
(* the same, which the explorer can run.                                     *)
(*                                                                           *)
(* A question is the set of cues of the grammar its words hold, the          *)
(* equipment type they name, and its mentions: what a token with a digit     *)
(* names exactly, and the tags it is the end of.                             *)
EXTENDS PlantStore

CONSTANTS Questions,   \* [cues, type, mentions]
          Payloads,    \* what a model may fill an intent with
          Translator,  \* "none", "local" or "anthropic"
          QueryHops,     \* MAX_HOPS
          MaxPaths,    \* MAX_PATHS
          RowLimit     \* limit of run_cypher

\* Graphs are finite, and texts are sequences of mentions.
ASSUME QueryAssumption ==
    /\ QueryHops \in Nat /\ MaxPaths \in Nat /\ RowLimit \in Nat
    /\ \A g \in Graphs : IsFiniteSet(DOMAIN g.type)
    /\ \A q \in Questions : q.mentions \in Seq(ToSet(q.mentions))
    /\ \A p \in Payloads : \A text \in {p.tag, p.source, p.target} : text \in Seq(ToSet(text))

VARIABLES bound,     \* the graph the hub answers from
          asking,    \* "idle", "parse", "translate", "ground", "run", "answered",
                     \* "explored", "refused" (a QueryError) or "broken" (another exception)
          question,
          fields,    \* what the model filled in
          intent,
          answer,
          explored   \* rows of the Cypher run against the database

queryVars == <<bound, asking, question, fields, intent, answer, explored>>

NoTag == 0
NoType == "none"

Kinds == {"downstream", "upstream", "neighbours", "path", "list", "count",
          "relief", "info"}

Known == DOMAIN bound.type

Intent(kind, tag, source, target, type) ==
    [kind |-> kind, tag |-> tag, source |-> source, target |-> target, type |-> type]

NoIntent == Intent("none", NoTag, NoTag, NoTag, NoType)

----------------------------------------------------------------------------
(* Grounding.                                                                *)

\* Mutant of Resolve: of several tags with the end, one is taken.
ResolveAny(acc, mention) ==
    LET hits == IF mention.exact \in Known THEN {mention.exact}
                                           ELSE mention.ends \cap Known
    IN  IF acc.ambiguous \/ hits = {} THEN acc
        ELSE LET t == CHOOSE x \in hits : TRUE IN
             IF t \in ToSet(acc.tags) THEN acc
             ELSE [acc EXCEPT !.tags = Append(@, t)]

\* One token: an exact tag wins, else the only tag it is the end of; several
\* such tags end the search, none leaves the token out.
Resolve(acc, mention) ==
    LET hits == IF mention.exact \in Known THEN {mention.exact}
                                           ELSE mention.ends \cap Known
    IN  IF acc.ambiguous \/ hits = {} THEN acc
        ELSE IF Cardinality(hits) > 1 THEN [acc EXCEPT !.ambiguous = TRUE]
        ELSE LET t == CHOOSE x \in hits : TRUE IN
             IF t \in ToSet(acc.tags) THEN acc
             ELSE [acc EXCEPT !.tags = Append(@, t)]

\* find_tags; ambiguous where it raises.
FindTags(mentions) ==
    FoldLeft(Resolve, [ambiguous |-> FALSE, tags |-> <<>>], mentions)

\* parse_question: the first reading the cues give; need_tag raises where a
\* reading needs a tag and none was found.
Reading(q, tags) ==
    LET has(cue)  == cue \in q.cues
        tagged    == tags # <<>>
        needing(kind, type) ==
            IF tagged THEN Intent(kind, tags[1], NoTag, NoTag, type)
                      ELSE Intent("need tag", NoTag, NoTag, NoTag, NoType)
    IN  IF has("how many") THEN Intent("count", NoTag, NoTag, NoTag, q.type)
        ELSE IF Len(tags) >= 2 /\ has("route")
             THEN Intent("path", NoTag, tags[1], tags[2], NoType)
        ELSE IF has("downstream") THEN needing("downstream", q.type)
        ELSE IF has("upstream") THEN needing("upstream", q.type)
        ELSE IF has("protected") \/ (tagged /\ has("relief")) THEN needing("relief", NoType)
        ELSE IF has("connected") /\ (tagged \/ q.type = NoType)
             THEN needing("neighbours", q.type)
        ELSE IF q.type # NoType /\ (has("list") \/ ~tagged)
             THEN Intent("list", NoTag, NoTag, NoTag, q.type)
        ELSE IF tagged /\ has("about") THEN Intent("info", tags[1], NoTag, NoTag, NoType)
        ELSE NoIntent

----------------------------------------------------------------------------
(* The graph in memory: the reasoner's directed graph over it, and what      *)
(* FlowReach and ReliefPath show of its searches.                            *)

FlowsIn(g) == {<<e.src, e.dst>> : e \in {f \in g.edges : f.known}}
OpenIn(g) == FlowsIn(g) \cup UNION {{<<e.src, e.dst>>, <<e.dst, e.src>>} :
                                     e \in {f \in g.edges : ~f.known}}
Reversed(R) == {<<p[2], p[1]>> : p \in R}

Successors(R, t) == {p[2] : p \in {r \in R : r[1] = t}}

Beyond(R, S) == UNION {Successors(R, x) : x \in S}

\* What one to n hops over R lead to from t.
Within(R, t, n) ==
    LET after[i \in 0..n] ==
            IF i = 0 THEN {} ELSE LET so == after[i-1] IN Beyond(R, so \cup {t})
    IN  after[n]

\* _reach: all that flow gets to, and whether over verified hops alone.
Detail(t, forward) ==
    LET along(R) == IF forward THEN R ELSE Reversed(R)
        reach(R) == Within(along(R), t, Cardinality(Known)) \ {t}
    IN  [x \in reach(OpenIn(bound)) |-> x \in reach(FlowsIn(bound))]

\* One hop further, but not past b.
Longer(R, b, paths) ==
    UNION {{Append(p, x) : x \in Successors(R, Last(p)) \ ToSet(p)} :
           p \in {q \in paths : Last(q) # b}}

\* all_simple_paths with a cutoff.
SimplePaths(R, a, b, cutoff) ==
    LET long[n \in 0..cutoff] ==
            IF n = 0 THEN {<<a>>} ELSE LET so == long[n-1] IN Longer(R, b, so)
    IN  {p \in UNION {long[n] : n \in 1..cutoff} : Last(p) = b}

BlocksRelief == {"pump", "compressor", "valve", "control_valve"}

\* has_relief_path: a relief valve other than t, not behind a blocking item.
Relieved(R, t) ==
    LET through == {p \in R : p[1] = t \/ bound.type[p[1]]
                                            \notin BlocksRelief \cup {"relief_valve"}}
    IN  \E x \in Within(through, t, Cardinality(Known)) \ {t} :
            bound.type[x] = "relief_valve"

Fits(x, type) == type = NoType \/ bound.type[x] = type

\* Edges at a tag, as _run_neighbours and _run_info read them.
EdgesAt(t) == {e \in bound.edges : t \in {e.src, e.dst}}
FarEnd(e, t) == IF e.src = t THEN e.dst ELSE e.src

----------------------------------------------------------------------------
(* The runners. Sentences and payloads are left out; rows keep what the      *)
(* question is about.                                                        *)

\* Mutant of TraceRows: every item flow gets to counts as verified.
TraceRowsTrusting(i, forward) ==
    LET d == Detail(i.tag, forward)
    IN  {[tag |-> x, verified |-> TRUE] : x \in {y \in DOMAIN d : Fits(y, i.type)}}

TraceRows(i, forward) ==
    LET d == Detail(i.tag, forward)
    IN  {[tag |-> x, verified |-> d[x]] : x \in {y \in DOMAIN d : Fits(y, i.type)}}

NeighbourRows(i) ==
    {[tag |-> FarEnd(e, i.tag), rtype |-> RelOf(e).rtype, out |-> e.src = i.tag] :
        e \in {f \in EdgesAt(i.tag) : Fits(FarEnd(f, i.tag), i.type)}}

\* The paths shown: the shortest few of those within the cutoff.
Shortest(paths, kept) ==
    /\ kept \subseteq paths
    /\ Cardinality(kept) = Min({MaxPaths, Cardinality(paths)})
    /\ \A p \in kept, q \in paths \ kept : Len(p) <= Len(q)

\* The path of no hop between an item and itself, which some versions of networkx
\* count and others do not.
Standing(i) == IF i.source = i.target THEN {<<i.source>>} ELSE {}

PathRows(i, kept) ==
    LET verified == SimplePaths(FlowsIn(bound), i.source, i.target, QueryHops + 2)
    IN  {[path |-> p, verified |-> p \in verified \cup Standing(i)] : p \in kept}

ReliefVerdict(i) ==
    IF Relieved(FlowsIn(bound), i.tag) THEN "protected"
    ELSE IF Relieved(OpenIn(bound), i.tag) THEN "drawn"
    ELSE IF \E x \in DOMAIN Detail(i.tag, TRUE) : bound.type[x] = "relief_valve"
         THEN "not credited"
    ELSE "none downstream"

\* The answers a runner may give.
Answers(i) ==
    CASE i.kind = "downstream" -> {TraceRows(i, TRUE)}
      [] i.kind = "upstream" -> {TraceRows(i, FALSE)}
      [] i.kind = "neighbours" -> {NeighbourRows(i)}
      [] i.kind = "path" ->
             LET paths == SimplePaths(OpenIn(bound), i.source, i.target, QueryHops + 2)
             IN  {PathRows(i, kept) : kept \in {k \in SUBSET (paths \cup Standing(i)) :
                     Shortest(paths, k) \/ Shortest(paths \cup Standing(i), k)}}
      [] i.kind = "list" -> {{t \in Known : bound.type[t] = i.type}}
      [] i.kind = "count" -> {{t \in Known : Fits(t, i.type)}}
      [] i.kind = "relief" -> {{ReliefVerdict(i)}}
      [] i.kind = "info" -> {{FarEnd(e, i.tag) : e \in EdgesAt(i.tag)}}

\* _REQUIRES
Required(i) ==
    CASE i.kind \in {"downstream", "upstream", "neighbours", "relief", "info"} -> {i.tag}
      [] i.kind = "path" -> {i.source, i.target}
      [] OTHER -> {}

----------------------------------------------------------------------------
(* to_cypher, as the database reads it.                                      *)

FlowRels == {<<r.src, r.dst>> : r \in {s \in rels : s.rtype = "FLOWS_TO"}}
HasLabel(x, type) == type = NoType \/ type \in labels[x]

Matched(S, type) == {x \in S : HasLabel(x, type)}

\* One relationship further, but none twice.
Links(p) == {<<p[k], p[k+1]>> : k \in 1 .. Len(p) - 1}
Further(R, trails) ==
    UNION {{Append(p, x) : x \in {y \in Successors(R, Last(p)) : <<Last(p), y>> \notin Links(p)}} :
           p \in trails}

\* What a pattern of one to n relationships matches: a trail may come by an item
\* again.
Trails(R, a, n) ==
    LET long[k \in 0..n] == IF k = 0 THEN {<<a>>} ELSE LET so == long[k-1] IN Further(R, so)
    IN  UNION {long[k] : k \in 1..n}

\* The rows, before any limit.
CypherRows(i) ==
    CASE i.kind = "downstream" -> Matched(Within(FlowRels, i.tag, QueryHops), i.type)
      [] i.kind = "upstream" ->
             Matched(Within(Reversed(FlowRels), i.tag, QueryHops), i.type)
      [] i.kind = "neighbours" ->
             {[tag |-> FarEnd(r, i.tag), rtype |-> r.rtype, out |-> r.src = i.tag] :
                r \in {s \in rels : i.tag \in {s.src, s.dst} /\ HasLabel(FarEnd(s, i.tag), i.type)}}
      [] i.kind = "path" ->
             {p \in Trails(FlowRels, i.source, QueryHops + 2) : Last(p) = i.target}
      [] i.kind \in {"list", "count"} -> Matched(Items, i.type)
      [] i.kind = "relief" ->
             {p \in Trails(FlowRels, i.tag, QueryHops) : HasLabel(Last(p), "relief_valve")}
      [] i.kind = "info" -> {r \in rels : i.tag \in {r.src, r.dst}}

\* LIMIT, and the limit of run_cypher; a count is a row for each type at most.
RowsLeft(i) ==
    LET n == Cardinality(CypherRows(i))
    IN  CASE i.kind \in {"path", "relief"} -> Min({MaxPaths, RowLimit, n})
          [] i.kind = "count" -> n
          [] OTHER -> Min({RowLimit, n})

----------------------------------------------------------------------------
NoQuestion == [cues |-> {}, type |-> NoType, mentions |-> <<>>]
NoFields == [kind |-> NoType, tag |-> <<>>, source |-> <<>>, target |-> <<>>, type |-> NoType]

QueryInit ==
    /\ bound \in Graphs
    /\ asking = "idle"
    /\ question = NoQuestion /\ fields = NoFields
    /\ intent = NoIntent /\ answer = {} /\ explored = {}

Question(q) ==
    /\ asking = "idle"
    /\ asking' = "parse"
    /\ question' = q
    /\ UNCHANGED <<bound, fields, intent, answer, explored>>

Parse ==
    /\ asking = "parse"
    /\ LET found == FindTags(question.mentions)
           read  == Reading(question, found.tags)
       IN  \/ /\ found.ambiguous \/ read.kind = "need tag"
              /\ asking' = "refused" /\ UNCHANGED intent
           \/ /\ ~found.ambiguous /\ read.kind \notin {"need tag", "none"}
              /\ asking' = "run" /\ intent' = read
           \/ /\ ~found.ambiguous /\ read.kind = "none"
              /\ asking' = IF Translator = "none" THEN "refused" ELSE "translate"
              /\ UNCHANGED intent
    /\ UNCHANGED <<bound, question, fields, answer, explored>>

\* The model answers with a payload; one of no known kind is no intent, nor is
\* a refusal, nor an answer that was no JSON twice. The Anthropic client lets
\* a truncated answer's parse error through.
Translate ==
    /\ asking = "translate"
    /\ \/ \E p \in Payloads :
            /\ asking' = IF p.kind \in Kinds THEN "ground" ELSE "refused"
            /\ fields' = p
       \/ asking' = "refused" /\ UNCHANGED fields
       \/ Translator = "anthropic" /\ asking' = "broken" /\ UNCHANGED fields
    /\ UNCHANGED <<bound, question, intent, answer, explored>>

\* reground: an absent field stays absent, a field that holds no tag of the
\* graph raises, and of several the first counts.
Groundable(f) ==
    \A text \in {f.tag, f.source, f.target} \ {<<>>} :
        ~FindTags(text).ambiguous /\ FindTags(text).tags # <<>>

Grounded(f) ==
    LET tag(text) == IF text = <<>> THEN NoTag ELSE FindTags(text).tags[1]
    IN  Intent(f.kind, tag(f.tag), tag(f.source), tag(f.target), f.type)

Ground ==
    /\ asking = "ground"
    /\ \/ ~Groundable(fields) /\ asking' = "refused" /\ UNCHANGED intent
       \/ Groundable(fields) /\ asking' = "run" /\ intent' = Grounded(fields)
    /\ UNCHANGED <<bound, question, fields, answer, explored>>

\* What a runner needs is there.
Runnable(i) == NoTag \notin Required(i) /\ (i.kind = "list" => i.type # NoType)

Run ==
    /\ asking = "run"
    /\ \/ ~Runnable(intent) /\ asking' = "refused" /\ UNCHANGED answer
       \/ Runnable(intent) /\ asking' = "answered" /\ answer' \in Answers(intent)
    /\ UNCHANGED <<bound, question, fields, intent, explored>>

\* run_cypher of the Cypher an answer came with.
Explore ==
    /\ asking = "answered"
    /\ asking' = "explored"
    /\ \E rows \in SUBSET CypherRows(intent) :
        /\ Cardinality(rows) = RowsLeft(intent)
        /\ explored' = rows
    /\ UNCHANGED <<bound, question, fields, intent, answer>>

QueryNext == (\E q \in Questions : Question(q)) \/ Parse \/ Translate \/ Ground \/ Run \/ Explore

----------------------------------------------------------------------------
\* The tags a mention can stand for.
Means(mention) == IF mention.exact \in Known THEN {mention.exact}
                                             ELSE mention.ends \cap Known

\* An intent that runs speaks of tags of the graph alone, each the one thing
\* some token of the question, or of the model's field for it, can mean: no
\* phrasing and no model gets an item answered for that nobody named (module
\* docstring: "nothing is guessed"; "fails closed").
TagsAreNamed ==
    asking \in {"run", "answered", "explored"} =>
        LET named(ms) == {t \in Known : \E i \in DOMAIN ms : Means(ms[i]) = {t}}
            from(f)   == named(IF fields = NoFields THEN question.mentions ELSE f)
        IN  /\ intent.tag \in from(fields.tag) \cup {NoTag}
            /\ intent.source \in from(fields.source) \cup {NoTag}
            /\ intent.target \in from(fields.target) \cup {NoTag}
            /\ asking # "run" => NoTag \notin Required(intent)

VerifiedTags == {r.tag : r \in {x \in answer : x.verified}}

\* What the graph in memory answers and what the Cypher shown with it finds in
\* the database never contradict each other, as long as no other version of
\* the graph was ever begun to load: a broken load misses rows and invents
\* none, and once a load has returned and no limit cuts the rows, the verified
\* part of the answer is what the database finds, as far as the hops of the
\* Cypher go (module docstring: "the equivalent Cypher").
AnswerAgreesWithCypher ==
    asking = "explored" /\ ToSet(begun) \subseteq {bound} =>
        LET whole == bound \in returned /\ explored = CypherRows(intent)
            agree(mine, theirs) == theirs \subseteq mine /\ (whole => mine = theirs)
        IN  CASE intent.kind \in {"downstream", "upstream"} ->
                     agree(VerifiedTags, explored \ {intent.tag})
              [] intent.kind = "path" ->
                     LET shown == {r.path : r \in {x \in answer : x.verified /\ Len(x.path) > 1}}
                     IN  /\ whole => shown \subseteq explored
                         /\ Cardinality(answer) < MaxPaths =>
                                {p \in explored : IsInjective(p)} \subseteq shown
              [] intent.kind = "relief" ->
                     LET valves == {Last(p) : p \in explored} \ {intent.tag}
                     IN  /\ answer = {"protected"} /\ whole => valves # {}
                         /\ valves # {} => answer # {"none downstream"}
              [] intent.kind = "info" -> agree(answer, {FarEnd(r, intent.tag) : r \in explored})
              [] OTHER -> agree(answer, explored)
=============================================================================
