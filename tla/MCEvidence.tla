----------------------------- MODULE MCEvidence -----------------------------
(* From what is known to what is answered for: a behaviour either takes one  *)
(* deviation through the gates and the audits of its row, or builds and      *)
(* searches the knowledge base, or has a whole worksheet scored.            *)
EXTENDS RowAudit, KnowledgeBase, Scorecard, TLC

CONSTANTS plant, ghost, hidden, e1, e2, phantom

MCSources  == {e1, e2}
MCSymmetry == Permutations(MCSources)

Declared == [n \in Body |-> drafts[worksheet[n].of].tags]

\* What texts name and what critics judge meet nowhere: texts say what they
\* declare where there is a critic, and one of them something else where not.
Namings ==
    IF critic # "none" THEN {}
    ELSE {[Declared EXCEPT ![n] = t] : n \in Body, t \in SUBSET Words}

----------------------------------------------------------------------------
\* Worksheets: furniture above the header, headers that name a deviation or its
\* two parts, rows without tags, without content, and blank ones.
AllColumns == {"deviation", "guideword", "parameter"}
Heading(columns) == [heads |-> columns, deviation |-> "odd", guideword |-> NoTag,
                  parameter |-> NoTag, content |-> TRUE]
Row(d, g, p, content) == [heads |-> {}, deviation |-> d, guideword |-> g,
                          parameter |-> p, content |-> content]
Blank == Row(NoTag, NoTag, NoTag, FALSE)
MCSheets == {
    <<Blank, Heading({"deviation"}), Row("both", NoTag, NoTag, TRUE),
      Row("odd", NoTag, NoTag, TRUE), Row("word", NoTag, NoTag, FALSE)>>,
    <<Heading({"guideword", "parameter"}), Row("both", "MORE", "flow", TRUE),
      Row("both", NoTag, "flow", TRUE), Row("both", "NO", NoTag, TRUE)>>,
    <<Heading({"parameter"}), Heading(AllColumns), Row("both", NoTag, "level", TRUE),
      Row("word", NoTag, NoTag, TRUE), Row(NoTag, NoTag, NoTag, TRUE)>>,
    <<Row("both", NoTag, NoTag, TRUE), Heading({"guideword"})>>}

Chunk(n, g, p) == [id |-> n, guidewords |-> g, parameters |-> p]
Document(curation, holdout, units, chunks) ==
    [curation |-> curation, holdout |-> holdout, units |-> units, chunks |-> chunks]
MCDocuments == {
    <<Document("approved", FALSE, {"air"}, <<Chunk(1, {"MORE"}, {})>>)>>,
    <<Document("approved", TRUE, {}, <<Chunk(1, {}, {"flow"})>>)>>}
MCQuestions == {<<"MORE", "flow", NoTag>>, <<"MORE", "flow", "oil">>, <<NoTag, NoTag, "air">>}

----------------------------------------------------------------------------
MCDeviations == <<"No Flow", "More Flow", "Reverse Flow">>

VARIABLE part  \* which of them

MCInit ==
    /\ part \in {"evidence", "knowledge", "scorecard"}
    /\ Init /\ AuditInit /\ KBInit /\ CardInit
    /\ part # "evidence" => gate /\ critic = "none" /\ generator = "stub"
    /\ part # "scorecard" => caller = "lab"
    /\ part # "knowledge" => corpus = CHOOSE c \in Documents : TRUE

EvidenceNext ==
    \/ Next /\ UNCHANGED auditVars
    \/ \E added \in {{}, {60}} : Audit(added, Declared)
    \/ \E named \in Namings : Audit({}, named)

MCNext ==
    \/ part = "evidence" /\ EvidenceNext /\ UNCHANGED <<part, kbVars, cardVars>>
    \/ /\ part = "knowledge" /\ question = Nothing  \* one search of a behaviour
       /\ KBNext /\ UNCHANGED <<part, vars, auditVars, cardVars>>
    \/ part = "scorecard" /\ CardNext /\ UNCHANGED <<part, vars, auditVars, kbVars>>

MCSpec == MCInit /\ [][MCNext]_<<part, vars, auditVars, kbVars, cardVars>>
=============================================================================
