--------------------------- MODULE KnowledgeBase ---------------------------
(* The way of a fact to the reasoner: a worksheet is imported (ingest_xlsx.py*)
(* of hazop/s4_kb), a curator judges the document, a process indexes the     *)
(* corpus (index.py), and a search ranks what it indexed for a deviation.    *)
(*                                                                           *)
(* BM25 and cosine are given as scores per chunk; what is made of their      *)
(* ranks are fractions.                                                      *)
EXTENDS Naturals, Sequences, SequencesExt, FiniteSetsExt

CONSTANTS Sheets,    \* worksheets that may be imported: sequences of rows
          Documents, \* documents of the corpus before the import
          Questions, \* what is searched for, and how each chunk scores
          MaxScore,  \* how well a chunk may match, at best
          K,         \* answers asked for
          MaxVerdicts \* bound: decisions of the curator

IsSeq(s) == s \in Seq(ToSet(s))

IsDocument(doc) ==
    /\ DOMAIN doc = {"curation", "holdout", "units", "chunks"}
    /\ doc.curation \in {"pending", "approved", "rejected"} /\ doc.holdout \in BOOLEAN
    /\ IsSeq(doc.chunks)

ASSUME KBAssumption ==
    /\ \A sheet \in Sheets : IsSeq(sheet)
    /\ \A docs \in Documents : IsSeq(docs) /\ \A doc \in ToSet(docs) : IsDocument(doc)
    /\ MaxScore \in Nat /\ K \in Nat

VARIABLES corpus,    \* the documents on disk
          imported,  \* the report of the import
          verdicts,  \* decisions made
          index,     \* the chunks a running process has, in order
          loaded,    \* the documents as they were when it loaded them
          question, answer

kbVars == <<corpus, imported, verdicts, index, loaded, question, answer>>

NoTag == "none"
Nothing == <<>>

\* The members of S in order: before holds the pairs of an earlier and a later one.
Listed(S, before) ==
    [n \in 1..Cardinality(S) |->
        CHOOSE i \in S : Cardinality({j \in S : <<j, i>> \in before}) = n - 1]

----------------------------------------------------------------------------
(* worksheet_to_document. A row says which columns it would head, and what   *)
(* stands in its cells: a deviation the prefixes parse ("both": guideword    *)
(* and parameter, "word": a guideword alone, "odd": neither), a guideword, a *)
(* parameter, and whether any cause, consequence or safeguard.               *)

IsHeader(row) == "deviation" \in row.heads \/ {"guideword", "parameter"} \subseteq row.heads

\* The first row that can head the table; what is above it is furniture.
HeaderAt(sheet) == CHOOSE i \in DOMAIN sheet :
    IsHeader(sheet[i]) /\ \A j \in 1..(i - 1) : ~IsHeader(sheet[j])

\* A cell of a column the header has not got is empty.
Cell(row, column, columns) == IF column \in columns THEN row[column] ELSE NoTag

\* _split_deviation: guideword and parameter.
Split(deviation) ==
    CASE deviation = "both" -> <<"MORE", "flow">>
      [] deviation = "word" -> <<"MORE", NoTag>>
      [] OTHER -> <<NoTag, NoTag>>

\* Guideword and parameter of a row: its own cells, or what its deviation says.
TagsOf(row, columns) ==
    LET cells == <<Cell(row, "guideword", columns), Cell(row, "parameter", columns)>>
    IN  IF Cell(row, "deviation", columns) # NoTag /\ cells = <<NoTag, NoTag>>
        THEN Split(Cell(row, "deviation", columns)) ELSE cells

\* A row is kept that has a deviation, its own or one put together from a
\* guideword, and some content.
Kept(row, columns) ==
    /\ \/ Cell(row, "deviation", columns) # NoTag
       \/ Cell(row, "guideword", columns) # NoTag
    /\ row.content

ChunkOf(row, i, columns) ==
    [id |-> i,
     guidewords |-> {TagsOf(row, columns)[1]} \ {NoTag},
     parameters |-> {TagsOf(row, columns)[2]} \ {NoTag}]

\* No header, no document (ValueError).
Import(sheet) ==
    /\ imported = Nothing
    /\ \E i \in DOMAIN sheet : IsHeader(sheet[i])
    /\ LET h       == HeaderAt(sheet)
           columns == sheet[h].heads
           data    == (h + 1)..Len(sheet)
           keep    == {i \in data : Kept(sheet[i], columns)}
           rows    == Listed(keep, {p \in keep \X keep : p[1] < p[2]})
       IN  /\ corpus' = Append(corpus,
                 [curation |-> "pending", holdout |-> FALSE, units |-> {},
                  chunks |-> [n \in DOMAIN rows |->
                                 ChunkOf(sheet[rows[n]], rows[n], columns)]])
           /\ imported' = [doc |-> Len(corpus) + 1, sheet |-> sheet, data |-> data,
                           skipped |-> data \ keep,
                           untagged |-> {i \in keep :
                               NoTag \in ToSet(TagsOf(sheet[i], columns))}]
    /\ UNCHANGED <<verdicts, index, loaded, question, answer>>

----------------------------------------------------------------------------
(* The curator edits the document on disk.                                   *)

Curate(d, curation, holdout) ==
    /\ Len(verdicts) < MaxVerdicts
    /\ corpus' = [corpus EXCEPT ![d].curation = curation, ![d].holdout = holdout]
    /\ verdicts' = Append(verdicts, <<d, curation, holdout>>)
    /\ question' = Nothing /\ answer' = Nothing
    /\ UNCHANGED <<imported, index, loaded>>

----------------------------------------------------------------------------
(* index.py                                                                  *)

\* ingest: what passes the curation gate and is not held out.
Indexable(doc) == doc.curation = "approved" /\ ~doc.holdout

\* Document by document, chunk by chunk.
Indexed == {d \in DOMAIN corpus : Indexable(corpus[d])}
Pieces   == UNION {{d} \X DOMAIN corpus[d].chunks : d \in Indexed}
Reading  == Listed(Pieces, {p \in Pieces \X Pieces :
                               \/ p[1][1] < p[2][1]
                               \/ p[1][1] = p[2][1] /\ p[1][2] < p[2][2]})

\* A process starts (KBRetriever): it reads the corpus once.
Load ==
    /\ loaded' = corpus
    /\ LET order == Reading
       IN  index' = [n \in DOMAIN order |->
              [doc |-> order[n][1], chunk |-> corpus[order[n][1]].chunks[order[n][2]]]]
    /\ question' = Nothing /\ answer' = Nothing
    /\ UNCHANGED <<corpus, imported, verdicts>>

\* _applicable: a document that names no units is for all of them.
Applicable(doc, unit) == unit = NoTag \/ doc.units = {} \/ unit \in doc.units

Eligible(unit) == {i \in DOMAIN index : Applicable(loaded[index[i].doc], unit)}

\* Fractions <<numerator, denominator>>.
More(x, y) == x[1] * y[2] > y[1] * x[2]
Sum(x, y)  == <<x[1] * y[2] + y[1] * x[2], x[2] * y[2]>>

\* Sorted best first, and as they stand where equal.
Ahead(score, i, j) ==
    \/ More(score[i], score[j])
    \/ ~More(score[j], score[i]) /\ i < j

Rank(score, i, S) == Cardinality({j \in S : Ahead(score, j, i)})

\* Reciprocal rank fusion of the two halves, RRF_K = 60; no points for a half
\* that does not match.
Points(score, i, S) ==
    IF More(score[i], <<0, 1>>) THEN <<1, 61 + Rank(score, i, S)>> ELSE <<0, 1>>

Fused(q, i) == LET S == Eligible(q.unit)
               IN  Sum(Points(q.lex, i, S), Points(q.den, i, S))

\* The structured tags of the chunk that the deviation asks for.
Matches(q, i) ==
    (index[i].chunk.guidewords \cap {q.guideword})
        \cup (index[i].chunk.parameters \cap {q.parameter})

\* Mutant of Boosted: the boost is added, not multiplied.
BoostAdded(q, i) == Sum(Fused(q, i), <<Cardinality(Matches(q, i)), 2>>)

Boosted(q, i) == LET f == Fused(q, i)
                 IN  <<f[1] * (2 + Cardinality(Matches(q, i))), f[2] * 2>>

\* search: the best K, without those that match nothing.
Ranking(q) ==
    LET S     == Eligible(q.unit)
        value == [i \in S |-> Boosted(q, i)]
        best  == {i \in S : Rank(value, i, S) < K /\ More(value[i], <<0, 1>>)}
    IN  Listed(best, {p \in best \X best : Ahead(value, p[1], p[2])})

Search(q) ==
    /\ index # <<>>
    /\ question' = q
    /\ answer' = Ranking(q)
    /\ UNCHANGED <<corpus, imported, verdicts, index, loaded>>

----------------------------------------------------------------------------

KBInit ==
    /\ corpus \in Documents
    /\ imported = Nothing /\ verdicts = <<>>
    /\ index = <<>> /\ loaded = <<>>
    /\ question = Nothing /\ answer = Nothing

Scores == [DOMAIN index -> {<<n, 1>> : n \in 0..MaxScore}]

KBNext ==
    \/ \E sheet \in Sheets : Import(sheet)
    \/ \E d \in DOMAIN corpus, c \in {"pending", "approved", "rejected"}, h \in BOOLEAN :
          Curate(d, c, h)
    \/ Load
    \/ \E ask \in Questions, lex \in Scores, den \in Scores :
          Search([guideword |-> ask[1], parameter |-> ask[2], unit |-> ask[3],
                  lex |-> lex, den |-> den])

----------------------------------------------------------------------------
(* Property.                                                                 *)

\* What a search may show, whatever the curator has done since: a chunk of a
\* document that was approved, not held out, and for the unit asked for; an
\* imported one only if the curator approved it after the import.
Curated(i) ==
    LET d == index[i].doc
        doc == loaded[d]
    IN  /\ doc.curation = "approved" /\ ~doc.holdout
        /\ doc.units = {} \/ question.unit \in doc.units \cup {NoTag}
        /\ imported # Nothing /\ d = imported.doc =>
              \E v \in ToSet(verdicts) : v = <<d, "approved", FALSE>>

\* Better in both halves, and tagged with all the other is.
Dominates(i, j) ==
    /\ More(question.lex[i], question.lex[j]) /\ More(question.den[i], question.den[j])
    /\ Matches(question, j) \subseteq Matches(question, i)

Found(i) == More(question.lex[i], <<0, 1>>) \/ More(question.den[i], <<0, 1>>)

Before(i, j) == \E m, n \in DOMAIN answer : m < n /\ answer[m] = i /\ answer[n] = j

\* An answer holds only curated chunks, each once and each matching the query in
\* some half, at most K of them; a chunk is left out only for others; and no
\* boost puts a chunk before one that is better in both halves and has its
\* tags. Of the sheet behind an imported document no row is lost: each data row
\* is a chunk or reported as skipped, the untagged among the chunks (module
\* docstring of ingest_xlsx.py).
KnowledgeIsCurated ==
    /\ question # Nothing =>
          /\ Len(answer) <= K /\ IsInjective(answer)
          /\ \A i \in ToSet(answer) : Curated(i) /\ Found(i)
          /\ \A i \in Eligible(question.unit) \ ToSet(answer) : Len(answer) = K \/ ~Found(i)
          /\ \A j \in ToSet(answer), i \in Eligible(question.unit) :
                Dominates(i, j) => Before(i, j)
    /\ imported # Nothing =>
          LET chunks == {c.id : c \in ToSet(corpus[imported.doc].chunks)}
          IN  /\ chunks \cap imported.skipped = {}
              /\ chunks \cup imported.skipped = imported.data
              /\ \A c \in ToSet(corpus[imported.doc].chunks) :
                    c.id \in imported.untagged
                        <=> c.guidewords = {} \/ c.parameters = {}
=============================================================================
