----------------------------- MODULE Scorecard -----------------------------
(* The model gates of one measured worksheet (hazop/mdl): every deviation   *)
(* timed (latency.py), the rows compared with the gold set (metrics.py),    *)
(* omissions seeded into copies of the worksheet and looked for by the      *)
(* critic (seeded_omissions.py, s3_are/reasoner/critic.py), and what is made *)
(* of it by the scorecard script and its exit status (mdl_scorecard.py), the *)
(* scorecard page and the comparison with the gold set (s5_sw/app.py), and   *)
(* the LLM Lab, whose generator is a local model (s5_sw/llm_lab.py).         *)
EXTENDS Naturals, Sequences, SequencesExt, FiniteSetsExt

CONSTANTS Deviations,  \* labels of the node's deviations, in order
          Expected,    \* labels the gold set expects
          Gold,        \* labels of the gold causes, one item each
          Times,       \* how long a deviation may take, in seconds
          Target,      \* TARGET_P95_SECONDS
          Trials, PerTrial

ASSUME ScorecardAssumption ==
    /\ Deviations \in Seq(ToSet(Deviations)) /\ Deviations # <<>>
    /\ IsInjective(Deviations)
    /\ PerTrial \in 1..Len(Deviations)  \* a ValueError otherwise
    /\ Times \subseteq Nat /\ Target \in Nat /\ Trials \in Nat

VARIABLES caller,   \* "script", "page", "eval" or "lab"
          rows,     \* the worksheet
          timings,
          copy,     \* rows of the copy that are left in the trial under way
          picked,   \* rows seeded in it
          seeded,   \* its ground truth: <<kind, label>>
          trials,   \* the ended ones: seeded, detected, and what else was flagged
          card

cardVars == <<caller, rows, timings, copy, picked, seeded, trials, card>>

Kinds == {"dropped_row", "blanked_consequences"}
NoCard == <<>>

CardInit ==
    /\ caller \in {"script", "page", "eval", "lab"}
    /\ rows = <<>> /\ timings = <<>>
    /\ copy = {} /\ picked = {} /\ seeded = {}
    /\ trials = <<>> /\ card = NoCard

Labels(S) == {r.label : r \in S}

\* measure_latency: one row per deviation, with consequences or without, some
\* cause of which has all the words of the gold item, or none has.
Measure(consequences, matching, seconds) ==
    /\ Len(rows) < Len(Deviations)
    /\ LET row == [label |-> Deviations[Len(rows) + 1],
                   consequences |-> consequences, matching |-> matching]
       IN  rows' = Append(rows, row) /\ copy' = copy \cup {row}
    /\ timings' = IF caller = "eval" THEN <<>> ELSE Append(timings, seconds)
    /\ UNCHANGED <<caller, picked, seeded, trials, card>>

Measured == Len(rows) = Len(Deviations)

\* Omissions are seeded for these two.
Seeding == Measured /\ caller \in {"script", "page"} /\ Len(trials) < Trials

\* Mutant of Seed: a row may be picked again.
SeedAgain(i, kind) ==
    /\ Seeding
    /\ Cardinality(picked) < PerTrial
    /\ kind = "blanked_consequences" => rows[i].consequences
    /\ picked' = picked \cup {i}
    /\ seeded' = seeded \cup {<<kind, rows[i].label>>}
    /\ copy' = IF kind = "dropped_row"
               THEN {r \in copy : r.label # rows[i].label}
               ELSE {IF r = rows[i] THEN [r EXCEPT !.consequences = FALSE] ELSE r :
                        r \in copy}
    /\ UNCHANGED <<caller, rows, timings, trials, card>>

\* seed_omissions: one omission per row; only consequences that are there can be
\* blanked.
Seed(i, kind) ==
    /\ Seeding
    /\ Cardinality(picked) < PerTrial /\ i \notin picked
    /\ kind = "blanked_consequences" => rows[i].consequences
    /\ picked' = picked \cup {i}
    /\ seeded' = seeded \cup {<<kind, rows[i].label>>}
    /\ copy' = (copy \ {rows[i]}) \cup
                  (IF kind = "dropped_row" THEN {}
                   ELSE {[rows[i] EXCEPT !.consequences = FALSE]})
    /\ UNCHANGED <<caller, rows, timings, trials, card>>

\* critique of the copy, and detected_omissions by the channel of each kind.
Missing == ToSet(Deviations) \ Labels(copy)
Empty   == Labels({r \in copy : ~r.consequences})

Detected == {o \in seeded : o[2] \in IF o[1] = "dropped_row" THEN Missing ELSE Empty}

EndTrial ==
    /\ Seeding
    /\ Cardinality(picked) = PerTrial
    /\ trials' = Append(trials, [seeded |-> seeded, detected |-> Detected,
                                 others |-> (Missing \cup Empty) \ {o[2] : o \in seeded}])
    /\ copy' = ToSet(rows) /\ picked' = {} /\ seeded' = {}
    /\ UNCHANGED <<caller, rows, timings, card>>

----------------------------------------------------------------------------

\* The observations in ascending order.
Ascending ==
    LET n == Len(timings)
        by == CHOOSE p \in [1..n -> 1..n] :
                 /\ IsInjective(p)
                 /\ \A i, j \in 1..n : i < j => timings[p[i]] <= timings[p[j]]
    IN  [i \in 1..n |-> timings[by[i]]]

\* nearest_rank_percentile
Percentile(q) == LET rank == (q * Len(timings) + 99) \div 100
                 IN  Ascending[rank]

Total(of) == FoldFunction(+, 0, [n \in DOMAIN trials |-> Cardinality(of[n])])

\* evaluate_node: deviations without a row, and gold causes no row matches.
Uncovered == Expected \ Labels(ToSet(rows))
Missed    == {l \in Gold : ~\E r \in ToSet(rows) : r.label = l /\ r.matching}

CoverageStands == 100 * (Cardinality(Expected) - Cardinality(Uncovered))
                      >= 85 * Cardinality(Expected)
RecallStands   == 100 * (Cardinality(Gold) - Cardinality(Missed)) >= 80 * Cardinality(Gold)

\* EvalResult.passed
GoldPassed == CoverageStands /\ RecallStands

\* The gates, with the verdict of the tag audit (RowAudit). MDL-11 waits for the
\* expert and never fails.
Gates(grounded) ==
    [coverage  |-> CoverageStands,
     recall    |-> RecallStands,
     grounding |-> grounded,
     latency   |-> Percentile(95) <= Target,
     omissions |-> 100 * Total([n \in DOMAIN trials |-> trials[n].detected])
                       >= 90 * Total([n \in DOMAIN trials |-> trials[n].seeded])]

Untimed == [p50 |-> 0, p95 |-> 0]
Timed   == [p50 |-> Percentile(50), p95 |-> Percentile(95)]
Ungated == [g \in {} |-> TRUE]

Closed(by, gates, times, passed) ==
    /\ caller = by /\ Measured /\ card = NoCard
    /\ card' = [gates |-> gates, p50 |-> times.p50, p95 |-> times.p95, passed |-> passed]
    /\ UNCHANGED <<caller, rows, timings, copy, picked, seeded, trials>>

\* main: exit status 0.
ScoreByScript(grounded) ==
    /\ Len(trials) = Trials
    /\ Closed("script", Gates(grounded), Timed,
              \A g \in DOMAIN Gates(grounded) : Gates(grounded)[g])

\* api_scorecard: each gate with its status, and no verdict on the whole.
ScoreOnPage(grounded) ==
    /\ Len(trials) = Trials
    /\ Closed("page", Gates(grounded), Timed, FALSE)

\* _run_eval
CompareWithGold == Closed("eval", Ungated, Untimed, GoldPassed)

\* run_gold_eval: the tag audit and the times are reported and decide nothing.
ScoreInLab == Closed("lab", Ungated, Timed, GoldPassed)

CardNext ==
    \/ \E c, m \in BOOLEAN, t \in Times : Measure(c, m, t)
    \/ \E i \in DOMAIN rows, k \in Kinds : Seed(i, k)
    \/ EndTrial
    \/ \E g \in BOOLEAN : ScoreByScript(g) \/ ScoreOnPage(g)
    \/ CompareWithGold \/ ScoreInLab

----------------------------------------------------------------------------
(* Property.                                                                 *)

\* Observations that took at most t.
Within(t) == Cardinality({n \in DOMAIN timings : timings[n] <= t})

\* The smallest observed value that at least q percent are within (docstring of
\* nearest_rank_percentile).
IsNearestRank(v, q) ==
    /\ v \in ToSet(timings) /\ 100 * Within(v) >= q * Len(timings)
    /\ \A u \in ToSet(timings) : u < v => 100 * Within(u) < q * Len(timings)

\* Every seeded omission of every trial is found through the channel of its
\* kind, and what else is flagged is a gap of the worksheet itself (module
\* docstring of seeded_omissions.py: today's critic should detect 100%). The
\* percentiles are those of nearest rank, and the latency gate passes exactly
\* when at most one deviation in twenty is over the target. A run that passes in
\* the script passes wherever the same worksheet is compared with the gold set.
ScorecardIsHonest ==
    /\ \A n \in DOMAIN trials :
          /\ Cardinality(trials[n].seeded) = PerTrial
          /\ trials[n].detected = trials[n].seeded
          /\ trials[n].others \subseteq Labels({r \in ToSet(rows) : ~r.consequences})
    /\ card # NoCard /\ timings # <<>> =>
          IsNearestRank(card.p50, 50) /\ IsNearestRank(card.p95, 95)
    /\ card # NoCard /\ DOMAIN card.gates # {} =>
          card.gates.latency <=> 20 * (Len(timings) - Within(Target)) <= Len(timings)
    /\ card # NoCard /\ card.passed => GoldPassed
=============================================================================
