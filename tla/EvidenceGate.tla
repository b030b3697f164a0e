---------------------------- MODULE EvidenceGate ----------------------------
(* One deviation through AIReasoner._analyze_deviation                       *)
(* (hazop/s3_are/reasoner/core.py): the findings of a model, or of the stub  *)
(* the hub runs on, the confidence composed for them (llm.py), Stage A,      *)
(* which rejects findings that name a tag the topology has not got, and      *)
(* Stage B, which has a critic (evidence_critic.py) judge each finding       *)
(* against the excerpts it cites.                                            *)
(*                                                                           *)
(* Causes, consequences and safeguards are one list here: each stage takes   *)
(* them in that order. A citation list is how often it names each id: every  *)
(* place of one id gets the same verdict. Confidence is in hundredths.       *)
EXTENDS Naturals, Sequences, SequencesExt, FiniteSetsExt

CONSTANTS Tags,         \* equipment tags of the topology
          Ghosts,       \* tags a model may name that are not in it
          Sources,      \* ids of the evidence retrieved for the deviation
          Phantoms,     \* evidence ids a model may cite that were not
          MaxFindings,  \* bound: findings in one answer of the generator
          MaxCites,     \* bound: known evidence_ids in one answer
          MaxChecks     \* bound: checks in one answer of the critic

ASSUME ConstantsAssumption ==
    /\ Tags \cap Ghosts = {}
    /\ Sources \cap Phantoms = {}
    /\ {MaxFindings, MaxChecks} \subseteq Nat
    /\ MaxCites \in Nat \ {0}
    /\ IsFiniteSet(Sources)

VARIABLES gate,       \* grounding_required
          critic,     \* which evidence critic, if any
          generator,  \* which client writes the findings
          phase,
          tries,      \* answers so far that were not JSON
          drafts,     \* the GeneratedFindings
          at,         \* findings the stage at work has dealt with
          grounded,   \* what Stage A let through
          worksheet,  \* what Stage B let through: the body of the row
          audit       \* row.rejected_findings

vars == <<gate, critic, generator, phase, tries, drafts, at, grounded, worksheet,
          audit>>

Critics  == {"none", "lexical", "model"}
Clients  == {"model", "stub"}
Verdicts == {"supported", "contradicted", "insufficient"}
Reasons  == {"invalid_tags", "evidence_contradicted"}
Ids      == Sources \cup Phantoms

\* evidence_ids: how often each id is named.
CiteLists == {c \in [Ids -> 0..MaxCites] : \A e \in Phantoms : c[e] <= 1}
Items     == [tags : SUBSET (Tags \cup Ghosts), cites : CiteLists]
Drafts    == [tags : SUBSET (Tags \cup Ghosts), cites : CiteLists, conf : Nat]
Checks    == UNION {[1..n -> Sources \X Verdicts] : n \in 0..MaxChecks}

\* of: the draft it is; kept: the sources whose citations still stand; checks:
\* the verdict on each source judged (evidence_checks).
Findings == [of : Nat, kept : SUBSET Sources, conf : Nat,
             checks : UNION {[S -> Verdicts] : S \in SUBSET Sources}]

TypeOK ==
    /\ gate \in BOOLEAN
    /\ critic \in Critics
    /\ generator \in Clients
    /\ phase \in {"generate", "ground", "judge", "emitted", "raised"}
    /\ tries \in 0..1
    /\ drafts \in Seq(Drafts)
    /\ at \in 0..Len(drafts)
    /\ grounded \in Seq(Findings)
    /\ worksheet \in Seq(Findings)
    /\ audit \in Seq([of : Nat, reason : Reasons])

Init ==
    /\ gate \in BOOLEAN
    /\ critic \in Critics
    /\ generator \in Clients
    /\ phase = "generate"
    /\ tries = 0
    /\ drafts = <<>>
    /\ at = 0
    /\ grounded = <<>>
    /\ worksheet = <<>>
    /\ audit = <<>>

----------------------------------------------------------------------------
(* The generator: AnthropicLLM, LocalLLM and StubLLM.                        *)

Unsupported == 30

\* What _triple_from_payload composes from n citations.
Composed(n) ==
    IF n = 0 THEN Unsupported
    ELSE IF 40 + 15 * n > 95 THEN 95 ELSE 40 + 15 * n

\* What _evidence_checked composes from the k citations that survive.
Recomposed(k) == IF k = 0 THEN Unsupported ELSE 40 + 15 * k

\* How many citations of draft d name an id of S.
Cited(d, S) == MapThenSumSet(LAMBDA e : d.cites[e], S)

\* The known ids it names; invented ones are dropped.
Known(d) == {e \in Sources : d.cites[e] > 0}

\* _triple_from_payload, item by item: a model does not grade itself.
Draft(item) ==
    /\ phase = "generate" /\ generator = "model"
    /\ Len(drafts) < MaxFindings
    /\ Cited(item, Sources)
         + MapThenSumSet(LAMBDA i : Cited(drafts[i], Sources), 1..Len(drafts))
            <= MaxCites
    /\ drafts' = Append(drafts, [tags |-> item.tags, cites |-> item.cites,
                                 conf |-> Composed(Cited(item, Sources))])
    /\ tries' = 0
    /\ UNCHANGED <<gate, critic, generator, phase, at, grounded, worksheet, audit>>

Generated ==
    /\ phase = "generate" /\ generator = "model"
    /\ phase' = "ground"
    /\ tries' = 0
    /\ UNCHANGED <<gate, critic, generator, drafts, at, grounded, worksheet, audit>>

\* chat_json of the local client: an answer that is not JSON is asked for once
\* more, and the second time refused (Raise).
NotJson ==
    /\ phase = "generate" /\ generator = "model" /\ drafts = <<>>
    /\ tries = 0
    /\ tries' = 1
    /\ UNCHANGED <<gate, critic, generator, phase, drafts, at, grounded, worksheet, audit>>

\* What the stub cites: each of a set of sources once.
Citing(S) == [e \in Ids |-> IF e \in S THEN 1 ELSE 0]

\* The confidence the stub starts from, and gives a consequence it has a rule
\* for; one it has no rule for gets three fifths of it.
StubBase(S) == LET n == Cardinality(S) IN IF n > 3 THEN 95 ELSE 40 + 15 * n

\* StubLLM, for a deviation with and without rules of its own: a cause per
\* source, at the score of the source, or one without any; a consequence; a
\* safeguard. Scores are low or high.
StubTriple(causes, S, score, known) ==
    LET Of(cited, conf) == [tags |-> Tags, cites |-> Citing(cited), conf |-> conf]
    IN  (IF S = {} THEN <<Of({}, 30)>>
         ELSE [n \in DOMAIN causes |-> Of({causes[n]}, score[causes[n]])])
        \o <<IF known THEN Of(S, StubBase(S)) ELSE Of(S, (StubBase(S) * 6) \div 10)>>
        \o <<IF known THEN Of(S, StubBase(S))
                      ELSE [tags |-> {}, cites |-> Citing({}), conf |-> 35]>>

Stub ==
    /\ phase = "generate" /\ generator = "stub"
    /\ \E S \in SUBSET Sources, known \in BOOLEAN :
          \E score \in [S -> {20, 95}] :
             drafts' = StubTriple(SetToSeq(S), S, score, known)
    /\ phase' = "ground"
    /\ UNCHANGED <<gate, critic, generator, tries, at, grounded, worksheet, audit>>

----------------------------------------------------------------------------
(* Stage A: _grounded.                                                       *)

Reject(i, reason) == audit' = Append(audit, [of |-> i, reason |-> reason])

Finding(i) ==
    [of |-> i, kept |-> Known(drafts[i]), checks |-> <<>>,
     conf |-> drafts[i].conf]

\* validate_tags: the tags of a finding that the topology has not got.
Groundless(d) == gate /\ ~(d.tags \subseteq Tags)

Ground ==
    /\ phase = "ground"
    /\ at < Len(drafts)
    /\ at' = at + 1
    /\ IF Groundless(drafts[at + 1])
       THEN Reject(at + 1, "invalid_tags") /\ UNCHANGED grounded
       ELSE grounded' = Append(grounded, Finding(at + 1)) /\ UNCHANGED audit
    /\ UNCHANGED <<gate, critic, generator, tries, phase, drafts, worksheet>>

Grounded ==
    /\ phase = "ground"
    /\ at = Len(drafts)
    /\ phase' = "judge"
    /\ at' = 0
    /\ UNCHANGED <<gate, critic, generator, tries, drafts, grounded, worksheet, audit>>

----------------------------------------------------------------------------
(* Stage B: _evidence_checked.                                               *)

Subject == grounded[at + 1]

Judging ==
    /\ phase = "judge"
    /\ at < Len(grounded)
    /\ at' = at + 1
    /\ UNCHANGED <<gate, critic, generator, tries, phase, drafts, grounded>>

\* No critic, or a finding without citations: it is kept as it is.
PassThrough ==
    /\ Judging
    /\ critic = "none" \/ Subject.kept = {}
    /\ worksheet' = Append(worksheet, Subject)
    /\ UNCHANGED audit

\* Mutant of Standing: an abstention counts as support.
StandingUnrefuted(f, checks) == {e \in f.kept : checks[e] # "contradicted"}

Standing(f, checks) == {e \in f.kept : checks[e] = "supported"}

\* A finding that is not refused keeps the citations found to support it, and
\* a confidence that can only fall.
Judged(f, checks) ==
    LET kept == Standing(f, checks)
        cap  == Recomposed(Cited(drafts[f.of], kept))
    IN  [f EXCEPT !.kept = kept, !.checks = checks,
                  !.conf = IF kept # f.kept /\ cap < @ THEN cap ELSE @]

\* Mutant of Verdict: a refused finding leaves no record.
VerdictUnrecorded(f, checks) ==
    /\ IF \E e \in f.kept : checks[e] = "contradicted"
       THEN UNCHANGED worksheet
       ELSE worksheet' = Append(worksheet, Judged(f, checks))
    /\ UNCHANGED audit

Verdict(f, checks) ==
    IF \E e \in f.kept : checks[e] = "contradicted"
    THEN Reject(f.of, "evidence_contradicted") /\ UNCHANGED worksheet
    ELSE worksheet' = Append(worksheet, Judged(f, checks)) /\ UNCHANGED audit

\* LexicalEvidenceCritic: some excerpts share enough words with the claim.
LexicalCheck ==
    /\ critic = "lexical"
    /\ Judging
    /\ Subject.kept # {}
    /\ \E hits \in SUBSET Subject.kept :
          Verdict(Subject, [e \in Subject.kept |->
             IF e \in hits THEN "supported" ELSE "insufficient"])

\* The verdict _checks_from_payload reads for an id: the last one given, and
\* an abstention where none is.
VerdictOn(answer, id) ==
    IF \E n \in DOMAIN answer : answer[n][1] = id
    THEN LET last == CHOOSE n \in DOMAIN answer :
                        /\ answer[n][1] = id
                        /\ \A m \in DOMAIN answer : m > n => answer[m][1] # id
         IN  answer[last][2]
    ELSE "insufficient"

\* AnthropicEvidenceCritic and LocalEvidenceCritic: any answer the schema
\* allows; checks of unknown ids, which are ignored, are left out. A refusal,
\* and a local server that fails, is the empty answer.
ModelCheck ==
    /\ critic = "model"
    /\ Judging
    /\ Subject.kept # {}
    /\ \E answer \in Checks :
          Verdict(Subject, [e \in Subject.kept |-> VerdictOn(answer, e)])

Emit ==
    /\ phase = "judge"
    /\ at = Len(grounded)
    /\ phase' = "emitted"
    /\ UNCHANGED <<gate, critic, generator, tries, drafts, at, grounded, worksheet, audit>>

\* The generator or a model critic raises: refused, truncated, invalid twice,
\* unreachable. There is no row.
Raise ==
    /\ \/ phase = "generate" /\ generator = "model"
       \/ phase = "judge" /\ critic = "model" /\ at < Len(grounded)
             /\ Subject.kept # {}
    /\ phase' = "raised"
    /\ UNCHANGED <<gate, critic, generator, tries, drafts, at, grounded, worksheet, audit>>

Next ==
    \/ \E item \in Items : Draft(item)
    \/ Generated \/ NotJson \/ Stub
    \/ Ground \/ Grounded
    \/ PassThrough \/ LexicalCheck \/ ModelCheck
    \/ Emit \/ Raise

Spec == Init /\ [][Next]_vars

----------------------------------------------------------------------------
(* Properties.                                                               *)

InBody(i)  == \E n \in 1..Len(worksheet) : worksheet[n].of = i
InAudit(i) == \E n \in 1..Len(audit) : audit[n].of = i

\* Every generated finding ends in the row exactly once: in the body, in the
\* order generated, or in the audit record (RejectedFinding: "excluded from
\* the worksheet body but never silently lost").
NothingLost ==
    phase = "emitted" =>
        /\ Len(worksheet) + Len(audit) = Len(drafts)
        /\ \A i \in 1..Len(drafts) : InBody(i) <=> ~InAudit(i)
        /\ \A m, n \in 1..Len(worksheet) :
              m < n => worksheet[m].of < worksheet[n].of

\* No finding of the body names a tag the topology has not got (the gate on),
\* and no finding is rejected for its tags while the gate is off.
BodyIsGrounded ==
    /\ gate => \A n \in 1..Len(worksheet) :
                 drafts[worksheet[n].of].tags \subseteq Tags
    /\ \A n \in 1..Len(audit) :
          audit[n].reason = "invalid_tags" =>
              gate /\ ~(drafts[audit[n].of].tags \subseteq Tags)

\* With a critic, a finding of the body cites exactly the known sources it
\* cited and the critic found to support it, and a verdict on each source it
\* ever cited, stripped ones included, stays with it (evidence_checks).
CitationsAreEarned ==
    critic # "none" =>
        \A n \in 1..Len(worksheet) :
            LET f == worksheet[n]
            IN  /\ DOMAIN f.checks = Known(drafts[f.of])
                /\ f.kept = {e \in DOMAIN f.checks : f.checks[e] = "supported"}
                /\ \A e \in DOMAIN f.checks : f.checks[e] # "contradicted"

\* The confidence a finding of a model shows is what its surviving citations
\* alone would have been given, whichever way the count was arrived at (module
\* docstring of evidence_critic.py: re-composed, and can only drop); below the
\* 0.4 of critique are exactly the findings left without a citation. The stub
\* is held to no more than that where a citation of its was stripped.
ConfidenceIsComposed ==
    \A n \in 1..Len(worksheet) :
        LET f   == worksheet[n]
            due == Composed(Cited(drafts[f.of], f.kept))
        IN  /\ generator = "model" =>
                   /\ f.conf = due
                   /\ f.conf < 40 <=> f.kept = {}
            /\ f.kept # Known(drafts[f.of]) => f.conf <= due

\* What stands in the body has earned its tags, its citations and its
\* confidence, whatever the generator and the critic answered.
FindingsAreEarned == BodyIsGrounded /\ CitationsAreEarned /\ ConfidenceIsComposed
=============================================================================
