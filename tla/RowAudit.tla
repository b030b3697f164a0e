------------------------------ MODULE RowAudit ------------------------------
(* What is told of a worksheet row afterwards, by code that sees the row     *)
(* alone: the fabrication audit and its expert sheet (hazop/mdl/             *)
(* fabrication.py), the tag audit of the released text (mdl/grounding.py),   *)
(* the critique (s3_are/reasoner/critic.py) and the hallucination rate       *)
(* (mdl/metrics.py). The gate's run over the findings is in EvidenceGate.    *)
EXTENDS EvidenceGate

CONSTANTS Hidden,     \* invented tags the tag pattern does not see: not of its
                      \* shape, or with the prefix of a standards body
          SampleSize  \* of the expert sheet

ASSUME AuditAssumption ==
    /\ Hidden \cap (Tags \cup Ghosts) = {}
    /\ SampleSize \in Nat

VARIABLES facts,   \* confidences of the topology safeguards added to the row
          texts,   \* the tags the text of each finding names
          report

auditVars == <<facts, texts, report>>

None == <<>>

AuditInit == facts = {} /\ texts = <<>> /\ report = None

----------------------------------------------------------------------------
(* mdl/fabrication.py                                                        *)

\* Mutant of OriginallyCited: only what still stands was ever cited.
CitedStill(f) == f.kept # {}

OriginallyCited(f) == DOMAIN f.checks # {} \/ f.kept # {}

HasFailedCheck(f) == \E e \in DOMAIN f.checks : f.checks[e] # "supported"

\* _citations: the verdict shown beside a citation.
ShownVerdict(f, e) == IF e \in DOMAIN f.checks THEN f.checks[e] ELSE "unchecked"

Body == 1..Len(worksheet)
Candidates == {n \in Body : worksheet[n].kept # {}}

\* Findings of the body by what they were, and those the gate refused.
Bearing == {n \in Body : OriginallyCited(worksheet[n])}
Checked == {n \in Body : DOMAIN worksheet[n].checks # {}}
Failing == {n \in Body : HasFailedCheck(worksheet[n])}
Refused == {n \in DOMAIN audit : audit[n].reason = "evidence_contradicted"}

\* Released with some citation that shows no "supported".
Unverified == {n \in Candidates : \E e \in worksheet[n].kept :
                                    ShownVerdict(worksheet[n], e) # "supported"}

\* The expert sheet: a line for each citation of the findings in the sample.
Sheet(sample) == UNION {{<<worksheet[n].of, e, ShownVerdict(worksheet[n], e)>> :
                            e \in worksheet[n].kept} : n \in sample}

\* build_fabrication_report for a sample of the candidates.
Fabrication(sample) ==
    [bearing    |-> Cardinality(Bearing) + Cardinality(Refused),
     checked    |-> Cardinality(Checked) + Cardinality(Refused),
     failures   |-> Cardinality(Failing) + Cardinality(Refused),
     unverified |-> Cardinality(Unverified),
     sheet      |-> Sheet(sample)]

----------------------------------------------------------------------------
(* mdl/grounding.py, critic.py, mdl/metrics.py                               *)

\* extract_tag_references: what has the shape of a tag and not the prefix of a
\* standard, and every known tag.
References(text) == text \ Hidden

Ungrounded(named) == [n \in Body |-> References(named[n]) \ Tags]

\* min_confidence: 0 of a row without findings.
MinConfidence(added) ==
    LET all == {worksheet[n].conf : n \in Body} \cup added
    IN  IF all = {} THEN 0 ELSE Min(all)

\* critique of the row, and its part in the hallucination rate.
Flags(added) ==
    [low         |-> MinConfidence(added) < 40,
     unsupported |-> \E n \in Body : worksheet[n].kept = {},
     rejected    |-> Len(audit),
     accepted    |-> Len(worksheet) + Cardinality(added)]

\* The row is complete: the topology's safeguards, whose confidence is 0.99 or
\* 0.60, are in it; what its texts name was the generator's to choose.
Audit(added, named) ==
    /\ phase = "emitted" /\ report = None
    /\ facts' = added
    /\ texts' = named
    /\ \E sample \in SUBSET Candidates :
          /\ Cardinality(sample) =
                IF Cardinality(Candidates) <= SampleSize
                THEN Cardinality(Candidates) ELSE SampleSize
          /\ report' = [fabrication |-> Fabrication(sample),
                        ungrounded |-> Ungrounded(named), flags |-> Flags(added)]
    /\ UNCHANGED vars

Words == Tags \cup Ghosts \cup Hidden

AuditNext ==
    \/ Next /\ UNCHANGED auditVars
    \/ \E added \in SUBSET {60, 99}, named \in [Body -> SUBSET Words] : Audit(added, named)

AuditSpec == Init /\ AuditInit /\ [][AuditNext]_<<vars, auditVars>>

----------------------------------------------------------------------------
(* Property.                                                                 *)

\* The audits, which see what is left in the row, tell what the gate did with
\* what was generated:
\* - every finding that cited a known source is counted once, stripped and
\*   refused ones included (module docstring of fabrication.py), and counted a
\*   failure exactly when some citation of its did not stand;
\* - nothing is released with an unverified citation when Stage B is on, and
\*   everything is when it is off; a sheet shows each citation with its verdict;
\* - with the gate on, a tag found ungrounded is one the finding did not
\*   declare; a tag of the plant never is;
\* - a row is low on confidence when it holds a finding without support, or
\*   nothing, and then only, and the hallucination rate has every draft.
AuditAgreesWithGate ==
    report # None =>
        LET cited == {i \in DOMAIN drafts :
                        Known(drafts[i]) # {} /\ ~Groundless(drafts[i])}
            whole == {worksheet[n].of : n \in {m \in Body : LET f == worksheet[m]
                         IN f.kept # {} /\ f.kept = Known(drafts[f.of])}}
            r     == report.fabrication
        IN  /\ r.bearing = Cardinality(cited)
            /\ critic = "none" =>
                  r.checked = 0 /\ r.failures = 0 /\ r.unverified = Cardinality(cited)
            /\ critic # "none" =>
                  /\ r.checked = Cardinality(cited)
                  /\ r.failures = Cardinality(cited \ whole)
                  /\ r.unverified = 0
                  /\ \A line \in r.sheet : line[3] = "supported"
            /\ \A line \in r.sheet : line[2] \in Known(drafts[line[1]])
            /\ \A n \in Body :
                  LET odd == report.ungrounded[n]
                  IN  /\ odd \cap Tags = {}
                      /\ gate => odd \cap drafts[worksheet[n].of].tags = {}
            /\ generator = "model" =>
                  (report.flags.low <=> report.flags.unsupported
                                        \/ (worksheet = <<>> /\ facts = {}))
            /\ report.flags.rejected + report.flags.accepted
                  = Len(drafts) + Cardinality(facts)
=============================================================================
