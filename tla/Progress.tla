------------------------------ MODULE Progress ------------------------------
(***************************************************************************)
(* ProgressService: assessments with their criteria and results, the       *)
(* corrections of published results, and progress reports with the         *)
(* replacements that supersede them.                                       *)
(*                                                                         *)
(* Every command is one transaction that locks its assessment or report    *)
(* first, so it is one action.  Scores are hundredths, small here.  A      *)
(* student stands for the enrollment the result or report is about.        *)
(* Titles, comments, notes and listings are left out.                      *)
(***************************************************************************)
EXTENDS Naturals, Sequences, FiniteSets, FiniteSetsExt, SequencesExt

CONSTANTS
    Assessments,
    Modes,           \* subset of SIMPLE and RUBRIC
    Gradees,
    ReportPeriods,
    MaxScores,       \* the maxima assessments and criteria are given
    NoScore,
    MaxCriteria, MaxRevisions, MaxReports   \* bounds

ASSUME ProgressAssumption ==
    /\ Modes \subseteq {"SIMPLE", "RUBRIC"}
    /\ MaxScores \subseteq Nat \ {0} /\ NoScore \notin Nat
    /\ MaxCriteria \in Nat /\ MaxRevisions \in Nat /\ MaxReports \in Nat

VARIABLES
    assessments,  \* [status, mode, max, criteria]
    results,      \* of an assessment and a student: none or one
    revisions,    \* assessment_result_revisions, oldest first
    progress      \* progress_reports, oldest first

progressVars == <<assessments, results, revisions, progress>>

Scores == {NoScore} \cup UNION {0..m : m \in MaxScores}
Rubrics == UNION {[1..n -> MaxScores] : n \in 1..MaxCriteria}
PartScores == UNION {[1..n -> UNION {0..m : m \in MaxScores}] : n \in 0..MaxCriteria}

Total(parts) == FoldSeq(+, 0, parts)

Unwritten == [status |-> "none", score |-> NoScore, parts |-> << >>]

ProgressInit ==
    /\ assessments = [a \in Assessments |-> [status |-> "none", mode |-> "SIMPLE", max |-> 0, criteria |-> << >>]]
    /\ results = [a \in Assessments |-> [g \in Gradees |-> Unwritten]]
    /\ revisions = << >>
    /\ progress = << >>

-----------------------------------------------------------------------------
(* Validation *)

\* validateAssessment
Structured(mode, max, criteria) ==
    \/ mode = "SIMPLE" /\ criteria = << >>
    \/ mode = "RUBRIC" /\ criteria # << >> /\ Total(criteria) = max

\* validateResult: what an input must be; a rubric derives its score.
Valid(a, input) ==
    \/ input.status = "EXEMPT" /\ input.score = NoScore /\ input.parts = << >>
    \/ /\ input.status = "GRADED" /\ assessments[a].mode = "SIMPLE"
       /\ input.score # NoScore /\ input.score <= assessments[a].max
       /\ input.parts = << >>
    \/ /\ input.status = "GRADED" /\ assessments[a].mode = "RUBRIC"
       /\ input.score = NoScore
       /\ Len(input.parts) = Len(assessments[a].criteria)
       /\ \A n \in DOMAIN input.parts : input.parts[n] <= assessments[a].criteria[n]

Computed(a, input) ==
    [input EXCEPT !.score = IF assessments[a].mode = "RUBRIC" /\ input.status = "GRADED" THEN Total(input.parts) ELSE @]

Inputs == [status : {"GRADED", "EXEMPT"}, score : Scores, parts : PartScores]

-----------------------------------------------------------------------------
(* Assessments *)

\* Mutation: results are edited until the assessment is archived.
NotArchived(a) == assessments[a].status \in {"DRAFT", "PUBLISHED"}

Editable(a) == assessments[a].status = "DRAFT"

CreateAssessment(a, mode, max, criteria) ==
    /\ assessments[a].status = "none"
    /\ Structured(mode, max, criteria)
    /\ assessments' = [assessments EXCEPT ![a] = [status |-> "DRAFT", mode |-> mode, max |-> max, criteria |-> criteria]]
    /\ UNCHANGED <<results, revisions, progress>>

\* updateAssessment: the stored results are not looked at.
UpdateMax(a, max) ==
    /\ assessments[a].status = "DRAFT"
    /\ assessments[a].mode = "SIMPLE"   \* a rubric's is the sum of its criteria
    /\ assessments' = [assessments EXCEPT ![a].max = max]
    /\ UNCHANGED <<results, revisions, progress>>

\* Mutation: criteria are deleted with the scores given for them.
Cascade(a) == TRUE

\* A criterion that is scored cannot be deleted (foreign key).
Deletable(a) == \A g \in Gradees : results[a][g].parts = << >>

\* Mutation: the maximum stays as it was.
KeptMax(a, criteria) == assessments[a].max

RubricMax(a, criteria) == Total(criteria)

ReplaceCriteria(a, criteria) ==
    /\ assessments[a].status = "DRAFT" /\ assessments[a].mode = "RUBRIC"
    /\ Deletable(a)
    /\ assessments' = [assessments EXCEPT ![a].criteria = criteria, ![a].max = RubricMax(a, criteria)]
    /\ UNCHANGED <<results, revisions, progress>>

SaveResults(a, inputs) ==
    /\ Editable(a)
    /\ \A g \in DOMAIN inputs : Valid(a, inputs[g])
    /\ results' = [results EXCEPT ![a] =
                     [g \in Gradees |-> IF g \in DOMAIN inputs THEN Computed(a, inputs[g]) ELSE @[g]]]
    /\ UNCHANGED <<assessments, revisions, progress>>

\* Mutation: stored results are not validated again.
Trusted(a) == TRUE

\* Each stored result is validated as if it were an input: its score is
\* passed on also where the rubric derives it.
Publishable(a) == \A g \in Gradees : results[a][g] # Unwritten => Valid(a, results[a][g])

PublishAssessment(a) ==
    /\ assessments[a].status = "DRAFT"
    /\ Structured(assessments[a].mode, assessments[a].max, assessments[a].criteria)
    /\ Publishable(a)
    /\ assessments' = [assessments EXCEPT ![a].status = "PUBLISHED"]
    /\ UNCHANGED <<results, revisions, progress>>

ArchiveAssessment(a) ==
    /\ assessments[a].status = "PUBLISHED"
    /\ assessments' = [assessments EXCEPT ![a].status = "ARCHIVED"]
    /\ UNCHANGED <<results, revisions, progress>>

\* What is not given is taken from the result, the derived score too.
Merged(old, input) ==
    IF input.status = "EXEMPT" THEN [status |-> "EXEMPT", score |-> NoScore, parts |-> << >>]
    ELSE [input EXCEPT !.score = IF @ = NoScore THEN old.score ELSE @]

\* The check that something has changed compares rows of different columns,
\* which always differ: a correction to the same result is recorded, too.
CorrectResult(a, g, input) ==
    /\ results[a][g] # Unwritten
    /\ assessments[a].status = "PUBLISHED"
    /\ Len(revisions) < MaxRevisions
    /\ LET merged == Merged(results[a][g], input)
           after == Computed(a, merged)
       IN /\ Valid(a, merged)
          /\ results' = [results EXCEPT ![a][g] = after]
          /\ revisions' = Append(revisions, [of |-> <<a, g>>, before |-> results[a][g], after |-> after])
    /\ UNCHANGED <<assessments, progress>>

-----------------------------------------------------------------------------
(* Reports *)

Draft(g, period, supersedes) ==
    /\ Len(progress) < MaxReports
    /\ progress' = Append(progress, [student |-> g, period |-> period, status |-> "DRAFT", supersedes |-> supersedes,
                                     snapshot |-> {}])

CreateReport(g, period) == Draft(g, period, 0) /\ UNCHANGED <<assessments, results, revisions>>

\* Mutation: published reports are edited and published again.
AnyReport(r) == TRUE

DraftReport(r) == progress[r].status = "DRAFT"

UpdateReport(r, period) ==
    /\ DraftReport(r)
    /\ progress' = [progress EXCEPT ![r].period = period]
    /\ UNCHANGED <<assessments, results, revisions>>

\* The results a snapshot shows: reportSnapshot and studentProgressSummary.
Snapshot(g) == {<<a, results[a][g]>> : a \in {b \in Assessments : assessments[b].status = "PUBLISHED"
                                                               /\ results[b][g] # Unwritten}}

\* Mutation: the replaced report stays published.
KeptLive(r) == {}

Replaced(r) == {p \in DOMAIN progress : p = progress[r].supersedes}

\* Mutation: no index over the published reports of a period.
AnyPeriod(r) == TRUE

PeriodFree(r) ==
    \A p \in DOMAIN progress : (/\ progress[p].status = "PUBLISHED"
                                /\ p # progress[r].supersedes
                                /\ progress[p].student = progress[r].student) => progress[p].period # progress[r].period

PublishReport(r) ==
    /\ DraftReport(r)
    /\ progress[r].supersedes # 0 => progress[progress[r].supersedes].status = "PUBLISHED"
    /\ PeriodFree(r)
    /\ progress' = [p \in DOMAIN progress |->
                      IF p = r THEN [progress[r] EXCEPT !.status = "PUBLISHED", !.snapshot = Snapshot(progress[r].student)]
                      ELSE IF p \in Replaced(r) THEN [progress[p] EXCEPT !.status = "SUPERSEDED"] ELSE progress[p]]
    /\ UNCHANGED <<assessments, results, revisions>>

Replaceable(r) == \A p \in DOMAIN progress : progress[p].supersedes # r

ReplaceReport(r, period) ==
    /\ progress[r].status = "PUBLISHED"
    /\ Replaceable(r)
    /\ Draft(progress[r].student, period, r)
    /\ UNCHANGED <<assessments, results, revisions>>

\* progressReport: what it counts of g as GRADED and as EXEMPT; the average is that
\* of the scores of the graded ones.
Reported(g, status) ==
    {a \in Assessments : assessments[a].status = "PUBLISHED" /\ results[a][g].status = status}

-----------------------------------------------------------------------------

AssessmentStep ==
    \E a \in Assessments :
        \/ \E mode \in Modes, max \in 1..(MaxCriteria * Max(MaxScores)), criteria \in Rubrics \cup {<< >>} :
            (mode = "SIMPLE" => max \in MaxScores) /\ CreateAssessment(a, mode, max, criteria)
        \/ \E max \in MaxScores : UpdateMax(a, max)
        \/ \E criteria \in Rubrics : ReplaceCriteria(a, criteria)
        \/ \E gs \in SUBSET Gradees \ {{}} : \E inputs \in [gs -> {i \in Inputs : Valid(a, i)}] : SaveResults(a, inputs)
        \/ PublishAssessment(a)
        \/ ArchiveAssessment(a)
        \/ \E g \in Gradees, input \in Inputs : CorrectResult(a, g, input)

ReportStep ==
    \E period \in ReportPeriods :
        \/ \E g \in Gradees : CreateReport(g, period)
        \/ \E r \in DOMAIN progress : UpdateReport(r, period) \/ PublishReport(r) \/ ReplaceReport(r, period)

ProgressNext == AssessmentStep \/ ReportStep

ProgressSpec == ProgressInit /\ [][ProgressNext]_progressVars

-----------------------------------------------------------------------------
(* Properties *)

\* Types.
ProgressTypeOK ==
    /\ \A a \in Assessments, g \in Gradees : results[a][g].score \in Nat \cup {NoScore}
    /\ \A a \in Assessments : assessments[a].status # "none" =>
        Structured(assessments[a].mode, assessments[a].max, assessments[a].criteria)
    /\ \A r \in DOMAIN progress : progress[r].supersedes < r

\* No published score is above its maximum, however the maximum was changed
\* while the assessment was a draft.
PublishedWithinMax ==
    \A a \in Assessments, g \in Gradees :
        (assessments[a].status \in {"PUBLISHED", "ARCHIVED"} /\ results[a][g].score # NoScore)
            => results[a][g].score <= assessments[a].max

\* Also in a draft: a rubric's graded result has one score for each criterion
\* there is now, within its maximum, and their sum.
RubricComplete ==
    \A a \in Assessments, g \in Gradees :
        (assessments[a].mode = "RUBRIC" /\ results[a][g].status = "GRADED") =>
            /\ DOMAIN results[a][g].parts = DOMAIN assessments[a].criteria
            /\ \A n \in DOMAIN assessments[a].criteria : results[a][g].parts[n] <= assessments[a].criteria[n]
            /\ results[a][g].score = FoldSeq(+, 0, results[a][g].parts)

\* The revisions of a result lead from one to the next and to the result as it
\* is: nothing but a correction changes what is published.
RevisionsExplain ==
    \A n \in DOMAIN revisions :
        LET later == {m \in DOMAIN revisions : m > n /\ revisions[m].of = revisions[n].of}
        IN revisions[n].after =
            IF later = {} THEN results[revisions[n].of[1]][revisions[n].of[2]] ELSE revisions[Min(later)].before

\* A student has one published report for a period, also after drafts were
\* moved to it.
OneReportPerPeriod ==
    \A p, r \in DOMAIN progress :
        (/\ p # r /\ progress[p].status = "PUBLISHED" /\ progress[r].status = "PUBLISHED"
         /\ progress[p].student = progress[r].student) => progress[p].period # progress[r].period

\* Replacing reports makes a line: a report is superseded by the one report
\* that replaced it, when and only when that one is published.
OneSuccessor ==
    \A r \in DOMAIN progress :
        LET next == {p \in DOMAIN progress : progress[p].supersedes = r}
        IN /\ Cardinality(next) <= 1
           /\ (progress[r].status = "SUPERSEDED") = (\E p \in next : progress[p].status # "DRAFT")

\* What a published report says does not change.
SnapshotIsFixed ==
    [][\A r \in DOMAIN progress : progress[r].status # "DRAFT" =>
        progress'[r].snapshot = progress[r].snapshot /\ progress'[r].status # "DRAFT"]_progressVars

\* The figures of a student change when an assessment is published or archived, or by
\* a correction that is on record; never by what is still a draft.
Accounted(a, g) ==
    \/ assessments'[a].status # assessments[a].status
    \/ \A status \in {"GRADED", "EXEMPT"} :
          /\ (a \in Reported(g, status)) = (a \in Reported(g, status)')
          /\ a \in Reported(g, status) => results'[a][g].score = results[a][g].score
    \/ \E n \in DOMAIN revisions' \ DOMAIN revisions : revisions'[n].of = <<a, g>>

FiguresExplained == [][\A a \in Assessments, g \in Gradees : Accounted(a, g)]_progressVars

\* What is graded, published and reported, in one.
ProgressSafe ==
    /\ [](/\ ProgressTypeOK /\ PublishedWithinMax /\ RubricComplete /\ RevisionsExplain
          /\ OneReportPerPeriod /\ OneSuccessor)
    /\ SnapshotIsFixed
    /\ FiguresExplained

\* docs/product/progress-assessment.md: publishing validates all stored
\* results; so a draft whose graded results are complete can be published.
CompleteIsPublishable ==
    \A a \in Assessments :
        (assessments[a].status = "DRAFT" /\ assessments[a].mode = "RUBRIC") =>
            \/ \E g \in Gradees : results[a][g].status = "GRADED" /\ DOMAIN results[a][g].parts # DOMAIN assessments[a].criteria
            \/ Publishable(a)

=============================================================================
