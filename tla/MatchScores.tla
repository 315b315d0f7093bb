----------------------------- MODULE MatchScores -----------------------------
(* The scores of a candidate's jobs: the lists of the sources are merged, the  *)
(* best jobs are enriched and graded, the rows are listed, and the panel of    *)
(* one job reads its skills and its true score, which is stored with the row.  *)
(* Scores are in tenths of a percent, as the two shapes the code stores: a     *)
(* number up to 1 (10 tenths) is read as a fraction, a greater one as percent. *)
EXTENDS Integers, Sequences, FiniteSets, SequencesExt

CONSTANTS Jobs,
          Own,             \* the jobs of the tenant's own company
          Answers,         \* what the sources may answer: sequences of [job, score, slug]
          Real,            \* [job] -> its true score, in tenths of a percent
          Required,        \* [job] -> the skills it asks for
          Has,             \* the skills of the candidate
          EnrichLimit, TopN,
          MaxOpens, MaxFaults

VARIABLES answers,         \* what the sources answered
          merged,          \* [job] -> its best answer
          graded,          \* [job] -> the true score found by the run
          toGrade,         \* jobs whose enrichment is under way
          rows,            \* [job] -> the stored row
          calls,           \* the requests of the panels that were opened
          panel,           \* the request of the open panel, 0 when closed
          shown,           \* what it shows
          stage, faults

vars == <<answers, merged, graded, toGrade, rows, calls, panel, shown, stage, faults>>

None == -1
NoSlug == "no source"
Sentinel == 10             \* the score 1 of a job that the match cannot grade

-----------------------------------------------------------------------------
(* The percent that is shown.                                                  *)

\* The table of the platform, (raw, shown) in tenths.
Calibration == <<<<0, 0>>, <<300, 400>>, <<450, 600>>, <<500, 667>>, <<600, 800>>,
                 <<660, 830>>, <<800, 900>>, <<900, 910>>, <<1000, 920>>>>

Smooth(x) ==
    IF x >= 1000 THEN 92
    ELSE LET i == CHOOSE i \in 1 .. Len(Calibration) - 1 :
                      Calibration[i][1] <= x /\ x < Calibration[i + 1][1]
             a == Calibration[i]
             b == Calibration[i + 1]
         IN  (a[2] + ((x - a[1]) * (b[2] - a[2])) \div (b[1] - a[1]) + 5) \div 10

toPercent(score) == Smooth(IF score <= 10 THEN score * 100 ELSE score)

-----------------------------------------------------------------------------
(* The run.                                                                    *)

Merge(m, n) ==
    [j \in DOMAIN m \union {n.job} |->
        IF j # n.job THEN m[j]
        ELSE IF j \notin DOMAIN m THEN [score |-> n.score, slug |-> n.slug, at |-> Cardinality(DOMAIN m)]
        ELSE LET winner == IF n.score > m[j].score THEN n ELSE m[j]
                 other  == IF n.score > m[j].score THEN m[j] ELSE n
             IN  [m[j] EXCEPT !.score = winner.score,
                              !.slug = IF winner.slug = NoSlug THEN other.slug ELSE winner.slug]]
MergedAnswers(given) == FoldLeft(Merge, [j \in {} |-> {}], given)

Reliable(j, score) == j \in Own \/ score # Sentinel

\* The jobs by score; those of one score in the order they came.
ByScore(m) ==
    SetToSortSeq(DOMAIN m, LAMBDA a, b : \/ m[a].score > m[b].score
                                         \/ m[a].score = m[b].score /\ m[a].at < m[b].at)
First(s, n) == SubSeq(s, 1, IF n < Len(s) THEN n ELSE Len(s))
ToEnrich(m) == Range(First(ByScore(m), EnrichLimit))
GradeTargets(m) == Range(First(SelectSeq(ByScore(m), LAMBDA j : ~Reliable(j, m[j].score)), TopN))

ScoresInit ==
    /\ answers \in Answers
    /\ merged = MergedAnswers(answers)
    /\ graded = [j \in DOMAIN merged |-> None]
    /\ toGrade = ToEnrich(merged)
    /\ rows = [j \in {} |-> {}]
    /\ calls = <<>>
    /\ panel = 0 /\ shown = "nothing"
    /\ stage = "enriching"
    /\ faults = 0

Fault == faults < MaxFaults /\ faults' = faults + 1

\* The enrichment of a job; for a target the true score too, unless that fails.
Enrich(j) ==
    /\ stage = "enriching" /\ j \in toGrade
    /\ toGrade' = toGrade \ {j}
    /\ IF j \in GradeTargets(merged)
       THEN \/ graded' = [graded EXCEPT ![j] = Real[j]] /\ UNCHANGED faults
            \/ Fault /\ UNCHANGED graded
       ELSE UNCHANGED <<graded, faults>>
    /\ UNCHANGED <<answers, merged, rows, calls, panel, shown, stage>>

Row(j) ==
    [score |-> IF graded[j] # None THEN graded[j] ELSE merged[j].score,
     reliable |-> graded[j] # None \/ Reliable(j, merged[j].score)]
WriteRows ==
    /\ stage = "enriching" /\ toGrade = {}
    /\ rows' = [j \in DOMAIN merged |-> Row(j)]
    /\ stage' = "listed"
    /\ UNCHANGED <<answers, merged, graded, toGrade, calls, panel, shown, faults>>

\* The list: the reliable scores first, then the greater ones.
Before(a, b) ==
    IF rows[a].reliable # rows[b].reliable THEN rows[a].reliable
    ELSE rows[a].score > rows[b].score

-----------------------------------------------------------------------------
(* The panel of a job.                                                         *)

Open(j) ==
    /\ stage = "listed" /\ panel = 0 /\ Len(calls) < MaxOpens
    /\ j \in DOMAIN rows
    /\ calls' = Append(calls, [job |-> j, pc |-> "reading", unreliable |-> ~rows[j].reliable,
                               jobSkills |-> FALSE, talent |-> FALSE, detail |-> FALSE, score |-> None,
                               skills |-> {}])
    /\ panel' = Len(calls) + 1
    /\ shown' = "loading"
    /\ UNCHANGED <<answers, merged, graded, toGrade, rows, stage, faults>>

Close ==
    /\ panel # 0
    /\ panel' = 0 /\ shown' = "nothing"
    /\ UNCHANGED <<answers, merged, graded, toGrade, rows, calls, stage, faults>>

Fails(results) == ~results.jobSkills /\ ~results.detail
Read(c) ==
    /\ calls[c].pc = "reading"
    /\ \E results \in [jobSkills : BOOLEAN, talent : BOOLEAN, detail : BOOLEAN] :
         LET j == calls[c].job
             missed == (IF results.jobSkills \/ j \notin Own THEN 0 ELSE 1)
                       + (IF results.talent THEN 0 ELSE 1) + (IF results.detail THEN 0 ELSE 1)
         IN  /\ results.jobSkills => j \in Own
             /\ faults + missed <= MaxFaults /\ faults' = faults + missed
             /\ calls' = [calls EXCEPT ![c].jobSkills = results.jobSkills,
                                       ![c].talent = results.talent, ![c].detail = results.detail,
                                       ![c].pc = IF Fails(results) THEN "failed" ELSE "comparing"]
    /\ UNCHANGED <<answers, merged, graded, toGrade, rows, panel, shown, stage>>

Matched(j, talent) == [s \in Required[j] |-> talent /\ s \in Has]

\* The gap analysis, when the job gave no skills or its score is not to be relied on.
NeedsGap(c) == ~calls[c].jobSkills \/ Required[calls[c].job] = {} \/ calls[c].unreliable
Compare(c) ==
    /\ calls[c].pc = "comparing"
    /\ LET j == calls[c].job
           breakdown(known) == IF known THEN {Matched(j, calls[c].talent)} ELSE {}
           own == calls[c].jobSkills
       IN  \/ /\ ~NeedsGap(c)
              /\ calls' = [calls EXCEPT ![c].skills = breakdown(own), ![c].pc = "answer"]
              /\ UNCHANGED faults
           \/ /\ NeedsGap(c)
              /\ calls' = [calls EXCEPT ![c].skills = breakdown(TRUE), ![c].score = Real[j], ![c].pc = "storing"]
              /\ UNCHANGED faults
           \/ /\ NeedsGap(c) /\ Fault
              /\ calls' = [calls EXCEPT ![c].skills = breakdown(own), ![c].pc = "answer"]
    /\ UNCHANGED <<answers, merged, graded, toGrade, rows, panel, shown, stage>>

StoredRow(c) == [score |-> calls[c].score, reliable |-> TRUE]
Store(c) ==
    /\ calls[c].pc = "storing"
    /\ calls' = [calls EXCEPT ![c].pc = "answer"]
    /\ \/ rows' = [rows EXCEPT ![calls[c].job] = StoredRow(c)] /\ UNCHANGED faults
       \/ Fault /\ UNCHANGED rows
    /\ UNCHANGED <<answers, merged, graded, toGrade, panel, shown, stage>>

Reaches(c) == panel = c
Answer(c) ==
    /\ calls[c].pc \in {"answer", "failed"}
    /\ calls' = [calls EXCEPT ![c].pc = IF calls[c].pc = "failed" THEN "told" ELSE "done"]
    /\ shown' = IF Reaches(c) THEN (IF calls[c].pc = "failed" THEN "error" ELSE calls[c].job) ELSE shown
    /\ UNCHANGED <<answers, merged, graded, toGrade, rows, panel, stage, faults>>

Ring(c) ==
    IF calls[c].pc = "done" /\ calls[c].score # None
    THEN Smooth(calls[c].score)
    ELSE IF ~calls[c].unreliable THEN toPercent(rows[calls[c].job].score) ELSE None

CallStep(c) == Read(c) \/ Compare(c) \/ Store(c) \/ Answer(c)

ScoresNext ==
    \/ \E j \in Jobs : Enrich(j) \/ Open(j)
    \/ WriteRows \/ Close
    \/ \E c \in DOMAIN calls : CallStep(c)

ScoresSpec == ScoresInit /\ [][ScoresNext]_vars
AnswerCall(c) == c \in DOMAIN calls /\ CallStep(c)
LiveScoresSpec == ScoresSpec /\ \A c \in 1 .. MaxOpens : WF_vars(AnswerCall(c))

-----------------------------------------------------------------------------
\* Types of the variables.
TypeOK ==
    /\ DOMAIN merged \subseteq Jobs /\ DOMAIN graded = DOMAIN merged
    /\ toGrade \subseteq DOMAIN merged
    /\ \A j \in DOMAIN rows : rows[j].score \in Nat /\ rows[j].reliable \in BOOLEAN
    /\ panel \in 0 .. Len(calls) /\ Len(calls) <= MaxOpens
    /\ stage \in {"enriching", "listed"} /\ faults \in 0 .. MaxFaults

\* No job of another company is listed with the 100% of a match that was not graded:
\* a reliable score is its true one or one its source gave.
NoFakeScore ==
    \A j \in DOMAIN rows \ Own :
        rows[j].reliable =>
            \/ rows[j].score = Real[j]
            \/ rows[j].score = merged[j].score /\ merged[j].score # Sentinel

\* A job that a named source answered keeps a source whichever answer won.
SourceKept ==
    \A i \in DOMAIN answers : answers[i].slug # NoSlug => merged[answers[i].job].slug # NoSlug

\* "a BOUNDED head of the list": when no grading failed, TopN of the jobs that the list
\* cannot grade have their true score.
HeadGraded ==
    stage = "listed" /\ faults = 0 =>
        Cardinality({j \in DOMAIN rows : ~rows[j].reliable})
            <= LET ungraded == Cardinality({j \in DOMAIN merged \ Own : merged[j].score = Sentinel})
               IN  IF ungraded > TopN THEN ungraded - TopN ELSE 0

\* "all stay on one consistent scale": a true score is the same percent in the panel and
\* in the list, and no job is listed below one that shows less.
OneScale ==
    \A c \in DOMAIN calls :
        calls[c].score # None /\ calls[c].pc = "done" /\ rows[calls[c].job].score = Real[calls[c].job]
            => Ring(c) = toPercent(rows[calls[c].job].score)
SortedAsShown ==
    \A a, b \in DOMAIN rows :
        rows[a].reliable /\ rows[b].reliable /\ Before(a, b)
            => toPercent(rows[a].score) >= toPercent(rows[b].score)

\* A job of which the skills or the detail came has a panel, whatever else failed.
DetailShown ==
    \A c \in DOMAIN calls : calls[c].pc \in {"failed", "told"} => ~calls[c].detail /\ ~calls[c].jobSkills

\* A skill is said to be there only if the candidate has it.
MatchedTrue ==
    \A c \in DOMAIN calls : \A f \in calls[c].skills : \A s \in DOMAIN f : f[s] => s \in Has

\* The open panel shows its own job, however late the answer of another one comes.
OwnAnswer == shown \in {"nothing", "loading", "error"} \/ (panel # 0 /\ shown = calls[panel].job)

\* A panel that stays open gets its answer.
Waits(n) == panel = n /\ shown = "loading"

\* "True when the candidate has this skill": and false only when not.
MissingTrue ==
    \A c \in DOMAIN calls : \A f \in calls[c].skills : \A s \in DOMAIN f : ~f[s] => s \notin Has

\* "Everything else is genuine and MUST be shown immediately".
GenuineShown ==
    stage = "listed" =>
        \A i \in DOMAIN answers : answers[i].score # Sentinel => rows[answers[i].job].reliable
=============================================================================
